------------------------- MODULE TrigScintRawDecode -------------------------
(***************************************************************************)
(* TSevent, which makes time samples of the words of the two fibers of an  *)
(* event of the trigger scintillator.  A word has 16 bits.                 *)
(***************************************************************************)
EXTENDS Integers, SequencesExt

Quads == 0 .. 7    (* the channels of a fiber                              *)

Bytes(word) == <<word % 256, word \div 256>>

(* 0xBC or 0xFC in the high byte, whatever the word is.                    *)
start_of_time_sample(word) == word \div 256 \in {188, 252}

EmptyQIE ==
  [adc |-> [q \in Quads |-> 0], tdc |-> [q \in Quads |-> 0], cid |-> 0]

TDCs(data) == data[11] * 256 + data[12]

(* The byte that says how the sample began.                                *)
CapId(data) == (data[2] \div 4) % 4

(* Of the wrong number of bytes nothing is taken.                          *)
add_data(data) ==
  IF Len(data) # 12 THEN EmptyQIE ELSE
    [adc |-> [q \in Quads |-> data[q + 3]],
     tdc |-> [q \in Quads |-> (TDCs(data) \div 4^q) % 4],
     cid |-> CapId(data)]

-----------------------------------------------------------------------------
(* The state of reading: no sample has begun (first), how many words have  *)
(* been read (iword, which only matters below 2), the bytes of the sample  *)
(* that is being read, those before the first sample, and the samples.     *)
Began(s, word) == ~s.first /\ start_of_time_sample(word)

Buffered(s, word) ==
  (IF Began(s, word) THEN << >> ELSE s.buffer) \o Bytes(word)

ReadWord(s, word) ==
  LET next == [s EXCEPT !.iword = @ + 1]
  IN  IF s.iword < 2 THEN next
      ELSE IF s.first /\ ~start_of_time_sample(word)
        THEN [next EXCEPT !.res_buffer = @ \o Bytes(word)]
      ELSE [next EXCEPT
              !.first = FALSE,
              !.buffer = Buffered(s, word),
              !.qies = IF Began(s, word) THEN Append(@, add_data(s.buffer))
                                         ELSE @]

(* What is left at both ends of the fiber is one sample if it is as long   *)
(* as one.                                                                 *)
Ends(s) == s.buffer \o s.res_buffer

ReadFiber(first, iword, fiber) ==
  LET s == FoldLeft(ReadWord, [first |-> first, iword |-> iword, buffer |-> << >>,
                               res_buffer |-> << >>, qies |-> << >>], fiber)
  IN  IF Len(Ends(s)) = 12 THEN [s EXCEPT !.qies = Append(@, add_data(Ends(s)))]
                           ELSE s

(* The first samples of the fiber that has more are removed; the fault:    *)
(* the last ones are.                                                      *)
FirstOf(qies, n) == SubSeq(qies, 1, n)
LastOf(qies, n) == SubSeq(qies, Len(qies) - n + 1, Len(qies))

(* The time is the first two words of fiber 2, which are there, the high   *)
(* one first here.  Neither flag nor count starts anew for fiber 2.        *)
TSevent(fiber1, fiber2) ==
  LET s1 == ReadFiber(TRUE, 0, fiber1)
      s2 == ReadFiber(s1.first, s1.iword, fiber2)
      n  == IF Len(s1.qies) < Len(s2.qies) THEN Len(s1.qies) ELSE Len(s2.qies)
  IN  [time |-> <<fiber2[2], fiber2[1]>>,
       qie1_ |-> LastOf(s1.qies, n), qie2_ |-> LastOf(s2.qies, n)]

=============================================================================
