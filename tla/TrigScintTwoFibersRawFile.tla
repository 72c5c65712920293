---------------------- MODULE TrigScintTwoFibersRawFile ----------------------
(***************************************************************************)
(* The raw data of the trigger scintillator as eudaq writes it: words of   *)
(* 64 bits, an item each; events end in a word of ones, Boundary.          *)
(*                                                                         *)
(* next() takes its arguments of memcpy the wrong way round.  The word in  *)
(* "bytes" is overwritten with the timestamp, which is not initialised,    *)
(* and then every word read from the file is overwritten with "bytes":     *)
(* what next() works on is a word of its own, the same all the time.  Any  *)
(* member of Leftovers may be in that memory.                              *)
(***************************************************************************)
EXTENDS RawDataFile, SequencesExt

CONSTANT Leftovers    (* words of eight bytes that may be on the stack    *)

ASSUME LeftoversAssumption == Leftovers \subseteq Seq(0 .. 255)
                              /\ \A word \in Leftovers : Len(word) = 8

TwoFibersItem == [kind : {"word", "boundary"}]

Ones == [i \in 1 .. 8 |-> 255]

-----------------------------------------------------------------------------
(* TimeSample: the fields of the eleven bytes that the checks look at.     *)
Capid(sample) == (sample[1] \div 4) % 4
Ce(sample) == (sample[1] \div 2) % 2

(* The half words of a column of the fiber, the lower one of a word first, *)
(* without the two signal phrases.                                         *)
IsPhrase(half) == half \in {<<247, 251>>, <<188, 124>>}

KeepHalf(cleaned, half) == IF IsPhrase(half) THEN cleaned ELSE Append(cleaned, half)

Clean(cleaned, word) ==
  KeepHalf(KeepHalf(cleaned, <<word[3], word[4]>>), <<word[1], word[2]>>)

Cleaned(column) == FoldLeft(Clean, << >>, column)

(* The bytes between the separators.                                       *)
TakeByte(parts, byte) ==
  IF byte = 188 THEN Append(parts, << >>)
                ELSE [parts EXCEPT ![Len(parts)] = Append(@, byte)]

TakeHalf(parts, half) == TakeByte(TakeByte(parts, half[1]), half[2])

Split(halves) == FoldLeft(TakeHalf, << << >> >>, halves)

(* The parts that are taken for a sample; the fault: of any other size.    *)
IsAnySize(part) == part # << >>
IsSample(part) == Len(part) = 11

KeepSample(samples, part) ==
  IF IsSample(part) THEN Append(samples, part) ELSE samples

extract_timesamples(column) == FoldLeft(KeepSample, << >>, Split(Cleaned(column)))

(* The error codes of two fibers with as many samples each.                *)
SkipsCapid(fiber) ==
  \E i \in 2 .. Len(fiber) : (Capid(fiber[i - 1]) + 1) % 4 # Capid(fiber[i])

ErrorByte(fiber_1, fiber_2) ==
  [crc1 |-> \E i \in DOMAIN fiber_1 : Ce(fiber_1[i]) # 0,
   crc2 |-> \E i \in DOMAIN fiber_2 : Ce(fiber_2[i]) # 0,
   cid_unsync |-> \E i \in DOMAIN fiber_1 : Capid(fiber_1[i]) # Capid(fiber_2[i]),
   cid_skip |-> SkipsCapid(fiber_1) \/ SkipsCapid(fiber_2)]

-----------------------------------------------------------------------------
(* The constructor throws away the words up to the first boundary.         *)
Started(words) ==
  Min({i \in DOMAIN words : words[i].kind = "boundary"} \union {Len(words)})

NeverStarted(words) == \A i \in DOMAIN words : words[i].kind # "boundary"

(* How many words next() reads after the first: one if its own word looks  *)
(* like the boundary, else all there are and one more.                     *)
ReadsOneWord(word) == word = Ones

GiveTwoFibers(f) ==
  /\ pos[f] < Len(data[f]) /\ f \notin failed
  /\ \E word \in Leftovers :
       LET left     == Len(data[f]) - pos[f] - 1
           n        == IF ReadsOneWord(word) THEN 1 ELSE left + 1
           fiber_1  == extract_timesamples([i \in 1 .. n |-> SubSeq(word, 5, 8)])
           fiber_2  == extract_timesamples([i \in 1 .. n |-> SubSeq(word, 1, 4)])
       IN  /\ IF n <= left
                THEN pos' = [pos EXCEPT ![f] = @ + 1 + n] /\ UNCHANGED failed
                ELSE ReadFails(f)
           /\ IF Len(fiber_1) # Len(fiber_2)
                THEN GivesNothing(f)
                ELSE Gives(f, [at |-> pos[f] + 1, ts |-> word,
                               samples |-> Len(fiber_1),
                               errors |-> ErrorByte(fiber_1, fiber_2)])

NoMoreWords(f) ==
  /\ pos[f] = Len(data[f]) \/ f \in failed
  /\ ReadFails(f) /\ GivesNothing(f)

TwoFibersNext(f) ==
  /\ IsAsked(f, "TwoFibers")
  /\ GiveTwoFibers(f) \/ NoMoreWords(f)
  /\ Constant

=============================================================================
