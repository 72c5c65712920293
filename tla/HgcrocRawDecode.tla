-------------------------- MODULE HgcrocRawDecode --------------------------
(***************************************************************************)
(* hcal::decode, which sorts the samples of an event by channel.  A word   *)
(* is read by its place: whatever it was written as, it has all the fields *)
(* that the decoder may look for, and they are zero unless given.          *)
(*                                                                         *)
(* The packet holds whole words, as many as its header says or more.  What *)
(* is read past the end is the word read before it, for w is static.       *)
(***************************************************************************)
EXTENDS Integers, SequencesExt

Zero ==
  [signal |-> FALSE, version |-> 0, fpga |-> 0, n |-> 0, len |-> 0,
   lens |-> <<0, 0, 0, 0>>, map |-> {}, first |-> 0, secon |-> 0, third |-> 0]

(* 0xbeef2021 or 0xbeef2022: as a header it has version 11.                *)
Signal == [Zero EXCEPT !.signal = TRUE, !.version = 11]

(* Samples are made with version 2.  From 512 on the time over threshold   *)
(* is in steps of eight.                                                   *)
toa(sample) == sample.secon
adc_t(sample) == sample.third
tot(sample) ==
  IF sample.first > 512 THEN (sample.first - 512) * 8 ELSE sample.first

(* The chip and the channel on the chip: two links of 36 channels make one *)
(* chip.                                                                   *)
ElectronicsLocation(fpga, link, c) == <<fpga, link \div 2, c + 36 * (link % 2)>>

LocationBefore(p, q) ==
  \/ p[1] < q[1]
  \/ p[1] = q[1] /\ p[2] < q[2]
  \/ p[1] = q[1] /\ p[2] = q[2] /\ p[3] < q[3]

-----------------------------------------------------------------------------
(* The state of decoding: words read, the word read last into w, samples   *)
(* decoded (bunches), the lists of samples per channel.                    *)
(* w after reading on to word i.                                           *)
ReadTo(packet, d, i) ==
  IF i <= Len(packet) THEN packet[i]
                      ELSE IF d.at < Len(packet) THEN Last(packet) ELSE d.w

Reads(packet, d, k) == [d EXCEPT !.at = @ + k, !.w = ReadTo(packet, d, d.at + k)]

CommonModeChannel == 19
CalibChannel == 20

(* The words of a link are those of the channels on its map, in order.     *)
(* Words that the map does not account for go on from 40.                  *)
Slots(map, count) ==
  LET set == SetToSortSeq(map, <)
  IN  [k \in 1 .. count |-> IF k <= Len(set) THEN set[k]
                                             ELSE 39 + k - Len(set)]

(* Which slots hold a channel, and which one; the fault: the calibration   *)
(* channel is not left out of the count.                                   *)
IsDaqChannel(j) == j \notin {0, CommonModeChannel, CalibChannel, 39}
ChannelOfOneGap(j) == IF j > CommonModeChannel THEN j - 2 ELSE j - 1
ChannelOf(j) ==
  j - 1 - (IF j > CommonModeChannel THEN 1 ELSE 0)
        - (IF j > CalibChannel THEN 1 ELSE 0)

AddSample(lists, eid, word) ==
  IF eid \in DOMAIN lists THEN [lists EXCEPT ![eid] = Append(@, word)]
                          ELSE lists @@ (eid :> <<word>>)

(* A link with less than two words is down.                                *)
Link(packet, d, fpga, link, length) ==
  IF length < 2 THEN d ELSE
  LET map   == (ReadTo(packet, d, d.at + 1).map \intersect 32 .. 39)
                 \union (ReadTo(packet, d, d.at + 2).map \intersect 0 .. 31)
      slots == Slots(map, length - 2)
      Add(lists, k) ==
        IF IsDaqChannel(slots[k])
          THEN AddSample(lists,
                 ElectronicsLocation(fpga, link, ChannelOf(slots[k])),
                 ReadTo(packet, d, d.at + 2 + k))
          ELSE lists
  IN  [Reads(packet, d, length) EXCEPT
         !.lists = FoldLeft(Add, @, [k \in 1 .. length - 2 |-> k])]

(* One sample of all links: its header of two words, the lengths of the    *)
(* links, the links, a checksum, and with version 2 a word if its length   *)
(* is odd.  There is no length for more samples than announced.            *)
Bunch(packet, h, d) ==
  LET head1  == packet[d.at + 1]
      links  == [d EXCEPT !.at = @ + 2]
      length(link) == ReadTo(packet, links, links.at + 1 + link \div 4)
                        .lens[(link % 4) + 1]
      OneLink(e, link) == Link(packet, e, head1.fpga, link, length(link))
      read   == FoldLeft(OneLink, Reads(packet, links, (head1.n + 3) \div 4),
                         [k \in 1 .. head1.n |-> k - 1])
      summed == Reads(packet, read, 1)
  IN  IF h.version = 2 /\ d.bunches = Len(h.lengths)
        THEN [summed EXCEPT !.thrown = TRUE]
        ELSE [summed EXCEPT !.bunches = @ + 1,
                !.at = IF h.version = 2 /\ h.lengths[d.bunches + 1] % 2 = 1
                         THEN @ + 1 ELSE @]

(* Samples up to the end of the event; each of them takes three words or   *)
(* more.                                                                   *)
Bunches(packet, h, start) ==
  LET More(d) == ~d.thrown /\ d.at < h.end
  IN  FoldLeft(LAMBDA d, k : IF More(d) THEN Bunch(packet, h, d) ELSE d, start,
               [k \in 1 .. (h.end - start.at + 2) \div 3 |-> k])

(* The first signal word, if there is one before the last word.            *)
Signals(packet) == {i \in 1 .. Len(packet) - 1 : packet[i].signal}

(* The header of the event, with lengths in words of 64 bits in version 2, *)
(* which has room for 16 lengths and four more words.                      *)
HeaderEnd(packet, s) ==
  s + 1 + IF packet[s + 1].version = 2 THEN 12
                                       ELSE (packet[s + 1].n + 1) \div 2

EventHeader(packet, s, d) ==
  LET head == packet[s + 1]
      len  == head.len % 2^16
  IN  [version |-> head.version,
       end     |-> IF head.version = 2 THEN s + 2 * len - 1 ELSE s + len,
       lengths |-> [i \in 1 .. head.n |->
                      ReadTo(packet, d, s + 1 + (i + 1) \div 2)
                        .lens[((i - 1) % 2) + 1]]]

(* The lists of samples, whether decoding throws, and what w is after it.  *)
decode(packet, w) ==
  LET start == [at |-> 0, w |-> w, bunches |-> 0, lists |-> << >>,
                thrown |-> FALSE]
  IN  IF packet = << >> THEN start
      ELSE IF Signals(packet) = {} THEN [start EXCEPT !.thrown = TRUE]
      ELSE LET s == Min(Signals(packet))
               d == [start EXCEPT !.at = s + 1]
               h == EventHeader(packet, s, d)
               r == Reads(packet, d, (packet[s + 1].n + 1) \div 2)
           IN  IF packet[s + 1].version \notin {1, 2}
                 THEN [start EXCEPT !.thrown = TRUE]
                 ELSE Bunches(packet, h, [r EXCEPT !.at = HeaderEnd(packet, s)])

=============================================================================
