------------------------- MODULE MCTrigScintReadout -------------------------
(***************************************************************************)
(* Instances of TrigScintReadout for TLC: streams of two events, as the    *)
(* firmware writes them, and what the chips have read out in each.         *)
(***************************************************************************)
EXTENDS TrigScintReadout

(* An event has two time samples; shift is how many words of the last one  *)
(* come before the first.  A count of channel 1 may be high, and commas    *)
(* are a word of nothing else ("pause") or begin fiber 1 and end fiber 2   *)
(* ("skew").                                                               *)
Value(f, t, q, high) ==
  CASE q = 1 /\ high > 0 -> high
    [] q = 6             -> 256 - t
    [] q = 5             -> 8 * (2 * f + t) + 13
    [] q = 7             -> 8 * (2 * f + t) + 9
    [] OTHER             -> 8 * (2 * f + t) + q

Truth(event, f) ==
  << >> @@ [t \in 1 .. 2 |->
    [adc |-> << >> @@ [q \in Quads |-> Value(f, t, q, event.high)],
     tdc |-> << >> @@ [q \in Quads |-> (q + q \div 4 + t) % 4]]]

TdcByte(sample, qs) ==
  FoldLeft(LAMBDA sum, q : 4 * sum + sample.tdc[q], 0, Reverse(qs))

SampleWords(sample, t, start) ==
  <<256 * start + 4 * t>>
    \o [j \in 1 .. 4 |-> sample.adc[2 * j - 2] + 256 * sample.adc[2 * j - 1]]
    \o <<256 * TdcByte(sample, <<0, 1, 2, 3>>) + TdcByte(sample, <<4, 5, 6, 7>>)>>

Both(truth, start) ==
  SampleWords(truth[1], 1, 188) \o SampleWords(truth[2], 2, start)

Turned(words, shift) == SubSeq(words, 13 - shift, 12) \o SubSeq(words, 1, 12 - shift)

FiberWords(event, f) ==
  event.time \o Turned(Both(Truth(event, f), event.start), event.shift)

Commas == <<comma_char, comma_char>>

SideBySide(fiber1, fiber2) ==
  [i \in 1 .. Len(fiber1) \div 2 |->
     <<fiber1[2 * i - 1], fiber1[2 * i], fiber2[2 * i - 1], fiber2[2 * i]>>]

EventWords(event) ==
  LET skew  == IF event.commas = "skew" THEN Commas ELSE << >>
      words == SideBySide(skew \o FiberWords(event, 1), FiberWords(event, 2) \o skew)
  IN  IF event.commas = "pause" THEN InsertAt(words, 3, Commas \o Commas) ELSE words

Plain == [shift |-> 0, high |-> 0, start |-> 188, commas |-> "none", time |-> <<7, 1>>]

Events ==
  << <<Plain, [Plain EXCEPT !.shift = 4, !.commas = "skew"]>>,
     <<[Plain EXCEPT !.shift = 1, !.start = 252], [Plain EXCEPT !.commas = "pause"]>>,
     <<[Plain EXCEPT !.high = 188], [Plain EXCEPT !.shift = 5, !.time = <<48128, 2>>]>> >>

Stored ==
  << >> @@ [n \in DOMAIN Events |->
    FlattenSeq([k \in DOMAIN Events[n] |-> Append(EventWords(Events[n][k]), Ones)])]

MCStreams == Stored

(* Nobody waits for the monitor: it sees an event before anything else     *)
(* happens but a configuration.  The front end waits while the sender has  *)
(* a frame: neither reads or changes anything that the other changes.  The *)
(* producer of the captan is initialised again with one of the streams,    *)
(* and something is lost with another one.                                 *)
MCNext ==
  /\ IF seen < Len(sent) THEN Monitor \/ Configure ELSE Next
  /\ delivering # << >> => UNCHANGED <<frontEnd, losses>>
  /\ client' > 1 => name = 2
  /\ losses' > 0 => name = 1

MCSpec == Init /\ [][MCNext]_vars

-----------------------------------------------------------------------------
(* The event that a fill is of, if it has been sent as the front end has   *)
(* it, without its end, as the producer of the captan does, or with it, as *)
(* the player does if the pieces of the file are the events.               *)
FirstWord(fill) == sent[fill.ev].words[1]
IsSentAs(fill, words) ==
  FirstWord(fill) \in EventStarts /\ sent[fill.ev].words = words
IsTakenEvent(fill) == IsSentAs(fill, WordsFrom(FirstWord(fill)))
IsPlayedEvent(fill) ==
  IsSentAs(fill, Append(WordsFrom(FirstWord(fill)), EndOf(FirstWord(fill))))
IsEvent(fill) == IsTakenEvent(fill) \/ IsPlayedEvent(fill)

EventOf(fill) ==
  Events[name][Cardinality({p \in EventStarts : p <= FirstWord(fill)})]

Counts(qie) == [adc |-> qie.adc, tdc |-> qie.tdc]
AllCounts(qies) == [t \in DOMAIN qies |-> Counts(qies[t])]

(* What is shown of fiber 1: every sample that has been read out, but for  *)
(* the last one if the end of the event is taken for words of it.          *)
FiberOneIsRead ==
  \A fill \in plots : IsEvent(fill) /\ EventOf(fill).high = 0 =>
    LET truth == Truth(EventOf(fill), 1)
    IN  AllCounts(fill.tse.qie1_) = IF IsTakenEvent(fill) THEN truth ELSE Front(truth)

(* What lies whole in fiber 2 is shown, once: if the event begins with a   *)
(* sample all that has been read out, in place, but for the last one if    *)
(* the end of the event is taken for words of it.                          *)
WholeSamplesAreShown ==
  \A fill \in plots : IsEvent(fill) /\ EventOf(fill).high = 0 =>
    LET truth == Truth(EventOf(fill), 2)
        got   == AllCounts(fill.tse.qie2_)
    IN  IF IsPlayedEvent(fill) THEN got = Front(truth)
        ELSE IF EventOf(fill).shift = 0 THEN got = truth
        ELSE Len(got) = 2 /\ Cardinality({t \in DOMAIN got : got[t] = truth[1]}) = 1

(* TrigScintRawDecode.cxx:134 says that fiber 2 is read as fiber 1 is, of  *)
(* which :119-122 says that the words at the beginning and at the end of   *)
(* an event form one extra sample: then all samples of an event that is    *)
(* sent as the front end has it are shown.                                 *)
FiberTwoIsRepeated(fill) ==
  IsTakenEvent(fill) /\ EventOf(fill).high = 0 =>
    AllCounts(fill.tse.qie2_) = Truth(EventOf(fill), 2)

(* Of no event that is shown is none of what the comments say true: that   *)
(* the leading words of fiber 2 are skipped, that it is read as fiber 1    *)
(* is, and that charges are means.  Where this is violated all are false.  *)
FiberTwoOrChargesAreRight ==
  \A fill \in plots :
    LeadingWordsAreSkipped(fill) \/ FiberTwoIsRepeated(fill) \/ ChargesAreMeans(fill)

(* Where a count looks like the beginning of a sample no other sample is   *)
(* made of it: what is shown has been read out, or is zero.  Of the first  *)
(* sample of fiber 2 this is only said if the event begins with a sample.  *)
(* The time is that of the event.                                          *)
SamplesAreTrueOrZero ==
  \A fill \in plots : IsEvent(fill) =>
    LET event    == EventOf(fill)
        All(f)   == ToSet(Truth(event, f)) \union {Counts(EmptyQIE)}
        Late(t)  == t = 1 /\ event.shift > 0
    IN  /\ ToSet(AllCounts(fill.tse.qie1_)) \subseteq All(1)
        /\ \A t \in DOMAIN fill.tse.qie2_ :
             Late(t) \/ Counts(fill.tse.qie2_[t]) \in All(2)
        /\ fill.tse.time = <<event.time[2], event.time[1]>>

(* What becomes of the samples that have been read out, of each fiber.     *)
FibersAreRead ==
  FiberOneIsRead /\ WholeSamplesAreShown /\ SamplesAreTrueOrZero

=============================================================================
