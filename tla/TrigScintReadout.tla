-------------------------- MODULE TrigScintReadout --------------------------
(***************************************************************************)
(* The online chain of the trigger scintillator: the events come from the  *)
(* front end, by the producer of the captan, or from a file that is        *)
(* played, and go to the monitor in the order in which they are sent.      *)
(***************************************************************************)
EXTENDS CaptanTrigScintTestBeamProducer, TrigScintTestBeamMonitor

CONSTANTS
  WordsPerEvent, Chunk,  (* of the file player                             *)
  MaxBookings            (* bound: how often the programs are configured   *)

Word == 0 .. 65535

ASSUME StreamsAssumption ==
  \A n \in DOMAIN Streams : Streams[n] \in Seq(Word \X Word \X Word \X Word)
ASSUME TakingAssumption ==
  MinWords \in Nat /\ FrameWords \in Nat \ {0} /\ MaxRuns \in Nat
ASSUME EventsHaveWords == WordsPerEvent \in Nat \ {0} /\ Chunk \in Nat

VARIABLES
  source,  (* "captan" or "file": never changes                            *)
  is_open, fail, pos, loop, packet,
  seen     (* how many events the monitor has received                     *)

Player == INSTANCE TrigScintFileReaderProducer WITH Length <- Len(Stream)

playerVars == <<is_open, fail, pos, loop, packet>>

vars == <<captanVars, monitorVars, source, playerVars, seen>>

Init ==
  /\ CaptanInit /\ Player!PlayerInit /\ MonitorInit
  /\ source \in {"captan", "file"} /\ seen = 0

(* What the player leaves alone of the variables of the captan's producer. *)
CaptanOnly ==
  <<name, buffer, call, writer, files, client, commands, frontEnd, frames,
    delivering, history>>

Captan ==
  /\ source = "captan"
  /\ RunControl \/ FrontEnd \/ UdpClient
  /\ MonitorWaits /\ UNCHANGED <<source, playerVars, seen>>

Play ==
  /\ source = "file"
  /\ Player!RunControl \/ Player!RunLoop
  /\ run_number' <= MaxRuns
  /\ MonitorWaits /\ UNCHANGED <<CaptanOnly, source, seen>>

(* All programs are configured.                                            *)
Configure ==
  /\ booking < MaxBookings /\ AtConfiguration
  /\ \/ source = "captan" /\ DoConfigure /\ UNCHANGED playerVars
     \/ /\ source = "file" /\ \E exists \in BOOLEAN : Player!DoConfigure(exists)
        /\ UNCHANGED CaptanOnly
  /\ UNCHANGED <<source, seen>>

(* The words of an event are its block.                                    *)
BlockOf(event) == [i \in DOMAIN event.words |-> Stream[event.words[i]]]

Monitor ==
  /\ seen < Len(sent) /\ seen' = seen + 1
  /\ \E block \in {BlockOf(sent[seen'])} : AtEventReception(seen', block)
  /\ UNCHANGED <<captanVars, source, playerVars>>

Next == Captan \/ Play \/ Configure \/ Monitor

Spec == Init /\ [][Next]_vars

-----------------------------------------------------------------------------
(* The words between the ends of events, as the front end has them.        *)
EventStarts ==
  {p \in DOMAIN Stream : /\ ~IsEnd(p) /\ (p = 1 \/ IsEnd(p - 1))
                         /\ \E q \in DOMAIN Stream : q > p /\ IsEnd(q)}
EndOf(p) == Min({q \in DOMAIN Stream : q > p /\ IsEnd(q)})
WordsFrom(p) == [i \in 1 .. EndOf(p) - p |-> p + i - 1]

ComesWhole(p) == (IF p = 1 THEN p ELSE p - 1) .. EndOf(p) \subseteq heard

(* Damage is local: an event that arrives with its end and the end of the  *)
(* one before is sent just as it is, once, whatever has been lost, stopped *)
(* or left over before; and one that goes over the end of another is only  *)
(* sent if that end has not arrived.                                       *)
DamageIsLocal ==
  source = "captan" =>
    /\ \A p \in EventStarts : ComesWhole(p) /\ EndOf(p) - p > MinWords =>
         Cardinality({k \in DOMAIN sent : sent[k].words = WordsFrom(p)}) = 1
    /\ \A k \in DOMAIN sent :
         \A q \in Head(sent[k].words) .. Last(sent[k].words) : IsEnd(q) => q \notin heard

IsFiled(p, run) == p \in unwritten \/ \E r \in 1 .. run : Contains(files[r], p)

(* The words of an event of a run are in the file of that run or of one    *)
(* before, unless they came when no file was open.                         *)
EventsAreInFiles ==
  source = "captan" =>
    \A k \in DOMAIN sent : \A i \in DOMAIN sent[k].words :
      IsFiled(sent[k].words[i], sent[k].run)

(* The front end is on while a run is on, and off otherwise, once it has   *)
(* got what is under way, if the last message has not been lost.           *)
EnabledAsAsked ==
  source = "captan" /\ commands = << >> /\ ~missed /\ call = "none" =>
    (enabled <=> state = "running")

(* What is played are whole pieces of the file, one after the other from   *)
(* its beginning, but for one that is being read while the file is opened  *)
(* anew.                                                                   *)
PiecesFollowFile ==
  source = "file" =>
    \A k \in DOMAIN sent :
      LET words == sent[k].words
      IN  /\ Len(words) = WordsPerEvent
          /\ \A i \in 2 .. Len(words) : words[i] \in {words[i - 1] + 1, 1}
          /\ words[1] \in {1} \union (IF k = 1 THEN {} ELSE {Last(sent[k - 1].words) + 1})

(* After a second configuration the plots of the channels are still those  *)
(* of the first, while all others are those of the last.                   *)
ChannelPlotsAreOld == \A fill \in plots : fill.channels = {1}

(* The fibers of an event are cut at the words that begin a sample (marks, *)
(* of a fiber the places of those from first on).  A sample goes to the    *)
(* next mark, the last one to the end and on with rest.                    *)
FiberOf(fill, f) == Fiber(BlockOf(sent[fill.ev]), f)

Marks(words, first) == {p \in first .. Len(words) : start_of_time_sample(words[p])}

BytesOf(words, first, last) ==
  [j \in 1 .. 2 * (last - first + 1) |->
     Bytes(words[first + (j - 1) \div 2])[1 + ((j - 1) % 2)]]

Part(words, cuts, rest, p) ==
  LET later == {q \in cuts : q > p}
  IN  IF later = {} THEN BytesOf(words, p, Len(words)) \o rest
                    ELSE BytesOf(words, p, Min(later) - 1)

(* How many samples begin at the marks: the last one is one only if it is *)
(* long enough, all others are in any case.                                *)
HowMany(words, cuts, rest) ==
  IF Len(Part(words, cuts, rest, Max(cuts))) = 12 THEN Cardinality(cuts)
                                                  ELSE Cardinality(cuts) - 1

PlaceOf(cuts, p) == Cardinality({q \in cuts : q <= p})

IsCutAt(words, cuts, rest, place, qie) ==
  \E p \in cuts : PlaceOf(cuts, p) = place /\ qie = add_data(Part(words, cuts, rest, p))

(* The samples shown are the last of those that begin at the marks, in     *)
(* their order.                                                            *)
IsCut(words, cuts, rest, qies) ==
  \A t \in DOMAIN qies :
    IsCutAt(words, cuts, rest, HowMany(words, cuts, rest) - Len(qies) + t, qies[t])

(* The same, but for what is shown before the sample of the first mark.    *)
IsCutFromMarks(words, cuts, qies) ==
  \A t \in DOMAIN qies :
    LET place == HowMany(words, cuts, << >>) - Len(qies) + t
    IN  place >= 1 => IsCutAt(words, cuts, << >>, place, qies[t])

(* Both fibers are shown as far as they go together: all of fiber 1, where *)
(* what is at both ends may be one sample, or all that begins at the marks *)
(* of fiber 2, and never more than one sample that begins at none of them. *)
AreCut(fiber1, fiber2, tse) ==
  LET marks1 == Marks(fiber1, 3)
      rest   == BytesOf(fiber1, 3, Min(marks1) - 1)
      n1     == HowMany(fiber1, marks1, rest)
      marks2 == Marks(fiber2, 1)
      n2     == HowMany(fiber2, marks2, << >>)
      shown  == Len(tse.qie1_)
  IN  /\ Len(tse.qie2_) = shown
      /\ shown <= n1 /\ shown <= n2 + 1 /\ (shown = n1 \/ shown >= n2)
      /\ IsCut(fiber1, marks1, rest, tse.qie1_)
      /\ IsCutFromMarks(fiber2, marks2, tse.qie2_)

HaveMarks(fiber1, fiber2) == Marks(fiber1, 3) # {} /\ Marks(fiber2, 1) # {}

(* The samples of both fibers are cut at the marks, none is skipped, and   *)
(* the two fibers stay together.  Of what fiber 2 has before its first     *)
(* mark this says nothing but that it is at most one sample:               *)
(* LeadingWordsAreSkipped is what the code claims of it.                   *)
SamplesAreCut ==
  \A fill \in plots :
    LET fiber1 == FiberOf(fill, 1)
        fiber2 == FiberOf(fill, 2)
    IN  HaveMarks(fiber1, fiber2) => AreCut(fiber1, fiber2, fill.tse)

(* TrigScintRawDecode.cxx:142 and :149 say of fiber 2: skip the first two  *)
(* words, and all between them and the first mark.  So what is shown is    *)
(* cut at a mark after the first two words, with or without the words      *)
(* before it, which may be the end of the last sample.                     *)
LeadingWordsAreSkipped(fill) ==
  LET words == FiberOf(fill, 2)
      marks == Marks(words, 3)
  IN  marks # {} =>
        \A t \in DOMAIN fill.tse.qie2_ : \E p \in marks :
          \E rest \in {<< >>, BytesOf(words, 3, Min(marks) - 1)} :
            fill.tse.qie2_[t] = add_data(Part(words, marks, rest, p))

(* The charge of a count is the mean of its bin, in units of 1/20 fC; the  *)
(* first and the last count have no bin.                                   *)
SubrangeOf(ADC) == Max({i \in 1 .. 4 : nbins_[i] <= ADC % 64})

BinOf(ADC) ==
  LET bin == 4 * (ADC \div 64) + SubrangeOf(ADC)
  IN  20 * edges_[bin] + 2 * ((ADC % 64) - nbins_[SubrangeOf(ADC)]) * sense_[bin]

BinWidth(ADC) == 2 * sense_[4 * (ADC \div 64) + SubrangeOf(ADC)]

MeanOf(ADC) ==
  CASE ADC = 0   -> 20 * edges_[1]
    [] ADC = 255 -> 20 * edges_[17]
    [] OTHER     -> BinOf(ADC) + BinWidth(ADC) \div 2

(* How far below the mean a charge may be: nothing, but half a bin if it   *)
(* is the first of its subrange.                                           *)
RoomOf(ADC) ==
  IF ADC \in 1 .. 254 /\ ADC % 64 \in {nbins_[i] : i \in 2 .. 4} THEN BinWidth(ADC) \div 2
                                                                ELSE 0

CountsOf(tse, chan) ==
  [t \in DOMAIN SamplesOf(tse, chan) |-> SamplesOf(tse, chan)[t].adc[chan % 8]]

MeanSum(counts) == SumOf([t \in DOMAIN counts |-> MeanOf(counts[t])])
RoomSum(counts) == SumOf([t \in DOMAIN counts |-> RoomOf(counts[t])])

IsInBins(counts, charge) ==
  (\A t \in DOMAIN counts : counts[t] \in 0 .. 255) =>
    charge \in MeanSum(counts) - RoomSum(counts) .. MeanSum(counts)

AreInBins(tse, charge) ==
  \A chan \in DOMAIN charge : IsInBins(CountsOf(tse, chan), charge[chan])

(* The charge of a channel is exactly the sum of the means of its counts,  *)
(* unless one is the first bin of a subrange: then it is less by at most   *)
(* half of that bin.                                                       *)
ChargesAreInBins == \A fill \in plots : AreInBins(fill.tse, fill.charge)

(* SimQIE.cxx:7-8 says that ADC2Q checks which subrange a count is in and  *)
(* returns the mean charge of its bin.                                     *)
ChargesAreMeans(fill) ==
  \A chan \in DOMAIN fill.charge :
    fill.charge[chan] = MeanSum(CountsOf(fill.tse, chan))

(* The cap ID is not read out: what is shown of it, of fiber 1, is of the  *)
(* mark at the beginning of the sample, or zero of what is no sample.      *)
CapIdsAreMarks(qies) == \A t \in DOMAIN qies : qies[t] = EmptyQIE \/ qies[t].cid = 3

CapIdIsNotRead ==
  \A fill \in plots : Marks(FiberOf(fill, 1), 3) # {} => CapIdsAreMarks(fill.tse.qie1_)

(* What is shown of an event, whatever it is.                              *)
EventsAreDecoded == SamplesAreCut /\ CapIdIsNotRead /\ ChargesAreInBins

-----------------------------------------------------------------------------
(* Why these hold: the inductive invariant of each.  The words under way   *)
(* are in line: of the l words that the front end has, those before a have *)
(* been sent; fs and d are the frames under way, to the writer and to the  *)
(* sender, and S are the words that the sender has been given.             *)
Frame == [from : Nat, to : Nat, error : BOOLEAN]

IsStretch(frame, a) ==
  1 <= frame.from /\ frame.from <= frame.to /\ frame.to < a

IsLine(l, a, S, d, fs) ==
  /\ l \in Nat /\ a \in Nat /\ 1 <= a /\ a <= l + 1
  /\ fs \in Seq(Frame) /\ d \in Seq(Frame) /\ Len(d) <= 1
  /\ \A i \in DOMAIN fs : /\ IsStretch(fs[i], a)
                          /\ \A j \in 1 .. i - 1 : fs[j].to < fs[i].from
  /\ d # << >> => /\ IsStretch(d[1], a)
                  /\ \A i \in DOMAIN fs : d[1].to < fs[i].from
  /\ \A q \in S : /\ q \in Nat /\ 1 <= q /\ q < a
                  /\ d # << >> => q < d[1].from
                  /\ \A i \in DOMAIN fs : q < fs[i].from

LineInv ==
  source = "captan" =>
    name \in DOMAIN Streams /\ IsLine(Len(Stream), at, heard, delivering, frames)

(* The words, of those in S, between an end e of an event and the one      *)
(* before, of those in D.  The events that have been sent are such pieces, *)
(* in their order, and all of them that have enough words; what comes      *)
(* after the last end is in the buffer.                                    *)
Piece(S, D, e) == {q \in S : q < e /\ \A d \in D : d < e => d < q}

Rising(words) ==
  \A j \in DOMAIN words : \A i \in 1 .. j - 1 : words[j] - words[i] >= j - i

IsBuffer(l, S, D, words) ==
  words \in Seq(Nat) /\ Rising(words) /\ ToSet(words) = Piece(S, D, l + 1)

AreEvents(S, D, events) ==
  /\ events \in Seq([words : Seq(Nat), run : Nat])
  /\ \A k \in DOMAIN events :
       /\ Rising(events[k].words) /\ Len(events[k].words) > MinWords
       /\ \E e \in D : ToSet(events[k].words) = Piece(S, D, e)
       /\ \A j \in 1 .. k - 1 : Last(events[j].words) < Head(events[k].words)
  /\ \A e \in D : Cardinality(Piece(S, D, e)) > MinWords =>
       \E k \in DOMAIN events : ToSet(events[k].words) = Piece(S, D, e)

HeardEnds == {q \in heard : IsEnd(q)}

PiecesInv ==
  source = "captan" => /\ IsBuffer(Len(Stream), heard, HeardEnds, buffer)
                       /\ AreEvents(heard, HeardEnds, sent)

(* What the sender has is in the file of this run or of one before.        *)
BufferIsFiled == \A i \in DOMAIN buffer : IsFiled(buffer[i], run_number)

FrameIsFiled ==
  delivering # << >> =>
    \A p \in delivering[1].from .. delivering[1].to : IsFiled(p, run_number)

FiledInv ==
  source = "captan" =>
    /\ run_number \in 0 .. MaxRuns /\ writer \subseteq 1 .. run_number
    /\ files \in [Runs -> Seq(Nat)]
    /\ BufferIsFiled /\ FrameIsFiled
    /\ \A k \in DOMAIN sent : sent[k].run \in 0 .. run_number
    /\ EventsAreInFiles

(* The last message that is under way asks for what is wanted.             *)
Wanted == IF state = "running" /\ call # "DoStopRun" THEN "on" ELSE "off"

AskedInv ==
  source = "captan" =>
    /\ commands \in Seq({"two", "on", "off"} \X Nat) /\ client \in Nat
    /\ missed => commands = << >>
    /\ call = "DoStartRun" => state # "running"
    /\ call = "DoStopRun" => state = "running"
    /\ ~missed => IF commands = << >> THEN enabled = (Wanted = "on")
                                     ELSE Last(commands)[1] = Wanted

(* While an event is read, the position in the file is where it ends or at *)
(* the beginning; before, it is where the last one ended.                  *)
GoesOn(words) == \A i \in 2 .. Len(words) : words[i] \in {words[i - 1] + 1, 1}

Follows(p) == p = 0 \/ (sent # << >> /\ p = Last(Last(sent).words))

PlayedInv ==
  source = "file" =>
    /\ name \in DOMAIN Streams /\ pos \in 0 .. Len(Stream)
    /\ packet \in Seq(Nat) /\ Len(packet) <= WordsPerEvent
    /\ sent \in Seq([words : Seq(Nat), run : Nat]) /\ run_number \in Nat
    /\ GoesOn(packet)
    /\ IF loop # "read" \/ packet = << >> THEN fail \/ Follows(pos)
       ELSE Follows(packet[1] - 1) /\ (fail \/ pos \in {0, Last(packet)})
    /\ PiecesFollowFile

(* What is read of the file are words that it has.                         *)
AreWords(words) == \A i \in DOMAIN words : words[i] \in DOMAIN Stream

WordsInv ==
  source = "file" =>
    AreWords(packet) /\ \A k \in DOMAIN sent : AreWords(sent[k].words)

(* Before the first configuration nothing can come to the monitor.         *)
NothingComes ==
  /\ state \in {"uninit", "unconf", "error"} /\ call = "none" /\ sent = << >>
  /\ commands = << >> /\ frames = << >> /\ delivering = << >> /\ ~enabled
  /\ loop = "idle"

BookedInv ==
  /\ booking \in Nat /\ seen \in Nat
  /\ vectors \in Seq(Nat)
  /\ IF booking = 0 THEN NothingComes /\ vectors = << >>
     ELSE \A i \in 1 .. n_channels : i <= Len(vectors) /\ vectors[i] = 1
  /\ ChannelPlotsAreOld

(* What is asked of the front end, cut into events and written, what is    *)
(* played of a file, and which plots are booked, over all stops, starts    *)
(* and configurations.                                                     *)
TrigScintInv ==
  LineInv /\ PiecesInv /\ FiledInv /\ AskedInv /\ PlayedInv /\ WordsInv /\ BookedInv

=============================================================================
