----------------------------- MODULE HCalReadout -----------------------------
(***************************************************************************)
(* The online chain of the HCal: run control, the producer that plays a    *)
(* file, the data collector, and the two monitors.  Every program works on *)
(* its own; events are queued on the way from one to the next.  Another    *)
(* producer may send events to the same collector.                         *)
(***************************************************************************)
EXTENDS HgcrocFileReaderProducer, TestBeamDataCollector, HCalTestBeamMonitor,
        TestBeamEventDisplayMonitor, DarkRunControl

CONSTANTS
  MaxConfigures,  (* bound: how often the programs are configured          *)
  MaxRuns,        (* bound: how many runs are started                      *)
  MaxOther        (* bound: how many events the other producer sends       *)

VARIABLES
  configures,
  taken,   (* how many events of the producer the collector has received   *)
  others,  (* how many of the other producer                               *)
  seen,    (* how many events the HCal monitor has received                *)
  shown,   (* how many the event display has received                      *)
  looked   (* history: the events that the HCal monitor has counted        *)

chainVars == <<configures, taken, others, seen, shown, looked>>

vars == <<producerVars, collectorVars, monitorVars, displayVars, controlVars,
          chainVars>>

TypeOK ==
  /\ ProducerTypeOK
  /\ m_evt_c \in Nat /\ run_c = number /\ run = number
  /\ received \in Seq(Received) /\ delivered \in Seq(Received)
  /\ seen \in 0 .. Len(delivered) /\ shown \in 0 .. Len(delivered)
  /\ taken \in 0 .. Len(sent) /\ others \in Nat /\ nevents \in Nat
  /\ looked \in Seq(Nat) /\ Len(looked) = nevents /\ counted \in Nat
  /\ user \in {"idle", "started", "timed", "stopped"}
  /\ exec \in {"poll", "decided", "stopping"}
  /\ decided \in [run : 0 .. number, starting : BOOLEAN]

Init ==
  /\ ProducerInit /\ CollectorInit /\ ControlInit
  /\ nevents = 0 /\ histos = Booked /\ w = Zero
  /\ counted = 0 /\ drawn = [event |-> 0, bars |-> {}] /\ wd = Zero
  /\ configures = 0 /\ taken = 0 /\ others = 0 /\ seen = 0 /\ shown = 0
  /\ looked = << >>

-----------------------------------------------------------------------------
(* All programs are configured.                                            *)
Configure ==
  /\ user = "idle"
  /\ configures < MaxConfigures /\ configures' = configures + 1
  /\ \E exists \in BOOLEAN : DoConfigure(exists)
  /\ AtConfiguration /\ DisplayConfigured /\ looked' = << >>
  /\ UNCHANGED <<collectorVars, controlVars, taken, others, seen, shown>>

Reset ==
  /\ user = "idle" /\ DoReset
  /\ UNCHANGED <<collectorVars, monitorVars, displayVars, controlVars, chainVars>>

StartRun ==
  /\ number < MaxRuns /\ UserStarts /\ DoStartRun /\ CollectorStarts(number')
  /\ UNCHANGED <<monitorVars, displayVars, chainVars>>

(* A producer that is not running may or may not be told to stop.          *)
StopsProducer == DoStopRun \/ (status # "running" /\ UNCHANGED producerVars)

StopRun ==
  /\ UserStops \/ ExecStops
  /\ StopsProducer
  /\ UNCHANGED <<collectorVars, monitorVars, displayVars, chainVars>>

Control ==
  /\ ControlAlone
  /\ UNCHANGED <<producerVars, collectorVars, monitorVars, displayVars, chainVars>>

Produce ==
  /\ RunLoop
  /\ UNCHANGED <<collectorVars, monitorVars, displayVars, controlVars, chainVars>>

Collect ==
  /\ taken < Len(sent) /\ taken' = taken + 1 /\ DoReceive(taken')
  /\ UNCHANGED <<producerVars, monitorVars, displayVars, controlVars,
                 configures, others, seen, shown, looked>>

CollectOther ==
  /\ others < MaxOther /\ others' = others + 1 /\ DoReceive(0)
  /\ UNCHANGED <<producerVars, monitorVars, displayVars, controlVars,
                 configures, taken, seen, shown, looked>>

(* The producer puts its packets into block 1; an event has no other.      *)
BlockOf(k, id) ==
  IF delivered[k].event = 0 \/ id # 1 THEN << >>
                                      ELSE Words(sent[delivered[k].event].packet, file)

Monitor ==
  /\ seen < Len(delivered) /\ seen' = seen + 1
  /\ \E block \in {BlockOf(seen + 1, FpgaId)} : AtEventReception(block)
  /\ looked' = IF nevents' = nevents THEN looked ELSE Append(looked, seen')
  /\ UNCHANGED <<producerVars, collectorVars, displayVars, controlVars,
                 configures, taken, others, shown>>

Show ==
  /\ shown < Len(delivered) /\ shown' = shown + 1
  /\ \E block \in {BlockOf(shown + 1, DisplayFpga)} : DrawEvent(shown + 1, block)
  /\ UNCHANGED <<producerVars, collectorVars, monitorVars, controlVars,
                 configures, taken, others, seen, looked>>

Next ==
  \/ Configure \/ Reset \/ StartRun \/ StopRun \/ Control
  \/ Produce \/ Collect \/ CollectOther \/ Monitor \/ Show

Spec == Init /\ [][Next]_vars

-----------------------------------------------------------------------------
CutBecause(p) ==
  LET end == Last(p.parts)
  IN  end[3] = Len(file) \/ end[1] < opens \/ ~is_open \/ end[1] \in caught

(* The events follow each other in the file: a packet starts with the next *)
(* signal word after the one before, or the first of a file opened anew.   *)
(* A packet is one stretch without another signal word, unless the file is *)
(* opened anew while it is being read: it then goes on from the beginning. *)
(* Words are missing only at the end of the file, or if the file has been  *)
(* closed since, or if it is one that a RunLoop has met that the stop of   *)
(* its run had not ended: another configuration may then fail meanwhile.   *)
EventsFollowFile ==
  \A k \in DOMAIN sent :
    LET p     == sent[k].packet
        start == p.parts[1]
        end   == Last(p.parts)
        again == {i \in DOMAIN p.parts : i > 1}
    IN  /\ again = {} =>
             \A q \in start[2] + 1 .. end[3] : ~file[q].signal
        /\ \A i \in again : p.parts[i][1] > p.parts[i - 1][1] /\ p.parts[i][2] = 1
        /\ k = 1 => start[2] = NextSignal(file, 0)
        /\ ~Whole(p) => CutBecause(p)
        /\ k < Len(sent) =>
             LET next == sent[k + 1].packet.parts[1]
             IN  next[2] = NextSignal(file, IF next[1] = end[1] THEN end[3] ELSE 0)

(* What has been read since the file was opened was begun in one run, but  *)
(* for a file that a RunLoop has met that the stop of its run had not      *)
(* ended.  An event that RunLoop is reading when the run is stopped may be *)
(* sent in the next.                                                       *)
OpeningOf(p) == p.parts[1][1]
Opening(k) == OpeningOf(sent[k].packet)

OneRunPerOpening ==
  \A i, j \in DOMAIN sent :
    Opening(i) = Opening(j) /\ Opening(i) \notin caught =>
      /\ sent[i].packet.begun = sent[j].packet.begun
      /\ i < j => sent[i].run = sent[i].packet.begun

(* A producer that is configured has a file open from its beginning, but   *)
(* for one that a RunLoop has met that the stop of its run had not ended.  *)
ConfiguredIsFresh ==
  status = "conf" => /\ is_open
                     /\ opens \in caught \/ (~fail /\ pos = 0)

(* No two events of a run have the same number, and between two that the   *)
(* monitors get are as many as the fraction says, whoever sent them.       *)
OfRun(events, r) == {i \in DOMAIN events : events[i].run = r}

NumbersTellApart ==
  /\ \A i, j \in DOMAIN received : i < j /\ received[i].run = received[j].run =>
       received[j].n - received[i].n = j - i
  /\ \A r \in 1 .. run_c :
       Cardinality(OfRun(delivered, r)) = Cardinality(OfRun(received, r)) \div Fraction

(* What an event adds to the plots of samples, decoded when w is v.        *)
FillsOf(ev, v) ==
  LET lists == decode(BlockOf(looked[ev + 1], FpgaId), v).lists
  IN  {[ev |-> ev, eid |-> eid, samples |-> Measured(lists[eid])] :
         eid \in OfBookedRoc(lists)}

LastMultiple(per) == ((nevents - 1) \div per) * per
EventsIn(fills) == {fill.ev : fill \in fills}

(* The plots that are reset show the events since the last multiple of     *)
(* NRESET; the plot of one event shows the last at a multiple of NSPILL.   *)
(* Events of other producers are counted too, so that it may be empty.     *)
PlotsAreRecent ==
  nevents > 0 =>
    /\ histos.samplesReset =
         {fill \in histos.samples : fill.ev >= LastMultiple(EventsPerReset)}
    /\ histos.hitsReset =
         {fill \in histos.hits : fill.ev >= LastMultiple(EventsPerReset)}
    /\ EventsIn(histos.maxReset) = EventsIn(histos.samplesReset)
    /\ EventsIn(histos.hcal_event) \subseteq {LastMultiple(EventsPerSpill)}

(* The plots that are not reset show all events; what has been decoded     *)
(* before, which w is left over from, has no part in them.                 *)
PastHasNoPart ==
  nevents > 0 => histos.samples = UNION {FillsOf(ev, Zero) : ev \in 0 .. nevents - 1}

(* With NRESET other than 1 the event display stands still once it has     *)
(* drawn an event: those that are not drawn are not counted.               *)
DisplayStandsStill ==
  [][counted > 0 /\ DisplayReset > 1 /\ counted' # 0 => UNCHANGED drawn]_vars

-----------------------------------------------------------------------------
(* A run is cut short by Exec only if it was started while Exec was on its *)
(* way to stop the one before, or if Exec has looked at it before its time *)
(* of start was set.                                                       *)
CutShortOnlyByOverlap ==
  [][exec = "decided" /\ exec' = "stopping" /\ status = "running" /\ ~aged =>
       decided.run < number \/ decided.starting]_vars

(* A run that is on is watched, unless it was started while Exec was       *)
(* stopping the one before.                                                *)
RunIsWatched ==
  status = "running" /\ user = "idle" /\ exec = "poll" /\ ~m_flag_running =>
    overlap

-----------------------------------------------------------------------------
(* Why these hold.  A file that can be read and that no RunLoop has met is *)
(* of the run that is on, or fresh.                                        *)
Live == is_open /\ ~fail /\ opens \notin caught
UnderWay == loop \in {"header", "rest", "send"}

LiveIsOfRun ==
  Live =>
    /\ opens > 0 /\ status # "stopped"
    /\ loop \in InLoop => status = "running"
    /\ UnderWay /\ OpeningOf(packet) = opens => packet.begun = run
    /\ \A k \in DOMAIN sent : Opening(k) = opens =>
         status # "conf" /\ sent[k].packet.begun = run /\ sent[k].run = run

PacketIsOfOpening ==
  UnderWay /\ OpeningOf(packet) \notin caught =>
    \A k \in DOMAIN sent : Opening(k) = OpeningOf(packet) =>
      sent[k].packet.begun = packet.begun /\ sent[k].run = packet.begun

(* How a packet is put together of stretches of the words of a file.       *)
IsPart(part, words, openings) ==
  /\ part[1] \in 1 .. openings
  /\ 1 <= part[2] /\ part[2] <= part[3] /\ part[3] <= Len(words)

InOrder(parts, words, openings) ==
  /\ parts # << >>
  /\ \A i \in DOMAIN parts : IsPart(parts[i], words, openings)
  /\ \A i \in DOMAIN parts : i > 1 =>
       parts[i][1] > parts[i - 1][1] /\ parts[i][2] = 1

IsPacket(p, words, openings) ==
  /\ InOrder(p.parts, words, openings)
  /\ words[p.parts[1][2]].signal
  /\ 1 <= p.got /\ p.got <= p.length
  /\ Len(p.parts) = 1 => p.parts[1][3] = p.parts[1][2] + p.got - 1

HasHeader(p, words) ==
  /\ p.got >= 2
  /\ Len(p.parts) = 1 =>
       LET head == words[p.parts[1][2] + 1]
       IN  MayBeHeader(head) /\ p.length = PacketLength(head)

PacketsArePackets ==
  /\ UnderWay => IsPacket(packet, file, opens)
  /\ loop = "header" => Len(packet.parts) = 1 /\ packet.got = 1
  /\ loop \in {"rest", "send"} => HasHeader(packet, file)
  /\ \A k \in DOMAIN sent :
       IsPacket(sent[k].packet, file, opens) /\ HasHeader(sent[k].packet, file)

(* Reading goes on where the last packet ends, or at the beginning.        *)
After(p, opening) == IF Last(p.parts)[1] = opening THEN Last(p.parts)[3] ELSE 0
AfterLast(opening) == IF sent = << >> THEN 0 ELSE After(Last(sent).packet, opening)

ReadingGoesOn ==
  /\ UnderWay => pos = After(packet, opens)
  /\ loop \in {"idle", "top", "scan"} => fail \/ pos = AfterLast(opens)

(* A packet starts with the first signal word after the one before.        *)
PacketStartsNext ==
  UnderWay =>
    packet.parts[1][2] = NextSignal(file, AfterLast(OpeningOf(packet)))

(* Why the rest of an event cannot be read.                                *)
FailsBecause ==
  /\ loop \in {"header", "rest"} /\ fail =>
       ~is_open \/ Last(packet.parts)[1] < opens \/ opens \in caught
  /\ loop = "send" /\ ~Whole(packet) => CutBecause(packet)

(* Exec stops a run that it has not been started in for its age.           *)
ControlKnows ==
  /\ loop \in InLoop => run > 0
  /\ user = "stopped" => status # "running"
  /\ exec = "stopping" /\ status = "running" => overlap
  /\ user # "started" /\ overdue => aged
  /\ exec = "decided" /\ decided.run = number => aged \/ decided.starting

(* The types, of which opening and which run everything is, and why.       *)
HCalInv ==
  /\ TypeOK /\ OneRunPerOpening /\ ConfiguredIsFresh /\ RunIsWatched
  /\ LiveIsOfRun /\ PacketIsOfOpening /\ PacketsArePackets /\ ReadingGoesOn
  /\ PacketStartsNext /\ FailsBecause /\ ControlKnows

=============================================================================
