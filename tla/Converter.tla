----------------------------- MODULE Converter -----------------------------
(***************************************************************************)
(* reformat::Converter::convert, the offline event builder: it asks each   *)
(* attached RawDataFile for its next packet, queues the packets per file,  *)
(* and in every round takes the packets near the earliest queued timestamp *)
(* off the queues and writes them as one output event.                     *)
(*                                                                         *)
(* One action per step of the loop: the visit of one file (which gives a   *)
(* packet or is done), and the alignment round with its output and its     *)
(* check of event_limit.  The files are visited in any order; the code     *)
(* visits them in the order of the configuration, and the visits of two    *)
(* files commute.                                                          *)
(***************************************************************************)
EXTENDS Packets

CONSTANTS
  StartEvent,  (* the parameter start_event                                *)
  EventLimit   (* the parameter event_limit, no limit unless positive      *)

ASSUME LimitAssumption == StartEvent \in Int /\ EventLimit \in Int

VARIABLES
  stream,       (* what the files hold: never changes                      *)
  unread,       (* per file, the packets next() has not returned yet       *)
  input_files,  (* the files still attached                                *)
  todo,         (* the attached files not visited yet in this round        *)
  event_queue,  (* per file, the packets not aligned yet                   *)
  i_event,      (* number of the next output event                         *)
  output,       (* the events in the output file                           *)
  dropped,      (* history: the partial events skipped                     *)
  done          (* convert has closed the output file                      *)

vars == <<stream, unread, input_files, todo, event_queue, i_event, output,
          dropped, done>>

TypeOK ==
  /\ stream \in [Files -> Seq(Packet)] /\ Numbered(stream)
  /\ unread \in [Files -> Seq(Packet)]
  /\ input_files \in SUBSET Files
  /\ todo \in SUBSET input_files
  /\ event_queue \in [Files -> Seq(Packet)]
  /\ i_event = StartEvent + Len(output)
  /\ \A i \in DOMAIN output :
       output[i].number = StartEvent + i - 1 /\ IsGroup(output[i].packets)
  /\ \A d \in dropped : IsGroup(d)
  /\ done \in BOOLEAN

Init ==
  /\ stream \in Streams
  /\ unread = stream
  /\ input_files = Files
  /\ todo = Files
  /\ event_queue = [f \in Files |-> << >>]
  /\ i_event = StartEvent
  /\ output = << >>
  /\ dropped = {}
  /\ done = FALSE

-----------------------------------------------------------------------------
(* The queue of f after its next packet has been pushed; the faults: a     *)
(* packet pushed to the wrong end, replacing the queue, or forgotten.      *)
PushedToFront(f) == <<Head(unread[f])>> \o event_queue[f]
PushedOver(f) == <<Head(unread[f])>>
NotPushed(f) == event_queue[f]
Pushed(f) == Append(event_queue[f], Head(unread[f]))

(* next() gives a packet, which goes to the back of the file's queue.      *)
PullPacket(f) ==
  /\ ~done
  /\ f \in todo
  /\ unread[f] # << >>
  /\ event_queue' = [event_queue EXCEPT ![f] = Pushed(f)]
  /\ unread' = [unread EXCEPT ![f] = Tail(@)]
  /\ todo' = todo \ {f}
  /\ UNCHANGED <<stream, input_files, i_event, output, dropped, done>>

(* What is attached after f has been erased; the faults: f is kept, or all *)
(* files are given up with it.                                             *)
NotErased(f) == input_files
AllErased(f) == {}
Erased(f) == input_files \ {f}

(* next() gives nothing: the file is erased and never asked again.  What   *)
(* it has queued stays, and the visit goes on with the file after it.      *)
FileDone(f) ==
  /\ ~done
  /\ f \in todo
  /\ unread[f] = << >>
  /\ input_files' = Erased(f)
  /\ todo' = todo \ {f}
  /\ UNCHANGED <<stream, unread, event_queue, i_event, output, dropped, done>>

-----------------------------------------------------------------------------
Queued == {f \in Files : event_queue[f] # << >>}

(* The search for the earliest front starts from TimestampMax.             *)
IsEarliest(ts) ==
  /\ \A f \in Queued : ts <= Head(event_queue[f]).ts
  /\ ts = TimestampMax \/ \E f \in Queued : Head(event_queue[f]).ts = ts

(* The files whose front packet joins the event; the faults: the window    *)
(* closed at both ends, left out, or too narrow.                           *)
InClosedWindow(earliest_ts) ==
  {f \in Queued : Head(event_queue[f]).ts - earliest_ts <= Window}
AnyFront(earliest_ts) == Queued
InNarrowWindow(earliest_ts) ==
  {f \in Queued : Head(event_queue[f]).ts - earliest_ts < Window - 1}
InWindow(earliest_ts) ==
  {f \in Queued : Head(event_queue[f]).ts - earliest_ts < Window}

(* Whether the aligned files make an event that is written.                *)
Keep(aligned) ==
  (aligned # {} /\ KeepAll) \/ aligned = Files

(* The check of event_limit after the round: one event more than the limit *)
(* has been written then.                                                  *)
ExitEarly(number) ==
  EventLimit > 0 /\ number - StartEvent > EventLimit

(* One alignment round, once every attached file has been visited.         *)
Align ==
  /\ ~done
  /\ todo = {}
  /\ \E earliest_ts \in Timestamp :
       LET aligned       == InWindow(earliest_ts)
           aligned_event == [f \in aligned |-> Head(event_queue[f])]
       IN  /\ IsEarliest(earliest_ts)
           /\ event_queue' = [f \in Files |-> IF f \in aligned
                                              THEN Tail(event_queue[f])
                                              ELSE event_queue[f]]
           /\ \/ /\ Keep(aligned)
                 /\ output' = Append(output, [number  |-> i_event,
                                              packets |-> aligned_event])
                 /\ i_event' = i_event + 1
                 /\ UNCHANGED dropped
              \/ /\ ~Keep(aligned)
                 /\ dropped' = IF aligned = {} THEN dropped
                                               ELSE dropped \union {aligned_event}
                 /\ UNCHANGED <<output, i_event>>
  /\ done' = (ExitEarly(i_event') \/ input_files = {})
  /\ todo' = input_files
  /\ UNCHANGED <<stream, unread, input_files>>

Next == (\E f \in Files : PullPacket(f) \/ FileDone(f)) \/ Align

Spec == Init /\ [][Next]_vars

(* convert is one thread that never waits for anything.                    *)
FairSpec == Spec /\ WF_vars(Next)

-----------------------------------------------------------------------------
(* The merge this implements: what is pending there is queued or unread    *)
(* here.                                                                   *)
Pending == [f \in Files |-> event_queue[f] \o unread[f]]
Events == [i \in DOMAIN output |-> output[i].packets]

EB == INSTANCE EventBuilding WITH pending <- Pending, events <- Events

(* One packet per file and round is enough: every step of convert is a     *)
(* step of the merge of the complete files, or none.                       *)
ImplementsEventBuilding == EB!Spec

(* Every two packets of an event are within max_diff of each other.        *)
EventsAligned ==
  \A i \in DOMAIN output : \A f, g \in DOMAIN output[i].packets :
    output[i].packets[f].ts - output[i].packets[g].ts < Window

(* The promises of the merge, of the output file: data of one trigger in   *)
(* an event, no trigger thrown away that every file recorded, the packets  *)
(* of a file in order and at most once, and with keep_all each packet      *)
(* unread, queued or written.                                              *)
EventHoldsOneTrigger == EB!EventHoldsOneTrigger
NoCompleteTriggerDropped == EB!NoCompleteTriggerDropped
PacketsInFileOrder == EB!PacketsInFileOrder
TakenAreAccounted == EB!TakenAreAccounted

(* The invariant they rest on.                                             *)
MergeIInv == EB!IInv

(* A file that has been visited in this round and may still give packets   *)
(* has one in its queue.  So when a round is aligned, every front of the   *)
(* merge is in a queue and none is overlooked.                             *)
EveryFrontVisible ==
  ~done => \A f \in input_files \ todo : event_queue[f] # << >>

(* What is not attached any more has been read to its end.                 *)
ErasedFilesAreRead ==
  \A f \in Files \ input_files : unread[f] = << >>

VisitInv == TypeOK /\ EveryFrontVisible /\ ErasedFilesAreRead

(* The loop makes one round for each packet of the longest file and one    *)
(* more, each round disposes of one trigger, and nothing drains the queues *)
(* after that: packets are left in the queues exactly when the files hold  *)
(* more triggers than there are rounds.                                    *)
Triggers == UNION {{stream[f][k].trig : k \in DOMAIN stream[f]} : f \in Files}
EnoughRounds == \E f \in Files : Cardinality(Triggers) <= Len(stream[f]) + 1
LeftoversExplained ==
  done /\ EventLimit <= 0 /\ Window > 0 /\ stream \in SeparatedStreams =>
    (Queued = {} <=> EnoughRounds)

(* What is left in the queues then is thrown away with them, keep_all or   *)
(* not: what reformat.py says of keep_all, "Keep all events even if they   *)
(* are not aligned with other RawDataFiles", is so exactly if there are    *)
(* rounds for all triggers.                                                *)
AllKept ==
  \A f \in Files : \A k \in DOMAIN stream[f] : \E i \in DOMAIN output :
    f \in DOMAIN output[i].packets /\ output[i].packets[f] = stream[f][k]

KeptIfEnoughRounds ==
  KeepAll /\ done /\ EventLimit <= 0 /\ Window > 0 /\ stream \in SeparatedStreams =>
    (AllKept <=> EnoughRounds)

(* Why this is so: after n rounds every attached file has been asked n     *)
(* times, or once more in the round that is on, the others had no more     *)
(* than n packets, and n triggers have been disposed of, or all of them.   *)
(* The last round is the one that finds no file attached.                  *)
Given(f) == Len(stream[f]) - Len(unread[f])

AfterRounds(n) ==
  /\ \A f \in input_files : Given(f) = IF f \in todo THEN n ELSE n + 1
  /\ \A f \in Files \ input_files : Len(stream[f]) <= n - (IF done THEN 1 ELSE 0)
  /\ input_files = {} =>
       \E f \in Files : Len(stream[f]) = n - (IF done THEN 1 ELSE 0)
  /\ \/ Cardinality(Triggers) = Cardinality(EB!Remaining) + n
     \/ EB!Remaining = {} /\ Cardinality(Triggers) <= n

OneTriggerPerRound ==
  /\ done => EventLimit > 0 \/ input_files = {}
  /\ Window > 0 /\ stream \in SeparatedStreams =>
       \E f \in Files : \E n \in 0 .. Len(stream[f]) + 1 : AfterRounds(n)

IInv == VisitInv /\ OneTriggerPerRound

(* The conversion ends: every file is read to its end or the limit stops   *)
(* it, whatever the files hold.                                            *)
ConversionEnds == <>done

=============================================================================
