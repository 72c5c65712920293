--------------------------- MODULE EventBuilding ---------------------------
(***************************************************************************)
(* What the event builder promises: the k-way merge of complete files.     *)
(* Every file is seen whole, pending[f] is what has not been merged yet,   *)
(* and a step takes the earliest pending timestamp, groups it with the     *)
(* first pending packet of every file that is inside the window, and puts  *)
(* the group into the output or drops it.  The Converter sees one packet   *)
(* of each file at a time and implements this.                             *)
(***************************************************************************)
EXTENDS Packets

VARIABLES
  stream,    (* what the files hold                                        *)
  pending,   (* per file, the packets not merged yet                       *)
  events,    (* the sequence of groups written to the output               *)
  dropped    (* the set of partial groups thrown away                      *)

vars == <<stream, pending, events, dropped>>

TypeOK ==
  /\ stream \in [Files -> Seq(Packet)] /\ Numbered(stream)
  /\ pending \in [Files -> Seq(Packet)]
  /\ \A i \in DOMAIN events : IsGroup(events[i])
  /\ \A d \in dropped : IsGroup(d)

Sources == {f \in Files : pending[f] # << >>}

Init ==
  /\ stream \in Streams
  /\ pending = stream
  /\ events = << >>
  /\ dropped = {}

(* ref is the file that provides the earliest pending packet.              *)
Build(ref) ==
  LET inWindow == {f \in Sources :
                     Head(pending[f]).ts - Head(pending[ref]).ts < Window}
      group    == [f \in inWindow |-> Head(pending[f])]
  IN  /\ \A g \in Sources : Head(pending[ref]).ts <= Head(pending[g]).ts
      /\ inWindow # {}
      /\ pending' = [f \in Files |-> IF f \in inWindow THEN Tail(pending[f])
                                                       ELSE pending[f]]
      /\ \/ /\ KeepAll \/ inWindow = Files
            /\ events' = Append(events, group)
            /\ UNCHANGED dropped
         \/ /\ ~(KeepAll \/ inWindow = Files)
            /\ dropped' = dropped \union {group}
            /\ UNCHANGED events
      /\ UNCHANGED stream

Next == \E ref \in Sources : Build(ref)

Spec == Init /\ [][Next]_vars

-----------------------------------------------------------------------------
(* An event holds packets of one trigger only: the raw data of different   *)
(* triggers is never put into the same output event (Converter::convert,   *)
(* the comparison with max_diff_), as long as the input can be told apart. *)
EventHoldsOneTrigger ==
  stream \in SeparatedStreams =>
    \A i \in DOMAIN events : \A f, g \in DOMAIN events[i] :
      events[i][f].trig = events[i][g].trig

(* A trigger recorded by every file is never thrown away: whatever is      *)
(* dropped as partial lacks a file that really has no data of it.          *)
NoCompleteTriggerDropped ==
  stream \in SeparatedStreams =>
    \A d \in dropped : \A f \in DOMAIN d : \E g \in Files :
      \A k \in DOMAIN stream[g] : stream[g][k].trig # d[f].trig

(* The packets of a file reach the output in the order of the file, none   *)
(* of them twice, and none of them while it is still pending.              *)
PacketsInFileOrder ==
  \A f \in Files :
    /\ \A i, j \in DOMAIN events :
         i < j /\ f \in DOMAIN events[i] /\ f \in DOMAIN events[j]
           => events[i][f].trig < events[j][f].trig
    /\ \A i \in DOMAIN events : \A k \in DOMAIN pending[f] :
         f \in DOMAIN events[i] => events[i][f].trig < pending[f][k].trig

(* With keep_all no packet disappears: it is pending or in an event.       *)
TakenAreAccounted ==
  KeepAll =>
    \A f \in Files : \A k \in DOMAIN stream[f] :
      \/ \E l \in DOMAIN pending[f] : pending[f][l] = stream[f][k]
      \/ \E i \in DOMAIN events :
           f \in DOMAIN events[i] /\ events[i][f] = stream[f][k]

-----------------------------------------------------------------------------
(* Why these hold: the inductive invariant.                                *)

(* The groups disposed of so far, written or dropped.                      *)
Groups == {events[i] : i \in DOMAIN events} \union dropped

(* How many packets of f are in the groups.                                *)
Taken(f) == Len(stream[f]) - Len(pending[f])

PendingIsSuffix ==
  \A f \in Files :
    /\ Taken(f) \in Nat
    /\ \A k \in DOMAIN pending[f] : pending[f][k] = stream[f][Taken(f) + k]

(* The groups hold packets that were taken, and all of them.               *)
GroupsAreTaken ==
  \A g \in Groups : \A f \in DOMAIN g :
    \E k \in 1 .. Taken(f) : g[f] = stream[f][k]

TakenIsGrouped ==
  \A f \in Files : \A k \in 1 .. Taken(f) :
    \E g \in Groups : f \in DOMAIN g /\ g[f] = stream[f][k]

GroupsHoldOneTrigger ==
  stream \in SeparatedStreams =>
    \A d \in Groups : \A f, g \in DOMAIN d : d[f].trig = d[g].trig

(* Triggers are disposed of in order: nothing pending, of any file, belongs *)
(* to a trigger that was taken from some file, or to an earlier one.        *)
TriggersInOrder ==
  stream \in SeparatedStreams =>
    \A f, g \in Files : \A k \in 1 .. Taken(f) : \A l \in DOMAIN pending[g] :
      stream[f][k].trig < pending[g][l].trig

KeepAllDropsNothing == KeepAll => dropped = {}

(* The triggers that have not been disposed of.                            *)
Remaining == UNION {{pending[f][l].trig : l \in DOMAIN pending[f]} : f \in Files}

IInv ==
  /\ TypeOK
  /\ PendingIsSuffix
  /\ GroupsAreTaken
  /\ TakenIsGrouped
  /\ GroupsHoldOneTrigger
  /\ TriggersInOrder
  /\ NoCompleteTriggerDropped
  /\ KeepAllDropsNothing
  /\ PacketsInFileOrder

=============================================================================
