------------------------- MODULE FiberTrackerRawFile -------------------------
(***************************************************************************)
(* The raw data of the fiber tracker: spills of 25 fields in order, one of *)
(* which lists the events of the spill, ten words each.  Its items are     *)
(*   "spill"  a spill whose fields are all in their places, with the times *)
(*            of its events, and how many words its list has left over,    *)
(*   "bad"    a spill with a field that has the wrong header,              *)
(*   "cut"    a spill that the file ends in, with the times as a read past *)
(*            the end leaves them.                                         *)
(* A field is read without a look at the reader.  Where the file has ended *)
(* its length and header are not initialised: they are whatever the stack  *)
(* holds, most likely something else than the header of the field, but it  *)
(* may as well be what was read there for the last spill.                  *)
(***************************************************************************)
EXTENDS RawDataFile

Times == Nat \X Nat

TrackerItem ==
  [kind : {"bad"}] \union [kind : {"cut"}, times : Seq(Times)]
    \union [kind : {"spill"}, times : Seq(Times), rest : Nat, restTime : Times]

VARIABLES spill_events_, i_spill_event_

trackerVars == <<spill_events_, i_spill_event_>>

TrackerInit ==
  /\ spill_events_ = [f \in Files |-> << >>]
  /\ i_spill_event_ = [f \in Files |-> 0]

-----------------------------------------------------------------------------
(* The words left over in a list make one more event with fewer hits,      *)
(* unless they are too few for its two timestamps.                         *)
Listed(spill) ==
  IF spill.rest >= 4 THEN Append(spill.times, spill.restTime) ELSE spill.times

ListThrows(spill) == spill.rest \in 1 .. 3

(* The same fields once more, with nothing but zeros in them.              *)
LastSpillEmptied(f) == [k \in DOMAIN spill_events_[f] |-> <<0, 0>>]

(* The lists of events that next_spill() may come back with; at the end of *)
(* the file it comes back only if the stack happens to hold every header.  *)
SpillLists(f) ==
  CASE Finds(f, "spill") /\ ~ListThrows(Item(f)) -> {Listed(Item(f))}
    [] Finds(f, "cut") -> {Item(f).times}
    [] pos[f] = Len(data[f]) -> {LastSpillEmptied(f)}
    [] OTHER -> {}

NextSpillThrows(f) ==
  \/ AtEnd(f) \/ Finds(f, "bad")
  \/ Finds(f, "spill") /\ ListThrows(Item(f))

(* The first event of the list is taken without a look at its size.        *)
FirstOfSpill(f) ==
  /\ i_spill_event_[f] >= Len(spill_events_[f]) /\ f \notin failed
  /\ IF AtEnd(f) THEN ReadFails(f) ELSE Reads(f)
  /\ \/ \E events \in SpillLists(f) :
          /\ spill_events_' = [spill_events_ EXCEPT ![f] = events]
          /\ i_spill_event_' = [i_spill_event_ EXCEPT ![f] = 1]
          /\ IF events = << >> THEN Throws(f)
                               ELSE Gives(f, [at |-> pos'[f], ts |-> events[1]])
     \/ NextSpillThrows(f) /\ Throws(f) /\ UNCHANGED trackerVars

NextOfSpill(f) ==
  /\ i_spill_event_[f] < Len(spill_events_[f])
  /\ i_spill_event_' = [i_spill_event_ EXCEPT ![f] = @ + 1]
  /\ Gives(f, [at |-> pos[f], ts |-> spill_events_[f][i_spill_event_'[f]]])
  /\ UNCHANGED <<pos, failed, spill_events_>>

(* The file is done only if its reader has failed before.                  *)
NoMoreSpills(f) ==
  /\ i_spill_event_[f] >= Len(spill_events_[f]) /\ f \in failed
  /\ GivesNothing(f) /\ UNCHANGED <<pos, failed, trackerVars>>

TrackerNext(f) ==
  /\ IsAsked(f, "FiberTracker")
  /\ FirstOfSpill(f) \/ NextOfSpill(f) \/ NoMoreSpills(f)
  /\ Constant

=============================================================================
