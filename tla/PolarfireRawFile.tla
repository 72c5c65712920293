-------------------------- MODULE PolarfireRawFile --------------------------
(***************************************************************************)
(* The raw data of a Polarfire.  Its items are                             *)
(*   "word"   a word before the signal word, inserted by rogue,            *)
(*   "event"  a whole event of version 2, with its spill (12 bits) and its *)
(*            ticks since the spill,                                       *)
(*   "bad"    a signal word with a header that pop() throws at: another    *)
(*            version, a length less than the header, the end of the file. *)
(* next() skips the events between spills and the first spills_to_skip_    *)
(* spills.  keep_current_spill is a static variable of next(): all files   *)
(* share it, and the first file to be asked initialises it.                *)
(***************************************************************************)
EXTENDS RawDataFile

CONSTANTS MinTick, MaxTick   (* min_ and max_intra_spill_tick_ *)

ASSUME TicksAssumption == MinTick \in Nat /\ MaxTick \in Nat

VARIABLES
  offset,              (* per file, the parameter spills_to_skip          *)
  keep_current_spill,  (* empty before it is initialised                  *)
  spill_,
  i_spill_,
  spills_to_skip_

PolarfireItem ==
  [kind : {"word", "bad", "cut"}]
    \union [kind : {"event"}, spill : Nat, ticks : Nat]

polarfireVars ==
  <<offset, keep_current_spill, spill_, i_spill_, spills_to_skip_>>

Polarfire == {f \in Files : class[f] = "Polarfire"}

PolarfireInit ==
  /\ keep_current_spill = {}
  /\ spill_ = [f \in Files |-> -1]
  /\ i_spill_ = [f \in Files |-> 0]
  /\ spills_to_skip_ = offset

-----------------------------------------------------------------------------
Keeps(f) == IF keep_current_spill = {} THEN spills_to_skip_[f] <= 0
                                       ELSE TRUE \in keep_current_spill

Counters == <<spill_, i_spill_, spills_to_skip_>>

(* pop() comes to the signal word, or to the end of the file, or throws.   *)
PopWord(f) ==
  /\ Finds(f, "word") /\ Reads(f) /\ GoesOn(f)
  /\ keep_current_spill' = {Keeps(f)} /\ UNCHANGED Counters

PopFails(f) ==
  /\ AtEnd(f) /\ ReadFails(f) /\ GivesNothing(f)
  /\ keep_current_spill' = {Keeps(f)} /\ UNCHANGED Counters

PopThrows(f) ==
  /\ Finds(f, "bad") /\ Reads(f) /\ Throws(f)
  /\ keep_current_spill' = {Keeps(f)} /\ UNCHANGED Counters

(* The ticks that belong to a spill; the fault: one tick too many.         *)
InLongSpill(ticks) == ticks >= MinTick /\ ticks <= MaxTick + 1
InSpill(ticks) == ticks >= MinTick /\ ticks <= MaxTick

SkipInterSpill(f) ==
  /\ Finds(f, "event") /\ ~InSpill(Item(f).ticks)
  /\ Reads(f) /\ GoesOn(f)
  /\ keep_current_spill' = {Keeps(f)} /\ UNCHANGED Counters

(* Whether an event belongs to the spill of the one before.                *)
IsNewSpill(f) == Item(f).spill # spill_[f]

IsSkipped(f) == spills_to_skip_[f] > 0

NewSpill(f) ==
  /\ spill_' = [spill_ EXCEPT ![f] = Item(f).spill]
  /\ keep_current_spill' = {~IsSkipped(f)}
  /\ IF IsSkipped(f)
       THEN /\ spills_to_skip_' = [spills_to_skip_ EXCEPT ![f] = @ - 1]
            /\ UNCHANGED i_spill_
       ELSE /\ i_spill_' = [i_spill_ EXCEPT ![f] = @ + 1]
            /\ UNCHANGED spills_to_skip_

(* The timestamp: the count of kept spills in the upper half, the ticks in *)
(* the lower.                                                              *)
PopEvent(f) ==
  /\ Finds(f, "event") /\ InSpill(Item(f).ticks)
  /\ Reads(f)
  /\ IF IsNewSpill(f)
       THEN NewSpill(f)
       ELSE keep_current_spill' = {Keeps(f)} /\ UNCHANGED Counters
  /\ IF TRUE \in keep_current_spill'
       THEN Gives(f, [at |-> pos[f] + 1,
                      ts |-> <<i_spill_'[f], Item(f).ticks>>])
       ELSE GoesOn(f)

PolarfireNext(f) ==
  /\ IsAsked(f, "Polarfire")
  /\ \/ PopWord(f) \/ PopFails(f) \/ PopThrows(f)
     \/ SkipInterSpill(f) \/ PopEvent(f)
  /\ Constant /\ UNCHANGED offset

=============================================================================
