------------------------- MODULE WhiteRabbitRawFile -------------------------
(***************************************************************************)
(* The raw data of White Rabbit: records of seven words, of which next()   *)
(* gives those of channel 1 (start of spill) and 2 (telescope trigger).    *)
(* The time of the last spill is kept in nanoseconds and compared with     *)
(* seconds, in 64 bits without sign: PerSecond and Word64 stand for 10^9   *)
(* and 2^64.                                                               *)
(***************************************************************************)
EXTENDS RawDataFile

CONSTANTS PerSecond, Word64

ASSUME SecondsAssumption ==
  PerSecond \in Nat \ {0} /\ Word64 \in Nat \ {0}

WhiteRabbitItem ==
  [kind : {"cut"}]
    \union [kind : {"record"}, channel : Nat, seconds : Nat, coarse : Nat]

VARIABLES i_spill, last_spill_time_

whiteRabbitVars == <<i_spill, last_spill_time_>>

(* last_spill_time_ is not initialised.                                    *)
WhiteRabbitInit ==
  /\ i_spill = [f \in Files |-> -1]
  /\ last_spill_time_ = [f \in Files |-> 0]

-----------------------------------------------------------------------------
SpillTime(r) == (r.seconds * PerSecond + r.coarse * 8) % Word64

(* What is more than five seconds after the last spill; the fault the code *)
(* is one typing error away from: seconds compared with seconds.           *)
SpillInSeconds(f, r) == (r.seconds - last_spill_time_[f] \div PerSecond) > 5
IsLater(f, r) == (r.seconds - last_spill_time_[f]) % Word64 > 5

CountSpill(f, r) ==
  IF r.channel = 1 /\ (IsLater(f, r) \/ i_spill[f] < 0)
    THEN /\ i_spill' = [i_spill EXCEPT ![f] = @ + 1]
         /\ last_spill_time_' = [last_spill_time_ EXCEPT ![f] = SpillTime(r)]
    ELSE UNCHANGED whiteRabbitVars

GiveRecord(f) ==
  /\ Finds(f, "record") /\ Item(f).channel \in {1, 2}
  /\ Reads(f) /\ CountSpill(f, Item(f))
  /\ Gives(f, [at |-> pos[f] + 1, ts |-> <<Item(f).seconds>>])

SkipRecord(f) ==
  /\ Finds(f, "record") /\ Item(f).channel \notin {1, 2}
  /\ Reads(f) /\ GoesOn(f) /\ UNCHANGED whiteRabbitVars

NoMoreRecords(f) ==
  /\ AtEnd(f) /\ ReadFails(f) /\ GivesNothing(f) /\ UNCHANGED whiteRabbitVars

WhiteRabbitNext(f) ==
  /\ IsAsked(f, "WhiteRabbit")
  /\ GiveRecord(f) \/ SkipRecord(f) \/ NoMoreRecords(f)
  /\ Constant

=============================================================================
