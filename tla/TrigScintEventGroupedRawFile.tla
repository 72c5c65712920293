-------------------- MODULE TrigScintEventGroupedRawFile --------------------
(***************************************************************************)
(* The raw data of the trigger scintillator as the python script groups    *)
(* it: events of bytes_per_event bytes, bytes 8 to 11 of which are the     *)
(* time since the spill, the highest byte first.  Byte stands for 2^8.     *)
(* Both shifts by 32 bits, of the first byte and of i_spill_, are          *)
(* undefined: the processor shifts by none, the compiler may give zero.    *)
(***************************************************************************)
EXTENDS RawDataFile

CONSTANT Byte

ASSUME ByteAssumption == Byte \in Nat /\ Byte > 1

Bytes == 0 .. Byte - 1

GroupedItem ==
  [kind : {"cut"}] \union [kind : {"bytes"}, time : Bytes \X Bytes \X Bytes \X Bytes]

Word32 == Byte * Byte * Byte * Byte

VARIABLES i_spill_count, last_event_time

groupedVars == <<i_spill_count, last_event_time>>

GroupedInit ==
  /\ i_spill_count = [f \in Files |-> -1]
  /\ last_event_time = [f \in Files |-> Word32 - 1]

-----------------------------------------------------------------------------
(* Shifted by 32, 24, 16 and 8 bits rather than by 24, 16, 8 and none.     *)
LowBytes(b) == ((b[2] * Byte + b[3]) * Byte + b[4]) * Byte

TimesSpill(b) == {LowBytes(b) + top : top \in {0, b[1]}}

(* A new spill; the fault: an event at the same time starts one, too.      *)
NotAfter(f, timeSpill) == timeSpill <= last_event_time[f]
IsEarlier(f, timeSpill) == timeSpill < last_event_time[f]

GiveEvent(f) ==
  /\ Finds(f, "bytes") /\ Reads(f)
  /\ \E timeSpill \in TimesSpill(Item(f).time) :
       /\ i_spill_count' = IF IsEarlier(f, timeSpill)
                             THEN [i_spill_count EXCEPT ![f] = @ + 1]
                             ELSE i_spill_count
       /\ last_event_time' = [last_event_time EXCEPT ![f] = timeSpill]
       /\ \E shifted \in {0, i_spill_count'[f]} :
            Gives(f, [at |-> pos[f] + 1,
                      ts |-> <<(shifted + timeSpill) % Word32>>])

NoMoreEvents(f) ==
  /\ AtEnd(f) /\ ReadFails(f) /\ GivesNothing(f) /\ UNCHANGED groupedVars

GroupedNext(f) ==
  /\ IsAsked(f, "EventGrouped")
  /\ GiveEvent(f) \/ NoMoreEvents(f)
  /\ Constant

=============================================================================
