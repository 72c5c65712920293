------------------------------ MODULE Packets ------------------------------
(***************************************************************************)
(* The data the event builder of reformat/ works on: the raw data files,   *)
(* the event packets each of them provides, and the alignment window.      *)
(*                                                                         *)
(* An EventPacket is its timestamp (a uint64_t in the code; TimestampMax   *)
(* is its largest value) and its payload.  The payload is abstracted to    *)
(* trig, the number of the trigger whose data it holds: the code never     *)
(* looks at it, the properties use it to say which packets belong          *)
(* together.                                                               *)
(***************************************************************************)
EXTENDS Integers, Sequences, FiniteSets

CONSTANTS
  Files,         (* names of the RawDataFiles attached to the Converter    *)
  Streams,       (* the possible contents of the files                     *)
  TimestampMax,  (* EventPacket::TimestampMax                              *)
  MaxDiff,       (* the parameter max_diff, an int that may be negative    *)
  KeepAll        (* the parameter keep_all                                 *)

Timestamp == 0 .. TimestampMax

Packet == [ts : Timestamp, trig : Nat]

(* max_diff_ is an int compared with an unsigned 64-bit difference: it is  *)
(* converted, so a negative value becomes a huge window.                   *)
Window == IF MaxDiff >= 0 THEN MaxDiff ELSE TimestampMax + 1 + MaxDiff

(* The packets of one file carry increasing trigger numbers.               *)
Numbered(s) ==
  \A f \in Files : \A k, l \in DOMAIN s[f] :
    k < l => s[f][k].trig < s[f][l].trig

ASSUME FilesAssumption == Files # {} /\ IsFiniteSet(Files)

ASSUME WindowAssumption ==
  /\ TimestampMax \in Nat
  /\ MaxDiff \in -(TimestampMax + 1) .. TimestampMax
  /\ KeepAll \in BOOLEAN

ASSUME StreamsAssumption ==
  \A s \in Streams : s \in [Files -> Seq(Packet)] /\ Numbered(s)

(* The condition under which alignment can work at all: packets of one     *)
(* trigger are within the window of each other, packets of two triggers    *)
(* are at least a window apart and ordered as the triggers are.            *)
Separated(s) ==
  \A f, g \in Files : \A k \in DOMAIN s[f], l \in DOMAIN s[g] :
    /\ s[f][k].trig = s[g][l].trig => s[f][k].ts - s[g][l].ts < Window
    /\ s[f][k].trig < s[g][l].trig => s[g][l].ts - s[f][k].ts >= Window

SeparatedStreams == {s \in Streams : Separated(s)}

(* A group is what alignment takes off the queues in one round: at most    *)
(* one packet of each file.                                                *)
IsGroup(g) == DOMAIN g \in SUBSET Files /\ g \in [DOMAIN g -> Packet]

=============================================================================
