---------------------------- MODULE MCConverter ----------------------------
(***************************************************************************)
(* Instances of Converter for TLC: what the raw data files may hold.       *)
(***************************************************************************)
EXTENDS Converter, SequencesExt

CONSTANTS
  NumTriggers,  (* triggers 1 .. NumTriggers                               *)
  Spacing,      (* timestamp distance of two triggers                      *)
  Jitter,       (* a packet is up to Jitter late                           *)
  Unrelated     (* the timestamps of files that record other things        *)

(* A file misses a trigger (-1) or has its packet, up to Jitter late.      *)
Recording == [1 .. NumTriggers -> -1 .. Jitter]

Recorded(r) ==
  LET trigs == SetToSortSeq({t \in DOMAIN r : r[t] # -1}, <)
  IN  [k \in DOMAIN trigs |->
         [ts |-> trigs[k] * Spacing + r[trigs[k]], trig |-> trigs[k]]]

(* Files that record the same triggers, each with its own gaps and jitter. *)
RecordedStreams == [Files -> {Recorded(r) : r \in Recording}]

(* Files whose timestamps follow no rule: out of order, equal, maximal.    *)
UnrelatedStreams ==
  LET contents == UNION {[1 .. n -> Unrelated] : n \in 0 .. 3}
  IN  [Files -> {[k \in DOMAIN c |-> [ts |-> c[k], trig |-> k]] : c \in contents}]

AllStreams == RecordedStreams \union UnrelatedStreams

=============================================================================
