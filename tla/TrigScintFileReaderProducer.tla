--------------------- MODULE TrigScintFileReaderProducer ---------------------
(***************************************************************************)
(* TrigScintFileReaderProducer, which plays a file of the trigger          *)
(* scintillator as events of the same size each.  Run control works on     *)
(* file_ on one thread, RunLoop on another, without a lock.                *)
(***************************************************************************)
EXTENDS Integers, SequencesExt

CONSTANTS
  WordsPerEvent,     (* n_bytes_per_event_, in words of eight bytes        *)
  Chunk              (* bound: how many words are read before anything     *)
                     (* else happens                                       *)

VARIABLES
  Length,              (* how many words the file has: never changes       *)
  state, run_number,
  is_open, fail, pos,  (* file_                                            *)
  loop,                (* where RunLoop is                                 *)
  packet,              (* the words of the event that is being read        *)
  sent

file_ == <<is_open, fail, pos>>

PlayerInit ==
  /\ is_open = FALSE /\ fail = FALSE /\ pos = 0
  /\ loop = "idle" /\ packet = << >>

DoInitialise ==
  /\ state = "uninit" /\ state' = "unconf"
  /\ UNCHANGED <<run_number, file_, loop, packet, sent>>

(* A file that is open is not opened again.                                *)
DoConfigure(exists) ==
  /\ state \in {"unconf", "conf", "stopped"}
  /\ IF exists /\ ~is_open
       THEN is_open' = TRUE /\ fail' = FALSE /\ pos' = 0 /\ state' = "conf"
       ELSE fail' = TRUE /\ state' = "error" /\ UNCHANGED <<is_open, pos>>
  /\ UNCHANGED <<run_number, loop, packet, sent>>

DoStartRun ==
  /\ state \in {"conf", "stopped"} /\ state' = "running"
  /\ run_number' = run_number + 1
  /\ loop' = IF loop = "idle" THEN "top" ELSE loop
  /\ UNCHANGED <<file_, packet, sent>>

DoStopRun ==
  /\ state \in {"running", "stopped"} /\ state' = "stopped"
  /\ is_open' = FALSE /\ fail' = (fail \/ ~is_open)
  /\ UNCHANGED <<run_number, pos, loop, packet, sent>>

DoReset ==
  /\ state \notin {"uninit", "running"} /\ state' = "uninit"
  /\ UNCHANGED <<run_number, file_, loop, packet, sent>>

-----------------------------------------------------------------------------
CanRead == is_open /\ ~fail /\ pos < Length

Top ==
  /\ loop = "top"
  /\ \/ fail /\ loop' = "idle" /\ state' = "stopped" /\ UNCHANGED packet
     \/ ~fail /\ loop' = "read" /\ packet' = << >> /\ UNCHANGED state
  /\ UNCHANGED <<run_number, file_, sent>>

(* How many words are read at once.                                        *)
Needed == Min({Chunk, WordsPerEvent - Len(packet), Length - pos})

ReadSome ==
  /\ loop = "read" /\ Len(packet) < WordsPerEvent /\ CanRead
  /\ pos' = pos + Needed
  /\ packet' = packet \o [i \in 1 .. Needed |-> pos + i]
  /\ UNCHANGED <<state, run_number, is_open, fail, loop, sent>>

(* An event that cannot be read to its end is dropped.                     *)
ReadFails ==
  /\ loop = "read" /\ Len(packet) < WordsPerEvent /\ ~CanRead
  /\ fail' = TRUE /\ loop' = "top"
  /\ UNCHANGED <<state, run_number, is_open, pos, packet, sent>>

SendEvent ==
  /\ loop = "read" /\ Len(packet) = WordsPerEvent /\ loop' = "top"
  /\ sent' = Append(sent, [words |-> packet, run |-> run_number])
  /\ UNCHANGED <<state, run_number, file_, packet>>

RunLoop == Top \/ ReadSome \/ ReadFails \/ SendEvent

RunControl ==
  DoInitialise \/ DoStartRun \/ DoStopRun \/ DoReset

=============================================================================
