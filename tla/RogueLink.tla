----------------------------- MODULE RogueLink -----------------------------
(***************************************************************************)
(* The rogue TCP bridge between the run-control producers of eudaq and the *)
(* process that provides the data: each TcpClient has a connection of its  *)
(* own, on which command frames go to the server and data frames come      *)
(* back.  The bridge itself is a library: it keeps the frames of one       *)
(* connection in order and loses none, and nothing is assumed between two  *)
(* connections.                                                            *)
(***************************************************************************)
EXTENDS Naturals, Sequences

CONSTANTS
  MaxClients,  (* bound: how often a client is created in a session        *)
  MaxRuns      (* bound: how many runs are started                         *)

ASSUME LinkAssumption == MaxClients \in Nat /\ MaxRuns \in Nat

Clients == 1 .. MaxClients

Runs == 0 .. MaxRuns

(* A frame for the server: one of the command bytes of Commands.h, another *)
(* byte, a string (any other size), or a frame with an error.  run is the  *)
(* run it was sent for; the server never looks at it.                      *)
CommandBytes == {"start", "stop", "reset", "init", "config"}

CommandFrame ==
  [kind : CommandBytes \union {"otherByte", "string", "error"}, run : Runs]

(* A data frame: the generator's counter, and the run it was generated     *)
(* for, which is that of the last start command obeyed.                    *)
DataFrame == [run : Runs, count : Nat]

VARIABLES
  commands,  (* per connection, the command frames under way               *)
  frames     (* per connection, the data frames under way                  *)

link == <<commands, frames>>

LinkTypeOK ==
  /\ commands \in [Clients -> Seq(CommandFrame)]
  /\ frames \in [Clients -> Seq(DataFrame)]

LinkInit ==
  /\ commands = [c \in Clients |-> << >>]
  /\ frames = [c \in Clients |-> << >>]

(* A command goes out on the connections C, all at once: the generator     *)
(* hands it to one client after the other, and each only queues it.        *)
SendCommand(C, frame) ==
  /\ commands' = [c \in Clients |-> IF c \in C THEN Append(commands[c], frame)
                                               ELSE commands[c]]
  /\ UNCHANGED frames

(* A data frame leaves connection c on the side of the client.             *)
TakeFrame(c) ==
  /\ frames[c] # << >>
  /\ frames' = [frames EXCEPT ![c] = Tail(@)]
  /\ UNCHANGED commands

=============================================================================
