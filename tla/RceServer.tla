----------------------------- MODULE RceServer -----------------------------
(***************************************************************************)
(* LdmxRceTcpServer, the server in python for the RCE.  The thread of the  *)
(* bridge hands messages to TcpCommandSlave, which leaves its state; the   *)
(* main loop reads it, several times in a round, makes a frame when it is  *)
(* running, and sets it to idle when it has been stopped.  Each reading    *)
(* and each writing of the state is a step, and so is whatever else may    *)
(* come between two of them.                                               *)
(***************************************************************************)
EXTENDS Naturals, Sequences

CONSTANTS
  MaxMessages,  (* bound: how many messages are sent                       *)
  MaxTx         (* bound: how many frames are made between two stops       *)

ASSUME RceAssumption == MaxMessages \in Nat /\ MaxTx \in Nat

Messages == {"configure", "run", "stop", "other"}

VARIABLES
  inbox,     (* the messages under way                                     *)
  sending,   (* bound: how many have been sent                             *)
  state,
  checked,   (* _configure has passed its check                            *)
  loop,      (* where the main loop is                                     *)
  txCount,   (* the frames made since prbs_src was reset                   *)
  accepted,  (* history: how many messages have been taken up              *)
  shown,     (* history: the number of the message the last frame was made *)
             (* after                                                      *)
  late       (* history: the frames made since the last stop came          *)

rceVars ==
  <<inbox, sending, state, checked, loop, txCount, accepted, shown, late>>

RceTypeOK ==
  /\ inbox \in Seq(Messages) /\ sending \in Nat
  /\ state \in {"idle", "configured", "run", "stop"}
  /\ checked \in BOOLEAN
  /\ loop \in {"run?", "generate", "stop?", "reset", "idle"}
  /\ txCount \in Nat /\ accepted \in Nat /\ shown \in Nat /\ late \in Nat

RceInit ==
  /\ inbox = << >> /\ sending = 0
  /\ state = "idle" /\ checked = FALSE /\ loop = "run?"
  /\ txCount = 0 /\ accepted = 0 /\ shown = 0 /\ late = 0

-----------------------------------------------------------------------------
SendMessage ==
  /\ sending < MaxMessages /\ sending' = sending + 1
  /\ \E msg \in Messages : inbox' = Append(inbox, msg)
  /\ UNCHANGED <<state, checked, loop, txCount, accepted, shown, late>>

(* _acceptFrame, on the thread of the bridge.                              *)
Taken(msg) ==
  /\ ~checked /\ inbox # << >> /\ Head(inbox) = msg /\ inbox' = Tail(inbox)
  /\ accepted' = accepted + 1
  /\ UNCHANGED <<sending, loop, txCount, shown>>

(* A configuration is refused unless the server is idle or configured.     *)
CanConfigure == state \in {"idle", "configured"}

CheckConfigure ==
  Taken("configure") /\ checked' = CanConfigure /\ UNCHANGED <<state, late>>

SetConfigured ==
  /\ checked /\ checked' = FALSE /\ state' = "configured"
  /\ UNCHANGED <<inbox, sending, loop, txCount, accepted, shown, late>>

SetRun == Taken("run") /\ state' = "run" /\ UNCHANGED <<checked, late>>

SetStop == Taken("stop") /\ state' = "stop" /\ late' = 0 /\ UNCHANGED checked

Ignore == Taken("other") /\ UNCHANGED <<state, checked, late>>

Slave == CheckConfigure \/ SetConfigured \/ SetRun \/ SetStop \/ Ignore

-----------------------------------------------------------------------------
(* The main loop.                                                          *)
LoopOnly == UNCHANGED <<inbox, sending, checked, accepted>>

(* What makes the loop generate; the fault: another of its comparisons.    *)
IsConfigured == state = "configured"
IsRunning == state = "run"

ReadRun ==
  /\ loop = "run?" /\ loop' = IF IsRunning THEN "generate" ELSE "stop?"
  /\ LoopOnly /\ UNCHANGED <<state, txCount, shown, late>>

genFrame ==
  /\ loop = "generate" /\ loop' = "stop?"
  /\ \/ /\ txCount < MaxTx /\ txCount' = txCount + 1
        /\ shown' = accepted
        /\ late' = IF state = "stop" THEN late + 1 ELSE late
     \/ txCount >= MaxTx /\ UNCHANGED <<txCount, shown, late>>
  /\ LoopOnly /\ UNCHANGED state

ReadStop ==
  /\ loop = "stop?" /\ loop' = IF state = "stop" THEN "reset" ELSE "run?"
  /\ LoopOnly /\ UNCHANGED <<state, txCount, shown, late>>

(* The count after a stop; the fault: it goes on.                          *)
CountKept == txCount
CountReset == 0

ResetCount ==
  /\ loop = "reset" /\ loop' = "idle" /\ txCount' = CountReset
  /\ LoopOnly /\ UNCHANGED <<state, shown, late>>

(* The state is not read again: a run that has come in the meantime is     *)
(* lost.                                                                   *)
SetIdle ==
  /\ loop = "idle" /\ loop' = "run?" /\ state' = "idle"
  /\ LoopOnly /\ UNCHANGED <<txCount, shown, late>>

RceLoop == ReadRun \/ genFrame \/ ReadStop \/ ResetCount \/ SetIdle

RceNext == SendMessage \/ Slave \/ RceLoop

RceSpec == RceInit /\ [][RceNext]_rceVars

-----------------------------------------------------------------------------
(* The frames of a run do not count in a later one that it was stopped and *)
(* configured before: prbs_src has been reset whenever the server is idle  *)
(* or configured, whatever has come while it was being stopped.            *)
CountsAreOfRun == state \in {"idle", "configured"} => txCount = 0

(* A stop is followed by one more frame at most.                           *)
OneFrameAfterStop == late <= 1

(* Why: the loop comes here only from a state that the slave cannot turn   *)
(* into another than these, and the first frame after a stop is the one    *)
(* that the loop was about to make.                                        *)
LoopHasSeen ==
  /\ loop \in {"generate", "reset", "idle"} => state \in {"run", "stop"}
  /\ loop = "idle" => txCount = 0
  /\ loop = "generate" /\ state = "stop" => late = 0
  /\ checked => state \in {"idle", "configured"}

RceInv == RceTypeOK /\ CountsAreOfRun /\ OneFrameAfterStop /\ LoopHasSeen

(* A run that has been taken up is followed by a frame, unless another     *)
(* message comes or it has come while the loop was on the way from a stop  *)
(* to idle: that one is lost.                                              *)
RunIsKept(n) ==
  accepted = n /\ state = "run" /\ loop \notin {"reset", "idle"} /\ txCount < MaxTx

RunIsShown ==
  \A n \in 1 .. MaxMessages : RunIsKept(n) ~> shown = n \/ accepted > n

=============================================================================
