---------------------------- MODULE RogueServer ----------------------------
(***************************************************************************)
(* ldmx_rogue_server: the thread of the TCP bridge hands command frames to *)
(* TcpCommandReceiver::acceptFrame, which leaves a flag; the main loop     *)
(* polls the flags, acts on the first it finds, resets them all and        *)
(* generates a frame when it is running.                                   *)
(*                                                                         *)
(* The flags are plain bools that both threads read and write without a    *)
(* lock.  Every read and every write of a flag is a step of its own, so    *)
(* the threads interleave in every way the code allows.                    *)
(***************************************************************************)
EXTENDS RogueLink

CONSTANTS
  Emulate,         (* the option --emulate                                 *)
  ResetsCounters,  (* the generator's resetCounters does something (HCal)  *)
  MaxFrames        (* bound: how many frames are generated                 *)

ASSUME ServerAssumption ==
  Emulate \in BOOLEAN /\ ResetsCounters \in BOOLEAN /\ MaxFrames \in Nat

(* The order in which resetStates clears, and the loop polls, the flags.   *)
ResetOrder == <<"start", "stop", "reset", "init", "config", "command">>
PolledWithoutReset == <<"start", "stop", "init", "config">>
PollOrder == <<"start", "stop", "reset", "init", "config">>

Flags == {ResetOrder[k] : k \in DOMAIN ResetOrder}

(* The flag a frame leaves: none if its byte is not a command.             *)
FlagOf(kind) ==
  CASE kind \in CommandBytes -> {kind}
    [] kind = "string"       -> {"command"}
    [] OTHER                 -> {}

NoFrame == [kind |-> "none", run |-> 0]

VARIABLES
  flags,      (* the flags of TcpCommandReceiver that are true             *)
  rx,         (* the bridge thread: the frame in acceptFrame, next reset   *)
  main,       (* the main thread: where it is, its next flag               *)
  running,    (* the main loop is running                                  *)
  count,      (* the event counter of the generator                        *)
  generated,  (* how many frames have been generated                       *)
  run,        (* history: the run of the last start command obeyed         *)
  latest,     (* history: number and content of the last frame accepted    *)
  obeyed      (* history: the numbers of the frames the loop acted on      *)

server == <<flags, rx, main, running, count, generated, run, latest, obeyed>>

ServerTypeOK ==
  /\ flags \in SUBSET Flags
  /\ rx \in [frame : CommandFrame \union {NoFrame}, k : 1 .. 7]
  /\ main \in [at : {"poll", "reset", "generate"}, k : 1 .. 6]
  /\ running \in BOOLEAN
  /\ count \in Nat
  /\ generated \in 0 .. MaxFrames
  /\ run \in Runs
  /\ latest \in [number : Nat, frame : CommandFrame \union {NoFrame}]
  /\ obeyed \in Seq(Nat)

ServerInit ==
  /\ flags = {}
  /\ rx = [frame |-> NoFrame, k |-> 1]
  /\ main = [at |-> "poll", k |-> 1]
  /\ running = FALSE
  /\ count = 0
  /\ generated = 0
  /\ run = 0
  /\ latest = [number |-> 0, frame |-> NoFrame]
  /\ obeyed = << >>

-----------------------------------------------------------------------------
(* acceptFrame, on the thread of the bridge.                               *)

(* A frame with an error is skipped, any other frame is taken up.          *)
AcceptFrame(c) ==
  /\ rx.frame = NoFrame
  /\ commands[c] # << >>
  /\ commands' = [commands EXCEPT ![c] = Tail(@)]
  /\ IF Head(commands[c]).kind = "error"
       THEN UNCHANGED rx
       ELSE rx' = [frame |-> Head(commands[c]), k |-> 1]
  /\ UNCHANGED <<frames, flags, main, running, count, generated, run, latest,
                 obeyed>>

(* The flags after resetStates has come to the k-th; the fault: the flags  *)
(* stay as they are.                                                       *)
NotCleared(k) == flags
Cleared(k) == flags \ {ResetOrder[k]}

ReceiverResets ==
  /\ rx.frame # NoFrame
  /\ rx.k \in DOMAIN ResetOrder
  /\ flags' = Cleared(rx.k)
  /\ rx' = [rx EXCEPT !.k = @ + 1]
  /\ UNCHANGED <<link, main, running, count, generated, run, latest, obeyed>>

ReceiverSets ==
  /\ rx.frame # NoFrame
  /\ rx.k \notin DOMAIN ResetOrder
  /\ flags' = flags \union FlagOf(rx.frame.kind)
  /\ latest' = [number |-> latest.number + 1, frame |-> rx.frame]
  /\ rx' = [frame |-> NoFrame, k |-> 1]
  /\ UNCHANGED <<link, main, running, count, generated, run, obeyed>>

-----------------------------------------------------------------------------
(* The main loop.                                                          *)

(* The event counter after a command; the fault: any command resets it.    *)
AlwaysReset(flag) == 0
CountAfter(flag) ==
  IF flag \in {"stop", "reset"} /\ Emulate /\ ResetsCounters THEN 0 ELSE count

(* One command is acted on, and the rest of the chain is skipped.          *)
Obey(flag) ==
  /\ running' = CASE flag = "start"              -> TRUE
                  [] flag \in {"stop", "reset"}  -> FALSE
                  [] OTHER                       -> running
  /\ count' = CountAfter(flag)
  /\ run' = IF flag = "start" THEN latest.frame.run ELSE run
  /\ obeyed' = Append(obeyed, latest.number)
  /\ main' = [at |-> "reset", k |-> 1]

Poll ==
  /\ main.at = "poll"
  /\ \/ /\ PollOrder[main.k] \in flags
        /\ Obey(PollOrder[main.k])
     \/ /\ PollOrder[main.k] \notin flags
        /\ main' = IF main.k < Len(PollOrder) THEN [main EXCEPT !.k = @ + 1]
                                              ELSE [at |-> "reset", k |-> 1]
        /\ UNCHANGED <<running, count, run, obeyed>>
  /\ UNCHANGED <<link, flags, rx, generated, latest>>

MainResets ==
  /\ main.at = "reset"
  /\ flags' = Cleared(main.k)
  /\ main' = IF main.k < Len(ResetOrder) THEN [main EXCEPT !.k = @ + 1]
                                         ELSE [at |-> "generate", k |-> 1]
  /\ UNCHANGED <<link, rx, running, count, generated, run, latest, obeyed>>

(* A frame goes to any one of the connected clients.  Then the loop sleeps *)
(* and polls again.                                                        *)
Generate(connected) ==
  /\ main.at = "generate"
  /\ \/ /\ running /\ Emulate /\ generated < MaxFrames
        /\ \E c \in connected :
             frames' = [frames EXCEPT ![c] =
                          Append(@, [run |-> run, count |-> count])]
        /\ count' = count + 1
        /\ generated' = generated + 1
     \/ /\ ~(running /\ Emulate /\ generated < MaxFrames /\ connected # {})
        /\ UNCHANGED <<frames, count, generated>>
  /\ main' = [at |-> "poll", k |-> 1]
  /\ UNCHANGED <<commands, flags, rx, running, run, latest, obeyed>>

Receiver == (\E c \in Clients : AcceptFrame(c)) \/ ReceiverResets \/ ReceiverSets

MainLoop(connected) == Poll \/ MainResets \/ Generate(connected)

(* What the clients do, as far as the server can tell.                     *)
ClientSteps ==
  /\ \/ \E C \in SUBSET Clients, frame \in CommandFrame : SendCommand(C, frame)
     \/ \E c \in Clients : TakeFrame(c)
  /\ UNCHANGED server

ServerNext ==
  \/ Receiver
  \/ \E connected \in SUBSET Clients : MainLoop(connected)
  \/ ClientSteps

ServerSpec == LinkInit /\ ServerInit /\ [][ServerNext]_<<link, server>>

-----------------------------------------------------------------------------
(* At most one flag is up, and it is that of the frame accepted last: a    *)
(* command that the loop has not seen yet never survives the next one, so  *)
(* the loop cannot act on a start after a stop (acceptFrame resets before  *)
(* it sets, while the loop reads and resets).                              *)
FlagIsLatest == flags \subseteq FlagOf(latest.frame.kind)

(* The loop acts on commands in the order in which they arrived, and on    *)
(* none of them twice, whatever the two threads do to the flags.           *)
ObeyedInOrder ==
  \A i, j \in DOMAIN obeyed : i < j => obeyed[i] < obeyed[j]

(* A command that is waiting when the loop comes round, with no other      *)
(* frame on its way, is acted on: only a later frame, or the resets of the *)
(* round it arrives in, can take it away.                                  *)
Waiting(flag) ==
  /\ flag \in flags
  /\ main = [at |-> "poll", k |-> 1]
  /\ rx.frame = NoFrame

WaitingIsObeyed ==
  \A flag \in CommandBytes :
    Waiting(flag) ~> \/ obeyed # << >> /\ obeyed[Len(obeyed)] = latest.number
                     \/ rx.frame # NoFrame

(* TcpCommandReceiver.h of stop_run_: "Flag indicating whether a run should *)
(* be stopped."  Whoever raises it should see the run stopped.              *)
StopIsObeyed == "stop" \in flags ~> ~running

(* The invariant: while a frame is being accepted the flags before rx.k    *)
(* are down, and a flag the loop has acted on is one it is about to reset. *)
ClearedStaysCleared ==
  rx.frame # NoFrame => \A k \in 1 .. (rx.k - 1) : ResetOrder[k] \notin flags

ObeyedIsReset ==
  /\ \A i \in DOMAIN obeyed : obeyed[i] <= latest.number
  /\ \A i \in DOMAIN obeyed : \A k \in DOMAIN ResetOrder :
       obeyed[i] = latest.number /\ ResetOrder[k] \in flags =>
         main.at = "reset" /\ main.k <= k

ServerInv ==
  /\ LinkTypeOK
  /\ ServerTypeOK
  /\ FlagIsLatest
  /\ ClearedStaysCleared
  /\ ObeyedIsReset
  /\ ObeyedInOrder

=============================================================================
