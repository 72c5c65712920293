------------------- MODULE CaptanTrigScintTestBeamProducer -------------------
(***************************************************************************)
(* CaptanTrigScintTestBeamProducer, which takes the data of the trigger    *)
(* scintillator from its front end over UDP.  Run control calls            *)
(* DoInitialise, DoConfigure, DoStartRun, DoStopRun and DoReset on its     *)
(* command thread, which switches the front end on and off by messages     *)
(* that nobody acknowledges; the thread of the UDP client hands every      *)
(* frame to the file writer and then to the data sender.  Both ways        *)
(* packets may be lost; they stay in order.                                *)
(*                                                                         *)
(* A frame is a stretch of the words that the front end has.  The packet   *)
(* count that it begins with is dropped by the writer and by the sender.   *)
(***************************************************************************)
EXTENDS TrigScintDataSender

CONSTANTS
  FrameWords,  (* how many words the front end puts into a frame           *)
  MaxRuns,     (* bound: how many runs are started                         *)
  MaxClients,  (* bound: how often the producer is initialised             *)
  MaxFrames,   (* bound: how many frames are under way                     *)
  MaxLosses    (* bound: how many packets are lost or have an error        *)

VARIABLES
  state,       (* of the producer in run control                           *)
  run_number,
  call,        (* the call in progress                                     *)
  writer,      (* the open file, if any, by its run                        *)
  files,       (* per run, the words written                               *)
  client,      (* udp_client_: which one it is                             *)
  commands,    (* the messages under way, with the client they are from    *)
  known,       (* the client that the front end sends frames to            *)
  enabled,     (* whether it sends any                                     *)
  at,          (* the next word it has                                     *)
  frames,      (* the frames under way                                     *)
  delivering,  (* the frame that the writer has had and the sender not     *)
  losses,
  missed,      (* history: the last message has been lost                  *)
  heard,       (* history: the words that the sender has been given        *)
  unwritten    (* history: those that came when no file was open           *)

frontEnd == <<known, enabled, at>>
control == <<state, run_number, call, writer, client>>
history == <<losses, missed, heard, unwritten>>
captanVars ==
  <<senderVars, control, files, commands, frontEnd, frames, delivering, history>>

Runs == 1 .. MaxRuns

CaptanInit ==
  /\ SenderInit
  /\ state = "uninit" /\ run_number = 0 /\ call = "none"
  /\ writer = {} /\ files = [r \in Runs |-> << >>]
  /\ client = 0 /\ commands = << >>
  /\ known = 0 /\ enabled = FALSE /\ at = 1
  /\ frames = << >> /\ delivering = << >>
  /\ losses = 0 /\ missed = FALSE /\ heard = {} /\ unwritten = {}

-----------------------------------------------------------------------------
(* A new client takes the place of the old one, whose thread is waited     *)
(* for; what is still under way to its socket is lost.                     *)
DoInitialise ==
  /\ state = "uninit" /\ state' = "unconf"
  /\ client < MaxClients /\ client' = client + 1
  /\ delivering = << >> /\ frames' = << >>
  /\ UNCHANGED <<senderVars, run_number, call, writer, files, commands, frontEnd,
                 delivering, history>>

DoConfigure ==
  /\ call = "none"
  /\ state \in {"unconf", "conf", "stopped"} /\ state' = "conf"
  /\ UNCHANGED <<senderVars, run_number, call, writer, client, files, commands,
                 frontEnd, frames, delivering, history>>

Send(kinds) ==
  /\ commands' = commands \o [i \in DOMAIN kinds |-> <<kinds[i], client>>]
  /\ missed' = FALSE
  /\ UNCHANGED <<frontEnd, losses, heard, unwritten>>

(* First the file is opened, then the front end is switched on.  The       *)
(* fault: it is switched off last.                                         *)
DoStartRun ==
  /\ state \in {"conf", "stopped"} /\ call = "none" /\ call' = "DoStartRun"
  /\ run_number < MaxRuns /\ run_number' = run_number + 1
  /\ writer' = {run_number'}
  /\ UNCHANGED <<senderVars, state, client, files, commands, frontEnd, frames,
                 delivering, history>>

OffAfterOn == <<"two", "on", "off">>
StartMessages == <<"two", "off", "on">>

StartEnables ==
  /\ call = "DoStartRun" /\ call' = "none" /\ state' = "running"
  /\ Send(StartMessages)
  /\ UNCHANGED <<senderVars, run_number, writer, client, files, frames, delivering>>

DoStopRun ==
  /\ state = "running" /\ call = "none" /\ call' = "DoStopRun"
  /\ Send(<<"off">>)
  /\ UNCHANGED <<senderVars, state, run_number, writer, client, files, frames,
                 delivering>>

StopCloses ==
  /\ call = "DoStopRun" /\ call' = "none" /\ state' = "stopped"
  /\ writer' = {}
  /\ UNCHANGED <<senderVars, run_number, client, files, commands, frontEnd, frames,
                 delivering, history>>

(* The command of the base class goes to no client, which may be an error. *)
DoReset ==
  /\ state \notin {"uninit", "running"} /\ call = "none"
  /\ state' \in {"uninit", "error"}
  /\ UNCHANGED <<senderVars, run_number, call, writer, client, files, commands,
                 frontEnd, frames, delivering, history>>

RunControl ==
  \/ DoInitialise \/ DoStartRun \/ StartEnables \/ DoStopRun \/ StopCloses
  \/ DoReset

-----------------------------------------------------------------------------
(* The front end.  It sends frames to where the last message came from.    *)
(* Switched on, it goes on where it was or with the next event.            *)
StartOfNext ==
  Min({p + 1 : p \in {q \in DOMAIN Stream : q >= at /\ IsEnd(q)}} \union {Len(Stream) + 1})

FrontEndHears ==
  /\ commands # << >> /\ commands' = Tail(commands)
  /\ LET kind == commands[1][1]
     IN  /\ known' = commands[1][2]
         /\ enabled' = IF kind = "two" THEN enabled ELSE kind = "on"
         /\ at' = at \/ (kind = "on" /\ ~enabled /\ at' = StartOfNext)
  /\ UNCHANGED <<senderVars, control, files, frames, delivering, history>>

Lose == losses < MaxLosses /\ losses' = losses + 1

CommandIsLost ==
  /\ commands # << >> /\ commands' = Tail(commands)
  /\ Lose
  /\ missed' = (Len(commands) = 1)
  /\ UNCHANGED <<senderVars, control, files, frontEnd, frames, delivering, heard,
                 unwritten>>

NextFrame(error) ==
  [from |-> at, to |-> Min({at + FrameWords - 1, Len(Stream)}), error |-> error]

FrontEndSends ==
  /\ enabled /\ at <= Len(Stream) /\ at' = NextFrame(FALSE).to + 1
  /\ \/ known = client /\ Len(frames) < MaxFrames
        /\ \/ frames' = Append(frames, NextFrame(FALSE)) /\ UNCHANGED losses
           \/ frames' = Append(frames, NextFrame(TRUE)) /\ Lose
     \/ known = client /\ Lose /\ UNCHANGED frames
     \/ known # client /\ UNCHANGED <<frames, losses>>
  /\ UNCHANGED <<senderVars, control, files, commands, known, enabled, delivering,
                 missed, heard, unwritten>>

-----------------------------------------------------------------------------
(* The thread of the client: the frame is written, with its error, and     *)
(* then given to the sender, which takes one word after the other, each in *)
(* the run that it is by then.                                             *)
Span(frame) == [i \in 1 .. frame.to - frame.from + 1 |-> frame.from + i - 1]

(* The fault: every frame is written over the one before.                  *)
Overwritten(words, frame) == Span(frame)
Written(words, frame) == words \o Span(frame)

WriteFrame ==
  /\ delivering = << >> /\ frames # << >>
  /\ frames' = Tail(frames) /\ delivering' = <<frames[1]>>
  /\ files' = [r \in Runs |-> IF r \in writer THEN Written(files[r], frames[1])
                                              ELSE files[r]]
  /\ unwritten' = IF writer = {} THEN unwritten \union frames[1].from .. frames[1].to
                                 ELSE unwritten
  /\ UNCHANGED <<senderVars, control, commands, frontEnd, losses, missed, heard>>

(* What is left of the frame is in delivering.                             *)
AfterWord(frame) ==
  IF frame.from = frame.to THEN << >> ELSE <<[frame EXCEPT !.from = @ + 1]>>

TakeWord ==
  /\ delivering # << >> /\ IsTaken(delivering[1])
  /\ takeWord(delivering[1].from, run_number)
  /\ delivering' = AfterWord(delivering[1])
  /\ heard' = heard \union {delivering[1].from}
  /\ UNCHANGED <<control, files, commands, frontEnd, frames, losses, missed,
                 unwritten>>

DropFrame ==
  /\ delivering # << >> /\ ~IsTaken(delivering[1]) /\ delivering' = << >>
  /\ UNCHANGED <<senderVars, control, files, commands, frontEnd, frames, history>>

UdpClient == WriteFrame \/ TakeWord \/ DropFrame

FrontEnd == FrontEndHears \/ CommandIsLost \/ FrontEndSends

=============================================================================
