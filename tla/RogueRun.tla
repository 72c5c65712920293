------------------------------ MODULE RogueRun ------------------------------
(***************************************************************************)
(* Taking runs through the rogue bridge: a RogueTcpClientProducer and the  *)
(* ldmx_rogue_server, each with its threads, and the bridge between them.  *)
(***************************************************************************)
EXTENDS RogueServer, RogueTcpClientProducer

vars == <<link, server, producer>>

Init == LinkInit /\ ServerInit /\ ProducerInit

Next ==
  \/ /\ Receiver \/ MainLoop(Attached)
     /\ UNCHANGED producer
  \/ /\ RunControl \/ (\E c \in Clients : ClientThread(c))
     /\ UNCHANGED server

Spec == Init /\ [][Next]_vars

(* Run control may stop calling; the threads go on.                        *)
Fairness ==
  /\ WF_vars(Receiver /\ UNCHANGED producer)
  /\ WF_vars(MainLoop(Attached) /\ UNCHANGED producer)
  /\ WF_vars((ConfigureOpens \/ StopCloses) /\ UNCHANGED server)
  /\ \A c \in Clients : WF_vars(ClientThread(c) /\ UNCHANGED server)

TypeOK == LinkTypeOK /\ ServerTypeOK /\ ProducerTypeOK

-----------------------------------------------------------------------------
(* The frames of s belong to run r or to earlier runs.                     *)
UpTo(s, r) == \A i \in DOMAIN s : s[i].run <= r

(* A file never receives data of a later run than the one it was opened    *)
(* for: DoStopRun closes the file, although the server may still be        *)
(* sending, and the next start comes without a file or after DoConfigure   *)
(* has opened another (files are named after the run before).              *)
NoLaterRunInFile == \A r \in Runs : UpTo(files[r], r + 1)

(* The order in which the generator made the frames: by run, then by count *)
Before(f, g) == f.run < g.run \/ (f.run = g.run /\ f.count < g.count)

InOrder(s) == \A i, j \in DOMAIN s : i < j => Before(s[i], s[j])

(* With one client, the files and the data collector get the frames in the *)
(* order in which they were generated, none of them twice, across every    *)
(* stop, reset and lost command.                                           *)
FramesInOrder ==
  attached <= 1 => InOrder(sent) /\ \A r \in Runs : InOrder(files[r])

(* Why no later run gets into a file: no command, frame or history is of a *)
(* run that has not been started, ...                                      *)
NothingOfLaterRuns ==
  /\ run <= run_number /\ latest.frame.run <= run_number
  /\ rx.frame.run <= run_number
  /\ \A c \in Clients :
       /\ UpTo(commands[c], run_number)
       /\ UpTo(frames[c], run_number)
       /\ delivering[c].frame.run <= run_number

(* ... and no run is started over an open file but the first one after it  *)
(* was opened.                                                             *)
FileIsCurrent ==
  /\ \A r \in writer : run_number = IF state = "running" THEN r + 1 ELSE r
  /\ state = "stopped" => writer = NoFile
  /\ call = "DoStopRun" => state = "running"
  /\ call = "DoConfigure" => state # "running"

(* Why the frames are in order.  A client that has not been attached has   *)
(* nothing to do.                                                          *)
OnlyAttached ==
  \A c \in Clients \ Attached :
    commands[c] = << >> /\ frames[c] = << >> /\ delivering[c].to = {}

In(s) == {s[i] : i \in DOMAIN s}

(* With one client the starts that the server has not obeyed are in order  *)
(* and of later runs than the one it has obeyed last.                      *)
IsStart(frame) == frame.kind = "start"
Unseen == {rx.frame} \union UNION {In(commands[c]) : c \in Clients}
IsObeyed(number) == \E i \in DOMAIN obeyed : obeyed[i] = number
StartsInOrder(s) ==
  \A i, j \in DOMAIN s :
    i < j /\ IsStart(s[i]) /\ IsStart(s[j]) => s[i].run < s[j].run

StartsAreLater ==
  attached <= 1 =>
    /\ IsStart(latest.frame) =>
         /\ run <= latest.frame.run
         /\ ~IsObeyed(latest.number) => run < latest.frame.run
    /\ \A f \in Unseen : IsStart(f) =>
         run < f.run /\ (IsStart(latest.frame) => latest.frame.run < f.run)
    /\ \A c \in Clients :
         /\ StartsInOrder(commands[c])
         /\ IsStart(rx.frame) =>
              \A f \in In(commands[c]) : IsStart(f) => rx.frame.run < f.run

(* With one client what has been handed out, what its thread holds and     *)
(* what is under way follow each other, and the generator goes on after    *)
(* them: a counter that a stop has reset waits for the start of the next   *)
(* run.                                                                    *)
Ahead(F, G) == \A f \in F, g \in G : Before(f, g)
Held(c, slave) == IF slave \in delivering[c].to THEN {delivering[c].frame} ELSE {}
Made(f) == f.run < run \/ (f.run = run /\ (running => f.count < count))

Line(s, slave) ==
  /\ InOrder(s) /\ \A f \in In(s) : Made(f)
  /\ \A c \in Clients : Ahead(In(s), Held(c, slave) \union In(frames[c]))

FramesInLine ==
  attached <= 1 =>
    /\ Line(sent, "sender")
    /\ \A r \in Runs : Line(files[r], "writer")
    /\ \A c \in Clients : \A slave \in {"writer", "sender"} :
         /\ InOrder(frames[c]) /\ Ahead(Held(c, slave), In(frames[c]))
         /\ \A f \in Held(c, slave) \union In(frames[c]) : Made(f)

SessionInv ==
  /\ TypeOK
  /\ NothingOfLaterRuns
  /\ FileIsCurrent
  /\ NoLaterRunInFile

RunInv == SessionInv /\ OnlyAttached /\ StartsAreLater /\ FramesInLine

(* Every frame that is generated reaches the data collector, once: whatever *)
(* the state of the run, the client threads hand out what arrives.         *)
EveryFrameSent == <>[](Len(sent) = generated)

=============================================================================
