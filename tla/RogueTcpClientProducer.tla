----------------------- MODULE RogueTcpClientProducer -----------------------
(***************************************************************************)
(* eudaq::RogueTcpClientProducer, the producer that runs a data server     *)
(* through the bridge: run control calls DoInitialise, DoConfigure,        *)
(* DoStartRun, DoStopRun and DoReset on its command thread, while a thread *)
(* of each TcpClient hands the arriving data frames to the file writer and *)
(* to the data sender.                                                     *)
(***************************************************************************)
EXTENDS RogueLink

CONSTANT MaxCalls  (* bound: how many calls run control makes             *)

ASSUME CallsAssumption == MaxCalls \in Nat

NoFile == {}

Idle == [frame |-> [run |-> 0, count |-> 0], to |-> {}]

VARIABLES
  state,       (* state of the producer in run control                     *)
  run_number,  (* GetRunNumber(): the run started last                     *)
  call,        (* the call in progress, if any                             *)
  calls,       (* how many calls have been made                            *)
  attached,    (* how many TcpClients the command generator feeds          *)
  writer,      (* the open file, if any, named by its run number           *)
  files,       (* per run number, what has been written                    *)
  delivering,  (* per client, the frame its thread is handing out          *)
  sent         (* the frames given to the data collector                   *)

producer == <<state, run_number, call, calls, attached, writer, files,
              delivering, sent>>

ProducerTypeOK ==
  /\ state \in {"uninit", "unconf", "conf", "running", "stopped"}
  /\ run_number \in Runs
  /\ call \in {"none", "DoConfigure", "DoStopRun"}
  /\ calls \in 0 .. MaxCalls
  /\ attached \in 0 .. MaxClients
  /\ writer \in {NoFile} \union {{r} : r \in Runs}
  /\ files \in [Runs -> Seq(DataFrame)]
  /\ delivering \in [Clients -> [frame : DataFrame, to : SUBSET {"writer", "sender"}]]
  /\ sent \in Seq(DataFrame)

ProducerInit ==
  /\ state = "uninit"
  /\ run_number = 0
  /\ call = "none"
  /\ calls = 0
  /\ attached = 0
  /\ writer = NoFile
  /\ files = [r \in Runs |-> << >>]
  /\ delivering = [c \in Clients |-> Idle]
  /\ sent = << >>

Attached == 1 .. attached

(* genFrame: the generator is one object for the whole process, so every   *)
(* client that has ever been attached to it gets the command.              *)
GenFrame(C, kind, run) == SendCommand(C, [kind |-> kind, run |-> run])

(* Run control makes one call at a time.                                   *)
Called ==
  /\ call = "none"
  /\ calls < MaxCalls
  /\ calls' = calls + 1

-----------------------------------------------------------------------------
(* A new client is created on every initialisation.  The earlier ones stay *)
(* attached to the generator, the writer and the sender.                   *)
DoInitialise ==
  /\ Called
  /\ state = "uninit" /\ state' = "unconf"
  /\ attached < MaxClients
  /\ attached' = attached + 1
  /\ GenFrame(1 .. attached + 1, "init", run_number)
  /\ UNCHANGED <<run_number, call, writer, files, delivering, sent>>

(* An open file is closed first.                                           *)
DoConfigure ==
  /\ Called
  /\ state \in {"unconf", "conf", "stopped"}
  /\ call' = "DoConfigure"
  /\ writer' = NoFile
  /\ UNCHANGED <<link, state, run_number, attached, files, delivering, sent>>

(* The file is named after the run number, which is still that of the      *)
(* previous run; an existing file is appended to.                          *)
ConfigureOpens ==
  /\ call = "DoConfigure" /\ call' = "none"
  /\ writer' = {run_number}
  /\ state' = "conf"
  /\ GenFrame(Attached, "config", run_number)
  /\ UNCHANGED <<run_number, calls, attached, files, delivering, sent>>

DoStartRun ==
  /\ Called
  /\ state \in {"conf", "stopped"} /\ state' = "running"
  /\ run_number < MaxRuns
  /\ run_number' = run_number + 1
  /\ GenFrame(Attached, "start", run_number')
  /\ UNCHANGED <<call, attached, writer, files, delivering, sent>>

(* The server is told first, then the file is closed.                      *)
DoStopRun ==
  /\ Called
  /\ state = "running"
  /\ call' = "DoStopRun"
  /\ GenFrame(Attached, "stop", run_number)
  /\ UNCHANGED <<state, run_number, attached, writer, files, delivering, sent>>

(* The writer after the run; the fault: its file is left open.             *)
StillOpen == writer
Closed == NoFile

StopCloses ==
  /\ call = "DoStopRun" /\ call' = "none"
  /\ writer' = Closed
  /\ state' = "stopped"
  /\ UNCHANGED <<link, run_number, calls, attached, files, delivering, sent>>

(* The file stays open.                                                    *)
DoReset ==
  /\ Called
  /\ state # "running" /\ state' = "uninit"
  /\ GenFrame(Attached, "reset", run_number)
  /\ UNCHANGED <<run_number, call, attached, writer, files, delivering, sent>>

-----------------------------------------------------------------------------
(* The thread of client c takes a frame and hands it to the writer's       *)
(* channel and to the sender.                                              *)
ReceiveFrame(c) ==
  /\ c \in Attached
  /\ delivering[c].to = {}
  /\ TakeFrame(c)
  /\ delivering' = [delivering EXCEPT
       ![c] = [frame |-> Head(frames[c]), to |-> {"writer", "sender"}]]
  /\ UNCHANGED <<state, run_number, call, calls, attached, writer, files, sent>>

(* The fault: the first slave that gets the frame is also the last.        *)
HandedToOne(c, slave) ==
  /\ slave \in delivering[c].to
  /\ delivering' = [delivering EXCEPT ![c] = Idle]
  /\ UNCHANGED <<link, state, run_number, call, calls, attached, writer>>

Handed(c, slave) ==
  /\ slave \in delivering[c].to
  /\ delivering' = [delivering EXCEPT
       ![c] = IF delivering[c].to = {slave} THEN Idle
              ELSE [delivering[c] EXCEPT !.to = delivering[c].to \ {slave}]]
  /\ UNCHANGED <<link, state, run_number, call, calls, attached, writer>>

(* writeFile does nothing while no file is open.                           *)
WriteFrame(c) ==
  /\ Handed(c, "writer")
  /\ files' = [r \in Runs |-> IF r \in writer
                              THEN Append(files[r], delivering[c].frame)
                              ELSE files[r]]
  /\ UNCHANGED sent

SendFrame(c) ==
  /\ Handed(c, "sender")
  /\ sent' = Append(sent, delivering[c].frame)
  /\ UNCHANGED files

RunControl ==
  \/ DoInitialise \/ DoConfigure \/ ConfigureOpens \/ DoStartRun
  \/ DoStopRun \/ StopCloses \/ DoReset

ClientThread(c) == ReceiveFrame(c) \/ WriteFrame(c) \/ SendFrame(c)

=============================================================================
