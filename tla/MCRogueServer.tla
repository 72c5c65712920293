--------------------------- MODULE MCRogueServer ---------------------------
(***************************************************************************)
(* One of the two servers alone, its clients sending what they like.       *)
(***************************************************************************)
EXTENDS RogueServer, RceServer, FiniteSetsExt

CONSTANTS
  MaxArrivals,  (* bound: frames sent, those with an error not counted     *)
  Kinds,        (* the kinds of frames that are sent                       *)
  Programs      (* the servers that there may be                           *)

VARIABLES program   (* which server it is: never changes                   *)

mcVars == <<link, server, rceVars, program>>

UnderWay == SumSet({Len(commands[c]) : c \in Clients})

MCClientSteps ==
  \/ /\ latest.number + UnderWay + (IF rx.frame = NoFrame THEN 0 ELSE 1)
          < MaxArrivals
     /\ \E c \in Clients, kind \in Kinds :
          SendCommand({c}, [kind |-> kind, run |-> 0])
     /\ UNCHANGED server
  \/ /\ \E c \in Clients : TakeFrame(c)
     /\ UNCHANGED server

(* What belongs to the other server.                                      *)
Other == UNCHANGED <<rceVars, program>>

MCNext ==
  \/ /\ program = "ldmx_rogue_server"
     /\ Receiver \/ MainLoop(Clients) \/ MCClientSteps
     /\ Other
  \/ /\ program = "LdmxRceTcpServer"
     /\ RceNext
     /\ UNCHANGED <<link, server, program>>

MCInit == LinkInit /\ ServerInit /\ RceInit /\ program \in Programs

MCSpec == MCInit /\ [][MCNext]_mcVars

(* Both threads run: the bridge's when a frame is there, the main loop     *)
(* after every sleep.  The clients need not do anything.                   *)
MCFairSpec ==
  /\ MCSpec
  /\ WF_mcVars(program = "ldmx_rogue_server" /\ Receiver /\ Other)
  /\ WF_mcVars(program = "ldmx_rogue_server" /\ MainLoop(Clients) /\ Other)
  /\ WF_mcVars(program = "LdmxRceTcpServer" /\ RceLoop
                 /\ UNCHANGED <<link, server, program>>)

=============================================================================
