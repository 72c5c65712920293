--------------------------- MODULE DarkRunControl ---------------------------
(***************************************************************************)
(* DarkRunControl, which stops a run that has lasted more than             *)
(* m_stop_second.  The user starts and stops runs on one thread; Exec      *)
(* looks at the flag and at the time on another and stops the run itself.  *)
(* The steps in which RunControl::StartRun and StopRun reach the other     *)
(* programs are parts of UserStarts, UserStops and ExecStops; what they do *)
(* is added by the module that composes run control with the programs.     *)
(***************************************************************************)
EXTENDS Naturals

CONSTANTS
  StopSecond   (* m_stop_second, STOP_RUN_AFTER_N_SECONDS; 0 for never     *)

VARIABLES
  m_flag_running,
  overdue,   (* more than m_stop_second have passed since m_tp_start_run   *)
  user,      (* where the user's call is                                   *)
  exec,      (* where Exec is                                              *)
  number,    (* the number of the run                                      *)
  aged,      (* history: the run is older than m_stop_second               *)
  decided,   (* history: the run Exec has decided to stop, and whether its *)
             (* start was not over                                         *)
  overlap    (* history: the run was started while Exec was stopping       *)

controlVars ==
  <<m_flag_running, overdue, user, exec, number, aged, decided, overlap>>

ControlInit ==
  /\ m_flag_running = FALSE /\ overdue = FALSE /\ aged = FALSE
  /\ user = "idle" /\ exec = "poll" /\ number = 0
  /\ decided = [run |-> 0, starting |-> FALSE] /\ overlap = FALSE

UserStarts ==
  /\ user = "idle" /\ user' = "started"
  /\ number' = number + 1 /\ aged' = FALSE /\ overlap' = (exec # "poll")
  /\ UNCHANGED <<m_flag_running, overdue, exec, decided>>

(* The time of the start; the fault: that of the first run is kept.        *)
StartTimeKept ==
  /\ user = "started" /\ user' = "timed" /\ UNCHANGED overdue
  /\ UNCHANGED <<m_flag_running, exec, number, aged, decided, overlap>>

SetStartTime ==
  /\ user = "started" /\ user' = "timed" /\ overdue' = FALSE
  /\ UNCHANGED <<m_flag_running, exec, number, aged, decided, overlap>>

SetFlag ==
  /\ user = "timed" /\ user' = "idle" /\ m_flag_running' = TRUE
  /\ UNCHANGED <<overdue, exec, number, aged, decided, overlap>>

UserStops ==
  /\ user = "idle" /\ user' = "stopped"
  /\ UNCHANGED <<m_flag_running, overdue, exec, number, aged, decided, overlap>>

ClearFlag ==
  /\ user = "stopped" /\ user' = "idle" /\ m_flag_running' = FALSE
  /\ UNCHANGED <<overdue, exec, number, aged, decided, overlap>>

(* Time passes.                                                            *)
Elapse ==
  /\ StopSecond > 0 /\ ~(overdue /\ aged)
  /\ overdue' = TRUE /\ aged' = TRUE
  /\ UNCHANGED <<m_flag_running, user, exec, number, decided, overlap>>

IsTimeToStop == m_flag_running /\ StopSecond > 0 /\ overdue

ExecDecides ==
  /\ exec = "poll" /\ IsTimeToStop /\ exec' = "decided"
  /\ decided' = [run |-> number, starting |-> user = "started"]
  /\ UNCHANGED <<m_flag_running, overdue, user, number, aged, overlap>>

ExecStops ==
  /\ exec = "decided" /\ exec' = "stopping"
  /\ UNCHANGED <<m_flag_running, overdue, user, number, aged, decided, overlap>>

ExecClears ==
  /\ exec = "stopping" /\ exec' = "poll" /\ m_flag_running' = FALSE
  /\ UNCHANGED <<overdue, user, number, aged, decided, overlap>>

ControlAlone ==
  SetStartTime \/ SetFlag \/ ClearFlag \/ Elapse \/ ExecDecides \/ ExecClears

=============================================================================
