----------------------------- MODULE MCRogueRun -----------------------------
(***************************************************************************)
(* A run for TLC.                                                          *)
(***************************************************************************)
EXTENDS RogueRun

(* Bound: once there are two clients, run control waits with its calls     *)
(* until the server has obeyed the command it was sent last.               *)
LastIsObeyed ==
  /\ rx.frame = NoFrame /\ \A c \in Clients : commands[c] = << >>
  /\ main = [at |-> "poll", k |-> 1] /\ flags = {}
  /\ IsObeyed(latest.number)

MCNext == Next /\ (attached' > 1 /\ calls' # calls => LastIsObeyed)

MCFairSpec == Init /\ [][MCNext]_vars /\ Fairness

=============================================================================
