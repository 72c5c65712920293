-------------------------- MODULE PolarfireProducer --------------------------
(***************************************************************************)
(* PolarfireProducer: run control calls DoInitialise, DoConfigure,         *)
(* DoStartRun, DoStopRun, DoReset and DoTerminate on one thread, RunLoop   *)
(* triggers and reads the target on another.  The two share the pointer to *)
(* the target and the flag exiting_run_ without a lock; what keeps RunLoop *)
(* away from a deleted target is only that DoStopRun sleeps for two busy   *)
(* periods.  So the model has time: every step that may take a while has a *)
(* timer, and Tick lets time pass for all of them.                         *)
(***************************************************************************)
EXTENDS Naturals, Sequences, FiniteSets

CONSTANTS
  Busy,         (* pf_busy_ms_                                             *)
  MaxTrigger,   (* the longest that sending a trigger takes                *)
  MaxRead,      (* the longest that reading and passing on an event takes  *)
  MaxTriggers,  (* bound: how many turns RunLoop takes in all              *)
  MaxRuns,      (* bound: how many runs are started                        *)
  MaxCalls      (* bound: how many calls run control makes                 *)

ASSUME TimesAssumption == Busy \in Nat /\ MaxTrigger \in Nat /\ MaxRead \in Nat
ASSUME BoundsAssumption ==
  MaxTriggers \in Nat /\ MaxRuns \in Nat /\ MaxCalls \in Nat

Runs == 0 .. MaxRuns

Modes == {"PEDESTAL", "CHARGE", "EXTERNAL"}

(* An event as RunLoop reads it: the count of the trigger and the run.     *)
Event == [n : 1 .. MaxTriggers, run : Runs]

NoFile == {}

VARIABLES
  state,        (* state of the producer in run control                    *)
  run_number,   (* GetRunNumber()                                          *)
  calls,        (* how many calls have been made                           *)
  rc,           (* the call in progress: where it is, time left to sleep,  *)
                (* and the state after it                                  *)
  pft_,         (* the target exists                                       *)
  exiting_run_,
  the_l1a_mode_,
  dma_enabled_,
  external,     (* the target takes external triggers                      *)
  slaves,       (* how often the writer is among the slaves of the producer *)
  writer,       (* the open file of nondma_writer_, if any                 *)
  dmaFile,      (* the open file of the target's DMA writer, if any        *)
  files,        (* per run, the events that nondma_writer_ has written     *)
  loop,         (* RunLoop: where it is, time left, end of the busy period *)
  i_trig,
  taken,        (* history: the events read                                *)
  sent,         (* the events given to the data collector                  *)
  threw         (* history: a start or a stop has thrown                   *)

control == <<state, run_number, calls, rc>>
target == <<pft_, dma_enabled_, external, slaves, writer, dmaFile>>
data == <<files, i_trig, taken, sent, threw>>
vars == <<control, target, exiting_run_, the_l1a_mode_, loop, data>>

InStart == {"connect", "setup", "open", "prepare"}
InStop == {"sleep", "disable", "close", "drop"}

(* Where RunLoop works with the target or with an event it has read.       *)
AtWork == {"trigger", "read", "write", "send"}
InTurn == AtWork \union {"busy"}

CallInProgress ==
  [at : {"none"} \union InStart \union InStop, left : 0 .. 2 * Busy,
   next : {"running", "stopped", "uninit", "terminated"}]

Turn ==
  [at : {"idle", "starting", "check"} \union InTurn, left : Nat,
   busy : 0 .. Busy]

TypeOK ==
  /\ state \in {"uninit", "unconf", "conf", "running", "stopped", "error",
                "terminated"}
  /\ run_number \in Runs
  /\ calls \in 0 .. MaxCalls
  /\ rc \in CallInProgress
  /\ pft_ \in BOOLEAN /\ exiting_run_ \in BOOLEAN /\ the_l1a_mode_ \in Modes
  /\ dma_enabled_ \in BOOLEAN /\ external \in BOOLEAN /\ slaves \in Nat
  /\ writer \in {NoFile} \union {{r} : r \in Runs}
  /\ dmaFile \in {NoFile} \union {{r} : r \in Runs}
  /\ files \in [Runs -> Seq(Event)]
  /\ loop \in Turn
  /\ i_trig \in 0 .. MaxTriggers
  /\ taken \in Seq(Event) /\ sent \in Seq(Event)
  /\ threw \in BOOLEAN

(* exiting_run_, the_l1a_mode_ and dma_enabled_ are not initialised.       *)
Init ==
  /\ state = "uninit" /\ run_number = 0 /\ calls = 0
  /\ rc = [at |-> "none", left |-> 0, next |-> "uninit"]
  /\ exiting_run_ \in BOOLEAN /\ the_l1a_mode_ \in Modes
  /\ dma_enabled_ \in BOOLEAN
  /\ pft_ = FALSE /\ external = FALSE /\ slaves = 0
  /\ writer = NoFile /\ dmaFile = NoFile
  /\ files = [r \in Runs |-> << >>]
  /\ loop = [at |-> "idle", left |-> 0, busy |-> 0]
  /\ i_trig = 0 /\ taken = << >> /\ sent = << >>
  /\ threw = FALSE

-----------------------------------------------------------------------------
(* Run control makes one call at a time.                                   *)
Called ==
  /\ rc.at = "none"
  /\ calls < MaxCalls
  /\ calls' = calls + 1

DoInitialise ==
  /\ Called
  /\ state = "uninit" /\ state' = "unconf"
  /\ UNCHANGED <<run_number, rc, target, exiting_run_, the_l1a_mode_, loop,
                 data>>

(* Another mode than the three is an error.                                *)
DoConfigure ==
  /\ Called
  /\ state \in {"unconf", "conf", "stopped"}
  /\ \/ state' = "conf" /\ the_l1a_mode_' \in Modes
     \/ state' = "error" /\ UNCHANGED the_l1a_mode_
  /\ UNCHANGED <<run_number, rc, target, exiting_run_, loop, data>>

DoStartRun ==
  /\ Called
  /\ state \in {"conf", "stopped"}
  /\ run_number < MaxRuns /\ run_number' = run_number + 1
  /\ rc' = [at |-> "connect", left |-> 0, next |-> "running"]
  /\ UNCHANGED <<state, target, exiting_run_, the_l1a_mode_, loop, data>>

(* A new target replaces the old one, if there is one.                     *)
Connect ==
  /\ rc.at = "connect" /\ rc' = [rc EXCEPT !.at = "setup"]
  /\ pft_' = TRUE /\ dmaFile' = NoFile
  /\ UNCHANGED <<state, run_number, calls, dma_enabled_, external, slaves,
                 writer, exiting_run_, the_l1a_mode_, loop, data>>

(* Without DMA the writer becomes a slave of the producer, once more in    *)
(* every run; the fault: it is one already.                                *)
AddedOnce == 1
Added == slaves + 1

(* The chip says whether it is set up for DMA.                             *)
Setup ==
  /\ rc.at = "setup" /\ rc' = [rc EXCEPT !.at = "open"]
  /\ dma_enabled_' \in BOOLEAN
  /\ slaves' = IF dma_enabled_' THEN slaves ELSE Added
  /\ UNCHANGED <<state, run_number, calls, pft_, external, writer, dmaFile,
                 exiting_run_, the_l1a_mode_, loop, data>>

Open ==
  /\ rc.at = "open" /\ rc' = [rc EXCEPT !.at = "prepare"]
  /\ IF dma_enabled_ THEN dmaFile' = {run_number} /\ UNCHANGED writer
                     ELSE writer' = {run_number} /\ UNCHANGED dmaFile
  /\ UNCHANGED <<state, run_number, calls, pft_, dma_enabled_, external, slaves,
                 exiting_run_, the_l1a_mode_, loop, data>>

(* The run is on, and RunLoop is put on its thread.                        *)
Prepare ==
  /\ rc.at = "prepare" /\ rc' = [rc EXCEPT !.at = "none"]
  /\ external' = (external \/ the_l1a_mode_ = "EXTERNAL")
  /\ exiting_run_' = FALSE
  /\ state' = "running"
  /\ loop' = IF loop.at = "idle" THEN [loop EXCEPT !.at = "starting"] ELSE loop
  /\ UNCHANGED <<run_number, calls, pft_, dma_enabled_, slaves, writer, dmaFile,
                 the_l1a_mode_, data>>

(* Every call to the target or to the writer may throw, of a start and of a *)
(* stop, and what is thrown puts the producer into its error state.        *)
CallThrows ==
  /\ rc' = [rc EXCEPT !.at = "none"] /\ state' = "error" /\ threw' = TRUE
  /\ UNCHANGED <<run_number, calls, exiting_run_, the_l1a_mode_, loop, files,
                 i_trig, taken, sent>>

(* A writer that is open may have closed its old file before it throws, and *)
(* the target may have enabled its triggers.                               *)
StartThrows ==
  /\ rc.at \in InStart /\ CallThrows
  /\ writer' \in IF rc.at = "open" /\ ~dma_enabled_ THEN {writer, NoFile}
                                                   ELSE {writer}
  /\ external' \in IF rc.at = "prepare" /\ the_l1a_mode_ = "EXTERNAL"
                     THEN {external, TRUE} ELSE {external}
  /\ UNCHANGED <<pft_, dma_enabled_, slaves, dmaFile>>

-----------------------------------------------------------------------------
(* How long stopping waits for RunLoop; the fault: it does not.            *)
NoWait == 0
StopWait == 2 * Busy

BeginStop(next) ==
  /\ exiting_run_' = TRUE
  /\ rc' = [at |-> "sleep", left |-> StopWait, next |-> next]
  /\ UNCHANGED <<state, run_number, target, the_l1a_mode_, loop, data>>

DoStopRun == Called /\ state = "running" /\ BeginStop("stopped")

(* Without a run that is not exiting yet, DoReset does nothing.            *)
ResetTo(next) ==
  IF exiting_run_
    THEN /\ state' = next
         /\ UNCHANGED <<run_number, rc, target, exiting_run_, the_l1a_mode_,
                        loop, data>>
    ELSE BeginStop(next)

DoReset == Called /\ state \notin {"running", "terminated"} /\ ResetTo("uninit")

DoTerminate == Called /\ state # "terminated" /\ ResetTo("terminated")

Slept ==
  /\ rc.at = "sleep" /\ rc.left = 0 /\ rc' = [rc EXCEPT !.at = "disable"]
  /\ UNCHANGED <<state, run_number, calls, target, exiting_run_, the_l1a_mode_,
                 loop, data>>

(* The external triggers after a stop; the fault: they are left enabled.   *)
StillEnabled == external
Disabled == external /\ the_l1a_mode_ # "EXTERNAL"

(* External triggers are disabled and the file is closed: in the mode      *)
(* EXTERNAL, and with DMA, on the target, without which there is no step.  *)
Disable ==
  /\ rc.at = "disable" /\ rc' = [rc EXCEPT !.at = "close"]
  /\ the_l1a_mode_ = "EXTERNAL" => pft_
  /\ external' = Disabled
  /\ UNCHANGED <<state, run_number, calls, pft_, dma_enabled_, slaves, writer,
                 dmaFile, exiting_run_, the_l1a_mode_, loop, data>>

Close ==
  /\ rc.at = "close" /\ rc' = [rc EXCEPT !.at = "drop"]
  /\ IF dma_enabled_ THEN pft_ /\ dmaFile' = NoFile /\ UNCHANGED writer
                     ELSE writer' = NoFile /\ UNCHANGED dmaFile
  /\ UNCHANGED <<state, run_number, calls, pft_, dma_enabled_, external, slaves,
                 exiting_run_, the_l1a_mode_, loop, data>>

Drop ==
  /\ rc.at = "drop" /\ rc' = [rc EXCEPT !.at = "none"]
  /\ state' = rc.next
  /\ pft_' = FALSE /\ dmaFile' = NoFile /\ writer' = NoFile
  /\ UNCHANGED <<run_number, calls, dma_enabled_, external, slaves,
                 exiting_run_, the_l1a_mode_, loop, data>>

(* Nothing catches what a call of the stop throws, and none of the steps   *)
(* after it is taken: exiting_run_ stays true, and the target stays unless  *)
(* only the last call throws, which closes a file that is still open.  The *)
(* call may have done its work, or not.                                    *)
DisableThrows ==
  /\ rc.at = "disable" /\ the_l1a_mode_ = "EXTERNAL" /\ pft_
  /\ external' \in {external, FALSE}
  /\ UNCHANGED <<pft_, writer, dmaFile>>

CloseThrows ==
  /\ rc.at = "close"
  /\ IF dma_enabled_
       THEN pft_ /\ dmaFile' \in {dmaFile, NoFile} /\ UNCHANGED writer
       ELSE writer' \in {writer, NoFile} /\ UNCHANGED dmaFile
  /\ UNCHANGED <<pft_, external>>

DropThrows ==
  /\ rc.at = "drop" /\ writer # NoFile
  /\ pft_' = FALSE /\ dmaFile' = NoFile /\ writer' \in {writer, NoFile}
  /\ UNCHANGED external

StopThrows ==
  /\ DisableThrows \/ CloseThrows \/ DropThrows
  /\ CallThrows
  /\ UNCHANGED <<dma_enabled_, slaves>>

-----------------------------------------------------------------------------
(* RunLoop.                                                                *)
LoopOnly == UNCHANGED <<control, target, exiting_run_, the_l1a_mode_>>

(* With DMA and external triggers there is nothing to do.                  *)
Begin ==
  /\ loop.at = "starting"
  /\ loop' = [loop EXCEPT !.at =
                IF dma_enabled_ /\ the_l1a_mode_ = "EXTERNAL" THEN "idle"
                                                              ELSE "check"]
  /\ LoopOnly /\ UNCHANGED data

(* The end of the loop; the fault: it goes on.                             *)
NeverExits == FALSE
Exits == exiting_run_

Check ==
  /\ loop.at = "check"
  /\ \/ /\ Exits
        /\ loop' = [at |-> "idle", left |-> 0, busy |-> 0]
     \/ /\ ~Exits /\ i_trig < MaxTriggers
        /\ loop' = [at |-> "trigger", left |-> MaxTrigger, busy |-> 0]
  /\ LoopOnly /\ UNCHANGED data

(* The busy period starts with the trigger.  With DMA the event comes by   *)
(* itself; without, it has to be read.                                     *)
Trigger ==
  /\ loop.at = "trigger"
  /\ the_l1a_mode_ # "EXTERNAL" => pft_
  /\ i_trig' = i_trig + 1
  /\ loop' = IF dma_enabled_ THEN [at |-> "busy", left |-> 0, busy |-> Busy]
                             ELSE [at |-> "read", left |-> MaxRead, busy |-> Busy]
  /\ LoopOnly /\ UNCHANGED <<files, taken, sent, threw>>

Read ==
  /\ loop.at = "read" /\ loop' = [loop EXCEPT !.at = "write"]
  /\ pft_
  /\ taken' = Append(taken, [n |-> i_trig, run |-> run_number])
  /\ LoopOnly /\ UNCHANGED <<files, i_trig, sent, threw>>

(* The frame goes to every slave, each of which is the writer.             *)
Write ==
  /\ loop.at = "write" /\ loop' = [loop EXCEPT !.at = "send"]
  /\ files' = [r \in Runs |->
       IF r \in writer
         THEN files[r] \o [i \in 1 .. slaves |-> taken[Len(taken)]]
         ELSE files[r]]
  /\ LoopOnly /\ UNCHANGED <<i_trig, taken, sent, threw>>

Send ==
  /\ loop.at = "send" /\ loop' = [loop EXCEPT !.at = "busy", !.left = 0]
  /\ sent' = Append(sent, taken[Len(taken)])
  /\ LoopOnly /\ UNCHANGED <<files, i_trig, taken, threw>>

WakeUp ==
  /\ loop.at = "busy" /\ loop.busy = 0
  /\ loop' = [loop EXCEPT !.at = "check"]
  /\ LoopOnly /\ UNCHANGED data

(* Reading or triggering the target may throw, which ends the thread.      *)
LoopThrows ==
  /\ loop.at \in {"trigger", "read"}
  /\ loop' = [at |-> "idle", left |-> 0, busy |-> 0]
  /\ state' = "error"
  /\ UNCHANGED <<run_number, calls, rc, target, exiting_run_, the_l1a_mode_,
                 data>>

-----------------------------------------------------------------------------
(* Time passes, unless a step is due: work has to be done in the time it   *)
(* has, and RunLoop looks at exiting_run_ as soon as it wakes up.          *)
Due ==
  \/ loop.at \in AtWork /\ loop.left = 0
  \/ loop.at = "busy" /\ loop.busy = 0
  \/ loop.at = "check" /\ (Exits \/ i_trig < MaxTriggers)

Less(t) == IF t = 0 THEN 0 ELSE t - 1

Tick ==
  /\ ~Due
  /\ rc.left + loop.left + loop.busy > 0
  /\ rc' = [rc EXCEPT !.left = Less(rc.left)]
  /\ loop' = [loop EXCEPT !.left = Less(loop.left), !.busy = Less(loop.busy)]
  /\ UNCHANGED <<state, run_number, calls, target, exiting_run_, the_l1a_mode_,
                 data>>

RunControl ==
  \/ DoInitialise \/ DoConfigure \/ DoStartRun \/ DoStopRun \/ DoReset
  \/ DoTerminate

Starting == Connect \/ Setup \/ Open \/ Prepare \/ StartThrows

Stopping == Slept \/ Disable \/ Close \/ Drop \/ StopThrows

RunLoop ==
  \/ Begin \/ Check \/ Trigger \/ Read \/ Write \/ Send \/ WakeUp
  \/ LoopThrows

Next == RunControl \/ Starting \/ Stopping \/ RunLoop \/ Tick

Spec == Init /\ [][Next]_vars

(* Both threads run, and time passes; run control need not call.           *)
FairSpec ==
  /\ Spec
  /\ WF_vars(Starting) /\ WF_vars(Stopping) /\ WF_vars(RunLoop) /\ WF_vars(Tick)

-----------------------------------------------------------------------------
IsIn(e, s) == \E k \in DOMAIN s : s[k] = e

(* RunLoop never finds the target deleted ("wait twice the length of a     *)
(* single PF busy period to allow other thread loop to close up").         *)
LoopTargetIsLive == loop.at \in {"trigger", "read"} => pft_

(* An event that has been read is in the file of its run, and in no other  *)
(* one, however the run ends: DoStopRun does not close the file before the *)
(* last event is written.                                                  *)
EventsReachTheirFile ==
  \A i \in DOMAIN taken : \A r \in Runs :
    IsIn(taken[i], files[r]) <=>
      r = taken[i].run /\ (loop.at # "write" \/ i # Len(taken))

(* Once a run has been stopped, the monitors have got every event that is  *)
(* in the file, in the order of the triggers.                              *)
StoppedIsComplete == state = "stopped" => sent = taken

(* When DoStopRun has slept, no turn of RunLoop is under way any more, not *)
(* even one that only waits for the end of its busy period.                *)
LoopIsGone == rc.at \in InStop \ {"sleep"} => loop.at \notin InTurn

(* What is left of a run on this side.                                     *)
Leftover == pft_ \/ writer # NoFile \/ dmaFile # NoFile

(* Stopping a run comes to its end, where nothing of it is left or the     *)
(* producer is in its error state, and RunLoop returns unless the next run *)
(* starts before it has begun.                                             *)
StopEnds ==
  /\ state = "running" /\ exiting_run_ ~>
       rc.at = "none" /\ (Leftover => state = "error")
  /\ exiting_run_ ~> loop.at = "idle" \/ ~exiting_run_

(* What goes over from one run to the next: every run without DMA writes   *)
(* each of its events as often as the others of the run, and at least once *)
(* more often than the runs before it.                                     *)
Copies(e) == Cardinality({k \in DOMAIN files[e.run] : files[e.run][k] = e})

Written == {taken[i] : i \in {j \in DOMAIN taken :
                                loop.at # "write" \/ j # Len(taken)}}

CopiesGrow ==
  \A d, e \in Written :
    /\ d.run = e.run => Copies(d) = Copies(e)
    /\ d.run < e.run => Copies(d) < Copies(e)

(* Of a run whose stop has come to its end nothing is left, but for        *)
(* external triggers that an earlier run has enabled.  A reset leaves what *)
(* a start or a stop has left that threw, also through the next            *)
(* initialisation and configuration, but only if exiting_run_ is true.     *)
LeftByThrows ==
  rc.at = "none" =>
    /\ state = "stopped" =>
         ~Leftover /\ (external => threw /\ the_l1a_mode_ # "EXTERNAL")
    /\ state \in {"uninit", "unconf", "conf"} =>
         (Leftover \/ external => threw /\ exiting_run_)

(* What the comments say: that DoReset goes "back to "newly created"       *)
(* essentially", so that neither target nor file is left; ...              *)
IsNewlyCreated == state = "uninit" /\ rc.at = "none" => ~Leftover

(* ... that it is there to "recover from failure", so that the target does *)
(* not go on taking external triggers; ...                                 *)
RecoversFromFailure == state = "uninit" /\ rc.at = "none" => ~external

(* ... and that DoStartRun is a "softer reset to start cleanly", so that a *)
(* run writes its events as a first run does, once.                        *)
StartsCleanly == \A e \in Written : Copies(e) = 1

(* At no time is none of the three true: where this is violated all are.   *)
ResetOrStartIsClean == IsNewlyCreated \/ RecoversFromFailure \/ StartsCleanly

-----------------------------------------------------------------------------
(* Two busy periods are enough if a turn is over in less.                  *)
TimesAllow == MaxTrigger < Busy /\ MaxTrigger + MaxRead < 2 * Busy

(* The turn that is under way is over in less than t.                      *)
OverBefore(t) ==
  /\ loop.at = "trigger" =>
       loop.left + MaxRead < t /\ loop.left + Busy < t
  /\ loop.at \in {"read", "write", "send"} => loop.left < t /\ loop.busy < t
  /\ loop.at = "busy" => loop.busy < t

(* The inductive invariant.  A turn begins in a run that has everything it *)
(* needs, and a turn that DoStopRun finds under way is over before its     *)
(* sleep.                                                                  *)
Ready == pft_ /\ (dma_enabled_ \/ (writer = {run_number} /\ slaves > 0))

StartGetsReady ==
  /\ rc.at \in {"setup", "open"} => pft_
  /\ rc.at = "open" => dma_enabled_ \/ slaves > 0
  /\ rc.at = "prepare" => Ready

LoopIsReady ==
  /\ loop.at # "idle" /\ ~exiting_run_ =>
       state = "running" /\ rc.at = "none" /\ Ready
  /\ loop.at \in InTurn => Ready /\ OverBefore(2 * Busy)
  /\ loop.at \in InTurn /\ exiting_run_ =>
       rc.at = "sleep" /\ OverBefore(rc.left)
  /\ loop.at \in {"read", "write", "send"} => ~dma_enabled_
  /\ rc.at \in InStop => exiting_run_

(* Events are numbered as they are read, and files hold only events read.  *)
EventsAreNumbered ==
  /\ \A i \in DOMAIN taken : \A j \in DOMAIN taken :
       i < j => taken[i].n < taken[j].n
  /\ \A i \in DOMAIN taken :
       /\ taken[i].n <= i_trig
       /\ loop.at = "read" => taken[i].n < i_trig
  /\ \A r \in Runs : \A k \in DOMAIN files[r] :
       /\ files[r][k].n <= i_trig
       /\ loop.at \in {"read", "write"} => files[r][k].n < i_trig
  /\ loop.at \in {"write", "send"} =>
       taken # << >> /\ taken[Len(taken)] = [n |-> i_trig, run |-> run_number]
  /\ loop.at = "read" => i_trig > 0
  /\ loop.at = "trigger" => i_trig < MaxTriggers

(* External triggers are enabled in one mode only, which stays until they  *)
(* are disabled, and nothing but a stop comes next, unless a call throws:  *)
(* then they may stay enabled until a run in that mode is stopped.         *)
TriggersAreUndone ==
  external =>
    /\ state \in {"running", "error"} \/ (threw /\ exiting_run_)
    /\ rc.at \in {"close", "drop"} \/ state = "stopped" =>
         the_l1a_mode_ # "EXTERNAL"
    /\ ~threw =>
         /\ the_l1a_mode_ = "EXTERNAL"
         /\ rc.at \in {"sleep", "disable"} \/ (rc.at = "none" /\ ~exiting_run_)

(* So may the target and the files, which a stop takes away otherwise.     *)
LeftoversAreUndone ==
  /\ LeftByThrows
  /\ Leftover => threw \/ rc.at # "none" \/ ~exiting_run_
  /\ rc.at = "none" /\ ~exiting_run_ =>
       state \in {"running", "error"} \/ ~Leftover

(* An event is sent before the next is read; a run that has been stopped   *)
(* is not stopped again.                                                   *)
EventsAreHandedOn ==
  /\ IF loop.at \in {"write", "send"}
       THEN taken # << >> /\ taken = Append(sent, taken[Len(taken)])
       ELSE sent = taken
  /\ state = "stopped" => exiting_run_ /\ rc.at \notin InStop

(* The run has been set up, and RunLoop may take a turn in it.              *)
SetUp ==
  \/ rc.at \in {"open", "prepare"}
  \/ loop.at # "idle" /\ ~exiting_run_
  \/ loop.at \in InTurn

(* No event has been written more often than the writer is a slave: those  *)
(* of this run as often, those of earlier runs more seldom, once a start   *)
(* without DMA has added it again.                                         *)
CopiesSoFar ==
  \A e \in Written :
    /\ e.run <= run_number
    /\ e.run = run_number => Copies(e) = slaves /\ rc.at \notin InStart
    /\ e.run < run_number =>
         Copies(e) <= slaves /\ (SetUp /\ ~dma_enabled_ => Copies(e) < slaves)

PolarfireInv ==
  /\ TypeOK
  /\ StartGetsReady
  /\ LoopIsReady
  /\ EventsAreNumbered
  /\ EventsReachTheirFile
  /\ TriggersAreUndone
  /\ LeftoversAreUndone
  /\ EventsAreHandedOn
  /\ CopiesSoFar

=============================================================================
