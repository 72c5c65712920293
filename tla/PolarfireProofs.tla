--------------------------- MODULE PolarfireProofs ---------------------------
(***************************************************************************)
(* Proofs about PolarfireProducer: if a turn of RunLoop is over in less    *)
(* than two busy periods (TimesAllow), RunLoop never finds the target      *)
(* deleted, and every event that it reads gets into the file of its run.   *)
(***************************************************************************)
EXTENDS PolarfireProducer, FiniteSetTheorems, TLAPS

LEMMA Times ==
  Busy \in Nat /\ MaxTrigger \in Nat /\ MaxRead \in Nat
BY TimesAssumption

LEMMA Bounds == MaxTriggers \in Nat /\ MaxRuns \in Nat /\ MaxCalls \in Nat
BY BoundsAssumption

LEMMA CallMovesOn ==
  ASSUME rc \in CallInProgress,
         NEW a \in {"none"} \union InStart \union InStop
  PROVE  [rc EXCEPT !.at = a] \in CallInProgress
BY DEF CallInProgress

LEMMA CallBegins ==
  ASSUME NEW a \in {"none"} \union InStart \union InStop,
         NEW left \in 0 .. 2 * Busy,
         NEW next \in {"running", "stopped", "uninit", "terminated"}
  PROVE  [at |-> a, left |-> left, next |-> next] \in CallInProgress
BY DEF CallInProgress

LEMMA TurnMovesOn ==
  ASSUME loop \in Turn,
         NEW a \in {"idle", "starting", "check"} \union InTurn
  PROVE  [loop EXCEPT !.at = a] \in Turn
BY DEF Turn

LEMMA TurnBegins ==
  ASSUME NEW a \in {"idle", "starting", "check"} \union InTurn,
         NEW left \in Nat, NEW busy \in 0 .. Busy
  PROVE  [at |-> a, left |-> left, busy |-> busy] \in Turn
BY DEF Turn

(* What run control calls.                                                 *)
LEMMA CallKeepsType ==
  ASSUME TypeOK, RunControl
  PROVE  TypeOK'
<1> USE DEF TypeOK, Called, target, data
<1>0. 0 \in 0 .. 2 * Busy /\ 2 * Busy \in 0 .. 2 * Busy
  BY Times
<1>1. CASE DoInitialise
  BY <1>1, Bounds DEF DoInitialise
<1>2. CASE DoConfigure
  BY <1>2, Bounds DEF DoConfigure
<1>3. CASE DoStartRun
  <2>1. rc' \in CallInProgress
    BY <1>0, <1>3, CallBegins DEF DoStartRun, InStart
  <2>2. run_number' \in Runs /\ calls' \in 0 .. MaxCalls
    BY <1>3, Bounds DEF DoStartRun, Runs
  <2>3. QED
    BY <1>3, <2>1, <2>2 DEF DoStartRun
<1>4. ASSUME NEW next \in {"stopped", "uninit", "terminated"},
             Called, BeginStop(next)
      PROVE  TypeOK'
  <2>1. rc' \in CallInProgress
    BY <1>0, <1>4, CallBegins DEF BeginStop, StopWait, InStop
  <2>2. calls' \in 0 .. MaxCalls
    BY <1>4, Bounds
  <2>3. QED
    BY <1>4, <2>1, <2>2 DEF BeginStop
<1>5. CASE DoStopRun
  BY <1>4, <1>5 DEF DoStopRun
<1>6. ASSUME NEW next \in {"uninit", "terminated"}, Called, ResetTo(next)
      PROVE  TypeOK'
  <2>1. CASE exiting_run_
    BY <1>6, <2>1, Bounds DEF ResetTo
  <2>2. CASE ~exiting_run_
    BY <1>4, <1>6, <2>2 DEF ResetTo
  <2>3. QED
    BY <2>1, <2>2
<1>7. CASE DoReset
  BY <1>6, <1>7 DEF DoReset
<1>8. CASE DoTerminate
  BY <1>6, <1>8 DEF DoTerminate
<1>9. QED
  BY <1>1, <1>2, <1>3, <1>5, <1>7, <1>8 DEF RunControl

(* The steps of DoStartRun and DoStopRun.                                  *)
LEMMA CommandKeepsType ==
  ASSUME TypeOK, Starting \/ Stopping
  PROVE  TypeOK'
<1> USE DEF TypeOK, target, data
<1>0. \A a \in {"none"} \union InStart \union InStop :
        rc' = [rc EXCEPT !.at = a] => rc' \in CallInProgress
  BY CallMovesOn
<1>1. CASE Connect
  BY <1>0, <1>1 DEF Connect, InStart
<1>2. CASE Setup
  <2>1. slaves' \in Nat
    <3>1. CASE dma_enabled_'
      BY <1>2, <3>1 DEF Setup, Added
    <3>2. CASE ~dma_enabled_'
      BY <1>2, <3>2 DEF Setup, Added
    <3>3. QED
      BY <3>1, <3>2
  <2>2. QED
    BY <1>0, <1>2, <2>1 DEF Setup, Added, InStart
<1>3. CASE Open
  <2>1. {run_number} \in {{r} : r \in Runs}
    OBVIOUS
  <2>2. QED
    BY <1>0, <1>3, <2>1 DEF Open, InStart
<1>4. CASE Prepare
  <2>1. loop' \in Turn
    BY <1>4, TurnMovesOn DEF Prepare
  <2>2. rc' \in CallInProgress
    BY <1>0, <1>4 DEF Prepare
  <2>3. QED
    BY <1>4, <2>1, <2>2 DEF Prepare
<1>5. CASE StartThrows
  BY <1>0, <1>5 DEF StartThrows, CallThrows
<1>6. CASE Slept
  BY <1>0, <1>6 DEF Slept, InStop, control
<1>7. CASE Disable
  BY <1>0, <1>7 DEF Disable, Disabled, InStop
<1>8. CASE Close
  BY <1>0, <1>8 DEF Close, InStop
<1>9. CASE Drop
  <2>1. rc' \in CallInProgress
    BY <1>0, <1>9 DEF Drop
  <2>2. state' \in {"running", "stopped", "uninit", "terminated"}
    BY <1>9 DEF Drop, CallInProgress
  <2>3. QED
    BY <1>9, <2>1, <2>2 DEF Drop
<1>10. CASE StopThrows
  BY <1>0, <1>10 DEF StopThrows, CallThrows, DisableThrows, CloseThrows, DropThrows
<1>11. QED
  BY <1>1, <1>2, <1>3, <1>4, <1>5, <1>6, <1>7, <1>8, <1>9, <1>10 DEF Starting, Stopping

LEMMA TickKeepsType ==
  ASSUME TypeOK, Tick
  PROVE  TypeOK'
<1>1. /\ \A n \in Nat : \A t \in 0 .. n : Less(t) \in 0 .. n
      /\ \A t \in Nat : Less(t) \in Nat
  BY DEF Less
<1>2. rc.left \in 0 .. 2 * Busy /\ loop.left \in Nat /\ loop.busy \in 0 .. Busy
  BY DEF TypeOK, CallInProgress, Turn
<1>3. rc' \in CallInProgress
  <2>1. Less(rc.left) \in 0 .. 2 * Busy
    <3>1. 2 * Busy \in Nat
      BY Times
    <3>2. QED
      BY <1>1, <1>2, <3>1
  <2>2. rc' = [rc EXCEPT !.left = Less(rc.left)]
    BY DEF Tick
  <2>3. QED
    BY <2>1, <2>2 DEF TypeOK, CallInProgress
<1>4. loop' \in Turn
  <2>1. Less(loop.left) \in Nat /\ Less(loop.busy) \in 0 .. Busy
    BY <1>1, <1>2, Times
  <2>2. loop' = [loop EXCEPT !.left = Less(loop.left), !.busy = Less(loop.busy)]
    BY DEF Tick
  <2>3. QED
    BY <2>1, <2>2 DEF TypeOK, Turn
<1>5. QED
  BY <1>3, <1>4 DEF TypeOK, Tick, target, data

LEMMA LoopKeepsType ==
  ASSUME TypeOK, EventsAreNumbered, RunLoop
  PROVE  TypeOK'
<1> USE DEF TypeOK, InTurn, AtWork, control, target, data, LoopOnly
<1>0. 0 \in Nat /\ 0 \in 0 .. Busy /\ Busy \in 0 .. Busy
  BY Times
<1>1. CASE Begin
  BY <1>1, TurnMovesOn DEF Begin
<1>2. CASE Check
  BY <1>0, <1>2, TurnBegins, Times DEF Check
<1>3. CASE Trigger
  <2>1. i_trig' \in 0 .. MaxTriggers
    BY <1>3, Bounds DEF Trigger, EventsAreNumbered
  <2>2. loop' \in Turn
    BY <1>0, <1>3, TurnBegins, Times DEF Trigger
  <2>3. QED
    BY <1>3, <2>1, <2>2 DEF Trigger
<1>4. CASE Read
  <2>1. [n |-> i_trig, run |-> run_number] \in Event
    BY <1>4, Bounds DEF Read, EventsAreNumbered, Event
  <2>2. loop' \in Turn
    BY <1>4, TurnMovesOn DEF Read
  <2>3. QED
    BY <1>4, <2>1, <2>2 DEF Read
<1>5. CASE Write
  <2>1. taken[Len(taken)] \in Event
    BY <1>5 DEF Write, EventsAreNumbered
  <2>2. [i \in 1 .. slaves |-> taken[Len(taken)]] \in Seq(Event)
    BY <2>1
  <2>3. files' \in [Runs -> Seq(Event)]
    BY <1>5, <2>2 DEF Write
  <2>4. loop' \in Turn
    BY <1>5, TurnMovesOn DEF Write
  <2>5. QED
    BY <1>5, <2>3, <2>4 DEF Write
<1>6. CASE Send
  <2>1. taken[Len(taken)] \in Event
    BY <1>6 DEF Send, EventsAreNumbered
  <2>2. loop' \in Turn
    BY <1>6, <1>0 DEF Send, Turn
  <2>3. QED
    BY <1>6, <2>1, <2>2 DEF Send
<1>7. CASE WakeUp
  BY <1>7, TurnMovesOn DEF WakeUp
<1>8. CASE LoopThrows
  BY <1>0, <1>8, TurnBegins DEF LoopThrows
<1>9. QED
  BY <1>1, <1>2, <1>3, <1>4, <1>5, <1>6, <1>7, <1>8 DEF RunLoop

-----------------------------------------------------------------------------
(* A turn is always over within two busy periods of its beginning, and the *)
(* sleep of DoStopRun begins with as much time left.                       *)
LEMMA CallKeepsReady ==
  ASSUME TypeOK, StartGetsReady, LoopIsReady, RunControl
  PROVE  StartGetsReady' /\ LoopIsReady'
<1> USE DEF StartGetsReady, LoopIsReady, Ready, OverBefore, Called, target, InTurn,
        AtWork
<1>1. CASE DoInitialise
  BY <1>1 DEF DoInitialise
<1>2. CASE DoConfigure
  BY <1>2 DEF DoConfigure
<1>3. CASE DoStartRun
  BY <1>3 DEF DoStartRun, InStop
<1>4. ASSUME NEW next, Called, BeginStop(next)
      PROVE  StartGetsReady' /\ LoopIsReady'
  <2>1. /\ rc'.at = "sleep" /\ rc'.left = 2 * Busy /\ exiting_run_'
        /\ loop' = loop /\ Ready' = Ready /\ dma_enabled_' = dma_enabled_
    BY <1>4 DEF BeginStop, StopWait
  <2>2. loop.at \in InTurn => Ready /\ OverBefore(2 * Busy)
    OBVIOUS
  <2>3. QED
    BY <2>1, <2>2
<1>5. CASE DoStopRun
  BY <1>4, <1>5 DEF DoStopRun
<1>6. ASSUME NEW next \in {"uninit", "terminated"}, Called, ResetTo(next)
      PROVE  StartGetsReady' /\ LoopIsReady'
  <2>1. CASE exiting_run_
    BY <1>6, <2>1 DEF ResetTo
  <2>2. CASE ~exiting_run_
    BY <1>4, <1>6, <2>2 DEF ResetTo
  <2>3. QED
    BY <2>1, <2>2
<1>7. CASE DoReset
  BY <1>6, <1>7 DEF DoReset
<1>8. CASE DoTerminate
  BY <1>6, <1>8 DEF DoTerminate
<1>9. QED
  BY <1>1, <1>2, <1>3, <1>5, <1>7, <1>8 DEF RunControl

(* No turn is under way during DoStartRun and after the sleep.             *)
LEMMA NoTurnInCommand ==
  ASSUME LoopIsReady, rc.at \notin {"none", "sleep"}
  PROVE  loop.at \notin InTurn /\ (loop.at # "idle" => exiting_run_)
BY DEF LoopIsReady, InTurn, AtWork

(* The sleep is over only when the turn is.                                *)
LEMMA NoTurnAfterSleep ==
  ASSUME TypeOK, LoopIsReady, rc.at = "sleep", rc.left = 0
  PROVE  loop.at \notin InTurn
<1>1. loop.left \in Nat /\ loop.busy \in Nat
  BY Times DEF TypeOK, Turn
<1>2. SUFFICES ASSUME loop.at \in InTurn
               PROVE  FALSE
  OBVIOUS
<1>3. OverBefore(0)
  BY <1>2 DEF LoopIsReady, InStop
<1>4. QED
  BY <1>1, <1>2, <1>3, Times DEF OverBefore, InTurn, AtWork

LEMMA CommandKeepsReady ==
  ASSUME TypeOK, StartGetsReady, LoopIsReady, Starting \/ Stopping
  PROVE  StartGetsReady' /\ LoopIsReady'
<1> USE DEF StartGetsReady, LoopIsReady, Ready
<1>0. /\ rc \in CallInProgress
      /\ \A a : rc' = [rc EXCEPT !.at = a] => rc'.at = a
  BY DEF TypeOK, CallInProgress
<1>1. CASE Connect
  BY <1>0, <1>1, NoTurnInCommand DEF Connect, InStop
<1>2. CASE Setup
  <2>1. dma_enabled_' \/ slaves' > 0
    BY <1>2 DEF Setup, Added, TypeOK
  <2>2. rc'.at = "open" /\ pft_' /\ loop.at \notin InTurn
    BY <1>0, <1>2, NoTurnInCommand DEF Setup, Added
  <2>3. loop'.at \notin InTurn /\ (loop'.at # "idle" => exiting_run_')
    BY <1>2, NoTurnInCommand DEF Setup, Added
  <2>4. QED
    BY <2>1, <2>2, <2>3 DEF InStop, InTurn, AtWork
<1>3. CASE Open
  BY <1>0, <1>3, NoTurnInCommand DEF Open, InStop
<1>4. CASE Prepare
  <2>1. loop.at \notin InTurn /\ rc'.at = "none" /\ Ready'
    BY <1>0, <1>4, NoTurnInCommand DEF Prepare
  <2>2. loop'.at \notin InTurn
    BY <1>4, <2>1 DEF Prepare, TypeOK, Turn, InTurn, AtWork
  <2>3. QED
    BY <1>4, <2>1, <2>2 DEF Prepare, InStop, InTurn, AtWork
<1>5. CASE StartThrows
  BY <1>0, <1>5, NoTurnInCommand DEF StartThrows, CallThrows, InStart, InStop, InTurn, AtWork
<1>6. CASE Slept
  BY <1>0, <1>6, NoTurnAfterSleep DEF Slept, InStop, target, InTurn, AtWork
<1>7. CASE Disable
  BY <1>0, <1>7, NoTurnInCommand DEF Disable, InStop, InTurn, AtWork
<1>8. CASE Close
  BY <1>0, <1>8, NoTurnInCommand DEF Close, InStop, InTurn, AtWork
<1>9. CASE Drop
  BY <1>0, <1>9, NoTurnInCommand DEF Drop, InStop, InTurn, AtWork
<1>10. CASE StopThrows
  BY <1>0, <1>10, NoTurnInCommand DEF StopThrows, CallThrows, DisableThrows, CloseThrows,
     DropThrows, InStop, InStart, InTurn, AtWork
<1>11. QED
  BY <1>1, <1>2, <1>3, <1>4, <1>5, <1>6, <1>7, <1>8, <1>9, <1>10 DEF Starting, Stopping

LEMMA TickKeepsReady ==
  ASSUME TypeOK, StartGetsReady, LoopIsReady, Tick
  PROVE  StartGetsReady' /\ LoopIsReady'
<1>1. /\ rc.left \in Nat /\ loop.left \in Nat /\ loop.busy \in Nat
      /\ rc'.at = rc.at /\ loop'.at = loop.at
      /\ rc'.left = Less(rc.left) /\ loop'.left = Less(loop.left)
      /\ loop'.busy = Less(loop.busy)
  BY Times DEF TypeOK, CallInProgress, Turn, Tick
<1>2. loop.at \in AtWork => loop.left > 0
  BY <1>1 DEF Tick, Due
<1>3. loop.at = "busy" => loop.busy > 0
  BY <1>1 DEF Tick, Due
<1>4. OverBefore(2 * Busy) => OverBefore(2 * Busy)'
  BY <1>1, Times DEF OverBefore, Less
<1>5. OverBefore(rc.left) => OverBefore(rc.left)'
  BY <1>1, <1>2, <1>3, Times DEF OverBefore, Less, AtWork
<1>6. UNCHANGED <<state, run_number, target, exiting_run_>>
  BY DEF Tick
<1>7. QED
  BY <1>1, <1>4, <1>5, <1>6 DEF StartGetsReady, LoopIsReady, Ready, target

LEMMA LoopKeepsReady ==
  ASSUME TypeOK, StartGetsReady, LoopIsReady, RunLoop, TimesAllow
  PROVE  StartGetsReady' /\ LoopIsReady'
<1> USE DEF StartGetsReady, LoopIsReady, Ready, InTurn, AtWork, control, target,
        LoopOnly
<1>0. /\ loop.left \in Nat /\ loop.busy \in Nat /\ loop \in Turn
      /\ \A a : loop' = [loop EXCEPT !.at = a] =>
           loop'.at = a /\ loop'.left = loop.left /\ loop'.busy = loop.busy
  BY Times DEF TypeOK, Turn
<1>1. CASE Begin
  BY <1>0, <1>1 DEF Begin
<1>2. CASE Check
  <2>1. CASE exiting_run_
    BY <1>2, <2>1 DEF Check, Exits
  <2>2. CASE ~exiting_run_
    <3>1. OverBefore(2 * Busy)'
      BY <1>2, <2>2, TimesAllow, Times DEF Check, Exits, OverBefore, TimesAllow
    <3>2. QED
      BY <1>2, <2>2, <3>1 DEF Check, Exits
  <2>3. QED
    BY <2>1, <2>2
<1>3. CASE Trigger
  <2>1. OverBefore(2 * Busy)'
    BY <1>0, <1>3, TimesAllow, Times DEF Trigger, OverBefore, TimesAllow
  <2>2. exiting_run_ => OverBefore(rc.left)'
    <3>1. CASE exiting_run_
      <4>1. loop.left + MaxRead < rc.left /\ loop.left + Busy < rc.left
        BY <1>3, <3>1 DEF Trigger, OverBefore
      <4>2. MaxRead < rc.left /\ Busy < rc.left
        BY <4>1, <1>0, Times DEF TypeOK, CallInProgress
      <4>3. QED
        BY <1>3, <4>2 DEF Trigger, OverBefore
    <3>2. QED
      BY <3>1
  <2>3. QED
    BY <1>3, <2>1, <2>2 DEF Trigger
<1>4. CASE Read
  BY <1>0, <1>4 DEF Read, OverBefore
<1>5. CASE Write
  BY <1>0, <1>5 DEF Write, OverBefore
<1>6. CASE Send
  <2>1. loop'.at = "busy" /\ loop'.busy = loop.busy
    BY <1>0, <1>6 DEF Send, Turn
  <2>2. QED
    BY <1>6, <2>1 DEF Send, OverBefore
<1>7. CASE WakeUp
  BY <1>0, <1>7 DEF WakeUp
<1>8. CASE LoopThrows
  BY <1>8 DEF LoopThrows
<1>9. QED
  BY <1>1, <1>2, <1>3, <1>4, <1>5, <1>6, <1>7, <1>8 DEF RunLoop

-----------------------------------------------------------------------------
(* The data: what is read, and what the file holds.  Most steps leave it.  *)
Numbered == EventsAreNumbered /\ EventsReachTheirFile

LEMMA QuietKeepsData ==
  ASSUME Numbered, UNCHANGED <<files, i_trig, taken>>,
         \/ loop'.at = loop.at
         \/ /\ loop'.at \notin {"trigger", "read", "write", "send"}
            /\ loop.at # "write"
         \/ loop'.at = "trigger" /\ i_trig < MaxTriggers /\ loop.at # "write",
         run_number' = run_number \/ loop.at \notin {"write", "send"}
  PROVE  Numbered'
<1>1. CASE loop'.at = loop.at
  BY <1>1 DEF Numbered, EventsAreNumbered, EventsReachTheirFile, IsIn
<1>2. CASE loop'.at \notin {"trigger", "read", "write", "send"} /\ loop.at # "write"
  BY <1>2 DEF Numbered, EventsAreNumbered, EventsReachTheirFile, IsIn
<1>3. CASE loop'.at = "trigger" /\ i_trig < MaxTriggers /\ loop.at # "write"
  BY <1>3 DEF Numbered, EventsAreNumbered, EventsReachTheirFile, IsIn
<1>4. QED
  BY <1>1, <1>2, <1>3

LEMMA CallKeepsData ==
  ASSUME LoopIsReady, Numbered, RunControl
  PROVE  Numbered'
<1>1. UNCHANGED <<loop, files, i_trig, taken>>
  BY DEF RunControl, DoInitialise, DoConfigure, DoStartRun, DoStopRun, DoReset,
     DoTerminate, ResetTo, BeginStop, data
<1>2. run_number' = run_number \/ loop.at \notin {"write", "send"}
  <2>1. CASE DoStartRun
    BY <2>1 DEF DoStartRun, LoopIsReady, Called, InTurn, AtWork
  <2>2. CASE ~DoStartRun
    BY <2>2 DEF RunControl, DoInitialise, DoConfigure, DoStopRun, DoReset,
       DoTerminate, ResetTo, BeginStop
  <2>3. QED
    BY <2>1, <2>2
<1>3. QED
  BY <1>1, <1>2, QuietKeepsData

LEMMA CommandKeepsData ==
  ASSUME TypeOK, LoopIsReady, Numbered, Starting \/ Stopping
  PROVE  Numbered'
<1>1. UNCHANGED <<files, i_trig, taken, run_number>>
  BY DEF Starting, Connect, Setup, Added, Open, Prepare, StartThrows, Stopping, Slept,
     Disable, Close, Drop, StopThrows, CallThrows, data, control
<1>2. CASE Prepare
  <2>1. loop'.at = loop.at \/ (loop.at = "idle" /\ loop'.at = "starting")
    BY <1>2 DEF Prepare, TypeOK, Turn
  <2>2. QED
    BY <1>1, <2>1, QuietKeepsData
<1>3. CASE ~Prepare
  <2>1. loop' = loop
    BY <1>3 DEF Starting, Connect, Setup, Added, Open, StartThrows, Stopping, Slept,
       Disable, Close, Drop, StopThrows, CallThrows
  <2>2. QED
    BY <1>1, <2>1, QuietKeepsData
<1>4. QED
  BY <1>2, <1>3

LEMMA TickKeepsData ==
  ASSUME TypeOK, Numbered, Tick
  PROVE  Numbered'
<1>1. loop'.at = loop.at
  BY DEF TypeOK, Turn, Tick
<1>2. UNCHANGED <<files, i_trig, taken, run_number>>
  BY DEF Tick, data
<1>3. QED
  BY <1>1, <1>2, QuietKeepsData

(* The event read is numbered like no other, and is in no file.            *)
LEMMA ReadKeepsData ==
  ASSUME TypeOK, Numbered, Read
  PROVE  Numbered'
<1> DEFINE e == [n |-> i_trig, run |-> run_number]
<1>1. loop.at = "read" /\ loop'.at = "write" /\ e \in Event
  BY Bounds DEF TypeOK, Turn, Read, Numbered, EventsAreNumbered, Event
<1>2. /\ taken \in Seq(Event) /\ taken' = Append(taken, e)
      /\ UNCHANGED <<files, i_trig, run_number>>
  BY DEF TypeOK, Read, LoopOnly, control
<1> HIDE DEF e
<1>3. /\ Len(taken') = Len(taken) + 1 /\ Len(taken) \in Nat /\ taken' # << >>
      /\ DOMAIN taken = 1 .. Len(taken) /\ DOMAIN taken' = 1 .. Len(taken')
      /\ taken'[Len(taken')] = e
      /\ \A i \in DOMAIN taken : taken'[i] = taken[i]
  BY <1>1, <1>2
<1>4. /\ \A i \in DOMAIN taken : taken[i].n < i_trig
      /\ \A r \in Runs : \A k \in DOMAIN files[r] : files[r][k].n < i_trig
      /\ i_trig \in Nat /\ e.n = i_trig
  BY <1>1, Bounds DEF Numbered, EventsAreNumbered, TypeOK, e
<1>5. EventsAreNumbered'
  <2>1. ASSUME NEW i \in DOMAIN taken', NEW j \in DOMAIN taken', i < j
        PROVE  taken'[i].n < taken'[j].n
    <3>1. i \in DOMAIN taken
      BY <1>3, <2>1
    <3>2. CASE j = Len(taken')
      BY <1>3, <1>4, <3>1, <3>2
    <3>3. CASE j # Len(taken')
      <4>1. j \in DOMAIN taken
        BY <1>3, <3>3
      <4>2. QED
        BY <1>3, <2>1, <3>1, <4>1 DEF Numbered, EventsAreNumbered
    <3>4. QED
      BY <3>2, <3>3
  <2>2. ASSUME NEW i \in DOMAIN taken'
        PROVE  taken'[i].n <= i_trig
    <3>1. CASE i = Len(taken')
      BY <1>3, <1>4, <3>1
    <3>2. CASE i # Len(taken')
      <4>1. i \in DOMAIN taken
        BY <1>3, <3>2
      <4>2. QED
        BY <1>3, <4>1 DEF Numbered, EventsAreNumbered
    <3>3. QED
      BY <3>1, <3>2
  <2>3. taken'[Len(taken')] = [n |-> i_trig, run |-> run_number]
    BY <1>3 DEF e
  <2>4. QED
    BY <1>1, <1>2, <1>3, <1>4, <2>1, <2>2, <2>3 DEF Numbered, EventsAreNumbered
<1>6. EventsReachTheirFile'
  <2>1. SUFFICES ASSUME NEW i \in DOMAIN taken', NEW r \in Runs
                 PROVE  IsIn(taken'[i], files[r]) <=>
                          r = taken'[i].run /\ i # Len(taken')
    BY <1>1, <1>2 DEF EventsReachTheirFile, IsIn
  <2>2. CASE i = Len(taken')
    <3>1. ~IsIn(e, files[r])
      BY <1>4 DEF IsIn
    <3>2. QED
      BY <1>3, <2>2, <3>1
  <2>3. CASE i # Len(taken')
    <3>1. i \in DOMAIN taken /\ taken'[i] = taken[i]
      BY <1>3, <2>3
    <3>2. QED
      BY <1>1, <2>3, <3>1 DEF Numbered, EventsReachTheirFile
  <2>4. QED
    BY <2>2, <2>3
<1>7. QED
  BY <1>5, <1>6 DEF Numbered

(* The writer is open on the file of the run, and a slave.                 *)
LEMMA WriteKeepsData ==
  ASSUME TypeOK, LoopIsReady, Numbered, Write
  PROVE  Numbered'
<1> DEFINE e == taken[Len(taken)]
           copies == [i \in 1 .. slaves |-> e]
<1>1. loop.at = "write" /\ loop'.at = "send"
  BY DEF TypeOK, Turn, Write
<1>2. /\ UNCHANGED <<taken, i_trig, run_number>>
      /\ files' = [r \in Runs |-> IF r \in writer THEN files[r] \o copies
                                                  ELSE files[r]]
  BY DEF Write, LoopOnly, control
<1>3. writer = {run_number} /\ slaves > 0 /\ slaves \in Nat
  BY <1>1 DEF LoopIsReady, Ready, InTurn, AtWork, TypeOK
<1>4. /\ taken # << >> /\ e = [n |-> i_trig, run |-> run_number]
      /\ run_number \in Runs /\ taken \in Seq(Event) /\ e \in Event
      /\ Len(taken) \in DOMAIN taken
  BY <1>1 DEF Numbered, EventsAreNumbered, TypeOK
<1> HIDE DEF e
<1>5. copies \in Seq(Event)
  BY <1>3, <1>4
<1>6. \A r \in Runs : files[r] \in Seq(Event)
  BY DEF TypeOK
<1>7. \A x : IsIn(x, files[run_number] \o copies) <=>
             IsIn(x, files[run_number]) \/ x = e
  <2>1. SUFFICES ASSUME NEW x
                 PROVE  IsIn(x, files[run_number] \o copies) <=>
                          IsIn(x, files[run_number]) \/ x = e
    OBVIOUS
  <2>2. /\ Len(copies) = slaves /\ \A k \in 1 .. slaves : copies[k] = e
    BY <1>3
  <2>3. PICK f \in Seq(Event) : f = files[run_number]
    BY <1>4, <1>6
  <2> HIDE DEF copies
  <2>4. /\ \A k \in 1 .. Len(f) : (f \o copies)[k] = f[k]
        /\ \A k \in Len(f) + 1 .. Len(f) + slaves : (f \o copies)[k] = e
        /\ DOMAIN (f \o copies) = 1 .. Len(f) + slaves
        /\ DOMAIN f = 1 .. Len(f) /\ Len(f) \in Nat
    BY <1>3, <1>5, <2>2, <2>3
  <2>5. IsIn(x, f \o copies) => IsIn(x, f) \/ x = e
    <3>1. SUFFICES ASSUME NEW k \in 1 .. Len(f) + slaves, (f \o copies)[k] = x
                   PROVE  IsIn(x, f) \/ x = e
      BY <2>4 DEF IsIn
    <3>2. CASE k \in 1 .. Len(f)
      BY <2>4, <3>1, <3>2 DEF IsIn
    <3>3. CASE k \notin 1 .. Len(f)
      <4>1. k \in Len(f) + 1 .. Len(f) + slaves
        BY <1>3, <2>4, <3>3
      <4>2. QED
        BY <2>4, <3>1, <4>1
    <3>4. QED
      BY <3>2, <3>3
  <2>6. IsIn(x, f) => IsIn(x, f \o copies)
    <3>1. SUFFICES ASSUME NEW k \in 1 .. Len(f), f[k] = x
                   PROVE  IsIn(x, f \o copies)
      BY <2>4 DEF IsIn
    <3>2. k \in 1 .. Len(f) + slaves
      BY <1>3, <2>4
    <3>3. QED
      BY <2>4, <3>1, <3>2 DEF IsIn
  <2>7. IsIn(e, f \o copies)
    <3>1. Len(f) + 1 \in Len(f) + 1 .. Len(f) + slaves
      BY <1>3, <2>4
    <3>2. Len(f) + 1 \in 1 .. Len(f) + slaves
      BY <1>3, <2>4
    <3>3. QED
      BY <2>4, <3>1, <3>2 DEF IsIn
  <2>8. QED
    BY <2>3, <2>5, <2>6, <2>7
<1> HIDE DEF copies
<1>8. \A r \in Runs : \A x :
        IsIn(x, files'[r]) <=> IsIn(x, files[r]) \/ (x = e /\ r = run_number)
  BY <1>2, <1>3, <1>7
<1>9. EventsAreNumbered'
  <2>1. ASSUME NEW r \in Runs, NEW k \in DOMAIN files'[r]
        PROVE  files'[r][k].n <= i_trig
    <3>1. IsIn(files'[r][k], files'[r])
      BY DEF IsIn
    <3>2. CASE files'[r][k] = e
      BY <1>4, <3>2 DEF TypeOK
    <3>3. CASE IsIn(files'[r][k], files[r])
      BY <3>3 DEF IsIn, Numbered, EventsAreNumbered
    <3>4. QED
      BY <1>8, <3>1, <3>2, <3>3
  <2>2. QED
    BY <1>1, <1>2, <1>4, <2>1 DEF Numbered, EventsAreNumbered, e
<1>10. EventsReachTheirFile'
  <2>1. SUFFICES ASSUME NEW i \in DOMAIN taken, NEW r \in Runs
                 PROVE  IsIn(taken[i], files'[r]) <=> r = taken[i].run
    BY <1>1, <1>2 DEF EventsReachTheirFile, IsIn
  <2>2. CASE i = Len(taken)
    <3>1. taken[i] = e /\ e.run = run_number /\ ~IsIn(e, files[r])
      BY <1>1, <1>4, <2>2 DEF e, Numbered, EventsReachTheirFile
    <3>2. QED
      BY <1>8, <3>1
  <2>3. CASE i # Len(taken)
    <3>1. taken[i] # e
      <4>1. i < Len(taken) /\ taken[i] \in Event
        BY <1>4, <2>3
      <4>2. taken[i].n < taken[Len(taken)].n
        BY <1>4, <4>1 DEF Numbered, EventsAreNumbered
      <4>3. QED
        BY <4>1, <4>2, Bounds DEF e, Event
    <3>2. QED
      BY <1>1, <1>8, <2>3, <3>1 DEF Numbered, EventsReachTheirFile
  <2>4. QED
    BY <2>2, <2>3
<1>11. QED
  BY <1>9, <1>10 DEF Numbered

LEMMA NumbersAreNaturals ==
  ASSUME TypeOK
  PROVE  /\ \A i \in DOMAIN taken : taken[i].n \in Nat
         /\ \A r \in Runs : \A k \in DOMAIN files[r] : files[r][k].n \in Nat
<1>1. \A f \in Seq(Event) : \A k \in DOMAIN f : f[k] \in Event
  OBVIOUS
<1>2. taken \in Seq(Event) /\ \A r \in Runs : files[r] \in Seq(Event)
  BY DEF TypeOK
<1>3. \A f \in Seq(Event) : \A k \in DOMAIN f : f[k].n \in Nat
  BY <1>1, Bounds DEF Event
<1>4. QED
  BY <1>2, <1>3

LEMMA LoopKeepsData ==
  ASSUME TypeOK, LoopIsReady, Numbered, RunLoop
  PROVE  Numbered'
<1> USE DEF LoopOnly, control, data
<1>0. /\ loop \in Turn
      /\ \A a : loop' = [loop EXCEPT !.at = a] => loop'.at = a
  BY DEF TypeOK, Turn
<1>1. CASE Begin
  BY <1>0, <1>1, QuietKeepsData DEF Begin
<1>2. CASE Check
  BY <1>0, <1>2, QuietKeepsData DEF Check
<1>3. CASE Trigger
  <2>1. loop'.at \in {"busy", "read"} /\ i_trig' = i_trig + 1 /\ i_trig \in Nat
        /\ UNCHANGED <<files, taken>> /\ loop.at = "trigger"
    BY <1>3, Bounds DEF Trigger, TypeOK
  <2>2. /\ \A i \in DOMAIN taken : taken[i].n < i_trig'
        /\ \A r \in Runs : \A k \in DOMAIN files[r] : files[r][k].n < i_trig'
    BY <2>1, NumbersAreNaturals DEF Numbered, EventsAreNumbered
  <2>3. EventsReachTheirFile'
    BY <2>1 DEF Numbered, EventsReachTheirFile, IsIn
  <2>4. /\ \A i \in DOMAIN taken : taken[i].n <= i_trig'
        /\ \A r \in Runs : \A k \in DOMAIN files[r] : files[r][k].n <= i_trig'
    BY <2>1, <2>2, NumbersAreNaturals
  <2>6. EventsAreNumbered'
    BY <2>1, <2>2, <2>4 DEF Numbered, EventsAreNumbered
  <2>7. QED
    BY <2>3, <2>6 DEF Numbered
<1>4. CASE Read
  BY <1>4, ReadKeepsData
<1>5. CASE Write
  BY <1>5, WriteKeepsData
<1>6. CASE Send
  <2>1. loop'.at = "busy" /\ loop.at = "send"
    BY <1>0, <1>6 DEF Send, Turn
  <2>2. QED
    BY <1>6, <2>1, QuietKeepsData DEF Send
<1>7. CASE WakeUp
  BY <1>0, <1>7, QuietKeepsData DEF WakeUp
<1>8. CASE LoopThrows
  BY <1>8, QuietKeepsData DEF LoopThrows
<1>9. QED
  BY <1>1, <1>2, <1>3, <1>4, <1>5, <1>6, <1>7, <1>8 DEF RunLoop

-----------------------------------------------------------------------------
(* External triggers: DoConfigure cannot change the mode while they are    *)
(* enabled, and whatever follows disables them first, unless a call throws. *)
LEMMA StepsKeepUndone ==
  ASSUME TypeOK, LoopIsReady, TriggersAreUndone, Next
  PROVE  TriggersAreUndone'
<1> USE DEF TriggersAreUndone, target, control, data
<1>0. /\ rc \in CallInProgress
      /\ \A a : rc' = [rc EXCEPT !.at = a] => rc'.at = a
  BY DEF TypeOK, CallInProgress
<1>1. CASE DoInitialise \/ DoConfigure \/ DoStartRun
  <2>1. CASE DoInitialise
    BY <2>1 DEF DoInitialise, Called
  <2>2. CASE DoConfigure
    <3>1. external => threw /\ exiting_run_
      BY <2>2 DEF DoConfigure
    <3>2. /\ rc'.at = "none" /\ state' \in {"conf", "error"}
          /\ UNCHANGED <<external, threw, exiting_run_>>
      BY <2>2 DEF DoConfigure, Called
    <3>3. QED
      BY <3>1, <3>2
  <2>3. CASE DoStartRun
    <3>1. rc'.at = "connect" /\ UNCHANGED <<state, external, threw, exiting_run_, the_l1a_mode_>>
      BY <2>3 DEF DoStartRun
    <3>2. external => threw
      BY <2>3 DEF DoStartRun, Called
    <3>3. QED
      BY <3>1, <3>2
  <2>4. QED
    BY <1>1, <2>1, <2>2, <2>3
<1>2. ASSUME NEW next, Called, BeginStop(next)
      PROVE  TriggersAreUndone'
  BY <1>2 DEF BeginStop, Called
<1>3. ASSUME NEW next, next # "stopped", Called, ResetTo(next)
      PROVE  TriggersAreUndone'
  <2>1. CASE exiting_run_
    BY <1>3, <2>1 DEF ResetTo, Called
  <2>2. CASE ~exiting_run_
    BY <1>2, <1>3, <2>2 DEF ResetTo
  <2>3. QED
    BY <2>1, <2>2
<1>4. CASE DoStopRun \/ DoReset \/ DoTerminate
  BY <1>2, <1>3, <1>4 DEF DoStopRun, DoReset, DoTerminate
<1>5. CASE Connect \/ Setup \/ Open
  BY <1>0, <1>5 DEF Connect, Setup, Open
<1>6. CASE Prepare
  <2>1. external => threw
    BY <1>6 DEF Prepare
  <2>2. /\ external' => threw' \/ the_l1a_mode_' = "EXTERNAL"
        /\ state' = "running" /\ rc'.at = "none" /\ ~exiting_run_'
    BY <1>0, <1>6, <2>1 DEF Prepare
  <2>3. QED
    BY <2>2
<1>7. CASE StartThrows \/ StopThrows
  <2>1. state' = "error" /\ rc'.at = "none" /\ threw'
    BY <1>0, <1>7 DEF StartThrows, StopThrows, CallThrows
  <2>2. QED
    BY <2>1
<1>8. CASE Slept \/ Close
  BY <1>0, <1>8 DEF Slept, Close
<1>9. CASE Disable
  BY <1>0, <1>9 DEF Disable, Disabled
<1>10. CASE Drop
  <2>1. external => threw /\ the_l1a_mode_ # "EXTERNAL" /\ exiting_run_
    BY <1>10 DEF Drop, LoopIsReady, InStop
  <2>2. QED
    BY <1>10, <2>1 DEF Drop
<1>11. CASE RunLoop
  BY <1>11 DEF RunLoop, Begin, Check, Trigger, Read, Write, Send, WakeUp, LoopThrows,
     LoopOnly
<1>12. CASE Tick
  <2>1. rc'.at = rc.at
    BY <1>0, <1>12 DEF Tick, CallInProgress
  <2>2. QED
    BY <1>12, <2>1 DEF Tick
<1>13. QED
  BY <1>1, <1>4, <1>5, <1>6, <1>7, <1>8, <1>9, <1>10, <1>11, <1>12
     DEF Next, RunControl, Starting, Stopping

(* Only the steps of RunLoop change what has been read and sent.           *)
LEMMA LoopHandsOn ==
  ASSUME TypeOK, EventsAreHandedOn, RunLoop
  PROVE  EventsAreHandedOn'
<1> USE DEF EventsAreHandedOn, LoopOnly, control, data
<1>0. /\ loop \in Turn
      /\ \A a : loop' = [loop EXCEPT !.at = a] => loop'.at = a
  BY DEF TypeOK, Turn
<1>1. CASE Begin \/ Check \/ Trigger \/ WakeUp \/ LoopThrows
  BY <1>0, <1>1 DEF Begin, Check, Trigger, WakeUp, LoopThrows
<1>2. CASE Read
  <2>1. taken \in Seq(Event) /\ sent = taken /\ loop'.at = "write"
    BY <1>0, <1>2 DEF Read, TypeOK
  <2>2. PICK e : taken' = Append(taken, e)
    BY <1>2 DEF Read
  <2>3. taken' # << >> /\ taken'[Len(taken')] = e
    BY <2>1, <2>2
  <2>4. QED
    BY <1>2, <2>1, <2>2, <2>3 DEF Read
<1>3. CASE Write
  BY <1>0, <1>3 DEF Write
<1>4. CASE Send
  <2>1. loop'.at = "busy"
    BY <1>4 DEF Send, TypeOK, Turn
  <2>2. QED
    BY <1>4, <2>1 DEF Send
<1>5. QED
  BY <1>1, <1>2, <1>3, <1>4 DEF RunLoop

LEMMA StepsKeepHandedOn ==
  ASSUME TypeOK, LoopIsReady, EventsAreHandedOn, Next
  PROVE  EventsAreHandedOn'
<1> USE DEF EventsAreHandedOn, control, data
<1>0. /\ rc \in CallInProgress
      /\ \A a : rc' = [rc EXCEPT !.at = a] => rc'.at = a
  BY DEF TypeOK, CallInProgress
<1>1. CASE DoInitialise \/ DoConfigure
  BY <1>1 DEF DoInitialise, DoConfigure, Called
<1>2. CASE DoStartRun
  BY <1>2 DEF DoStartRun, Called, InStop
<1>3. ASSUME NEW next, Called, ResetTo(next), next # "stopped"
      PROVE  EventsAreHandedOn'
  <2>1. CASE exiting_run_
    BY <1>3, <2>1 DEF ResetTo
  <2>2. CASE ~exiting_run_
    BY <1>3, <2>2 DEF ResetTo, BeginStop
  <2>3. QED
    BY <2>1, <2>2
<1>4. CASE DoStopRun
  BY <1>4 DEF DoStopRun, BeginStop
<1>5. CASE DoReset \/ DoTerminate
  BY <1>3, <1>5 DEF DoReset, DoTerminate
<1>6. CASE Connect \/ Setup \/ Open \/ StartThrows \/ StopThrows
  BY <1>0, <1>6 DEF Connect, Setup, Open, StartThrows, StopThrows, CallThrows, InStart,
     InStop
<1>7. CASE Prepare
  <2>1. loop'.at = loop.at \/ (loop.at = "idle" /\ loop'.at = "starting")
    BY <1>7 DEF Prepare, TypeOK, Turn
  <2>2. QED
    BY <1>7, <2>1 DEF Prepare
<1>8. CASE Slept \/ Disable \/ Close
  BY <1>0, <1>8 DEF Slept, Disable, Close, InStop
<1>9. CASE Drop
  BY <1>0, <1>9 DEF Drop, InStop, LoopIsReady
<1>10. CASE RunLoop
  BY <1>10, LoopHandsOn
<1>11. CASE Tick
  <2>1. rc'.at = rc.at /\ loop'.at = loop.at
    BY <1>0, <1>11 DEF Tick, CallInProgress, TypeOK, Turn
  <2>2. QED
    BY <1>11, <2>1 DEF Tick
<1>12. QED
  BY <1>1, <1>2, <1>4, <1>5, <1>6, <1>7, <1>8, <1>9, <1>10, <1>11
     DEF Next, RunControl, Starting, Stopping

-----------------------------------------------------------------------------
(* How often each event is written.                                        *)
LEMMA WrittenTypes ==
  ASSUME TypeOK
  PROVE  /\ \A e \in Written : e \in Event /\ e.run \in Runs /\ e.run \in Nat
                              /\ Copies(e) \in Nat
         /\ run_number \in Nat /\ slaves \in Nat
<1>1. /\ taken \in Seq(Event) /\ files \in [Runs -> Seq(Event)]
      /\ run_number \in Nat /\ slaves \in Nat
  BY Bounds DEF TypeOK, Runs
<1>2. ASSUME NEW e \in Written
      PROVE  e \in Event /\ e.run \in Runs /\ e.run \in Nat /\ Copies(e) \in Nat
  <2>1. e \in Event
    BY <1>1 DEF Written
  <2>2. e.run \in Runs /\ e.run \in Nat
    BY <2>1, Bounds DEF Event, Runs
  <2>3. DOMAIN files[e.run] = 1 .. Len(files[e.run]) /\ Len(files[e.run]) \in Nat
    BY <1>1, <2>2
  <2>4. IsFiniteSet(1 .. Len(files[e.run]))
    BY <2>3, FS_Interval
  <2>5. {k \in DOMAIN files[e.run] : files[e.run][k] = e} \in SUBSET (1 .. Len(files[e.run]))
    BY <2>3
  <2>6. QED
    BY <2>1, <2>2, <2>4, <2>5, FS_Subset, FS_CardinalityType DEF Copies
<1>3. QED
  BY <1>1, <1>2

(* What is not a write leaves the copies.                                  *)
LEMMA CopiesAreLeft ==
  ASSUME TypeOK, [Next]_vars, ~Write
  PROVE  Written' = Written /\ \A e : Copies(e)' = Copies(e)
<1>1. files' = files
  BY DEF Next, vars, RunControl, Starting, Stopping, RunLoop, DoInitialise, DoConfigure,
         DoStartRun, DoStopRun, DoReset, DoTerminate, ResetTo, BeginStop, Connect, Setup,
         Open, Prepare, StartThrows, StopThrows, CallThrows, Slept, Disable, Close, Drop,
         Begin, Check, Trigger, Read, Send, WakeUp, LoopThrows, Tick, data
<1>2. loop \in Turn /\ taken \in Seq(Event)
  BY DEF TypeOK
<1>3. CASE Read
  <2>1. /\ taken' = Append(taken, [n |-> i_trig, run |-> run_number])
        /\ loop.at = "read" /\ loop'.at = "write"
    BY <1>2, <1>3 DEF Read, Turn
  <2>2. /\ Len(taken) \in Nat /\ DOMAIN taken = 1 .. Len(taken)
        /\ Len(taken') = Len(taken) + 1 /\ DOMAIN taken' = 1 .. (Len(taken) + 1)
        /\ \A i \in 1 .. Len(taken) : taken'[i] = taken[i]
    BY <1>2, <2>1
  <2>3. Written = {taken[i] : i \in 1 .. Len(taken)}
    BY <2>1, <2>2 DEF Written
  <2>4. {j \in DOMAIN taken' : loop'.at # "write" \/ j # Len(taken')} = 1 .. Len(taken)
    BY <2>1, <2>2
  <2>5. Written' = {taken'[i] : i \in 1 .. Len(taken)}
    BY <2>4 DEF Written
  <2>6. Written' = Written
    BY <2>2, <2>3, <2>5
  <2>7. \A e : Copies(e)' = Copies(e)
    BY <1>1 DEF Copies
  <2>8. QED
    BY <2>6, <2>7
<1>4. CASE ~Read
  <2> USE DEF control, target, data, LoopOnly
  <2>1. taken' = taken /\ (loop'.at = "write" <=> loop.at = "write")
    <3>1. CASE RunControl
      BY <3>1 DEF RunControl, DoInitialise, DoConfigure, DoStartRun, DoStopRun, DoReset,
                  DoTerminate, ResetTo, BeginStop
    <3>2. CASE Starting \/ Stopping
      BY <1>2, <3>2 DEF Starting, Stopping, Connect, Setup, Open, Prepare, StartThrows,
                        StopThrows, CallThrows, Slept, Disable, Close, Drop, Turn
    <3>3. CASE RunLoop
      <4>1. CASE Begin \/ Check \/ LoopThrows
        BY <1>2, <4>1 DEF Begin, Check, LoopThrows, Turn
      <4>2. CASE Trigger
        BY <4>2 DEF Trigger
      <4>3. CASE Send \/ WakeUp
        BY <1>2, <4>3 DEF Send, WakeUp, Turn
      <4>4. QED
        BY <1>4, <3>3, <4>1, <4>2, <4>3 DEF RunLoop
    <3>4. CASE Tick \/ UNCHANGED vars
      BY <1>2, <3>4 DEF Tick, vars, Turn
    <3>5. QED
      BY <3>1, <3>2, <3>3, <3>4 DEF Next
  <2>2. Written' = Written
    BY <2>1 DEF Written
  <2>3. QED
    BY <1>1, <2>2 DEF Copies
<1>5. QED
  BY <1>3, <1>4

(* A write adds one event, as often as the writer is a slave.              *)
LEMMA WriteCopies ==
  ASSUME TypeOK, LoopIsReady, Numbered, Write
  PROVE  \E x : /\ x.run = run_number
                /\ Written' = Written \union {x}
                /\ Copies(x)' = slaves
                /\ \A e \in Written : Copies(e)' = Copies(e)
<1> DEFINE x == taken[Len(taken)]
           copies == [i \in 1 .. slaves |-> x]
<1>1. loop.at = "write" /\ loop'.at = "send"
  BY DEF TypeOK, Turn, Write
<1>2. /\ taken' = taken
      /\ files' = [r \in Runs |-> IF r \in writer THEN files[r] \o copies ELSE files[r]]
  BY DEF Write
<1>3. writer = {run_number} /\ slaves \in Nat
  BY <1>1 DEF LoopIsReady, Ready, InTurn, AtWork, TypeOK
<1>4. /\ taken # << >> /\ taken \in Seq(Event) /\ x \in Event
      /\ x.n = i_trig /\ x.run = run_number /\ run_number \in Runs
      /\ Len(taken) \in Nat /\ Len(taken) \in DOMAIN taken /\ DOMAIN taken = 1 .. Len(taken)
  BY <1>1 DEF Numbered, EventsAreNumbered, TypeOK
<1> HIDE DEF x
<1>5. Written' = Written \union {x}
  BY <1>1, <1>2, <1>4 DEF Written, x
<1>6. ASSUME NEW e \in Written PROVE e # x /\ e.run \in Runs
  <2>1. PICK i \in DOMAIN taken : i # Len(taken) /\ e = taken[i]
    BY <1>1 DEF Written
  <2>2. i < Len(taken) /\ e \in Event
    BY <1>4, <2>1
  <2>3. e.n < x.n
    BY <1>4, <2>1, <2>2 DEF Numbered, EventsAreNumbered, x
  <2>4. QED
    BY <1>4, <2>2, <2>3, Bounds DEF Event
<1>7. PICK f \in Seq(Event) : f = files[run_number]
  BY <1>4 DEF TypeOK
<1>8. /\ Len(copies) = slaves /\ \A k \in 1 .. slaves : copies[k] = x
      /\ copies \in Seq(Event)
  BY <1>3, <1>4
<1> HIDE DEF copies
<1>9. /\ \A k \in 1 .. Len(f) : (f \o copies)[k] = f[k]
      /\ \A k \in Len(f) + 1 .. Len(f) + slaves : (f \o copies)[k] = x
      /\ DOMAIN (f \o copies) = 1 .. Len(f) + slaves
      /\ DOMAIN f = 1 .. Len(f) /\ Len(f) \in Nat
  BY <1>3, <1>7, <1>8
<1>10. /\ files'[run_number] = f \o copies
       /\ \A r \in Runs : r # run_number => files'[r] = files[r]
  BY <1>2, <1>3, <1>4, <1>7
<1>11. \A k \in 1 .. Len(f) + slaves : k \in 1 .. Len(f) \/ k \in Len(f) + 1 .. Len(f) + slaves
  BY <1>3, <1>9
<1>12. \A k \in 1 .. Len(f) : k \in 1 .. Len(f) + slaves
  BY <1>3, <1>9
<1>13. ASSUME NEW e \in Written PROVE Copies(e)' = Copies(e)
  <2>1. CASE e.run # run_number
    BY <1>6, <1>10, <2>1 DEF Copies
  <2>2. CASE e.run = run_number
    <3>1. {k \in DOMAIN (f \o copies) : (f \o copies)[k] = e} = {k \in DOMAIN f : f[k] = e}
      BY <1>6, <1>9, <1>11, <1>12
    <3>2. QED
      BY <1>7, <1>10, <2>2, <3>1 DEF Copies
  <2>3. QED
    BY <2>1, <2>2
<1>14. PICK y : y = x
  OBVIOUS
<1>15. Copies(y)' = slaves
  <2>1. \A k \in DOMAIN f : f[k] # x
    <3>1. ~IsIn(x, files[run_number])
      BY <1>1, <1>4 DEF Numbered, EventsReachTheirFile, x
    <3>2. QED
      BY <1>7, <3>1 DEF IsIn
  <2>2. \A k \in Len(f) + 1 .. Len(f) + slaves : k \in 1 .. Len(f) + slaves
    BY <1>3, <1>9
  <2>3. {k \in DOMAIN (f \o copies) : (f \o copies)[k] = x} = Len(f) + 1 .. Len(f) + slaves
    BY <1>9, <1>11, <2>1, <2>2
  <2>4. Len(f) + 1 \in Int /\ Len(f) + slaves \in Int
        /\ (Len(f) + 1 > Len(f) + slaves <=> slaves = 0)
        /\ (Len(f) + slaves) - (Len(f) + 1) + 1 = slaves
    BY <1>3, <1>9
  <2>5. Cardinality(Len(f) + 1 .. Len(f) + slaves) = slaves
    <3>1. Cardinality(Len(f) + 1 .. Len(f) + slaves)
            = IF Len(f) + 1 > Len(f) + slaves THEN 0
              ELSE (Len(f) + slaves) - (Len(f) + 1) + 1
      BY <2>4, FS_Interval
    <3>2. QED
      BY <2>4, <3>1
  <2>6. QED
    BY <1>4, <1>10, <1>14, <2>3, <2>5 DEF Copies
<1>16. QED
  BY <1>4, <1>5, <1>13, <1>14, <1>15

(* A run is set up by Setup and by nothing else, with the copies that the  *)
(* writer is a slave by then.                                              *)
LEMMA StepsSetUp ==
  ASSUME TypeOK, LoopIsReady, [Next]_vars
  PROVE  \/ /\ rc.at = "setup" /\ run_number' = run_number
            /\ IF dma_enabled_' THEN slaves' = slaves ELSE slaves' = slaves + 1
         \/ /\ UNCHANGED <<slaves, dma_enabled_, run_number>>
            /\ SetUp' => SetUp
            /\ rc'.at \in InStart => rc.at \in InStart
         \/ /\ UNCHANGED <<slaves, dma_enabled_>>
            /\ ~SetUp' /\ run_number' = run_number + 1
<1> USE DEF target, control, data, LoopOnly
<1>1. loop \in Turn /\ rc \in CallInProgress
  BY DEF TypeOK
<1>2. CASE DoInitialise \/ DoConfigure
  BY <1>2 DEF DoInitialise, DoConfigure, SetUp
<1>3. CASE DoStartRun
  <2>1. loop.at # "idle" => exiting_run_
    BY <1>3 DEF DoStartRun, LoopIsReady
  <2>2. loop.at \notin InTurn
    BY <1>3, <2>1 DEF DoStartRun, Called, LoopIsReady, InTurn, AtWork
  <2>3. ~SetUp'
    BY <1>3, <2>1, <2>2 DEF DoStartRun, SetUp
  <2>4. QED
    BY <1>3, <2>3 DEF DoStartRun
<1>4. CASE DoStopRun \/ DoReset \/ DoTerminate
  BY <1>4 DEF DoStopRun, DoReset, DoTerminate, ResetTo, BeginStop, SetUp, InTurn, AtWork,
              InStart
<1>5. CASE Setup
  BY <1>1, <1>5 DEF Setup, Added
<1>6. CASE Connect \/ Open \/ Prepare \/ StartThrows
  BY <1>1, <1>6 DEF Connect, Open, Prepare, StartThrows, CallThrows, SetUp,
                    CallInProgress, InStart, InTurn, AtWork, Turn
<1>7. CASE Stopping
  BY <1>1, <1>7 DEF Stopping, Slept, Disable, Close, Drop, StopThrows, CallThrows, SetUp,
                    CallInProgress, InStart
<1>8. CASE RunLoop
  BY <1>1, <1>8 DEF RunLoop, Begin, Check, Exits, Trigger, Read, Write, Send, WakeUp,
                    LoopThrows, SetUp, InTurn, AtWork, Turn
<1>9. CASE Tick
  BY <1>1, <1>9 DEF Tick, SetUp, Turn, CallInProgress
<1>10. CASE UNCHANGED vars
  BY <1>10 DEF vars, SetUp
<1>11. QED
  BY <1>2, <1>3, <1>4, <1>5, <1>6, <1>7, <1>8, <1>9, <1>10 DEF Next, RunControl, Starting

LEMMA KeepsCopies ==
  ASSUME TypeOK, LoopIsReady, Numbered, CopiesSoFar, [Next]_vars
  PROVE  CopiesSoFar'
<1>1. /\ run_number \in Nat /\ slaves \in Nat
      /\ \A e \in Written : e.run \in Nat /\ Copies(e) \in Nat
  BY WrittenTypes
<1>2. CASE Write
  <2>1. PICK x : /\ x.run = run_number
                 /\ Written' = Written \union {x}
                 /\ Copies(x)' = slaves
                 /\ \A e \in Written : Copies(e)' = Copies(e)
    BY <1>2, WriteCopies
  <2>2. /\ UNCHANGED <<run_number, slaves, rc, dma_enabled_>>
        /\ loop.at = "write"
    BY <1>2 DEF Write, LoopOnly, control, target
  <2>3. SetUp /\ rc.at \notin InStart
    BY <2>2 DEF SetUp, LoopIsReady, InTurn, AtWork, InStart
  <2>4. ~dma_enabled_
    BY <2>2 DEF LoopIsReady
  <2>5. ASSUME NEW e \in Written'
        PROVE  /\ e.run <= run_number
               /\ e.run = run_number => Copies(e)' = slaves
               /\ e.run < run_number => Copies(e)' <= slaves /\ Copies(e)' < slaves
    BY <1>1, <2>1, <2>3, <2>4, <2>5 DEF CopiesSoFar
  <2>6. QED
    BY <2>2, <2>3, <2>5 DEF CopiesSoFar
<1>3. CASE ~Write
  <2>1. Written' = Written /\ \A e : Copies(e)' = Copies(e)
    BY <1>3, CopiesAreLeft
  <2>2. CASE /\ rc.at = "setup" /\ run_number' = run_number
             /\ IF dma_enabled_' THEN slaves' = slaves ELSE slaves' = slaves + 1
    <3>1. ASSUME NEW e \in Written
          PROVE  /\ e.run <= run_number /\ e.run # run_number
                 /\ Copies(e) <= slaves' /\ (~dma_enabled_' => Copies(e) < slaves')
      <4>1. e.run < run_number /\ Copies(e) <= slaves
        BY <1>1, <2>2 DEF CopiesSoFar, InStart
      <4>2. QED
        BY <1>1, <2>2, <4>1
    <3>2. QED
      BY <2>1, <2>2, <3>1 DEF CopiesSoFar
  <2>3. CASE /\ UNCHANGED <<slaves, dma_enabled_, run_number>>
             /\ SetUp' => SetUp
             /\ rc'.at \in InStart => rc.at \in InStart
    BY <2>1, <2>3 DEF CopiesSoFar
  <2>4. CASE /\ UNCHANGED <<slaves, dma_enabled_>>
             /\ ~SetUp' /\ run_number' = run_number + 1
    <3>1. ASSUME NEW e \in Written
          PROVE  e.run < run_number' /\ e.run <= run_number' /\ e.run # run_number'
                 /\ Copies(e) <= slaves
      BY <1>1, <2>4 DEF CopiesSoFar
    <3>2. QED
      BY <2>1, <2>4, <3>1 DEF CopiesSoFar
  <2>5. QED
    BY <2>2, <2>3, <2>4, StepsSetUp
<1>4. QED
  BY <1>2, <1>3

LEMMA KeepsGrowing ==
  ASSUME TypeOK, LoopIsReady, Numbered, CopiesSoFar, CopiesGrow, [Next]_vars
  PROVE  CopiesGrow'
<1>1. CASE Write
  <2>1. PICK x : /\ x.run = run_number
                 /\ Written' = Written \union {x}
                 /\ Copies(x)' = slaves
                 /\ \A e \in Written : Copies(e)' = Copies(e)
    BY <1>1, WriteCopies
  <2>2. SetUp /\ ~dma_enabled_
    BY <1>1 DEF Write, SetUp, LoopIsReady, InTurn, AtWork
  <2>3. /\ run_number \in Nat /\ \A e \in Written : e.run \in Nat
    BY WrittenTypes
  <2>4. ASSUME NEW e \in Written
        PROVE  /\ e.run = run_number => Copies(e) = slaves
               /\ e.run < run_number => Copies(e) < slaves
               /\ ~(run_number < e.run)
    BY <2>2, <2>3 DEF CopiesSoFar
  <2>5. \A d, e \in Written' :
          /\ d.run = e.run => Copies(d)' = Copies(e)'
          /\ d.run < e.run => Copies(d)' < Copies(e)'
    BY <2>1, <2>3, <2>4 DEF CopiesGrow
  <2>6. QED
    BY <2>5 DEF CopiesGrow
<1>2. CASE ~Write
  BY <1>2, CopiesAreLeft DEF CopiesGrow
<1>3. QED
  BY <1>1, <1>2

-----------------------------------------------------------------------------
(* What a start or a stop leaves that has thrown.                          *)
LEMMA KeepsLeftovers ==
  ASSUME TypeOK, LoopIsReady, TriggersAreUndone, EventsAreHandedOn, LeftoversAreUndone,
         [Next]_vars
  PROVE  LeftoversAreUndone'
<1> DEFINE Left ==
      /\ rc.at = "none" /\ state = "stopped" => ~Leftover
      /\ rc.at = "none" /\ state \in {"uninit", "unconf", "conf"} =>
           (Leftover => threw /\ exiting_run_)
      /\ Leftover => threw \/ rc.at # "none" \/ ~exiting_run_
      /\ rc.at = "none" /\ ~exiting_run_ => state \in {"running", "error"} \/ ~Leftover
<1>1. /\ loop \in Turn /\ rc \in CallInProgress
      /\ \A a : rc' = [rc EXCEPT !.at = a] => rc'.at = a
  BY DEF TypeOK, CallInProgress
<1>2. Left
  BY DEF LeftoversAreUndone, LeftByThrows
<1>3. Left'
  <2> USE DEF Leftover, target, control, data, LoopOnly
  <2>1. CASE RunControl
    BY <1>1, <1>2, <2>1 DEF RunControl, Called, DoInitialise, DoConfigure, DoStartRun,
       DoStopRun, DoReset, DoTerminate, ResetTo, BeginStop
  <2>2. CASE Connect \/ Setup \/ Open \/ Prepare
    BY <1>1, <2>2 DEF Connect, Setup, Open, Prepare
  <2>3. CASE StartThrows \/ StopThrows
    <3>1. state' = "error" /\ rc'.at = "none" /\ threw'
      BY <1>1, <2>3 DEF StartThrows, StopThrows, CallThrows
    <3>2. QED
      BY <3>1
  <2>4. CASE Slept \/ Disable \/ Close
    BY <1>1, <2>4 DEF Slept, Disable, Close
  <2>5. CASE Drop
    <3>1. ~Leftover'
      BY <2>5 DEF Drop
    <3>2. QED
      BY <3>1
  <2>6. CASE RunLoop
    BY <1>1, <1>2, <2>6 DEF RunLoop, Begin, Check, Trigger, Read, Write, Send, WakeUp,
       LoopThrows
  <2>7. CASE Tick
    <3>1. rc'.at = rc.at
      BY <1>1, <2>7 DEF Tick, CallInProgress
    <3>2. QED
      BY <1>2, <2>7, <3>1 DEF Tick
  <2>8. CASE UNCHANGED vars
    BY <1>2, <2>8 DEF vars
  <2>9. QED
    BY <2>1, <2>2, <2>3, <2>4, <2>5, <2>6, <2>7, <2>8 DEF Next, Starting, Stopping
<1>4. TriggersAreUndone'
  <2>1. CASE Next
    BY <2>1, StepsKeepUndone
  <2>2. CASE UNCHANGED vars
    BY <2>2 DEF vars, control, target, data, TriggersAreUndone
  <2>3. QED
    BY <2>1, <2>2
<1>5. QED
  BY <1>3, <1>4 DEF TriggersAreUndone, LeftoversAreUndone, LeftByThrows

-----------------------------------------------------------------------------
LEMMA InitReady == Init => PolarfireInv
<1>1. 0 \in 0 .. 2 * Busy /\ 0 \in 0 .. Busy /\ 0 \in 0 .. MaxTriggers
      /\ 0 \in 0 .. MaxCalls /\ 0 \in Runs
  BY Times, Bounds DEF Runs
<1>2. Init => TypeOK
  BY <1>1 DEF Init, TypeOK, CallInProgress, Turn
<1>3. Init => StartGetsReady /\ LoopIsReady
  BY DEF Init, StartGetsReady, LoopIsReady, InTurn, AtWork, InStop
<1>4. Init => EventsAreNumbered /\ EventsReachTheirFile
  BY DEF Init, EventsAreNumbered, EventsReachTheirFile
<1>5. Init => TriggersAreUndone /\ LeftoversAreUndone /\ EventsAreHandedOn
  BY DEF Init, TriggersAreUndone, LeftoversAreUndone, LeftByThrows, Leftover,
     EventsAreHandedOn
<1>6. Init => CopiesSoFar
  BY DEF Init, CopiesSoFar, Written
<1>7. QED
  BY <1>2, <1>3, <1>4, <1>5, <1>6 DEF PolarfireInv

LEMMA StepsKeepInv ==
  ASSUME TimesAllow, PolarfireInv, [Next]_vars
  PROVE  PolarfireInv'
<1>0. Next => TriggersAreUndone' /\ EventsAreHandedOn'
  BY StepsKeepUndone, StepsKeepHandedOn DEF PolarfireInv
<1>1. Numbered /\ CopiesSoFar' /\ LeftoversAreUndone'
  <2>1. Numbered
    BY DEF PolarfireInv, Numbered
  <2>2. QED
    BY <2>1, KeepsCopies, KeepsLeftovers DEF PolarfireInv
<1>2. CASE RunControl
  BY <1>0, <1>1, <1>2, CallKeepsType, CallKeepsReady, CallKeepsData DEF PolarfireInv, Numbered, Next
<1>3. CASE Starting \/ Stopping
  BY <1>0, <1>1, <1>3, CommandKeepsType, CommandKeepsReady, CommandKeepsData
     DEF PolarfireInv, Numbered, Next
<1>4. CASE RunLoop
  BY <1>0, <1>1, <1>4, LoopKeepsType, LoopKeepsReady, LoopKeepsData DEF PolarfireInv, Numbered, Next
<1>5. CASE Tick
  BY <1>0, <1>1, <1>5, TickKeepsType, TickKeepsReady, TickKeepsData DEF PolarfireInv, Numbered, Next
<1>6. CASE UNCHANGED vars
  BY <1>1, <1>6 DEF PolarfireInv, TypeOK, StartGetsReady, LoopIsReady, Ready, OverBefore,
     EventsAreNumbered, EventsReachTheirFile, IsIn, TriggersAreUndone,
     EventsAreHandedOn, vars, control, target, data
<1>7. QED
  BY <1>2, <1>3, <1>4, <1>5, <1>6 DEF Next

(* The invariant, if the times allow.                                      *)
THEOREM PolarfireInvariant == TimesAllow => (Spec => []PolarfireInv)
<1>1. SUFFICES ASSUME TimesAllow
               PROVE  Spec => []PolarfireInv
  OBVIOUS
<1>2. PolarfireInv /\ [Next]_vars => PolarfireInv'
  BY <1>1, StepsKeepInv
<1>3. QED
  BY InitReady, <1>2, PTL DEF Spec

(* RunLoop never works on a target that DoStopRun has deleted.             *)
THEOREM TargetOutlivesTurn == TimesAllow => (Spec => []LoopTargetIsLive)
<1>1. PolarfireInv => LoopTargetIsLive
  BY DEF PolarfireInv, LoopIsReady, Ready, LoopTargetIsLive, InTurn, AtWork
<1>2. QED
  BY PolarfireInvariant, <1>1, PTL

(* No turn is under way when DoStopRun takes the run down.                 *)
THEOREM TurnIsOver == TimesAllow => (Spec => []LoopIsGone)
<1>1. PolarfireInv => LoopIsGone
  BY DEF PolarfireInv, LoopIsReady, LoopIsGone, InStop
<1>2. QED
  BY PolarfireInvariant, <1>1, PTL

(* Every event read gets into the file of its run.                         *)
THEOREM NoEventMissesItsFile == TimesAllow => (Spec => []EventsReachTheirFile)
<1>1. PolarfireInv => EventsReachTheirFile
  BY DEF PolarfireInv
<1>2. QED
  BY PolarfireInvariant, <1>1, PTL

(* A run that has been stopped has sent every event that it has read, in   *)
(* the order of the triggers.                                              *)
THEOREM StoppedRunIsComplete == TimesAllow => (Spec => []StoppedIsComplete)
<1>1. PolarfireInv => StoppedIsComplete
  BY DEF PolarfireInv, LoopIsReady, EventsAreHandedOn, StoppedIsComplete, InStop,
     InTurn, AtWork
<1>2. QED
  BY PolarfireInvariant, <1>1, PTL

(* What goes over from one run to the next: every start without DMA adds   *)
(* the writer as a slave once more, and each of them writes every event.   *)
THEOREM CopiesAlwaysGrow == TimesAllow => (Spec => []CopiesGrow)
<1>1. SUFFICES ASSUME TimesAllow PROVE Spec => []CopiesGrow
  OBVIOUS
<1>2. Init => CopiesGrow
  BY DEF Init, CopiesGrow, Written
<1>3. PolarfireInv /\ CopiesGrow /\ [Next]_vars => CopiesGrow'
  BY KeepsGrowing DEF PolarfireInv, Numbered
<1>4. Spec => []PolarfireInv
  BY <1>1, PolarfireInvariant
<1>5. QED
  BY <1>2, <1>3, <1>4, PTL DEF Spec

(* What is left between the runs, of target, files and external triggers,  *)
(* has been left by a start or a stop that threw, and a reset does not take *)
(* it away if exiting_run_ is true.                                        *)
THEOREM OnlyThrowsLeave == TimesAllow => (Spec => []LeftByThrows)
<1>1. PolarfireInv => LeftByThrows
  BY DEF PolarfireInv, LeftoversAreUndone
<1>2. QED
  BY PolarfireInvariant, <1>1, PTL

=============================================================================
