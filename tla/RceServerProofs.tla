-------------------------- MODULE RceServerProofs --------------------------
(***************************************************************************)
(* The invariant of the server in python, for any messages and any number  *)
(* of frames.                                                              *)
(***************************************************************************)
EXTENDS RceServer, TLAPS

(* The slave takes up a message; the main loop may be anywhere.            *)
LEMMA SlaveKeepsInv ==
  ASSUME RceInv, Slave
  PROVE  RceInv'
<1> USE DEF RceInv
<1>1. ASSUME NEW msg \in Messages, Taken(msg), state' \in {"idle", "configured", "run", "stop"},
             checked' \in BOOLEAN, late' \in Nat
      PROVE  RceTypeOK'
  BY <1>1 DEF RceTypeOK, Taken, Messages
<1>2. CASE CheckConfigure
  <2>1. RceTypeOK'
    BY <1>1, <1>2 DEF CheckConfigure, CanConfigure, RceTypeOK, Messages
  <2>2. CountsAreOfRun' /\ OneFrameAfterStop' /\ LoopHasSeen'
    BY <1>2 DEF CheckConfigure, CanConfigure, Taken, CountsAreOfRun,
                OneFrameAfterStop, LoopHasSeen
  <2> QED  BY <2>1, <2>2
<1>3. CASE SetConfigured
  BY <1>3 DEF SetConfigured, RceTypeOK, CountsAreOfRun, OneFrameAfterStop, LoopHasSeen
<1>4. CASE SetRun
  <2>1. RceTypeOK'
    BY <1>1, <1>4 DEF SetRun, RceTypeOK, Messages
  <2>2. CountsAreOfRun' /\ OneFrameAfterStop' /\ LoopHasSeen'
    BY <1>4 DEF SetRun, Taken, RceTypeOK, CountsAreOfRun, OneFrameAfterStop, LoopHasSeen
  <2> QED  BY <2>1, <2>2
<1>5. CASE SetStop
  <2>1. RceTypeOK'
    BY <1>1, <1>5 DEF SetStop, RceTypeOK, Messages
  <2>2. CountsAreOfRun' /\ OneFrameAfterStop' /\ LoopHasSeen'
    BY <1>5 DEF SetStop, Taken, RceTypeOK, CountsAreOfRun, OneFrameAfterStop, LoopHasSeen
  <2> QED  BY <2>1, <2>2
<1>6. CASE Ignore
  <2>1. RceTypeOK'
    BY <1>1, <1>6 DEF Ignore, RceTypeOK, Messages
  <2>2. CountsAreOfRun' /\ OneFrameAfterStop' /\ LoopHasSeen'
    BY <1>6 DEF Ignore, Taken, CountsAreOfRun, OneFrameAfterStop, LoopHasSeen
  <2> QED  BY <2>1, <2>2
<1> QED  BY <1>2, <1>3, <1>4, <1>5, <1>6 DEF Slave

(* A step of the main loop.                                                *)
LEMMA LoopKeepsInv ==
  ASSUME RceInv, RceLoop
  PROVE  RceInv'
<1> USE DEF RceInv, LoopOnly
<1>1. CASE ReadRun
  BY <1>1 DEF ReadRun, IsRunning, RceTypeOK, CountsAreOfRun, OneFrameAfterStop, LoopHasSeen
<1>2. CASE genFrame
  <2>1. RceTypeOK' /\ CountsAreOfRun'
    BY <1>2 DEF genFrame, RceTypeOK, CountsAreOfRun, LoopHasSeen
  <2>2. OneFrameAfterStop' /\ LoopHasSeen'
    BY <1>2 DEF genFrame, RceTypeOK, OneFrameAfterStop, LoopHasSeen
  <2> QED  BY <2>1, <2>2
<1>3. CASE ReadStop
  BY <1>3 DEF ReadStop, RceTypeOK, CountsAreOfRun, OneFrameAfterStop, LoopHasSeen
<1>4. CASE ResetCount
  BY <1>4 DEF ResetCount, CountReset, RceTypeOK, CountsAreOfRun, OneFrameAfterStop,
              LoopHasSeen
<1>5. CASE SetIdle
  BY <1>5 DEF SetIdle, RceTypeOK, CountsAreOfRun, OneFrameAfterStop, LoopHasSeen
<1> QED  BY <1>1, <1>2, <1>3, <1>4, <1>5 DEF RceLoop

(* Whatever the slave does between two steps of the main loop, the count   *)
(* of prbs_src is that of no earlier run when the server has been stopped  *)
(* or configured, and a stop is followed by one frame at most.             *)
THEOREM RceInvariant == RceSpec => []RceInv
<1>1. ASSUME RceInit PROVE RceInv
  <2>1. inbox \in Seq(Messages)
    BY <1>1 DEF RceInit
  <2>2. /\ sending = 0 /\ state = "idle" /\ checked = FALSE /\ loop = "run?"
        /\ txCount = 0 /\ accepted = 0 /\ shown = 0 /\ late = 0
    BY <1>1 DEF RceInit
  <2>3. RceTypeOK
    BY <2>1, <2>2 DEF RceTypeOK
  <2>4. CountsAreOfRun /\ OneFrameAfterStop /\ LoopHasSeen
    BY <2>2 DEF CountsAreOfRun, OneFrameAfterStop, LoopHasSeen
  <2> QED
    BY <2>3, <2>4 DEF RceInv
<1>2. RceInv /\ [RceNext]_rceVars => RceInv'
  <2> SUFFICES ASSUME RceInv, [RceNext]_rceVars PROVE RceInv'
    OBVIOUS
  <2>1. CASE SendMessage
    BY <2>1 DEF SendMessage, RceInv, RceTypeOK, CountsAreOfRun, OneFrameAfterStop,
                LoopHasSeen, Messages
  <2>2. CASE Slave
    BY <2>2, SlaveKeepsInv
  <2>3. CASE RceLoop
    BY <2>3, LoopKeepsInv
  <2>4. CASE UNCHANGED rceVars
    BY <2>4 DEF rceVars, RceInv, RceTypeOK, CountsAreOfRun, OneFrameAfterStop,
                LoopHasSeen
  <2> QED  BY <2>1, <2>2, <2>3, <2>4 DEF RceNext
<1> QED  BY <1>1, <1>2, PTL DEF RceSpec

=============================================================================
