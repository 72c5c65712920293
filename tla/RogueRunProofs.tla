--------------------------- MODULE RogueRunProofs ---------------------------
(***************************************************************************)
(* First the server alone: it obeys commands in order and at most once,    *)
(* whatever frames the clients send and however the two threads            *)
(* interleave.  Then the whole of a data-taking session: the server's      *)
(* invariant survives the producer, no file receives data of a later run   *)
(* than its own, and what a run receives is in the order in which it was   *)
(* sent, for any number of clients, runs, calls and frames.                *)
(***************************************************************************)
EXTENDS RogueRun, SequenceTheorems, TLAPS

LEMMA Orders ==
  /\ DOMAIN ResetOrder = 1 .. 6 /\ Len(ResetOrder) = 6
  /\ DOMAIN PollOrder = 1 .. 5 /\ Len(PollOrder) = 5
  /\ \A k \in 1 .. 5 : PollOrder[k] = ResetOrder[k]
  /\ \A k, l \in 1 .. 6 : ResetOrder[k] = ResetOrder[l] => k = l
  /\ \A flag \in Flags : \E k \in 1 .. 6 : flag = ResetOrder[k]
  /\ \A k \in 1 .. 6 : ResetOrder[k] \in Flags
  BY DEF ResetOrder, PollOrder, Flags

LEMMA FlagOfIsFlag == \A kind : FlagOf(kind) \subseteq Flags
<1>1. CommandBytes \subseteq Flags /\ "command" \in Flags
  BY DEF CommandBytes, Flags, ResetOrder
<1>2. QED
  BY <1>1 DEF FlagOf

LEMMA ServerInitInv == LinkInit /\ ServerInit => ServerInv
<1> SUFFICES ASSUME LinkInit, ServerInit PROVE ServerInv
  OBVIOUS
<1>1. LinkTypeOK
  BY DEF LinkInit, LinkTypeOK
<1>2. ServerTypeOK
  <2>1. 0 \in Runs /\ 0 \in 0 .. MaxFrames /\ << >> \in Seq(Nat)
    BY LinkAssumption, ServerAssumption DEF Runs
  <2>2. rx \in [frame : CommandFrame \union {NoFrame}, k : 1 .. 7]
    BY DEF ServerInit
  <2>3. main \in [at : {"poll", "reset", "generate"}, k : 1 .. 6]
    BY DEF ServerInit
  <2>4. latest \in [number : Nat, frame : CommandFrame \union {NoFrame}]
    BY DEF ServerInit
  <2>5. flags \in SUBSET Flags /\ running \in BOOLEAN
    BY DEF ServerInit
  <2>6. /\ count \in Nat /\ generated \in 0 .. MaxFrames /\ run \in Runs
        /\ obeyed \in Seq(Nat)
    BY <2>1 DEF ServerInit
  <2>7. QED
    BY <2>2, <2>3, <2>4, <2>5, <2>6 DEF ServerTypeOK
<1>3. FlagIsLatest /\ ClearedStaysCleared
  BY DEF ServerInit, FlagIsLatest, ClearedStaysCleared
<1>4. ObeyedIsReset /\ ObeyedInOrder
  <2>1. DOMAIN obeyed = {}
    BY DEF ServerInit
  <2>2. QED
    BY <2>1 DEF ObeyedIsReset, ObeyedInOrder
<1>5. QED
  BY <1>1, <1>2, <1>3, <1>4 DEF ServerInv

-----------------------------------------------------------------------------
LEMMA AcceptFrameInv ==
  ASSUME ServerInv, NEW c \in Clients, AcceptFrame(c)
  PROVE  ServerInv'
<1>1. Head(commands[c]) \in CommandFrame /\ Tail(commands[c]) \in Seq(CommandFrame)
  <2>1. commands[c] \in Seq(CommandFrame) /\ commands[c] # << >>
    BY DEF ServerInv, LinkTypeOK, AcceptFrame
  <2>2. QED
    BY <2>1, HeadTailProperties
<1>2. LinkTypeOK'
  BY <1>1 DEF ServerInv, LinkTypeOK, AcceptFrame
<1>3. rx' \in [frame : CommandFrame \union {NoFrame}, k : 1 .. 7]
  BY <1>1 DEF ServerInv, ServerTypeOK, AcceptFrame
<1>4. ServerTypeOK'
  BY <1>3 DEF ServerInv, ServerTypeOK, AcceptFrame
<1>5. ClearedStaysCleared'
  BY DEF ServerInv, ClearedStaysCleared, AcceptFrame
<1>6. FlagIsLatest' /\ ObeyedIsReset' /\ ObeyedInOrder'
  BY DEF ServerInv, FlagIsLatest, ObeyedIsReset, ObeyedInOrder, AcceptFrame
<1>7. QED
  BY <1>2, <1>4, <1>5, <1>6 DEF ServerInv

LEMMA ReceiverResetsInv ==
  ASSUME ServerInv, ReceiverResets
  PROVE  ServerInv'
<1>1. rx.k \in 1 .. 6 /\ rx.frame \in CommandFrame \union {NoFrame}
  BY Orders DEF ServerInv, ServerTypeOK, ReceiverResets
<1>2. rx' = [rx EXCEPT !.k = rx.k + 1] /\ flags' = flags \ {ResetOrder[rx.k]}
  BY DEF ReceiverResets, Cleared
<1>3. rx'.frame = rx.frame /\ rx'.k = rx.k + 1
  BY <1>1, <1>2 DEF ServerInv, ServerTypeOK
<1>4. rx' \in [frame : CommandFrame \union {NoFrame}, k : 1 .. 7]
  <2>1. rx \in [frame : CommandFrame \union {NoFrame}, k : 1 .. 7]
    BY DEF ServerInv, ServerTypeOK
  <2>2. rx.k + 1 \in 1 .. 7
    BY <1>1
  <2>3. rx' = [rx EXCEPT !.k = rx.k + 1]
    BY <1>2
  <2>4. QED
    BY <2>1, <2>2, <2>3
<1>5. LinkTypeOK' /\ ServerTypeOK'
  BY <1>2, <1>4 DEF ServerInv, LinkTypeOK, ServerTypeOK, ReceiverResets, link
<1>6. ClearedStaysCleared'
  <2>1. ASSUME NEW k \in 1 .. (rx'.k - 1), rx.frame # NoFrame
        PROVE  ResetOrder[k] \notin flags'
    <3>1. k = rx.k \/ k \in 1 .. (rx.k - 1)
      BY <1>1, <1>3
    <3>2. QED
      BY <1>2, <2>1, <3>1 DEF ServerInv, ClearedStaysCleared
  <2>2. QED
    BY <1>3, <2>1 DEF ClearedStaysCleared
<1>7. FlagIsLatest' /\ ObeyedIsReset' /\ ObeyedInOrder'
  BY <1>2 DEF ServerInv, FlagIsLatest, ObeyedIsReset, ObeyedInOrder, ReceiverResets
<1>8. QED
  BY <1>5, <1>6, <1>7 DEF ServerInv

LEMMA ReceiverSetsInv ==
  ASSUME ServerInv, ReceiverSets
  PROVE  ServerInv'
<1>1. rx.k = 7 /\ rx.frame \in CommandFrame
  BY Orders DEF ServerInv, ServerTypeOK, ReceiverSets
<1>2. flags = {}
  <2>1. \A k \in 1 .. 6 : ResetOrder[k] \notin flags
    BY <1>1 DEF ServerInv, ClearedStaysCleared, ReceiverSets
  <2>2. QED
    BY <2>1, Orders DEF ServerInv, ServerTypeOK
<1>3. flags' = FlagOf(rx.frame.kind)
  BY <1>2 DEF ReceiverSets
<1>4. latest.number \in Nat
  BY DEF ServerInv, ServerTypeOK
<1>5. latest'.number = latest.number + 1 /\ latest'.frame = rx.frame
  BY DEF ReceiverSets
<1>6. ServerTypeOK'
  <2>1. latest' \in [number : Nat, frame : CommandFrame \union {NoFrame}]
    BY <1>1, <1>4 DEF ReceiverSets
  <2>2. rx' \in [frame : CommandFrame \union {NoFrame}, k : 1 .. 7]
    BY DEF ReceiverSets
  <2>3. flags' \in SUBSET Flags
    BY <1>3, FlagOfIsFlag
  <2>4. QED
    BY <2>1, <2>2, <2>3 DEF ServerInv, ServerTypeOK, ReceiverSets
<1>7. LinkTypeOK' /\ FlagIsLatest' /\ ClearedStaysCleared' /\ ObeyedInOrder'
  BY <1>3, <1>5 DEF ServerInv, LinkTypeOK, FlagIsLatest, ClearedStaysCleared,
                    ObeyedInOrder, ReceiverSets, link
<1>8. ObeyedIsReset'
  <2>1. ASSUME NEW i \in DOMAIN obeyed PROVE obeyed[i] < latest'.number
    <3>1. obeyed[i] \in Nat /\ obeyed[i] <= latest.number
      BY DEF ServerInv, ServerTypeOK, ObeyedIsReset
    <3>2. QED
      BY <1>4, <1>5, <3>1
  <2>2. ASSUME NEW i \in DOMAIN obeyed
        PROVE  obeyed[i] <= latest'.number /\ obeyed[i] # latest'.number
    <3>1. obeyed[i] \in Nat /\ latest'.number \in Nat
      BY <1>4, <1>5 DEF ServerInv, ServerTypeOK
    <3>2. QED
      BY <2>1, <3>1
  <2>3. obeyed' = obeyed
    BY DEF ReceiverSets
  <2>4. QED
    BY <2>2, <2>3 DEF ObeyedIsReset
<1>9. QED
  BY <1>6, <1>7, <1>8 DEF ServerInv

-----------------------------------------------------------------------------
LEMMA PollInv ==
  ASSUME ServerInv, Poll
  PROVE  ServerInv'
<1>1. LinkTypeOK' /\ FlagIsLatest' /\ ClearedStaysCleared'
  BY DEF ServerInv, LinkTypeOK, FlagIsLatest, ClearedStaysCleared, Poll, link
<1>2. CASE PollOrder[main.k] \in flags
  <2>1. PICK k \in 1 .. 6 : PollOrder[main.k] = ResetOrder[k]
    BY <1>2, Orders DEF ServerInv, ServerTypeOK
  <2>2. Obey(PollOrder[main.k])
    BY <1>2 DEF Poll
  <2>3. obeyed' = Append(obeyed, latest.number) /\ main' = [at |-> "reset", k |-> 1]
    BY <2>2 DEF Obey
  <2>4. obeyed \in Seq(Nat) /\ latest.number \in Nat
    BY DEF ServerInv, ServerTypeOK
  <2>5. /\ obeyed' \in Seq(Nat) /\ Len(obeyed') = Len(obeyed) + 1
        /\ \A i \in 1 .. Len(obeyed) : obeyed'[i] = obeyed[i]
        /\ obeyed'[Len(obeyed) + 1] = latest.number
    BY <2>3, <2>4, AppendProperties
  <2>6. Len(obeyed) \in Nat /\ DOMAIN obeyed = 1 .. Len(obeyed)
        /\ DOMAIN obeyed' = 1 .. (Len(obeyed) + 1)
    BY <2>4, <2>5, LenProperties
  <2>7. ASSUME NEW i \in DOMAIN obeyed PROVE obeyed[i] < latest.number
    <3>1. obeyed[i] \in Nat /\ obeyed[i] <= latest.number
      BY <2>4 DEF ServerInv, ObeyedIsReset
    <3>2. obeyed[i] # latest.number
      BY <1>2, <2>1, Orders DEF ServerInv, ObeyedIsReset, Poll
    <3>3. QED
      BY <2>4, <3>1, <3>2
  <2>8. latest' = latest
    BY DEF Poll
  <2>9. ObeyedInOrder'
    <3>1. ASSUME NEW i \in DOMAIN obeyed', NEW j \in DOMAIN obeyed', i < j
          PROVE  obeyed'[i] < obeyed'[j]
      <4>1. i \in DOMAIN obeyed /\ obeyed'[i] = obeyed[i]
        BY <2>5, <2>6, <3>1
      <4>2. CASE j = Len(obeyed) + 1
        BY <2>5, <2>7, <4>1, <4>2
      <4>3. CASE j \in DOMAIN obeyed
        BY <2>5, <2>6, <3>1, <4>1, <4>3 DEF ServerInv, ObeyedInOrder
      <4>4. QED
        BY <2>6, <4>2, <4>3
    <3>2. QED
      BY <3>1 DEF ObeyedInOrder
  <2>10. ObeyedIsReset'
    <3>1. ASSUME NEW i \in DOMAIN obeyed' PROVE obeyed'[i] <= latest.number
      <4>1. CASE i = Len(obeyed) + 1
        BY <2>4, <2>5, <4>1
      <4>2. CASE i \in DOMAIN obeyed
        BY <2>5, <2>6, <4>2 DEF ServerInv, ObeyedIsReset
      <4>3. QED
        BY <2>6, <4>1, <4>2
    <3>2. main'.at = "reset" /\ main'.k = 1
      BY <2>3
    <3>3. \A k_1 \in DOMAIN ResetOrder : 1 <= k_1
      BY Orders
    <3>4. QED
      BY <2>8, <3>1, <3>2, <3>3 DEF ObeyedIsReset
  <2>11. ServerTypeOK'
    <3>1. main' \in [at : {"poll", "reset", "generate"}, k : 1 .. 6]
      BY <2>3
    <3>2. running' \in BOOLEAN /\ count' \in Nat
      BY <2>2 DEF Obey, CountAfter, ServerInv, ServerTypeOK
    <3>3. run' \in Runs
      <4>1. latest.frame.run \in Runs
        <5>1. 0 \in Runs
          BY LinkAssumption DEF Runs
        <5>2. latest.frame \in CommandFrame \union {NoFrame}
          BY DEF ServerInv, ServerTypeOK
        <5>3. QED
          BY <5>1, <5>2 DEF CommandFrame, NoFrame
      <4>2. QED
        BY <2>2, <4>1 DEF Obey, ServerInv, ServerTypeOK
    <3>4. QED
      BY <2>5, <3>1, <3>2, <3>3 DEF Poll, ServerInv, ServerTypeOK
  <2>12. QED
    BY <1>1, <2>9, <2>10, <2>11 DEF ServerInv
<1>3. CASE PollOrder[main.k] \notin flags
  <2>1. /\ main' = IF main.k < Len(PollOrder) THEN [main EXCEPT !.k = @ + 1]
                                              ELSE [at |-> "reset", k |-> 1]
        /\ UNCHANGED <<running, count, run, obeyed>>
    BY <1>3 DEF Poll
  <2>2. main \in [at : {"poll", "reset", "generate"}, k : 1 .. 6]
    BY DEF ServerInv, ServerTypeOK
  <2>3. main' \in [at : {"poll", "reset", "generate"}, k : 1 .. 6]
    BY <2>1, <2>2, Orders
  <2>4. ServerTypeOK'
    BY <2>1, <2>3 DEF ServerInv, ServerTypeOK, Poll
  <2>5. ObeyedIsReset' /\ ObeyedInOrder'
    BY <2>1 DEF ServerInv, ObeyedIsReset, ObeyedInOrder, Poll
  <2>6. QED
    BY <1>1, <2>4, <2>5 DEF ServerInv
<1>4. QED
  BY <1>2, <1>3

LEMMA MainResetsInv ==
  ASSUME ServerInv, MainResets
  PROVE  ServerInv'
<1>1. main \in [at : {"poll", "reset", "generate"}, k : 1 .. 6]
  BY DEF ServerInv, ServerTypeOK
<1>2. /\ main.k \in 1 .. 6 /\ flags' = flags \ {ResetOrder[main.k]}
      /\ main' = IF main.k < 6 THEN [main EXCEPT !.k = main.k + 1]
                               ELSE [at |-> "generate", k |-> 1]
  BY <1>1, Orders DEF MainResets, Cleared
<1>3. main' \in [at : {"poll", "reset", "generate"}, k : 1 .. 6]
  BY <1>1, <1>2
<1>4. LinkTypeOK' /\ ServerTypeOK'
  BY <1>2, <1>3 DEF ServerInv, LinkTypeOK, ServerTypeOK, MainResets, link
<1>5. FlagIsLatest' /\ ClearedStaysCleared' /\ ObeyedInOrder'
  BY <1>2 DEF ServerInv, FlagIsLatest, ClearedStaysCleared, ObeyedInOrder, MainResets
<1>6. ObeyedIsReset'
  <2>1. ASSUME NEW i \in DOMAIN obeyed, NEW k \in 1 .. 6,
               obeyed[i] = latest.number, ResetOrder[k] \in flags'
        PROVE  main'.at = "reset" /\ main'.k <= k
    <3>1. ResetOrder[k] \in flags /\ k # main.k
      BY <1>2, <2>1
    <3>2. main.k <= k
      BY <2>1, <3>1, Orders DEF ServerInv, ObeyedIsReset
    <3>3. main.k < k /\ main.k < 6
      BY <1>2, <3>1, <3>2
    <3>4. main' = [main EXCEPT !.k = main.k + 1]
      BY <1>2, <3>3
    <3>5. main'.at = main.at /\ main'.k = main.k + 1
      BY <1>1, <3>4
    <3>6. QED
      BY <1>2, <3>3, <3>5 DEF MainResets
  <2>2. obeyed' = obeyed /\ latest' = latest
    BY DEF MainResets
  <2>3. QED
    BY <2>1, <2>2, Orders DEF ServerInv, ObeyedIsReset
<1>7. QED
  BY <1>4, <1>5, <1>6 DEF ServerInv

LEMMA GenerateInv ==
  ASSUME ServerInv, NEW connected \in SUBSET Clients, Generate(connected)
  PROVE  ServerInv'
<1>1. main' = [at |-> "poll", k |-> 1] /\ main.at = "generate"
  BY DEF Generate
<1>2. LinkTypeOK' /\ count' \in Nat /\ generated' \in 0 .. MaxFrames
  <2>1. CASE UNCHANGED <<frames, count, generated>>
    BY <2>1 DEF Generate, ServerInv, LinkTypeOK, ServerTypeOK
  <2>2. CASE ~ UNCHANGED <<frames, count, generated>>
    <3>1. PICK c \in connected :
            frames' = [frames EXCEPT ![c] =
                         Append(frames[c], [run |-> run, count |-> count])]
      BY <2>2 DEF Generate
    <3>2. /\ commands' = commands /\ count' = count + 1
          /\ generated' = generated + 1 /\ generated < MaxFrames
      BY <2>2 DEF Generate
    <3>3. count \in Nat /\ generated \in 0 .. MaxFrames /\ run \in Runs
      BY DEF ServerInv, ServerTypeOK
    <3>4. [run |-> run, count |-> count] \in DataFrame
      BY <3>3 DEF DataFrame
    <3>5. frames[c] \in Seq(DataFrame) /\ frames \in [Clients -> Seq(DataFrame)]
      BY DEF ServerInv, LinkTypeOK
    <3>6. Append(frames[c], [run |-> run, count |-> count]) \in Seq(DataFrame)
      BY <3>4, <3>5, AppendProperties
    <3>7. frames' \in [Clients -> Seq(DataFrame)]
      BY <3>1, <3>5, <3>6
    <3>8. LinkTypeOK'
      BY <3>2, <3>7 DEF ServerInv, LinkTypeOK
    <3>9. generated' \in 0 .. MaxFrames
      BY <3>2, <3>3, ServerAssumption
    <3>10. QED
      BY <3>2, <3>3, <3>8, <3>9
  <2>3. QED
    BY <2>1, <2>2
<1>3. ServerTypeOK'
  BY <1>1, <1>2 DEF ServerInv, ServerTypeOK, Generate
<1>4. FlagIsLatest' /\ ClearedStaysCleared' /\ ObeyedInOrder'
  BY DEF ServerInv, FlagIsLatest, ClearedStaysCleared, ObeyedInOrder, Generate
<1>5. ObeyedIsReset'
  BY <1>1 DEF ServerInv, ObeyedIsReset, Generate
<1>6. QED
  BY <1>2, <1>3, <1>4, <1>5 DEF ServerInv

-----------------------------------------------------------------------------
(* What the clients do disturbs nothing but the types of the link.         *)
LEMMA LinkStepInv ==
  ASSUME ServerInv, LinkTypeOK', UNCHANGED server
  PROVE  ServerInv'
  BY DEF ServerInv, ServerTypeOK, FlagIsLatest, ClearedStaysCleared,
         ObeyedIsReset, ObeyedInOrder, server

LEMMA SendCommandTypes ==
  ASSUME LinkTypeOK, NEW C, NEW frame \in CommandFrame, SendCommand(C, frame)
  PROVE  LinkTypeOK'
<1>1. ASSUME NEW c \in Clients
      PROVE  (IF c \in C THEN Append(commands[c], frame) ELSE commands[c])
               \in Seq(CommandFrame)
  <2>1. commands[c] \in Seq(CommandFrame)
    BY DEF LinkTypeOK
  <2>2. QED
    BY <2>1, AppendProperties
<1>2. commands' \in [Clients -> Seq(CommandFrame)]
  BY <1>1 DEF SendCommand
<1>3. QED
  BY <1>2 DEF LinkTypeOK, SendCommand

LEMMA TakeFrameTypes ==
  ASSUME LinkTypeOK, NEW c \in Clients, TakeFrame(c)
  PROVE  LinkTypeOK'
<1>1. frames[c] \in Seq(DataFrame) /\ frames[c] # << >>
  BY DEF LinkTypeOK, TakeFrame
<1>2. Tail(frames[c]) \in Seq(DataFrame)
  BY <1>1, HeadTailProperties
<1>3. QED
  BY <1>2 DEF LinkTypeOK, TakeFrame

LEMMA ServerStepInv ==
  ASSUME ServerInv,
         Receiver \/ \E connected \in SUBSET Clients : MainLoop(connected)
  PROVE  ServerInv'
<1>1. ASSUME NEW c \in Clients, AcceptFrame(c) PROVE ServerInv'
  BY <1>1, AcceptFrameInv
<1>2. ASSUME NEW connected \in SUBSET Clients, Generate(connected)
      PROVE  ServerInv'
  BY <1>2, GenerateInv
<1>3. QED
  BY <1>1, <1>2, ReceiverResetsInv, ReceiverSetsInv, PollInv, MainResetsInv
  DEF Receiver, MainLoop

(* At most one flag is up, that of the latest frame, and the main loop     *)
(* acts on the frames in order and on none twice.                          *)
THEOREM ServerInvariant == ServerSpec => []ServerInv
<1>1. ServerInv /\ [ServerNext]_<<link, server>> => ServerInv'
  <2> SUFFICES ASSUME ServerInv, [ServerNext]_<<link, server>>
               PROVE  ServerInv'
    OBVIOUS
  <2>1. CASE Receiver \/ \E connected \in SUBSET Clients : MainLoop(connected)
    BY <2>1, ServerStepInv
  <2>2. CASE ClientSteps
    <3>1. LinkTypeOK'
      BY <2>2, SendCommandTypes, TakeFrameTypes DEF ClientSteps, ServerInv
    <3>2. QED
      BY <2>2, <3>1, LinkStepInv DEF ClientSteps
  <2>3. CASE UNCHANGED <<link, server>>
    <3>1. LinkTypeOK'
      BY <2>3 DEF ServerInv, LinkTypeOK, link
    <3>2. QED
      BY <2>3, <3>1, LinkStepInv
  <2>4. QED
    BY <2>1, <2>2, <2>3 DEF ServerNext
<1>2. QED
  BY <1>1, ServerInitInv, PTL DEF ServerSpec

(* The same of the order in which commands are obeyed.                     *)
THEOREM ServerObeysInOrder == ServerSpec => []ObeyedInOrder
<1>1. ServerInv => ObeyedInOrder
  BY DEF ServerInv
<1>2. QED
  BY <1>1, ServerInvariant, PTL

(* And of the flags.                                                       *)
THEOREM ServerFlagIsLatest == ServerSpec => []FlagIsLatest
<1>1. ServerInv => FlagIsLatest
  BY DEF ServerInv
<1>2. QED
  BY <1>1, ServerInvariant, PTL

-----------------------------------------------------------------------------
Strong == ServerInv /\ SessionInv

LEMMA TailUpTo ==
  ASSUME NEW S, NEW s \in Seq(S), s # << >>, NEW r, UpTo(s, r)
  PROVE  UpTo(Tail(s), r) /\ Head(s).run <= r
<1>1. Len(s) \in Nat /\ Len(s) >= 1 /\ DOMAIN s = 1 .. Len(s)
  BY EmptySeq, LenProperties
<1>2. /\ Tail(s) \in Seq(S) /\ Len(Tail(s)) = Len(s) - 1
      /\ DOMAIN Tail(s) = 1 .. (Len(s) - 1)
  BY HeadTailProperties, LenProperties
<1>3. \A i \in 1 .. (Len(s) - 1) : Tail(s)[i] = s[i + 1]
  BY HeadTailProperties, <1>1, <1>2
<1>4. \A i \in 1 .. (Len(s) - 1) : i + 1 \in DOMAIN s
  BY <1>1
<1>5. UpTo(Tail(s), r)
  BY <1>2, <1>3, <1>4 DEF UpTo
<1>6. Head(s) = s[1] /\ 1 \in DOMAIN s
  BY <1>1
<1>7. QED
  BY <1>5, <1>6 DEF UpTo

LEMMA AppendUpTo ==
  ASSUME NEW S, NEW s \in Seq(S), NEW x \in S, NEW r, UpTo(s, r), x.run <= r
  PROVE  UpTo(Append(s, x), r)
<1>1. /\ Len(s) \in Nat /\ DOMAIN s = 1 .. Len(s)
      /\ DOMAIN Append(s, x) = 1 .. (Len(s) + 1)
      /\ \A i \in 1 .. Len(s) : Append(s, x)[i] = s[i]
      /\ Append(s, x)[Len(s) + 1] = x
  BY AppendProperties, LenProperties
<1>2. ASSUME NEW i \in 1 .. (Len(s) + 1) PROVE Append(s, x)[i].run <= r
  <2>1. i = Len(s) + 1 \/ i \in 1 .. Len(s)
    BY <1>1
  <2>2. QED
    BY <1>1, <2>1 DEF UpTo
<1>3. QED
  BY <1>1, <1>2 DEF UpTo

LEMMA UpToLater ==
  ASSUME NEW S, NEW s \in Seq(S), \A x \in S : x.run \in Nat,
         NEW r \in Nat, NEW q \in Nat, r <= q, UpTo(s, r)
  PROVE  UpTo(s, q)
<1>1. ASSUME NEW i \in DOMAIN s PROVE s[i].run <= q
  <2>1. s[i] \in S
    BY ElementOfSeq, LenProperties
  <2>2. QED
    BY <2>1 DEF UpTo
<1>2. QED
  BY <1>1 DEF UpTo

LEMMA RunsAreNaturals ==
  /\ Runs \subseteq Nat
  /\ \A x \in CommandFrame \union {NoFrame} : x.run \in Nat
  /\ \A x \in DataFrame : x.run \in Nat
  BY LinkAssumption DEF Runs, CommandFrame, NoFrame, DataFrame

LEMMA InitStrong == Init => Strong
<1> SUFFICES ASSUME Init PROVE Strong
  OBVIOUS
<1>1. ServerInv
  BY ServerInitInv DEF Init
<1>2. ProducerTypeOK
  <2>1. 0 \in Runs /\ 0 \in 0 .. MaxCalls /\ 0 \in 0 .. MaxClients
    BY LinkAssumption, CallsAssumption DEF Runs
  <2>2. << >> \in Seq(DataFrame)
    BY EmptySeq
  <2>3. files \in [Runs -> Seq(DataFrame)] /\ sent \in Seq(DataFrame)
    BY <2>2 DEF Init, ProducerInit
  <2>4. delivering \in [Clients -> [frame : DataFrame, to : SUBSET {"writer", "sender"}]]
    BY <2>1 DEF Init, ProducerInit, Idle, DataFrame
  <2>5. QED
    BY <2>1, <2>3, <2>4 DEF Init, ProducerInit, ProducerTypeOK, NoFile
<1>3. NothingOfLaterRuns
  BY DEF Init, LinkInit, ServerInit, ProducerInit, NothingOfLaterRuns, UpTo,
         NoFrame, Idle
<1>4. FileIsCurrent
  BY DEF Init, ProducerInit, FileIsCurrent, NoFile
<1>5. NoLaterRunInFile
  BY DEF Init, ProducerInit, NoLaterRunInFile, UpTo
<1>6. QED
  BY <1>1, <1>2, <1>3, <1>4, <1>5 DEF Strong, SessionInv, TypeOK, ServerInv

-----------------------------------------------------------------------------
(* Steps of the server move runs along, and change none of the producer's  *)
(* variables.                                                              *)
LEMMA ServerMovesRuns ==
  ASSUME Strong, UNCHANGED producer,
         Receiver \/ \E connected \in SUBSET Clients : MainLoop(connected)
  PROVE  NothingOfLaterRuns'
<1>1. run_number' = run_number /\ delivering' = delivering
  BY DEF producer
<1>2. LinkTypeOK /\ ServerTypeOK /\ NothingOfLaterRuns
  BY DEF Strong, ServerInv, SessionInv
<1>3. ASSUME NEW c \in Clients, AcceptFrame(c) PROVE NothingOfLaterRuns'
  <2>1. commands[c] \in Seq(CommandFrame) /\ commands[c] # << >>
    BY <1>2, <1>3 DEF LinkTypeOK, AcceptFrame
  <2>2. UpTo(Tail(commands[c]), run_number) /\ Head(commands[c]).run <= run_number
    BY <1>2, <2>1, TailUpTo DEF NothingOfLaterRuns
  <2>3. rx'.frame.run <= run_number
    BY <1>2, <1>3, <2>2 DEF AcceptFrame, NothingOfLaterRuns
  <2>4. \A d \in Clients : UpTo(commands'[d], run_number)
    BY <1>2, <1>3, <2>2 DEF AcceptFrame, NothingOfLaterRuns, LinkTypeOK
  <2>5. QED
    BY <1>1, <1>2, <1>3, <2>3, <2>4 DEF AcceptFrame, NothingOfLaterRuns
<1>4. CASE ReceiverResets
  <2>1. rx'.frame = rx.frame
    BY <1>2, <1>4 DEF ReceiverResets, ServerTypeOK
  <2>2. QED
    BY <1>1, <1>2, <1>4, <2>1 DEF ReceiverResets, NothingOfLaterRuns, link
<1>5. CASE ReceiverSets
  <2>1. rx'.frame = NoFrame /\ latest'.frame = rx.frame /\ NoFrame.run = 0
    BY <1>5 DEF ReceiverSets, NoFrame
  <2>2. 0 <= run_number
    BY RunsAreNaturals DEF Strong, SessionInv, TypeOK, ProducerTypeOK
  <2>3. QED
    BY <1>1, <1>2, <1>5, <2>1, <2>2 DEF ReceiverSets, NothingOfLaterRuns, link
<1>6. CASE Poll
  BY <1>1, <1>2, <1>6 DEF Poll, Obey, NothingOfLaterRuns, link
<1>7. CASE MainResets
  BY <1>1, <1>2, <1>7 DEF MainResets, NothingOfLaterRuns, link
<1>8. ASSUME NEW connected \in SUBSET Clients, Generate(connected)
      PROVE  NothingOfLaterRuns'
  <2>1. UNCHANGED <<commands, rx, run, latest>>
    BY <1>8 DEF Generate
  <2>2. \A d \in Clients : UpTo(frames'[d], run_number)
    <3>1. CASE frames' = frames
      BY <1>2, <3>1 DEF NothingOfLaterRuns
    <3>2. CASE frames' # frames
      <4>1. PICK c \in connected :
              frames' = [frames EXCEPT ![c] =
                           Append(frames[c], [run |-> run, count |-> count])]
        BY <1>8, <3>2 DEF Generate
      <4>2. [run |-> run, count |-> count] \in DataFrame
        BY <1>2 DEF ServerTypeOK, DataFrame
      <4>3. UpTo(Append(frames[c], [run |-> run, count |-> count]), run_number)
        BY <1>2, <4>2, AppendUpTo DEF LinkTypeOK, NothingOfLaterRuns
      <4>4. QED
        BY <1>2, <4>1, <4>3 DEF LinkTypeOK, NothingOfLaterRuns
    <3>3. QED
      BY <3>1, <3>2
  <2>3. QED
    BY <1>1, <1>2, <2>1, <2>2 DEF NothingOfLaterRuns
<1>9. QED
  BY <1>3, <1>4, <1>5, <1>6, <1>7, <1>8 DEF Receiver, MainLoop

LEMMA ServerKeepsStrong ==
  ASSUME Strong, UNCHANGED producer, Receiver \/ MainLoop(Attached)
  PROVE  Strong'
<1>1. Receiver \/ \E connected \in SUBSET Clients : MainLoop(connected)
  <2>1. Attached \in SUBSET Clients
    BY LinkAssumption
    DEF Strong, SessionInv, TypeOK, ProducerTypeOK, Attached, Clients
  <2>2. QED
    BY <2>1
<1>2. ServerInv'
  BY <1>1, ServerStepInv DEF Strong
<1>3. NothingOfLaterRuns'
  BY <1>1, ServerMovesRuns
<1>4. ProducerTypeOK' /\ FileIsCurrent' /\ NoLaterRunInFile'
  BY DEF Strong, SessionInv, TypeOK, ProducerTypeOK, FileIsCurrent, NoLaterRunInFile,
         UpTo, producer
<1>5. QED
  BY <1>2, <1>3, <1>4 DEF Strong, SessionInv, TypeOK, ServerInv

-----------------------------------------------------------------------------
(* A call of run control that sends a command of the current run.          *)
LEMMA CommandOfRun ==
  ASSUME Strong, UNCHANGED <<server, delivering>>, NEW C, NEW kind \in CommandBytes,
         run_number' \in Runs, run_number <= run_number',
         GenFrame(C, kind, run_number')
  PROVE  ServerInv' /\ NothingOfLaterRuns'
<1> DEFINE frame == [kind |-> kind, run |-> run_number']
<1>1. /\ LinkTypeOK /\ ServerInv /\ NothingOfLaterRuns /\ ProducerTypeOK
      /\ ServerTypeOK
  BY DEF Strong, ServerInv, SessionInv, TypeOK
<1>2. frame \in CommandFrame
  BY DEF CommandFrame
<1>3. SendCommand(C, frame)
  BY DEF GenFrame
<1>4. LinkTypeOK'
  BY <1>1, <1>2, <1>3, SendCommandTypes
<1>5. ServerInv'
  BY <1>1, <1>4, LinkStepInv
<1>6. run_number \in Nat /\ run_number' \in Nat
  BY <1>1, RunsAreNaturals DEF ProducerTypeOK
<1>7. ASSUME NEW c \in Clients
      PROVE  UpTo(commands'[c], run_number') /\ UpTo(frames'[c], run_number')
  <2>1. commands[c] \in Seq(CommandFrame) /\ frames[c] \in Seq(DataFrame)
    BY <1>1 DEF LinkTypeOK
  <2>2. UpTo(commands[c], run_number) /\ UpTo(frames[c], run_number)
    BY <1>1 DEF NothingOfLaterRuns
  <2>3. UpTo(commands[c], run_number')
    BY <1>6, <2>1, <2>2, RunsAreNaturals, UpToLater
  <2>4. UpTo(frames[c], run_number')
    BY <1>6, <2>1, <2>2, RunsAreNaturals, UpToLater
  <2>5. frame.run <= run_number'
    BY <1>6
  <2>6. UpTo(Append(commands[c], frame), run_number')
    BY <1>2, <2>1, <2>3, <2>5, AppendUpTo
  <2>7. QED
    BY <1>3, <2>3, <2>4, <2>6 DEF SendCommand
<1>8. /\ run <= run_number' /\ latest.frame.run <= run_number'
      /\ rx.frame.run <= run_number'
  <2>1. /\ run \in Nat /\ latest.frame.run \in Nat /\ rx.frame.run \in Nat
    BY <1>1, RunsAreNaturals DEF ServerTypeOK
  <2>2. QED
    BY <1>1, <1>6, <2>1 DEF NothingOfLaterRuns
<1>9. ASSUME NEW c \in Clients PROVE delivering[c].frame.run <= run_number'
  <2>1. delivering[c].frame.run \in Nat
    BY <1>1, RunsAreNaturals DEF ProducerTypeOK
  <2>2. QED
    BY <1>1, <1>6, <2>1 DEF NothingOfLaterRuns
<1>10. QED
  BY <1>5, <1>7, <1>8, <1>9 DEF NothingOfLaterRuns, server

LEMMA FilesUnchanged ==
  ASSUME NoLaterRunInFile, UNCHANGED files
  PROVE  NoLaterRunInFile'
  BY DEF NoLaterRunInFile, UpTo

LEMMA QuietCall ==
  ASSUME Strong, UNCHANGED <<link, server, delivering, run_number>>
  PROVE  ServerInv' /\ NothingOfLaterRuns'
<1>1. LinkTypeOK'
  BY DEF Strong, ServerInv, LinkTypeOK, link
<1>2. ServerInv'
  BY <1>1, LinkStepInv DEF Strong
<1>3. NothingOfLaterRuns'
  BY DEF Strong, SessionInv, NothingOfLaterRuns, server, link
<1>4. QED
  BY <1>2, <1>3

(* The calls of run control.                                               *)
LEMMA RunControlKeepsStrong ==
  ASSUME Strong, UNCHANGED server, RunControl
  PROVE  Strong'
<1>1. /\ ProducerTypeOK /\ FileIsCurrent /\ NoLaterRunInFile
      /\ run_number \in Nat /\ run_number <= run_number
  BY RunsAreNaturals DEF Strong, SessionInv, TypeOK, ProducerTypeOK
<1>2. calls \in 0 .. MaxCalls /\ calls < MaxCalls => calls + 1 \in 0 .. MaxCalls
  BY CallsAssumption
<1>3. CASE DoInitialise
  <2>1. attached + 1 \in 0 .. MaxClients
    BY <1>1, <1>3, LinkAssumption DEF DoInitialise, ProducerTypeOK
  <2>2. ServerInv' /\ NothingOfLaterRuns'
    BY <1>1, <1>3, CommandOfRun DEF DoInitialise, CommandBytes, ProducerTypeOK
  <2>3. ProducerTypeOK'
    BY <1>1, <1>2, <1>3, <2>1 DEF DoInitialise, Called, ProducerTypeOK
  <2>4. FileIsCurrent' /\ NoLaterRunInFile'
    BY <1>1, <1>3, FilesUnchanged DEF DoInitialise, Called, FileIsCurrent
  <2>5. QED
    BY <2>2, <2>3, <2>4 DEF Strong, SessionInv, TypeOK, ServerInv
<1>4. CASE DoConfigure
  <2>1. ServerInv' /\ NothingOfLaterRuns'
    BY <1>4, QuietCall DEF DoConfigure
  <2>2. ProducerTypeOK'
    BY <1>1, <1>2, <1>4 DEF DoConfigure, Called, ProducerTypeOK
  <2>3. FileIsCurrent' /\ NoLaterRunInFile'
    BY <1>1, <1>4, FilesUnchanged DEF DoConfigure, Called, FileIsCurrent, NoFile
  <2>4. QED
    BY <2>1, <2>2, <2>3 DEF Strong, SessionInv, TypeOK, ServerInv
<1>5. CASE ConfigureOpens
  <2>1. ServerInv' /\ NothingOfLaterRuns'
    BY <1>1, <1>5, CommandOfRun DEF ConfigureOpens, CommandBytes, ProducerTypeOK
  <2>2. ProducerTypeOK'
    BY <1>1, <1>5 DEF ConfigureOpens, ProducerTypeOK
  <2>3. FileIsCurrent' /\ NoLaterRunInFile'
    BY <1>1, <1>5, FilesUnchanged DEF ConfigureOpens, FileIsCurrent
  <2>4. QED
    BY <2>1, <2>2, <2>3 DEF Strong, SessionInv, TypeOK, ServerInv
<1>6. CASE DoStartRun
  <2>1. run_number' \in Runs /\ run_number' = run_number + 1
    BY <1>1, <1>6, LinkAssumption DEF DoStartRun, ProducerTypeOK, Runs
  <2>2. run_number <= run_number'
    BY <1>1, <2>1
  <2>3. ServerInv' /\ NothingOfLaterRuns'
    BY <1>6, <2>1, <2>2, CommandOfRun DEF DoStartRun, CommandBytes
  <2>4. ProducerTypeOK'
    BY <1>1, <1>2, <1>6, <2>1 DEF DoStartRun, Called, ProducerTypeOK
  <2>5. FileIsCurrent'
    BY <1>1, <1>6, <2>1 DEF DoStartRun, Called, FileIsCurrent
  <2>6. NoLaterRunInFile'
    BY <1>1, <1>6, FilesUnchanged DEF DoStartRun
  <2>7. QED
    BY <2>3, <2>4, <2>5, <2>6 DEF Strong, SessionInv, TypeOK, ServerInv
<1>7. CASE DoStopRun
  <2>1. ServerInv' /\ NothingOfLaterRuns'
    BY <1>1, <1>7, CommandOfRun DEF DoStopRun, CommandBytes, ProducerTypeOK
  <2>2. ProducerTypeOK'
    BY <1>1, <1>2, <1>7 DEF DoStopRun, Called, ProducerTypeOK
  <2>3. FileIsCurrent' /\ NoLaterRunInFile'
    BY <1>1, <1>7, FilesUnchanged DEF DoStopRun, Called, FileIsCurrent
  <2>4. QED
    BY <2>1, <2>2, <2>3 DEF Strong, SessionInv, TypeOK, ServerInv
<1>8. CASE StopCloses
  <2>1. ServerInv' /\ NothingOfLaterRuns'
    BY <1>8, QuietCall DEF StopCloses
  <2>2. ProducerTypeOK'
    BY <1>1, <1>8 DEF StopCloses, Closed, ProducerTypeOK
  <2>3. FileIsCurrent' /\ NoLaterRunInFile'
    BY <1>1, <1>8, FilesUnchanged DEF StopCloses, Closed, FileIsCurrent, NoFile
  <2>4. QED
    BY <2>1, <2>2, <2>3 DEF Strong, SessionInv, TypeOK, ServerInv
<1>9. CASE DoReset
  <2>1. ServerInv' /\ NothingOfLaterRuns'
    BY <1>1, <1>9, CommandOfRun DEF DoReset, CommandBytes, ProducerTypeOK
  <2>2. ProducerTypeOK'
    BY <1>1, <1>2, <1>9 DEF DoReset, Called, ProducerTypeOK
  <2>3. FileIsCurrent' /\ NoLaterRunInFile'
    BY <1>1, <1>9, FilesUnchanged DEF DoReset, Called, FileIsCurrent
  <2>4. QED
    BY <2>1, <2>2, <2>3 DEF Strong, SessionInv, TypeOK, ServerInv
<1>10. QED
  BY <1>3, <1>4, <1>5, <1>6, <1>7, <1>8, <1>9 DEF RunControl

-----------------------------------------------------------------------------
(* The threads of the clients.                                             *)
LEMMA ClientKeepsStrong ==
  ASSUME Strong, UNCHANGED server, NEW c \in Clients, ClientThread(c)
  PROVE  Strong'
<1>1. /\ LinkTypeOK /\ ServerInv /\ ProducerTypeOK /\ FileIsCurrent
      /\ NoLaterRunInFile /\ NothingOfLaterRuns
  BY DEF Strong, ServerInv, SessionInv, TypeOK
<1>2. FileIsCurrent'
  BY <1>1 DEF ClientThread, ReceiveFrame, WriteFrame, SendFrame, Handed, FileIsCurrent
<1>3. 0 \in Runs /\ Idle \in [frame : DataFrame, to : SUBSET {"writer", "sender"}]
  BY LinkAssumption DEF Idle, DataFrame, Runs
<1>4. run_number \in Nat
  BY <1>1, RunsAreNaturals DEF ProducerTypeOK
<1>5. CASE ReceiveFrame(c)
  <2>1. frames[c] \in Seq(DataFrame) /\ frames[c] # << >>
    BY <1>1, <1>5 DEF LinkTypeOK, ReceiveFrame, TakeFrame
  <2>2. Head(frames[c]) \in DataFrame
    BY <2>1, HeadTailProperties
  <2>3. UpTo(Tail(frames[c]), run_number) /\ Head(frames[c]).run <= run_number
    BY <1>1, <2>1, TailUpTo DEF NothingOfLaterRuns
  <2>4. LinkTypeOK' /\ ServerInv'
    BY <1>1, <1>5, TakeFrameTypes, LinkStepInv DEF ReceiveFrame
  <2>5. delivering' = [delivering EXCEPT
          ![c] = [frame |-> Head(frames[c]), to |-> {"writer", "sender"}]]
    BY <1>5 DEF ReceiveFrame
  <2>6. ProducerTypeOK'
    BY <1>1, <1>5, <2>2, <2>5 DEF ReceiveFrame, ProducerTypeOK
  <2>7. NothingOfLaterRuns'
    <3>1. frames' = [frames EXCEPT ![c] = Tail(frames[c])] /\ commands' = commands
      BY <1>5 DEF ReceiveFrame, TakeFrame
    <3>2. \A d \in Clients : UpTo(frames'[d], run_number)
      BY <1>1, <2>3, <3>1 DEF LinkTypeOK, NothingOfLaterRuns
    <3>3. \A d \in Clients : delivering'[d].frame.run <= run_number
      BY <1>1, <2>3, <2>5 DEF ProducerTypeOK, NothingOfLaterRuns
    <3>4. run_number' = run_number
      BY <1>5 DEF ReceiveFrame
    <3>5. QED
      BY <1>1, <3>1, <3>2, <3>3, <3>4 DEF NothingOfLaterRuns, server
  <2>8. NoLaterRunInFile'
    BY <1>1, <1>5, FilesUnchanged DEF ReceiveFrame
  <2>9. QED
    BY <1>2, <2>4, <2>6, <2>7, <2>8 DEF Strong, SessionInv, TypeOK, ServerInv
<1>6. ASSUME NEW slave \in {"writer", "sender"}, Handed(c, slave)
      PROVE  /\ ServerInv' /\ NothingOfLaterRuns'
             /\ delivering' \in [Clients ->
                  [frame : DataFrame, to : SUBSET {"writer", "sender"}]]
  <2>1. delivering' = [delivering EXCEPT
          ![c] = IF delivering[c].to = {slave} THEN Idle
                 ELSE [delivering[c] EXCEPT !.to = delivering[c].to \ {slave}]]
    BY <1>6 DEF Handed
  <2>2. delivering' \in [Clients -> [frame : DataFrame, to : SUBSET {"writer", "sender"}]]
    BY <1>1, <1>3, <2>1 DEF ProducerTypeOK
  <2>3. LinkTypeOK'
    BY <1>1, <1>6 DEF Handed, LinkTypeOK, link
  <2>4. ServerInv'
    BY <1>1, <2>3, LinkStepInv
  <2>5. ASSUME NEW d \in Clients PROVE delivering'[d].frame.run <= run_number
    <3>1. delivering[d].frame.run <= run_number
      BY <1>1 DEF NothingOfLaterRuns
    <3>2. Idle.frame.run <= run_number
      BY <1>4 DEF Idle
    <3>3. delivering[d] \in [frame : DataFrame, to : SUBSET {"writer", "sender"}]
      BY <1>1 DEF ProducerTypeOK
    <3>4. [delivering[d] EXCEPT !.to = delivering[d].to \ {slave}].frame
            = delivering[d].frame
      BY <3>3
    <3>5. QED
      BY <1>1, <2>1, <3>1, <3>2, <3>4 DEF ProducerTypeOK
  <2>6. NothingOfLaterRuns'
    BY <1>1, <1>6, <2>5 DEF Handed, NothingOfLaterRuns, server, link
  <2>7. QED
    BY <2>2, <2>4, <2>6
<1>7. CASE WriteFrame(c)
  <2>1. Handed(c, "writer")
    BY <1>7 DEF WriteFrame
  <2>2. /\ ServerInv' /\ NothingOfLaterRuns'
        /\ delivering' \in [Clients -> [frame : DataFrame, to : SUBSET {"writer", "sender"}]]
    BY <1>6, <2>1
  <2>3. delivering[c].frame \in DataFrame
    BY <1>1 DEF ProducerTypeOK
  <2>4. ASSUME NEW r \in Runs
        PROVE  files'[r] \in Seq(DataFrame) /\ UpTo(files'[r], r + 1)
    <3>1. files[r] \in Seq(DataFrame) /\ UpTo(files[r], r + 1)
      BY <1>1 DEF ProducerTypeOK, NoLaterRunInFile
    <3>2. CASE r \in writer
      <4>1. run_number <= r + 1 /\ r \in Nat
        BY <1>1, <3>2, RunsAreNaturals DEF FileIsCurrent
      <4>2. delivering[c].frame.run <= run_number /\ delivering[c].frame.run \in Nat
        BY <1>1, <2>3, RunsAreNaturals DEF NothingOfLaterRuns
      <4>3. delivering[c].frame.run <= r + 1
        BY <1>4, <4>1, <4>2
      <4>4. UpTo(Append(files[r], delivering[c].frame), r + 1)
        BY <2>3, <3>1, <4>3, AppendUpTo
      <4>5. Append(files[r], delivering[c].frame) \in Seq(DataFrame)
        BY <2>3, <3>1, AppendProperties
      <4>6. QED
        BY <1>7, <3>2, <4>4, <4>5 DEF WriteFrame
    <3>3. CASE r \notin writer
      BY <1>7, <3>1, <3>3 DEF WriteFrame
    <3>4. QED
      BY <3>2, <3>3
  <2>5. files' \in [Runs -> Seq(DataFrame)]
    BY <1>7, <2>4 DEF WriteFrame
  <2>6. ProducerTypeOK'
    BY <1>1, <1>7, <2>1, <2>2, <2>5 DEF WriteFrame, Handed, ProducerTypeOK
  <2>7. NoLaterRunInFile'
    BY <2>4 DEF NoLaterRunInFile
  <2>8. QED
    BY <1>2, <2>2, <2>6, <2>7 DEF Strong, SessionInv, TypeOK, ServerInv
<1>8. CASE SendFrame(c)
  <2>1. Handed(c, "sender")
    BY <1>8 DEF SendFrame
  <2>2. /\ ServerInv' /\ NothingOfLaterRuns'
        /\ delivering' \in [Clients -> [frame : DataFrame, to : SUBSET {"writer", "sender"}]]
    BY <1>6, <2>1
  <2>3. sent' \in Seq(DataFrame)
    BY <1>1, <1>8, AppendProperties DEF SendFrame, ProducerTypeOK
  <2>4. ProducerTypeOK'
    BY <1>1, <1>8, <2>1, <2>2, <2>3 DEF SendFrame, Handed, ProducerTypeOK
  <2>5. NoLaterRunInFile'
    BY <1>1, <1>8, FilesUnchanged DEF SendFrame
  <2>6. QED
    BY <1>2, <2>2, <2>4, <2>5 DEF Strong, SessionInv, TypeOK, ServerInv
<1>9. QED
  BY <1>5, <1>7, <1>8 DEF ClientThread

-----------------------------------------------------------------------------
LEMMA AlwaysStrong == Spec => []Strong
<1>1. Strong /\ [Next]_vars => Strong'
  <2> SUFFICES ASSUME Strong, [Next]_vars PROVE Strong'
    OBVIOUS
  <2>1. CASE (Receiver \/ MainLoop(Attached)) /\ UNCHANGED producer
    BY <2>1, ServerKeepsStrong
  <2>2. CASE RunControl /\ UNCHANGED server
    BY <2>2, RunControlKeepsStrong
  <2>3. ASSUME NEW c \in Clients, ClientThread(c), UNCHANGED server PROVE Strong'
    BY <2>3, ClientKeepsStrong
  <2>4. CASE UNCHANGED vars
    <3>1. UNCHANGED <<link, server, producer>>
      BY <2>4 DEF vars
    <3>2. UNCHANGED <<state, run_number, call, calls, attached, writer, files,
                      delivering, sent>>
      BY <3>1 DEF producer
    <3>3. ServerInv' /\ NothingOfLaterRuns'
      BY <3>1, <3>2, QuietCall
    <3>4. ProducerTypeOK' /\ FileIsCurrent' /\ NoLaterRunInFile'
      BY <3>2, FilesUnchanged DEF Strong, SessionInv, TypeOK, ProducerTypeOK, FileIsCurrent
    <3>5. QED
      BY <3>3, <3>4 DEF Strong, SessionInv, TypeOK, ServerInv
  <2>5. QED
    BY <2>1, <2>2, <2>3, <2>4 DEF Next
<1>2. QED
  BY <1>1, InitStrong, PTL DEF Spec

(* No file ever receives data of a later run than the one it was opened    *)
(* for.                                                                    *)
THEOREM RunFilesHoldNoLaterRun == Spec => []NoLaterRunInFile
<1>1. Strong => NoLaterRunInFile
  BY DEF Strong, SessionInv
<1>2. QED
  BY <1>1, AlwaysStrong, PTL

-----------------------------------------------------------------------------
(* What a sequence holds.                                                  *)
LEMMA InAppend ==
  ASSUME NEW S, NEW s \in Seq(S), NEW x \in S
  PROVE  In(Append(s, x)) = In(s) \union {x}
<1>1. /\ Len(s) \in Nat /\ DOMAIN s = 1 .. Len(s)
      /\ DOMAIN Append(s, x) = 1 .. (Len(s) + 1)
      /\ \A i \in 1 .. Len(s) : Append(s, x)[i] = s[i]
      /\ Append(s, x)[Len(s) + 1] = x
  BY AppendProperties, LenProperties
<1>2. 1 .. (Len(s) + 1) = (1 .. Len(s)) \union {Len(s) + 1}
  BY <1>1
<1>3. QED
  BY <1>1, <1>2 DEF In

LEMMA InTail ==
  ASSUME NEW S, NEW s \in Seq(S), s # << >>
  PROVE  /\ In(s) = {Head(s)} \union In(Tail(s))
         /\ InOrder(s) => InOrder(Tail(s)) /\ Ahead({Head(s)}, In(Tail(s)))
<1>1. Len(s) \in Nat /\ Len(s) >= 1 /\ DOMAIN s = 1 .. Len(s)
  BY EmptySeq, LenProperties
<1>2. /\ Tail(s) \in Seq(S) /\ Len(Tail(s)) = Len(s) - 1
      /\ DOMAIN Tail(s) = 1 .. (Len(s) - 1)
  BY HeadTailProperties, LenProperties
<1>3. \A i \in 1 .. (Len(s) - 1) : Tail(s)[i] = s[i + 1]
  BY HeadTailProperties, <1>1, <1>2
<1>4. Head(s) = s[1] /\ 1 \in DOMAIN s
  BY <1>1
<1>5. In(s) = {Head(s)} \union In(Tail(s))
  <2>1. \A i \in DOMAIN s : i = 1 \/ (i - 1 \in DOMAIN Tail(s) /\ s[i] = Tail(s)[i - 1])
    BY <1>1, <1>2, <1>3
  <2>2. \A i \in DOMAIN Tail(s) : i + 1 \in DOMAIN s /\ Tail(s)[i] = s[i + 1]
    BY <1>1, <1>2, <1>3
  <2>3. \A x \in In(s) : x = Head(s) \/ x \in In(Tail(s))
    BY <1>4, <2>1 DEF In
  <2>4. \A x \in In(Tail(s)) : x \in In(s)
    BY <2>2 DEF In
  <2>5. Head(s) \in In(s)
    BY <1>4 DEF In
  <2>6. QED
    BY <2>3, <2>4, <2>5
<1>6. \A i \in DOMAIN Tail(s) : i + 1 \in DOMAIN s /\ 1 < i + 1 /\ Tail(s)[i] = s[i + 1]
  BY <1>1, <1>2, <1>3
<1>7. InOrder(s) => InOrder(Tail(s))
  <2>1. \A i, j \in DOMAIN Tail(s) : i < j => i + 1 < j + 1
    BY <1>2
  <2>2. QED
    BY <1>6, <2>1 DEF InOrder
<1>8. InOrder(s) => Ahead({Head(s)}, In(Tail(s)))
  BY <1>4, <1>6 DEF InOrder, Ahead, In
<1>9. QED
  BY <1>5, <1>7, <1>8

LEMMA AppendInOrder ==
  ASSUME NEW S, NEW s \in Seq(S), NEW x \in S, InOrder(s), Ahead(In(s), {x})
  PROVE  InOrder(Append(s, x))
<1>1. /\ Len(s) \in Nat /\ DOMAIN s = 1 .. Len(s)
      /\ DOMAIN Append(s, x) = 1 .. (Len(s) + 1)
      /\ \A i \in 1 .. Len(s) : Append(s, x)[i] = s[i]
      /\ Append(s, x)[Len(s) + 1] = x
  BY AppendProperties, LenProperties
<1>2. ASSUME NEW i \in 1 .. (Len(s) + 1), NEW j \in 1 .. (Len(s) + 1), i < j
      PROVE  Before(Append(s, x)[i], Append(s, x)[j])
  <2>1. i \in DOMAIN s /\ Append(s, x)[i] = s[i]
    BY <1>1, <1>2
  <2>2. CASE j = Len(s) + 1
    BY <1>1, <2>1, <2>2 DEF Ahead, In
  <2>3. CASE j \in 1 .. Len(s)
    BY <1>1, <1>2, <2>1, <2>3 DEF InOrder
  <2>4. QED
    BY <1>1, <1>2, <2>2, <2>3
<1>3. QED
  BY <1>1, <1>2 DEF InOrder

-----------------------------------------------------------------------------
(* Only attached clients have anything to do.                              *)
LEMMA AttachedTypes ==
  ASSUME Strong
  PROVE  /\ commands \in [Clients -> Seq(CommandFrame)]
         /\ frames \in [Clients -> Seq(DataFrame)]
         /\ delivering \in [Clients -> [frame : DataFrame, to : SUBSET {"writer", "sender"}]]
         /\ files \in [Runs -> Seq(DataFrame)] /\ sent \in Seq(DataFrame)
         /\ attached \in 0 .. MaxClients /\ MaxClients \in Nat
         /\ Attached \subseteq Clients
         /\ run \in Nat /\ count \in Nat /\ running \in BOOLEAN
         /\ rx.frame \in CommandFrame \union {NoFrame}
         /\ latest.frame \in CommandFrame \union {NoFrame} /\ latest.number \in Nat
<1>1. LinkTypeOK /\ ServerTypeOK /\ ProducerTypeOK
  BY DEF Strong, SessionInv, TypeOK
<1>2. Attached \subseteq Clients
  BY <1>1, LinkAssumption DEF ProducerTypeOK, Attached, Clients
<1>3. run \in Nat
  BY <1>1, RunsAreNaturals DEF ServerTypeOK
<1>4. QED
  BY <1>1, <1>2, <1>3, LinkAssumption DEF LinkTypeOK, ServerTypeOK, ProducerTypeOK

LEMMA InitAttached == Init => OnlyAttached
  BY DEF Init, LinkInit, ProducerInit, OnlyAttached, Idle

LEMMA KeepsAttached ==
  ASSUME Strong, OnlyAttached, [Next]_vars
  PROVE  OnlyAttached' /\ Attached \subseteq Attached' /\ (attached' <= 1 => attached <= 1)
<1>1. /\ commands \in [Clients -> Seq(CommandFrame)]
      /\ frames \in [Clients -> Seq(DataFrame)]
      /\ delivering \in [Clients -> [frame : DataFrame, to : SUBSET {"writer", "sender"}]]
      /\ attached \in Nat /\ Attached \subseteq Clients
  BY AttachedTypes
<1>2. attached' = attached \/ attached' = attached + 1
  BY DEF Next, vars, producer, RunControl, DoInitialise, DoConfigure, ConfigureOpens,
         DoStartRun, DoStopRun, StopCloses, DoReset, ClientThread, ReceiveFrame,
         WriteFrame, SendFrame, Handed
<1>3. Attached \subseteq Attached' /\ (attached' <= 1 => attached <= 1)
  BY <1>1, <1>2 DEF Attached
<1>4. ASSUME NEW c \in Clients, c \notin Attached'
      PROVE  commands'[c] = << >> /\ frames'[c] = << >> /\ delivering'[c].to = {}
  <2>1. /\ c \notin Attached /\ commands[c] = << >> /\ frames[c] = << >>
        /\ delivering[c].to = {}
    BY <1>3, <1>4 DEF OnlyAttached
  <2>2. CASE Receiver /\ UNCHANGED producer
    BY <1>1, <2>1, <2>2 DEF Receiver, AcceptFrame, ReceiverResets, ReceiverSets, link, producer
  <2>3. CASE MainLoop(Attached) /\ UNCHANGED producer
    BY <1>1, <2>1, <2>3 DEF MainLoop, Poll, MainResets, Generate, link, producer
  <2>4. CASE DoInitialise
    <3>1. c \notin 1 .. attached + 1
      BY <1>4, <2>4 DEF DoInitialise, Attached
    <3>2. QED
      BY <2>1, <2>4, <3>1 DEF DoInitialise, GenFrame, SendCommand
  <2>5. CASE ConfigureOpens \/ DoStartRun \/ DoStopRun \/ DoReset
    BY <2>1, <2>5 DEF ConfigureOpens, DoStartRun, DoStopRun, DoReset, GenFrame, SendCommand
  <2>6. CASE DoConfigure \/ StopCloses
    BY <2>1, <2>6 DEF DoConfigure, StopCloses, link
  <2>7. ASSUME NEW d \in Clients, ReceiveFrame(d)
        PROVE  commands'[c] = << >> /\ frames'[c] = << >> /\ delivering'[c].to = {}
    BY <1>1, <2>1, <2>7 DEF ReceiveFrame, TakeFrame
  <2>8. ASSUME NEW d \in Clients, NEW slave, Handed(d, slave)
        PROVE  commands'[c] = << >> /\ frames'[c] = << >> /\ delivering'[c].to = {}
    BY <1>1, <2>1, <2>8 DEF Handed, link
  <2>9. CASE UNCHANGED vars
    BY <2>1, <2>9 DEF vars, link, producer
  <2>10. QED
    BY <2>2, <2>3, <2>4, <2>5, <2>6, <2>7, <2>8, <2>9
    DEF Next, RunControl, ClientThread, WriteFrame, SendFrame
<1>5. QED
  BY <1>3, <1>4 DEF OnlyAttached

(* With one client nobody else has anything to do.                         *)
LEMMA OnlyOne ==
  ASSUME Strong, OnlyAttached, attached <= 1, NEW c \in Attached, NEW d \in Clients, c # d
  PROVE  commands[d] = << >> /\ frames[d] = << >> /\ delivering[d].to = {}
<1>1. attached \in Nat
  BY AttachedTypes
<1>2. \A n \in Nat : n <= 1 => \A i, j \in 1 .. n : i = j
  OBVIOUS
<1>3. d \notin Attached
  BY <1>1, <1>2 DEF Attached
<1>4. QED
  BY <1>3 DEF OnlyAttached

-----------------------------------------------------------------------------
(* The starts: of one client they come in order.                           *)
LEMMA TailStarts ==
  ASSUME NEW S, NEW s \in Seq(S), s # << >>, StartsInOrder(s)
  PROVE  /\ In(s) = {Head(s)} \union In(Tail(s)) /\ StartsInOrder(Tail(s))
         /\ IsStart(Head(s)) => \A f \in In(Tail(s)) : IsStart(f) => Head(s).run < f.run
<1>1. Len(s) \in Nat /\ Len(s) >= 1 /\ DOMAIN s = 1 .. Len(s)
  BY EmptySeq, LenProperties
<1>2. /\ Tail(s) \in Seq(S) /\ Len(Tail(s)) = Len(s) - 1
      /\ DOMAIN Tail(s) = 1 .. (Len(s) - 1)
  BY HeadTailProperties, LenProperties
<1>3. \A i \in 1 .. (Len(s) - 1) : Tail(s)[i] = s[i + 1]
  BY HeadTailProperties, <1>1, <1>2
<1>4. Head(s) = s[1] /\ 1 \in DOMAIN s
  BY <1>1
<1>5. \A i \in DOMAIN Tail(s) : i + 1 \in DOMAIN s /\ 1 < i + 1 /\ Tail(s)[i] = s[i + 1]
  BY <1>1, <1>2, <1>3
<1>6. StartsInOrder(Tail(s))
  <2>1. \A i, j \in DOMAIN Tail(s) : i < j => i + 1 < j + 1
    BY <1>2
  <2>2. QED
    BY <1>5, <2>1 DEF StartsInOrder
<1>7. IsStart(Head(s)) => \A f \in In(Tail(s)) : IsStart(f) => Head(s).run < f.run
  BY <1>4, <1>5 DEF StartsInOrder, In
<1>8. In(s) = {Head(s)} \union In(Tail(s))
  BY InTail
<1>9. QED
  BY <1>6, <1>7, <1>8

LEMMA AppendStarts ==
  ASSUME NEW S, NEW s \in Seq(S), NEW x \in S, StartsInOrder(s),
         IsStart(x) => \A f \in In(s) : IsStart(f) => f.run < x.run
  PROVE  StartsInOrder(Append(s, x))
<1>1. /\ Len(s) \in Nat /\ DOMAIN s = 1 .. Len(s)
      /\ DOMAIN Append(s, x) = 1 .. (Len(s) + 1)
      /\ \A i \in 1 .. Len(s) : Append(s, x)[i] = s[i]
      /\ Append(s, x)[Len(s) + 1] = x
  BY AppendProperties, LenProperties
<1>2. ASSUME NEW i \in 1 .. (Len(s) + 1), NEW j \in 1 .. (Len(s) + 1), i < j,
             IsStart(Append(s, x)[i]), IsStart(Append(s, x)[j])
      PROVE  Append(s, x)[i].run < Append(s, x)[j].run
  <2>1. i \in DOMAIN s /\ Append(s, x)[i] = s[i]
    BY <1>1, <1>2
  <2>2. CASE j = Len(s) + 1
    BY <1>1, <1>2, <2>1, <2>2 DEF In
  <2>3. CASE j \in 1 .. Len(s)
    BY <1>1, <1>2, <2>1, <2>3 DEF StartsInOrder
  <2>4. QED
    BY <1>1, <1>2, <2>2, <2>3
<1>3. QED
  BY <1>1, <1>2 DEF StartsInOrder

LEMMA InitStarts == Init => StartsAreLater
<1> SUFFICES ASSUME Init PROVE StartsAreLater
  OBVIOUS
<1>1. /\ latest.frame = NoFrame /\ rx.frame = NoFrame /\ ~IsStart(NoFrame)
      /\ \A c \in Clients : commands[c] = << >>
  BY DEF Init, LinkInit, ServerInit, NoFrame, IsStart
<1>2. In(<< >>) = {} /\ StartsInOrder(<< >>)
  BY DEF In, StartsInOrder
<1>3. \A f \in Unseen : f = NoFrame
  BY <1>1, <1>2 DEF Unseen
<1>4. QED
  BY <1>1, <1>2, <1>3 DEF StartsAreLater

(* The frame that is accepted is the first of its connection, and with one *)
(* client there is no other.                                               *)
LEMMA AcceptStarts ==
  ASSUME Strong, OnlyAttached, StartsAreLater, NEW c \in Clients, AcceptFrame(c),
         UNCHANGED producer
  PROVE  StartsAreLater'
<1> SUFFICES ASSUME attached <= 1 PROVE StartsAreLater'
  BY DEF StartsAreLater, producer
<1>1. /\ commands \in [Clients -> Seq(CommandFrame)] /\ commands[c] # << >>
      /\ commands' = [commands EXCEPT ![c] = Tail(commands[c])]
      /\ UNCHANGED <<run, latest, obeyed, attached>>
  BY AttachedTypes DEF AcceptFrame, producer
<1>2. rx.frame = NoFrame /\ (rx' = rx \/ rx'.frame = Head(commands[c]))
  BY DEF AcceptFrame
<1>3. ~IsStart(NoFrame)
  BY DEF IsStart, NoFrame
<1>4. c \in Attached
  BY <1>1 DEF OnlyAttached
<1>5. \A d \in Clients : d # c => commands[d] = << >>
  BY <1>4, OnlyOne
<1>6. In(<< >>) = {} /\ StartsInOrder(<< >>)
  BY DEF In, StartsInOrder
<1>7. /\ In(commands[c]) = {Head(commands[c])} \union In(Tail(commands[c]))
      /\ StartsInOrder(Tail(commands[c]))
      /\ IsStart(Head(commands[c])) =>
           \A f \in In(Tail(commands[c])) : IsStart(f) => Head(commands[c]).run < f.run
  <2>1. StartsInOrder(commands[c])
    BY DEF StartsAreLater
  <2>2. QED
    BY <1>1, <2>1, TailStarts
<1>8. \A f \in In(commands[c]) : IsStart(f) =>
        run < f.run /\ (IsStart(latest.frame) => latest.frame.run < f.run)
  BY DEF StartsAreLater, Unseen
<1>9. /\ In(commands'[c]) \subseteq In(commands[c]) /\ StartsInOrder(commands'[c])
      /\ \A d \in Clients : d # c => commands'[d] = << >>
      /\ commands'[c] = Tail(commands[c])
  BY <1>1, <1>5, <1>7
<1>10. IsStart(rx'.frame) => rx'.frame = Head(commands[c])
  BY <1>2, <1>3
<1>11. IsStart(latest.frame) =>
         run <= latest.frame.run /\ (~IsObeyed(latest.number) => run < latest.frame.run)
  BY DEF StartsAreLater
<1>12. IsObeyed(latest.number)' <=> IsObeyed(latest.number)
  BY <1>1 DEF IsObeyed
<1>13. ASSUME NEW d \in Clients
       PROVE  /\ \A f \in In(commands'[d]) \union {rx'.frame} : IsStart(f) =>
                    run < f.run /\ (IsStart(latest.frame) => latest.frame.run < f.run)
              /\ StartsInOrder(commands'[d])
              /\ IsStart(rx'.frame) =>
                   \A f \in In(commands'[d]) : IsStart(f) => rx'.frame.run < f.run
  <2>1. \A f \in {rx'.frame} : IsStart(f) => f \in In(commands[c])
    BY <1>7, <1>10
  <2>2. CASE d = c
    BY <1>7, <1>8, <1>9, <1>10, <2>1, <2>2
  <2>3. CASE d # c
    BY <1>6, <1>8, <1>9, <2>1, <2>3
  <2>4. QED
    BY <2>2, <2>3
<1>14. \A f \in Unseen' : IsStart(f) =>
         run < f.run /\ (IsStart(latest.frame) => latest.frame.run < f.run)
  <2>1. ASSUME NEW f \in Unseen' PROVE f = rx'.frame \/ \E d \in Clients : f \in In(commands'[d])
    BY DEF Unseen
  <2>2. QED
    BY <1>4, <1>13, <2>1, AttachedTypes
<1>15. QED
  BY <1>1, <1>11, <1>12, <1>13, <1>14 DEF StartsAreLater

LEMMA SetsStarts ==
  ASSUME Strong, StartsAreLater, ReceiverSets, UNCHANGED producer
  PROVE  StartsAreLater'
<1> SUFFICES ASSUME attached <= 1 PROVE StartsAreLater'
  BY DEF StartsAreLater, producer
<1>1. /\ UNCHANGED <<commands, run, obeyed, attached>>
      /\ latest'.frame = rx.frame /\ latest'.number = latest.number + 1
      /\ rx'.frame = NoFrame
  BY DEF ReceiverSets, producer, link
<1>2. ~IsStart(NoFrame)
  BY DEF IsStart, NoFrame
<1>3. run \in Nat /\ rx.frame.run \in Nat
  BY AttachedTypes, RunsAreNaturals
<1>4. IsStart(rx.frame) => run < rx.frame.run
  BY DEF StartsAreLater, Unseen
<1>5. IsStart(rx.frame) =>
        \A f \in UNION {In(commands[c]) : c \in Clients} : IsStart(f) => rx.frame.run < f.run
  BY DEF StartsAreLater
<1>6. ASSUME NEW f \in Unseen', IsStart(f)
      PROVE  run < f.run /\ (IsStart(rx.frame) => rx.frame.run < f.run)
  <2>1. f \in UNION {In(commands[c]) : c \in Clients}
    BY <1>1, <1>2, <1>6 DEF Unseen
  <2>2. QED
    BY <1>5, <1>6, <2>1 DEF StartsAreLater, Unseen
<1>7. IsStart(rx.frame) => run <= rx.frame.run
  BY <1>3, <1>4
<1>8. QED
  BY <1>1, <1>2, <1>4, <1>6, <1>7 DEF StartsAreLater

LEMMA ObeyIsStart ==
  ASSUME Strong, StartsAreLater, attached <= 1, Poll, PollOrder[main.k] \in flags
  PROVE  PollOrder[main.k] = "start" => IsStart(latest.frame) /\ run < latest.frame.run
<1> SUFFICES ASSUME PollOrder[main.k] = "start"
             PROVE  IsStart(latest.frame) /\ run < latest.frame.run
  OBVIOUS
<1>1. "start" \in FlagOf(latest.frame.kind)
  BY DEF Strong, ServerInv, FlagIsLatest
<1>2. IsStart(latest.frame)
  BY <1>1 DEF FlagOf, IsStart
<1>3. PICK k \in DOMAIN ResetOrder : ResetOrder[k] = "start"
  BY DEF ResetOrder
<1>4. ~IsObeyed(latest.number)
  BY <1>3 DEF IsObeyed, Poll, Strong, ServerInv, ObeyedIsReset
<1>5. QED
  BY <1>2, <1>4 DEF StartsAreLater

LEMMA PollStarts ==
  ASSUME Strong, StartsAreLater, Poll, UNCHANGED producer
  PROVE  StartsAreLater'
<1> SUFFICES ASSUME attached <= 1 PROVE StartsAreLater'
  BY DEF StartsAreLater, producer
<1>1. UNCHANGED <<commands, rx, latest, attached>>
  BY DEF Poll, producer, link
<1>2. Unseen' = Unseen
  BY <1>1 DEF Unseen
<1>3. run \in Nat /\ latest.frame.run \in Nat
  BY AttachedTypes, RunsAreNaturals
<1>4. CASE PollOrder[main.k] \notin flags
  <2>1. UNCHANGED <<run, obeyed>>
    BY <1>4 DEF Poll
  <2>2. QED
    BY <1>1, <1>2, <2>1 DEF StartsAreLater, IsObeyed
<1>5. CASE PollOrder[main.k] \in flags
  <2>1. Obey(PollOrder[main.k])
    BY <1>5 DEF Poll
  <2>2. /\ obeyed' = Append(obeyed, latest.number)
        /\ run' = IF PollOrder[main.k] = "start" THEN latest.frame.run ELSE run
    BY <2>1 DEF Obey
  <2>3. IsObeyed(latest.number)'
    <3>1. obeyed \in Seq(Nat) /\ latest.number \in Nat
      BY DEF Strong, ServerInv, ServerTypeOK
    <3>2. Len(obeyed) + 1 \in DOMAIN obeyed' /\ obeyed'[Len(obeyed) + 1] = latest.number
      BY <2>2, <3>1, AppendProperties, LenProperties
    <3>3. QED
      BY <1>1, <3>2 DEF IsObeyed
  <2>4. IsStart(latest.frame) => run' <= latest.frame.run
    BY <1>3, <2>2 DEF StartsAreLater
  <2>5. \A f \in Unseen : IsStart(f) =>
          run' < f.run /\ (IsStart(latest.frame) => latest.frame.run < f.run)
    BY <1>5, <2>2, ObeyIsStart DEF StartsAreLater
  <2>6. QED
    BY <1>1, <1>2, <2>3, <2>4, <2>5 DEF StartsAreLater
<1>6. QED
  BY <1>4, <1>5

(* A command that is sent: if it is a start, of a run after all others.    *)
LEMMA CommandStarts ==
  ASSUME Strong, StartsAreLater, UNCHANGED server, NEW C, NEW kind \in CommandBytes,
         attached' <= 1 => attached <= 1, run_number' \in Runs,
         kind = "start" => run_number < run_number',
         GenFrame(C, kind, run_number')
  PROVE  StartsAreLater'
<1> SUFFICES ASSUME attached <= 1 PROVE StartsAreLater'
  BY DEF StartsAreLater
<1> DEFINE frame == [kind |-> kind, run |-> run_number']
<1>1. frame \in CommandFrame /\ (IsStart(frame) <=> kind = "start") /\ frame.run = run_number'
  BY DEF CommandFrame, IsStart
<1>2. \A c \in Clients : commands'[c] = commands[c] \/ commands'[c] = Append(commands[c], frame)
  BY DEF GenFrame, SendCommand
<1>3. UNCHANGED <<rx, latest, run, obeyed>>
  BY DEF server
<1> HIDE DEF frame
<1>4. /\ commands \in [Clients -> Seq(CommandFrame)]
      /\ run \in Nat /\ rx.frame.run \in Nat /\ latest.frame.run \in Nat
      /\ run_number \in Nat /\ run_number' \in Nat
  BY AttachedTypes, RunsAreNaturals DEF Strong, SessionInv, TypeOK, ProducerTypeOK
<1>5. /\ run <= run_number /\ rx.frame.run <= run_number /\ latest.frame.run <= run_number
      /\ \A c \in Clients : \A f \in In(commands[c]) : f.run <= run_number /\ f.run \in Nat
  <2>1. \A c \in Clients : \A f \in In(commands[c]) : f \in CommandFrame
    BY <1>4, ElementOfSeq, LenProperties DEF In
  <2>2. \A c \in Clients : \A f \in In(commands[c]) : f.run <= run_number
    BY DEF Strong, SessionInv, NothingOfLaterRuns, UpTo, In
  <2>3. QED
    BY <2>1, <2>2, RunsAreNaturals DEF Strong, SessionInv, NothingOfLaterRuns
<1>6. IsStart(frame) =>
        /\ run < frame.run /\ rx.frame.run < frame.run /\ latest.frame.run < frame.run
        /\ \A c \in Clients : \A f \in In(commands[c]) : f.run < frame.run
  BY <1>1, <1>4, <1>5
<1>7. ASSUME NEW c \in Clients
      PROVE  In(commands'[c]) \subseteq In(commands[c]) \union {frame} /\ StartsInOrder(commands'[c])
  <2>1. In(Append(commands[c], frame)) = In(commands[c]) \union {frame}
    BY <1>1, <1>4, InAppend
  <2>2. StartsInOrder(Append(commands[c], frame))
    <3>1. StartsInOrder(commands[c])
      BY DEF StartsAreLater
    <3>2. IsStart(frame) => \A f \in In(commands[c]) : IsStart(f) => f.run < frame.run
      BY <1>6
    <3>3. commands[c] \in Seq(CommandFrame)
      BY <1>4
    <3>4. QED
      BY <1>1, <3>1, <3>2, <3>3, AppendStarts
  <2>3. QED
    BY <1>2, <2>1, <2>2 DEF StartsAreLater
<1>8. ASSUME NEW f \in Unseen', IsStart(f)
      PROVE  run < f.run /\ (IsStart(latest.frame) => latest.frame.run < f.run)
  <2>1. f \in Unseen \/ f = frame
    BY <1>3, <1>7, <1>8 DEF Unseen
  <2>2. QED
    BY <1>6, <1>8, <2>1 DEF StartsAreLater
<1>9. ASSUME NEW c \in Clients, IsStart(rx.frame), NEW f \in In(commands'[c]), IsStart(f)
      PROVE  rx.frame.run < f.run
  BY <1>6, <1>7, <1>9 DEF StartsAreLater
<1>10. IsStart(latest.frame) =>
         run <= latest.frame.run /\ (~IsObeyed(latest.number) => run < latest.frame.run)
  BY DEF StartsAreLater
<1>11. IsObeyed(latest.number)' <=> IsObeyed(latest.number)
  BY <1>3 DEF IsObeyed
<1>12. QED
  BY <1>3, <1>7, <1>8, <1>9, <1>10, <1>11 DEF StartsAreLater

LEMMA KeepsStarts ==
  ASSUME Strong, OnlyAttached, StartsAreLater, [Next]_vars
  PROVE  StartsAreLater'
<1>1. attached' <= 1 => attached <= 1
  BY KeepsAttached
<1>2. run_number \in Runs /\ run_number \in Nat
  BY RunsAreNaturals DEF Strong, SessionInv, TypeOK, ProducerTypeOK
<1>3. ASSUME NEW c \in Clients, AcceptFrame(c), UNCHANGED producer PROVE StartsAreLater'
  BY <1>3, AcceptStarts
<1>4. CASE ReceiverSets /\ UNCHANGED producer
  BY <1>4, SetsStarts
<1>5. CASE Poll /\ UNCHANGED producer
  BY <1>5, PollStarts
<1>6. CASE UNCHANGED <<commands, rx, latest, obeyed, run>>
  BY <1>1, <1>6 DEF StartsAreLater, Unseen, IsObeyed
<1>7. CASE ReceiverResets /\ UNCHANGED producer
  <2>1. UNCHANGED <<commands, latest, obeyed, run>> /\ rx'.frame = rx.frame
    BY <1>7 DEF ReceiverResets, link, Strong, ServerInv, ServerTypeOK
  <2>2. QED
    BY <1>1, <2>1 DEF StartsAreLater, Unseen, IsObeyed
<1>8. CASE (MainResets \/ Generate(Attached)) /\ UNCHANGED producer
  BY <1>6, <1>8 DEF MainResets, Generate, link
<1>9. CASE (DoInitialise \/ ConfigureOpens \/ DoStopRun \/ DoReset) /\ UNCHANGED server
  <2>1. \E C, kind : kind \in CommandBytes \ {"start"} /\ GenFrame(C, kind, run_number')
    BY <1>9 DEF DoInitialise, ConfigureOpens, DoStopRun, DoReset, CommandBytes
  <2>2. run_number' \in Runs
    BY <1>2, <1>9 DEF DoInitialise, ConfigureOpens, DoStopRun, DoReset
  <2>3. QED
    BY <1>1, <1>9, <2>1, <2>2, CommandStarts
<1>10. CASE DoStartRun /\ UNCHANGED server
  <2>1. run_number' = run_number + 1 /\ run_number < MaxRuns
    BY <1>10 DEF DoStartRun
  <2>2. run_number' \in Runs /\ run_number < run_number'
    BY <1>2, <2>1, LinkAssumption DEF Runs
  <2>3. "start" \in CommandBytes /\ GenFrame(Attached, "start", run_number')
    BY <1>10 DEF DoStartRun, CommandBytes
  <2>4. QED
    BY <1>1, <1>10, <2>2, <2>3, CommandStarts
<1>11. CASE (DoConfigure \/ StopCloses) /\ UNCHANGED server
  BY <1>6, <1>11 DEF DoConfigure, StopCloses, link, server
<1>12. ASSUME NEW c \in Clients, ClientThread(c), UNCHANGED server PROVE StartsAreLater'
  BY <1>6, <1>12 DEF ClientThread, ReceiveFrame, TakeFrame, WriteFrame, SendFrame, Handed,
                     link, server
<1>13. CASE UNCHANGED vars
  BY <1>6, <1>13 DEF vars, link, server
<1>14. QED
  BY <1>3, <1>4, <1>5, <1>7, <1>8, <1>9, <1>10, <1>11, <1>12, <1>13
  DEF Next, Receiver, MainLoop, RunControl

-----------------------------------------------------------------------------
(* The frames.                                                             *)
LEMMA InitLine == Init => FramesInLine
<1> SUFFICES ASSUME Init PROVE FramesInLine
  OBVIOUS
<1>1. /\ sent = << >> /\ \A r \in Runs : files[r] = << >>
      /\ \A c \in Clients : frames[c] = << >> /\ delivering[c].to = {}
  BY DEF Init, LinkInit, ProducerInit, Idle
<1>2. In(<< >>) = {} /\ InOrder(<< >>)
  BY DEF In, InOrder
<1>3. \A c \in Clients : \A slave : Held(c, slave) = {}
  BY <1>1 DEF Held
<1>4. QED
  BY <1>1, <1>2, <1>3 DEF FramesInLine, Line, Ahead

(* All frames are of the type.                                             *)
LEMMA FrameTypes ==
  ASSUME Strong
  PROVE  /\ In(sent) \subseteq DataFrame
         /\ \A r \in Runs : In(files[r]) \subseteq DataFrame
         /\ \A c \in Clients : /\ In(frames[c]) \subseteq DataFrame
                              /\ \A slave : Held(c, slave) \subseteq DataFrame
<1>1. \A s \in Seq(DataFrame) : In(s) \subseteq DataFrame
  BY ElementOfSeq, LenProperties DEF In
<1>2. QED
  BY <1>1, AttachedTypes DEF Held

LEMMA MadeKept ==
  ASSUME Strong, FramesInLine, UNCHANGED <<frames, delivering, sent, files>>,
         attached' <= 1 => attached <= 1 /\ \A f \in DataFrame : Made(f) => Made(f)'
  PROVE  FramesInLine'
<1> SUFFICES ASSUME attached' <= 1 PROVE FramesInLine'
  BY DEF FramesInLine
<1>1. FramesInLine /\ attached <= 1 /\ \A f \in DataFrame : Made(f) => Made(f)'
  OBVIOUS
<1>2. \A c \in Clients : \A slave : Held(c, slave)' = Held(c, slave)
  BY DEF Held
<1>3. Line(sent, "sender")'
  BY <1>1, <1>2, FrameTypes DEF FramesInLine, Line
<1>4. \A r \in Runs : Line(files[r], "writer")'
  BY <1>1, <1>2, FrameTypes DEF FramesInLine, Line
<1>5. \A c \in Clients : \A slave \in {"writer", "sender"} :
        /\ InOrder(frames[c]) /\ Ahead(Held(c, slave), In(frames[c]))
        /\ \A f \in Held(c, slave) \union In(frames[c]) : Made(f)'
  BY <1>1, FrameTypes DEF FramesInLine
<1>6. QED
  BY <1>2, <1>3, <1>4, <1>5 DEF FramesInLine

LEMMA PollLine ==
  ASSUME Strong, StartsAreLater, FramesInLine, Poll, UNCHANGED producer
  PROVE  FramesInLine'
<1>1. UNCHANGED <<frames, delivering, sent, files, attached>>
  BY DEF Poll, producer, link
<1>2. /\ run \in Nat /\ latest.frame.run \in Nat
      /\ \A f \in DataFrame : f.run \in Nat /\ f.count \in Nat
  BY AttachedTypes, RunsAreNaturals DEF DataFrame
<1>3. ASSUME attached <= 1, NEW f \in DataFrame, Made(f) PROVE Made(f)'
  <2>1. CASE PollOrder[main.k] \notin flags
    <3>1. UNCHANGED <<run, running, count>>
      BY <2>1 DEF Poll
    <3>2. QED
      BY <1>3, <3>1 DEF Made
  <2>2. CASE PollOrder[main.k] \in flags /\ PollOrder[main.k] = "start"
    <3>1. run' = latest.frame.run
      BY <2>2 DEF Poll, Obey
    <3>2. run < latest.frame.run
      BY <1>3, <2>2, ObeyIsStart
    <3>3. f.run <= run
      BY <1>2, <1>3 DEF Made
    <3>4. f.run < run'
      BY <1>2, <3>1, <3>2, <3>3
    <3>5. QED
      BY <3>4 DEF Made
  <2>3. CASE PollOrder[main.k] \in flags /\ PollOrder[main.k] \in {"stop", "reset"}
    <3>1. run' = run /\ running' = FALSE
      BY <2>3 DEF Poll, Obey
    <3>2. QED
      BY <1>3, <3>1 DEF Made
  <2>4. CASE /\ PollOrder[main.k] \in flags
             /\ PollOrder[main.k] \notin {"start", "stop", "reset"}
    <3>1. UNCHANGED <<run, running, count>>
      BY <2>4 DEF Poll, Obey, CountAfter
    <3>2. QED
      BY <1>3, <3>1 DEF Made
  <2>5. QED
    BY <2>1, <2>2, <2>3, <2>4
<1>4. QED
  BY <1>1, <1>3, MadeKept

(* The generator goes on after all that has been made.                     *)
LEMMA GenerateLine ==
  ASSUME Strong, FramesInLine, NEW connected, Generate(connected), UNCHANGED producer
  PROVE  FramesInLine'
<1> SUFFICES ASSUME attached <= 1 PROVE FramesInLine'
  BY DEF FramesInLine, producer
<1>1. UNCHANGED <<delivering, sent, files, attached, run, running>>
  BY DEF Generate, producer
<1>2. CASE UNCHANGED <<frames, count>>
  <2>1. \A f \in DataFrame : Made(f) => Made(f)'
    BY <1>1, <1>2 DEF Made
  <2>2. QED
    BY <1>1, <1>2, <2>1, MadeKept
<1>3. CASE ~UNCHANGED <<frames, count>>
  <2>1. PICK new \in DataFrame : new = [run |-> run, count |-> count]
    BY AttachedTypes DEF DataFrame, Strong, SessionInv, TypeOK, ServerTypeOK
  <2>2. running /\ count' = count + 1
    BY <1>3 DEF Generate
  <2>3. new.run = run /\ new.count = count /\ count \in Nat /\ run \in Nat
    BY <2>1, AttachedTypes
  <2>4. \E c \in connected : frames' = [frames EXCEPT ![c] = Append(frames[c], new)]
    BY <1>3, <2>1 DEF Generate
  <2>5. \A f \in DataFrame : f.run \in Nat /\ f.count \in Nat
    BY RunsAreNaturals DEF DataFrame
  <2>6. \A f \in DataFrame : Made(f) => Before(f, new)
    BY <2>2, <2>3, <2>5 DEF Made, Before
  <2>7. \A f \in DataFrame : Made(f) => Made(f)'
    <3>1. \A n \in Nat : n < count => n < count + 1
      BY <2>3
    <3>2. QED
      BY <1>1, <2>2, <2>5, <3>1 DEF Made
  <2>8. Made(new)'
    BY <1>1, <2>2, <2>3 DEF Made
  <2>9. \A d \in Clients : \A slave : Held(d, slave)' = Held(d, slave)
    BY <1>1 DEF Held
  <2>10. ASSUME NEW d \in Clients
         PROVE  /\ frames'[d] = frames[d] \/ frames'[d] = Append(frames[d], new)
                /\ In(frames'[d]) \subseteq In(frames[d]) \union {new}
                /\ \A F \in SUBSET DataFrame :
                     Ahead(F, In(frames[d])) /\ (\A f \in F : Made(f)) =>
                       Ahead(F, In(frames'[d]))
    <3>1. frames'[d] = frames[d] \/ frames'[d] = Append(frames[d], new)
      BY <2>4, AttachedTypes
    <3>2. In(Append(frames[d], new)) = In(frames[d]) \union {new}
      BY InAppend, AttachedTypes
    <3>3. QED
      BY <2>6, <3>1, <3>2 DEF Ahead
  <2>11. ASSUME NEW s, NEW slave \in {"writer", "sender"}, In(s) \subseteq DataFrame,
                Line(s, slave)
         PROVE  /\ InOrder(s) /\ \A f \in In(s) : Made(f)'
                /\ \A d \in Clients : Ahead(In(s), Held(d, slave) \union In(frames'[d]))
    <3>1. \A d \in Clients : /\ Ahead(In(s), Held(d, slave))
                              /\ Ahead(In(s), In(frames[d]))
      BY <2>11 DEF Line, Ahead
    <3>2. \A d \in Clients : Ahead(In(s), In(frames'[d]))
      BY <2>10, <2>11, <3>1 DEF Line
    <3>3. QED
      BY <2>7, <2>11, <3>1, <3>2 DEF Line, Ahead
  <2>12. Line(sent, "sender")'
    <3>1. Line(sent, "sender") /\ In(sent) \subseteq DataFrame
      BY FrameTypes DEF FramesInLine
    <3>2. QED
      BY <1>1, <2>9, <2>11, <3>1 DEF Line
  <2>13. ASSUME NEW r \in Runs PROVE Line(files[r], "writer")'
    <3>1. Line(files[r], "writer") /\ In(files[r]) \subseteq DataFrame
      BY FrameTypes DEF FramesInLine
    <3>2. QED
      BY <1>1, <2>9, <2>11, <3>1 DEF Line
  <2>14. ASSUME NEW d \in Clients, NEW slave \in {"writer", "sender"}
         PROVE  /\ InOrder(frames'[d]) /\ Ahead(Held(d, slave), In(frames'[d]))
                /\ \A f \in Held(d, slave) \union In(frames'[d]) : Made(f)'
    <3>1. /\ InOrder(frames[d]) /\ Ahead(Held(d, slave), In(frames[d]))
          /\ \A f \in Held(d, slave) \union In(frames[d]) : Made(f)
      BY DEF FramesInLine
    <3>2. /\ Held(d, slave) \subseteq DataFrame /\ In(frames[d]) \subseteq DataFrame
          /\ frames[d] \in Seq(DataFrame)
      BY FrameTypes, AttachedTypes
    <3>3. Ahead(In(frames[d]), {new})
      BY <2>6, <3>1, <3>2 DEF Ahead
    <3>4. InOrder(Append(frames[d], new))
      BY <3>1, <3>2, <3>3, AppendInOrder
    <3>5. Ahead(Held(d, slave), In(frames'[d]))
      BY <2>10, <3>1, <3>2
    <3>6. \A f \in Held(d, slave) \union In(frames'[d]) : Made(f)'
      BY <2>7, <2>8, <2>10, <3>1, <3>2
    <3>7. QED
      BY <2>10, <3>1, <3>4, <3>5, <3>6
  <2>15. QED
    BY <2>9, <2>12, <2>13, <2>14 DEF FramesInLine
<1>4. QED
  BY <1>2, <1>3

(* The thread of a client takes the first frame of its connection.         *)
LEMMA ReceiveLine ==
  ASSUME Strong, FramesInLine, NEW c \in Clients, ReceiveFrame(c), UNCHANGED server
  PROVE  FramesInLine'
<1> SUFFICES ASSUME attached <= 1 PROVE FramesInLine'
  BY DEF FramesInLine, ReceiveFrame
<1>1. UNCHANGED <<sent, files, attached, run, running, count>>
  BY DEF ReceiveFrame, server
<1>2. /\ delivering[c].to = {} /\ frames[c] # << >>
      /\ frames' = [frames EXCEPT ![c] = Tail(frames[c])]
      /\ delivering' = [delivering EXCEPT
           ![c] = [frame |-> Head(frames[c]), to |-> {"writer", "sender"}]]
  BY DEF ReceiveFrame, TakeFrame
<1>3. /\ In(frames[c]) = {Head(frames[c])} \union In(Tail(frames[c]))
      /\ InOrder(Tail(frames[c])) /\ Ahead({Head(frames[c])}, In(Tail(frames[c])))
  <2>1. InOrder(frames[c])
    BY DEF FramesInLine
  <2>2. frames[c] \in Seq(DataFrame)
    BY AttachedTypes
  <2>3. QED
    BY <1>2, <2>1, <2>2, InTail
<1>4. ASSUME NEW d \in Clients, NEW slave \in {"writer", "sender"}
      PROVE  /\ Held(d, slave)' \union In(frames'[d]) = Held(d, slave) \union In(frames[d])
             /\ InOrder(frames'[d]) /\ Ahead(Held(d, slave)', In(frames'[d]))
  <2>1. CASE d = c
    <3>1. /\ delivering'[c] = [frame |-> Head(frames[c]), to |-> {"writer", "sender"}]
          /\ frames'[c] = Tail(frames[c])
      BY <1>2, AttachedTypes
    <3>2. Held(c, slave)' = {Head(frames[c])} /\ Held(c, slave) = {}
      BY <1>2, <3>1 DEF Held
    <3>3. QED
      BY <1>3, <2>1, <3>1, <3>2
  <2>2. CASE d # c
    <3>1. delivering'[d] = delivering[d] /\ frames'[d] = frames[d]
      BY <1>2, <2>2, AttachedTypes
    <3>2. Held(d, slave)' = Held(d, slave)
      BY <3>1 DEF Held
    <3>3. QED
      BY <3>1, <3>2 DEF FramesInLine
  <2>3. QED
    BY <2>1, <2>2
<1>5. \A f : Made(f) => Made(f)'
  BY <1>1 DEF Made
<1>6. Line(sent, "sender")'
  BY <1>1, <1>4, <1>5 DEF FramesInLine, Line
<1>7. \A r \in Runs : Line(files[r], "writer")'
  BY <1>1, <1>4, <1>5 DEF FramesInLine, Line
<1>8. ASSUME NEW d \in Clients, NEW slave \in {"writer", "sender"}
      PROVE  \A f \in Held(d, slave)' \union In(frames'[d]) : Made(f)'
  BY <1>4, <1>5 DEF FramesInLine
<1>9. QED
  BY <1>4, <1>6, <1>7, <1>8 DEF FramesInLine

(* A slave gets the frame that the thread holds: whatever else is held or  *)
(* under way comes after it.                                               *)
LEMMA HandLine ==
  ASSUME Strong, OnlyAttached, FramesInLine, attached <= 1, NEW c \in Clients,
         NEW slave \in {"writer", "sender"}, Handed(c, slave), UNCHANGED server
  PROVE  /\ \A d \in Clients : \A other \in {"writer", "sender"} :
              Held(d, other)' \subseteq Held(d, other) /\ frames'[d] = frames[d]
         /\ \A f : Made(f) => Made(f)'
         /\ delivering[c].frame \in DataFrame /\ Made(delivering[c].frame)
         /\ \A s \in Seq(DataFrame) : Line(s, slave) =>
              LET t == Append(s, delivering[c].frame)
              IN  /\ InOrder(t) /\ \A f \in In(t) : Made(f)
                  /\ \A d \in Clients : Ahead(In(t), Held(d, slave)' \union In(frames[d]))
<1>1. /\ slave \in delivering[c].to /\ frames' = frames
      /\ delivering' = [delivering EXCEPT
           ![c] = IF delivering[c].to = {slave} THEN Idle
                  ELSE [delivering[c] EXCEPT !.to = delivering[c].to \ {slave}]]
      /\ UNCHANGED <<run, running, count>>
  BY DEF Handed, link, server
<1>2. delivering[c] \in [frame : DataFrame, to : SUBSET {"writer", "sender"}]
  BY AttachedTypes
<1>3. /\ delivering'[c].to = delivering[c].to \ {slave}
      /\ delivering'[c].to # {} => delivering'[c].frame = delivering[c].frame
  <2>1. CASE delivering[c].to = {slave}
    <3>1. delivering'[c] = Idle
      BY <1>1, <2>1, AttachedTypes
    <3>2. QED
      BY <2>1, <3>1 DEF Idle
  <2>2. CASE delivering[c].to # {slave}
    <3>1. delivering'[c] = [delivering[c] EXCEPT !.to = delivering[c].to \ {slave}]
      BY <1>1, <2>2, AttachedTypes
    <3>2. QED
      BY <1>2, <3>1
  <2>3. QED
    BY <2>1, <2>2
<1>4. \A d \in Clients : d # c => delivering'[d] = delivering[d]
  BY <1>1, AttachedTypes
<1>5. ASSUME NEW d \in Clients, NEW other \in {"writer", "sender"}
      PROVE  Held(d, other)' \subseteq Held(d, other)
  BY <1>3, <1>4 DEF Held
<1>6. Held(c, slave)' = {} /\ Held(c, slave) = {delivering[c].frame}
  BY <1>1, <1>3 DEF Held
<1>7. c \in Attached
  BY <1>1 DEF OnlyAttached
<1>8. \A d \in Clients : d # c => In(frames[d]) = {} /\ Held(d, slave) = {}
  BY <1>7, OnlyOne DEF In, Held
<1>9. \A f : Made(f) => Made(f)'
  BY <1>1 DEF Made
<1>10. ASSUME NEW s \in Seq(DataFrame), Line(s, slave)
       PROVE  LET t == Append(s, delivering[c].frame)
              IN  /\ InOrder(t) /\ \A f \in In(t) : Made(f)
                  /\ \A d \in Clients : Ahead(In(t), Held(d, slave)' \union In(frames[d]))
  <2> DEFINE x == delivering[c].frame
  <2>1. x \in DataFrame /\ Made(x) /\ Ahead({x}, In(frames[c]))
    BY <1>2, <1>6 DEF FramesInLine
  <2>2. /\ InOrder(s) /\ \A f \in In(s) : Made(f)
        /\ Ahead(In(s), {x}) /\ Ahead(In(s), In(frames[c]))
    BY <1>6, <1>10 DEF Line, Ahead
  <2> HIDE DEF x
  <2>3. In(Append(s, x)) = In(s) \union {x} /\ InOrder(Append(s, x))
    BY <2>1, <2>2, InAppend, AppendInOrder
  <2>4. ASSUME NEW d \in Clients
        PROVE  Ahead(In(Append(s, x)), Held(d, slave)' \union In(frames[d]))
    <3>1. CASE d = c
      BY <1>6, <2>1, <2>2, <2>3, <3>1 DEF Ahead
    <3>2. CASE d # c
      BY <1>5, <1>8, <3>2 DEF Ahead
    <3>3. QED
      BY <3>1, <3>2
  <2>5. \A f \in In(Append(s, x)) : Made(f)
    BY <2>1, <2>2, <2>3
  <2>6. QED
    BY <2>3, <2>4, <2>5 DEF x
<1>11. Made(delivering[c].frame)
  BY <1>6 DEF FramesInLine
<1>12. QED
  BY <1>1, <1>2, <1>5, <1>9, <1>10, <1>11

LEMMA WriteLine ==
  ASSUME Strong, OnlyAttached, FramesInLine, NEW c \in Clients, UNCHANGED server,
         WriteFrame(c) \/ SendFrame(c)
  PROVE  FramesInLine'
<1> SUFFICES ASSUME attached <= 1 PROVE FramesInLine'
  BY DEF FramesInLine, WriteFrame, SendFrame, Handed
<1>1. PICK slave \in {"writer", "sender"} :
        /\ Handed(c, slave)
        /\ slave = "writer" => WriteFrame(c)
        /\ slave = "sender" => SendFrame(c)
  BY DEF WriteFrame, SendFrame
<1>2. /\ \A d \in Clients : \A other \in {"writer", "sender"} :
           Held(d, other)' \subseteq Held(d, other) /\ frames'[d] = frames[d]
      /\ \A f : Made(f) => Made(f)'
  BY <1>1, HandLine
<1>3. \A s \in Seq(DataFrame) : Line(s, slave) =>
        LET t == Append(s, delivering[c].frame)
        IN  /\ InOrder(t) /\ \A f \in In(t) : Made(f)
            /\ \A d \in Clients : Ahead(In(t), Held(d, slave)' \union In(frames[d]))
  BY <1>1, HandLine
<1>4. ASSUME NEW s, NEW other \in {"writer", "sender"}, Line(s, other)
      PROVE  /\ InOrder(s) /\ \A f \in In(s) : Made(f)'
             /\ \A d \in Clients : Ahead(In(s), Held(d, other)' \union In(frames'[d]))
  BY <1>2, <1>4 DEF Line, Ahead
<1>5. Line(sent, "sender")'
  <2>1. CASE slave = "writer"
    <3>1. sent' = sent /\ Line(sent, "sender")
      BY <1>1, <2>1 DEF WriteFrame, FramesInLine
    <3>2. QED
      BY <1>4, <3>1 DEF Line
  <2>2. CASE slave = "sender"
    <3>1. sent' = Append(sent, delivering[c].frame) /\ Line(sent, "sender")
          /\ sent \in Seq(DataFrame)
      BY <1>1, <2>2, AttachedTypes DEF SendFrame, FramesInLine
    <3>2. /\ InOrder(sent') /\ \A f \in In(sent') : Made(f)
          /\ \A d \in Clients : Ahead(In(sent'), Held(d, "sender")' \union In(frames[d]))
      BY <1>3, <2>2, <3>1
    <3>3. QED
      BY <1>2, <3>2 DEF Line
  <2>3. QED
    BY <2>1, <2>2
<1>6. ASSUME NEW r \in Runs PROVE Line(files[r], "writer")'
  <2>1. CASE slave = "writer" /\ r \in writer
    <3>1. files'[r] = Append(files[r], delivering[c].frame) /\ Line(files[r], "writer")
          /\ files[r] \in Seq(DataFrame)
      BY <1>1, <2>1, AttachedTypes DEF WriteFrame, FramesInLine
    <3>2. /\ InOrder(files'[r]) /\ \A f \in In(files'[r]) : Made(f)
          /\ \A d \in Clients : Ahead(In(files'[r]), Held(d, "writer")' \union In(frames[d]))
      BY <1>3, <2>1, <3>1
    <3>3. QED
      BY <1>2, <3>2 DEF Line
  <2>2. CASE ~(slave = "writer" /\ r \in writer)
    <3>1. files'[r] = files[r] /\ Line(files[r], "writer")
      BY <1>1, <2>2 DEF WriteFrame, SendFrame, FramesInLine
    <3>2. QED
      BY <1>4, <3>1 DEF Line
  <2>3. QED
    BY <2>1, <2>2
<1>7. ASSUME NEW d \in Clients, NEW other \in {"writer", "sender"}
      PROVE  /\ InOrder(frames'[d]) /\ Ahead(Held(d, other)', In(frames'[d]))
             /\ \A f \in Held(d, other)' \union In(frames'[d]) : Made(f)'
  BY <1>2 DEF FramesInLine, Ahead
<1>8. QED
  BY <1>5, <1>6, <1>7 DEF FramesInLine

LEMMA KeepsLine ==
  ASSUME Strong, OnlyAttached, StartsAreLater, FramesInLine, [Next]_vars
  PROVE  FramesInLine'
<1>1. attached' <= 1 => attached <= 1
  BY KeepsAttached
<1>2. CASE UNCHANGED <<frames, delivering, sent, files, run, running, count>>
  <2>1. \A f : Made(f) => Made(f)'
    BY <1>2 DEF Made
  <2>2. QED
    BY <1>1, <1>2, <2>1, MadeKept
<1>3. CASE Poll /\ UNCHANGED producer
  BY <1>3, PollLine
<1>4. CASE Generate(Attached) /\ UNCHANGED producer
  BY <1>4, GenerateLine
<1>5. CASE (Receiver \/ MainResets) /\ UNCHANGED producer
  BY <1>2, <1>5 DEF Receiver, AcceptFrame, ReceiverResets, ReceiverSets, MainResets,
                    link, producer
<1>6. CASE RunControl /\ UNCHANGED server
  BY <1>2, <1>6 DEF RunControl, DoInitialise, DoConfigure, ConfigureOpens, DoStartRun,
                    DoStopRun, StopCloses, DoReset, GenFrame, SendCommand, link, server
<1>7. ASSUME NEW c \in Clients, ClientThread(c), UNCHANGED server PROVE FramesInLine'
  BY <1>7, ReceiveLine, WriteLine DEF ClientThread
<1>8. CASE UNCHANGED vars
  BY <1>2, <1>8 DEF vars, link, server, producer
<1>9. QED
  BY <1>3, <1>4, <1>5, <1>6, <1>7, <1>8 DEF Next, MainLoop

(* The invariants of the runs, of which the above is a part: ServerInv     *)
(* holds of the composed system too.                                       *)
THEOREM RunInvariant == Spec => [](ServerInv /\ RunInv)
<1> DEFINE Inv == Strong /\ OnlyAttached /\ StartsAreLater /\ FramesInLine
<1>1. Init => Inv
  BY InitStrong, InitAttached, InitStarts, InitLine
<1>2. Inv /\ [Next]_vars => OnlyAttached' /\ StartsAreLater' /\ FramesInLine'
  BY KeepsAttached, KeepsStarts, KeepsLine
<1>3. Inv => ServerInv /\ RunInv
  BY DEF Strong, RunInv
<1>4. QED
  BY <1>1, <1>2, <1>3, AlwaysStrong, PTL DEF Spec

(* With one client the files and the data collector get the frames in the  *)
(* order in which they were generated, none of them twice.                 *)
THEOREM FramesAlwaysInOrder == Spec => []FramesInOrder
<1>1. RunInv => FramesInOrder
  BY DEF RunInv, FramesInLine, Line, FramesInOrder
<1>2. QED
  BY <1>1, RunInvariant, PTL

=============================================================================
