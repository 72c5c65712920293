-------------------------- MODULE ConverterProofs --------------------------
(***************************************************************************)
(* Proofs about Converter: its types, that every front of the merge is     *)
(* visible when a round is aligned, and that it implements EventBuilding.  *)
(***************************************************************************)
EXTENDS Converter, SequenceTheorems, FiniteSetTheorems, TLAPS

GroupSet == UNION {[F -> Packet] : F \in SUBSET Files}

OutputType == output \in Seq([number : Int, packets : GroupSet])

LEMMA WindowIsNatural == Window \in Nat /\ Window <= TimestampMax + 1
  BY WindowAssumption DEF Window

-----------------------------------------------------------------------------
(* Facts about one queue q and the packets u its file has not given yet.   *)

(* Pushing the next packet moves it from the file to the queue.            *)
LEMMA PushKeepsConcat ==
  ASSUME NEW S, NEW q \in Seq(S), NEW u \in Seq(S), u # << >>
  PROVE  Append(q, Head(u)) \o Tail(u) = q \o u
<1> DEFINE l == Append(q, Head(u)) \o Tail(u)
           r == q \o u
<1>1. /\ Head(u) \in S /\ Head(u) = u[1]
      /\ Tail(u) \in Seq(S)
      /\ Len(Tail(u)) = Len(u) - 1
      /\ \A i \in 1 .. Len(Tail(u)) : Tail(u)[i] = u[i+1]
  BY HeadTailProperties
<1>2. /\ Append(q, Head(u)) \in Seq(S)
      /\ Len(Append(q, Head(u))) = Len(q) + 1
      /\ \A i \in 1 .. Len(q) : Append(q, Head(u))[i] = q[i]
      /\ Append(q, Head(u))[Len(q) + 1] = u[1]
  BY <1>1, AppendProperties
<1>3. /\ l \in Seq(S)
      /\ Len(l) = Len(q) + 1 + Len(Tail(u))
      /\ \A i \in 1 .. (Len(q) + 1 + Len(Tail(u))) :
           l[i] = IF i <= Len(q) + 1 THEN Append(q, Head(u))[i]
                                     ELSE Tail(u)[i - (Len(q) + 1)]
  BY <1>1, <1>2, ConcatProperties
<1>4. /\ r \in Seq(S)
      /\ Len(r) = Len(q) + Len(u)
      /\ \A i \in 1 .. (Len(q) + Len(u)) :
           r[i] = IF i <= Len(q) THEN q[i] ELSE u[i - Len(q)]
  BY ConcatProperties
<1>5. Len(q) \in Nat /\ Len(u) \in Nat
  BY LenProperties
<1>6. Len(l) = Len(r)
  BY <1>1, <1>3, <1>4, <1>5
<1>7. ASSUME NEW i \in 1 .. Len(l) PROVE l[i] = r[i]
  <2>1. CASE i <= Len(q)
    BY <2>1, <1>1, <1>2, <1>3, <1>4, <1>5
  <2>2. CASE i = Len(q) + 1
    BY <2>2, <1>1, <1>2, <1>3, <1>4, <1>5
  <2>3. CASE i > Len(q) + 1
    <3>1. i - (Len(q) + 1) \in 1 .. Len(Tail(u))
      BY <2>3, <1>1, <1>3, <1>5
    <3>2. l[i] = u[i - (Len(q) + 1) + 1]
      BY <2>3, <3>1, <1>1, <1>3, <1>5
    <3>3. i - (Len(q) + 1) + 1 = i - Len(q)
      BY <1>5
    <3>4. QED
      BY <2>3, <3>2, <3>3, <1>1, <1>3, <1>4, <1>5
  <2>4. QED
    BY <2>1, <2>2, <2>3, <1>3, <1>5
<1>8. QED
  BY <1>3, <1>4, <1>6, <1>7, SeqEqual

(* The front of a queue is the front of all that is pending.               *)
LEMMA FrontOfConcat ==
  ASSUME NEW S, NEW q \in Seq(S), NEW u \in Seq(S), q # << >>
  PROVE  /\ q \o u # << >>
         /\ Head(q \o u) = Head(q)
         /\ Tail(q \o u) = Tail(q) \o u
<1> DEFINE c == q \o u
<1>1. Len(q) \in Nat \ {0} /\ Len(u) \in Nat
  BY EmptySeq, LenProperties
<1>2. /\ c \in Seq(S)
      /\ Len(c) = Len(q) + Len(u)
      /\ \A i \in 1 .. (Len(q) + Len(u)) :
           c[i] = IF i <= Len(q) THEN q[i] ELSE u[i - Len(q)]
  BY ConcatProperties
<1>3. c # << >>
  BY <1>1, <1>2, EmptySeq
<1>4. /\ Tail(c) \in Seq(S)
      /\ Len(Tail(c)) = Len(c) - 1
      /\ \A i \in 1 .. Len(Tail(c)) : Tail(c)[i] = c[i+1]
  BY <1>2, <1>3, HeadTailProperties
<1>5. /\ Tail(q) \in Seq(S)
      /\ Len(Tail(q)) = Len(q) - 1
      /\ \A i \in 1 .. Len(Tail(q)) : Tail(q)[i] = q[i+1]
  BY HeadTailProperties
<1> DEFINE d == Tail(q) \o u
<1>6. /\ d \in Seq(S)
      /\ Len(d) = Len(Tail(q)) + Len(u)
      /\ \A i \in 1 .. (Len(Tail(q)) + Len(u)) :
           d[i] = IF i <= Len(Tail(q)) THEN Tail(q)[i] ELSE u[i - Len(Tail(q))]
  BY <1>5, ConcatProperties
<1>7. Len(Tail(c)) = Len(d)
  BY <1>1, <1>2, <1>4, <1>5, <1>6
<1>8. ASSUME NEW i \in 1 .. Len(Tail(c)) PROVE Tail(c)[i] = d[i]
  <2>1. Tail(c)[i] = c[i+1] /\ i + 1 \in 1 .. (Len(q) + Len(u))
    BY <1>1, <1>2, <1>4
  <2>2. CASE i + 1 <= Len(q)
    BY <2>1, <2>2, <1>1, <1>2, <1>5, <1>6
  <2>3. CASE i + 1 > Len(q)
    <3>1. i - Len(Tail(q)) = i + 1 - Len(q)
      BY <1>1, <1>5
    <3>2. c[i+1] = u[i + 1 - Len(q)]
      BY <2>1, <2>3, <1>1, <1>2
    <3>3. d[i] = u[i - Len(Tail(q))]
      BY <2>1, <2>3, <1>1, <1>5, <1>6
    <3>4. QED
      BY <2>1, <3>1, <3>2, <3>3
  <2>4. QED
    BY <2>1, <2>2, <2>3, <1>1
<1>9. Tail(c) = d
  BY <1>4, <1>6, <1>7, <1>8, SeqEqual
<1>10. Head(c) = Head(q)
  BY <1>1, <1>2, <1>3
<1>11. QED
  BY <1>3, <1>9, <1>10

-----------------------------------------------------------------------------
(* The invariant with the types of the sequences spelled out.              *)
Strong == VisitInv /\ OutputType

LEMMA StreamsTyped ==
  ASSUME NEW s \in Streams
  PROVE  s \in [Files -> Seq(Packet)] /\ Numbered(s)
  BY StreamsAssumption

LEMMA InitStrong == Init => Strong
<1> SUFFICES ASSUME Init PROVE Strong
  OBVIOUS
<1>1. stream \in [Files -> Seq(Packet)] /\ Numbered(stream)
  BY StreamsTyped DEF Init
<1>2. event_queue \in [Files -> Seq(Packet)]
  BY EmptySeq DEF Init
<1>3. /\ i_event = StartEvent + Len(output)
      /\ \A i \in DOMAIN output :
           output[i].number = StartEvent + i - 1 /\ IsGroup(output[i].packets)
  <2>1. Len(output) = 0 /\ DOMAIN output = {} /\ i_event = StartEvent
    BY DEF Init
  <2>2. QED
    BY <2>1, LimitAssumption
<1>4. TypeOK
  BY <1>1, <1>2, <1>3 DEF Init, TypeOK
<1>5. EveryFrontVisible /\ ErasedFilesAreRead
  BY DEF Init, EveryFrontVisible, ErasedFilesAreRead
<1>6. OutputType
  BY EmptySeq DEF Init, OutputType
<1>7. QED
  BY <1>4, <1>5, <1>6 DEF Strong, VisitInv

LEMMA PullPacketStrong ==
  ASSUME Strong, NEW f \in Files, PullPacket(f)
  PROVE  Strong'
<1> USE DEF Strong, VisitInv
<1>1. unread[f] \in Seq(Packet) /\ event_queue[f] \in Seq(Packet)
  BY DEF TypeOK
<1>2. Head(unread[f]) \in Packet /\ Tail(unread[f]) \in Seq(Packet)
  BY <1>1, HeadTailProperties DEF PullPacket
<1>3. /\ Append(event_queue[f], Head(unread[f])) \in Seq(Packet)
      /\ Append(event_queue[f], Head(unread[f])) # << >>
  BY <1>1, <1>2, AppendProperties
<1>4. /\ event_queue' \in [Files -> Seq(Packet)]
      /\ unread' \in [Files -> Seq(Packet)]
      /\ todo' \in SUBSET input_files'
  BY <1>2, <1>3 DEF PullPacket, Pushed, TypeOK
<1>5. TypeOK'
  BY <1>4 DEF PullPacket, TypeOK
<1>6. EveryFrontVisible'
  BY <1>3 DEF PullPacket, Pushed, EveryFrontVisible, TypeOK
<1>7. ErasedFilesAreRead'
  BY DEF PullPacket, ErasedFilesAreRead, TypeOK
<1>8. OutputType'
  BY DEF PullPacket, OutputType
<1>9. QED
  BY <1>5, <1>6, <1>7, <1>8

LEMMA FileDoneStrong ==
  ASSUME Strong, NEW f \in Files, FileDone(f)
  PROVE  Strong'
<1> USE DEF Strong, VisitInv
<1>1. TypeOK'
  BY DEF FileDone, Erased, TypeOK
<1>2. EveryFrontVisible'
  BY DEF FileDone, Erased, EveryFrontVisible, TypeOK
<1>3. ErasedFilesAreRead'
  BY DEF FileDone, Erased, ErasedFilesAreRead, TypeOK
<1>4. OutputType'
  BY DEF FileDone, OutputType
<1>5. QED
  BY <1>1, <1>2, <1>3, <1>4

(* What the aligned files contribute is a group of packets.                *)
LEMMA AlignedIsGroup ==
  ASSUME TypeOK, NEW aligned \in SUBSET Queued
  PROVE  LET group == [f \in aligned |-> Head(event_queue[f])]
         IN  IsGroup(group) /\ group \in GroupSet
<1> DEFINE group == [f \in aligned |-> Head(event_queue[f])]
<1>1. aligned \in SUBSET Files
  BY DEF Queued
<1>2. \A f \in aligned : Head(event_queue[f]) \in Packet
  BY HeadTailProperties DEF TypeOK, Queued
<1>3. group \in [aligned -> Packet]
  BY <1>2
<1>4. QED
  BY <1>1, <1>3 DEF IsGroup, GroupSet

LEMMA AlignStrong ==
  ASSUME Strong, Align
  PROVE  Strong'
<1> USE DEF Strong, VisitInv
<1> PICK earliest_ts \in Timestamp : 
      LET aligned       == InWindow(earliest_ts)
          aligned_event == [f \in aligned |-> Head(event_queue[f])]
      IN  /\ IsEarliest(earliest_ts)
          /\ event_queue' = [f \in Files |-> IF f \in aligned
                                             THEN Tail(event_queue[f])
                                             ELSE event_queue[f]]
          /\ \/ /\ Keep(aligned)
                /\ output' = Append(output, [number  |-> i_event,
                                             packets |-> aligned_event])
                /\ i_event' = i_event + 1
                /\ UNCHANGED dropped
             \/ /\ ~Keep(aligned)
                /\ dropped' = IF aligned = {} THEN dropped
                                              ELSE dropped \union {aligned_event}
                /\ UNCHANGED <<output, i_event>>
  BY DEF Align
<1> DEFINE aligned == InWindow(earliest_ts)
           event   == [f \in aligned |-> Head(event_queue[f])]
           written == [number |-> i_event, packets |-> event]
<1>1. aligned \in SUBSET Queued /\ aligned \in SUBSET Files
  BY DEF InWindow, Queued
<1>2. IsGroup(event) /\ event \in GroupSet
  BY <1>1, AlignedIsGroup
<1>3. event_queue' \in [Files -> Seq(Packet)]
  <2>1. \A f \in aligned : Tail(event_queue[f]) \in Seq(Packet)
    BY <1>1, HeadTailProperties DEF TypeOK, Queued
  <2>2. QED
    BY <2>1 DEF TypeOK
<1>4. i_event \in Int /\ Len(output) \in Nat /\ DOMAIN output = 1 .. Len(output)
  BY LenProperties, LimitAssumption DEF TypeOK, OutputType
<1>5. written \in [number : Int, packets : GroupSet]
  BY <1>2, <1>4
<1>6. CASE Keep(aligned)
  <2>1. output' = Append(output, written) /\ i_event' = i_event + 1
    BY <1>6
  <2>2. /\ output' \in Seq([number : Int, packets : GroupSet])
        /\ Len(output') = Len(output) + 1
        /\ \A i \in 1 .. Len(output) : output'[i] = output[i]
        /\ output'[Len(output) + 1] = written
    BY <2>1, <1>5, AppendProperties DEF OutputType
  <2>3. OutputType'
    BY <2>2 DEF OutputType
  <2>4. i_event' = StartEvent + Len(output')
    <3>1. i_event = StartEvent + Len(output)
      BY DEF TypeOK
    <3>2. (StartEvent + Len(output)) + 1 = StartEvent + (Len(output) + 1)
      BY <1>4, LimitAssumption
    <3>3. i_event' = (StartEvent + Len(output)) + 1
      BY <2>1, <3>1
    <3>4. Len(output') = Len(output) + 1
      BY <2>2
    <3>5. QED
      BY <3>2, <3>3, <3>4
  <2>5. ASSUME NEW i \in DOMAIN output'
        PROVE  output'[i].number = StartEvent + i - 1 /\ IsGroup(output'[i].packets)
    <3>1. i \in 1 .. Len(output) + 1
      BY <2>2, LenProperties
    <3>2. CASE i = Len(output) + 1
      BY <3>2, <2>2, <1>2, <1>4, LimitAssumption DEF TypeOK
    <3>3. CASE i # Len(output) + 1
      <4>1. i \in 1 .. Len(output)
        BY <3>1, <3>3, <1>4
      <4>2. QED
        BY <4>1, <2>2, <1>4 DEF TypeOK
    <3>4. QED
      BY <3>2, <3>3
  <2>6. TypeOK'
    BY <1>3, <1>6, <2>4, <2>5 DEF TypeOK, Align
  <2>7. QED
    BY <2>3, <2>6 DEF Align, EveryFrontVisible, ErasedFilesAreRead
<1>7. CASE ~Keep(aligned)
  <2>1. output' = output /\ i_event' = i_event
    BY <1>7
  <2>2. \A d \in dropped' : IsGroup(d)
    BY <1>2, <1>7 DEF TypeOK
  <2>3. TypeOK'
    BY <1>3, <2>1, <2>2 DEF TypeOK, Align
  <2>4. OutputType'
    BY <2>1 DEF OutputType
  <2>5. QED
    BY <2>3, <2>4 DEF Align, EveryFrontVisible, ErasedFilesAreRead
<1>8. QED
  BY <1>6, <1>7

LEMMA NextStrong == Strong /\ [Next]_vars => Strong'
<1> SUFFICES ASSUME Strong, [Next]_vars PROVE Strong'
  OBVIOUS
<1>1. ASSUME NEW f \in Files, PullPacket(f) PROVE Strong'
  BY <1>1, PullPacketStrong
<1>2. ASSUME NEW f \in Files, FileDone(f) PROVE Strong'
  BY <1>2, FileDoneStrong
<1>3. CASE Align
  BY <1>3, AlignStrong
<1>4. CASE UNCHANGED vars
  BY <1>4 DEF vars, Strong, VisitInv, TypeOK, EveryFrontVisible,
              ErasedFilesAreRead, OutputType
<1>5. QED
  BY <1>1, <1>2, <1>3, <1>4 DEF Next

LEMMA AlwaysStrong == Spec => []Strong
  BY InitStrong, NextStrong, PTL DEF Spec

(* Type correctness: the queues and the files only ever hold packets, the  *)
(* events are numbered from start_event without gaps, and the events hold  *)
(* at most one packet of each file.                                        *)
THEOREM ConverterTypeOK == Spec => []TypeOK
<1>1. Strong => TypeOK
  BY DEF Strong, VisitInv
<1>2. QED
  BY <1>1, AlwaysStrong, PTL

(* Whenever a round is aligned, each file that may still give a packet has *)
(* one in its queue, and the files no longer asked have been read.         *)
THEOREM ConverterFrontsVisible == Spec => []VisitInv
<1>1. Strong => VisitInv
  BY DEF Strong
<1>2. QED
  BY <1>1, AlwaysStrong, PTL

-----------------------------------------------------------------------------
(* The refinement to EventBuilding.                                        *)

(* Writing an event appends its packets to the events.                     *)
LEMMA ProjectAppend ==
  ASSUME NEW G, NEW s \in Seq([number : Int, packets : G]),
         NEW e \in [number : Int, packets : G]
  PROVE  [i \in DOMAIN Append(s, e) |-> Append(s, e)[i].packets]
           = Append([i \in DOMAIN s |-> s[i].packets], e.packets)
<1> DEFINE t == Append(s, e)
           p == [i \in DOMAIN s |-> s[i].packets]
           l == [i \in DOMAIN t |-> t[i].packets]
<1>1. /\ t \in Seq([number : Int, packets : G])
      /\ Len(t) = Len(s) + 1
      /\ \A i \in 1 .. Len(s) : t[i] = s[i]
      /\ t[Len(s) + 1] = e
  BY AppendProperties
<1>2. /\ Len(s) \in Nat
      /\ DOMAIN s = 1 .. Len(s)
      /\ DOMAIN t = 1 .. Len(s) + 1
  BY <1>1, LenProperties
<1> HIDE DEF t
<1>3. p \in Seq(G) /\ Len(p) = Len(s)
  <2>1. \A i \in 1 .. Len(s) : s[i] \in [number : Int, packets : G]
    BY ElementOfSeq
  <2>2. \A i \in 1 .. Len(s) : s[i].packets \in G
    BY <2>1
  <2>3. p \in [1 .. Len(s) -> G]
    BY <1>2, <2>2
  <2>4. QED
    BY <1>2, <2>3
<1>4. l \in Seq(G) /\ Len(l) = Len(s) + 1
  <2>1. \A i \in 1 .. Len(s) + 1 : t[i] \in [number : Int, packets : G]
    BY <1>1, ElementOfSeq
  <2>2. \A i \in 1 .. Len(s) + 1 : t[i].packets \in G
    BY <2>1
  <2>3. l \in [1 .. Len(s) + 1 -> G]
    BY <1>2, <2>2
  <2>4. QED
    BY <1>2, <2>3
<1>5. e.packets \in G
  OBVIOUS
<1>6. /\ Append(p, e.packets) \in Seq(G)
      /\ Len(Append(p, e.packets)) = Len(s) + 1
      /\ \A i \in 1 .. Len(s) : Append(p, e.packets)[i] = s[i].packets
      /\ Append(p, e.packets)[Len(s) + 1] = e.packets
  <2>1. \A i \in 1 .. Len(s) : p[i] = s[i].packets
    BY <1>2
  <2> HIDE DEF p
  <2>2. QED
    BY <1>3, <1>5, <2>1, AppendProperties
<1>7. ASSUME NEW i \in 1 .. Len(l)
      PROVE  l[i] = Append(p, e.packets)[i]
  <2>1. l[i] = t[i].packets /\ i \in 1 .. Len(s) + 1
    BY <1>2, <1>4
  <2>2. CASE i = Len(s) + 1
    BY <2>1, <2>2, <1>1, <1>6
  <2>3. CASE i # Len(s) + 1
    <3>1. i \in 1 .. Len(s)
      BY <2>1, <2>3, <1>2
    <3>2. QED
      BY <2>1, <3>1, <1>1, <1>6
  <2>4. QED
    BY <2>2, <2>3
<1> HIDE DEF l, p
<1>8. l = Append(p, e.packets)
  BY <1>4, <1>6, <1>7, SeqEqual
<1>9. QED
  BY <1>8 DEF l, p, t

LEMMA InitRefines == Init => EB!Init
<1> SUFFICES ASSUME Init PROVE EB!Init
  OBVIOUS
<1>1. stream \in [Files -> Seq(Packet)]
  BY StreamsTyped DEF Init
<1>2. ASSUME NEW f \in Files PROVE event_queue[f] \o unread[f] = stream[f]
  BY <1>1, ConcatEmptySeq DEF Init
<1>3. Pending = stream
  BY <1>1, <1>2 DEF Pending
<1>4. Events = << >>
  BY DEF Init, Events
<1>5. QED
  BY <1>3, <1>4 DEF Init, EB!Init

(* The visit of a file is invisible to the merge.                          *)
LEMMA PullPacketStutters ==
  ASSUME Strong, NEW f \in Files, PullPacket(f)
  PROVE  UNCHANGED <<stream, Pending, Events, dropped>>
<1>1. /\ unread \in [Files -> Seq(Packet)]
      /\ event_queue \in [Files -> Seq(Packet)]
  BY DEF Strong, VisitInv, TypeOK
<1>2. ASSUME NEW g \in Files
      PROVE  event_queue'[g] \o unread'[g] = event_queue[g] \o unread[g]
  <2>1. CASE g = f
    BY <2>1, <1>1, PushKeepsConcat DEF PullPacket, Pushed
  <2>2. CASE g # f
    BY <2>2, <1>1 DEF PullPacket
  <2>3. QED
    BY <2>1, <2>2
<1>3. Pending' = Pending
  BY <1>2 DEF Pending
<1>4. QED
  BY <1>3 DEF PullPacket, Events

LEMMA FileDoneStutters ==
  ASSUME NEW f \in Files, FileDone(f)
  PROVE  UNCHANGED <<stream, Pending, Events, dropped>>
  BY DEF FileDone, Pending, Events

(* When a round is aligned the queues show every front of the merge.       *)
LEMMA QueuesShowFronts ==
  ASSUME Strong, ~done, todo = {}
  PROVE  /\ \A f \in Queued :
              /\ Pending[f] # << >>
              /\ Head(Pending[f]) = Head(event_queue[f])
              /\ Tail(Pending[f]) = Tail(event_queue[f]) \o unread[f]
         /\ Queued = {f \in Files : Pending[f] # << >>}
<1>1. /\ unread \in [Files -> Seq(Packet)]
      /\ event_queue \in [Files -> Seq(Packet)]
  BY DEF Strong, VisitInv, TypeOK
<1>2. ASSUME NEW f \in Queued
      PROVE  /\ Pending[f] # << >>
             /\ Head(Pending[f]) = Head(event_queue[f])
             /\ Tail(Pending[f]) = Tail(event_queue[f]) \o unread[f]
  BY <1>1, FrontOfConcat DEF Queued, Pending
<1>3. ASSUME NEW f \in Files, f \notin Queued
      PROVE  Pending[f] = << >>
  <2>1. event_queue[f] = << >>
    BY <1>3 DEF Queued
  <2>2. f \notin input_files
    BY <2>1 DEF Strong, VisitInv, EveryFrontVisible
  <2>3. unread[f] = << >>
    BY <2>2 DEF Strong, VisitInv, ErasedFilesAreRead
  <2>4. QED
    BY <2>1, <2>3, EmptySeq, ConcatEmptySeq DEF Pending
<1>4. Queued = {f \in Files : Pending[f] # << >>}
  BY <1>2, <1>3 DEF Queued
<1>5. QED
  BY <1>2, <1>4

(* A round is a step of the merge, or none when nothing is aligned.        *)
LEMMA AlignRefines ==
  ASSUME Strong, Align
  PROVE  /\ EB!Next \/ UNCHANGED <<stream, Pending, Events, dropped>>
         /\ Queued # {} /\ Window > 0 => EB!Next
<1> PICK earliest_ts \in Timestamp : 
      LET aligned       == InWindow(earliest_ts)
          aligned_event == [f \in aligned |-> Head(event_queue[f])]
      IN  /\ IsEarliest(earliest_ts)
          /\ event_queue' = [f \in Files |-> IF f \in aligned
                                             THEN Tail(event_queue[f])
                                             ELSE event_queue[f]]
          /\ \/ /\ Keep(aligned)
                /\ output' = Append(output, [number  |-> i_event,
                                             packets |-> aligned_event])
                /\ i_event' = i_event + 1
                /\ UNCHANGED dropped
             \/ /\ ~Keep(aligned)
                /\ dropped' = IF aligned = {} THEN dropped
                                              ELSE dropped \union {aligned_event}
                /\ UNCHANGED <<output, i_event>>
  BY DEF Align
<1> DEFINE aligned == InWindow(earliest_ts)
           event   == [f \in aligned |-> Head(event_queue[f])]
           written == [number |-> i_event, packets |-> event]
<1>1. /\ unread \in [Files -> Seq(Packet)]
      /\ event_queue \in [Files -> Seq(Packet)]
      /\ output \in Seq([number : Int, packets : GroupSet])
      /\ i_event \in Int
  <2>1. Len(output) \in Int
    BY LenProperties DEF Strong, OutputType
  <2>2. QED
    BY <2>1, LimitAssumption DEF Strong, VisitInv, TypeOK, OutputType
<1>2. aligned \in SUBSET Queued /\ Queued \in SUBSET Files
  BY DEF InWindow, Queued
<1>3. ~done /\ todo = {} /\ UNCHANGED <<stream, unread>>
  BY DEF Align
<1>4. /\ \A f \in Queued : /\ Pending[f] # << >>
                           /\ Head(Pending[f]) = Head(event_queue[f])
                           /\ Tail(Pending[f]) = Tail(event_queue[f]) \o unread[f]
      /\ Queued = EB!Sources
  BY <1>3, QueuesShowFronts DEF EB!Sources
<1>5. \A f \in Queued : Head(event_queue[f]).ts \in Timestamp
  <2>1. \A f \in Queued : Head(event_queue[f]) \in Packet
    BY <1>1, HeadTailProperties DEF Queued
  <2>2. QED
    BY <2>1 DEF Packet
<1>6. Pending' = [f \in Files |-> IF f \in aligned THEN Tail(Pending[f])
                                                   ELSE Pending[f]]
  <2>1. ASSUME NEW f \in Files
        PROVE  event_queue'[f] \o unread'[f] =
                 IF f \in aligned THEN Tail(Pending[f]) ELSE Pending[f]
    BY <1>2, <1>3, <1>4 DEF Pending
  <2>2. QED
    BY <2>1 DEF Pending
<1>7. ASSUME Queued # {}
      PROVE  \E f \in Queued : Head(event_queue[f]).ts = earliest_ts
  <2>1. CASE earliest_ts = TimestampMax
    <3>1. PICK f \in Queued : TRUE
      BY <1>7
    <3>2. Head(event_queue[f]).ts <= TimestampMax
      BY <1>5, <3>1, WindowAssumption DEF Timestamp
    <3>3. TimestampMax <= Head(event_queue[f]).ts
      BY <2>1, <3>1 DEF IsEarliest
    <3>4. Head(event_queue[f]).ts = earliest_ts
      BY <2>1, <3>1, <3>2, <3>3, <1>5, WindowAssumption DEF Timestamp
    <3>5. QED
      BY <3>1, <3>4
  <2>2. QED
    BY <2>1 DEF IsEarliest
<1>8. Queued # {} /\ Window > 0 => aligned # {}
  <2> SUFFICES ASSUME Queued # {}, Window > 0 PROVE aligned # {}
    OBVIOUS
  <2>1. PICK f \in Queued : Head(event_queue[f]).ts = earliest_ts
    BY <1>7
  <2>2. Head(event_queue[f]).ts - earliest_ts = 0
    BY <2>1, WindowAssumption DEF Timestamp
  <2>3. f \in aligned
    BY <2>2, WindowIsNatural DEF InWindow
  <2>4. QED
    BY <2>3
<1>9. CASE aligned = {}
  <2>1. ~Keep(aligned)
    BY <1>9, FilesAssumption DEF Keep
  <2>2. dropped' = dropped /\ output' = output
    BY <1>9, <2>1
  <2>3. Pending' = Pending
    BY <1>6, <1>9 DEF Pending
  <2>4. QED
    BY <1>3, <1>8, <1>9, <2>2, <2>3 DEF Events
<1>10. CASE aligned # {}
  <2>1. PICK ref \in Queued : Head(event_queue[ref]).ts = earliest_ts
    BY <1>2, <1>7, <1>10
  <2>2. \A g \in Queued : Head(Pending[ref]).ts <= Head(Pending[g]).ts
    BY <2>1, <1>4 DEF IsEarliest
  <2>3. aligned = {f \in Queued :
                     Head(Pending[f]).ts - Head(Pending[ref]).ts < EB!Window}
    BY <2>1, <1>4 DEF InWindow, Window, EB!Window
  <2>4. event = [f \in aligned |-> Head(Pending[f])]
    BY <1>2, <1>4
  <2>5. Keep(aligned) <=> KeepAll \/ aligned = Files
    BY <1>10, WindowAssumption DEF Keep
  <2>6. CASE Keep(aligned)
    <3>1. output' = Append(output, written) /\ dropped' = dropped
      BY <2>6
    <3>2. written \in [number : Int, packets : GroupSet]
      BY <1>1, <1>2, AlignedIsGroup DEF Strong, VisitInv
    <3>3. Events' = Append(Events, event)
      <4>1. written.packets = event
        OBVIOUS
      <4>2. QED
        BY <1>1, <3>1, <3>2, <4>1, ProjectAppend DEF Events
    <3>4. EB!Build(ref)
      BY <1>3, <1>4, <1>6, <1>10, <2>2, <2>3, <2>4, <2>5, <2>6, <3>1, <3>3
      DEF EB!Build
    <3>5. QED
      BY <1>4, <3>4 DEF EB!Next
  <2>7. CASE ~Keep(aligned)
    <3>1. output' = output /\ dropped' = dropped \union {event}
      BY <1>10, <2>7
    <3>2. Events' = Events
      BY <3>1 DEF Events
    <3>3. EB!Build(ref)
      BY <1>3, <1>4, <1>6, <1>10, <2>2, <2>3, <2>4, <2>5, <2>7, <3>1, <3>2
      DEF EB!Build
    <3>4. QED
      BY <1>4, <3>3 DEF EB!Next
  <2>8. QED
    BY <2>6, <2>7
<1>11. QED
  BY <1>8, <1>9, <1>10

LEMMA NextRefines == Strong /\ [Next]_vars => [EB!Next]_(EB!vars)
<1> SUFFICES ASSUME Strong, [Next]_vars
             PROVE  EB!Next \/ UNCHANGED <<stream, Pending, Events, dropped>>
  BY DEF EB!vars
<1>1. ASSUME NEW f \in Files, PullPacket(f)
      PROVE  UNCHANGED <<stream, Pending, Events, dropped>>
  BY <1>1, PullPacketStutters
<1>2. ASSUME NEW f \in Files, FileDone(f)
      PROVE  UNCHANGED <<stream, Pending, Events, dropped>>
  BY <1>2, FileDoneStutters
<1>3. CASE Align
  BY <1>3, AlignRefines
<1>4. CASE UNCHANGED vars
  BY <1>4 DEF vars, Pending, Events
<1>5. QED
  BY <1>1, <1>2, <1>3, <1>4 DEF Next

(* Reading one packet of each file per round is enough: the conversion     *)
(* behaves as the merge of the complete files.                             *)
THEOREM ConverterImplementsEventBuilding == Spec => ImplementsEventBuilding
  BY InitRefines, NextRefines, AlwaysStrong, PTL
  DEF Spec, ImplementsEventBuilding, EB!Spec

-----------------------------------------------------------------------------
(* What is proved of the merge holds of the conversion.                    *)
EBP == INSTANCE EventBuildingProofs WITH pending <- Pending, events <- Events

LEMMA SameMerge ==
  /\ EB!Init => EBP!Init
  /\ [EB!Next]_(EB!vars) => [EBP!Next]_(EBP!vars)
<1>1. EB!Init => EBP!Init
  BY DEF EB!Init, EBP!Init
<1>2. EB!Next => EBP!Next
  BY DEF EB!Next, EBP!Next, EB!Build, EBP!Build, EB!Sources, EBP!Sources,
         EB!Window, EBP!Window
<1>3. UNCHANGED EB!vars => UNCHANGED EBP!vars
  BY DEF EB!vars, EBP!vars
<1>4. QED
  BY <1>1, <1>2, <1>3

(* The assumptions of EventBuildingProofs, of the constants of this module. *)
LEMMA MergeAssumptions ==
  /\ \A s \in Streams : s \in [Files -> Seq(EBP!Packet)] /\ EBP!Numbered(s)
  /\ /\ TimestampMax \in Nat
     /\ MaxDiff \in -(TimestampMax + 1) .. TimestampMax
     /\ KeepAll \in BOOLEAN
  /\ Files # {} /\ EBP!IsFiniteSet(Files)
<1>1. EBP!Packet = Packet
  BY DEF EBP!Packet, Packet, EBP!Timestamp, Timestamp
<1>2. ASSUME NEW s PROVE Numbered(s) => EBP!Numbered(s)
  BY DEF EBP!Numbered, Numbered
<1>3. EBP!IsFiniteSet(Files)
  BY FilesAssumption DEF EBP!IsFiniteSet, IsFiniteSet
<1>4. QED
  BY <1>1, <1>2, <1>3, StreamsAssumption, WindowAssumption, FilesAssumption

LEMMA SameInvariant ==
  EBP!IInv => /\ EventHoldsOneTrigger
              /\ NoCompleteTriggerDropped
              /\ PacketsInFileOrder
              /\ TakenAreAccounted
<1>1. EBP!IInv => EBP!EventHoldsOneTrigger /\ EBP!TakenAreAccounted
  BY EBP!InvariantImplies, MergeAssumptions
<1>2. EBP!IInv => EBP!NoCompleteTriggerDropped /\ EBP!PacketsInFileOrder
  BY DEF EBP!IInv
<1>3. EBP!SeparatedStreams = EB!SeparatedStreams
  BY DEF EBP!SeparatedStreams, EB!SeparatedStreams, EBP!Separated, EB!Separated,
         EBP!Window, EB!Window
<1>4. EBP!EventHoldsOneTrigger => EventHoldsOneTrigger
  BY <1>3 DEF EBP!EventHoldsOneTrigger, EventHoldsOneTrigger, EB!EventHoldsOneTrigger
<1>5. EBP!TakenAreAccounted => TakenAreAccounted
  BY DEF EBP!TakenAreAccounted, TakenAreAccounted, EB!TakenAreAccounted
<1>6. EBP!NoCompleteTriggerDropped => NoCompleteTriggerDropped
  BY <1>3 DEF EBP!NoCompleteTriggerDropped, NoCompleteTriggerDropped,
              EB!NoCompleteTriggerDropped
<1>7. EBP!PacketsInFileOrder => PacketsInFileOrder
  BY DEF EBP!PacketsInFileOrder, PacketsInFileOrder, EB!PacketsInFileOrder
<1>8. QED
  BY <1>1, <1>2, <1>4, <1>5, <1>6, <1>7

LEMMA AlwaysMergeInvariant == Spec => []EBP!IInv
<1>1. Spec => EBP!Spec
  BY InitRefines, NextRefines, AlwaysStrong, SameMerge, PTL DEF Spec, EBP!Spec
<1>2. EBP!Spec => []EBP!IInv
  BY EBP!MergeInvariant, MergeAssumptions
<1>3. QED
  BY <1>1, <1>2, PTL

(* No output event mixes the data of two triggers, when the files can be   *)
(* told apart by max_diff at all.                                          *)
THEOREM ConverterOneTrigger == Spec => []EventHoldsOneTrigger
  BY AlwaysMergeInvariant, SameInvariant, PTL

(* A trigger that every file recorded is never thrown away as partial.     *)
THEOREM ConverterCompleteTriggers == Spec => []NoCompleteTriggerDropped
  BY AlwaysMergeInvariant, SameInvariant, PTL

(* The packets of a file are written in order and at most once.            *)
THEOREM ConverterFileOrder == Spec => []PacketsInFileOrder
  BY AlwaysMergeInvariant, SameInvariant, PTL

(* With keep_all every packet is unread, queued or written.                *)
LEMMA AlwaysAccounted == Spec => []TakenAreAccounted
  BY AlwaysMergeInvariant, SameInvariant, PTL

(* The invariant of the merge, of the conversion: what is pending is the   *)
(* rest of each file, and exactly what was taken has been disposed of.     *)
THEOREM ConverterMerges == Spec => []MergeIInv
<1>1. EBP!Packet = EB!Packet /\ EBP!SeparatedStreams = EB!SeparatedStreams
  BY DEF EBP!Packet, EB!Packet, EBP!Timestamp, EB!Timestamp,
         EBP!SeparatedStreams, EB!SeparatedStreams, EBP!Separated, EB!Separated,
         EBP!Window, EB!Window
<1>2. EBP!Groups = EB!Groups /\ \A f : EBP!Taken(f) = EB!Taken(f)
  BY DEF EBP!Groups, EB!Groups, EBP!Taken, EB!Taken
<1>3. ASSUME EBP!IInv PROVE EB!IInv
  <2>1. EB!TypeOK
    BY <1>1, <1>3 DEF EBP!IInv, EBP!TypeOK, EB!TypeOK, EBP!Numbered, EB!Numbered,
                      EBP!IsGroup, EB!IsGroup
  <2>2. EB!PendingIsSuffix /\ EB!GroupsAreTaken /\ EB!TakenIsGrouped
    BY <1>2, <1>3 DEF EBP!IInv, EBP!PendingIsSuffix, EB!PendingIsSuffix,
         EBP!GroupsAreTaken, EB!GroupsAreTaken, EBP!TakenIsGrouped, EB!TakenIsGrouped
  <2>3. EB!GroupsHoldOneTrigger /\ EB!TriggersInOrder
    BY <1>1, <1>2, <1>3 DEF EBP!IInv, EBP!GroupsHoldOneTrigger,
         EB!GroupsHoldOneTrigger, EBP!TriggersInOrder, EB!TriggersInOrder
  <2>4. EB!KeepAllDropsNothing
    BY <1>3 DEF EBP!IInv, EBP!KeepAllDropsNothing, EB!KeepAllDropsNothing
  <2>5. EB!NoCompleteTriggerDropped /\ EB!PacketsInFileOrder
    BY <1>3, SameInvariant DEF NoCompleteTriggerDropped, PacketsInFileOrder
  <2>6. QED
    BY <2>1, <2>2, <2>3, <2>4, <2>5 DEF EB!IInv
<1>4. EBP!IInv => MergeIInv
  BY <1>3 DEF MergeIInv
<1>5. QED
  BY <1>4, AlwaysMergeInvariant, PTL

-----------------------------------------------------------------------------
(* What one round writes.                                                  *)

(* A round writes one event and counts it, or none.                        *)
LEMMA AlignAddsOne ==
  ASSUME Strong, Align
  PROVE  /\ Len(output') \in {Len(output), Len(output) + 1}
         /\ i_event' = StartEvent + Len(output')
         /\ Len(output') = Len(output) => output' = output
<1>1. Len(output) \in Nat /\ i_event = StartEvent + Len(output)
  BY LenProperties DEF Strong, OutputType, VisitInv, TypeOK
<1>2. output' = output \/ \E e : output' = Append(output, e)
  BY DEF Align
<1>3. Strong'
  BY AlignStrong
<1>4. \A e : Len(Append(output, e)) = Len(output) + 1
  BY DEF Strong, OutputType
<1>5. i_event' = StartEvent + Len(output')
  BY <1>3 DEF Strong, VisitInv, TypeOK
<1>6. CASE output' = output
  BY <1>5, <1>6
<1>7. CASE \E e : output' = Append(output, e)
  <2>1. Len(output') = Len(output) + 1
    BY <1>4, <1>7
  <2>2. QED
    BY <1>1, <1>5, <2>1
<1>8. QED
  BY <1>2, <1>6, <1>7

(* The fronts that join an event lie between the earliest one and max_diff *)
(* after it.                                                               *)
LEMMA WrittenIsAligned ==
  ASSUME Strong, Align, Len(output') # Len(output)
  PROVE  /\ output' = Append(output, output'[Len(output) + 1])
         /\ output'[Len(output) + 1] \in [number : Int, packets : GroupSet]
         /\ LET packets == output'[Len(output) + 1].packets
            IN  \A f, g \in DOMAIN packets : packets[f].ts - packets[g].ts < Window
<1> USE DEF Strong, VisitInv
<1> PICK earliest_ts \in Timestamp :
      LET aligned       == InWindow(earliest_ts)
          aligned_event == [f \in aligned |-> Head(event_queue[f])]
      IN  /\ IsEarliest(earliest_ts)
          /\ \/ output' = Append(output, [number  |-> i_event,
                                          packets |-> aligned_event])
             \/ UNCHANGED <<output, i_event>>
  BY DEF Align
<1> DEFINE aligned == InWindow(earliest_ts)
           event   == [f \in aligned |-> Head(event_queue[f])]
           written == [number |-> i_event, packets |-> event]
<1>1. aligned \in SUBSET Queued /\ aligned \in SUBSET Files
  BY DEF InWindow, Queued
<1>2. Len(output) \in Nat /\ i_event \in Int
  BY LenProperties, LimitAssumption DEF TypeOK, OutputType
<1>3. written \in [number : Int, packets : GroupSet]
  BY <1>1, <1>2, AlignedIsGroup
<1>4. output' = Append(output, written)
  OBVIOUS
<1>5. output'[Len(output) + 1] = written
  BY <1>3, <1>4, AppendProperties DEF OutputType
<1>6. ASSUME NEW f \in Queued PROVE Head(event_queue[f]).ts \in Nat
  <2>1. event_queue[f] \in Seq(Packet) /\ event_queue[f] # << >>
    BY DEF TypeOK, Queued
  <2>2. Head(event_queue[f]) \in Packet
    BY <2>1, HeadTailProperties
  <2>3. QED
    BY <2>2, WindowAssumption DEF Packet, Timestamp
<1>7. ASSUME NEW f \in aligned, NEW g \in aligned
      PROVE  event[f].ts - event[g].ts < Window
  <2>1. /\ Head(event_queue[f]).ts - earliest_ts < Window
        /\ earliest_ts <= Head(event_queue[g]).ts
    BY <1>1 DEF InWindow, IsEarliest
  <2>2. /\ Head(event_queue[f]).ts \in Nat /\ Head(event_queue[g]).ts \in Nat
        /\ earliest_ts \in Nat
    BY <1>1, <1>6, WindowAssumption DEF Timestamp
  <2>3. Head(event_queue[f]).ts - Head(event_queue[g]).ts < Window
    BY <2>1, <2>2, WindowIsNatural
  <2>4. QED
    BY <2>3
<1>8. written.packets = event
  OBVIOUS
<1> HIDE DEF written, event
<1>9. QED
  BY <1>3, <1>4, <1>5, <1>7, <1>8 DEF event

(* Every two packets of an event are closer than max_diff, whatever the    *)
(* files hold.                                                             *)
THEOREM ConverterAligns == Spec => []EventsAligned
<1>1. Init => EventsAligned
  BY DEF Init, EventsAligned
<1>2. ASSUME Strong, EventsAligned, [Next]_vars PROVE EventsAligned'
  <2>1. CASE output' = output
    BY <1>2, <2>1 DEF EventsAligned
  <2>2. CASE Align /\ Len(output') # Len(output)
    <3> DEFINE e == output'[Len(output) + 1]
    <3>1. /\ output' = Append(output, e)
          /\ e \in [number : Int, packets : GroupSet]
          /\ \A f, g \in DOMAIN e.packets :
               e.packets[f].ts - e.packets[g].ts < Window
      BY <1>2, <2>2, WrittenIsAligned
    <3>2. output \in Seq([number : Int, packets : GroupSet])
      BY <1>2 DEF Strong, OutputType
    <3> HIDE DEF e
    <3>3. /\ output' \in Seq([number : Int, packets : GroupSet])
          /\ Len(output') = Len(output) + 1
          /\ \A i \in 1 .. Len(output) : output'[i] = output[i]
          /\ output'[Len(output) + 1] = e
      BY <3>1, <3>2, AppendProperties
    <3>4. /\ Len(output) \in Nat /\ DOMAIN output = 1 .. Len(output)
          /\ DOMAIN output' = 1 .. Len(output) + 1
      BY <3>2, <3>3, LenProperties
    <3>5. ASSUME NEW i \in DOMAIN output',
                 NEW f \in DOMAIN output'[i].packets,
                 NEW g \in DOMAIN output'[i].packets
          PROVE  output'[i].packets[f].ts - output'[i].packets[g].ts < Window
      <4>1. CASE i = Len(output) + 1
        BY <3>1, <3>3, <3>5, <4>1
      <4>2. CASE i \in 1 .. Len(output)
        BY <1>2, <3>3, <3>4, <3>5, <4>2 DEF EventsAligned
      <4>3. QED
        BY <3>4, <4>1, <4>2
    <3>6. QED
      BY <3>5 DEF EventsAligned, Window
  <2>3. CASE Align /\ Len(output') = Len(output)
    <3>1. output' = output
      BY <1>2, <2>3, AlignAddsOne
    <3>2. QED
      BY <2>1, <3>1
  <2>4. CASE ~Align
    BY <1>2, <2>1, <2>4 DEF Next, PullPacket, FileDone, vars
  <2>5. QED
    BY <2>2, <2>3, <2>4
<1>3. QED
  BY <1>1, <1>2, AlwaysStrong, PTL DEF Spec

-----------------------------------------------------------------------------
(* How many triggers a conversion disposes of: one per round.              *)

LEMMA ImageIsFinite ==
  ASSUME NEW S, IsFiniteSet(S), NEW F, F = [x \in S |-> F[x]]
  PROVE  IsFiniteSet({F[x] : x \in S})
<1> DEFINE T == {F[x] : x \in S}
<1>1. F \in Surjection(S, T)
  BY DEF Surjection
<1>2. QED
  BY <1>1, FS_Surjection

(* The files are finite, so are their triggers.                            *)
LEMMA TriggersAreFinite ==
  ASSUME Strong
  PROVE  IsFiniteSet(Triggers) /\ Cardinality(Triggers) \in Nat
<1> DEFINE trigsOf == [f \in Files |->
                         {stream[f][k].trig : k \in DOMAIN stream[f]}]
<1>1. ASSUME NEW f \in Files PROVE IsFiniteSet(trigsOf[f])
  <2> DEFINE trigAt == [k \in DOMAIN stream[f] |-> stream[f][k].trig]
  <2>1. stream[f] \in Seq(Packet)
    BY DEF Strong, VisitInv, TypeOK
  <2>2. IsFiniteSet(DOMAIN stream[f])
    BY <2>1, LenProperties, FS_Interval
  <2>3. IsFiniteSet({trigAt[k] : k \in DOMAIN stream[f]})
    BY <2>2, ImageIsFinite
  <2>4. trigsOf[f] = {trigAt[k] : k \in DOMAIN stream[f]}
    OBVIOUS
  <2>5. QED
    BY <2>3, <2>4
<1>2. IsFiniteSet({trigsOf[f] : f \in Files})
  BY FilesAssumption, ImageIsFinite
<1>3. IsFiniteSet(UNION {trigsOf[f] : f \in Files})
  BY <1>1, <1>2, FS_UNION
<1>4. Triggers = UNION {trigsOf[f] : f \in Files}
  BY DEF Triggers
<1>5. QED
  BY <1>3, <1>4, FS_CardinalityType

LEMMA RemainingAreTriggers ==
  ASSUME Strong, EBP!Strong
  PROVE  /\ EB!Remaining \subseteq Triggers
         /\ IsFiniteSet(EB!Remaining)
<1>1. ASSUME NEW f \in Files, NEW l \in DOMAIN Pending[f]
      PROVE  \E k \in DOMAIN stream[f] : Pending[f][l] = stream[f][k]
  BY EBP!PendingFacts, MergeAssumptions
<1>2. EB!Remaining \subseteq Triggers
  <2> SUFFICES ASSUME NEW t \in EB!Remaining PROVE t \in Triggers
    OBVIOUS
  <2>1. PICK f \in Files : \E l \in DOMAIN Pending[f] : t = Pending[f][l].trig
    BY DEF EB!Remaining
  <2>2. PICK k \in DOMAIN stream[f] : t = stream[f][k].trig
    BY <1>1, <2>1
  <2>3. QED
    BY <2>2 DEF Triggers
<1>3. QED
  BY <1>2, TriggersAreFinite, FS_Subset

LEMMA HasDomain ==
  ASSUME NEW S, NEW s \in Seq(S)
  PROVE  s # << >> <=> DOMAIN s # {}
<1>1. Len(s) \in Nat /\ DOMAIN s = 1 .. Len(s)
  BY LenProperties
<1>2. CASE s = << >>
  BY <1>2
<1>3. CASE s # << >>
  <2>1. Len(s) # 0
    BY <1>3, EmptySeq
  <2>2. 1 \in DOMAIN s
    BY <1>1, <2>1
  <2>3. QED
    BY <1>3, <2>2
<1>4. QED
  BY <1>2, <1>3

(* No file has pending packets exactly when no trigger remains.            *)
LEMMA NothingRemains ==
  ASSUME Strong
  PROVE  (\A f \in Files : Pending[f] = << >>) <=> EB!Remaining = {}
<1>1. ASSUME NEW f \in Files
      PROVE  Pending[f] # << >> <=> DOMAIN Pending[f] # {}
  <2>1. Pending[f] \in Seq(Packet)
    BY ConcatProperties DEF Pending, Strong, VisitInv, TypeOK
  <2>2. QED
    BY <2>1, HasDomain
<1>2. ASSUME \A f \in Files : DOMAIN Pending[f] = {} PROVE EB!Remaining = {}
  BY <1>2 DEF EB!Remaining
<1>3. ASSUME NEW f \in Files, NEW l \in DOMAIN Pending[f]
      PROVE  EB!Remaining # {}
  <2>1. Pending[f][l].trig \in EB!Remaining
    BY DEF EB!Remaining
  <2>2. QED
    BY <2>1
<1>4. QED
  BY <1>1, <1>2, <1>3

(* A round disposes of the earliest trigger that remains, if one does.     *)
LEMMA RoundDisposesOne ==
  ASSUME Strong, EBP!Strong, Align, Window > 0, stream \in SeparatedStreams
  PROVE  \/ EB!Remaining = {} /\ EB!Remaining' = {}
         \/ \E t \in EB!Remaining : EB!Remaining' = EB!Remaining \ {t}
<1>1. ~done /\ todo = {}
  BY DEF Align
<1>2. CASE Queued = {}
  <2>1. EB!Remaining = {} /\ EB!Sources = {}
    BY <1>1, <1>2, NothingRemains, QueuesShowFronts DEF EB!Sources
  <2>2. ~EB!Next
    BY <2>1 DEF EB!Next
  <2>3. Pending' = Pending
    BY <2>2, AlignRefines
  <2>4. EB!Remaining' = EB!Remaining
    BY <2>3 DEF EB!Remaining
  <2>5. QED
    BY <2>1, <2>4
<1>3. CASE Queued # {}
  <2>1. EB!Next
    BY <1>3, AlignRefines
  <2>2. EBP!Next
    BY <2>1 DEF EB!Next, EBP!Next, EB!Build, EBP!Build, EB!Sources, EBP!Sources,
                EB!Window, EBP!Window
  <2>3. stream \in EBP!SeparatedStreams
    BY DEF EBP!SeparatedStreams, SeparatedStreams, EBP!Separated, Separated,
           EBP!Window, Window
  <2>4. \E t \in EBP!Remaining : EBP!Remaining' = EBP!Remaining \ {t}
    BY <2>2, <2>3, EBP!NextDisposesOne, MergeAssumptions
  <2>5. QED
    BY <2>4 DEF EB!Remaining, EBP!Remaining
<1>4. QED
  BY <1>2, <1>3

(* Counting: n triggers out of all have gone, or all of them.              *)
Counts(all, left, n) ==
  \/ Cardinality(all) = Cardinality(left) + n
  \/ left = {} /\ Cardinality(all) <= n

LEMMA OneMoreCounted ==
  ASSUME NEW all, NEW left, NEW next, NEW n \in Nat,
         IsFiniteSet(all), IsFiniteSet(left), Counts(all, left, n),
         (left = {} /\ next = {}) \/ \E t \in left : next = left \ {t}
  PROVE  Counts(all, next, n + 1)
<1>1. Cardinality(all) \in Nat /\ Cardinality(left) \in Nat
  BY FS_CardinalityType
<1>2. CASE left = {} /\ next = {}
  <2>1. Cardinality(left) = 0
    BY <1>2, FS_EmptySet
  <2>2. Cardinality(all) <= n
    BY <1>1, <2>1 DEF Counts
  <2>3. QED
    BY <1>1, <1>2, <2>2 DEF Counts
<1>3. ASSUME NEW t \in left, next = left \ {t}
      PROVE  Counts(all, next, n + 1)
  <2>1. Cardinality(next) = Cardinality(left) - 1
    BY <1>3, FS_RemoveElement
  <2>2. Cardinality(all) = Cardinality(left) + n
    BY <1>3 DEF Counts
  <2>3. QED
    BY <1>1, <2>1, <2>2 DEF Counts
<1>4. QED
  BY <1>2, <1>3

(* A visit keeps the account of the rounds: it disposes of no trigger.     *)
LEMMA VisitLeavesTriggers ==
  ASSUME Strong, NEW f \in Files, PullPacket(f) \/ FileDone(f)
  PROVE  /\ stream' = stream /\ Triggers' = Triggers
         /\ EB!Remaining' = EB!Remaining
<1>1. UNCHANGED <<stream, Pending, Events, dropped>>
  BY PullPacketStutters, FileDoneStutters
<1>2. QED
  BY <1>1 DEF Triggers, EB!Remaining

LEMMA GivenFacts ==
  ASSUME Strong, NEW f \in Files
  PROVE  /\ stream[f] \in Seq(Packet) /\ unread[f] \in Seq(Packet)
         /\ Len(stream[f]) \in Nat /\ Len(unread[f]) \in Nat
         /\ Given(f) = Len(stream[f]) - Len(unread[f])
  BY LenProperties DEF Strong, VisitInv, TypeOK, Given

LEMMA PullPacketCounts ==
  ASSUME Strong, NEW f \in Files, PullPacket(f), NEW n \in Nat, AfterRounds(n)
  PROVE  AfterRounds(n)'
<1>1. /\ f \in todo /\ todo' = todo \ {f} /\ ~done
      /\ UNCHANGED <<input_files, done>>
      /\ unread[f] # << >> /\ unread' = [unread EXCEPT ![f] = Tail(@)]
  BY DEF PullPacket
<1>2. unread \in [Files -> Seq(Packet)] /\ todo \subseteq input_files
      /\ input_files \subseteq Files
  BY DEF Strong, VisitInv, TypeOK
<1>3. /\ stream' = stream /\ Triggers' = Triggers
      /\ EB!Remaining' = EB!Remaining
  BY VisitLeavesTriggers
<1>4. ASSUME NEW g \in input_files'
      PROVE  Given(g)' = IF g \in todo' THEN n ELSE n + 1
  <2>1. g \in Files /\ Given(g) = IF g \in todo THEN n ELSE n + 1
    BY <1>1, <1>2 DEF AfterRounds
  <2>2. CASE g = f
    <3>1. Len(Tail(unread[f])) = Len(unread[f]) - 1
      BY <1>1, GivenFacts, HeadTailProperties
    <3>2. Given(f) = n
      BY <1>1, <2>1, <2>2
    <3>3. Given(f)' = Len(stream[f]) - Len(Tail(unread[f]))
      BY <1>1, <1>2, <1>3 DEF Given
    <3>4. Given(f)' = n + 1
      <4> DEFINE a == Len(stream[f])
                 b == Len(unread[f])
                 c == Len(Tail(unread[f]))
      <4>1. a \in Nat /\ b \in Nat /\ c = b - 1 /\ a - b = n
        BY <3>1, <3>2, GivenFacts
      <4> HIDE DEF a, b, c
      <4>2. a - c = n + 1
        BY <4>1
      <4>3. QED
        BY <3>3, <4>2 DEF a, c
    <3>5. QED
      BY <1>1, <2>2, <3>4
  <2>3. CASE g # f
    <3>1. Given(g)' = Given(g)
      BY <1>1, <1>2, <1>3, <2>1, <2>3 DEF Given
    <3>2. QED
      BY <1>1, <2>1, <2>3, <3>1
  <2>4. QED
    BY <2>2, <2>3
<1>5. QED
  BY <1>1, <1>3, <1>4 DEF AfterRounds

LEMMA FileDoneCounts ==
  ASSUME Strong, NEW f \in Files, FileDone(f), NEW n \in Nat, AfterRounds(n)
  PROVE  AfterRounds(n)'
<1>1. /\ f \in todo /\ todo' = todo \ {f} /\ ~done
      /\ input_files' = input_files \ {f}
      /\ unread[f] = << >> /\ UNCHANGED <<unread, done>>
  BY DEF FileDone, Erased
<1>2. todo \subseteq input_files /\ input_files \subseteq Files
  BY DEF Strong, VisitInv, TypeOK
<1>3. /\ stream' = stream /\ Triggers' = Triggers
      /\ EB!Remaining' = EB!Remaining
  BY VisitLeavesTriggers
<1>4. Len(stream[f]) = n
  <2>1. Given(f) = n
    BY <1>1, <1>2 DEF AfterRounds
  <2>2. Len(unread[f]) = 0
    BY <1>1
  <2> DEFINE a == Len(stream[f])
             b == Len(unread[f])
  <2>3. a \in Nat /\ b = 0 /\ a - b = n
    BY <2>1, <2>2, GivenFacts
  <2> HIDE DEF a, b
  <2>4. a = n
    BY <2>3
  <2>5. QED
    BY <2>4 DEF a
<1>5. ASSUME NEW g \in input_files'
      PROVE  Given(g)' = IF g \in todo' THEN n ELSE n + 1
  BY <1>1, <1>2, <1>3 DEF AfterRounds, Given
<1>6. ASSUME NEW g \in Files \ input_files'
      PROVE  Len(stream[g]) <= n - 0
  <2>1. CASE g = f
    BY <1>4, <2>1
  <2>2. CASE g # f
    BY <1>1, <2>2 DEF AfterRounds
  <2>3. QED
    BY <2>1, <2>2
<1>7. Len(stream[f]) = n - 0
  BY <1>4
<1>8. QED
  BY <1>1, <1>3, <1>5, <1>6, <1>7 DEF AfterRounds

LEMMA AlignCounts ==
  ASSUME Strong, EBP!Strong, Align, Window > 0, stream \in SeparatedStreams,
         NEW n \in Nat, AfterRounds(n)
  PROVE  AfterRounds(n + 1)'
<1>1. /\ todo = {} /\ todo' = input_files /\ ~done
      /\ UNCHANGED <<stream, unread, input_files>>
      /\ input_files' = {} => done'
  BY DEF Align
<1>2. /\ IsFiniteSet(Triggers) /\ IsFiniteSet(EB!Remaining)
      /\ Triggers' = Triggers
  BY <1>1, TriggersAreFinite, RemainingAreTriggers DEF Triggers
<1>3. Counts(Triggers, EB!Remaining, n)
  BY DEF AfterRounds, Counts
<1>4. Counts(Triggers, EB!Remaining', n + 1)
  BY <1>2, <1>3, OneMoreCounted, RoundDisposesOne
<1>5. ASSUME NEW g \in input_files'
      PROVE  Given(g)' = IF g \in todo' THEN n + 1 ELSE (n + 1) + 1
  BY <1>1 DEF AfterRounds, Given
<1>6. ASSUME NEW g \in Files \ input_files'
      PROVE  Len(stream[g]) <= (n + 1) - (IF done' THEN 1 ELSE 0)
  <2>1. Len(stream[g]) <= n - 0
    BY <1>1 DEF AfterRounds
  <2> DEFINE a == Len(stream[g])
  <2>2. a \in Nat /\ a <= n
    BY <2>1, GivenFacts
  <2> HIDE DEF a
  <2>3. a <= (n + 1) - 1 /\ a <= (n + 1) - 0
    BY <2>2
  <2>4. QED
    BY <2>3 DEF a
<1>7. ASSUME input_files' = {}
      PROVE  \E g \in Files : Len(stream[g]) = (n + 1) - (IF done' THEN 1 ELSE 0)
  <2>1. PICK g \in Files : Len(stream[g]) = n - 0
    BY <1>1, <1>7 DEF AfterRounds
  <2>2. Len(stream[g]) = (n + 1) - 1
    BY <2>1
  <2>3. QED
    BY <1>1, <1>7, <2>2
<1>8. QED
  BY <1>1, <1>2, <1>4, <1>5, <1>6, <1>7 DEF AfterRounds, Counts

(* The number of rounds is bounded by the files: the bound a round needs.  *)
LEMMA RoundsAreBounded ==
  ASSUME Strong, Align, NEW n \in Nat, AfterRounds(n)
  PROVE  \E f \in Files : n + 1 <= Len(stream[f]) + 1
<1>1. todo = {} /\ ~done
  BY DEF Align
<1>2. CASE input_files = {}
  <2>1. PICK f \in Files : Len(stream[f]) = n - 0
    BY <1>1, <1>2 DEF AfterRounds
  <2>2. QED
    BY <2>1
<1>3. ASSUME NEW f \in input_files
      PROVE  \E g \in Files : n + 1 <= Len(stream[g]) + 1
  <2>1. f \in Files
    BY DEF Strong, VisitInv, TypeOK
  <2>2. Given(f) = n + 1
    BY <1>1 DEF AfterRounds
  <2> DEFINE a == Len(stream[f])
             b == Len(unread[f])
  <2>3. a \in Nat /\ b \in Nat /\ a - b = n + 1
    BY <2>1, <2>2, GivenFacts
  <2> HIDE DEF a, b
  <2>4. n + 1 <= a + 1
    BY <2>3
  <2>5. QED
    BY <2>1, <2>4 DEF a
<1>4. QED
  BY <1>2, <1>3

(* The same account, with the number of rounds as a natural number.        *)
Rounds ==
  Window > 0 /\ stream \in SeparatedStreams =>
    \E n \in Nat : AfterRounds(n) /\ \E f \in Files : n <= Len(stream[f]) + 1

Ended == done => EventLimit > 0 \/ input_files = {}

LEMMA RoundsMean ==
  ASSUME Strong
  PROVE  Rounds /\ Ended <=> OneTriggerPerRound
<1>1. ASSUME NEW f \in Files, NEW n \in Nat
      PROVE  n <= Len(stream[f]) + 1 <=> n \in 0 .. Len(stream[f]) + 1
  BY GivenFacts
<1>2. ASSUME NEW f \in Files, NEW n \in 0 .. Len(stream[f]) + 1 PROVE n \in Nat
  BY GivenFacts
<1>3. QED
  BY <1>1, <1>2 DEF Rounds, Ended, OneTriggerPerRound

LEMMA InitRounds == Init => Rounds /\ Ended
<1> SUFFICES ASSUME Init PROVE Rounds /\ Ended
  OBVIOUS
<1>1. Strong
  BY InitStrong
<1>2. Pending = stream
  <2>1. ASSUME NEW f \in Files PROVE event_queue[f] \o unread[f] = stream[f]
    BY <1>1, GivenFacts, ConcatEmptySeq DEF Init
  <2>2. stream \in [Files -> Seq(Packet)]
    BY <1>1 DEF Strong, VisitInv, TypeOK
  <2>3. QED
    BY <2>1, <2>2 DEF Pending
<1>3. EB!Remaining = Triggers
  BY <1>2 DEF EB!Remaining, Triggers
<1>4. Cardinality(Triggers) = Cardinality(EB!Remaining) + 0
  BY <1>1, <1>3, TriggersAreFinite
<1>5. ASSUME NEW f \in Files PROVE Given(f) = 0
  <2> DEFINE a == Len(stream[f])
  <2>1. a \in Nat /\ Given(f) = a - a
    BY <1>1, GivenFacts DEF Init
  <2> HIDE DEF a
  <2>2. QED
    BY <2>1
<1>6. AfterRounds(0)
  BY <1>4, <1>5, FilesAssumption DEF Init, AfterRounds
<1>7. \E f \in Files : 0 <= Len(stream[f]) + 1
  <2>1. PICK f \in Files : TRUE
    BY FilesAssumption
  <2>2. 0 <= Len(stream[f]) + 1
    BY <1>1, GivenFacts
  <2>3. QED
    BY <2>2
<1>8. QED
  BY <1>6, <1>7 DEF Init, Rounds, Ended

LEMMA NextRounds ==
  Strong /\ EBP!Strong /\ Rounds /\ Ended /\ [Next]_vars => Rounds' /\ Ended'
<1> SUFFICES ASSUME Strong, EBP!Strong, Rounds, Ended, [Next]_vars
             PROVE  Rounds' /\ Ended'
  OBVIOUS
<1>1. CASE Align
  <2>1. Ended'
    BY <1>1 DEF Align, ExitEarly, Ended
  <2>2. stream' = stream
    BY <1>1 DEF Align
  <2>3. ASSUME Window > 0, stream \in SeparatedStreams
        PROVE  \E n \in Nat : AfterRounds(n)' /\ \E f \in Files : n <= Len(stream[f]) + 1
    <3>1. PICK n \in Nat : AfterRounds(n)
      BY <2>3 DEF Rounds
    <3>2. AfterRounds(n + 1)'
      BY <1>1, <2>3, <3>1, AlignCounts
    <3>3. \E f \in Files : n + 1 <= Len(stream[f]) + 1
      BY <1>1, <3>1, RoundsAreBounded
    <3>4. QED
      BY <3>2, <3>3
  <2>4. QED
    BY <2>1, <2>2, <2>3 DEF Rounds, SeparatedStreams
<1>2. ASSUME NEW f \in Files, PullPacket(f) \/ FileDone(f)
      PROVE  Rounds' /\ Ended'
  <2>1. Ended'
    BY <1>2 DEF PullPacket, FileDone, Ended
  <2>2. stream' = stream
    BY <1>2 DEF PullPacket, FileDone
  <2>3. ASSUME NEW n \in Nat, AfterRounds(n) PROVE AfterRounds(n)'
    BY <1>2, <2>3, PullPacketCounts, FileDoneCounts
  <2>4. QED
    BY <2>1, <2>2, <2>3 DEF Rounds, SeparatedStreams
<1>3. CASE UNCHANGED vars
  <2>1. UNCHANGED <<stream, unread, input_files, todo, event_queue, done>>
    BY <1>3 DEF vars
  <2>2. Pending' = Pending
    BY <2>1 DEF Pending
  <2>3. /\ Triggers' = Triggers /\ EB!Remaining' = EB!Remaining
        /\ \A f : Given(f)' = Given(f)
    BY <2>1, <2>2 DEF Triggers, EB!Remaining, Given
  <2>4. ASSUME NEW n \in Nat, AfterRounds(n) PROVE AfterRounds(n)'
    BY <2>1, <2>3, <2>4 DEF AfterRounds
  <2>5. QED
    BY <2>1, <2>4 DEF Rounds, Ended, SeparatedStreams
<1>4. QED
  BY <1>1, <1>2, <1>3 DEF Next

LEMMA AlwaysMergeStrong == Spec => []EBP!Strong
<1>1. Spec => EBP!Spec
  BY InitRefines, NextRefines, AlwaysStrong, SameMerge, PTL DEF Spec, EBP!Spec
<1>2. EBP!Init => EBP!Strong
  BY EBP!InitStrong, MergeAssumptions
<1>3. EBP!Strong /\ [EBP!Next]_(EBP!vars) => EBP!Strong'
  BY EBP!NextStrong, MergeAssumptions
<1>4. QED
  BY <1>1, <1>2, <1>3, PTL DEF EBP!Spec

LEMMA AlwaysRounds == Spec => [](Rounds /\ Ended)
  BY InitRounds, NextRounds, AlwaysStrong, AlwaysMergeStrong, PTL DEF Spec

(* Each round disposes of one trigger of those that remain, and the loop   *)
(* makes as many rounds as the longest file has packets and one more.      *)
THEOREM ConverterRounds == Spec => []IInv
<1>1. Strong /\ Rounds /\ Ended => IInv
  BY RoundsMean DEF Strong, IInv
<1>2. QED
  BY <1>1, AlwaysStrong, AlwaysRounds, PTL

LEMMA RoundsExplain ==
  ASSUME Strong, EBP!Strong, Rounds, Ended,
         done, EventLimit <= 0, Window > 0, stream \in SeparatedStreams
  PROVE  Queued = {} <=> EnoughRounds
<1>1. input_files = {}
  BY LimitAssumption DEF Ended
<1>2. PICK n \in Nat : AfterRounds(n)
  BY DEF Rounds
<1>3. todo = {} /\ \A f \in Files : unread[f] = << >>
  BY <1>1 DEF Strong, VisitInv, TypeOK, ErasedFilesAreRead
<1>4. Queued = {} <=> EB!Remaining = {}
  <2>1. ASSUME NEW f \in Files
        PROVE  Pending[f] = event_queue[f]
    <3>1. event_queue[f] \in Seq(Packet)
      BY DEF Strong, VisitInv, TypeOK
    <3>2. QED
      BY <1>3, <3>1, ConcatEmptySeq DEF Pending
  <2>2. QED
    BY <2>1, NothingRemains DEF Queued
<1>5. /\ Cardinality(Triggers) \in Nat
      /\ Cardinality(EB!Remaining) \in Nat
      /\ Cardinality(EB!Remaining) = 0 <=> EB!Remaining = {}
  BY TriggersAreFinite, RemainingAreTriggers, FS_CardinalityType, FS_EmptySet
<1>6. EB!Remaining = {} <=> Cardinality(Triggers) <= n
  <2>1. \/ Cardinality(Triggers) = Cardinality(EB!Remaining) + n
        \/ EB!Remaining = {} /\ Cardinality(Triggers) <= n
    BY <1>2 DEF AfterRounds
  <2>2. QED
    BY <1>5, <2>1
<1>7. ASSUME NEW f \in Files
      PROVE  Len(stream[f]) + 1 <= n
  <2> DEFINE a == Len(stream[f])
  <2>1. a \in Nat /\ a <= n - 1
    BY <1>1, <1>2, GivenFacts DEF AfterRounds
  <2> HIDE DEF a
  <2>2. a + 1 <= n
    BY <2>1
  <2>3. QED
    BY <2>2 DEF a
<1>8. PICK f \in Files : Len(stream[f]) = n - 1
  BY <1>1, <1>2 DEF AfterRounds
<1>9. Len(stream[f]) + 1 = n
  BY <1>8
<1>10. EnoughRounds <=> Cardinality(Triggers) <= n
  <2>1. ASSUME Cardinality(Triggers) <= n PROVE EnoughRounds
    BY <1>9, <2>1 DEF EnoughRounds
  <2>2. ASSUME EnoughRounds PROVE Cardinality(Triggers) <= n
    <3>1. PICK g \in Files : Cardinality(Triggers) <= Len(stream[g]) + 1
      BY <2>2 DEF EnoughRounds
    <3> DEFINE a == Len(stream[g]) + 1
               c == Cardinality(Triggers)
    <3>2. a \in Nat /\ c \in Nat /\ c <= a /\ a <= n
      BY <1>5, <1>7, <3>1, GivenFacts
    <3> HIDE DEF a, c
    <3>3. c <= n
      BY <3>2
    <3>4. QED
      BY <3>3 DEF c
  <2>3. QED
    BY <2>1, <2>2
<1>11. QED
  BY <1>4, <1>6, <1>10

(* A conversion without a limit leaves packets in its queues exactly when  *)
(* the files hold more triggers than the longest one has packets, and one. *)
THEOREM ConverterLeftovers == Spec => []LeftoversExplained
<1>1. Strong /\ EBP!Strong /\ Rounds /\ Ended => LeftoversExplained
  BY RoundsExplain DEF LeftoversExplained
<1>2. QED
  BY <1>1, AlwaysStrong, AlwaysMergeStrong, AlwaysRounds, PTL

(* What is pending has come out of the file.                               *)
LEMMA PendingIsOfStream ==
  ASSUME Strong, EBP!Strong, NEW f \in Files, NEW k \in DOMAIN Pending[f]
  PROVE  \E j \in DOMAIN stream[f] : Pending[f][k] = stream[f][j]
<1>1. EBP!Taken(f) \in Nat /\ Pending[f][k] = stream[f][EBP!Taken(f) + k]
  BY DEF EBP!Strong, EBP!IInv, EBP!PendingIsSuffix
<1>2. stream[f] \in Seq(Packet) /\ Pending[f] \in Seq(Packet)
  BY ConcatProperties DEF Pending, Strong, VisitInv, TypeOK
<1> DEFINE a == Len(stream[f])
           b == Len(Pending[f])
<1>3. a \in Nat /\ b \in Nat /\ k \in 1 .. b /\ a - b \in Nat
      /\ EBP!Taken(f) = a - b /\ DOMAIN stream[f] = 1 .. a
  BY <1>1, <1>2, LenProperties DEF EBP!Taken
<1> HIDE DEF a, b
<1>4. (a - b) + k \in 1 .. a
  BY <1>3
<1>5. QED
  BY <1>1, <1>3, <1>4

(* With keep_all nothing but what is left in the queues is thrown away.    *)
LEMMA LeftAreNotKept ==
  ASSUME Strong, EBP!Strong, Rounds, Ended, TakenAreAccounted, PacketsInFileOrder,
         KeepAll, done, EventLimit <= 0
  PROVE  AllKept <=> Queued = {}
<1>1. \A f \in Files : unread[f] = << >>
  BY LimitAssumption DEF Ended, Strong, VisitInv, ErasedFilesAreRead
<1>2. ASSUME NEW f \in Files
      PROVE  Pending[f] = event_queue[f] /\ Pending[f] \in Seq(Packet)
  <2>1. event_queue[f] \in Seq(Packet)
    BY DEF Strong, VisitInv, TypeOK
  <2>2. QED
    BY <1>1, <2>1, ConcatEmptySeq DEF Pending
<1>3. DOMAIN Events = DOMAIN output /\ \A i \in DOMAIN output : Events[i] = output[i].packets
  BY DEF Events
<1>4. ASSUME Queued = {} PROVE AllKept
  <2>1. \A f \in Files : DOMAIN Pending[f] = {}
    BY <1>2, <1>4, HasDomain DEF Queued
  <2>2. QED
    BY <1>3, <2>1 DEF AllKept, TakenAreAccounted, EB!TakenAreAccounted
<1>5. ASSUME AllKept, NEW f \in Queued PROVE FALSE
  <2>1. f \in Files /\ DOMAIN Pending[f] # {}
    BY <1>2, HasDomain DEF Queued
  <2>2. PICK k \in DOMAIN Pending[f] : TRUE
    BY <2>1
  <2>3. PICK j \in DOMAIN stream[f] : Pending[f][k] = stream[f][j]
    BY <2>1, <2>2, PendingIsOfStream
  <2>4. PICK i \in DOMAIN output :
          f \in DOMAIN output[i].packets /\ output[i].packets[f] = stream[f][j]
    BY <1>5, <2>1 DEF AllKept
  <2>5. Events[i][f].trig < Pending[f][k].trig
    BY <1>3, <2>1, <2>4 DEF PacketsInFileOrder, EB!PacketsInFileOrder
  <2>6. Pending[f][k] \in Packet
    BY <1>2, <2>1, ElementOfSeq
  <2>7. QED
    BY <1>3, <2>3, <2>4, <2>5, <2>6 DEF Packet
<1>6. QED
  BY <1>4, <1>5

(* With keep_all and no limit every packet is written exactly if the files *)
(* hold no more triggers than the longest one has packets, and one.        *)
THEOREM ConverterKeeps == Spec => []KeptIfEnoughRounds
<1>1. Strong /\ EBP!Strong /\ Rounds /\ Ended /\ TakenAreAccounted
        /\ PacketsInFileOrder => KeptIfEnoughRounds
  BY RoundsExplain, LeftAreNotKept DEF KeptIfEnoughRounds
<1>2. QED
  BY <1>1, AlwaysStrong, AlwaysMergeStrong, AlwaysRounds, AlwaysAccounted,
     ConverterFileOrder, PTL

=============================================================================
