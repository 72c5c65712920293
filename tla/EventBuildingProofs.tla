------------------------ MODULE EventBuildingProofs ------------------------
(***************************************************************************)
(* Proofs about the merge of complete files: its invariant is inductive,   *)
(* hence no event mixes triggers, no complete trigger is dropped, packets  *)
(* keep the order of their file, and keep_all loses none.                  *)
(***************************************************************************)
EXTENDS EventBuilding, SequenceTheorems, TLAPS

GroupSet == UNION {[F -> Packet] : F \in SUBSET Files}

EventsType == events \in Seq(GroupSet)

Strong == IInv /\ EventsType

LEMMA WindowIsNatural == Window \in Nat
  BY WindowAssumption DEF Window

LEMMA PacketFields ==
  ASSUME NEW p \in Packet
  PROVE  p.ts \in Nat /\ p.ts <= TimestampMax /\ p.trig \in Nat
  BY WindowAssumption DEF Packet, Timestamp

-----------------------------------------------------------------------------
LEMMA InitStrong == Init => Strong
<1> SUFFICES ASSUME Init PROVE Strong
  OBVIOUS
<1>1. stream \in [Files -> Seq(Packet)] /\ Numbered(stream)
  BY StreamsAssumption DEF Init
<1>2. events = << >> /\ DOMAIN events = {} /\ dropped = {} /\ Groups = {}
  BY DEF Init, Groups
<1>3. \A f \in Files : /\ pending[f] = stream[f]
                       /\ Len(stream[f]) \in Nat
                       /\ DOMAIN stream[f] = 1 .. Len(stream[f])
  BY <1>1, LenProperties DEF Init
<1>4. ASSUME NEW f \in Files PROVE Taken(f) = 0
  <2>1. Len(pending[f]) = Len(stream[f]) /\ Len(stream[f]) \in Nat
    BY <1>3
  <2>2. QED
    BY <2>1 DEF Taken
<1>5. TypeOK
  BY <1>1, <1>2 DEF Init, TypeOK
<1>6. PendingIsSuffix
  <2>1. ASSUME NEW f \in Files, NEW k \in DOMAIN pending[f]
        PROVE  pending[f][k] = stream[f][Taken(f) + k]
    BY <1>3, <1>4
  <2>2. ASSUME NEW f \in Files PROVE Taken(f) \in Nat
    <3>1. Taken(f) = 0
      BY <1>4
    <3>2. QED
      BY <3>1
  <2>3. QED
    BY <2>1, <2>2 DEF PendingIsSuffix
<1>7. GroupsAreTaken /\ GroupsHoldOneTrigger
  BY <1>2 DEF GroupsAreTaken, GroupsHoldOneTrigger
<1>8. TakenIsGrouped /\ TriggersInOrder
  BY <1>4 DEF TakenIsGrouped, TriggersInOrder
<1>9. NoCompleteTriggerDropped /\ KeepAllDropsNothing /\ PacketsInFileOrder
  BY <1>2 DEF NoCompleteTriggerDropped, KeepAllDropsNothing, PacketsInFileOrder
<1>10. EventsType
  BY <1>2, EmptySeq DEF EventsType
<1>11. QED
  BY <1>5, <1>6, <1>7, <1>8, <1>9, <1>10 DEF Strong, IInv

-----------------------------------------------------------------------------
(* What one step of the merge does, in terms the invariant is about.       *)
InWindow(ref) ==
  {f \in Sources : Head(pending[f]).ts - Head(pending[ref]).ts < Window}

GroupOf(ref) == [f \in InWindow(ref) |-> Head(pending[f])]

LEMMA PendingFacts ==
  ASSUME Strong, NEW f \in Files
  PROVE  /\ pending[f] \in Seq(Packet) /\ stream[f] \in Seq(Packet)
         /\ Len(pending[f]) \in Nat /\ Len(stream[f]) \in Nat
         /\ DOMAIN pending[f] = 1 .. Len(pending[f])
         /\ DOMAIN stream[f] = 1 .. Len(stream[f])
         /\ Taken(f) \in Nat /\ Len(stream[f]) = Taken(f) + Len(pending[f])
         /\ \A k \in DOMAIN pending[f] :
              /\ pending[f][k] = stream[f][Taken(f) + k]
              /\ Taken(f) + k \in DOMAIN stream[f]
              /\ pending[f][k] \in Packet
<1>1. pending[f] \in Seq(Packet) /\ stream[f] \in Seq(Packet)
  BY DEF Strong, IInv, TypeOK
<1>2. /\ Len(pending[f]) \in Nat /\ Len(stream[f]) \in Nat
      /\ DOMAIN pending[f] = 1 .. Len(pending[f])
      /\ DOMAIN stream[f] = 1 .. Len(stream[f])
  BY <1>1, LenProperties
<1>3. Taken(f) \in Nat /\ Len(stream[f]) = Taken(f) + Len(pending[f])
  BY <1>2 DEF Strong, IInv, PendingIsSuffix, Taken
<1>4. ASSUME NEW k \in DOMAIN pending[f]
      PROVE  /\ pending[f][k] = stream[f][Taken(f) + k]
             /\ Taken(f) + k \in DOMAIN stream[f]
             /\ pending[f][k] \in Packet
  <2>1. pending[f][k] = stream[f][Taken(f) + k]
    BY DEF Strong, IInv, PendingIsSuffix
  <2>2. Taken(f) + k \in DOMAIN stream[f]
    BY <1>2, <1>3
  <2>3. pending[f][k] \in Packet
    BY <1>1, <1>2, ElementOfSeq
  <2>4. QED
    BY <2>1, <2>2, <2>3
<1>5. QED
  BY <1>1, <1>2, <1>3, <1>4

(* The head of a pending file is the first packet not taken of its stream. *)
LEMMA HeadFacts ==
  ASSUME Strong, NEW f \in Sources
  PROVE  /\ f \in Files /\ 1 \in DOMAIN pending[f]
         /\ Head(pending[f]) = pending[f][1]
         /\ Head(pending[f]) = stream[f][Taken(f) + 1]
         /\ Taken(f) + 1 \in DOMAIN stream[f]
         /\ Head(pending[f]) \in Packet
         /\ Head(pending[f]).ts \in Nat /\ Head(pending[f]).trig \in Nat
<1>1. f \in Files /\ pending[f] # << >>
  BY DEF Sources
<1>2. pending[f] \in Seq(Packet) /\ Len(pending[f]) \in Nat \ {0}
  BY <1>1, PendingFacts, EmptySeq
<1>3. 1 \in DOMAIN pending[f]
  BY <1>1, <1>2, PendingFacts
<1>4. Head(pending[f]) = pending[f][1]
  BY <1>2
<1>5. QED
  BY <1>1, <1>3, <1>4, PendingFacts, PacketFields

(* What is pending of a file is numbered as the file is, after what has     *)
(* been taken of it.                                                       *)
LEMMA PendingNumbered ==
  ASSUME Strong, NEW f \in Files, NEW k \in DOMAIN pending[f]
  PROVE  /\ \A j \in DOMAIN pending[f] :
              j < k => pending[f][j].trig < pending[f][k].trig
         /\ \A j \in 1 .. Taken(f) : stream[f][j].trig < pending[f][k].trig
<1>1. /\ Taken(f) \in Nat /\ Len(pending[f]) \in Nat
      /\ DOMAIN pending[f] = 1 .. Len(pending[f])
      /\ DOMAIN stream[f] = 1 .. (Taken(f) + Len(pending[f]))
  BY PendingFacts
<1>2. \A i, j \in DOMAIN stream[f] :
        i < j => stream[f][i].trig < stream[f][j].trig
  BY DEF Strong, IInv, TypeOK, Numbered
<1>3. pending[f][k] = stream[f][Taken(f) + k] /\ Taken(f) + k \in DOMAIN stream[f]
  BY PendingFacts
<1>4. ASSUME NEW j \in DOMAIN pending[f], j < k
      PROVE  pending[f][j].trig < pending[f][k].trig
  <2>1. pending[f][j] = stream[f][Taken(f) + j] /\ Taken(f) + j \in DOMAIN stream[f]
    BY PendingFacts
  <2>2. Taken(f) + j < Taken(f) + k
    BY <1>1, <1>4
  <2>3. QED
    BY <1>2, <1>3, <2>1, <2>2
<1>5. ASSUME NEW j \in 1 .. Taken(f)
      PROVE  stream[f][j].trig < pending[f][k].trig
  <2>1. j \in DOMAIN stream[f] /\ j < Taken(f) + k
    BY <1>1
  <2>2. QED
    BY <1>2, <1>3, <2>1
<1>6. QED
  BY <1>4, <1>5

LEMMA StepFacts ==
  ASSUME Strong, NEW ref \in Sources, Build(ref)
  PROVE  /\ InWindow(ref) \in SUBSET Sources /\ ref \in InWindow(ref)
         /\ Window > 0
         /\ \A g \in Sources : Head(pending[ref]).ts <= Head(pending[g]).ts
         /\ GroupOf(ref) \in GroupSet /\ IsGroup(GroupOf(ref))
         /\ Groups' = Groups \union {GroupOf(ref)}
         /\ stream' = stream
<1>1. /\ InWindow(ref) \in SUBSET Sources /\ InWindow(ref) # {}
      /\ \A g \in Sources : Head(pending[ref]).ts <= Head(pending[g]).ts
      /\ stream' = stream
  BY DEF Build, InWindow
<1>2. Window > 0 /\ ref \in InWindow(ref)
  <2>1. PICK f \in Sources : Head(pending[f]).ts - Head(pending[ref]).ts < Window
    BY <1>1 DEF InWindow
  <2>2. Head(pending[ref]).ts <= Head(pending[f]).ts
    BY <1>1
  <2>3. Head(pending[f]).ts \in Nat /\ Head(pending[ref]).ts \in Nat
    BY HeadFacts
  <2>4. Window > 0
    BY <2>1, <2>2, <2>3, WindowIsNatural
  <2>5. Head(pending[ref]).ts - Head(pending[ref]).ts < Window
    BY <2>3, <2>4
  <2>6. QED
    BY <2>4, <2>5 DEF InWindow
<1>3. GroupOf(ref) \in [InWindow(ref) -> Packet] /\ InWindow(ref) \in SUBSET Files
  BY <1>1, HeadFacts DEF GroupOf
<1>4. GroupOf(ref) \in GroupSet /\ IsGroup(GroupOf(ref))
  BY <1>3 DEF GroupSet, IsGroup, GroupOf
<1>5. Groups' = Groups \union {GroupOf(ref)}
  <2>1. CASE events' = Append(events, GroupOf(ref)) /\ UNCHANGED dropped
    <3>1. /\ events' \in Seq(GroupSet)
          /\ Len(events') = Len(events) + 1
          /\ \A i \in 1 .. Len(events) : events'[i] = events[i]
          /\ events'[Len(events) + 1] = GroupOf(ref)
      BY <1>4, <2>1, AppendProperties DEF Strong, EventsType
    <3>2. /\ Len(events) \in Nat /\ DOMAIN events = 1 .. Len(events)
          /\ DOMAIN events' = 1 .. Len(events) + 1
      BY <3>1, LenProperties DEF Strong, EventsType
    <3>3. 1 .. Len(events) + 1 = (1 .. Len(events)) \union {Len(events) + 1}
      BY <3>2
    <3>4. {events'[i] : i \in DOMAIN events'}
            = {events[i] : i \in DOMAIN events} \union {GroupOf(ref)}
      BY <3>1, <3>2, <3>3
    <3>5. QED
      BY <2>1, <3>4 DEF Groups
  <2>2. CASE dropped' = dropped \union {GroupOf(ref)} /\ UNCHANGED events
    BY <2>2 DEF Groups
  <2>3. QED
    BY <2>1, <2>2 DEF Build, GroupOf, InWindow
<1>6. QED
  BY <1>1, <1>2, <1>4, <1>5

(* The files of the group move on by one packet, the others stay.          *)
LEMMA TakenStep ==
  ASSUME Strong, NEW ref \in Sources, Build(ref)
  PROVE  /\ \A f \in InWindow(ref) :
              /\ pending'[f] \in Seq(Packet)
              /\ Taken(f)' = Taken(f) + 1
              /\ Len(pending'[f]) = Len(pending[f]) - 1
              /\ DOMAIN pending'[f] = 1 .. (Len(pending[f]) - 1)
              /\ \A k \in DOMAIN pending'[f] :
                   k + 1 \in DOMAIN pending[f] /\ pending'[f][k] = pending[f][k+1]
         /\ \A f \in Files \ InWindow(ref) :
              pending'[f] = pending[f] /\ Taken(f)' = Taken(f)
<1>1. /\ InWindow(ref) \in SUBSET Sources /\ Sources \in SUBSET Files
      /\ stream' = stream
  BY StepFacts DEF Sources
<1>2. pending' = [f \in Files |-> IF f \in InWindow(ref) THEN Tail(pending[f])
                                                         ELSE pending[f]]
  BY DEF Build, InWindow
<1>3. ASSUME NEW f \in InWindow(ref)
      PROVE  /\ pending'[f] \in Seq(Packet)
             /\ Taken(f)' = Taken(f) + 1
             /\ Len(pending'[f]) = Len(pending[f]) - 1
             /\ DOMAIN pending'[f] = 1 .. (Len(pending[f]) - 1)
             /\ \A k \in DOMAIN pending'[f] :
                  k + 1 \in DOMAIN pending[f] /\ pending'[f][k] = pending[f][k+1]
  <2>1. f \in Files /\ pending[f] # << >> /\ pending'[f] = Tail(pending[f])
    BY <1>1, <1>2 DEF Sources
  <2>2. /\ pending[f] \in Seq(Packet)
        /\ Len(pending[f]) \in Nat /\ Len(stream[f]) \in Nat
        /\ DOMAIN pending[f] = 1 .. Len(pending[f])
    BY <2>1, PendingFacts
  <2>3. /\ pending'[f] \in Seq(Packet)
        /\ Len(pending'[f]) = Len(pending[f]) - 1
        /\ \A k \in 1 .. Len(pending'[f]) : pending'[f][k] = pending[f][k+1]
    BY <2>1, <2>2, HeadTailProperties
  <2>4. DOMAIN pending'[f] = 1 .. (Len(pending[f]) - 1)
    BY <2>3, LenProperties
  <2>5. Taken(f)' = Taken(f) + 1
    BY <1>1, <2>2, <2>3 DEF Taken
  <2>6. QED
    BY <2>2, <2>3, <2>4, <2>5
<1>4. ASSUME NEW f \in Files \ InWindow(ref)
      PROVE  pending'[f] = pending[f] /\ Taken(f)' = Taken(f)
  BY <1>1, <1>2 DEF Taken
<1>5. QED
  BY <1>3, <1>4

-----------------------------------------------------------------------------
(* Each part of the invariant is preserved.                                *)

LEMMA KeepsSuffix ==
  ASSUME Strong, NEW ref \in Sources, Build(ref)
  PROVE  PendingIsSuffix'
<1>1. stream' = stream
  BY StepFacts
<1>2. ASSUME NEW f \in InWindow(ref)
      PROVE  /\ Taken(f)' \in Nat
             /\ \A k \in DOMAIN pending'[f] :
                  pending'[f][k] = stream[f][Taken(f)' + k]
  <2>1. f \in Files /\ Taken(f) \in Nat /\ Len(pending[f]) \in Nat
    BY PendingFacts DEF InWindow, Sources
  <2>2. Taken(f)' = Taken(f) + 1
    BY TakenStep
  <2>3. Taken(f)' \in Nat
    BY <2>1, <2>2
  <2>4. ASSUME NEW k \in DOMAIN pending'[f]
        PROVE  pending'[f][k] = stream[f][Taken(f)' + k]
    <3>1. k \in 1 .. (Len(pending[f]) - 1) /\ k + 1 \in DOMAIN pending[f]
      BY TakenStep
    <3>2. pending'[f][k] = pending[f][k+1]
      BY TakenStep
    <3>3. pending[f][k+1] = stream[f][Taken(f) + (k + 1)]
      BY <2>1, <3>1, PendingFacts
    <3>4. Taken(f) + (k + 1) = (Taken(f) + 1) + k
      BY <2>1, <3>1
    <3>5. QED
      BY <2>2, <3>2, <3>3, <3>4
  <2>5. QED
    BY <2>3, <2>4
<1>3. ASSUME NEW f \in Files \ InWindow(ref)
      PROVE  /\ Taken(f)' \in Nat
             /\ \A k \in DOMAIN pending'[f] :
                  pending'[f][k] = stream[f][Taken(f)' + k]
  BY TakenStep, PendingFacts
<1>4. QED
  BY <1>1, <1>2, <1>3 DEF PendingIsSuffix

(* Every packet of the new group is the one taken from its file now.       *)
LEMMA NewGroup ==
  ASSUME Strong, NEW ref \in Sources, Build(ref), NEW f \in InWindow(ref)
  PROVE  /\ f \in Files /\ f \in Sources
         /\ GroupOf(ref)[f] = Head(pending[f])
         /\ GroupOf(ref)[f] = pending[f][1] /\ 1 \in DOMAIN pending[f]
         /\ GroupOf(ref)[f] = stream[f][Taken(f) + 1]
         /\ Taken(f) + 1 \in DOMAIN stream[f]
         /\ Taken(f) \in Nat /\ Taken(f)' = Taken(f) + 1
         /\ GroupOf(ref)[f].trig \in Nat /\ GroupOf(ref)[f].ts \in Nat
<1>1. f \in Sources /\ f \in Files
  BY DEF InWindow, Sources
<1>2. GroupOf(ref)[f] = Head(pending[f])
  BY DEF GroupOf
<1>3. Taken(f) \in Nat
  BY <1>1, PendingFacts
<1>4. Taken(f)' = Taken(f) + 1
  BY TakenStep
<1>5. QED
  BY <1>1, <1>2, <1>3, <1>4, HeadFacts

LEMMA TakenGrows ==
  ASSUME Strong, NEW ref \in Sources, Build(ref), NEW f \in Files
  PROVE  /\ Taken(f) \in Nat
         /\ \A k \in 1 .. Taken(f) : k \in 1 .. Taken(f)'
         /\ \A k \in 1 .. Taken(f)' :
              k \in 1 .. Taken(f) \/ (f \in InWindow(ref) /\ k = Taken(f) + 1)
<1>1. Taken(f) \in Nat
  BY PendingFacts
<1>2. CASE f \in InWindow(ref)
  <2>1. Taken(f)' = Taken(f) + 1
    BY <1>2, TakenStep
  <2>2. QED
    BY <1>1, <1>2, <2>1
<1>3. CASE f \notin InWindow(ref)
  BY <1>1, <1>3, TakenStep
<1>4. QED
  BY <1>2, <1>3

LEMMA KeepsGroupsTaken ==
  ASSUME Strong, NEW ref \in Sources, Build(ref)
  PROVE  GroupsAreTaken'
<1> SUFFICES ASSUME NEW g \in Groups', NEW f \in DOMAIN g
             PROVE  \E k \in 1 .. Taken(f)' : g[f] = stream'[f][k]
  BY DEF GroupsAreTaken
<1>1. stream' = stream
  BY StepFacts
<1>2. CASE g \in Groups
  <2>1. PICK k \in 1 .. Taken(f) : g[f] = stream[f][k]
    BY <1>2 DEF Strong, IInv, GroupsAreTaken
  <2>2. f \in Files
    BY <1>2 DEF Strong, IInv, TypeOK, Groups, IsGroup
  <2>3. k \in 1 .. Taken(f)'
    BY <2>1, <2>2, TakenGrows
  <2>4. QED
    BY <1>1, <2>1, <2>3
<1>3. CASE g = GroupOf(ref)
  <2>1. f \in InWindow(ref)
    BY <1>3 DEF GroupOf
  <2>2. Taken(f) + 1 \in 1 .. Taken(f)' /\ g[f] = stream[f][Taken(f) + 1]
    BY <1>3, <2>1, NewGroup
  <2>3. QED
    BY <1>1, <2>2
<1>4. QED
  BY <1>2, <1>3, StepFacts

LEMMA KeepsTakenGrouped ==
  ASSUME Strong, NEW ref \in Sources, Build(ref)
  PROVE  TakenIsGrouped'
<1> SUFFICES ASSUME NEW f \in Files, NEW k \in 1 .. Taken(f)'
             PROVE  \E g \in Groups' : f \in DOMAIN g /\ g[f] = stream'[f][k]
  BY DEF TakenIsGrouped
<1>1. stream' = stream /\ Groups' = Groups \union {GroupOf(ref)}
  BY StepFacts
<1>2. CASE k \in 1 .. Taken(f)
  BY <1>1, <1>2 DEF Strong, IInv, TakenIsGrouped
<1>3. CASE f \in InWindow(ref) /\ k = Taken(f) + 1
  <2>1. f \in DOMAIN GroupOf(ref) /\ GroupOf(ref)[f] = stream[f][k]
    BY <1>3, NewGroup DEF GroupOf
  <2>2. QED
    BY <1>1, <2>1
<1>4. QED
  BY <1>2, <1>3, TakenGrows

(* In separated streams the group is the earliest pending trigger.         *)
LEMMA GroupIsTrigger ==
  ASSUME Strong, NEW ref \in Sources, Build(ref), Separated(stream)
  PROVE  LET t == Head(pending[ref]).trig
         IN  /\ \A f \in InWindow(ref) : GroupOf(ref)[f].trig = t
             /\ \A f \in Sources \ InWindow(ref) : Head(pending[f]).trig > t
<1> DEFINE t == Head(pending[ref]).trig
<1>1. t \in Nat /\ Window > 0 /\ Window \in Nat
  BY HeadFacts, StepFacts, WindowIsNatural
<1>2. ASSUME NEW f \in Sources
      PROVE  /\ Head(pending[f]).trig = t
                  => Head(pending[f]).ts - Head(pending[ref]).ts < Window
             /\ t < Head(pending[f]).trig
                  => Head(pending[f]).ts - Head(pending[ref]).ts >= Window
             /\ Head(pending[f]).trig < t
                  => Head(pending[ref]).ts - Head(pending[f]).ts >= Window
             /\ Head(pending[ref]).ts <= Head(pending[f]).ts
             /\ Head(pending[f]).trig \in Nat
             /\ Head(pending[f]).ts \in Nat /\ Head(pending[ref]).ts \in Nat
  <2>1. /\ Head(pending[f]) = stream[f][Taken(f) + 1]
        /\ Head(pending[ref]) = stream[ref][Taken(ref) + 1]
        /\ f \in Files /\ ref \in Files
        /\ Taken(f) + 1 \in DOMAIN stream[f]
        /\ Taken(ref) + 1 \in DOMAIN stream[ref]
    BY HeadFacts
  <2>2. /\ Head(pending[ref]).ts <= Head(pending[f]).ts
        /\ Head(pending[f]).trig \in Nat
        /\ Head(pending[f]).ts \in Nat /\ Head(pending[ref]).ts \in Nat
    BY StepFacts, HeadFacts
  <2>3. QED
    BY <2>1, <2>2 DEF Separated
<1>3. ASSUME NEW f \in InWindow(ref) PROVE GroupOf(ref)[f].trig = t
  <2>1. f \in Sources /\ Head(pending[f]).ts - Head(pending[ref]).ts < Window
    BY DEF InWindow
  <2>2. Head(pending[f]).trig = t
    BY <1>1, <1>2, <2>1
  <2>3. QED
    BY <2>2 DEF GroupOf
<1>4. ASSUME NEW f \in Sources \ InWindow(ref) PROVE Head(pending[f]).trig > t
  <2>1. ~(Head(pending[f]).ts - Head(pending[ref]).ts < Window)
    BY DEF InWindow
  <2>2. QED
    BY <1>1, <1>2, <2>1
<1>5. QED
  BY <1>3, <1>4

LEMMA KeepsOneTrigger ==
  ASSUME Strong, NEW ref \in Sources, Build(ref)
  PROVE  GroupsHoldOneTrigger'
<1> SUFFICES ASSUME stream' \in SeparatedStreams,
                    NEW d \in Groups', NEW f \in DOMAIN d, NEW g \in DOMAIN d
             PROVE  d[f].trig = d[g].trig
  BY DEF GroupsHoldOneTrigger
<1>1. /\ stream' = stream /\ Separated(stream) /\ stream \in SeparatedStreams
      /\ Groups' = Groups \union {GroupOf(ref)}
  BY StepFacts DEF SeparatedStreams
<1>2. CASE d \in Groups
  BY <1>1, <1>2 DEF Strong, IInv, GroupsHoldOneTrigger
<1>3. CASE d = GroupOf(ref)
  <2>1. f \in InWindow(ref) /\ g \in InWindow(ref)
    BY <1>3 DEF GroupOf
  <2>2. QED
    BY <1>1, <1>3, <2>1, GroupIsTrigger
<1>4. QED
  BY <1>1, <1>2, <1>3

(* After the step everything pending is later than the group's trigger.    *)
LEMMA PendingIsLater ==
  ASSUME Strong, NEW ref \in Sources, Build(ref), Separated(stream),
         NEW g \in Files, NEW l \in DOMAIN pending'[g]
  PROVE  /\ Head(pending[ref]).trig < pending'[g][l].trig
         /\ \E m \in DOMAIN pending[g] : pending'[g][l] = pending[g][m]
<1> DEFINE t == Head(pending[ref]).trig
<1>1. /\ \A k \in DOMAIN pending[g] :
            /\ pending[g][k] = stream[g][Taken(g) + k]
            /\ Taken(g) + k \in DOMAIN stream[g]
            /\ pending[g][k] \in Packet /\ pending[g][k].trig \in Nat
      /\ DOMAIN pending[g] = 1 .. Len(pending[g]) /\ Len(pending[g]) \in Nat
      /\ Taken(g) \in Nat /\ t \in Nat
  BY PendingFacts, PacketFields, HeadFacts
<1>2. \A j, k \in DOMAIN pending[g] :
        j < k => pending[g][j].trig < pending[g][k].trig
  BY PendingNumbered
<1>3. CASE g \in InWindow(ref)
  <2>1. /\ l \in 1 .. (Len(pending[g]) - 1)
        /\ l + 1 \in DOMAIN pending[g] /\ pending'[g][l] = pending[g][l+1]
    BY <1>3, TakenStep
  <2>2. pending[g][1].trig = t /\ 1 \in DOMAIN pending[g]
    BY <1>3, NewGroup, GroupIsTrigger
  <2>3. pending[g][1].trig < pending[g][l+1].trig
    <3>1. 1 < l + 1
      BY <1>1, <2>1
    <3>2. QED
      BY <1>2, <2>1, <2>2, <3>1
  <2>4. QED
    BY <2>1, <2>2, <2>3
<1>4. CASE g \notin InWindow(ref)
  <2>1. pending'[g] = pending[g]
    BY <1>4, TakenStep
  <2>2. g \in Sources
    BY <1>1, <2>1 DEF Sources
  <2>3. Head(pending[g]).trig > t /\ Head(pending[g]) = pending[g][1]
        /\ 1 \in DOMAIN pending[g]
    BY <1>4, <2>2, GroupIsTrigger, HeadFacts
  <2>4. l = 1 \/ pending[g][1].trig < pending[g][l].trig
    BY <1>1, <1>2, <2>1, <2>3
  <2>5. t < pending[g][l].trig
    BY <1>1, <2>1, <2>3, <2>4
  <2>6. QED
    BY <2>1, <2>5
<1>5. QED
  BY <1>3, <1>4

LEMMA KeepsTriggersInOrder ==
  ASSUME Strong, NEW ref \in Sources, Build(ref)
  PROVE  TriggersInOrder'
<1> SUFFICES ASSUME stream' \in SeparatedStreams, NEW f \in Files, NEW g \in Files,
                    NEW k \in 1 .. Taken(f)', NEW l \in DOMAIN pending'[g]
             PROVE  stream'[f][k].trig < pending'[g][l].trig
  BY DEF TriggersInOrder
<1>1. stream' = stream /\ Separated(stream) /\ stream \in SeparatedStreams
  BY StepFacts DEF SeparatedStreams
<1>2. CASE k \in 1 .. Taken(f)
  <2>1. PICK m \in DOMAIN pending[g] : pending'[g][l] = pending[g][m]
    BY <1>1, PendingIsLater
  <2>2. stream[f][k].trig < pending[g][m].trig
    BY <1>1, <1>2 DEF Strong, IInv, TriggersInOrder
  <2>3. QED
    BY <1>1, <2>1, <2>2
<1>3. CASE f \in InWindow(ref) /\ k = Taken(f) + 1
  <2>1. stream[f][k].trig = Head(pending[ref]).trig
    BY <1>1, <1>3, NewGroup, GroupIsTrigger
  <2>2. QED
    BY <1>1, <2>1, PendingIsLater
<1>4. QED
  BY <1>2, <1>3, TakenGrows

LEMMA KeepsCompleteTriggers ==
  ASSUME Strong, NEW ref \in Sources, Build(ref)
  PROVE  NoCompleteTriggerDropped'
<1> DEFINE t == Head(pending[ref]).trig
<1> SUFFICES ASSUME stream' \in SeparatedStreams,
                    NEW d \in dropped', NEW f \in DOMAIN d
             PROVE  \E g \in Files : \A k \in DOMAIN stream'[g] :
                      stream'[g][k].trig # d[f].trig
  BY DEF NoCompleteTriggerDropped
<1>1. stream' = stream /\ Separated(stream) /\ stream \in SeparatedStreams
  BY StepFacts DEF SeparatedStreams
<1>2. CASE d \in dropped
  BY <1>1, <1>2 DEF Strong, IInv, NoCompleteTriggerDropped
<1>3. CASE d \notin dropped
  <2>1. d = GroupOf(ref) /\ InWindow(ref) # Files
    BY <1>3 DEF Build, GroupOf, InWindow
  <2>2. PICK g \in Files : g \notin InWindow(ref)
    BY <2>1 DEF InWindow, Sources
  <2>3. d[f].trig = t
    BY <1>1, <2>1, GroupIsTrigger DEF GroupOf
  <2>4. ASSUME NEW k \in DOMAIN stream[g]
        PROVE  stream[g][k].trig # t
    <3>1. /\ DOMAIN stream[g] = 1 .. (Taken(g) + Len(pending[g]))
          /\ Taken(g) \in Nat /\ Len(pending[g]) \in Nat
          /\ DOMAIN pending[g] = 1 .. Len(pending[g])
      BY PendingFacts
    <3>2. /\ Head(pending[ref]) = pending[ref][1] /\ 1 \in DOMAIN pending[ref]
          /\ ref \in Files /\ t \in Nat
      BY HeadFacts
    <3>3. CASE k \in 1 .. Taken(g)
      <4>1. stream[g][k].trig < t
        BY <1>1, <3>2, <3>3 DEF Strong, IInv, TriggersInOrder
      <4>2. QED
        BY <4>1, <3>2
    <3>4. CASE k \notin 1 .. Taken(g)
      <4> DEFINE l == k - Taken(g)
      <4>1. l \in DOMAIN pending[g] /\ Taken(g) + l = k
        BY <3>1, <3>4
      <4>2. pending'[g] = pending[g]
        BY <2>2, TakenStep
      <4>3. t < pending'[g][l].trig
        BY <1>1, <4>1, <4>2, PendingIsLater
      <4>4. pending[g][l] = stream[g][k]
        BY <4>1, PendingFacts
      <4>5. QED
        BY <3>2, <4>2, <4>3, <4>4
    <3>5. QED
      BY <3>3, <3>4
  <2>5. QED
    BY <1>1, <2>3, <2>4
<1>4. QED
  BY <1>2, <1>3

LEMMA KeepsFileOrder ==
  ASSUME Strong, NEW ref \in Sources, Build(ref)
  PROVE  PacketsInFileOrder'
<1>1. stream' = stream
  BY StepFacts
<1>2. /\ Len(events) \in Nat /\ DOMAIN events = 1 .. Len(events)
      /\ \A i \in DOMAIN events : events[i] \in Groups /\ DOMAIN events[i] \in SUBSET Files
  BY LenProperties DEF Strong, EventsType, IInv, TypeOK, IsGroup, Groups
<1>3. ASSUME NEW f \in Files, NEW i \in DOMAIN events, f \in DOMAIN events[i],
             NEW k \in DOMAIN pending[f]
      PROVE  events[i][f].trig < pending[f][k].trig
  BY <1>3 DEF Strong, IInv, PacketsInFileOrder
<1>4. ASSUME NEW f \in Files, NEW k \in DOMAIN pending'[f]
      PROVE  /\ \E m \in DOMAIN pending[f] : pending'[f][k] = pending[f][m]
             /\ f \in InWindow(ref) => GroupOf(ref)[f].trig < pending'[f][k].trig
  <2>1. CASE f \in InWindow(ref)
    <3>1. /\ k \in 1 .. (Len(pending[f]) - 1)
          /\ k + 1 \in DOMAIN pending[f] /\ pending'[f][k] = pending[f][k+1]
      BY <2>1, TakenStep
    <3>2. GroupOf(ref)[f] = pending[f][1] /\ 1 \in DOMAIN pending[f]
      BY <2>1, NewGroup
    <3>3. Len(pending[f]) \in Nat
      BY PendingFacts
    <3>4. pending[f][1].trig < pending[f][k+1].trig
      BY <3>1, <3>2, <3>3, PendingNumbered
    <3>5. QED
      BY <3>1, <3>2, <3>4
  <2>2. CASE f \notin InWindow(ref)
    BY <2>2, TakenStep
  <2>3. QED
    BY <2>1, <2>2
<1>5. CASE UNCHANGED events
  <2>1. \A f \in Files : \A i, j \in DOMAIN events :
          i < j /\ f \in DOMAIN events[i] /\ f \in DOMAIN events[j]
            => events[i][f].trig < events[j][f].trig
    BY DEF Strong, IInv, PacketsInFileOrder
  <2>2. QED
    BY <1>3, <1>4, <1>5, <2>1 DEF PacketsInFileOrder
<1>6. CASE events' = Append(events, GroupOf(ref))
  <2>1. /\ \A i \in DOMAIN events : events'[i] = events[i]
        /\ events'[Len(events) + 1] = GroupOf(ref)
        /\ DOMAIN events' = 1 .. Len(events) + 1
    <3>1. GroupOf(ref) \in GroupSet
      BY StepFacts
    <3>2. /\ events' \in Seq(GroupSet)
          /\ Len(events') = Len(events) + 1
          /\ \A i \in 1 .. Len(events) : events'[i] = events[i]
          /\ events'[Len(events) + 1] = GroupOf(ref)
      BY <1>6, <3>1, AppendProperties DEF Strong, EventsType
    <3>3. QED
      BY <1>2, <3>2, LenProperties
  <2>2. ASSUME NEW f \in Files, NEW i \in DOMAIN events', NEW j \in DOMAIN events',
               i < j, f \in DOMAIN events'[i], f \in DOMAIN events'[j]
        PROVE  events'[i][f].trig < events'[j][f].trig
    <3>1. i \in DOMAIN events
      BY <1>2, <2>1, <2>2
    <3>2. CASE j \in DOMAIN events
      BY <2>1, <2>2, <3>1, <3>2 DEF Strong, IInv, PacketsInFileOrder
    <3>3. CASE j = Len(events) + 1
      <4>1. f \in InWindow(ref)
        BY <2>1, <2>2, <3>3 DEF GroupOf
      <4>2. GroupOf(ref)[f] = pending[f][1] /\ 1 \in DOMAIN pending[f]
        BY <4>1, NewGroup
      <4>3. QED
        BY <1>3, <2>1, <2>2, <3>1, <3>3, <4>2
    <3>4. QED
      BY <1>2, <2>1, <3>2, <3>3
  <2>3. ASSUME NEW f \in Files, NEW i \in DOMAIN events', f \in DOMAIN events'[i],
               NEW k \in DOMAIN pending'[f]
        PROVE  events'[i][f].trig < pending'[f][k].trig
    <3>1. CASE i \in DOMAIN events
      <4>1. PICK m \in DOMAIN pending[f] : pending'[f][k] = pending[f][m]
        BY <1>4
      <4>2. events[i][f].trig < pending[f][m].trig
        BY <1>3, <2>1, <2>3, <3>1
      <4>3. QED
        BY <2>1, <3>1, <4>1, <4>2
    <3>2. CASE i = Len(events) + 1
      <4>1. f \in InWindow(ref)
        BY <2>1, <2>3, <3>2 DEF GroupOf
      <4>2. QED
        BY <1>4, <2>1, <3>2, <4>1
    <3>3. QED
      BY <1>2, <2>1, <3>1, <3>2
  <2>4. QED
    BY <2>2, <2>3 DEF PacketsInFileOrder
<1>7. QED
  BY <1>5, <1>6 DEF Build, GroupOf, InWindow

LEMMA KeepsTypes ==
  ASSUME Strong, NEW ref \in Sources, Build(ref)
  PROVE  TypeOK' /\ EventsType' /\ KeepAllDropsNothing'
<1>1. /\ stream' = stream
      /\ GroupOf(ref) \in GroupSet /\ IsGroup(GroupOf(ref))
  BY StepFacts
<1>2. pending' \in [Files -> Seq(Packet)]
  <2>1. pending' = [f \in Files |-> pending'[f]]
    BY DEF Build
  <2>2. \A f \in Files : pending'[f] \in Seq(Packet)
    BY TakenStep, PendingFacts
  <2>3. QED
    BY <2>1, <2>2
<1>3. CASE events' = Append(events, GroupOf(ref)) /\ dropped' = dropped
  <2>1. /\ events' \in Seq(GroupSet)
        /\ Len(events') = Len(events) + 1
        /\ \A i \in 1 .. Len(events) : events'[i] = events[i]
        /\ events'[Len(events) + 1] = GroupOf(ref)
    BY <1>1, <1>3, AppendProperties DEF Strong, EventsType
  <2>2. DOMAIN events = 1 .. Len(events) /\ Len(events) \in Nat
        /\ DOMAIN events' = 1 .. Len(events) + 1
    BY <2>1, LenProperties DEF Strong, EventsType
  <2>3. \A i \in DOMAIN events' : IsGroup(events'[i])
    BY <1>1, <2>1, <2>2 DEF Strong, IInv, TypeOK
  <2>4. TypeOK'
    BY <1>1, <1>2, <1>3, <2>3 DEF Strong, IInv, TypeOK
  <2>5. QED
    BY <1>3, <2>1, <2>4 DEF Strong, IInv, EventsType, KeepAllDropsNothing
<1>4. CASE ~KeepAll /\ events' = events /\ dropped' = dropped \union {GroupOf(ref)}
  <2>1. TypeOK'
    BY <1>1, <1>2, <1>4 DEF Strong, IInv, TypeOK
  <2>2. QED
    BY <1>4, <2>1 DEF Strong, EventsType, KeepAllDropsNothing
<1>5. QED
  BY <1>3, <1>4 DEF Build, GroupOf, InWindow

LEMMA NextStrong == Strong /\ [Next]_vars => Strong'
<1> SUFFICES ASSUME Strong, [Next]_vars PROVE Strong'
  OBVIOUS
<1>1. ASSUME NEW ref \in Sources, Build(ref) PROVE Strong'
  BY <1>1, KeepsTypes, KeepsSuffix, KeepsGroupsTaken, KeepsTakenGrouped,
     KeepsOneTrigger, KeepsTriggersInOrder, KeepsCompleteTriggers, KeepsFileOrder
  DEF Strong, IInv
<1>2. CASE UNCHANGED vars
  BY <1>2 DEF vars, Strong, IInv, EventsType, TypeOK, PendingIsSuffix, Taken,
     GroupsAreTaken, TakenIsGrouped, GroupsHoldOneTrigger, TriggersInOrder,
     NoCompleteTriggerDropped, KeepAllDropsNothing, PacketsInFileOrder, Groups
<1>3. QED
  BY <1>1, <1>2 DEF Next

(* The invariant of the merge.                                             *)
THEOREM MergeInvariant == Spec => []IInv
<1>1. Strong => IInv
  BY DEF Strong
<1>2. QED
  BY InitStrong, NextStrong, <1>1, PTL DEF Spec

(* A step disposes of the earliest trigger of those that remain, and of no *)
(* other.                                                                  *)
LEMMA BuildDisposesOne ==
  ASSUME Strong, NEW ref \in Sources, Build(ref), Separated(stream)
  PROVE  LET t == Head(pending[ref]).trig
         IN  t \in Remaining /\ Remaining' = Remaining \ {t}
<1> DEFINE t == Head(pending[ref]).trig
<1>1. /\ ref \in Files /\ 1 \in DOMAIN pending[ref]
      /\ Head(pending[ref]) = pending[ref][1] /\ t \in Nat
  BY HeadFacts
<1>2. t \in Remaining
  BY <1>1 DEF Remaining
<1>3. ASSUME NEW g \in Files, NEW l \in DOMAIN pending'[g]
      PROVE  pending'[g][l].trig \in Remaining \ {t}
  <2>1. PICK m \in DOMAIN pending[g] : pending'[g][l] = pending[g][m]
    BY PendingIsLater
  <2>2. t < pending'[g][l].trig
    BY PendingIsLater
  <2>3. pending[g][m].trig \in Nat
    BY PendingFacts, PacketFields
  <2>4. pending'[g][l].trig # t
    BY <1>1, <2>1, <2>2, <2>3
  <2>5. QED
    BY <2>1, <2>4 DEF Remaining
<1>4. ASSUME NEW g \in Files, NEW m \in DOMAIN pending[g], pending[g][m].trig # t
      PROVE  \E l \in DOMAIN pending'[g] : pending'[g][l] = pending[g][m]
  <2>1. CASE g \in InWindow(ref)
    <3>1. pending[g][1].trig = t
      BY <1>4, <2>1, NewGroup, GroupIsTrigger
    <3>2. m # 1
      BY <1>4, <3>1
    <3>3. /\ DOMAIN pending[g] = 1 .. Len(pending[g]) /\ Len(pending[g]) \in Nat
          /\ DOMAIN pending'[g] = 1 .. (Len(pending[g]) - 1)
          /\ \A k \in DOMAIN pending'[g] : pending'[g][k] = pending[g][k+1]
      BY <2>1, PendingFacts, TakenStep
    <3>4. m - 1 \in DOMAIN pending'[g] /\ (m - 1) + 1 = m
      BY <3>2, <3>3
    <3>5. pending'[g][m-1] = pending[g][m]
      BY <3>3, <3>4
    <3>6. QED
      BY <3>4, <3>5
  <2>2. CASE g \notin InWindow(ref)
    BY <2>2, TakenStep
  <2>3. QED
    BY <2>1, <2>2
<1>5. Remaining' \subseteq Remaining \ {t}
  BY <1>3 DEF Remaining
<1>6. Remaining \ {t} \subseteq Remaining'
  <2> SUFFICES ASSUME NEW x \in Remaining, x # t PROVE x \in Remaining'
    OBVIOUS
  <2>1. PICK g \in Files : \E m \in DOMAIN pending[g] : x = pending[g][m].trig
    BY DEF Remaining
  <2>2. PICK m \in DOMAIN pending[g] : x = pending[g][m].trig
    BY <2>1
  <2>3. PICK l \in DOMAIN pending'[g] : pending'[g][l] = pending[g][m]
    BY <1>4, <2>2
  <2>4. x = pending'[g][l].trig
    BY <2>2, <2>3
  <2>5. QED
    BY <2>3, <2>4 DEF Remaining
<1>7. QED
  BY <1>2, <1>5, <1>6

LEMMA NextDisposesOne ==
  Strong /\ Next /\ stream \in SeparatedStreams =>
    \E t \in Remaining : Remaining' = Remaining \ {t}
<1> SUFFICES ASSUME Strong, Next, stream \in SeparatedStreams
             PROVE  \E t \in Remaining : Remaining' = Remaining \ {t}
  OBVIOUS
<1>1. PICK ref \in Sources : Build(ref)
  BY DEF Next
<1>2. QED
  BY <1>1, BuildDisposesOne DEF SeparatedStreams

(* What follows from the invariant for the events and what was dropped.    *)
LEMMA InvariantImplies ==
  IInv => EventHoldsOneTrigger /\ TakenAreAccounted
<1> SUFFICES ASSUME IInv PROVE EventHoldsOneTrigger /\ TakenAreAccounted
  OBVIOUS
<1>1. EventHoldsOneTrigger
  BY DEF IInv, GroupsHoldOneTrigger, EventHoldsOneTrigger, Groups
<1>2. ASSUME KeepAll, NEW f \in Files, NEW k \in DOMAIN stream[f]
      PROVE  \/ \E l \in DOMAIN pending[f] : pending[f][l] = stream[f][k]
             \/ \E i \in DOMAIN events :
                  f \in DOMAIN events[i] /\ events[i][f] = stream[f][k]
  <2>1. /\ pending[f] \in Seq(Packet) /\ stream[f] \in Seq(Packet)
    BY DEF IInv, TypeOK
  <2>2. /\ Len(pending[f]) \in Nat /\ Len(stream[f]) \in Nat
        /\ DOMAIN pending[f] = 1 .. Len(pending[f])
        /\ DOMAIN stream[f] = 1 .. Len(stream[f])
    BY <2>1, LenProperties
  <2>3. Taken(f) \in Nat /\ Len(stream[f]) = Taken(f) + Len(pending[f])
    BY <2>2 DEF IInv, PendingIsSuffix, Taken
  <2>4. CASE k \in 1 .. Taken(f)
    BY <1>2, <2>4 DEF IInv, TakenIsGrouped, Groups, KeepAllDropsNothing
  <2>5. CASE k \notin 1 .. Taken(f)
    <3> DEFINE l == k - Taken(f)
    <3>1. l \in DOMAIN pending[f] /\ Taken(f) + l = k
      BY <2>2, <2>3, <2>5
    <3>2. pending[f][l] = stream[f][k]
      BY <3>1 DEF IInv, PendingIsSuffix
    <3>3. QED
      BY <3>1, <3>2
  <2>6. QED
    BY <2>4, <2>5
<1>3. TakenAreAccounted
  BY <1>2 DEF TakenAreAccounted
<1>4. QED
  BY <1>1, <1>3

=============================================================================
