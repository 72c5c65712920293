------------------------- MODULE RawDataFilesProofs -------------------------
(***************************************************************************)
(* Proofs about the raw data files: what the Polarfire, White Rabbit and   *)
(* the grouped trigger scintillator give follows from what is in the file, *)
(* whatever that is and in whichever order the files are asked, and the    *)
(* two fibers give nothing of what is in their file.                       *)
(***************************************************************************)
EXTENDS RawDataFiles, FiniteSetTheorems, SequenceTheorems, TLAPS

IsSeq(s) == \E S : s \in Seq(S)

(* What every variable is; RawInv says more of it.                       *)
FilesTyped ==
  /\ class \in [Files -> Classes] /\ Contents
  /\ pos \in [Files -> Nat] /\ \A f \in Files : pos[f] <= Len(data[f])
  /\ failed \subseteq Files /\ asked \subseteq Files
  /\ state \in [Files -> {"open", "done", "thrown"}]
  /\ given = [f \in Files |-> given[f]]
  /\ \A f \in Files : /\ IsSeq(given[f])
                      /\ \A i \in DOMAIN given[f] : given[f][i].at \in 1 .. pos[f]

PolarfireTyped ==
  /\ offset \in [Files -> Nat] /\ keep_current_spill \subseteq BOOLEAN
  /\ spill_ \in [Files -> Int]
  /\ i_spill_ \in [Files -> Nat] /\ spills_to_skip_ \in [Files -> Nat]

WhiteRabbitTyped ==
  /\ i_spill \in [Files -> Int] /\ \A f \in Files : i_spill[f] >= -1
  /\ last_spill_time_ \in [Files -> Nat]

TrackerTyped ==
  /\ spill_events_ \in [Files -> Seq(Times)] /\ i_spill_event_ \in [Files -> Nat]
  /\ \A f \in Files : spill_events_[f] # << >> => pos[f] > 0

GroupedTyped ==
  /\ i_spill_count \in [Files -> Int] /\ \A f \in Files : i_spill_count[f] >= -1
  /\ last_event_time \in [Files -> Nat]

Typed ==
  /\ FilesTyped /\ PolarfireTyped /\ WhiteRabbitTyped /\ TrackerTyped /\ GroupedTyped

-----------------------------------------------------------------------------
(* A set of positions up to n has a least one: the least of the intervals  *)
(* up to each of them.                                                     *)
LEMMA LeastOfPositions ==
  ASSUME NEW n \in Nat, NEW S \in SUBSET (0 .. n), S # {}
  PROVE  \E k \in S : \A j \in S : k <= j
<1> DEFINE T == {0 .. k : k \in S}
           F == FiniteSubsetsOf(0 .. n)
           R == StrictSubsetOrdering(0 .. n)
<1>1. T # {} /\ \A t \in T : t \subseteq 0 .. n
  <2>1. \A k \in S : k \in Nat /\ k <= n
    OBVIOUS
  <2>2. \A k \in S : 0 .. k \subseteq 0 .. n
    BY <2>1
  <2>3. QED
    BY <2>2
<1>2. IsFiniteSet(0 .. n)
  BY FS_Interval
<1>3. T \subseteq F
  BY <1>1, <1>2, FS_Subset DEF FiniteSubsetsOf
<1>4. IsWellFoundedOn(R, F)
  BY FS_StrictSubsetOrderingWellFounded
<1>5. \E t \in T : \A u \in T : <<u, t>> \notin R
  <2> HIDE DEF T, F, R
  <2> QED
    BY <1>1, <1>3, <1>4, WFMin
<1>6. PICK k \in S : \A j \in S : <<0 .. j, 0 .. k>> \notin R
  BY <1>5
<1>7. ASSUME NEW j \in S, j < k PROVE FALSE
  <2>1. 0 .. j \subseteq 0 .. k /\ 0 .. j # 0 .. k
    BY <1>7
  <2>2. <<0 .. j, 0 .. k>> \in R
    BY <2>1 DEF StrictSubsetOrdering
  <2>3. QED
    BY <2>2, <1>6
<1>8. \A j \in S : k <= j
  BY <1>7
<1>9. QED
  BY <1>8

LEMMA StartedInFile ==
  ASSUME NEW T, NEW words \in Seq(T)
  PROVE  Started(words) \in 0 .. Len(words)
<1> DEFINE S == {i \in DOMAIN words : words[i].kind = "boundary"} \union {Len(words)}
<1>1. Len(words) \in Nat /\ DOMAIN words = 1 .. Len(words)
  OBVIOUS
<1>2. S \subseteq 0 .. Len(words) /\ S # {}
  BY <1>1
<1>3. \E k \in S : \A j \in S : k <= j
  <2> HIDE DEF S
  <2> QED
    BY <1>1, <1>2, LeastOfPositions
<1>4. Min(S) \in S
  <2> HIDE DEF S
  <2> QED
    BY <1>3 DEF Min
<1>5. Started(words) = Min(S)
  BY DEF Started
<1>6. QED
  BY <1>2, <1>4, <1>5

-----------------------------------------------------------------------------
(* What a call of next() may do to the file, whatever its class.           *)
Append1(f) ==
  \E e : e.at \in 1 .. pos'[f] /\ given' = [given EXCEPT ![f] = Append(given[f], e)]

StepOf(f) ==
  /\ state[f] = "open" /\ asked \subseteq {f} /\ \A g \in Files : state[g] # "thrown"
  /\ asked' = {} \/ asked' = {f}
  /\ class' = class /\ data' = data
  /\ \E n \in pos[f] .. Len(data[f]) : pos' = [pos EXCEPT ![f] = n]
  /\ failed' = failed \/ failed' = failed \union {f}
  /\ \/ state' = state
     \/ state' = [state EXCEPT ![f] = "done"]
     \/ state' = [state EXCEPT ![f] = "thrown"]
  /\ given' = given \/ Append1(f)

LEMMA AppendIsSeq ==
  ASSUME NEW s, IsSeq(s), NEW e
  PROVE  /\ Len(s) \in Nat /\ DOMAIN s = 1 .. Len(s)
         /\ IsSeq(Append(s, e)) /\ Len(Append(s, e)) = Len(s) + 1
         /\ DOMAIN Append(s, e) = 1 .. Len(s) + 1
         /\ \A i \in 1 .. Len(s) : Append(s, e)[i] = s[i]
         /\ Append(s, e)[Len(s) + 1] = e
<1>1. PICK S : s \in Seq(S)
  BY DEF IsSeq
<1>2. s \in Seq(S \union {e}) /\ e \in S \union {e}
  BY <1>1
<1>3. Append(s, e) \in Seq(S \union {e})
  BY <1>2
<1>4. QED
  BY <1>2, <1>3 DEF IsSeq

(* The other files stay what they are.                                     *)
LEMMA OthersStay ==
  ASSUME FilesTyped, NEW f \in Files, StepOf(f), NEW g \in Files, g # f
  PROVE  /\ pos'[g] = pos[g] /\ given'[g] = given[g] /\ state'[g] = state[g]
         /\ g \in failed' <=> g \in failed
  BY DEF FilesTyped, StepOf, Append1

LEMMA ContentsStay ==
  ASSUME class' = class, data' = data, Contents
  PROVE  Contents'
  BY DEF Contents, ItemOf, CutComesLast

LEMMA StepKeepsFilesTyped ==
  ASSUME FilesTyped, NEW f \in Files, StepOf(f)
  PROVE  FilesTyped'
<1>1. class' \in [Files -> Classes] /\ Contents'
  BY ContentsStay DEF FilesTyped, StepOf
<1>2. /\ pos' \in [Files -> Nat] /\ \A g \in Files : pos'[g] <= Len(data'[g])
      /\ \A g \in Files : pos[g] <= pos'[g]
  <2>1. PICK n \in pos[f] .. Len(data[f]) : pos' = [pos EXCEPT ![f] = n]
    BY DEF StepOf
  <2>2. pos[f] \in Nat /\ n \in Nat
    <3>1. Len(data[f]) \in Nat
      BY DEF FilesTyped, Contents
    <3>2. QED
      BY <3>1 DEF FilesTyped
  <2>3. QED
    BY <2>1, <2>2 DEF FilesTyped, StepOf
<1>3. failed' \subseteq Files /\ asked' \subseteq Files
  BY DEF FilesTyped, StepOf
<1>4. state' \in [Files -> {"open", "done", "thrown"}]
  BY DEF FilesTyped, StepOf
<1>5. given' = [g \in Files |-> given'[g]]
  BY DEF FilesTyped, StepOf, Append1
<1>6. ASSUME NEW g \in Files
      PROVE  /\ IsSeq(given'[g])
             /\ \A i \in DOMAIN given'[g] : given'[g][i].at \in 1 .. pos'[g]
  <2>1. /\ pos[g] \in Nat /\ pos'[g] \in Nat /\ pos[g] <= pos'[g]
        /\ IsSeq(given[g]) /\ \A i \in DOMAIN given[g] : given[g][i].at \in 1 .. pos[g]
    BY <1>2 DEF FilesTyped
  <2>2. CASE given'[g] = given[g]
    BY <2>1, <2>2
  <2>3. CASE g = f /\ Append1(f)
    <3>1. PICK e : e.at \in 1 .. pos'[f] /\ given' = [given EXCEPT ![f] = Append(given[f], e)]
      BY <2>3 DEF Append1
    <3>2. given'[f] = Append(given[f], e)
      BY <3>1 DEF FilesTyped
    <3>3. /\ IsSeq(given'[f]) /\ DOMAIN given'[f] = 1 .. Len(given[f]) + 1
          /\ DOMAIN given[f] = 1 .. Len(given[f]) /\ Len(given[f]) \in Nat
          /\ \A i \in 1 .. Len(given[f]) : given'[f][i] = given[f][i]
          /\ given'[f][Len(given[f]) + 1] = e
      BY <2>1, <2>3, <3>2, AppendIsSeq
    <3>4. ASSUME NEW i \in DOMAIN given'[f] PROVE given'[f][i].at \in 1 .. pos'[f]
      <4>1. i \in 1 .. Len(given[f]) \/ i = Len(given[f]) + 1
        BY <3>3
      <4>2. CASE i = Len(given[f]) + 1
        BY <3>1, <3>3, <4>2
      <4>3. CASE i \in 1 .. Len(given[f])
        <5>1. given'[f][i].at = given[f][i].at /\ given[f][i].at \in 1 .. pos[f]
          BY <2>1, <2>3, <3>3, <4>3
        <5>2. QED
          BY <2>1, <2>3, <5>1
      <4>4. QED
        BY <4>1, <4>2, <4>3
    <3>5. QED
      BY <2>3, <3>3, <3>4
  <2>4. QED
    BY <2>2, <2>3 DEF FilesTyped, StepOf, Append1
<1>7. QED
  BY <1>1, <1>2, <1>3, <1>4, <1>5, <1>6 DEF FilesTyped

-----------------------------------------------------------------------------
(* The item that a call reads, and the end of the file.                    *)
LEMMA ItemIsOfClass ==
  ASSUME FilesTyped, NEW f \in Files, pos[f] < Len(data[f])
  PROVE  /\ Item(f) \in ItemOf(class[f])
         /\ pos[f] + 1 \in DOMAIN data[f] /\ pos[f] + 1 <= Len(data[f])
         /\ pos[f] \in Nat /\ Len(data[f]) \in Nat
BY DEF FilesTyped, Contents, Item

LEMMA ReadsWithin ==
  ASSUME FilesTyped, NEW f \in Files
  PROVE  /\ pos[f] < Len(data[f]) /\ Reads(f) =>
              /\ pos' = [pos EXCEPT ![f] = pos[f] + 1] /\ pos'[f] = pos[f] + 1
              /\ pos[f] + 1 \in pos[f] .. Len(data[f])
              /\ pos[f] + 1 \in 1 .. pos'[f] /\ failed' = failed
         /\ ReadFails(f) =>
              /\ pos' = [pos EXCEPT ![f] = Len(data[f])] /\ pos'[f] = Len(data[f])
              /\ Len(data[f]) \in pos[f] .. Len(data[f])
              /\ failed' = failed \union {f}
         /\ pos[f] \in pos[f] .. Len(data[f])
         /\ pos[f] \in Nat /\ Len(data[f]) \in Nat /\ pos[f] <= Len(data[f])
         /\ pos = [pos EXCEPT ![f] = pos[f]]
<1>1. pos \in [Files -> Nat] /\ pos[f] \in Nat /\ Len(data[f]) \in Nat /\ pos[f] <= Len(data[f])
  BY DEF FilesTyped, Contents
<1>2. pos[f] < Len(data[f]) =>
        pos[f] + 1 \in pos[f] .. Len(data[f]) /\ pos[f] + 1 \in 1 .. pos[f] + 1
  BY <1>1
<1>3. pos[f] \in pos[f] .. Len(data[f]) /\ Len(data[f]) \in pos[f] .. Len(data[f])
  BY <1>1
<1>4. QED
  BY <1>1, <1>2, <1>3 DEF Reads, ReadFails

LEMMA PolarfireStep ==
  ASSUME FilesTyped, NEW f \in Files, PolarfireNext(f)
  PROVE  StepOf(f)
<1>1. /\ state[f] = "open" /\ asked \subseteq {f} /\ \A g \in Files : state[g] # "thrown"
      /\ class' = class /\ data' = data
  BY DEF PolarfireNext, IsAsked, Constant
<1>2. CASE PopWord(f)
  BY <1>1, <1>2, ReadsWithin DEF PopWord, Finds, GoesOn, StepOf
<1>3. CASE PopFails(f)
  BY <1>1, <1>3, ReadsWithin DEF PopFails, GivesNothing, StepOf
<1>4. CASE PopThrows(f)
  BY <1>1, <1>4, ReadsWithin DEF PopThrows, Finds, Throws, StepOf
<1>5. CASE SkipInterSpill(f)
  BY <1>1, <1>5, ReadsWithin DEF SkipInterSpill, Finds, GoesOn, StepOf
<1>6. CASE PopEvent(f)
  <2>1. /\ pos[f] + 1 \in 1 .. pos'[f] /\ failed' = failed
        /\ \E n \in pos[f] .. Len(data[f]) : pos' = [pos EXCEPT ![f] = n]
    BY <1>6, ReadsWithin DEF PopEvent, Finds
  <2>2. CASE GoesOn(f)
    BY <1>1, <2>1, <2>2 DEF GoesOn, StepOf
  <2>3. CASE Gives(f, [at |-> pos[f] + 1, ts |-> <<i_spill_'[f], Item(f).ticks>>])
    BY <1>1, <2>1, <2>3 DEF Gives, StepOf, Append1
  <2>4. QED
    BY <1>6, <2>2, <2>3 DEF PopEvent
<1>7. QED
  BY <1>2, <1>3, <1>4, <1>5, <1>6 DEF PolarfireNext

LEMMA WhiteRabbitStep ==
  ASSUME FilesTyped, NEW f \in Files, WhiteRabbitNext(f)
  PROVE  StepOf(f)
<1>1. /\ state[f] = "open" /\ asked \subseteq {f} /\ \A g \in Files : state[g] # "thrown"
      /\ class' = class /\ data' = data
  BY DEF WhiteRabbitNext, IsAsked, Constant
<1>2. CASE GiveRecord(f)
  BY <1>1, <1>2, ReadsWithin DEF GiveRecord, Finds, Gives, StepOf, Append1
<1>3. CASE SkipRecord(f)
  BY <1>1, <1>3, ReadsWithin DEF SkipRecord, Finds, GoesOn, StepOf
<1>4. CASE NoMoreRecords(f)
  BY <1>1, <1>4, ReadsWithin DEF NoMoreRecords, GivesNothing, StepOf
<1>5. QED
  BY <1>2, <1>3, <1>4 DEF WhiteRabbitNext

LEMMA GroupedStep ==
  ASSUME FilesTyped, NEW f \in Files, GroupedNext(f)
  PROVE  StepOf(f)
<1>1. /\ state[f] = "open" /\ asked \subseteq {f} /\ \A g \in Files : state[g] # "thrown"
      /\ class' = class /\ data' = data
  BY DEF GroupedNext, IsAsked, Constant
<1>2. CASE GiveEvent(f)
  BY <1>1, <1>2, ReadsWithin DEF GiveEvent, Finds, Gives, StepOf, Append1
<1>3. CASE NoMoreEvents(f)
  BY <1>1, <1>3, ReadsWithin DEF NoMoreEvents, GivesNothing, StepOf
<1>4. QED
  BY <1>2, <1>3 DEF GroupedNext

LEMMA TwoFibersStep ==
  ASSUME FilesTyped, NEW f \in Files, TwoFibersNext(f)
  PROVE  StepOf(f)
<1>1. /\ state[f] = "open" /\ asked \subseteq {f} /\ \A g \in Files : state[g] # "thrown"
      /\ class' = class /\ data' = data
  BY DEF TwoFibersNext, IsAsked, Constant
<1>2. CASE NoMoreWords(f)
  BY <1>1, <1>2, ReadsWithin DEF NoMoreWords, GivesNothing, StepOf
<1>3. CASE GiveTwoFibers(f)
  <2>1. pos[f] \in Nat /\ Len(data[f]) \in Nat /\ pos[f] < Len(data[f])
    BY <1>3, ReadsWithin DEF GiveTwoFibers
  <2>2. /\ \E n \in pos[f] .. Len(data[f]) : pos' = [pos EXCEPT ![f] = n]
        /\ failed' = failed \/ failed' = failed \union {f}
        /\ pos[f] + 1 \in 1 .. pos'[f]
    <3>1. \/ ReadFails(f)
          \/ /\ failed' = failed
             /\ \E n \in {1, Len(data[f]) - pos[f] - 1 + 1} :
                  /\ n <= Len(data[f]) - pos[f] - 1
                  /\ pos' = [pos EXCEPT ![f] = @ + 1 + n]
      BY <1>3, Zenon DEF GiveTwoFibers
    <3>2. CASE ReadFails(f)
      BY <2>1, <3>2, ReadsWithin
    <3>3. CASE /\ failed' = failed
               /\ \E n \in {1, Len(data[f]) - pos[f] - 1 + 1} :
                    /\ n <= Len(data[f]) - pos[f] - 1
                    /\ pos' = [pos EXCEPT ![f] = @ + 1 + n]
      <4>0. PICK n \in {1, Len(data[f]) - pos[f] - 1 + 1} :
              /\ n <= Len(data[f]) - pos[f] - 1
              /\ pos' = [pos EXCEPT ![f] = @ + 1 + n]
        BY <3>3
      <4>1. n \in Int /\ 1 <= n
        BY <2>1, <4>0
      <4>2. pos[f] + 1 + n \in pos[f] .. Len(data[f]) /\ pos[f] + 1 \in 1 .. pos[f] + 1 + n
        BY <2>1, <4>0, <4>1
      <4>3. pos' = [pos EXCEPT ![f] = pos[f] + 1 + n] /\ pos'[f] = pos[f] + 1 + n
        BY <4>0 DEF FilesTyped
      <4>4. QED
        BY <3>3, <4>2, <4>3
    <3>4. QED
      BY <3>1, <3>2, <3>3
  <2>3. \/ GivesNothing(f)
        \/ \E e : e.at = pos[f] + 1 /\ Gives(f, e)
    <3>1. \A a, b, c, d : [at |-> a, ts |-> b, samples |-> c, errors |-> d].at = a
      OBVIOUS
    <3>2. QED
      BY <1>3, <3>1, Zenon DEF GiveTwoFibers
  <2>4. QED
    BY <1>1, <2>2, <2>3 DEF GivesNothing, Gives, StepOf, Append1
<1>4. QED
  BY <1>2, <1>3 DEF TwoFibersNext

(* The lists of events that next_spill() comes back with.                  *)
LEMMA ListsAreTyped ==
  ASSUME FilesTyped, TrackerTyped, NEW f \in Files, class[f] = "FiberTracker",
         NEW events \in SpillLists(f)
  PROVE  /\ events \in Seq(Times)
         /\ \/ pos[f] < Len(data[f])
            \/ pos[f] = Len(data[f]) /\ events = LastSpillEmptied(f)
<1>1. /\ pos[f] \in Nat /\ Len(data[f]) \in Nat
      /\ spill_events_[f] \in Seq(Times)
  BY DEF FilesTyped, Contents, TrackerTyped
<1>2. CASE Finds(f, "spill") /\ ~ListThrows(Item(f)) /\ events = Listed(Item(f))
  <2>1. Item(f) \in TrackerItem /\ Item(f).kind = "spill" /\ pos[f] < Len(data[f])
    BY <1>2, ItemIsOfClass DEF Finds, ItemOf
  <2>2. Item(f).times \in Seq(Times) /\ Item(f).restTime \in Times
    BY <2>1 DEF TrackerItem
  <2>3. Append(Item(f).times, Item(f).restTime) \in Seq(Times)
    BY <2>2
  <2>4. QED
    BY <1>2, <2>1, <2>2, <2>3 DEF Listed
<1>3. CASE Finds(f, "cut") /\ events = Item(f).times
  <2>1. Item(f) \in TrackerItem /\ Item(f).kind = "cut" /\ pos[f] < Len(data[f])
    BY <1>3, ItemIsOfClass DEF Finds, ItemOf
  <2>2. Item(f).times \in Seq(Times)
    BY <2>1 DEF TrackerItem
  <2>3. QED
    BY <1>3, <2>1, <2>2
<1>4. CASE pos[f] = Len(data[f]) /\ events = LastSpillEmptied(f)
  <2>1. <<0, 0>> \in Times
    BY DEF Times
  <2>2. DOMAIN spill_events_[f] = 1 .. Len(spill_events_[f]) /\ Len(spill_events_[f]) \in Nat
    BY <1>1
  <2>3. LastSpillEmptied(f) \in Seq(Times)
    BY <2>1, <2>2 DEF LastSpillEmptied
  <2>4. QED
    BY <1>4, <2>3
<1>5. QED
  BY <1>2, <1>3, <1>4 DEF SpillLists

LEMMA TrackerStep ==
  ASSUME FilesTyped, TrackerTyped, NEW f \in Files, TrackerNext(f)
  PROVE  StepOf(f) /\ TrackerTyped'
<1>1. /\ state[f] = "open" /\ asked \subseteq {f} /\ \A g \in Files : state[g] # "thrown"
      /\ class' = class /\ data' = data /\ class[f] = "FiberTracker"
  BY DEF TrackerNext, IsAsked, Constant
<1>2. CASE FirstOfSpill(f)
  <2>1. /\ \E n \in pos[f] .. Len(data[f]) : pos' = [pos EXCEPT ![f] = n]
        /\ failed' = failed \/ failed' = failed \union {f}
        /\ pos[f] < Len(data[f]) => pos'[f] > 0 /\ pos'[f] \in Nat
        /\ pos[f] = Len(data[f]) => pos'[f] = pos[f]
        /\ pos[f] \in Nat
    <3>1. CASE ReadFails(f)
      <4>1. pos[f] < Len(data[f]) => Len(data[f]) > 0
        BY ReadsWithin
      <4>2. QED
        BY <3>1, <4>1, ReadsWithin
    <3>2. CASE Reads(f) /\ ~AtEnd(f)
      <4>1. pos[f] < Len(data[f])
        BY <3>2 DEF AtEnd
      <4>2. pos[f] + 1 > 0 /\ pos[f] + 1 \in Nat
        BY ReadsWithin
      <4>3. QED
        BY <3>2, <4>1, <4>2, ReadsWithin
    <3>3. QED
      BY <1>2, <3>1, <3>2 DEF FirstOfSpill
  <2>2. CASE Throws(f) /\ UNCHANGED trackerVars
    <3>1. StepOf(f)
      BY <1>1, <2>1, <2>2 DEF Throws, StepOf
    <3>2. pos'[f] >= pos[f]
      BY <2>1, ReadsWithin DEF FilesTyped
    <3>3. TrackerTyped'
      <4>1. \A g \in Files : pos'[g] = pos[g] \/ g = f
        BY <3>1, OthersStay
      <4>2. QED
        BY <2>2, <2>1, <4>1 DEF TrackerTyped, trackerVars, FilesTyped
    <3>4. QED
      BY <3>1, <3>3
  <2>3. CASE \E events \in SpillLists(f) :
               /\ spill_events_' = [spill_events_ EXCEPT ![f] = events]
               /\ i_spill_event_' = [i_spill_event_ EXCEPT ![f] = 1]
               /\ IF events = << >> THEN Throws(f)
                                    ELSE Gives(f, [at |-> pos'[f], ts |-> events[1]])
    <3>1. PICK events \in SpillLists(f) :
               /\ spill_events_' = [spill_events_ EXCEPT ![f] = events]
               /\ i_spill_event_' = [i_spill_event_ EXCEPT ![f] = 1]
               /\ IF events = << >> THEN Throws(f)
                                    ELSE Gives(f, [at |-> pos'[f], ts |-> events[1]])
      BY <2>3
    <3>2. /\ events \in Seq(Times)
          /\ \/ pos[f] < Len(data[f])
             \/ pos[f] = Len(data[f]) /\ events = LastSpillEmptied(f)
      BY <1>1, <3>1, ListsAreTyped
    <3>3. events # << >> => pos'[f] > 0 /\ pos'[f] \in Nat
      <4>1. CASE pos[f] < Len(data[f])
        BY <2>1, <4>1
      <4>2. CASE pos[f] = Len(data[f]) /\ events = LastSpillEmptied(f)
        <5>1. spill_events_[f] = << >> => LastSpillEmptied(f) = << >>
          BY DEF LastSpillEmptied
        <5>2. QED
          BY <2>1, <4>2, <5>1 DEF TrackerTyped
      <4>3. QED
        BY <3>2, <4>1, <4>2
    <3>4. events # << >> => pos'[f] \in 1 .. pos'[f]
      BY <3>3
    <3>5. StepOf(f)
      <4>1. CASE events = << >>
        BY <1>1, <2>1, <3>1, <4>1 DEF Throws, StepOf
      <4>2. CASE events # << >>
        <5>1. Append1(f) /\ asked' = {} /\ state' = state
          BY <3>1, <3>4, <4>2 DEF Gives, Append1
        <5>2. QED
          BY <1>1, <2>1, <5>1 DEF StepOf
      <4>3. QED
        BY <4>1, <4>2
    <3>6. \A g \in Files : pos'[g] = pos[g] \/ g = f
      BY <3>5, OthersStay
    <3>7. TrackerTyped'
      <4>1. spill_events_' \in [Files -> Seq(Times)] /\ i_spill_event_' \in [Files -> Nat]
        BY <3>1, <3>2 DEF TrackerTyped
      <4>2. ASSUME NEW g \in Files, spill_events_'[g] # << >>
            PROVE  pos'[g] > 0
        BY <3>1, <3>3, <3>6, <4>2 DEF TrackerTyped
      <4>3. QED
        BY <4>1, <4>2 DEF TrackerTyped
    <3>8. QED
      BY <3>5, <3>7
  <2>4. QED
    BY <1>2, <2>2, <2>3 DEF FirstOfSpill
<1>3. CASE NextOfSpill(f)
  <2>1. /\ spill_events_[f] \in Seq(Times) /\ i_spill_event_[f] \in Nat
        /\ i_spill_event_[f] < Len(spill_events_[f]) /\ Len(spill_events_[f]) \in Nat
    BY <1>3 DEF TrackerTyped, NextOfSpill
  <2>2. spill_events_[f] # << >>
    BY <2>1
  <2>3. pos[f] \in 1 .. pos[f] /\ pos' = pos /\ failed' = failed
    BY <1>3, <2>2 DEF TrackerTyped, FilesTyped, NextOfSpill
  <2>4. Append1(f) /\ asked' = {} /\ state' = state
    BY <1>3, <2>3 DEF NextOfSpill, Gives, Append1
  <2>5. StepOf(f)
    BY <1>1, <2>3, <2>4, ReadsWithin DEF StepOf
  <2>6. TrackerTyped'
    BY <1>3, <2>3 DEF TrackerTyped, NextOfSpill
  <2>7. QED
    BY <2>5, <2>6
<1>4. CASE NoMoreSpills(f)
  <2>1. StepOf(f)
    BY <1>1, <1>4, ReadsWithin DEF NoMoreSpills, GivesNothing, StepOf
  <2>2. TrackerTyped'
    BY <1>4 DEF NoMoreSpills, TrackerTyped, trackerVars
  <2>3. QED
    BY <2>1, <2>2
<1>5. QED
  BY <1>2, <1>3, <1>4 DEF TrackerNext

LEMMA PolarfireKeepsTyped ==
  ASSUME FilesTyped, PolarfireTyped, NEW f \in Files, PolarfireNext(f)
  PROVE  PolarfireTyped'
<1>1. offset' = offset /\ class[f] = "Polarfire"
  BY DEF PolarfireNext, IsAsked
<1>2. Keeps(f) \in BOOLEAN
  <2>1. (spills_to_skip_[f] <= 0) \in BOOLEAN /\ (TRUE \in keep_current_spill) \in BOOLEAN
    OBVIOUS
  <2>2. QED
    BY <2>1, Zenon DEF Keeps
<1>3. CASE keep_current_spill' = {Keeps(f)} /\ UNCHANGED Counters
  BY <1>1, <1>2, <1>3 DEF PolarfireTyped, Counters
<1>4. CASE PopEvent(f) /\ NewSpill(f)
  <2>1. Item(f) \in PolarfireItem /\ Item(f).kind = "event"
    BY <1>1, <1>4, ItemIsOfClass DEF PopEvent, Finds, ItemOf
  <2>2. Item(f).spill \in Int
    BY <2>1 DEF PolarfireItem
  <2>3. keep_current_spill' \subseteq BOOLEAN
    <3>1. (~IsSkipped(f)) \in BOOLEAN
      OBVIOUS
    <3>2. QED
      BY <1>4, <3>1, Zenon DEF NewSpill
  <2>4. spill_' \in [Files -> Int]
    BY <1>4, <2>2 DEF NewSpill, PolarfireTyped
  <2>5. i_spill_' \in [Files -> Nat] /\ spills_to_skip_' \in [Files -> Nat]
    BY <1>4 DEF NewSpill, PolarfireTyped, IsSkipped
  <2>6. QED
    BY <1>1, <2>3, <2>4, <2>5 DEF PolarfireTyped
<1>5. QED
  BY <1>3, <1>4 DEF PolarfireNext, PopWord, PopFails, PopThrows, SkipInterSpill, PopEvent

LEMMA SpillTimeIsNat ==
  ASSUME NEW r, r.seconds \in Nat, r.coarse \in Nat
  PROVE  SpillTime(r) \in Nat /\ SpillTime(r) < Word64
<1>1. r.seconds * PerSecond \in Nat /\ r.coarse * 8 \in Nat
  BY SecondsAssumption
<1>2. r.seconds * PerSecond + r.coarse * 8 \in Nat
  BY <1>1
<1>3. \A n \in Nat : n % Word64 \in 0 .. Word64 - 1
  BY SecondsAssumption
<1>4. QED
  BY <1>2, <1>3, SecondsAssumption DEF SpillTime

LEMMA RecordIsTyped ==
  ASSUME FilesTyped, NEW f \in Files, class[f] = "WhiteRabbit", NEW k \in Records(f)
  PROVE  /\ data[f][k].seconds \in Nat /\ data[f][k].coarse \in Nat
         /\ data[f][k].channel \in Nat
<1>1. data[f][k] \in WhiteRabbitItem /\ data[f][k].kind = "record"
  <2>1. data[f] \in Seq(WhiteRabbitItem) /\ k \in DOMAIN data[f]
    BY DEF FilesTyped, Contents, ItemOf, Records
  <2>2. QED
    BY <2>1 DEF Records
<1>2. QED
  BY <1>1 DEF WhiteRabbitItem

LEMMA WhiteRabbitKeepsTyped ==
  ASSUME FilesTyped, WhiteRabbitTyped, NEW f \in Files, WhiteRabbitNext(f)
  PROVE  WhiteRabbitTyped'
<1>1. class[f] = "WhiteRabbit"
  BY DEF WhiteRabbitNext, IsAsked
<1>2. CASE UNCHANGED whiteRabbitVars
  BY <1>2 DEF whiteRabbitVars, WhiteRabbitTyped
<1>3. CASE /\ GiveRecord(f)
           /\ i_spill' = [i_spill EXCEPT ![f] = @ + 1]
           /\ last_spill_time_' = [last_spill_time_ EXCEPT ![f] = SpillTime(Item(f))]
  <2>1. pos[f] + 1 \in Records(f)
    BY <1>3, ItemIsOfClass DEF GiveRecord, Finds, Records, Item
  <2>2. SpillTime(Item(f)) \in Nat
    BY <1>1, <2>1, RecordIsTyped, SpillTimeIsNat DEF Item
  <2>3. QED
    BY <1>3, <2>2 DEF WhiteRabbitTyped
<1>4. QED
  BY <1>2, <1>3 DEF WhiteRabbitNext, GiveRecord, SkipRecord, NoMoreRecords, CountSpill

(* The bytes of a time, and what is left of them after the shifts.         *)
LEMMA LowBytesIsNat ==
  ASSUME NEW b \in Bytes \X Bytes \X Bytes \X Bytes
  PROVE  /\ b[1] \in Nat /\ b[2] \in Bytes /\ b[3] \in Bytes /\ b[4] \in Bytes
         /\ b[2] * Byte + b[3] \in Nat
         /\ (b[2] * Byte + b[3]) * Byte + b[4] \in Nat
         /\ LowBytes(b) \in Nat
<1>1. b[1] \in Bytes /\ b[2] \in Bytes /\ b[3] \in Bytes /\ b[4] \in Bytes
  OBVIOUS
<1>2. \A n \in Bytes : n \in Nat
  BY DEF Bytes
<1>3. \A m, n \in Nat : m * Byte + n \in Nat /\ m * Byte \in Nat
  BY ByteAssumption
<1>4. b[1] \in Nat /\ b[2] \in Nat /\ b[3] \in Nat /\ b[4] \in Nat
  BY <1>1, <1>2
<1>5. b[2] * Byte + b[3] \in Nat
  BY <1>3, <1>4
<1>6. (b[2] * Byte + b[3]) * Byte + b[4] \in Nat
  BY <1>3, <1>4, <1>5
<1>7. LowBytes(b) \in Nat
  BY <1>3, <1>6 DEF LowBytes
<1>8. QED
  BY <1>1, <1>4, <1>5, <1>6, <1>7

LEMMA WordIsNat ==
  Word32 \in Nat /\ Word32 > Byte
<1>1. Byte * Byte \in Nat /\ Byte * Byte > Byte
  BY ByteAssumption
<1>2. \A n \in Nat : n > Byte => n * Byte \in Nat /\ n * Byte > Byte
  BY ByteAssumption
<1>3. Byte * Byte * Byte \in Nat /\ Byte * Byte * Byte > Byte
  BY <1>1, <1>2
<1>4. QED
  BY <1>2, <1>3 DEF Word32

LEMMA TimeIsBytes ==
  ASSUME FilesTyped, NEW f \in Files, class[f] = "EventGrouped",
         NEW k \in DOMAIN data[f], data[f][k].kind = "bytes"
  PROVE  data[f][k].time \in Bytes \X Bytes \X Bytes \X Bytes
<1>1. data[f][k] \in GroupedItem
  BY DEF FilesTyped, Contents, ItemOf
<1>2. QED
  BY <1>1 DEF GroupedItem

LEMMA GroupedKeepsTyped ==
  ASSUME FilesTyped, GroupedTyped, NEW f \in Files, GroupedNext(f)
  PROVE  GroupedTyped'
<1>1. class[f] = "EventGrouped"
  BY DEF GroupedNext, IsAsked
<1>2. CASE NoMoreEvents(f)
  BY <1>2 DEF NoMoreEvents, groupedVars, GroupedTyped
<1>3. CASE GiveEvent(f)
  <2>1. Item(f).time \in Bytes \X Bytes \X Bytes \X Bytes
    BY <1>1, <1>3, ItemIsOfClass, TimeIsBytes DEF GiveEvent, Finds, Item
  <2>2. PICK timeSpill \in TimesSpill(Item(f).time) :
          /\ i_spill_count' = IF IsEarlier(f, timeSpill)
                                THEN [i_spill_count EXCEPT ![f] = @ + 1]
                                ELSE i_spill_count
          /\ last_event_time' = [last_event_time EXCEPT ![f] = timeSpill]
    BY <1>3 DEF GiveEvent
  <2>3. timeSpill \in Nat
    <3>1. LowBytes(Item(f).time) \in Nat /\ Item(f).time[1] \in Nat
      BY <2>1, LowBytesIsNat
    <3>2. QED
      BY <2>2, <3>1 DEF TimesSpill
  <2>4. QED
    BY <2>2, <2>3 DEF GroupedTyped
<1>4. QED
  BY <1>2, <1>3 DEF GroupedNext

LEMMA StepKeepsTrackers ==
  ASSUME FilesTyped, TrackerTyped, NEW f \in Files, StepOf(f), UNCHANGED trackerVars
  PROVE  TrackerTyped'
<1>1. \A g \in Files : pos[g] \in Nat /\ pos'[g] \in Nat /\ pos[g] <= pos'[g]
  <2>1. pos'[f] >= pos[f] /\ pos'[f] \in Nat
    BY ReadsWithin DEF StepOf, FilesTyped
  <2>2. QED
    BY <2>1, OthersStay DEF FilesTyped
<1>2. QED
  BY <1>1 DEF TrackerTyped, trackerVars

LEMMA NextIsStep ==
  ASSUME Typed, NEW f \in Files, next(f)
  PROVE  Typed' /\ StepOf(f)
<1>1. CASE PolarfireNext(f) /\ UNCHANGED <<whiteRabbitVars, trackerVars, groupedVars>>
  <2>1. StepOf(f) /\ FilesTyped' /\ PolarfireTyped' /\ TrackerTyped'
    BY <1>1, PolarfireStep, PolarfireKeepsTyped, StepKeepsFilesTyped, StepKeepsTrackers
       DEF Typed
  <2>2. WhiteRabbitTyped' /\ GroupedTyped'
    BY <1>1 DEF Typed, WhiteRabbitTyped, GroupedTyped, whiteRabbitVars, groupedVars
  <2>3. QED
    BY <2>1, <2>2 DEF Typed
<1>2. CASE WhiteRabbitNext(f) /\ UNCHANGED <<polarfireVars, trackerVars, groupedVars>>
  <2>1. StepOf(f) /\ FilesTyped' /\ WhiteRabbitTyped' /\ TrackerTyped'
    BY <1>2, WhiteRabbitStep, WhiteRabbitKeepsTyped, StepKeepsFilesTyped, StepKeepsTrackers
       DEF Typed
  <2>2. PolarfireTyped' /\ GroupedTyped'
    BY <1>2 DEF Typed, PolarfireTyped, GroupedTyped, polarfireVars, groupedVars
  <2>3. QED
    BY <2>1, <2>2 DEF Typed
<1>3. CASE TrackerNext(f) /\ UNCHANGED <<polarfireVars, whiteRabbitVars, groupedVars>>
  <2>1. StepOf(f) /\ FilesTyped' /\ TrackerTyped'
    BY <1>3, TrackerStep, StepKeepsFilesTyped DEF Typed
  <2>2. PolarfireTyped' /\ WhiteRabbitTyped' /\ GroupedTyped'
    BY <1>3 DEF Typed, PolarfireTyped, WhiteRabbitTyped, GroupedTyped,
                polarfireVars, whiteRabbitVars, groupedVars
  <2>3. QED
    BY <2>1, <2>2 DEF Typed
<1>4. CASE GroupedNext(f) /\ UNCHANGED <<polarfireVars, whiteRabbitVars, trackerVars>>
  <2>1. StepOf(f) /\ FilesTyped' /\ GroupedTyped' /\ TrackerTyped'
    BY <1>4, GroupedStep, GroupedKeepsTyped, StepKeepsFilesTyped, StepKeepsTrackers
       DEF Typed
  <2>2. PolarfireTyped' /\ WhiteRabbitTyped'
    BY <1>4 DEF Typed, PolarfireTyped, WhiteRabbitTyped, polarfireVars, whiteRabbitVars
  <2>3. QED
    BY <2>1, <2>2 DEF Typed
<1>5. CASE /\ TwoFibersNext(f)
           /\ UNCHANGED <<polarfireVars, whiteRabbitVars, trackerVars, groupedVars>>
  <2>1. StepOf(f) /\ FilesTyped' /\ TrackerTyped'
    BY <1>5, TwoFibersStep, StepKeepsFilesTyped, StepKeepsTrackers DEF Typed
  <2>2. PolarfireTyped' /\ WhiteRabbitTyped' /\ GroupedTyped'
    BY <1>5 DEF Typed, PolarfireTyped, WhiteRabbitTyped, GroupedTyped,
                polarfireVars, whiteRabbitVars, groupedVars
  <2>3. QED
    BY <2>1, <2>2 DEF Typed
<1>6. QED
  BY <1>1, <1>2, <1>3, <1>4, <1>5 DEF next

(* The initial states of the specification.                                *)
Starts ==
  class \in [Files -> Classes] /\ offset \in [Files -> Nat] /\ Contents /\ Created

LEMMA StartsTyped == Starts => Typed
<1> SUFFICES ASSUME Starts PROVE Typed
  OBVIOUS
<1>1. FilesTyped
  <2>1. \A f \in Files : data[f] \in Seq(ItemOf(class[f]))
    BY DEF Starts, Contents
  <2>2. ASSUME NEW f \in Files PROVE pos[f] \in Nat /\ pos[f] <= Len(data[f])
    <3>1. pos[f] = IF class[f] = "TwoFibers" THEN Started(data[f]) ELSE 0
      BY DEF Starts, Created
    <3>2. Started(data[f]) \in 0 .. Len(data[f])
      BY <2>1, StartedInFile
    <3>3. Len(data[f]) \in Nat
      BY <2>1
    <3>4. QED
      BY <3>1, <3>2, <3>3
  <2>3. DOMAIN pos = Files /\ pos = [f \in Files |-> pos[f]]
    BY DEF Starts, Created
  <2>4. pos \in [Files -> Nat]
    BY <2>2, <2>3
  <2>5. failed \subseteq Files
    BY DEF Starts, Created
  <2>6. \A f \in Files : given[f] = << >>
    BY DEF Starts, Created, FileInit
  <2>7. IsSeq(<< >>)
    BY DEF IsSeq
  <2>8. asked \subseteq Files /\ state \in [Files -> {"open", "done", "thrown"}]
        /\ given = [f \in Files |-> given[f]]
    BY DEF Starts, Created, FileInit
  <2>9. QED
    BY <2>2, <2>4, <2>5, <2>6, <2>7, <2>8 DEF FilesTyped, Starts
<1>2. PolarfireTyped
  BY DEF Starts, Created, PolarfireInit, PolarfireTyped
<1>3. WhiteRabbitTyped
  BY DEF Starts, Created, WhiteRabbitInit, WhiteRabbitTyped
<1>4. TrackerTyped
  BY DEF Starts, Created, TrackerInit, TrackerTyped
<1>5. GroupedTyped
  <2>1. Word32 - 1 \in Nat
    BY WordIsNat, ByteAssumption
  <2>2. QED
    BY <2>1 DEF Starts, Created, GroupedInit, GroupedTyped
<1>6. QED
  BY <1>1, <1>2, <1>3, <1>4, <1>5 DEF Typed

-----------------------------------------------------------------------------
(* A step is one of the class of its file, and leaves the counters of the  *)
(* other files and of the other classes alone.                             *)
LEMMA StepIsOfClass ==
  ASSUME NEW f \in Files, next(f)
  PROVE  /\ class[f] = "Polarfire" => PolarfireNext(f)
         /\ class[f] = "WhiteRabbit" => WhiteRabbitNext(f)
         /\ class[f] = "FiberTracker" => TrackerNext(f)
         /\ class[f] = "EventGrouped" => GroupedNext(f)
         /\ class[f] = "TwoFibers" => TwoFibersNext(f)
         /\ class[f] # "Polarfire" => UNCHANGED polarfireVars
BY DEF next, PolarfireNext, WhiteRabbitNext, TrackerNext, GroupedNext, TwoFibersNext,
       IsAsked

LEMMA OthersKeepCounters ==
  ASSUME Typed, NEW f \in Files, next(f), NEW g \in Files, g # f
  PROVE  /\ spill_'[g] = spill_[g] /\ i_spill_'[g] = i_spill_[g]
         /\ spills_to_skip_'[g] = spills_to_skip_[g] /\ offset' = offset
         /\ i_spill'[g] = i_spill[g] /\ last_spill_time_'[g] = last_spill_time_[g]
         /\ i_spill_count'[g] = i_spill_count[g]
         /\ last_event_time'[g] = last_event_time[g]
<1>1. /\ spill_'[g] = spill_[g] /\ i_spill_'[g] = i_spill_[g]
      /\ spills_to_skip_'[g] = spills_to_skip_[g] /\ offset' = offset
  <2>1. CASE UNCHANGED polarfireVars
    BY <2>1 DEF polarfireVars
  <2>2. CASE PolarfireNext(f)
    BY <2>2 DEF PolarfireNext, PopWord, PopFails, PopThrows, SkipInterSpill, PopEvent,
                NewSpill, Counters, Typed, PolarfireTyped
  <2>3. QED
    BY <2>1, <2>2 DEF next
<1>2. i_spill'[g] = i_spill[g] /\ last_spill_time_'[g] = last_spill_time_[g]
  <2>1. CASE UNCHANGED whiteRabbitVars
    BY <2>1 DEF whiteRabbitVars
  <2>2. CASE WhiteRabbitNext(f)
    BY <2>2 DEF WhiteRabbitNext, GiveRecord, SkipRecord, NoMoreRecords, CountSpill,
                whiteRabbitVars, Typed, WhiteRabbitTyped
  <2>3. QED
    BY <2>1, <2>2 DEF next
<1>3. i_spill_count'[g] = i_spill_count[g] /\ last_event_time'[g] = last_event_time[g]
  <2>1. CASE UNCHANGED groupedVars
    BY <2>1 DEF groupedVars
  <2>2. CASE GroupedNext(f)
    BY <2>2 DEF GroupedNext, GiveEvent, NoMoreEvents, groupedVars, Typed, GroupedTyped
  <2>3. QED
    BY <2>1, <2>2 DEF next
<1>4. QED
  BY <1>1, <1>2, <1>3

(* A packet more of a file, or none.                                       *)
LEMMA GivenGrows ==
  ASSUME FilesTyped, NEW f \in Files
  PROVE  /\ \A e : Gives(f, e) =>
              /\ given'[f] = Append(given[f], e)
              /\ Given(f)' = Given(f) \union {e.at}
              /\ Len(given[f]) \in Nat /\ DOMAIN given[f] = 1 .. Len(given[f])
              /\ Len(given'[f]) = Len(given[f]) + 1
              /\ DOMAIN given'[f] = 1 .. Len(given[f]) + 1
              /\ \A i \in 1 .. Len(given[f]) : given'[f][i] = given[f][i]
              /\ given'[f][Len(given[f]) + 1] = e
         /\ given' = given => Given(f)' = Given(f)
<1>1. ASSUME NEW e, Gives(f, e)
      PROVE  /\ given'[f] = Append(given[f], e)
             /\ Given(f)' = Given(f) \union {e.at}
             /\ Len(given[f]) \in Nat /\ DOMAIN given[f] = 1 .. Len(given[f])
             /\ Len(given'[f]) = Len(given[f]) + 1
             /\ DOMAIN given'[f] = 1 .. Len(given[f]) + 1
             /\ \A i \in 1 .. Len(given[f]) : given'[f][i] = given[f][i]
             /\ given'[f][Len(given[f]) + 1] = e
  <2>1. given'[f] = Append(given[f], e) /\ IsSeq(given[f])
    BY <1>1 DEF Gives, FilesTyped
  <2>2. /\ Len(given[f]) \in Nat /\ DOMAIN given[f] = 1 .. Len(given[f])
        /\ Len(given'[f]) = Len(given[f]) + 1
        /\ DOMAIN given'[f] = 1 .. Len(given[f]) + 1
        /\ \A i \in 1 .. Len(given[f]) : given'[f][i] = given[f][i]
        /\ given'[f][Len(given[f]) + 1] = e
    BY <2>1, AppendIsSeq
  <2>3. \A i : i \in DOMAIN given'[f] <=> i \in 1 .. Len(given[f]) \/ i = Len(given[f]) + 1
    BY <2>2
  <2>4. {given'[f][i].at : i \in DOMAIN given'[f]} =
          {given[f][i].at : i \in DOMAIN given[f]} \union {e.at}
    <3> DEFINE n == Len(given[f])
               x == given[f]
               y == given'[f]
    <3>0. /\ \A i : i \in DOMAIN y <=> i \in 1 .. n \/ i = n + 1
          /\ DOMAIN x = 1 .. n /\ \A i \in 1 .. n : y[i] = x[i]
          /\ y[n + 1] = e
      BY <2>2, <2>3
    <3> HIDE DEF n, x, y
    <3>1. {y[i].at : i \in DOMAIN y} = {x[i].at : i \in DOMAIN x} \union {e.at}
      BY <3>0
    <3>2. QED
      BY <3>1 DEF n, x, y
  <2>5. QED
    BY <2>1, <2>2, <2>4 DEF Given
<1>2. QED
  BY <1>1 DEF Given

LEMMA GivenIsFinite ==
  ASSUME FilesTyped, NEW f \in Files
  PROVE  IsFiniteSet(Given(f)) /\ Given(f) \subseteq 1 .. pos[f]
<1>1. Given(f) \subseteq 1 .. pos[f] /\ pos[f] \in Nat
  BY DEF FilesTyped, Given
<1>2. IsFiniteSet(1 .. pos[f])
  BY <1>1, FS_Interval
<1>3. QED
  BY <1>1, <1>2, FS_Subset

-----------------------------------------------------------------------------
(* White Rabbit: what it gives and counts of one file.                     *)
Triggers(f) ==
  {k \in 1 .. pos[f] : data[f][k].kind = "record" /\ data[f][k].channel \in {1, 2}}

OfChannel1(f) == {k \in Given(f) : data[f][k].channel = 1}

SpillsOf(f) ==
  Given(f) = Triggers(f) /\ i_spill[f] + 1 = Cardinality(OfChannel1(f))

LastSpillOf(f) ==
  i_spill[f] >= 0 => \E k \in Records(f) : last_spill_time_[f] = SpillTime(data[f][k])

(* Seconds minus nanoseconds wraps around.                                 *)
LEMMA RecordIsLater ==
  ASSUME NanosecondsAreMore, FilesTyped, WhiteRabbitTyped,
         NEW f \in Files, class[f] = "WhiteRabbit", NEW k \in Records(f),
         i_spill[f] >= 0, LastSpillOf(f)
  PROVE  IsLater(f, data[f][k])
<1>1. PICK j \in Records(f) : last_spill_time_[f] = SpillTime(data[f][j])
  BY DEF LastSpillOf
<1>2. /\ data[f][k].seconds < SpillTime(data[f][j])
      /\ SpillTime(data[f][j]) < Word64 - 5
  BY <1>1 DEF NanosecondsAreMore, OfClass
<1>3. /\ data[f][k].seconds \in Nat /\ last_spill_time_[f] \in Nat
      /\ data[f][k].seconds < last_spill_time_[f]
      /\ last_spill_time_[f] < Word64 - 5
  BY <1>1, <1>2, RecordIsTyped DEF WhiteRabbitTyped
<1>4. \A s, t \in Nat : s < t /\ t < Word64 - 5 => (s - t) % Word64 > 5
  <2> SUFFICES ASSUME NEW s \in Nat, NEW t \in Nat, s < t, t < Word64 - 5
               PROVE  (s - t) % Word64 > 5
    OBVIOUS
  <2>1. s - t + Word64 \in 0 .. Word64 - 1 /\ s - t + Word64 > 5
    BY SecondsAssumption
  <2>2. \A n \in Int : n + Word64 \in 0 .. Word64 - 1 => n % Word64 = n + Word64
    BY SecondsAssumption
  <2>3. s - t \in Int
    OBVIOUS
  <2>4. (s - t) % Word64 = s - t + Word64
    BY <2>1, <2>2, <2>3
  <2>5. QED
    BY <2>1, <2>4
<1>5. QED
  BY <1>3, <1>4 DEF IsLater

LEMMA WhiteRabbitCounts ==
  ASSUME Typed, NEW f \in Files, class[f] = "WhiteRabbit", WhiteRabbitNext(f),
         LastSpillOf(f)
  PROVE  /\ LastSpillOf(f)'
         /\ NanosecondsAreMore /\ SpillsOf(f) => SpillsOf(f)'
<1>1. FilesTyped /\ WhiteRabbitTyped
  BY DEF Typed
<1>2. data' = data /\ pos[f] \in Nat /\ Len(data[f]) \in Nat /\ pos[f] <= Len(data[f])
  BY <1>1, ReadsWithin DEF WhiteRabbitNext, Constant
<1>3. CASE SkipRecord(f)
  <2>1. /\ pos'[f] = pos[f] + 1 /\ data[f][pos[f] + 1].channel \notin {1, 2}
        /\ given' = given /\ UNCHANGED whiteRabbitVars
    BY <1>1, <1>3, ReadsWithin DEF SkipRecord, Finds, GoesOn, Item
  <2>2. LastSpillOf(f)'
    BY <1>2, <2>1 DEF LastSpillOf, whiteRabbitVars, Records
  <2>3. Given(f)' = Given(f) /\ OfChannel1(f)' = OfChannel1(f)
    BY <1>2, <2>1 DEF Given, OfChannel1
  <2>4. Triggers(f)' = Triggers(f)
    <3>1. \A k : k \in 1 .. pos'[f] <=> k \in 1 .. pos[f] \/ k = pos[f] + 1
      BY <1>2, <2>1
    <3>2. QED
      BY <1>2, <2>1, <3>1 DEF Triggers
  <2>5. QED
    BY <2>1, <2>2, <2>3, <2>4 DEF SpillsOf, whiteRabbitVars
<1>4. CASE NoMoreRecords(f)
  <2>1. /\ pos'[f] = Len(data[f])
        /\ pos[f] < Len(data[f]) => Item(f).kind = "cut"
        /\ given' = given /\ UNCHANGED whiteRabbitVars
    BY <1>1, <1>4, ReadsWithin DEF NoMoreRecords, AtEnd, GivesNothing
  <2>2. LastSpillOf(f)'
    BY <1>2, <2>1 DEF LastSpillOf, whiteRabbitVars, Records
  <2>3. Given(f)' = Given(f) /\ OfChannel1(f)' = OfChannel1(f)
    BY <1>2, <2>1 DEF Given, OfChannel1
  <2>4. Triggers(f)' = Triggers(f)
    <3>1. CASE pos[f] < Len(data[f])
      <4>1. data[f][pos[f] + 1].kind = "cut" /\ pos[f] + 1 = Len(data[f])
        BY <1>1, <2>1, <3>1, ItemIsOfClass DEF Item, FilesTyped, Contents, CutComesLast
      <4>2. \A k : k \in 1 .. pos'[f] <=> k \in 1 .. pos[f] \/ k = pos[f] + 1
        BY <1>2, <2>1, <4>1
      <4>3. QED
        BY <1>2, <4>1, <4>2 DEF Triggers
    <3>2. CASE pos[f] = Len(data[f])
      BY <1>2, <2>1, <3>2 DEF Triggers
    <3>3. QED
      BY <1>2, <3>1, <3>2
  <2>5. QED
    BY <2>1, <2>2, <2>3, <2>4 DEF SpillsOf, whiteRabbitVars
<1>5. CASE GiveRecord(f)
  <2> DEFINE N == pos[f] + 1
             r == data[f][N]
  <2>1. /\ pos'[f] = N /\ Item(f) = r /\ r.kind = "record" /\ r.channel \in {1, 2}
        /\ N \in Records(f) /\ CountSpill(f, r)
    BY <1>1, <1>5, ReadsWithin, ItemIsOfClass DEF GiveRecord, Finds, Item, Records
  <2>2. Given(f)' = Given(f) \union {N}
    <3> DEFINE e == [at |-> N, ts |-> <<r.seconds>>]
    <3>1. Gives(f, e)
      BY <1>5, <2>1 DEF GiveRecord
    <3>2. e.at = N
      OBVIOUS
    <3>3. QED
      <4> HIDE DEF e, N
      <4> QED
        BY <1>1, <3>1, <3>2, GivenGrows
  <2>3. N \notin Given(f)
    BY <1>1, <1>2, GivenIsFinite
  <2>4. Given(f) = Triggers(f) => Given(f)' = Triggers(f)'
    <3>1. \A k : k \in 1 .. pos'[f] <=> k \in 1 .. pos[f] \/ k = N
      BY <1>2, <2>1
    <3>2. QED
      BY <1>2, <2>1, <2>2, <3>1 DEF Triggers
  <2>5. IsFiniteSet(OfChannel1(f))
    BY <1>1, GivenIsFinite, FS_Subset DEF OfChannel1
  <2>6. CASE r.channel # 1
    <3>1. UNCHANGED whiteRabbitVars /\ OfChannel1(f)' = OfChannel1(f)
      BY <1>2, <2>1, <2>2, <2>6 DEF CountSpill, OfChannel1
    <3>2. QED
      BY <1>2, <2>4, <3>1 DEF whiteRabbitVars, SpillsOf, LastSpillOf, Records
  <2>7. CASE r.channel = 1
    <3>1. OfChannel1(f)' = OfChannel1(f) \union {N} /\ N \notin OfChannel1(f)
      BY <1>2, <2>2, <2>3, <2>7 DEF OfChannel1
    <3>2. Cardinality(OfChannel1(f)') = Cardinality(OfChannel1(f)) + 1
      BY <2>5, <3>1, FS_AddElement
    <3>3. LastSpillOf(f)'
      BY <1>1, <1>2, <2>1
         DEF CountSpill, LastSpillOf, Records, whiteRabbitVars, WhiteRabbitTyped
    <3>4. NanosecondsAreMore => i_spill'[f] = i_spill[f] + 1
      BY <1>1, <2>1, <2>7, RecordIsLater DEF CountSpill, WhiteRabbitTyped
    <3>5. i_spill[f] \in Int /\ Cardinality(OfChannel1(f)) \in Nat
      BY <1>1, <2>5, FS_CardinalityType DEF WhiteRabbitTyped
    <3>6. NanosecondsAreMore /\ SpillsOf(f) => SpillsOf(f)'
      BY <2>4, <3>2, <3>4, <3>5 DEF SpillsOf
    <3>7. QED
      BY <3>3, <3>6
  <2>8. QED
    BY <2>6, <2>7
<1>6. QED
  BY <1>3, <1>4, <1>5 DEF WhiteRabbitNext

-----------------------------------------------------------------------------
(* The grouped events: the order of the times is that of what is left of   *)
(* them, and two times differ by a byte or more.                           *)
LEMMA MoreByBytes ==
  ASSUME NEW m \in Nat, NEW n \in Nat, m < n
  PROVE  m * Byte + Byte <= n * Byte
<1>1. PICK d \in Nat : n = m + 1 + d
  <2>1. n - m - 1 \in Nat /\ n = m + 1 + (n - m - 1)
    OBVIOUS
  <2>2. QED
    BY <2>1
<1>2. (m + 1 + d) * Byte = m * Byte + Byte + d * Byte
  BY ByteAssumption
<1>3. d * Byte \in Nat /\ m * Byte \in Nat
  BY ByteAssumption
<1>4. m * Byte + Byte + d * Byte >= m * Byte + Byte
  BY <1>3, ByteAssumption
<1>5. QED
  BY <1>1, <1>2, <1>4

LEMMA DigitOrder ==
  ASSUME NEW m \in Nat, NEW n \in Nat, NEW x \in Bytes, NEW y \in Bytes
  PROVE  m * Byte + x < n * Byte + y <=> m < n \/ (m = n /\ x < y)
<1>1. x \in Nat /\ y \in Nat /\ x < Byte /\ y < Byte /\ Byte \in Nat
      /\ m * Byte \in Nat /\ n * Byte \in Nat
  BY ByteAssumption DEF Bytes
<1>2. CASE m < n
  <2>1. m * Byte + Byte <= n * Byte
    BY <1>2, MoreByBytes
  <2>2. QED
    BY <1>1, <1>2, <2>1
<1>3. CASE n < m
  <2>1. n * Byte + Byte <= m * Byte
    BY <1>3, MoreByBytes
  <2>2. QED
    BY <1>1, <1>3, <2>1
<1>4. CASE m = n
  BY <1>1, <1>4
<1>5. QED
  BY <1>2, <1>3, <1>4

LEMMA BeforeIsLess ==
  ASSUME NEW a \in Bytes \X Bytes \X Bytes \X Bytes,
         NEW b \in Bytes \X Bytes \X Bytes \X Bytes
  PROVE  Before(Since(a), Since(b)) <=>
           \/ a[2] < b[2]
           \/ a[2] = b[2] /\ a[3] < b[3]
           \/ a[2] = b[2] /\ a[3] = b[3] /\ a[4] < b[4]
<1> DEFINE s == Since(a)
           t == Since(b)
<1>1. /\ s[1] = a[2] /\ s[2] = a[3] /\ s[3] = a[4]
      /\ t[1] = b[2] /\ t[2] = b[3] /\ t[3] = b[4]
  BY DEF Since
<1> HIDE DEF s, t
<1>2. Before(s, t) <=>
        \/ s[1] < t[1]
        \/ s[1] = t[1] /\ s[2] < t[2]
        \/ s[1] = t[1] /\ s[2] = t[2] /\ s[3] < t[3]
  <2>1. \A n : n \in 1 .. 3 <=> n = 1 \/ n = 2 \/ n = 3
    OBVIOUS
  <2>2. /\ \A m : m \notin 1 .. 1 - 1
        /\ \A m : m \in 1 .. 2 - 1 <=> m = 1
        /\ \A m : m \in 1 .. 3 - 1 <=> m = 1 \/ m = 2
    OBVIOUS
  <2>3. QED
    BY <2>1, <2>2 DEF Before
<1>3. QED
  BY <1>1, <1>2 DEF s, t

LEMMA LowBytesOrder ==
  ASSUME NEW a \in Bytes \X Bytes \X Bytes \X Bytes,
         NEW b \in Bytes \X Bytes \X Bytes \X Bytes
  PROVE  /\ LowBytes(a) < LowBytes(b) <=> Before(Since(a), Since(b))
         /\ LowBytes(a) < LowBytes(b) => LowBytes(a) + Byte <= LowBytes(b)
<1> DEFINE a3 == a[2] * Byte + a[3]
           b3 == b[2] * Byte + b[3]
           a4 == a3 * Byte + a[4]
           b4 == b3 * Byte + b[4]
<1>1. /\ a3 \in Nat /\ b3 \in Nat /\ a4 \in Nat /\ b4 \in Nat
      /\ a[2] \in Nat /\ b[2] \in Nat
      /\ a[3] \in Bytes /\ b[3] \in Bytes /\ a[4] \in Bytes /\ b[4] \in Bytes
  BY LowBytesIsNat DEF Bytes
<1>2. a3 < b3 <=> a[2] < b[2] \/ (a[2] = b[2] /\ a[3] < b[3])
  BY <1>1, DigitOrder
<1>3. a3 = b3 <=> a[2] = b[2] /\ a[3] = b[3]
  <2>1. b3 < a3 <=> b[2] < a[2] \/ (b[2] = a[2] /\ b[3] < a[3])
    BY <1>1, DigitOrder
  <2>2. a[3] \in Nat /\ b[3] \in Nat
    BY <1>1 DEF Bytes
  <2> HIDE DEF a3, b3
  <2>3. a3 = b3 <=> ~(a3 < b3) /\ ~(b3 < a3)
    BY <1>1
  <2>4. QED
    BY <1>1, <1>2, <2>1, <2>2, <2>3
<1>4. a4 < b4 <=> a3 < b3 \/ (a3 = b3 /\ a[4] < b[4])
  <2> HIDE DEF a3, b3
  <2> QED
    BY <1>1, DigitOrder
<1>5. LowBytes(a) = a4 * Byte /\ LowBytes(b) = b4 * Byte
  BY DEF LowBytes
<1> HIDE DEF a3, b3, a4, b4
<1>6. a4 < b4 <=> Before(Since(a), Since(b))
  BY <1>2, <1>3, <1>4, BeforeIsLess
<1>7. a4 < b4 => a4 * Byte + Byte <= b4 * Byte
  BY <1>1, MoreByBytes
<1>8. ~(a4 < b4) => b4 * Byte <= a4 * Byte
  <2>1. b4 < a4 => b4 * Byte + Byte <= a4 * Byte
    BY <1>1, MoreByBytes
  <2>2. a4 * Byte \in Nat /\ b4 * Byte \in Nat /\ Byte \in Nat
    BY <1>1, ByteAssumption
  <2>3. QED
    BY <1>1, <2>1, <2>2
<1>9. a4 * Byte \in Nat /\ b4 * Byte \in Nat /\ Byte \in Nat /\ Byte > 0
  BY <1>1, ByteAssumption
<1>10. a4 < b4 <=> a4 * Byte < b4 * Byte
  BY <1>1, <1>7, <1>8, <1>9
<1>11. QED
  BY <1>5, <1>6, <1>7, <1>10

LEMMA LowBytesFit ==
  ASSUME NEW a \in Bytes \X Bytes \X Bytes \X Bytes
  PROVE  LowBytes(a) + Byte <= Word32
<1>0. /\ a[2] \in Nat /\ a[3] \in Nat /\ a[4] \in Nat
      /\ a[2] < Byte /\ a[3] < Byte /\ a[4] < Byte /\ Byte \in Nat
  BY LowBytesIsNat, ByteAssumption DEF Bytes
<1> DEFINE a3 == a[2] * Byte + a[3]
           a4 == a3 * Byte + a[4]
           B2 == Byte * Byte
           B3 == B2 * Byte
<1>1. a3 \in Nat /\ a4 \in Nat /\ B2 \in Nat /\ B3 \in Nat
  <2>1. B2 \in Nat
    BY <1>0
  <2>2. QED
    BY <2>1, <1>0, LowBytesIsNat
<1>2. a3 < B2
  <2>1. a[2] * Byte + Byte <= Byte * Byte
    BY <1>0, MoreByBytes
  <2>2. a[2] * Byte \in Nat
    BY <1>0
  <2>3. QED
    BY <1>0, <1>1, <2>1, <2>2
<1>3. a4 < B3
  <2> HIDE DEF a3, B2
  <2>1. a3 * Byte + Byte <= B2 * Byte
    BY <1>1, <1>2, MoreByBytes
  <2>2. a3 * Byte \in Nat
    BY <1>0, <1>1
  <2>3. QED
    BY <1>0, <1>1, <2>1, <2>2
<1>4. LowBytes(a) = a4 * Byte /\ Word32 = B3 * Byte
  BY DEF LowBytes, Word32
<1>5. a4 * Byte + Byte <= B3 * Byte
  <2> HIDE DEF a4, B3
  <2> QED
    BY <1>1, <1>3, MoreByBytes
<1>6. QED
  BY <1>4, <1>5

(* The grouped events of one file.                                         *)
TimeOf(f, i) == data[f][given[f][i].at].time

HighestIsZero(f) == \A i \in DOMAIN given[f] : TimeOf(f, i)[1] = 0

FallsOf(f) ==
  {i \in 1 .. Len(given[f]) - 1 : Before(Since(TimeOf(f, i + 1)), Since(TimeOf(f, i)))}

GivenAreEvents(f) ==
  \A i \in DOMAIN given[f] :
    data[f][given[f][i].at].kind = "bytes" /\ given[f][i].ts[1] \in Nat

LastIsTime(f) ==
  /\ given[f] = << >> => i_spill_count[f] = -1 /\ last_event_time[f] = Word32 - 1
  /\ given[f] # << >> => last_event_time[f] = LowBytes(TimeOf(f, Len(given[f])))

FallsAreCounted(f) == given[f] # << >> => i_spill_count[f] = Cardinality(FallsOf(f))

StampsOf(f) ==
  i_spill_count[f] < Byte =>
    \A i \in DOMAIN given[f] :
      /\ LowBytes(TimeOf(f, i)) <= given[f][i].ts[1]
      /\ given[f][i].ts[1] <= LowBytes(TimeOf(f, i)) + i_spill_count[f]

GroupedOf(f) ==
  /\ GivenAreEvents(f)
  /\ HighestIsZero(f) => LastIsTime(f) /\ FallsAreCounted(f) /\ StampsOf(f)

LEMMA GivenTimeIsBytes ==
  ASSUME FilesTyped, NEW f \in Files, class[f] = "EventGrouped", GivenAreEvents(f),
         NEW i \in DOMAIN given[f]
  PROVE  TimeOf(f, i) \in Bytes \X Bytes \X Bytes \X Bytes
<1>1. given[f][i].at \in DOMAIN data[f]
  <2>1. /\ given[f][i].at \in 1 .. pos[f] /\ pos[f] <= Len(data[f]) /\ pos[f] \in Nat
        /\ data[f] \in Seq(ItemOf(class[f]))
    BY DEF FilesTyped, Contents
  <2>2. DOMAIN data[f] = 1 .. Len(data[f]) /\ Len(data[f]) \in Nat
    BY <2>1
  <2>3. QED
    BY <2>1, <2>2
<1>2. QED
  BY <1>1, TimeIsBytes DEF TimeOf, GivenAreEvents

(* The timestamps fall back where the times do.                            *)
LEMMA StampsFallBack ==
  ASSUME Typed, NEW f \in Files, class[f] = "EventGrouped", GroupedOf(f),
         HighestIsZero(f), i_spill_count[f] < Byte,
         NEW i \in DOMAIN given[f], NEW j \in DOMAIN given[f],
         Before(Since(TimeOf(f, j)), Since(TimeOf(f, i)))
  PROVE  given[f][j].ts[1] < given[f][i].ts[1]
<1> DEFINE a == LowBytes(TimeOf(f, i))
           b == LowBytes(TimeOf(f, j))
           s == given[f][i].ts[1]
           t == given[f][j].ts[1]
           c == i_spill_count[f]
<1>1. /\ TimeOf(f, i) \in Bytes \X Bytes \X Bytes \X Bytes
      /\ TimeOf(f, j) \in Bytes \X Bytes \X Bytes \X Bytes
  BY GivenTimeIsBytes DEF Typed, GroupedOf
<1>2. b + Byte <= a /\ a \in Nat /\ b \in Nat
  BY <1>1, LowBytesOrder, LowBytesIsNat
<1>3. a <= s /\ t <= b + c
  BY DEF GroupedOf, StampsOf
<1>4. s \in Nat /\ t \in Nat /\ c \in Int /\ c < Byte
  BY DEF GroupedOf, GivenAreEvents, Typed, GroupedTyped
<1> HIDE DEF a, b, s, t, c
<1>5. t < s
  BY <1>2, <1>3, <1>4, ByteAssumption
<1>6. QED
  BY <1>5 DEF s, t

(* What an event that is given does, when the highest byte is zero.        *)
LEMMA EventIsStamped ==
  ASSUME Typed, NEW f \in Files, class[f] = "EventGrouped", GiveEvent(f)
  PROVE  \E timeSpill \in TimesSpill(Item(f).time), stamp \in Nat :
           /\ Item(f).time \in Bytes \X Bytes \X Bytes \X Bytes
           /\ Item(f).kind = "bytes" /\ pos[f] + 1 \in DOMAIN data[f]
           /\ timeSpill \in Nat
           /\ i_spill_count'[f] = IF timeSpill < last_event_time[f]
                                    THEN i_spill_count[f] + 1 ELSE i_spill_count[f]
           /\ last_event_time'[f] = timeSpill
           /\ \E shifted \in {0, i_spill_count'[f]} :
                stamp = (shifted + timeSpill) % Word32
           /\ Gives(f, [at |-> pos[f] + 1, ts |-> <<stamp>>])
<1>1. /\ FilesTyped /\ GroupedTyped
      /\ pos[f] < Len(data[f]) /\ Item(f).kind = "bytes"
      /\ pos[f] + 1 \in DOMAIN data[f]
  BY ItemIsOfClass DEF GiveEvent, Finds, Typed
<1>2. Item(f).time \in Bytes \X Bytes \X Bytes \X Bytes
  BY <1>1, TimeIsBytes DEF Item
<1>3. PICK timeSpill \in TimesSpill(Item(f).time) :
         /\ i_spill_count' = IF IsEarlier(f, timeSpill)
                               THEN [i_spill_count EXCEPT ![f] = @ + 1]
                               ELSE i_spill_count
         /\ last_event_time' = [last_event_time EXCEPT ![f] = timeSpill]
         /\ \E shifted \in {0, i_spill_count'[f]} :
              Gives(f, [at |-> pos[f] + 1,
                        ts |-> <<(shifted + timeSpill) % Word32>>])
  BY DEF GiveEvent
<1>4. timeSpill \in Nat
  <2>1. LowBytes(Item(f).time) \in Nat /\ Item(f).time[1] \in Nat
    BY <1>2, LowBytesIsNat
  <2>2. QED
    BY <1>3, <2>1 DEF TimesSpill
<1>5. /\ i_spill_count'[f] = IF timeSpill < last_event_time[f]
                               THEN i_spill_count[f] + 1 ELSE i_spill_count[f]
      /\ last_event_time'[f] = timeSpill
      /\ i_spill_count'[f] \in Int
  BY <1>1, <1>3 DEF IsEarlier, GroupedTyped
<1>6. PICK shifted \in {0, i_spill_count'[f]} :
         Gives(f, [at |-> pos[f] + 1, ts |-> <<(shifted + timeSpill) % Word32>>])
  BY <1>3
<1>7. (shifted + timeSpill) % Word32 \in Nat
  <2>1. shifted + timeSpill \in Int /\ Word32 \in Nat /\ Word32 > 0
    BY <1>4, <1>5, <1>6, WordIsNat, ByteAssumption
  <2>2. \A n \in Int, w \in Nat : w > 0 => n % w \in Nat
    OBVIOUS
  <2>3. QED
    BY <2>1, <2>2
<1>8. QED
  BY <1>1, <1>2, <1>4, <1>5, <1>6, <1>7

LEMMA GroupedEventCounts ==
  ASSUME Typed, NEW f \in Files, class[f] = "EventGrouped", data' = data,
         GiveEvent(f), GroupedOf(f)
  PROVE  GroupedOf(f)'
<1> DEFINE N == pos[f] + 1
           b == Item(f).time
<1>0. PICK n : n = Len(given[f])
  OBVIOUS
<1>1. PICK timeSpill \in TimesSpill(b), stamp \in Nat :
        /\ b \in Bytes \X Bytes \X Bytes \X Bytes
        /\ Item(f).kind = "bytes" /\ N \in DOMAIN data[f]
        /\ timeSpill \in Nat
        /\ i_spill_count'[f] = IF timeSpill < last_event_time[f]
                                 THEN i_spill_count[f] + 1 ELSE i_spill_count[f]
        /\ last_event_time'[f] = timeSpill
        /\ \E shifted \in {0, i_spill_count'[f]} :
             stamp = (shifted + timeSpill) % Word32
        /\ Gives(f, [at |-> N, ts |-> <<stamp>>])
  BY EventIsStamped
<1>2. PICK e : e = [at |-> N, ts |-> <<stamp>>]
  OBVIOUS
<1>3. e.at = N /\ e.ts[1] = stamp /\ Gives(f, e)
  BY <1>1, <1>2
<1>4. /\ n \in Nat /\ DOMAIN given[f] = 1 .. n
      /\ Len(given'[f]) = n + 1 /\ DOMAIN given'[f] = 1 .. n + 1
      /\ \A i \in 1 .. n : given'[f][i] = given[f][i]
      /\ given'[f][n + 1] = e
  BY <1>0, <1>3, GivenGrows DEF Typed
<1>5. /\ \A i \in 1 .. n : TimeOf(f, i)' = TimeOf(f, i)
      /\ TimeOf(f, n + 1)' = b
  BY <1>3, <1>4 DEF TimeOf, Item
<1>6. /\ i_spill_count[f] \in Int /\ i_spill_count[f] >= -1
      /\ i_spill_count'[f] \in Int
  BY <1>1 DEF Typed, GroupedTyped
<1>7. \A i : i \in 1 .. n + 1 <=> i \in 1 .. n \/ i = n + 1
  BY <1>4
<1>8. GivenAreEvents(f)'
  <2>1. data[f][N].kind = "bytes"
    BY <1>1 DEF Item
  <2>2. ASSUME NEW i \in 1 .. n + 1
        PROVE  data[f][given'[f][i].at].kind = "bytes" /\ given'[f][i].ts[1] \in Nat
    BY <1>3, <1>4, <1>7, <2>1 DEF GroupedOf, GivenAreEvents
  <2>3. QED
    BY <1>4, <2>2 DEF GivenAreEvents
<1>9. ASSUME HighestIsZero(f)'
      PROVE  (LastIsTime(f) /\ FallsAreCounted(f) /\ StampsOf(f))'
  <2>1. \A i \in 1 .. n + 1 : TimeOf(f, i)'[1] = 0
    BY <1>4, <1>9 DEF HighestIsZero
  <2>2. HighestIsZero(f) /\ b[1] = 0
    BY <1>4, <1>5, <1>7, <2>1 DEF HighestIsZero
  <2>3. LastIsTime(f) /\ FallsAreCounted(f) /\ StampsOf(f)
    BY <2>2 DEF GroupedOf
  <2>4. timeSpill = LowBytes(b) /\ LowBytes(b) + Byte <= Word32 /\ LowBytes(b) \in Nat
    BY <1>1, <2>2, LowBytesFit, LowBytesIsNat DEF TimesSpill
  <2>5. LastIsTime(f)'
    <3>1. given'[f] # << >>
      BY <1>4
    <3>2. last_event_time'[f] = LowBytes(b) /\ Len(given'[f]) = n + 1
      BY <1>1, <1>4, <2>4
    <3>3. last_event_time'[f] = LowBytes(TimeOf(f, n + 1)')
      BY <1>5, <3>2
    <3>4. TimeOf(f, Len(given[f]))' = TimeOf(f, n + 1)'
      BY <3>2 DEF TimeOf
    <3>5. LowBytes(TimeOf(f, Len(given[f])))' = LowBytes(TimeOf(f, Len(given[f]))')
      BY DEF LowBytes
    <3>6. QED
      BY <3>1, <3>3, <3>4, <3>5 DEF LastIsTime
  <2>6. CASE n = 0
    <3>1. given[f] = << >>
      <4>1. PICK S : given[f] \in Seq(S)
        BY DEF Typed, FilesTyped, IsSeq
      <4>2. \A s \in Seq(S) : Len(s) = 0 => s = << >>
        OBVIOUS
      <4>3. Len(given[f]) = 0
        BY <1>0, <2>6
      <4>4. QED
        BY ONLY <4>1, <4>2, <4>3
    <3>2. i_spill_count'[f] = 0
      <4>1. i_spill_count[f] = -1 /\ last_event_time[f] = Word32 - 1
        BY <2>3, <3>1 DEF LastIsTime
      <4>2. LowBytes(b) < Word32 - 1
        BY <2>4, WordIsNat, ByteAssumption
      <4>3. QED
        BY <1>1, <2>4, <4>1, <4>2
    <3>3. FallsAreCounted(f)'
      <4>1. 1 .. Len(given'[f]) - 1 = {}
        BY <1>4, <2>6
      <4>2. FallsOf(f)' = {}
        BY <4>1 DEF FallsOf
      <4>3. QED
        BY <3>2, <4>2, FS_EmptySet DEF FallsAreCounted
    <3>4. stamp = LowBytes(b)
      <4>1. stamp = (0 + LowBytes(b)) % Word32
        BY <1>1, <2>4, <3>2
      <4>2. \A m, w \in Nat : m < w => (0 + m) % w = m
        OBVIOUS
      <4>3. LowBytes(b) < Word32
        BY <2>4, WordIsNat, ByteAssumption
      <4>4. QED
        BY <2>4, <4>1, <4>2, <4>3, WordIsNat
    <3>5. StampsOf(f)'
      <4>1. DOMAIN given'[f] = {1} /\ TimeOf(f, 1)' = b /\ given'[f][1] = e
        BY <1>4, <1>5, <2>6
      <4>2. /\ LowBytes(b) <= given'[f][1].ts[1]
            /\ given'[f][1].ts[1] <= LowBytes(b) + i_spill_count'[f]
        BY <1>3, <2>4, <3>2, <3>4, <4>1
      <4>3. LowBytes(TimeOf(f, 1)') = LowBytes(TimeOf(f, 1))'
        BY DEF LowBytes
      <4>4. QED
        BY <4>1, <4>2, <4>3 DEF StampsOf
    <3>6. QED
      BY <2>5, <3>3, <3>5
  <2>7. CASE n > 0
    <3>1. given[f] # << >> /\ n \in DOMAIN given[f] /\ n + 1 - 1 = n
      BY <1>4, <2>7
    <3>2. TimeOf(f, n) \in Bytes \X Bytes \X Bytes \X Bytes
      BY <3>1, GivenTimeIsBytes DEF Typed, GroupedOf
    <3>3. last_event_time[f] = LowBytes(TimeOf(f, n))
      BY <1>0, <2>3, <3>1 DEF LastIsTime
    <3>4. timeSpill < last_event_time[f] <=> Before(Since(b), Since(TimeOf(f, n)))
      BY <1>1, <2>4, <3>2, <3>3, LowBytesOrder
    <3>5. FallsOf(f)' = IF timeSpill < last_event_time[f]
                          THEN FallsOf(f) \union {n} ELSE FallsOf(f)
      <4>1. \A i : i \in 1 .. n <=> i \in 1 .. n - 1 \/ i = n
        BY <1>4, <2>7
      <4>2. \A i \in 1 .. n - 1 : i \in 1 .. n /\ i + 1 \in 1 .. n
        BY <1>4
      <4>3. FallsOf(f)' =
              {i \in 1 .. n : Before(Since(TimeOf(f, i + 1)'), Since(TimeOf(f, i)'))}
        BY <1>4, <3>1 DEF FallsOf, Before, Since
      <4>4. \A i \in 1 .. n - 1 : TimeOf(f, i + 1)' = TimeOf(f, i + 1)
                                  /\ TimeOf(f, i)' = TimeOf(f, i)
        BY <1>5, <4>2
      <4>5. TimeOf(f, n)' = TimeOf(f, n)
        BY <1>4, <1>5, <3>1
      <4>6. FallsOf(f) =
              {i \in 1 .. n - 1 : Before(Since(TimeOf(f, i + 1)), Since(TimeOf(f, i)))}
        BY <1>0 DEF FallsOf
      <4>7. \A i : i \in FallsOf(f)' <=>
              \/ i \in FallsOf(f)
              \/ i = n /\ timeSpill < last_event_time[f]
        BY <1>5, <3>4, <4>1, <4>3, <4>4, <4>5, <4>6
      <4>8. QED
        BY <4>7
    <3>6. n \notin FallsOf(f) /\ IsFiniteSet(FallsOf(f))
      <4>1. FallsOf(f) \subseteq 1 .. n - 1 /\ n \notin 1 .. n - 1
        BY <1>4 DEF FallsOf
      <4>2. IsFiniteSet(1 .. n - 1)
        <5>1. 1 \in Int /\ n - 1 \in Int
          BY <1>4
        <5>2. QED
          BY <5>1, FS_Interval
      <4>3. QED
        BY <4>1, <4>2, FS_Subset
    <3>7. FallsAreCounted(f)'
      <4>1. i_spill_count[f] = Cardinality(FallsOf(f))
        BY <2>3, <3>1 DEF FallsAreCounted
      <4>2. Cardinality(FallsOf(f) \union {n}) = Cardinality(FallsOf(f)) + 1
        BY <3>6, FS_AddElement
      <4>3. i_spill_count'[f] = Cardinality(FallsOf(f)')
        BY <1>1, <3>5, <4>1, <4>2
      <4>4. QED
        BY <4>3 DEF FallsAreCounted
    <3>8. StampsOf(f)'
      <4> SUFFICES ASSUME i_spill_count'[f] < Byte, NEW i \in 1 .. n + 1
                   PROVE  /\ LowBytes(TimeOf(f, i)') <= given'[f][i].ts[1]
                          /\ given'[f][i].ts[1] <=
                               LowBytes(TimeOf(f, i)') + i_spill_count'[f]
        BY <1>4 DEF StampsOf, LowBytes
      <4>1. i_spill_count[f] < Byte /\ i_spill_count[f] <= i_spill_count'[f]
            /\ i_spill_count[f] \in Nat
        <5>1. i_spill_count[f] \in Nat
          BY <2>3, <3>1, <3>6, FS_CardinalityType DEF FallsAreCounted
        <5>2. QED
          BY <1>1, <1>6, <5>1, ByteAssumption
      <4>2. CASE i \in 1 .. n
        <5> DEFINE x == LowBytes(TimeOf(f, i))
                   y == given[f][i].ts[1]
                   c == i_spill_count[f]
                   d == i_spill_count'[f]
        <5>1. x <= y /\ y <= x + c
          BY <1>4, <2>3, <4>1, <4>2 DEF StampsOf
        <5>2. x \in Nat /\ y \in Nat
          BY <1>4, <4>2, GivenTimeIsBytes, LowBytesIsNat DEF Typed, GroupedOf, GivenAreEvents
        <5>3. c \in Int /\ d \in Int /\ c <= d
          BY <1>6, <4>1
        <5> HIDE DEF x, y, c, d
        <5>4. x <= y /\ y <= x + d
          BY <5>1, <5>2, <5>3
        <5>5. TimeOf(f, i)' = TimeOf(f, i) /\ given'[f][i] = given[f][i]
          BY <1>4, <1>5, <4>2
        <5>6. QED
          BY <5>4, <5>5 DEF x, y, d
      <4>3. CASE i = n + 1
        <5>1. TimeOf(f, i)' = b /\ given'[f][i].ts[1] = stamp
          BY <1>3, <1>4, <1>5, <4>3
        <5>2. PICK shifted \in {0, i_spill_count'[f]} :
                stamp = (shifted + LowBytes(b)) % Word32
          BY <1>1, <2>4
        <5>3. shifted \in Nat /\ shifted <= i_spill_count'[f] /\ shifted < Byte
          BY <1>6, <4>1, <5>2, ByteAssumption
        <5>4. \A m, w \in Nat : m < w => m % w = m
          OBVIOUS
        <5>5. shifted + LowBytes(b) \in Nat /\ shifted + LowBytes(b) < Word32
          BY <2>4, <5>3, WordIsNat, ByteAssumption
        <5>6. stamp = shifted + LowBytes(b)
          BY <5>2, <5>4, <5>5, WordIsNat
        <5>7. LowBytes(b) <= stamp /\ stamp <= LowBytes(b) + i_spill_count'[f]
          BY <1>6, <2>4, <5>3, <5>6
        <5>8. QED
          BY <5>1, <5>7
      <4>4. QED
        BY <1>7, <4>2, <4>3
    <3>9. QED
      BY <2>5, <3>7, <3>8
  <2>8. QED
    BY <1>4, <2>6, <2>7
<1>10. QED
  BY <1>8, <1>9 DEF GroupedOf

LEMMA GroupedEndCounts ==
  ASSUME Typed, NEW f \in Files, data' = data, NoMoreEvents(f), GroupedOf(f)
  PROVE  GroupedOf(f)'
<1>1. given' = given /\ UNCHANGED groupedVars
  BY DEF NoMoreEvents, GivesNothing
<1>2. QED
  BY <1>1 DEF GroupedOf, GivenAreEvents, HighestIsZero, LastIsTime, FallsAreCounted, StampsOf,
              FallsOf, TimeOf, LowBytes, Before, Since, groupedVars

-----------------------------------------------------------------------------
(* The fiber tracker: once a read has failed, the file was cut short or    *)
(* packets have been made up.                                              *)
CutOrMadeUp(f) ==
  \/ data[f] # << >> /\ data[f][Len(data[f])].kind = "cut"
  \/ \E i \in DOMAIN given[f] : given[f][i].ts = <<0, 0>>

FailsOf(f) == f \in failed => state[f] = "thrown" \/ CutOrMadeUp(f)

LEMMA CutOrMadeUpStays ==
  ASSUME FilesTyped, NEW f \in Files, data' = data, CutOrMadeUp(f),
         given' = given \/ \E e : Gives(f, e)
  PROVE  CutOrMadeUp(f)'
<1>1. CASE given' = given
  BY <1>1 DEF CutOrMadeUp
<1>2. CASE \E e : Gives(f, e)
  <2>1. \A i \in DOMAIN given[f] : i \in DOMAIN given'[f] /\ given'[f][i] = given[f][i]
    <3>1. PICK e : Gives(f, e)
      BY <1>2
    <3>2. /\ Len(given[f]) \in Nat /\ DOMAIN given[f] = 1 .. Len(given[f])
          /\ DOMAIN given'[f] = 1 .. Len(given[f]) + 1
          /\ \A i \in 1 .. Len(given[f]) : given'[f][i] = given[f][i]
      BY <3>1, GivenGrows
    <3>3. QED
      BY <3>2
  <2>2. QED
    BY <2>1 DEF CutOrMadeUp
<1>3. QED
  BY <1>1, <1>2

LEMMA TrackerFails ==
  ASSUME Typed, NEW f \in Files, TrackerNext(f), FailsOf(f)
  PROVE  FailsOf(f)'
<1>1. /\ FilesTyped /\ TrackerTyped /\ data' = data
      /\ state[f] = "open" /\ class[f] = "FiberTracker"
  BY DEF Typed, TrackerNext, Constant, IsAsked
<1>2. CASE FirstOfSpill(f)
  <2>1. f \notin failed
    BY <1>2 DEF FirstOfSpill
  <2>2. CASE Throws(f)
    <3>1. state'[f] = "thrown"
      BY <1>1, <2>2 DEF Throws, FilesTyped
    <3>2. QED
      BY <3>1 DEF FailsOf
  <2>3. CASE \E events \in SpillLists(f) :
                  events # << >> /\ Gives(f, [at |-> pos'[f], ts |-> events[1]])
    <3>1. PICK events \in SpillLists(f) :
                  events # << >> /\ Gives(f, [at |-> pos'[f], ts |-> events[1]])
      BY <2>3
    <3>2. state'[f] = "open"
      BY <1>1, <3>1 DEF Gives
    <3>3. ASSUME f \in failed' PROVE CutOrMadeUp(f)'
      <4>1. AtEnd(f)
        BY <1>2, <2>1, <3>3 DEF FirstOfSpill, Reads
      <4>2. CASE pos[f] < Len(data[f])
        <5>1. data[f][pos[f] + 1].kind = "cut" /\ pos[f] + 1 \in DOMAIN data[f]
          BY <1>1, <4>1, <4>2, ItemIsOfClass DEF AtEnd, Item
        <5>2. data[f][Len(data[f])].kind = "cut" /\ data[f] # << >>
          BY <1>1, <5>1 DEF FilesTyped, Contents, CutComesLast
        <5>3. QED
          BY <1>1, <5>2 DEF CutOrMadeUp
      <4>3. CASE ~(pos[f] < Len(data[f]))
        <5>1. events = LastSpillEmptied(f) /\ events \in Seq(Times)
          BY <1>1, <3>1, <4>3, ListsAreTyped
        <5>2. 1 \in DOMAIN spill_events_[f]
          <6>1. spill_events_[f] \in Seq(Times)
            BY <1>1 DEF TrackerTyped
          <6>2. DOMAIN events = DOMAIN spill_events_[f]
            BY <5>1 DEF LastSpillEmptied
          <6>3. 1 \in DOMAIN events
            BY <3>1, <5>1
          <6>4. QED
            BY <6>2, <6>3
        <5>3. events[1] = <<0, 0>>
          BY <5>1, <5>2 DEF LastSpillEmptied
        <5>4. PICK e : e = [at |-> pos'[f], ts |-> events[1]]
          OBVIOUS
        <5>5. e.ts = <<0, 0>> /\ Gives(f, e)
          BY <3>1, <5>3, <5>4
        <5>6. Len(given[f]) + 1 \in DOMAIN given'[f] /\ given'[f][Len(given[f]) + 1] = e
          <6>1. /\ Len(given[f]) \in Nat /\ DOMAIN given'[f] = 1 .. Len(given[f]) + 1
                /\ given'[f][Len(given[f]) + 1] = e
            BY <1>1, <5>5, GivenGrows
          <6>2. QED
            BY <6>1
        <5>7. QED
          BY <5>5, <5>6 DEF CutOrMadeUp
      <4>4. QED
        BY <4>2, <4>3
    <3>4. QED
      BY <3>2, <3>3 DEF FailsOf
  <2>4. QED
    BY <1>2, <2>2, <2>3 DEF FirstOfSpill
<1>3. CASE NextOfSpill(f)
  <2>1. failed' = failed /\ state' = state /\ \E e : Gives(f, e)
    BY <1>3 DEF NextOfSpill, Gives
  <2>2. CutOrMadeUp(f) => CutOrMadeUp(f)'
    BY <1>1, <2>1, CutOrMadeUpStays
  <2>3. QED
    BY <1>1, <2>1, <2>2 DEF FailsOf
<1>4. CASE NoMoreSpills(f)
  <2>1. f \in failed /\ failed' = failed /\ given' = given /\ state'[f] = "done"
    BY <1>1, <1>4 DEF NoMoreSpills, GivesNothing, FilesTyped
  <2>2. CutOrMadeUp(f)'
    BY <1>1, <2>1, CutOrMadeUpStays DEF FailsOf
  <2>3. QED
    BY <2>2 DEF FailsOf
<1>5. QED
  BY <1>2, <1>3, <1>4 DEF TrackerNext

-----------------------------------------------------------------------------
(* The Polarfire.  The events of the spills that have been read, those     *)
(* that begin a spill, and their numbers.                                  *)
LEMMA SpillsAreFinite ==
  ASSUME FilesTyped, NEW f \in Files
  PROVE  /\ SpillEvents(f) \subseteq 1 .. pos[f] /\ pos[f] \in Nat
         /\ Openings(f) \subseteq SpillEvents(f)
         /\ IsFiniteSet(Openings(f)) /\ Cardinality(Openings(f)) \in Nat
         /\ \A k : SpillOf(f, k) \in Nat /\ SpillOf(f, k) <= Cardinality(Openings(f))
         /\ \A k : (\A j \in Openings(f) : j <= k) =>
                     SpillOf(f, k) = Cardinality(Openings(f))
<1>1. SpillEvents(f) \subseteq 1 .. pos[f] /\ pos[f] \in Nat
  BY DEF FilesTyped, SpillEvents
<1>2. Openings(f) \subseteq SpillEvents(f)
  BY DEF Openings
<1>3. IsFiniteSet(1 .. pos[f])
  BY <1>1, FS_Interval
<1>4. IsFiniteSet(Openings(f)) /\ Cardinality(Openings(f)) \in Nat
  BY <1>1, <1>2, <1>3, FS_Subset, FS_CardinalityType
<1>5. ASSUME NEW k
      PROVE  SpillOf(f, k) \in Nat /\ SpillOf(f, k) <= Cardinality(Openings(f))
  <2> DEFINE T == {j \in Openings(f) : j <= k}
  <2>1. T \in SUBSET Openings(f)
    OBVIOUS
  <2>2. IsFiniteSet(T) /\ Cardinality(T) <= Cardinality(Openings(f))
    <3> HIDE DEF T
    <3> QED
      BY <1>4, <2>1, FS_Subset
  <2>3. Cardinality(T) \in Nat
    BY <2>2, FS_CardinalityType
  <2>4. QED
    BY <2>2, <2>3 DEF SpillOf
<1>6. ASSUME NEW k, \A j \in Openings(f) : j <= k
      PROVE  SpillOf(f, k) = Cardinality(Openings(f))
  <2>1. {j \in Openings(f) : j <= k} = Openings(f)
    BY <1>6
  <2>2. QED
    BY <2>1 DEF SpillOf
<1>7. QED
  BY <1>1, <1>2, <1>4, <1>5, <1>6

LEMMA SpillSetsStay ==
  ASSUME NEW f \in Files, data' = data, offset' = offset,
         SpillEvents(f)' = SpillEvents(f)
  PROVE  /\ Openings(f)' = Openings(f) /\ Wanted(f)' = Wanted(f)
         /\ \A k : SpillOf(f, k)' = SpillOf(f, k)
<1>1. Openings(f)' = Openings(f)
  BY DEF Openings
<1>2. \A k : SpillOf(f, k)' = SpillOf(f, k)
  BY <1>1 DEF SpillOf
<1>3. Wanted(f)' = Wanted(f)
  BY <1>2 DEF Wanted
<1>4. QED
  BY <1>1, <1>2, <1>3

(* What the counters of a file say about its spills.                       *)
CountedOf(f) ==
  /\ spills_to_skip_[f] <= offset[f]
  /\ i_spill_[f] > 0 => spills_to_skip_[f] = 0
  /\ Cardinality(Openings(f)) = i_spill_[f] + offset[f] - spills_to_skip_[f]

LastEventOf(f) ==
  IF SpillEvents(f) = {}
    THEN spill_[f] = -1
    ELSE \E k \in SpillEvents(f) : IsLast(f, k) /\ spill_[f] = data[f][k].spill

LastOpeningOf(f) ==
  Openings(f) # {} => \E o \in Openings(f) : \A j \in Openings(f) : j <= o

(* An event of a spill more.                                               *)
LEMMA EventOfSpill ==
  ASSUME FilesTyped, PolarfireTyped, NEW f \in Files, data' = data, offset' = offset,
         LastEventOf(f), LastOpeningOf(f),
         NEW n, n = pos[f] + 1, pos'[f] = n,
         data[f][n].kind = "event", data[f][n].ticks \in MinTick .. MaxTick,
         data[f][n].spill \in Nat
  PROVE  /\ SpillEvents(f)' = SpillEvents(f) \union {n} /\ n \notin SpillEvents(f)
         /\ IF data[f][n].spill # spill_[f]
              THEN /\ Openings(f)' = Openings(f) \union {n}
                   /\ Cardinality(Openings(f))' = Cardinality(Openings(f)) + 1
              ELSE /\ Openings(f)' = Openings(f)
                   /\ Cardinality(Openings(f))' = Cardinality(Openings(f))
         /\ \A k \in SpillEvents(f) : SpillOf(f, k)' = SpillOf(f, k)
         /\ SpillOf(f, n)' = Cardinality(Openings(f))'
         /\ LastOpeningOf(f)' /\ IsLast(f, n)'
<1>1. /\ SpillEvents(f) \subseteq 1 .. pos[f] /\ pos[f] \in Nat /\ n \in Nat
      /\ Openings(f) \subseteq SpillEvents(f)
  BY SpillsAreFinite
<1>2. \A k \in SpillEvents(f) : k \in Nat /\ k < n
  BY <1>1
<1>3. SpillEvents(f)' = SpillEvents(f) \union {n} /\ n \notin SpillEvents(f)
  <2>1. \A k : k \in 1 .. pos'[f] <=> k \in 1 .. pos[f] \/ k = n
    BY <1>1
  <2>2. QED
    BY <1>2, <2>1 DEF SpillEvents
<1>4. IsLast(f, n)'
  BY <1>1, <1>2, <1>3 DEF IsLast
<1>5. \A k \in SpillEvents(f) : k \in Openings(f)' <=> k \in Openings(f)
  BY <1>1, <1>2, <1>3 DEF Openings
<1>6. n \in Openings(f)' <=> data[f][n].spill # spill_[f]
  <2>1. n \in Openings(f)' <=>
          \A j \in SpillEvents(f) : IsLast(f, j) => data[f][j].spill # data[f][n].spill
    BY <1>1, <1>2, <1>3 DEF Openings, IsLast
  <2>2. CASE SpillEvents(f) = {}
    <3>1. spill_[f] = -1
      BY <2>2 DEF LastEventOf
    <3>2. data[f][n].spill # -1
      OBVIOUS
    <3>3. QED
      BY <2>1, <2>2, <3>1, <3>2
  <2>3. CASE SpillEvents(f) # {}
    <3>1. PICK k \in SpillEvents(f) : IsLast(f, k) /\ spill_[f] = data[f][k].spill
      BY <2>3 DEF LastEventOf
    <3>2. \A j \in SpillEvents(f) : IsLast(f, j) => j = k
      BY <1>2, <3>1 DEF IsLast
    <3>3. QED
      BY <2>1, <3>1, <3>2
  <2>4. QED
    BY <2>2, <2>3
<1>7. Openings(f)' \subseteq SpillEvents(f) \union {n}
  BY <1>3 DEF Openings
<1>8. Openings(f)' = IF data[f][n].spill # spill_[f]
                       THEN Openings(f) \union {n} ELSE Openings(f)
  <2>1. \A k : k \in Openings(f)' <=>
          \/ k \in Openings(f)
          \/ k = n /\ data[f][n].spill # spill_[f]
    BY <1>1, <1>3, <1>5, <1>6, <1>7
  <2>2. CASE data[f][n].spill # spill_[f]
    <3>1. Openings(f)' = Openings(f) \union {n}
      BY <2>1, <2>2
    <3>2. QED
      BY <2>2, <3>1
  <2>3. CASE ~(data[f][n].spill # spill_[f])
    <3>1. Openings(f)' = Openings(f)
      BY <2>1, <2>3
    <3>2. QED
      BY <2>3, <3>1
  <2>4. QED
    BY <2>2, <2>3
<1>9. /\ Cardinality(Openings(f) \union {n}) = Cardinality(Openings(f)) + 1
      /\ Cardinality(Openings(f)') = Cardinality(Openings(f))'
  BY <1>1, <1>3, SpillsAreFinite, FS_AddElement
<1>10. \A k \in SpillEvents(f) : SpillOf(f, k)' = SpillOf(f, k)
  <2>1. \A k \in SpillEvents(f) : ~(n <= k)
    BY <1>1, <1>2
  <2>2. \A k \in SpillEvents(f) :
          {j \in Openings(f)' : j <= k} = {j \in Openings(f) : j <= k}
    BY <1>8, <2>1
  <2>3. QED
    BY <2>2 DEF SpillOf
<1>11. SpillOf(f, n)' = Cardinality(Openings(f))'
  <2>1. \A j \in Openings(f)' : j <= n
    BY <1>1, <1>2, <1>7
  <2>2. {j \in Openings(f)' : j <= n} = Openings(f)'
    BY <2>1
  <2>3. QED
    BY <1>9, <2>2 DEF SpillOf
<1>12. LastOpeningOf(f)'
  <2>1. CASE data[f][n].spill # spill_[f]
    <3>1. n \in Openings(f)' /\ \A j \in Openings(f)' : j <= n
      BY <1>1, <1>2, <1>8, <2>1
    <3>2. QED
      BY <3>1 DEF LastOpeningOf
  <2>2. CASE data[f][n].spill = spill_[f]
    BY <1>8, <2>2 DEF LastOpeningOf
  <2>3. QED
    BY <2>1, <2>2
<1>13. QED
  BY <1>3, <1>4, <1>8, <1>9, <1>10, <1>11, <1>12

(* What holds of one Polarfire file.                                       *)
GivenSpillsOf(f) ==
  \A i \in DOMAIN given[f] :
    /\ given[f][i].ts[1] <= i_spill_[f]
    /\ given[f][i].ts[1] = i_spill_[f] => data[f][given[f][i].at].spill = spill_[f]

RiseOf(f) ==
  \A j \in DOMAIN given[f] : \A i \in 1 .. j - 1 :
    /\ given[f][i].at < given[f][j].at
    /\ given[f][i].ts[1] <= given[f][j].ts[1]
    /\ given[f][i].ts[1] = given[f][j].ts[1] =>
         data[f][given[f][i].at].spill = data[f][given[f][j].at].spill

GivesWantedOf(f) ==
  /\ Given(f) \subseteq Wanted(f)
  /\ \A i \in DOMAIN given[f] : given[f][i].ts[1] = SpillOf(f, given[f][i].at) - offset[f]

LostOf(f) ==
  \A k \in Wanted(f) \ Given(f) :
    /\ OtherEndsSkipping(f)
    /\ \E j \in Given(f) : SpillOf(f, j) = SpillOf(f, k)
    /\ \A j \in Given(f) : SpillOf(f, j) = SpillOf(f, k) => j < k

FirstsOf(f) == Openings(f) \intersect Wanted(f) \subseteq Given(f)

RestOf(f) ==
  \A k \in Wanted(f) \ Given(f) :
    SpillOf(f, k) = Cardinality(Openings(f)) => state[f] # "open" \/ SkipsIn(f)

SkipOf(f) ==
  state[f] = "open" /\ SpillEvents(f) # {} /\ i_spill_[f] = 0 => SkipsIn(f)

PolarfireOf(f) ==
  /\ CountedOf(f) /\ LastEventOf(f) /\ LastOpeningOf(f)
  /\ GivenSpillsOf(f) /\ RiseOf(f)
  /\ GivesWantedOf(f) /\ LostOf(f) /\ FirstsOf(f) /\ RestOf(f) /\ SkipOf(f)

(* The other files keep their spills, and one that has ended stays so.     *)
LEMMA OthersKeepSpills ==
  ASSUME Typed, NEW f \in Files, next(f), NEW g \in Files, g # f
  PROVE  /\ SpillEvents(g)' = SpillEvents(g) /\ Given(g)' = Given(g)
         /\ Openings(g)' = Openings(g) /\ Wanted(g)' = Wanted(g)
         /\ \A k : SpillOf(g, k)' = SpillOf(g, k)
         /\ pos'[g] = pos[g] /\ given'[g] = given[g] /\ state'[g] = state[g]
         /\ data' = data /\ class' = class /\ offset' = offset
<1>1. StepOf(f) /\ FilesTyped
  BY NextIsStep DEF Typed
<1>2. pos'[g] = pos[g] /\ given'[g] = given[g] /\ state'[g] = state[g]
  BY <1>1, OthersStay
<1>3. data' = data /\ class' = class /\ offset' = offset
  BY <1>1, OthersKeepCounters DEF StepOf
<1>4. SpillEvents(g)' = SpillEvents(g) /\ Given(g)' = Given(g)
  BY <1>2, <1>3 DEF SpillEvents, Given
<1>5. QED
  BY <1>2, <1>3, <1>4, SpillSetsStay

LEMMA OtherEndsStay ==
  ASSUME Typed, NEW f \in Files, next(f), NEW g \in Files, OtherEndsSkipping(g)
  PROVE  OtherEndsSkipping(g)'
<1>1. PICK h \in OfClass("Polarfire") \ {g} :
        state[h] = "done" /\ offset[h] > 0 /\ Wanted(h) = {}
  BY DEF OtherEndsSkipping
<1>2. h \in Files /\ h # f
  <2>1. state[f] = "open"
    BY NextIsStep DEF StepOf
  <2>2. QED
    BY <1>1, <2>1 DEF OfClass
<1>3. /\ state'[h] = "done" /\ offset'[h] > 0 /\ Wanted(h)' = {}
      /\ h \in OfClass("Polarfire")' /\ h # g
  BY <1>1, <1>2, OthersKeepSpills DEF OfClass
<1>4. QED
  BY <1>3 DEF OtherEndsSkipping

LEMMA OthersStayPolarfire ==
  ASSUME Typed, NEW f \in Files, next(f), NEW g \in Files, g # f, PolarfireOf(g)
  PROVE  PolarfireOf(g)'
<1>1. /\ SpillEvents(g)' = SpillEvents(g) /\ Given(g)' = Given(g)
      /\ Openings(g)' = Openings(g) /\ Wanted(g)' = Wanted(g)
      /\ \A k : SpillOf(g, k)' = SpillOf(g, k)
      /\ pos'[g] = pos[g] /\ given'[g] = given[g] /\ state'[g] = state[g]
      /\ data' = data /\ class' = class /\ offset' = offset
  BY OthersKeepSpills
<1>2. /\ spill_'[g] = spill_[g] /\ i_spill_'[g] = i_spill_[g]
      /\ spills_to_skip_'[g] = spills_to_skip_[g]
  BY OthersKeepCounters
<1>3. ~SkipsIn(g)
  <2>1. asked \subseteq {f}
    BY NextIsStep DEF StepOf
  <2>2. QED
    BY <2>1 DEF SkipsIn
<1>4. CountedOf(g)' /\ LastEventOf(g)' /\ LastOpeningOf(g)'
  BY <1>1, <1>2 DEF PolarfireOf, CountedOf, LastEventOf, LastOpeningOf, IsLast
<1>5. GivenSpillsOf(g)' /\ RiseOf(g)'
  BY <1>1, <1>2 DEF PolarfireOf, GivenSpillsOf, RiseOf
<1>6. GivesWantedOf(g)'
  <2>1. \A i \in DOMAIN given[g] :
          SpillOf(g, given[g][i].at)' = SpillOf(g, given[g][i].at)
    <3>1. \A i : given'[g][i].at = given[g][i].at
      BY <1>1
    <3>2. QED
      BY <1>1, <3>1 DEF SpillOf
  <2>2. QED
    BY <1>1, <2>1 DEF PolarfireOf, GivesWantedOf
<1>7. LostOf(g)'
  BY <1>1, OtherEndsStay DEF PolarfireOf, LostOf
<1>8. FirstsOf(g)' /\ RestOf(g)' /\ SkipOf(g)'
  BY <1>1, <1>2, <1>3 DEF PolarfireOf, FirstsOf, RestOf, SkipOf
<1>9. QED
  BY <1>4, <1>5, <1>6, <1>7, <1>8 DEF PolarfireOf

(* A call, or a part of one, that comes to no event of a spill.            *)
NoEvent(f) ==
  /\ SpillEvents(f)' = SpillEvents(f)
  /\ UNCHANGED Counters /\ keep_current_spill' = {Keeps(f)} /\ given' = given
  /\ (asked' = {f} /\ state' = state) \/ state'[f] # "open"

LEMMA SkipsInStays ==
  ASSUME NEW f \in Files, SkipsIn(f), asked' = {f}, keep_current_spill' = {Keeps(f)}
  PROVE  SkipsIn(f)'
<1>1. keep_current_spill # {} /\ ~(TRUE \in keep_current_spill)
  BY DEF SkipsIn
<1>2. Keeps(f) = FALSE
  <2>1. Keeps(f) = (TRUE \in keep_current_spill)
    BY <1>1, Zenon DEF Keeps
  <2>2. (TRUE \in keep_current_spill) = FALSE
    <3>1. (TRUE \in keep_current_spill) \in BOOLEAN
      OBVIOUS
    <3>2. \A b \in BOOLEAN : ~b => b = FALSE
      OBVIOUS
    <3>3. QED
      BY <1>1, <3>1, <3>2, Zenon
  <2>3. QED
    BY <2>1, <2>2, Zenon
<1>3. QED
  BY <1>2 DEF SkipsIn

LEMMA NoEventKeeps ==
  ASSUME Typed, NEW f \in Files, next(f), PolarfireOf(f), NoEvent(f)
  PROVE  PolarfireOf(f)'
<1>1. /\ data' = data /\ class' = class /\ offset' = offset
      /\ spill_' = spill_ /\ i_spill_' = i_spill_ /\ spills_to_skip_' = spills_to_skip_
  <2>1. data' = data /\ class' = class
    BY NextIsStep DEF StepOf
  <2>2. offset' = offset
    <3>1. CASE PolarfireNext(f)
      BY <3>1 DEF PolarfireNext
    <3>2. CASE UNCHANGED polarfireVars
      BY <3>2 DEF polarfireVars
    <3>3. QED
      BY <3>1, <3>2 DEF next
  <2>3. QED
    BY <2>1, <2>2 DEF NoEvent, Counters
<1>2. /\ SpillEvents(f)' = SpillEvents(f) /\ Given(f)' = Given(f)
      /\ Openings(f)' = Openings(f) /\ Wanted(f)' = Wanted(f)
      /\ \A k : SpillOf(f, k)' = SpillOf(f, k)
      /\ given' = given
  BY <1>1, SpillSetsStay DEF NoEvent, Given
<1>3. state[f] = "open"
  BY NextIsStep DEF StepOf
<1>4. SkipsIn(f) => state'[f] # "open" \/ SkipsIn(f)'
  BY SkipsInStays DEF NoEvent
<1>5. CountedOf(f)' /\ LastEventOf(f)' /\ LastOpeningOf(f)'
  BY <1>1, <1>2 DEF PolarfireOf, CountedOf, LastEventOf, LastOpeningOf, IsLast
<1>6. GivenSpillsOf(f)' /\ RiseOf(f)'
  BY <1>1, <1>2 DEF PolarfireOf, GivenSpillsOf, RiseOf
<1>7. GivesWantedOf(f)'
  <2>1. \A i \in DOMAIN given[f] :
          SpillOf(f, given[f][i].at)' = SpillOf(f, given[f][i].at)
    BY <1>2 DEF SpillOf
  <2>2. QED
    BY <1>1, <1>2, <2>1 DEF PolarfireOf, GivesWantedOf
<1>8. LostOf(f)'
  BY <1>2, OtherEndsStay DEF PolarfireOf, LostOf
<1>9. FirstsOf(f)'
  BY <1>2 DEF PolarfireOf, FirstsOf
<1>10. RestOf(f)' /\ SkipOf(f)'
  BY <1>1, <1>2, <1>3, <1>4 DEF PolarfireOf, RestOf, SkipOf
<1>11. QED
  BY <1>5, <1>6, <1>7, <1>8, <1>9, <1>10 DEF PolarfireOf

(* A call that comes to the event n of a spill.                            *)
EventRead(f, n) ==
  /\ n = pos[f] + 1 /\ n \in Nat /\ pos'[f] = n /\ data' = data /\ offset' = offset
  /\ SpillEvents(f)' = SpillEvents(f) \union {n} /\ n \notin SpillEvents(f)
  /\ IF data[f][n].spill # spill_[f]
       THEN /\ Openings(f)' = Openings(f) \union {n}
            /\ Cardinality(Openings(f))' = Cardinality(Openings(f)) + 1
       ELSE /\ Openings(f)' = Openings(f)
            /\ Cardinality(Openings(f))' = Cardinality(Openings(f))
  /\ \A k \in SpillEvents(f) : SpillOf(f, k)' = SpillOf(f, k)
  /\ SpillOf(f, n)' = Cardinality(Openings(f))'
  /\ LastOpeningOf(f)' /\ IsLast(f, n)'
  /\ state' = state /\ state[f] = "open"

LEMMA WantedGrows ==
  ASSUME FilesTyped, NEW f \in Files, NEW n, EventRead(f, n)
  PROVE  /\ Wanted(f)' = IF Cardinality(Openings(f))' > offset[f]
                           THEN Wanted(f) \union {n} ELSE Wanted(f)
         /\ n \notin Wanted(f) /\ n \notin Given(f) /\ n \notin Openings(f)
<1>1. \A k : k \in Wanted(f)' <=>
        \/ k \in Wanted(f)
        \/ k = n /\ Cardinality(Openings(f))' > offset[f]
  BY DEF EventRead, Wanted
<1>2. n \notin Wanted(f) /\ n \notin Openings(f)
  BY DEF Wanted, EventRead, Openings
<1>3. n \notin Given(f)
  BY GivenIsFinite, SpillsAreFinite DEF EventRead
<1>4. Wanted(f)' = IF Cardinality(Openings(f))' > offset[f]
                     THEN Wanted(f) \union {n} ELSE Wanted(f)
  <2>1. CASE Cardinality(Openings(f))' > offset[f]
    <3>1. Wanted(f)' = Wanted(f) \union {n}
      BY <1>1, <2>1
    <3>2. QED
      BY <2>1, <3>1
  <2>2. CASE ~(Cardinality(Openings(f))' > offset[f])
    <3>1. Wanted(f)' = Wanted(f)
      BY <1>1, <2>2
    <3>2. QED
      BY <2>2, <3>1
  <2>3. QED
    BY <2>1, <2>2
<1>5. QED
  BY <1>2, <1>3, <1>4

LEMMA LastEventIsRead ==
  ASSUME NEW f \in Files, NEW n, EventRead(f, n), spill_'[f] = data[f][n].spill
  PROVE  LastEventOf(f)'
<1>1. n \in SpillEvents(f)' /\ IsLast(f, n)' /\ spill_'[f] = data'[f][n].spill
  BY DEF EventRead
<1>2. QED
  BY <1>1 DEF LastEventOf

(* The first event of a spill that is skipped.                             *)
LEMMA EventIsSkipped ==
  ASSUME Typed, NEW f \in Files, PolarfireOf(f), NEW n, EventRead(f, n),
         data[f][n].spill # spill_[f], spills_to_skip_[f] > 0,
         spill_'[f] = data[f][n].spill, spills_to_skip_'[f] = spills_to_skip_[f] - 1,
         i_spill_'[f] = i_spill_[f], given' = given,
         asked' = {f}, keep_current_spill' = {FALSE}
  PROVE  PolarfireOf(f)' /\ Wanted(f)' = {} /\ offset[f] > 0
<1>1. /\ FilesTyped /\ spills_to_skip_[f] \in Nat /\ i_spill_[f] \in Nat /\ offset[f] \in Nat
      /\ spills_to_skip_[f] <= offset[f]
      /\ i_spill_[f] > 0 => spills_to_skip_[f] = 0
      /\ Cardinality(Openings(f)) = i_spill_[f] + offset[f] - spills_to_skip_[f]
  BY DEF Typed, PolarfireTyped, PolarfireOf, CountedOf
<1>2. i_spill_[f] = 0
  BY <1>1
<1>3. /\ Cardinality(Openings(f))' = Cardinality(Openings(f)) + 1
      /\ Openings(f)' = Openings(f) \union {n} /\ offset' = offset /\ data' = data
  BY DEF EventRead
<1>4. /\ Cardinality(Openings(f))' = i_spill_'[f] + offset[f] - spills_to_skip_'[f]
      /\ Cardinality(Openings(f)) <= offset[f]
      /\ ~(Cardinality(Openings(f))' > offset[f])
      /\ spills_to_skip_'[f] <= offset[f] /\ offset[f] > 0
  BY <1>1, <1>2, <1>3
<1>5. CountedOf(f)'
  BY <1>2, <1>3, <1>4 DEF CountedOf
<1>6. Wanted(f) = {}
  <2>1. ASSUME NEW k \in SpillEvents(f) PROVE ~(SpillOf(f, k) > offset[f])
    <3>1. /\ SpillOf(f, k) \in Nat /\ SpillOf(f, k) <= Cardinality(Openings(f))
          /\ Cardinality(Openings(f)) \in Nat
      BY <1>1, SpillsAreFinite
    <3>2. QED
      BY <1>1, <1>4, <3>1
  <2>2. QED
    BY <2>1 DEF Wanted
<1>7. Wanted(f)' = {}
  BY <1>1, <1>4, <1>6, WantedGrows
<1>8. DOMAIN given[f] = {} /\ Given(f) = {} /\ given'[f] = given[f]
  BY <1>6 DEF PolarfireOf, GivesWantedOf, Given
<1>9. Given(f)' = {} /\ DOMAIN given'[f] = {}
  BY <1>8 DEF Given
<1>10. /\ GivenSpillsOf(f)' /\ RiseOf(f)' /\ GivesWantedOf(f)'
       /\ LostOf(f)' /\ FirstsOf(f)' /\ RestOf(f)'
  BY <1>7, <1>9 DEF GivenSpillsOf, RiseOf, GivesWantedOf, LostOf, FirstsOf, RestOf
<1>11. SkipOf(f)'
  BY DEF SkipOf, SkipsIn
<1>12. LastEventOf(f)' /\ LastOpeningOf(f)'
  BY LastEventIsRead DEF EventRead
<1>13. QED
  BY <1>4, <1>5, <1>7, <1>10, <1>11, <1>12 DEF PolarfireOf

(* An event of a spill that is kept.                                       *)
LEMMA EventIsGiven ==
  ASSUME Typed, NEW f \in Files, next(f), PolarfireOf(f), NEW n, EventRead(f, n),
         NEW e, Gives(f, e), e.at = n, e.ts[1] = i_spill_'[f],
         spill_'[f] = data[f][n].spill, spills_to_skip_'[f] = 0,
         spills_to_skip_[f] = 0,
         i_spill_'[f] > 0,
         \/ data[f][n].spill # spill_[f] /\ i_spill_'[f] = i_spill_[f] + 1
         \/ data[f][n].spill = spill_[f] /\ i_spill_'[f] = i_spill_[f] /\ ~SkipsIn(f)
  PROVE  PolarfireOf(f)'
<1> DEFINE C == Cardinality(Openings(f))
<1>1. /\ FilesTyped /\ i_spill_[f] \in Nat /\ offset[f] \in Nat /\ i_spill_'[f] \in Nat
      /\ C = i_spill_[f] + offset[f] /\ C \in Nat
  BY SpillsAreFinite DEF Typed, PolarfireTyped, PolarfireOf, CountedOf
<1>2. /\ Cardinality(Openings(f))' = i_spill_'[f] + offset[f]
      /\ offset' = offset /\ data' = data /\ n \in Nat
  BY <1>1 DEF EventRead
<1>3. /\ Cardinality(Openings(f))' > offset[f] /\ Cardinality(Openings(f))' \in Nat
      /\ e.ts[1] = Cardinality(Openings(f))' - offset[f]
      /\ C <= Cardinality(Openings(f))'
  BY <1>1, <1>2
<1>4. /\ Wanted(f)' = Wanted(f) \union {n} /\ n \notin Wanted(f) /\ n \notin Given(f)
      /\ n \notin Openings(f)
  BY <1>1, <1>3, WantedGrows
<1>5. PICK m : m = Len(given[f])
  OBVIOUS
<1>6. /\ Given(f)' = Given(f) \union {n}
      /\ m \in Nat /\ DOMAIN given[f] = 1 .. m /\ DOMAIN given'[f] = 1 .. m + 1
      /\ \A i \in 1 .. m : given'[f][i] = given[f][i]
      /\ given'[f][m + 1] = e
  BY <1>1, <1>5, GivenGrows
<1>7. \A i : i \in 1 .. m + 1 <=> i \in 1 .. m \/ i = m + 1
  BY <1>6
<1>8. /\ Given(f) \subseteq Wanted(f) /\ Wanted(f) \subseteq SpillEvents(f)
      /\ \A i \in 1 .. m : /\ given[f][i].at \in Given(f)
                           /\ given[f][i].ts[1] = SpillOf(f, given[f][i].at) - offset[f]
  BY <1>6 DEF PolarfireOf, GivesWantedOf, Wanted, Given
<1>9. \A k \in SpillEvents(f) : /\ SpillOf(f, k)' = SpillOf(f, k) /\ k < n /\ k \in Nat
                                /\ SpillOf(f, k) \in Nat /\ SpillOf(f, k) <= C
  BY <1>1, SpillsAreFinite DEF EventRead
<1>10. \A i \in 1 .. m : /\ given[f][i].at \in SpillEvents(f)
                         /\ given[f][i].ts[1] \in Int /\ given[f][i].at < n
                         /\ given[f][i].ts[1] <= i_spill_[f]
                         /\ given[f][i].ts[1] = i_spill_[f] =>
                              data[f][given[f][i].at].spill = spill_[f]
  BY <1>1, <1>6, <1>8, <1>9 DEF PolarfireOf, GivenSpillsOf
<1>11. CountedOf(f)'
  <2>1. spills_to_skip_'[f] <= offset[f]
    BY <1>1
  <2>2. QED
    BY <1>1, <1>2, <2>1 DEF CountedOf
<1>12. \A i \in 1 .. m : /\ given[f][i].ts[1] <= i_spill_'[f]
                         /\ given[f][i].ts[1] = i_spill_'[f] =>
                              data[f][given[f][i].at].spill = data[f][n].spill
  BY <1>1, <1>10
<1>13. GivenSpillsOf(f)'
  <2>1. ASSUME NEW i \in 1 .. m + 1
        PROVE  /\ given'[f][i].ts[1] <= i_spill_'[f]
               /\ given'[f][i].ts[1] = i_spill_'[f] =>
                    data[f][given'[f][i].at].spill = data[f][n].spill
    <3>1. CASE i \in 1 .. m
      BY <1>6, <1>12, <3>1
    <3>2. CASE i = m + 1
      BY <1>1, <1>6, <3>2
    <3>3. QED
      BY <1>7, <3>1, <3>2
  <2>2. QED
    BY <1>2, <1>6, <2>1 DEF GivenSpillsOf
<1>14. RiseOf(f)'
  <2>1. ASSUME NEW j \in 1 .. m + 1, NEW i \in 1 .. j - 1
        PROVE  /\ given'[f][i].at < given'[f][j].at
               /\ given'[f][i].ts[1] <= given'[f][j].ts[1]
               /\ given'[f][i].ts[1] = given'[f][j].ts[1] =>
                    data[f][given'[f][i].at].spill = data[f][given'[f][j].at].spill
    <3>1. i \in 1 .. m
      BY <1>6
    <3>2. CASE j \in 1 .. m
      BY <1>6, <3>1, <3>2 DEF PolarfireOf, RiseOf
    <3>3. CASE j = m + 1
      BY <1>6, <1>10, <1>12, <3>1, <3>3
    <3>4. QED
      BY <1>7, <3>2, <3>3
  <2>2. QED
    BY <1>2, <1>6, <2>1 DEF RiseOf
<1>15. SpillOf(f, n)' = Cardinality(Openings(f))'
  BY DEF EventRead
<1>16. GivesWantedOf(f)'
  <2>1. Given(f)' \subseteq Wanted(f)'
    BY <1>4, <1>6, <1>8
  <2>2. ASSUME NEW i \in 1 .. m + 1
        PROVE  given'[f][i].ts[1] = SpillOf(f, given[f][i].at)' - offset[f]
    <3>1. CASE i \in 1 .. m
      <4>1. PICK k : k = given[f][i].at
        OBVIOUS
      <4>2. /\ k \in SpillEvents(f) /\ given'[f][i].at = k
            /\ given'[f][i].ts[1] = SpillOf(f, k) - offset[f]
        BY <1>6, <1>8, <1>10, <3>1, <4>1
      <4>3. SpillOf(f, given[f][i].at)' = SpillOf(f, k)'
        BY <4>2 DEF SpillOf
      <4>4. QED
        BY <1>9, <4>2, <4>3
    <3>2. CASE i = m + 1
      <4>1. given'[f][i].at = n /\ given'[f][i].ts[1] = e.ts[1]
        BY <1>6, <3>2
      <4>2. SpillOf(f, given[f][i].at)' = SpillOf(f, n)'
        BY <4>1 DEF SpillOf
      <4>3. QED
        BY <1>3, <1>15, <4>1, <4>2
    <3>3. QED
      BY <1>7, <3>1, <3>2
  <2>3. QED
    BY <1>2, <1>6, <2>1, <2>2 DEF GivesWantedOf
<1>17. ASSUME NEW k \in Wanted(f)', k \notin Given(f)'
       PROVE  /\ k \in Wanted(f) /\ k \notin Given(f) /\ k \in SpillEvents(f)
              /\ SpillOf(f, k)' = SpillOf(f, k)
              /\ SpillOf(f, k) # Cardinality(Openings(f))'
  <2>1. k \in Wanted(f) /\ k \notin Given(f) /\ k \in SpillEvents(f)
    BY <1>4, <1>6, <1>8, <1>17
  <2>2. CASE data[f][n].spill # spill_[f]
    <3>1. SpillOf(f, k) \in Nat /\ SpillOf(f, k) <= C /\ Cardinality(Openings(f))' = C + 1
      BY <1>9, <2>1, <2>2 DEF EventRead
    <3>2. QED
      BY <1>1, <1>9, <2>1, <3>1
  <2>3. CASE data[f][n].spill = spill_[f] /\ ~SkipsIn(f)
    <3>1. Cardinality(Openings(f))' = C /\ state[f] = "open"
      BY <2>3 DEF EventRead
    <3>2. SpillOf(f, k) # C
      BY <2>1, <2>3, <3>1 DEF PolarfireOf, RestOf
    <3>3. QED
      BY <1>9, <2>1, <3>1, <3>2
  <2>4. QED
    BY <2>2, <2>3
<1>18. LostOf(f)'
  <2>1. ASSUME NEW k \in Wanted(f)', k \notin Given(f)'
        PROVE  /\ OtherEndsSkipping(f)'
               /\ \E j \in Given(f)' : SpillOf(f, j)' = SpillOf(f, k)'
               /\ \A j \in Given(f)' : SpillOf(f, j)' = SpillOf(f, k)' => j < k
    <3>1. /\ k \in Wanted(f) /\ k \notin Given(f) /\ k \in SpillEvents(f)
          /\ SpillOf(f, k)' = SpillOf(f, k)
          /\ SpillOf(f, k) # Cardinality(Openings(f))'
      BY <1>17, <2>1
    <3>2. /\ OtherEndsSkipping(f)
          /\ \E j \in Given(f) : SpillOf(f, j) = SpillOf(f, k)
          /\ \A j \in Given(f) : SpillOf(f, j) = SpillOf(f, k) => j < k
      BY <3>1 DEF PolarfireOf, LostOf
    <3>3. \A j \in Given(f) : SpillOf(f, j)' = SpillOf(f, j)
      BY <1>8, <1>9
    <3>4. QED
      BY <1>6, <1>15, <3>1, <3>2, <3>3, OtherEndsStay
  <2>2. QED
    BY <2>1 DEF LostOf
<1>19. FirstsOf(f)'
  <2>1. Openings(f)' \subseteq Openings(f) \union {n}
    BY DEF EventRead
  <2>2. QED
    BY <1>4, <1>6, <2>1 DEF PolarfireOf, FirstsOf
<1>20. RestOf(f)'
  BY <1>17 DEF RestOf
<1>21. SkipOf(f)'
  BY <1>1 DEF SkipOf
<1>22. LastEventOf(f)' /\ LastOpeningOf(f)'
  BY LastEventIsRead DEF EventRead
<1>23. QED
  BY <1>11, <1>13, <1>14, <1>16, <1>18, <1>19, <1>20, <1>21, <1>22 DEF PolarfireOf

(* Why keep_current_spill is what it is.                                   *)
KeepIsExplained ==
  /\ keep_current_spill = {} => \A f \in OfClass("Polarfire") : SpillEvents(f) = {}
  /\ keep_current_spill = {FALSE} =>
       \E g \in OfClass("Polarfire") :
         offset[g] > 0 /\ Wanted(g) = {} /\ (asked = {g} \/ state[g] # "open")

(* An event that is not kept, though not the first of its spill.           *)
LEMMA EventIsLost ==
  ASSUME Typed, NEW f \in Files, next(f), PolarfireOf(f), KeepIsExplained,
         NEW n, EventRead(f, n),
         data[f][n].spill = spill_[f], data[f][n].spill \in Nat,
         UNCHANGED Counters, keep_current_spill = {FALSE},
         given' = given, asked' = {f}, keep_current_spill' = {FALSE}
  PROVE  PolarfireOf(f)' /\ (Wanted(f) = {} => Wanted(f)' = {})
<1> DEFINE C == Cardinality(Openings(f))
<1>1. /\ FilesTyped /\ offset[f] \in Nat /\ C \in Nat
      /\ spill_' = spill_ /\ i_spill_' = i_spill_ /\ spills_to_skip_' = spills_to_skip_
      /\ offset' = offset /\ data' = data /\ state' = state /\ n \in Nat
      /\ Openings(f)' = Openings(f) /\ Cardinality(Openings(f))' = C
  BY SpillsAreFinite DEF Typed, PolarfireTyped, Counters, EventRead
<1>2. /\ Wanted(f)' = IF C > offset[f] THEN Wanted(f) \union {n} ELSE Wanted(f)
      /\ n \notin Given(f) /\ n \notin Openings(f)
  BY <1>1, WantedGrows
<1>3. Given(f)' = Given(f)
  BY DEF Given
<1>4. \A k \in SpillEvents(f) : /\ SpillOf(f, k)' = SpillOf(f, k) /\ k < n /\ k \in Nat
                                /\ SpillOf(f, k) \in Nat /\ SpillOf(f, k) <= C
  BY <1>1, SpillsAreFinite DEF EventRead
<1>5. /\ Given(f) \subseteq Wanted(f) /\ Wanted(f) \subseteq SpillEvents(f)
      /\ Openings(f) \subseteq SpillEvents(f)
  BY <1>1, SpillsAreFinite DEF PolarfireOf, GivesWantedOf, Wanted
<1>6. SpillOf(f, n)' = C
  BY <1>1 DEF EventRead
<1>7. ASSUME C > offset[f]
      PROVE  \E o \in Openings(f) : o \in Wanted(f) /\ SpillOf(f, o) = C
  <2>1. Openings(f) # {}
    BY <1>1, <1>7, FS_EmptySet
  <2>2. PICK o \in Openings(f) : \A j \in Openings(f) : j <= o
    BY <2>1 DEF PolarfireOf, LastOpeningOf
  <2>3. SpillOf(f, o) = C
    BY <1>1, <2>2, SpillsAreFinite
  <2>4. QED
    BY <1>5, <1>7, <2>2, <2>3 DEF Wanted
<1>8. Wanted(f) = {} => Wanted(f)' = {}
  BY <1>2, <1>7
<1>9. CountedOf(f)' /\ LastOpeningOf(f)' /\ LastEventOf(f)'
  BY <1>1, LastEventIsRead DEF PolarfireOf, CountedOf, EventRead
<1>10. GivenSpillsOf(f)' /\ RiseOf(f)'
  BY <1>1 DEF PolarfireOf, GivenSpillsOf, RiseOf
<1>11. GivesWantedOf(f)'
  <2>1. \A i \in DOMAIN given[f] :
          SpillOf(f, given[f][i].at)' = SpillOf(f, given[f][i].at)
    <3>1. ASSUME NEW i \in DOMAIN given[f]
          PROVE  SpillOf(f, given[f][i].at)' = SpillOf(f, given[f][i].at)
      <4>1. PICK k : k = given[f][i].at
        OBVIOUS
      <4>2. k \in SpillEvents(f)
        BY <1>5, <4>1 DEF Given
      <4>3. SpillOf(f, given[f][i].at)' = SpillOf(f, k)'
        BY <4>1 DEF SpillOf
      <4>4. QED
        BY <1>4, <4>1, <4>2, <4>3
    <3>2. QED
      BY <3>1
  <2>2. Given(f)' \subseteq Wanted(f)'
    BY <1>2, <1>3, <1>5
  <2>3. QED
    BY <1>1, <2>1, <2>2 DEF PolarfireOf, GivesWantedOf
<1>12. C > offset[f] => OtherEndsSkipping(f)
  <2>1. ASSUME C > offset[f] PROVE OtherEndsSkipping(f)
    <3>1. PICK g \in OfClass("Polarfire") :
            offset[g] > 0 /\ Wanted(g) = {} /\ (asked = {g} \/ state[g] # "open")
      BY DEF KeepIsExplained
    <3>2. g # f
      BY <1>7, <2>1, <3>1
    <3>3. asked \subseteq {f} /\ state[g] # "thrown" /\ g \in Files
      BY <3>1, NextIsStep DEF StepOf, OfClass
    <3>4. state[g] = "done"
      BY <1>1, <3>1, <3>2, <3>3 DEF FilesTyped
    <3>5. QED
      BY <3>1, <3>2, <3>4 DEF OtherEndsSkipping
  <2>2. QED
    BY <2>1
<1>13. LostOf(f)'
  <2>1. ASSUME NEW k \in Wanted(f)', k \notin Given(f)'
        PROVE  /\ OtherEndsSkipping(f)'
               /\ \E j \in Given(f)' : SpillOf(f, j)' = SpillOf(f, k)'
               /\ \A j \in Given(f)' : SpillOf(f, j)' = SpillOf(f, k)' => j < k
    <3>1. \A j \in Given(f) : SpillOf(f, j)' = SpillOf(f, j)
      BY <1>4, <1>5
    <3>2. CASE k \in Wanted(f)
      <4>1. /\ OtherEndsSkipping(f)
            /\ \E j \in Given(f) : SpillOf(f, j) = SpillOf(f, k)
            /\ \A j \in Given(f) : SpillOf(f, j) = SpillOf(f, k) => j < k
        BY <1>3, <2>1, <3>2 DEF PolarfireOf, LostOf
      <4>2. SpillOf(f, k)' = SpillOf(f, k)
        BY <1>4, <1>5, <3>2
      <4>3. QED
        BY <1>3, <3>1, <4>1, <4>2, OtherEndsStay
    <3>3. CASE k = n /\ C > offset[f]
      <4>1. PICK o \in Openings(f) : o \in Wanted(f) /\ SpillOf(f, o) = C
        BY <1>7, <3>3
      <4>2. o \in Given(f)
        BY <4>1 DEF PolarfireOf, FirstsOf
      <4>3. \E j \in Given(f) : SpillOf(f, j)' = C
        BY <3>1, <4>1, <4>2
      <4>4. \A j \in Given(f) : j < k
        BY <1>4, <1>5, <3>3
      <4>5. QED
        BY <1>3, <1>6, <1>12, <3>3, <4>3, <4>4, OtherEndsStay
    <3>4. QED
      BY <1>2, <2>1, <3>2, <3>3
  <2>2. QED
    BY <2>1 DEF LostOf
<1>14. FirstsOf(f)'
  BY <1>1, <1>2, <1>3 DEF PolarfireOf, FirstsOf
<1>15. RestOf(f)' /\ SkipOf(f)'
  BY DEF RestOf, SkipOf, SkipsIn
<1>16. QED
  BY <1>8, <1>9, <1>10, <1>11, <1>13, <1>14, <1>15 DEF PolarfireOf

LEMMA KeepsCases ==
  ASSUME PolarfireTyped, NEW f \in Files
  PROVE  \/ Keeps(f) = TRUE /\ keep_current_spill # {FALSE}
         \/ Keeps(f) = FALSE /\ keep_current_spill = {} /\ spills_to_skip_[f] > 0
         \/ Keeps(f) = FALSE /\ keep_current_spill = {FALSE}
<1>1. \A b \in BOOLEAN : (b => b = TRUE) /\ (~b => b = FALSE)
  OBVIOUS
<1>2. CASE keep_current_spill = {}
  <2>1. Keeps(f) = (spills_to_skip_[f] <= 0)
    BY <1>2, Zenon DEF Keeps
  <2>2. (spills_to_skip_[f] <= 0) \in BOOLEAN
    OBVIOUS
  <2>3. spills_to_skip_[f] <= 0 \/ spills_to_skip_[f] > 0
    BY DEF PolarfireTyped
  <2>4. keep_current_spill # {FALSE}
    BY <1>2
  <2>5. Keeps(f) = TRUE \/ (Keeps(f) = FALSE /\ spills_to_skip_[f] > 0)
    <3>1. CASE spills_to_skip_[f] <= 0
      BY <1>1, <2>1, <2>2, <3>1, Zenon
    <3>2. CASE ~(spills_to_skip_[f] <= 0)
      <4>1. spills_to_skip_[f] > 0
        BY <2>3, <3>2
      <4>2. Keeps(f) = FALSE
        BY <1>1, <2>1, <2>2, <3>2, Zenon
      <4>3. QED
        BY <4>1, <4>2
    <3>3. QED
      BY <3>1, <3>2
  <2>6. QED
    BY <1>2, <2>4, <2>5
<1>3. CASE keep_current_spill # {}
  <2>1. Keeps(f) = (TRUE \in keep_current_spill)
    BY <1>3, Zenon DEF Keeps
  <2>2. (TRUE \in keep_current_spill) \in BOOLEAN
    OBVIOUS
  <2>3. CASE TRUE \in keep_current_spill
    <3>1. Keeps(f) = TRUE
      BY <1>1, <2>1, <2>2, <2>3, Zenon
    <3>2. keep_current_spill # {FALSE}
      BY <2>3
    <3>3. QED
      BY <3>1, <3>2
  <2>4. CASE ~(TRUE \in keep_current_spill)
    <3>1. Keeps(f) = FALSE
      BY <1>1, <2>1, <2>2, <2>4, Zenon
    <3>2. keep_current_spill = {FALSE}
      <4>1. \A b \in keep_current_spill : b = FALSE
        BY <2>4 DEF PolarfireTyped
      <4>2. QED
        BY <1>3, <4>1
    <3>3. QED
      BY <3>1, <3>2
  <2>5. QED
    BY <2>3, <2>4
<1>4. QED
  BY <1>2, <1>3

LEMMA OtherExplains ==
  ASSUME Typed, NEW f \in Files, next(f), NEW g \in OfClass("Polarfire"), g # f,
         offset[g] > 0, Wanted(g) = {}, asked = {g} \/ state[g] # "open"
  PROVE  /\ g \in OfClass("Polarfire")' /\ offset'[g] > 0 /\ Wanted(g)' = {}
         /\ state'[g] # "open"
<1>1. asked \subseteq {f} /\ g \in Files
  BY NextIsStep DEF StepOf, OfClass
<1>2. QED
  BY <1>1, OthersKeepSpills DEF OfClass

LEMMA KeepStaysExplained ==
  ASSUME Typed, NEW f \in Files, next(f), PolarfireOf(f), KeepIsExplained,
         class[f] = "Polarfire",
         \/ NoEvent(f)
         \/ /\ Wanted(f) = {} => Wanted(f)' = {}
            /\ asked' = {f} /\ keep_current_spill = {FALSE}
            /\ keep_current_spill' = {FALSE}
         \/ /\ Wanted(f)' = {} /\ offset[f] > 0 /\ asked' = {f}
            /\ keep_current_spill' = {FALSE}
         \/ keep_current_spill' = {TRUE}
  PROVE  KeepIsExplained'
<1>1. class' = class /\ data' = data /\ offset' = offset /\ f \in OfClass("Polarfire")'
  <2>1. class' = class /\ data' = data
    BY NextIsStep DEF StepOf
  <2>2. offset' = offset
    BY StepIsOfClass DEF PolarfireNext
  <2>3. QED
    BY <2>1, <2>2 DEF OfClass
<1>2. keep_current_spill' # {}
  BY DEF NoEvent
<1>3. CASE keep_current_spill' = {TRUE}
  BY <1>2, <1>3 DEF KeepIsExplained
<1>4. ASSUME Wanted(f) = {} => Wanted(f)' = {}, asked' = {f} \/ state'[f] # "open",
             keep_current_spill = {FALSE}
      PROVE  KeepIsExplained'
  <2>1. PICK g \in OfClass("Polarfire") :
          offset[g] > 0 /\ Wanted(g) = {} /\ (asked = {g} \/ state[g] # "open")
    BY <1>4 DEF KeepIsExplained
  <2>2. CASE g = f
    BY <1>1, <1>2, <1>4, <2>1, <2>2 DEF KeepIsExplained
  <2>3. CASE g # f
    BY <1>1, <1>2, <2>1, <2>3, OtherExplains DEF KeepIsExplained
  <2>4. QED
    BY <2>2, <2>3
<1>5. CASE NoEvent(f)
  <2>1. Wanted(f)' = Wanted(f) /\ SpillEvents(f)' = SpillEvents(f)
    BY <1>1, <1>5, SpillSetsStay DEF NoEvent
  <2>2. asked' = {f} \/ state'[f] # "open"
    BY <1>5 DEF NoEvent
  <2>3. CASE Keeps(f) = TRUE
    BY <1>3, <1>5, <2>3 DEF NoEvent
  <2>4. CASE keep_current_spill = {FALSE}
    BY <1>4, <2>1, <2>2, <2>4
  <2>5. CASE keep_current_spill = {} /\ spills_to_skip_[f] > 0
    <3>1. Wanted(f)' = {}
      BY <2>1, <2>5 DEF KeepIsExplained, OfClass, Wanted
    <3>2. offset[f] > 0
      BY <2>5 DEF PolarfireOf, CountedOf, Typed, PolarfireTyped
    <3>3. QED
      BY <1>1, <1>2, <2>2, <3>1, <3>2 DEF KeepIsExplained
  <2>6. QED
    BY <2>3, <2>4, <2>5, KeepsCases DEF Typed
<1>6. CASE /\ Wanted(f) = {} => Wanted(f)' = {}
           /\ asked' = {f} /\ keep_current_spill = {FALSE}
  BY <1>4, <1>6
<1>7. CASE Wanted(f)' = {} /\ offset[f] > 0 /\ asked' = {f}
  BY <1>1, <1>2, <1>7 DEF KeepIsExplained
<1>8. QED
  BY <1>3, <1>5, <1>6, <1>7

LEMMA NotInSpill ==
  ASSUME Typed, NEW f \in Files, data' = data,
         \/ pos'[f] = pos[f]
         \/ /\ pos'[f] = pos[f] + 1
            /\ ~(/\ data[f][pos[f] + 1].kind = "event"
                 /\ data[f][pos[f] + 1].ticks \in MinTick .. MaxTick)
  PROVE  SpillEvents(f)' = SpillEvents(f)
<1>1. pos[f] \in Nat
  BY DEF Typed, FilesTyped
<1>2. CASE pos'[f] = pos[f]
  BY <1>2 DEF SpillEvents
<1>3. CASE /\ pos'[f] = pos[f] + 1
           /\ ~(/\ data[f][pos[f] + 1].kind = "event"
                /\ data[f][pos[f] + 1].ticks \in MinTick .. MaxTick)
  <2>1. \A k : k \in 1 .. pos'[f] <=> k \in 1 .. pos[f] \/ k = pos[f] + 1
    BY <1>1, <1>3
  <2>2. QED
    BY <1>3, <2>1 DEF SpillEvents
<1>4. QED
  BY <1>2, <1>3

LEMMA EndHasNoEvent ==
  ASSUME Typed, NEW f \in Files, data' = data, AtEnd(f), ReadFails(f)
  PROVE  SpillEvents(f)' = SpillEvents(f)
<1>1. FilesTyped /\ pos'[f] = Len(data[f]) /\ pos[f] <= Len(data[f])
      /\ pos[f] \in Nat /\ Len(data[f]) \in Nat
  BY ReadsWithin DEF Typed
<1>2. CASE pos[f] < Len(data[f])
  <2>1. data[f][pos[f] + 1].kind = "cut" /\ pos[f] + 1 \in DOMAIN data[f]
    BY <1>1, <1>2, ItemIsOfClass DEF AtEnd, Item
  <2>2. pos[f] + 1 = Len(data[f])
    BY <1>1, <2>1 DEF FilesTyped, Contents, CutComesLast
  <2>3. QED
    BY <1>1, <2>1, <2>2, NotInSpill
<1>3. CASE ~(pos[f] < Len(data[f]))
  <2>1. pos'[f] = pos[f]
    BY <1>1, <1>3
  <2>2. QED
    BY <2>1, NotInSpill
<1>4. QED
  BY <1>2, <1>3

LEMMA EventIsRead ==
  ASSUME Typed, NEW f \in Files, PolarfireOf(f), PolarfireNext(f), PopEvent(f)
  PROVE  /\ EventRead(f, pos[f] + 1) /\ data[f][pos[f] + 1].spill \in Nat
         /\ Item(f) = data[f][pos[f] + 1]
<1>1. FilesTyped /\ PolarfireTyped
  BY DEF Typed
<1>2. PICK n : n = pos[f] + 1
  OBVIOUS
<1>3. /\ pos'[f] = n /\ n \in Nat /\ data[f][n] = Item(f) /\ pos[f] < Len(data[f])
      /\ data[f][n].kind = "event" /\ InSpill(data[f][n].ticks)
  BY <1>1, <1>2, ReadsWithin DEF PopEvent, Finds, Item
<1>4. class[f] = "Polarfire" /\ data' = data /\ offset' = offset /\ state[f] = "open"
  BY DEF PolarfireNext, IsAsked, Constant
<1>5. data[f][n].spill \in Nat /\ data[f][n].ticks \in Nat
  <2>1. data[f][n] \in PolarfireItem
    BY <1>1, <1>3, <1>4, ItemIsOfClass DEF ItemOf
  <2>2. QED
    BY <1>3, <2>1 DEF PolarfireItem
<1>6. data[f][n].ticks \in MinTick .. MaxTick
  BY <1>3, <1>5, TicksAssumption DEF InSpill
<1>7. state' = state
  BY DEF PopEvent, Gives, GoesOn
<1>8. LastEventOf(f) /\ LastOpeningOf(f)
  BY DEF PolarfireOf
<1>9. EventRead(f, n)
  <2>1. /\ SpillEvents(f)' = SpillEvents(f) \union {n} /\ n \notin SpillEvents(f)
        /\ IF data[f][n].spill # spill_[f]
             THEN /\ Openings(f)' = Openings(f) \union {n}
                  /\ Cardinality(Openings(f))' = Cardinality(Openings(f)) + 1
             ELSE /\ Openings(f)' = Openings(f)
                  /\ Cardinality(Openings(f))' = Cardinality(Openings(f))
        /\ \A k \in SpillEvents(f) : SpillOf(f, k)' = SpillOf(f, k)
        /\ SpillOf(f, n)' = Cardinality(Openings(f))'
        /\ LastOpeningOf(f)' /\ IsLast(f, n)'
    BY <1>1, <1>2, <1>3, <1>4, <1>5, <1>6, <1>8, EventOfSpill
  <2>2. QED
    BY <1>2, <1>3, <1>4, <1>7, <2>1 DEF EventRead
<1>10. QED
  BY <1>2, <1>3, <1>5, <1>9

LEMMA PolarfireKeeps ==
  ASSUME Typed, NEW f \in Files, next(f), PolarfireNext(f), PolarfireOf(f), KeepIsExplained
  PROVE  PolarfireOf(f)' /\ KeepIsExplained'
<1>1. /\ FilesTyped /\ PolarfireTyped /\ data' = data /\ class[f] = "Polarfire"
      /\ state[f] = "open"
  BY DEF Typed, PolarfireNext, Constant, IsAsked
<1>2. CASE PopWord(f) \/ PopFails(f) \/ PopThrows(f) \/ SkipInterSpill(f)
  <2>1. SpillEvents(f)' = SpillEvents(f)
    <3>1. CASE PopWord(f)
      <4>1. pos'[f] = pos[f] + 1 /\ data[f][pos[f] + 1].kind = "word"
        BY <1>1, <3>1, ReadsWithin DEF PopWord, Finds, Item
      <4>2. QED
        BY <1>1, <4>1, NotInSpill
    <3>2. CASE PopFails(f)
      BY <1>1, <3>2, EndHasNoEvent DEF PopFails
    <3>3. CASE PopThrows(f)
      <4>1. pos'[f] = pos[f] + 1 /\ data[f][pos[f] + 1].kind = "bad"
        BY <1>1, <3>3, ReadsWithin DEF PopThrows, Finds, Item
      <4>2. QED
        BY <1>1, <4>1, NotInSpill
    <3>4. CASE SkipInterSpill(f)
      <4>1. pos'[f] = pos[f] + 1 /\ ~InSpill(data[f][pos[f] + 1].ticks)
            /\ data[f][pos[f] + 1].kind = "event" /\ pos[f] < Len(data[f])
        BY <1>1, <3>4, ReadsWithin DEF SkipInterSpill, Finds, Item
      <4>2. data[f][pos[f] + 1] \in PolarfireItem
        BY <1>1, <4>1, ItemIsOfClass DEF ItemOf, Item
      <4>3. data[f][pos[f] + 1].ticks \in Nat
        BY <4>1, <4>2 DEF PolarfireItem
      <4>4. data[f][pos[f] + 1].ticks \notin MinTick .. MaxTick
        BY <4>1, <4>3, TicksAssumption DEF InSpill
      <4>5. QED
        BY <1>1, <4>1, <4>4, NotInSpill
    <3>5. QED
      BY <1>2, <3>1, <3>2, <3>3, <3>4
  <2>2. UNCHANGED Counters /\ keep_current_spill' = {Keeps(f)} /\ given' = given
    BY <1>2 DEF PopWord, PopFails, PopThrows, SkipInterSpill, GoesOn, GivesNothing, Throws
  <2>3. (asked' = {f} /\ state' = state) \/ state'[f] # "open"
    BY <1>1, <1>2 DEF PopWord, PopFails, PopThrows, SkipInterSpill, GoesOn, GivesNothing,
                      Throws, FilesTyped
  <2>4. NoEvent(f)
    BY <2>1, <2>2, <2>3 DEF NoEvent
  <2>5. QED
    BY <1>1, <2>4, NoEventKeeps, KeepStaysExplained
<1>3. CASE PopEvent(f)
  <2> DEFINE p == [at |-> pos[f] + 1, ts |-> <<i_spill_'[f], Item(f).ticks>>]
  <2>1. PICK n : n = pos[f] + 1
    OBVIOUS
  <2>2. EventRead(f, n) /\ data[f][n].spill \in Nat /\ Item(f) = data[f][n]
    BY <1>3, <2>1, EventIsRead
  <2>3. PICK e : e = p
    OBVIOUS
  <2>4. e.at = n /\ e.ts[1] = i_spill_'[f]
    BY <2>1, <2>3
  <2>5. /\ spills_to_skip_[f] \in Nat /\ i_spill_[f] \in Nat
        /\ i_spill_[f] > 0 => spills_to_skip_[f] = 0
    BY <1>1 DEF PolarfireTyped, PolarfireOf, CountedOf
  <2>6. CASE data[f][n].spill # spill_[f]
    <3>1. NewSpill(f) /\ spill_'[f] = data[f][n].spill
      BY <1>1, <1>3, <2>2, <2>6 DEF PopEvent, IsNewSpill, NewSpill, PolarfireTyped
    <3>2. CASE spills_to_skip_[f] > 0
      <4>1. /\ spills_to_skip_'[f] = spills_to_skip_[f] - 1 /\ i_spill_'[f] = i_spill_[f]
            /\ keep_current_spill' = {FALSE}
        <5>1. keep_current_spill' = {FALSE}
          <6>1. \A b \in BOOLEAN : ~b => b = FALSE
            OBVIOUS
          <6>2. (~IsSkipped(f)) \in BOOLEAN /\ IsSkipped(f)
            BY <3>2 DEF IsSkipped
          <6>3. (~IsSkipped(f)) = FALSE
            BY <6>1, <6>2, Zenon
          <6>4. QED
            BY <3>1, <6>3, Zenon DEF NewSpill
        <5>2. QED
          BY <1>1, <3>1, <3>2, <5>1 DEF NewSpill, IsSkipped, PolarfireTyped
      <4>2. ~(TRUE \in keep_current_spill')
        BY <4>1
      <4>3. given' = given /\ asked' = {f}
        BY <1>3, <4>2 DEF PopEvent, GoesOn
      <4>4. PolarfireOf(f)' /\ Wanted(f)' = {} /\ offset[f] > 0
        BY <2>2, <2>6, <3>1, <3>2, <4>1, <4>3, EventIsSkipped
      <4>5. QED
        BY <1>1, <4>1, <4>3, <4>4, KeepStaysExplained
    <3>3. CASE ~(spills_to_skip_[f] > 0)
      <4>1. /\ spills_to_skip_[f] = 0 /\ spills_to_skip_'[f] = 0
            /\ i_spill_'[f] = i_spill_[f] + 1 /\ i_spill_'[f] > 0
        BY <1>1, <2>5, <3>1, <3>3 DEF NewSpill, IsSkipped, PolarfireTyped
      <4>2. keep_current_spill' = {TRUE}
        <5>1. \A b \in BOOLEAN : b => b = TRUE
          OBVIOUS
        <5>2. (~IsSkipped(f)) \in BOOLEAN /\ ~IsSkipped(f)
          BY <3>3 DEF IsSkipped
        <5>3. (~IsSkipped(f)) = TRUE
          BY <5>1, <5>2, Zenon
        <5>4. QED
          BY <3>1, <5>3, Zenon DEF NewSpill
      <4>3. TRUE \in keep_current_spill'
        BY <4>2
      <4>4. Gives(f, e)
        BY <1>3, <2>3, <4>3 DEF PopEvent
      <4>5. PolarfireOf(f)'
        BY <2>2, <2>4, <2>6, <3>1, <4>1, <4>4, EventIsGiven
      <4>6. QED
        BY <1>1, <4>2, <4>5, KeepStaysExplained
    <3>4. QED
      BY <3>2, <3>3
  <2>7. CASE data[f][n].spill = spill_[f]
    <3>1. keep_current_spill' = {Keeps(f)} /\ UNCHANGED Counters
      BY <1>3, <2>2, <2>7 DEF PopEvent, IsNewSpill
    <3>2. SpillEvents(f) # {}
      <4>1. data[f][n].spill # -1
        BY <2>2
      <4>2. QED
        BY <2>7, <4>1 DEF PolarfireOf, LastEventOf
    <3>3. CASE Keeps(f) = TRUE /\ keep_current_spill # {FALSE}
      <4>1. ~SkipsIn(f)
        BY <3>3 DEF SkipsIn
      <4>2. i_spill_[f] > 0
        BY <1>1, <2>5, <3>2, <4>1 DEF PolarfireOf, SkipOf
      <4>3. /\ spills_to_skip_[f] = 0 /\ spills_to_skip_'[f] = 0
            /\ i_spill_'[f] = i_spill_[f] /\ i_spill_'[f] > 0
            /\ spill_'[f] = data[f][n].spill
        BY <2>5, <2>7, <3>1, <4>2 DEF Counters
      <4>4. keep_current_spill' = {TRUE} /\ TRUE \in keep_current_spill'
        BY <3>1, <3>3, Zenon
      <4>5. Gives(f, e)
        BY <1>3, <2>3, <4>4 DEF PopEvent
      <4>6. PolarfireOf(f)'
        BY <2>2, <2>4, <2>7, <4>1, <4>3, <4>5, EventIsGiven
      <4>7. QED
        BY <1>1, <4>4, <4>6, KeepStaysExplained
    <3>4. CASE Keeps(f) = FALSE /\ keep_current_spill = {} /\ spills_to_skip_[f] > 0
      BY <1>1, <3>2, <3>4 DEF KeepIsExplained, OfClass
    <3>5. CASE Keeps(f) = FALSE /\ keep_current_spill = {FALSE}
      <4>1. keep_current_spill' = {FALSE}
        BY <3>1, <3>5, Zenon
      <4>2. ~(TRUE \in keep_current_spill')
        BY <4>1
      <4>3. given' = given /\ asked' = {f}
        BY <1>3, <4>2 DEF PopEvent, GoesOn
      <4>4. PolarfireOf(f)' /\ (Wanted(f) = {} => Wanted(f)' = {})
        BY <2>2, <2>7, <3>1, <3>5, <4>1, <4>3, EventIsLost
      <4>5. QED
        BY <1>1, <3>5, <4>1, <4>3, <4>4, KeepStaysExplained
    <3>6. QED
      BY <1>1, <3>3, <3>4, <3>5, KeepsCases
  <2>8. QED
    BY <2>6, <2>7
<1>4. QED
  BY <1>2, <1>3 DEF PolarfireNext

-----------------------------------------------------------------------------
(* The two fibers.  Every word that next() works on is the same, so that   *)
(* what is kept of it is cut into parts that are shorter than a sample, or *)
(* is one part of an even number of bytes: no sample is made of it.  The   *)
(* loops are folds, which are reached in steps: each of them is proved by  *)
(* induction over how far it has come.                                     *)
(* The largest of some numbers up to n.                                    *)
LEMMA MostOf ==
  ASSUME NEW n \in Nat, NEW S \in SUBSET (1 .. n), S # {}
  PROVE  Max(S) \in S /\ \A k \in S : k <= Max(S)
<1> DEFINE U == {m \in 0 .. n : \A k \in S : k <= m}
<1>1. n \in U /\ U \in SUBSET (0 .. n)
  OBVIOUS
<1>2. PICK m \in U : \A j \in U : m <= j
  <2> HIDE DEF U
  <2>1. QED
    BY <1>1, LeastOfPositions
<1>3. m \in S
  <2>1. SUFFICES ASSUME m \notin S PROVE FALSE
    OBVIOUS
  <2>2. \A k \in S : k <= m - 1
    BY <1>2, <2>1
  <2>3. PICK k \in S : k \in 1 .. n
    OBVIOUS
  <2>4. m - 1 \in 0 .. n
    BY <1>2, <2>2, <2>3
  <2>5. m - 1 \in U
    BY <2>2, <2>4
  <2>6. QED
    BY <1>2, <2>5
<1>4. QED
  BY <1>2, <1>3 DEF Max

(* Induction up to n.                                                      *)
LEMMA Induct ==
  ASSUME NEW n \in Nat, NEW T, 0 \in T, \A k \in 1 .. n : k - 1 \in T => k \in T
  PROVE  n \in T
<1> DEFINE Bad == {k \in 0 .. n : k \notin T}
<1>1. SUFFICES ASSUME Bad # {} PROVE FALSE
  <2>1. n \in 0 .. n
    OBVIOUS
  <2>2. Bad = {}
    <3> HIDE DEF Bad
    <3>1. QED
      BY <1>1
  <2>3. QED
    BY <2>1, <2>2
<1>2. Bad \in SUBSET (0 .. n)
  OBVIOUS
<1>3. PICK k \in Bad : \A m \in Bad : k <= m
  <2> HIDE DEF Bad
  <2>1. QED
    BY <1>1, <1>2, LeastOfPositions
<1>4. k \in 1 .. n /\ k - 1 \in 0 .. n /\ k \notin T
  BY <1>3
<1>5. k - 1 \notin Bad
  <2> HIDE DEF Bad
  <2>1. QED
    BY <1>3, <1>4
<1>6. QED
  BY <1>4, <1>5

(* h folds G over the numbers up to n, the largest last.                   *)
IsFold(h, V, base, n, G) ==
  /\ h \in [SUBSET (1 .. n) -> V]
  /\ \A s \in SUBSET (1 .. n) :
       h[s] = IF s = {} THEN base ELSE G[<<Max(s), h[s \ {Max(s)}]>>]

LEMMA FoldExists ==
  ASSUME NEW V, NEW base \in V, NEW n \in Nat, NEW G \in [(1 .. n) \X V -> V]
  PROVE  \E h : IsFold(h, V, base, n, G)
<1> USE DEF IsFold
<1> DEFINE Is(m, h) == IsFold(h, V, base, m, G)
           T == {m \in 0 .. n : \E h : Is(m, h)}
<1>1. 0 \in T
  <2>1. SUBSET (1 .. 0) = {{}} /\ 0 \in 0 .. n
    OBVIOUS
  <2>2. Is(0, [s \in {{}} |-> base])
    BY <2>1
  <2>3. QED
    BY <2>1, <2>2
<1>2. ASSUME NEW m \in 1 .. n, m - 1 \in T PROVE m \in T
  <2>1. PICK l \in 0 .. n : m = l + 1 /\ l \in Nat /\ l = m - 1
    OBVIOUS
  <2>2. PICK h : Is(l, h)
    <3> HIDE DEF Is
    <3>1. QED
      BY <1>2, <2>1
  <2> DEFINE D == SUBSET (1 .. m)
             g == [s \in D |-> IF m \in s THEN G[<<m, h[s \ {m}]>>] ELSE h[s]]
  <2>3. ASSUME NEW s \in D, m \in s PROVE Max(s) = m /\ s \ {m} \in SUBSET (1 .. l) /\ m \notin s \ {m} /\ s \ {m} \in D
    <3>1. s \in SUBSET (1 .. m) /\ s # {} /\ m \in Nat
      BY <2>3
    <3>2. Max(s) \in s /\ \A k \in s : k <= Max(s)
      BY <3>1, MostOf
    <3>3. PICK x \in 1 .. m : x = Max(s)
      BY <3>1, <3>2
    <3>6. m <= x
      BY <2>3, <3>2, <3>3
    <3>7. Max(s) = m
      BY <3>3, <3>6
    <3>4. s \ {m} \in SUBSET (1 .. l)
      BY <2>1, <3>1
    <3>5. QED
      BY <3>7, <3>4
  <2>4. ASSUME NEW s \in D, m \notin s PROVE s \in SUBSET (1 .. l)
    BY <2>1, <2>4
  <2>5. g \in [D -> V]
    <3>1. ASSUME NEW s \in D PROVE (IF m \in s THEN G[<<m, h[s \ {m}]>>] ELSE h[s]) \in V
      <4>1. CASE m \in s
        <5>1. h[s \ {m}] \in V
          BY <2>2, <2>3, <4>1
        <5>3. G[<<m, h[s \ {m}]>>] \in V
          BY <5>1
        <5>4. QED
          BY <4>1, <5>3
      <4>2. CASE m \notin s
        BY <2>2, <2>4, <4>2
      <4>3. QED
        BY <4>1, <4>2
    <3>2. QED
      BY <3>1
  <2>6. ASSUME NEW s \in D
        PROVE  g[s] = IF s = {} THEN base ELSE G[<<Max(s), g[s \ {Max(s)}]>>]
    <3>1. CASE m \in s
      <4>1. g[s \ {m}] = h[s \ {m}]
        BY <2>3, <3>1
      <4>2. QED
        BY <2>3, <3>1, <4>1
    <3>2. CASE m \notin s /\ s # {}
      <4>1. s \in SUBSET (1 .. l) /\ g[s] = h[s]
        BY <2>4, <3>2
      <4>2. Max(s) \in s
        BY <2>1, <3>2, <4>1, MostOf
      <4>3. h[s] = G[<<Max(s), h[s \ {Max(s)}]>>]
        BY <2>2, <3>2, <4>1
      <4>4. s \ {Max(s)} \in D /\ m \notin s \ {Max(s)}
        BY <3>2
      <4>5. g[s \ {Max(s)}] = h[s \ {Max(s)}]
        BY <4>4
      <4>6. QED
        BY <3>2, <4>1, <4>3, <4>5
    <3>3. CASE s = {}
      <4>1. g[s] = h[s] /\ s \in SUBSET (1 .. l)
        BY <3>3
      <4>2. QED
        BY <2>2, <3>3, <4>1
    <3>4. QED
      BY <3>1, <3>2, <3>3
  <2>8. Is(m, g)
    BY <2>5, <2>6
  <2>7. QED
    <3> HIDE DEF Is, g
    <3>1. QED
      BY <2>8
<1>3. n \in T
  <2> HIDE DEF T
  <2>1. QED
    BY <1>1, <1>2, Induct
<1>4. QED
  BY <1>3

(* The numbers up to k, without the largest.                               *)
LEMMA StepsOf ==
  ASSUME NEW n \in Nat, NEW k \in 1 .. n
  PROVE  /\ 1 .. k \in SUBSET (1 .. n) /\ 1 .. k # {} /\ Max(1 .. k) = k
         /\ (1 .. k) \ {k} = 1 .. (k - 1)
<1>1. 1 .. k \in SUBSET (1 .. n) /\ k \in 1 .. k /\ k \in Nat
  OBVIOUS
<1>2. Max(1 .. k) \in 1 .. k /\ \A j \in 1 .. k : j <= Max(1 .. k)
  BY <1>1, MostOf
<1>3. PICK x \in 1 .. k : x = Max(1 .. k)
  BY <1>2
<1>4. k <= x
  BY <1>1, <1>2, <1>3
<1>5. Max(1 .. k) = k
  BY <1>3, <1>4
<1>6. (1 .. k) \ {k} = 1 .. (k - 1)
  OBVIOUS
<1>7. QED
  BY <1>1, <1>5, <1>6

LEMMA TakeByteTyped ==
  ASSUME NEW B, NEW parts \in Seq(Seq(B)), parts # << >>, NEW byte \in B
  PROVE  TakeByte(parts, byte) \in Seq(Seq(B)) /\ TakeByte(parts, byte) # << >>
<1>1. CASE byte = 188
  <2>1. << >> \in Seq(B)
    OBVIOUS
  <2>2. QED
    BY <1>1, <2>1 DEF TakeByte
<1>2. CASE byte # 188
  <2>1. Append(parts[Len(parts)], byte) \in Seq(B)
    OBVIOUS
  <2>2. PICK p \in Seq(B) : p = Append(parts[Len(parts)], byte)
    BY <2>1
  <2>3. PICK m \in Nat \ {0} : m = Len(parts)
    OBVIOUS
  <2>4. TakeByte(parts, byte) = [i \in 1 .. m |-> IF i = m THEN p ELSE parts[i]]
    <3>1. TakeByte(parts, byte) = [parts EXCEPT ![m] = p]
      BY <1>2, <2>2, <2>3, Zenon DEF TakeByte
    <3>2. parts = [i \in 1 .. m |-> parts[i]]
      BY <2>3
    <3>3. [parts EXCEPT ![m] = p] = [i \in 1 .. m |-> IF i = m THEN p ELSE parts[i]]
      BY <3>2
    <3>4. QED
      BY <3>1, <3>3
  <2>5. [i \in 1 .. m |-> IF i = m THEN p ELSE parts[i]] \in Seq(Seq(B))
    BY <2>3
  <2>6. Len([i \in 1 .. m |-> IF i = m THEN p ELSE parts[i]]) = m
    BY <2>3
  <2>7. QED
    BY <2>3, <2>4, <2>5, <2>6
<1>3. QED
  BY <1>1, <1>2

LEMMA SplitSteps ==
  ASSUME NEW n \in Nat, NEW halves, DOMAIN halves = 1 .. n,
         \A i \in 1 .. n : halves[i] \in Nat \X Nat
  PROVE  \E r : /\ r[0] = << << >> >>
                /\ \A k \in 1 .. n : r[k] = TakeHalf(r[k - 1], halves[k])
                /\ Split(halves) = r[n]
<1> DEFINE V == Seq(Seq(Nat)) \ {<< >>}
           G == [x \in (1 .. n) \X V |-> TakeHalf(x[2], halves[x[1]])]
           D == SUBSET (1 .. n)
           Is(f) == f = [s \in SUBSET (1 .. n) |->
                           IF s = {} THEN << << >> >>
                           ELSE TakeHalf(f[s \ {Max(s)}], halves[Max(s)])]
           r(f) == [k \in 0 .. n |-> f[1 .. k]]
<1>1. Split(halves) = (CHOOSE f : Is(f))[1 .. n]
  BY DEF Split, FoldLeft, MapThenFoldSet
<1>2. \E f : Is(f)
  <2>1. << << >> >> \in V
    <3>1. << >> \in Seq(Nat)
      OBVIOUS
    <3>2. QED
      BY <3>1
  <2>6. ASSUME NEW v \in V, NEW i \in 1 .. n PROVE TakeHalf(v, halves[i]) \in V
    <3>1. halves[i][1] \in Nat /\ halves[i][2] \in Nat
      OBVIOUS
    <3>2. QED
      BY <3>1, TakeByteTyped, Zenon DEF TakeHalf
  <2>7. G \in [(1 .. n) \X V -> V]
    <3> HIDE DEF V
    <3>1. QED
      BY <2>6
  <2>8. PICK b \in V : b = << << >> >>
    BY <2>1
  <2>2. PICK h \in [D -> V] :
           \A s \in D : h[s] = IF s = {} THEN b ELSE G[<<Max(s), h[s \ {Max(s)}]>>]
    <3>1. \E h : IsFold(h, V, b, n, G)
      <4> HIDE DEF V, G
      <4>1. QED
        BY <2>7, FoldExists
    <3>2. QED
      <4> HIDE DEF V, G
      <4>1. QED
        BY <3>1 DEF IsFold
  <2>3. ASSUME NEW s \in D, s # {}
        PROVE  G[<<Max(s), h[s \ {Max(s)}]>>] = TakeHalf(h[s \ {Max(s)}], halves[Max(s)])
    <3>1. Max(s) \in 1 .. n
      BY <2>1, <2>3, MostOf
    <3>2. h[s \ {Max(s)}] \in V
      <4> HIDE DEF V
      <4>1. QED
        BY <2>2
    <3>3. QED
      <4> HIDE DEF V
      <4>1. QED
        BY <3>1, <3>2
  <2>4. Is(h)
    <3> HIDE DEF G, V
    <3>1. QED
      BY <2>2, <2>3, <2>8
  <2>5. QED
    BY <2>4
<1>3. PICK f : Is(f) /\ Split(halves) = f[1 .. n]
  <2> HIDE DEF Is
  <2>1. QED
    BY <1>1, <1>2
<1>4. r(f)[0] = << << >> >>
  <2>1. {} \in SUBSET (1 .. n) /\ 1 .. 0 = {}
    OBVIOUS
  <2>2. f[{}] = << << >> >>
    BY <1>3, <2>1
  <2>3. QED
    BY <2>1, <2>2
<1>5. ASSUME NEW k \in 1 .. n PROVE r(f)[k] = TakeHalf(r(f)[k - 1], halves[k])
  <2>1. /\ 1 .. k \in SUBSET (1 .. n) /\ 1 .. k # {} /\ Max(1 .. k) = k
        /\ (1 .. k) \ {k} = 1 .. (k - 1)
    BY StepsOf, Zenon
  <2>2. r(f)[k] = f[1 .. k] /\ r(f)[k - 1] = f[1 .. (k - 1)]
    BY DEF r
  <2>3. f[1 .. k] = TakeHalf(f[(1 .. k) \ {k}], halves[k])
    BY <1>3, <2>1
  <2>4. QED
    BY <2>1, <2>2, <2>3
<1>6. QED
  <2>1. r(f)[n] = f[1 .. n]
    OBVIOUS
  <2> HIDE DEF r, Is
  <2>2. QED
    BY <1>3, <1>4, <1>5, <2>1

LEMMA CleanSteps ==
  ASSUME NEW n \in Nat, NEW w,
         NEW lo, NEW hi, lo = <<w[3], w[4]>>, hi = <<w[1], w[2]>>
  PROVE  \E r : /\ r[0] = << >>
                /\ \A k \in 1 .. n : r[k] = Clean(r[k - 1], w)
                /\ Cleaned([i \in 1 .. n |-> w]) = r[n]
<1> DEFINE V == Seq({lo, hi})
           G == [x \in (1 .. n) \X V |-> Clean(x[2], w)]
           D == SUBSET (1 .. n)
           column == [i \in 1 .. n |-> w]
           Is(f) == f = [s \in SUBSET (1 .. n) |->
                           IF s = {} THEN << >>
                           ELSE Clean(f[s \ {Max(s)}], column[Max(s)])]
           r(f) == [k \in 0 .. n |-> f[1 .. k]]
<1>1. Cleaned(column) = (CHOOSE f : Is(f))[1 .. n]
  <2>1. DOMAIN column = 1 .. n
    OBVIOUS
  <2> HIDE DEF column
  <2>2. QED
    BY <2>1 DEF Cleaned, FoldLeft, MapThenFoldSet
<1>2. \E f : Is(f)
  <2>1. << >> \in V
    OBVIOUS
  <2>6. ASSUME NEW v \in V PROVE Clean(v, w) \in V
    BY DEF Clean, KeepHalf
  <2>7. G \in [(1 .. n) \X V -> V]
    <3> HIDE DEF V
    <3>1. QED
      BY <2>6
  <2>8. PICK b \in V : b = << >>
    BY <2>1
  <2>2. PICK h \in [D -> V] :
           \A s \in D : h[s] = IF s = {} THEN b ELSE G[<<Max(s), h[s \ {Max(s)}]>>]
    <3>1. \E h : IsFold(h, V, b, n, G)
      <4> HIDE DEF V, G
      <4>1. QED
        BY <2>7, FoldExists
    <3>2. QED
      <4> HIDE DEF V, G
      <4>1. QED
        BY <3>1 DEF IsFold
  <2>3. ASSUME NEW s \in D, s # {}
        PROVE  G[<<Max(s), h[s \ {Max(s)}]>>] = Clean(h[s \ {Max(s)}], column[Max(s)])
    <3>1. Max(s) \in 1 .. n
      BY <2>1, <2>3, MostOf
    <3>2. h[s \ {Max(s)}] \in V
      <4> HIDE DEF V
      <4>1. QED
        BY <2>2
    <3>3. QED
      <4> HIDE DEF V
      <4>1. QED
        BY <3>1, <3>2
  <2>4. Is(h)
    <3> HIDE DEF G, V, column
    <3>1. QED
      BY <2>2, <2>3, <2>8
  <2>5. QED
    BY <2>4
<1>3. PICK f : Is(f) /\ Cleaned(column) = f[1 .. n]
  <2> HIDE DEF Is
  <2>1. QED
    BY <1>1, <1>2
<1>4. r(f)[0] = << >>
  <2>1. {} \in SUBSET (1 .. n) /\ 1 .. 0 = {}
    OBVIOUS
  <2>2. f[{}] = << >>
    BY <1>3, <2>1
  <2>3. QED
    BY <2>1, <2>2
<1>5. ASSUME NEW k \in 1 .. n PROVE r(f)[k] = Clean(r(f)[k - 1], w)
  <2>1. /\ 1 .. k \in SUBSET (1 .. n) /\ 1 .. k # {} /\ Max(1 .. k) = k
        /\ (1 .. k) \ {k} = 1 .. (k - 1)
    BY StepsOf, Zenon
  <2>2. r(f)[k] = f[1 .. k] /\ r(f)[k - 1] = f[1 .. (k - 1)]
    BY DEF r
  <2>3. f[1 .. k] = Clean(f[(1 .. k) \ {k}], w)
    BY <1>3, <2>1
  <2>4. QED
    BY <2>1, <2>2, <2>3
<1>6. QED
  <2>1. r(f)[n] = f[1 .. n]
    OBVIOUS
  <2> HIDE DEF r, Is
  <2>2. QED
    BY <1>3, <1>4, <1>5, <2>1
LEMMA SampleSteps ==
  ASSUME NEW n \in Nat, NEW parts, DOMAIN parts = 1 .. n
  PROVE  \E r : /\ r[0] = << >>
                /\ \A k \in 1 .. n : r[k] = KeepSample(r[k - 1], parts[k])
                /\ FoldLeft(KeepSample, << >>, parts) = r[n]
<1> DEFINE V == Seq({parts[i] : i \in 1 .. n})
           G == [x \in (1 .. n) \X V |-> KeepSample(x[2], parts[x[1]])]
           D == SUBSET (1 .. n)
           Is(f) == f = [s \in SUBSET (1 .. n) |->
                           IF s = {} THEN << >>
                           ELSE KeepSample(f[s \ {Max(s)}], parts[Max(s)])]
           r(f) == [k \in 0 .. n |-> f[1 .. k]]
<1>1. FoldLeft(KeepSample, << >>, parts) = (CHOOSE f : Is(f))[1 .. n]
  BY DEF FoldLeft, MapThenFoldSet
<1>2. \E f : Is(f)
  <2>1. << >> \in V
    OBVIOUS
  <2>6. ASSUME NEW v \in V, NEW i \in 1 .. n PROVE KeepSample(v, parts[i]) \in V
    BY DEF KeepSample
  <2>7. G \in [(1 .. n) \X V -> V]
    <3> HIDE DEF V
    <3>1. QED
      BY <2>6
  <2>8. PICK b \in V : b = << >>
    BY <2>1
  <2>2. PICK h \in [D -> V] :
           \A s \in D : h[s] = IF s = {} THEN b ELSE G[<<Max(s), h[s \ {Max(s)}]>>]
    <3>1. \E h : IsFold(h, V, b, n, G)
      <4> HIDE DEF V, G
      <4>1. QED
        BY <2>7, FoldExists
    <3>2. QED
      <4> HIDE DEF V, G
      <4>1. QED
        BY <3>1 DEF IsFold
  <2>3. ASSUME NEW s \in D, s # {}
        PROVE  G[<<Max(s), h[s \ {Max(s)}]>>] = KeepSample(h[s \ {Max(s)}], parts[Max(s)])
    <3>1. Max(s) \in 1 .. n
      BY <2>1, <2>3, MostOf
    <3>2. h[s \ {Max(s)}] \in V
      <4> HIDE DEF V
      <4>1. QED
        BY <2>2
    <3>3. QED
      <4> HIDE DEF V
      <4>1. QED
        BY <3>1, <3>2
  <2>4. Is(h)
    <3> HIDE DEF G, V
    <3>1. QED
      BY <2>2, <2>3, <2>8
  <2>5. QED
    BY <2>4
<1>3. PICK f : Is(f) /\ FoldLeft(KeepSample, << >>, parts) = f[1 .. n]
  <2> HIDE DEF Is
  <2>1. QED
    BY <1>1, <1>2
<1>4. r(f)[0] = << >>
  <2>1. {} \in SUBSET (1 .. n) /\ 1 .. 0 = {}
    OBVIOUS
  <2>2. f[{}] = << >>
    BY <1>3, <2>1
  <2>3. QED
    BY <2>1, <2>2
<1>5. ASSUME NEW k \in 1 .. n PROVE r(f)[k] = KeepSample(r(f)[k - 1], parts[k])
  <2>1. /\ 1 .. k \in SUBSET (1 .. n) /\ 1 .. k # {} /\ Max(1 .. k) = k
        /\ (1 .. k) \ {k} = 1 .. (k - 1)
    BY StepsOf, Zenon
  <2>2. r(f)[k] = f[1 .. k] /\ r(f)[k - 1] = f[1 .. (k - 1)]
    BY DEF r
  <2>3. f[1 .. k] = KeepSample(f[(1 .. k) \ {k}], parts[k])
    BY <1>3, <2>1
  <2>4. QED
    BY <2>1, <2>2, <2>3
<1>6. QED
  <2>1. r(f)[n] = f[1 .. n]
    OBVIOUS
  <2> HIDE DEF r, Is
  <2>2. QED
    BY <1>3, <1>4, <1>5, <2>1

Marked(half) == half[1] = 188 \/ half[2] = 188

Sparse(halves) ==
  \A i \in 2 .. Len(halves) : Marked(halves[i - 1]) \/ Marked(halves[i])

LEMMA SparseGrows ==
  ASSUME NEW E, NEW cl \in Seq(E), NEW h \in E, Sparse(cl),
         cl # << >> => Marked(cl[Len(cl)]) \/ Marked(h)
  PROVE  LET d == Append(cl, h)
         IN  d \in Seq(E) /\ Sparse(d) /\ d # << >> /\ d[Len(d)] = h
<1>1. PICK l \in Nat : l = Len(cl)
  OBVIOUS
<1>2. PICK d : d = Append(cl, h)
  OBVIOUS
<1>3. d \in Seq(E) /\ Len(d) = l + 1 /\ d[l + 1] = h /\ \A i \in 1 .. l : d[i] = cl[i]
  BY <1>1, <1>2
<1>4. d # << >>
  BY <1>3
<1>5. ASSUME NEW i \in 2 .. l + 1
      PROVE  Marked(d[i - 1]) \/ Marked(d[i])
  <2>1. CASE i = l + 1
    <3>1. cl # << >> /\ i - 1 = l /\ l \in 1 .. l
      BY <1>1, <2>1
    <3>2. d[i - 1] = cl[l] /\ d[i] = h
      BY <1>3, <2>1, <3>1
    <3>3. QED
      BY <1>1, <3>1, <3>2
  <2>2. CASE i # l + 1
    <3>1. i \in 2 .. l /\ i \in 1 .. l /\ i - 1 \in 1 .. l
      BY <2>2
    <3>2. Marked(cl[i - 1]) \/ Marked(cl[i])
      BY <1>1, <3>1 DEF Sparse
    <3>3. QED
      BY <1>3, <3>1, <3>2
  <2>3. QED
    BY <2>1, <2>2
<1>6. QED
  BY <1>2, <1>3, <1>4, <1>5 DEF Sparse

LEMMA CleanedOfWord ==
  ASSUME NEW n \in Nat, NEW w, NEW lo, NEW hi, lo = <<w[3], w[4]>>, hi = <<w[1], w[2]>>
  PROVE  LET cl == Cleaned([i \in 1 .. n |-> w])
         IN  /\ cl \in Seq({lo, hi})
             /\ Sparse(cl) \/ \A i \in DOMAIN cl : ~Marked(cl[i])
<1>1. PICK r : /\ r[0] = << >>
               /\ \A k \in 1 .. n : r[k] = Clean(r[k - 1], w)
               /\ Cleaned([i \in 1 .. n |-> w]) = r[n]
  BY CleanSteps
<1> DEFINE E == {h \in {lo, hi} : ~IsPhrase(h)}
           last == IF hi \in E THEN hi ELSE lo
<1>2. ASSUME NEW cl \in Seq(E)
      PROVE  Clean(cl, w) = IF lo \in E
                              THEN IF hi \in E THEN Append(Append(cl, lo), hi)
                                               ELSE Append(cl, lo)
                              ELSE IF hi \in E THEN Append(cl, hi) ELSE cl
  BY DEF Clean, KeepHalf
<1>3. ASSUME \A h \in E : ~Marked(h)
      PROVE  r[n] \in Seq(E)
  <2> DEFINE T == {k \in 0 .. n : r[k] \in Seq(E)}
  <2>1. 0 \in T
    <3>1. << >> \in Seq(E) /\ 0 \in 0 .. n
      OBVIOUS
    <3> HIDE DEF E
    <3>2. QED
      BY <1>1, <3>1
  <2>2. ASSUME NEW k \in 1 .. n, k - 1 \in T PROVE k \in T
    <3>1. r[k] = Clean(r[k - 1], w) /\ r[k - 1] \in Seq(E)
      BY <1>1, <2>2
    <3>2. PICK c \in Seq(E) : c = r[k - 1]
      BY <3>1
    <3>3. Clean(c, w) \in Seq(E)
      <4> HIDE DEF E
      <4>1. CASE lo \in E /\ hi \in E
        <5>0. Append(c, lo) \in Seq(E)
          BY <4>1
        <5>1. PICK d \in Seq(E) : d = Append(c, lo)
          BY <5>0
        <5>2. Append(d, hi) \in Seq(E)
          BY <4>1
        <5>3. QED
          BY <1>2, <4>1, <5>1, <5>2
      <4>2. CASE ~(lo \in E /\ hi \in E)
        <5>1. Clean(c, w) = IF lo \in E THEN Append(c, lo)
                            ELSE IF hi \in E THEN Append(c, hi) ELSE c
          BY <1>2, <4>2
        <5>2. \A h \in E : Append(c, h) \in Seq(E)
          OBVIOUS
        <5>3. QED
          BY <5>1, <5>2
      <4>3. QED
        BY <4>1, <4>2
    <3> HIDE DEF E
    <3>4. QED
      BY <3>1, <3>2, <3>3
  <2>3. QED
    <3> HIDE DEF T
    <3>1. n \in T
      BY <2>1, <2>2, Induct
    <3>2. QED
      BY <3>1 DEF T
<1>4. ASSUME NEW m \in E, Marked(m)
      PROVE  r[n] \in Seq(E) /\ Sparse(r[n])
  <2> DEFINE Good(cl) == cl \in Seq(E) /\ Sparse(cl) /\ (cl # << >> => cl[Len(cl)] = last)
             T == {k \in 0 .. n : Good(r[k])}
  <2>1. 0 \in T
    <3>1. Len(<< >>) = 0 /\ << >> \in Seq(E)
      OBVIOUS
    <3>2. Good(<< >>)
      BY <3>1 DEF Sparse
    <3> HIDE DEF Good
    <3>3. QED
      BY <1>1, <3>2
  <2>3. ASSUME NEW cl, Good(cl) PROVE Good(Clean(cl, w))
    <3> DEFINE One(h) == Append(cl, h)
    <3>0. ASSUME NEW h \in E, Marked(last) \/ Marked(h)
          PROVE  /\ One(h) \in Seq(E) /\ Sparse(One(h)) /\ One(h) # << >>
                 /\ One(h)[Len(One(h))] = h
      <4> HIDE DEF E, last
      <4>1. QED
        BY <2>3, <3>0, SparseGrows
    <3>1. CASE lo \in E /\ hi \in E
      <4>1. Marked(lo) \/ Marked(hi)
        BY <1>4
      <4>2. last = hi
        BY <3>1
      <4>3. PICK c : c = One(lo)
        OBVIOUS
      <4>4. c \in Seq(E) /\ Sparse(c) /\ c # << >> /\ c[Len(c)] = lo
        <5> HIDE DEF E, last, One
        <5>1. QED
          BY <3>0, <3>1, <4>1, <4>2, <4>3
      <4>5. PICK d : d = Append(c, hi)
        OBVIOUS
      <4>6. Clean(cl, w) = d
        BY <1>2, <2>3, <3>1, <4>3, <4>5
      <4>7. d \in Seq(E) /\ Sparse(d) /\ d # << >> /\ d[Len(d)] = hi
        <5> HIDE DEF E
        <5>1. QED
          BY <3>1, <4>1, <4>4, <4>5, SparseGrows
      <4>9. Good(d)
        <5> HIDE DEF E, last
        <5>1. QED
          BY <4>2, <4>7
      <4>10. QED
        BY <4>6, <4>9
    <3>2. CASE lo \in E /\ hi \notin E
      <4>1. Marked(lo) /\ last = lo
        BY <1>4, <3>2
      <4>2. Clean(cl, w) = One(lo)
        BY <1>2, <2>3, <3>2
      <4>3. Good(One(lo))
        <5> HIDE DEF E, last, One
        <5>1. QED
          BY <3>0, <3>2, <4>1
      <4>4. QED
        BY <4>2, <4>3
    <3>3. CASE lo \notin E /\ hi \in E
      <4>1. Marked(hi) /\ last = hi
        BY <1>4, <3>3
      <4>2. Clean(cl, w) = One(hi)
        BY <1>2, <2>3, <3>3
      <4>3. Good(One(hi))
        <5> HIDE DEF E, last, One
        <5>1. QED
          BY <3>0, <3>3, <4>1
      <4>4. QED
        BY <4>2, <4>3
    <3>4. CASE lo \notin E /\ hi \notin E
      BY <1>2, <2>3, <3>4
    <3>5. QED
      BY <3>1, <3>2, <3>3, <3>4
  <2>4. ASSUME NEW k \in 1 .. n, k - 1 \in T PROVE k \in T
    <3>1. r[k] = Clean(r[k - 1], w) /\ Good(r[k - 1])
      BY <1>1, <2>4
    <3> HIDE DEF Good
    <3>2. Good(r[k])
      BY <2>3, <3>1
    <3>3. QED
      BY <3>2
  <2>5. QED
    <3> HIDE DEF T
    <3>1. n \in T
      BY <2>1, <2>4, Induct
    <3>2. QED
      BY <3>1 DEF T
<1>5. Seq(E) \subseteq Seq({lo, hi})
  OBVIOUS
<1>6. CASE \A h \in E : ~Marked(h)
  <2>1. r[n] \in Seq(E)
    BY <1>3, <1>6
  <2>2. \A i \in DOMAIN r[n] : r[n][i] \in E
    BY <2>1
  <2>3. QED
    BY <1>1, <1>5, <1>6, <2>1, <2>2
<1>7. CASE \E h \in E : Marked(h)
  BY <1>1, <1>4, <1>5, <1>7
<1>8. QED
  BY <1>6, <1>7

(* No part is longer than m, and the last one not than l.                  *)
PartsUpTo(parts, m, l) ==
  /\ parts \in Seq(Seq(Nat)) /\ parts # << >>
  /\ \A i \in DOMAIN parts : Len(parts[i]) <= m
  /\ Len(parts[Len(parts)]) <= l

LEMMA SeparatorUpTo ==
  ASSUME NEW parts, NEW m \in Nat, NEW l \in Nat, PartsUpTo(parts, m, l)
  PROVE  PartsUpTo(TakeByte(parts, 188), m, 0)
<1>1. PICK k \in Nat \ {0} : k = Len(parts) /\ DOMAIN parts = 1 .. k
  BY DEF PartsUpTo
<1>2. PICK d : d = TakeByte(parts, 188)
  OBVIOUS
<1>3. d \in Seq(Seq(Nat)) /\ d # << >>
  BY <1>2, TakeByteTyped DEF PartsUpTo
<1>4. d = Append(parts, << >>)
  BY <1>2 DEF TakeByte
<1>5. Len(d) = k + 1 /\ d[k + 1] = << >> /\ \A i \in 1 .. k : d[i] = parts[i]
  BY <1>1, <1>4 DEF PartsUpTo
<1>6. Len(<< >>) = 0
  OBVIOUS
<1>7. \A i \in 1 .. k : Len(d[i]) <= m
  BY <1>1, <1>5 DEF PartsUpTo
<1>8. DOMAIN d = 1 .. k + 1
  BY <1>3, <1>5
<1>9. QED
  BY <1>2, <1>3, <1>5, <1>6, <1>7, <1>8 DEF PartsUpTo

LEMMA ByteUpTo ==
  ASSUME NEW parts, NEW m \in Nat, NEW l \in Nat, NEW j \in Nat, l + 1 <= j, j <= m,
         PartsUpTo(parts, m, l), NEW byte \in Nat, byte # 188
  PROVE  PartsUpTo(TakeByte(parts, byte), m, j)
<1>1. PICK k \in Nat \ {0} : k = Len(parts) /\ DOMAIN parts = 1 .. k
  BY DEF PartsUpTo
<1>2. PICK d : d = TakeByte(parts, byte)
  OBVIOUS
<1>3. d \in Seq(Seq(Nat)) /\ d # << >>
  BY <1>2, TakeByteTyped DEF PartsUpTo
<1>4. PICK p \in Seq(Nat) : p = parts[k]
  <2>1. k \in DOMAIN parts /\ parts \in Seq(Seq(Nat))
    BY <1>1 DEF PartsUpTo
  <2>2. QED
    BY <2>1
<1>5. PICK q \in Seq(Nat) : q = Append(p, byte)
  <2>1. Append(p, byte) \in Seq(Nat)
    OBVIOUS
  <2>2. QED
    BY <2>1
<1>6. d = [parts EXCEPT ![k] = q]
  <2>1. d = [parts EXCEPT ![Len(parts)] = Append(parts[Len(parts)], byte)]
    BY <1>2, Zenon DEF TakeByte
  <2>2. QED
    BY <1>1, <1>4, <1>5, <2>1, Zenon
<1>7. Len(p) <= l /\ Len(p) \in Nat /\ Len(q) = Len(p) + 1
  BY <1>1, <1>4, <1>5 DEF PartsUpTo
<1>8. Len(q) <= m /\ Len(q) <= j
  BY <1>7
<1>9. DOMAIN d = 1 .. k /\ d[k] = q /\ \A i \in 1 .. k : i # k => d[i] = parts[i]
  BY <1>1, <1>6
<1>10. Len(d) = k
  BY <1>3, <1>9
<1>11. \A i \in 1 .. k : Len(d[i]) <= m
  BY <1>1, <1>8, <1>9 DEF PartsUpTo
<1>12. QED
  BY <1>2, <1>3, <1>8, <1>9, <1>10, <1>11 DEF PartsUpTo

LEMMA UpToMore ==
  ASSUME NEW parts, NEW m \in Nat, NEW l \in Nat, NEW k \in Nat, l <= k, PartsUpTo(parts, m, l)
  PROVE  PartsUpTo(parts, m, k)
<1>1. parts[Len(parts)] \in Seq(Nat)
  BY DEF PartsUpTo
<1>2. PICK x \in Nat : x = Len(parts[Len(parts)])
  BY <1>1
<1>3. x <= k
  BY <1>2 DEF PartsUpTo
<1>4. QED
  BY <1>2, <1>3 DEF PartsUpTo

LEMMA TakeHalfUpTo ==
  ASSUME NEW parts, NEW half \in Nat \X Nat,
         PartsUpTo(parts, 4, 3)
  PROVE  /\ Marked(half) => PartsUpTo(TakeHalf(parts, half), 4, 1)
         /\ PartsUpTo(parts, 4, 1) => PartsUpTo(TakeHalf(parts, half), 4, 3)
<1>1. PICK b0 \in Nat, b1 \in Nat : half[1] = b0 /\ half[2] = b1
  OBVIOUS
<1>2. PICK d : d = TakeByte(parts, b0)
  OBVIOUS
<1>3. PICK e : e = TakeByte(d, b1)
  OBVIOUS
<1>4. TakeHalf(parts, half) = e
  BY <1>1, <1>2, <1>3 DEF TakeHalf
<1>5. b0 = 188 => PartsUpTo(d, 4, 0)
  BY <1>2, SeparatorUpTo
<1>6. b0 # 188 => PartsUpTo(d, 4, 4)
  BY <1>2, ByteUpTo
<1>7. b0 # 188 /\ PartsUpTo(parts, 4, 1) => PartsUpTo(d, 4, 2)
  BY <1>2, ByteUpTo
<1>8. CASE Marked(half)
  <2>1. CASE b1 = 188
    <3>1. PartsUpTo(d, 4, 4)
      BY <1>5, <1>6, UpToMore
    <3>2. PartsUpTo(e, 4, 0)
      BY <1>3, <2>1, <3>1, SeparatorUpTo
    <3>3. PartsUpTo(e, 4, 1) /\ PartsUpTo(e, 4, 3)
      BY <3>2, UpToMore
    <3>4. QED
      BY <1>4, <3>3
  <2>2. CASE b1 # 188
    <3>1. PartsUpTo(d, 4, 0)
      BY <1>1, <1>5, <1>8, <2>2 DEF Marked
    <3>2. PartsUpTo(e, 4, 1)
      BY <1>3, <2>2, <3>1, ByteUpTo
    <3>3. PartsUpTo(e, 4, 3)
      BY <3>2, UpToMore
    <3>4. QED
      BY <1>4, <3>2, <3>3
  <2>3. QED
    BY <2>1, <2>2
<1>9. CASE ~Marked(half) /\ PartsUpTo(parts, 4, 1)
  <2>1. b0 # 188 /\ b1 # 188
    BY <1>1, <1>9 DEF Marked
  <2>2. PartsUpTo(d, 4, 2)
    BY <1>7, <1>9, <2>1
  <2>3. PartsUpTo(e, 4, 3)
    BY <1>3, <2>1, <2>2, ByteUpTo
  <2>4. QED
    BY <1>4, <1>9, <2>3
<1>10. QED
  BY <1>8, <1>9

LEMMA SplitShort ==
  ASSUME NEW halves \in Seq(Nat \X Nat), Sparse(halves)
  PROVE  PartsUpTo(Split(halves), 4, 3)
<1>1. PICK n \in Nat : n = Len(halves) /\ DOMAIN halves = 1 .. n
  OBVIOUS
<1>2. \A i \in 1 .. n : halves[i] \in Nat \X Nat
  BY <1>1
<1>3. PICK r : /\ r[0] = << << >> >>
               /\ \A k \in 1 .. n : r[k] = TakeHalf(r[k - 1], halves[k])
               /\ Split(halves) = r[n]
  BY <1>1, <1>2, SplitSteps
<1> DEFINE T == {k \in 0 .. n : /\ PartsUpTo(r[k], 4, 3)
                                /\ k = 0 \/ Marked(halves[k]) => PartsUpTo(r[k], 4, 1)}
<1>4. 0 \in T
  <2>1. PICK p : p = << << >> >>
    OBVIOUS
  <2>2. << >> \in Seq(Nat) /\ Len(<< >>) = 0
    OBVIOUS
  <2>3. p \in Seq(Seq(Nat)) /\ Len(p) = 1 /\ p[1] = << >> /\ DOMAIN p = {1} /\ p # << >>
    BY <2>1, <2>2
  <2>4. PartsUpTo(p, 4, 0)
    BY <2>2, <2>3 DEF PartsUpTo
  <2>5. PartsUpTo(p, 4, 1) /\ PartsUpTo(p, 4, 3)
    BY <2>4, UpToMore
  <2>6. QED
    BY <1>3, <2>1, <2>5
<1>5. ASSUME NEW k \in 1 .. n, k - 1 \in T PROVE k \in T
  <2>1. r[k] = TakeHalf(r[k - 1], halves[k]) /\ halves[k] \in Nat \X Nat
    BY <1>2, <1>3
  <2>2. PICK j \in 0 .. n : j = k - 1
    OBVIOUS
  <2>3. PartsUpTo(r[j], 4, 3) /\ (j = 0 \/ Marked(halves[j]) => PartsUpTo(r[j], 4, 1))
    BY <1>5, <2>2
  <2>4. Marked(halves[k]) => PartsUpTo(r[k], 4, 1)
    BY <2>1, <2>2, <2>3, TakeHalfUpTo
  <2>5. CASE Marked(halves[k])
    <3>1. PartsUpTo(r[k], 4, 1)
      BY <2>4, <2>5
    <3>2. PartsUpTo(r[k], 4, 3)
      BY <3>1, UpToMore
    <3>3. QED
      BY <3>1, <3>2
  <2>6. CASE ~Marked(halves[k])
    <3>1. j = 0 \/ Marked(halves[j])
      <4>1. k = 1 \/ k \in 2 .. n
        OBVIOUS
      <4>2. QED
        BY <1>1, <2>2, <2>6, <4>1 DEF Sparse
    <3>2. PartsUpTo(r[j], 4, 1)
      BY <2>3, <3>1
    <3>3. PartsUpTo(r[k], 4, 3)
      BY <2>1, <2>2, <2>3, <3>2, TakeHalfUpTo
    <3>4. QED
      BY <2>6, <3>3
  <2>7. QED
    BY <2>5, <2>6
<1>6. n \in T
  <2> HIDE DEF T
  <2>1. QED
    BY <1>4, <1>5, Induct
<1>7. QED
  BY <1>3, <1>6

(* If nothing separates them the bytes are one part, with two of each.     *)
LEMMA SplitWhole ==
  ASSUME NEW halves \in Seq(Nat \X Nat), \A i \in DOMAIN halves : ~Marked(halves[i])
  PROVE  \E p \in Seq(Nat), n \in Nat : Split(halves) = <<p>> /\ Len(p) = 2 * n
<1>1. PICK n \in Nat : n = Len(halves) /\ DOMAIN halves = 1 .. n
  OBVIOUS
<1>2. \A i \in 1 .. n : halves[i] \in Nat \X Nat
  BY <1>1
<1>3. PICK r : /\ r[0] = << << >> >>
               /\ \A k \in 1 .. n : r[k] = TakeHalf(r[k - 1], halves[k])
               /\ Split(halves) = r[n]
  BY <1>1, <1>2, SplitSteps
<1> DEFINE T == {k \in 0 .. n : \E p \in Seq(Nat) : r[k] = <<p>> /\ Len(p) = k + k}
<1>4. 0 \in T
  <2>1. << >> \in Seq(Nat) /\ Len(<< >>) = 0
    OBVIOUS
  <2>2. PICK p \in Seq(Nat) : p = << >> /\ Len(p) = 0
    BY <2>1
  <2>3. r[0] = <<p>>
    BY <1>3, <2>2
  <2>4. 0 \in 0 .. n /\ 0 + 0 = 0
    OBVIOUS
  <2>5. QED
    BY <2>2, <2>3, <2>4
<1>5. ASSUME NEW p \in Seq(Nat), NEW byte \in Nat, byte # 188
      PROVE  TakeByte(<<p>>, byte) = <<Append(p, byte)>>
  <2>1. Len(<<p>>) = 1 /\ <<p>>[1] = p
    OBVIOUS
  <2>2. PICK q : q = Append(p, byte)
    OBVIOUS
  <2>3. TakeByte(<<p>>, byte) = [<<p>> EXCEPT ![1] = q]
    BY <1>5, <2>1, <2>2 DEF TakeByte
  <2>4. [<<p>> EXCEPT ![1] = q] = <<q>>
    OBVIOUS
  <2>5. QED
    BY <2>2, <2>3, <2>4
<1>6. ASSUME NEW k \in 1 .. n, k - 1 \in T PROVE k \in T
  <2>1. PICK b0 \in Nat, b1 \in Nat : halves[k][1] = b0 /\ halves[k][2] = b1
    BY <1>2
  <2>2. b0 # 188 /\ b1 # 188
    BY <1>1, <2>1 DEF Marked
  <2>3. PICK p \in Seq(Nat) : r[k - 1] = <<p>> /\ Len(p) = (k - 1) + (k - 1)
    BY <1>6
  <2>4. PICK q \in Seq(Nat) : q = Append(p, b0)
    <3>1. Append(p, b0) \in Seq(Nat)
      OBVIOUS
    <3>2. QED
      BY <3>1
  <2>5. PICK t \in Seq(Nat) : t = Append(q, b1)
    <3>1. Append(q, b1) \in Seq(Nat)
      OBVIOUS
    <3>2. QED
      BY <3>1
  <2>6. r[k] = <<t>>
    <3>1. TakeByte(<<p>>, b0) = <<q>> /\ TakeByte(<<q>>, b1) = <<t>>
      BY <1>5, <2>2, <2>4, <2>5
    <3>2. QED
      BY <1>3, <2>1, <2>3, <3>1 DEF TakeHalf
  <2>7. Len(t) = k + k
    <3>1. Len(q) = Len(p) + 1 /\ Len(t) = Len(q) + 1
      BY <2>4, <2>5
    <3>2. QED
      BY <2>3, <3>1
  <2>8. QED
    BY <2>6, <2>7
<1>7. n \in T
  <2> HIDE DEF T
  <2>1. QED
    BY <1>4, <1>6, Induct
<1>8. QED
  BY <1>3, <1>7

LEMMA NoSamples ==
  ASSUME NEW n \in Nat, NEW parts, DOMAIN parts = 1 .. n,
         \A i \in 1 .. n : ~IsSample(parts[i])
  PROVE  FoldLeft(KeepSample, << >>, parts) = << >>
<1>1. PICK r : /\ r[0] = << >>
               /\ \A k \in 1 .. n : r[k] = KeepSample(r[k - 1], parts[k])
               /\ FoldLeft(KeepSample, << >>, parts) = r[n]
  BY SampleSteps
<1> DEFINE T == {k \in 0 .. n : r[k] = << >>}
<1>2. 0 \in T
  BY <1>1
<1>3. ASSUME NEW k \in 1 .. n, k - 1 \in T PROVE k \in T
  <2>1. r[k - 1] = << >> /\ ~IsSample(parts[k])
    BY <1>3
  <2>2. r[k] = r[k - 1]
    BY <1>1, <2>1 DEF KeepSample
  <2>3. QED
    BY <2>1, <2>2
<1>4. n \in T
  <2> HIDE DEF T
  <2>1. QED
    BY <1>2, <1>3, Induct
<1>5. QED
  BY <1>1, <1>4

LEMMA NothingExtracted ==
  ASSUME NEW n \in Nat, NEW w, w[1] \in Nat, w[2] \in Nat, w[3] \in Nat, w[4] \in Nat
  PROVE  extract_timesamples([i \in 1 .. n |-> w]) = << >>
<1> DEFINE lo == <<w[3], w[4]>>
           hi == <<w[1], w[2]>>
<1>1. PICK cl : cl = Cleaned([i \in 1 .. n |-> w])
  OBVIOUS
<1>2. /\ cl \in Seq({lo, hi})
      /\ Sparse(cl) \/ \A i \in DOMAIN cl : ~Marked(cl[i])
  BY <1>1, CleanedOfWord
<1>3. cl \in Seq(Nat \X Nat)
  <2>1. lo \in Nat \X Nat /\ hi \in Nat \X Nat
    OBVIOUS
  <2> HIDE DEF lo, hi
  <2>2. QED
    BY <1>2, <2>1
<1>4. PICK parts : parts = Split(cl)
  OBVIOUS
<1>5. \E m \in Nat : DOMAIN parts = 1 .. m /\ \A i \in 1 .. m : ~IsSample(parts[i])
  <2>1. CASE Sparse(cl)
    <3>1. PartsUpTo(parts, 4, 3)
      BY <1>3, <1>4, <2>1, SplitShort
    <3>2. PICK m \in Nat : m = Len(parts) /\ DOMAIN parts = 1 .. m
      BY <3>1 DEF PartsUpTo
    <3>3. ASSUME NEW i \in 1 .. m PROVE ~IsSample(parts[i])
      <4>1. Len(parts[i]) <= 4
        BY <3>1, <3>2 DEF PartsUpTo
      <4>2. Len(parts[i]) \in Nat
        BY <3>1, <3>2 DEF PartsUpTo
      <4>3. PICK x \in Nat : x = Len(parts[i])
        BY <4>2
      <4>4. x <= 4
        BY <4>1, <4>3
      <4>6. x # 11
        BY <4>4
      <4>5. QED
        BY <4>3, <4>6 DEF IsSample
    <3>4. QED
      BY <3>2, <3>3
  <2>2. CASE \A i \in DOMAIN cl : ~Marked(cl[i])
    <3>1. PICK p \in Seq(Nat), k \in Nat : parts = <<p>> /\ Len(p) = 2 * k
      BY <1>3, <1>4, <2>2, SplitWhole
    <3>2. DOMAIN parts = 1 .. 1 /\ parts[1] = p
      BY <3>1
    <3>3. ~IsSample(p)
      <4>1. 2 * k # 11
        OBVIOUS
      <4>2. QED
        BY <3>1, <4>1 DEF IsSample
    <3>4. QED
      BY <3>2, <3>3
  <2>3. QED
    BY <1>2, <2>1, <2>2
<1>6. QED
  BY <1>1, <1>4, <1>5, NoSamples DEF extract_timesamples

LEMMA NoErrors ==
  ASSUME NEW e \in DOMAIN ErrorByte(<< >>, << >>)
  PROVE  ~ErrorByte(<< >>, << >>)[e]
<1>1. DOMAIN << >> = {} /\ Len(<< >>) = 0 /\ 2 .. 0 = {}
  OBVIOUS
<1>2. ~SkipsCapid(<< >>)
  BY <1>1 DEF SkipsCapid
<1>3. ErrorByte(<< >>, << >>) =
        [crc1 |-> FALSE, crc2 |-> FALSE, cid_unsync |-> FALSE, cid_skip |-> FALSE]
  BY <1>1, <1>2 DEF ErrorByte
<1>4. QED
  BY <1>3

(* What a packet of the two fibers lacks, and which may come after it.     *)
IsEmpty(packet) ==
  /\ packet.samples = 0
  /\ \A e \in DOMAIN packet.errors : ~packet.errors[e]

TwoFibersOf(f) ==
  /\ \A i \in DOMAIN given[f] :
       IsEmpty(given[f][i]) /\ (i < Len(given[f]) => given[f][i].ts = Ones)
  /\ given[f] # << >> => f \in failed \/ given[f][Len(given[f])].ts = Ones

LEMMA TwoFibersGive ==
  ASSUME FilesTyped, NEW f \in Files, GiveTwoFibers(f)
  PROVE  \E packet :
           /\ Gives(f, packet) /\ IsEmpty(packet)
           /\ packet.ts = Ones \/ f \in failed'
<1>1. PICK left \in Nat : left = Len(data[f]) - pos[f] - 1
  <2>1. pos[f] \in Nat /\ Len(data[f]) \in Nat /\ pos[f] < Len(data[f])
    BY ReadsWithin DEF GiveTwoFibers
  <2>2. QED
    BY <2>1
<1>2. PICK word \in Leftovers :
        LET n        == IF ReadsOneWord(word) THEN 1 ELSE left + 1
            fiber_1  == extract_timesamples([i \in 1 .. n |-> SubSeq(word, 5, 8)])
            fiber_2  == extract_timesamples([i \in 1 .. n |-> SubSeq(word, 1, 4)])
        IN  /\ IF n <= left
                 THEN pos' = [pos EXCEPT ![f] = @ + 1 + n] /\ UNCHANGED failed
                 ELSE ReadFails(f)
            /\ IF Len(fiber_1) # Len(fiber_2)
                 THEN GivesNothing(f)
                 ELSE Gives(f, [at |-> pos[f] + 1, ts |-> word,
                                samples |-> Len(fiber_1),
                                errors |-> ErrorByte(fiber_1, fiber_2)])
  BY <1>1, Zenon DEF GiveTwoFibers
<1> DEFINE packet == [at |-> pos[f] + 1, ts |-> word, samples |-> Len(<< >>),
                      errors |-> ErrorByte(<< >>, << >>)]
<1>3. PICK n \in Nat : n = IF ReadsOneWord(word) THEN 1 ELSE left + 1
  OBVIOUS
<1>4. /\ extract_timesamples([i \in 1 .. n |-> SubSeq(word, 5, 8)]) = << >>
      /\ extract_timesamples([i \in 1 .. n |-> SubSeq(word, 1, 4)]) = << >>
  <2>1. word \in Seq(0 .. 255) /\ Len(word) = 8
    BY LeftoversAssumption
  <2>2. ASSUME NEW i \in 1 .. 8 PROVE word[i] \in Nat
    <3>1. PICK bytes : bytes = 0 .. 255
      OBVIOUS
    <3>2. word \in Seq(bytes) /\ i \in 1 .. Len(word)
      BY <2>1, <3>1
    <3>3. word[i] \in bytes
      BY <3>2, ElementOfSeq
    <3>4. QED
      BY <3>1, <3>3
  <2>3. PICK w : w = SubSeq(word, 5, 8)
    OBVIOUS
  <2>4. w[1] = word[5] /\ w[2] = word[6] /\ w[3] = word[7] /\ w[4] = word[8]
    BY <2>1, <2>3
  <2>5. PICK v : v = SubSeq(word, 1, 4)
    OBVIOUS
  <2>6. v[1] = word[1] /\ v[2] = word[2] /\ v[3] = word[3] /\ v[4] = word[4]
    BY <2>1, <2>5
  <2>7. extract_timesamples([i \in 1 .. n |-> w]) = << >>
    <3>1. w[1] \in Nat /\ w[2] \in Nat /\ w[3] \in Nat /\ w[4] \in Nat
      BY <2>2, <2>4
    <3>2. QED
      BY <3>1, NothingExtracted
  <2>8. extract_timesamples([i \in 1 .. n |-> v]) = << >>
    <3>1. v[1] \in Nat /\ v[2] \in Nat /\ v[3] \in Nat /\ v[4] \in Nat
      BY <2>2, <2>6
    <3>2. QED
      BY <3>1, NothingExtracted
  <2>9. QED
    BY <2>3, <2>5, <2>7, <2>8
<1>5. /\ IF n <= left
           THEN pos' = [pos EXCEPT ![f] = @ + 1 + n] /\ UNCHANGED failed
           ELSE ReadFails(f)
      /\ Gives(f, packet)
  BY <1>2, <1>3, <1>4, Zenon
<1>6. packet.ts = Ones \/ f \in failed'
  <2>1. CASE ReadsOneWord(word)
    BY <2>1 DEF ReadsOneWord
  <2>2. CASE ~ReadsOneWord(word)
    <3>1. ~(n <= left)
      BY <1>3, <2>2
    <3>2. QED
      BY <1>5, <3>1 DEF ReadFails
  <2>3. QED
    BY <2>1, <2>2
<1>7. IsEmpty(packet)
  <2>1. Len(<< >>) = 0
    OBVIOUS
  <2>2. packet.errors = ErrorByte(<< >>, << >>) /\ packet.samples = 0
    BY <2>1
  <2>3. QED
    BY <2>2, NoErrors DEF IsEmpty
<1>8. QED
  BY <1>5, <1>6, <1>7

LEMMA TwoFibersKeep ==
  ASSUME FilesTyped, NEW f \in Files, TwoFibersNext(f), TwoFibersOf(f)
  PROVE  TwoFibersOf(f)'
<1>1. CASE NoMoreWords(f)
  BY <1>1 DEF NoMoreWords, ReadFails, GivesNothing, TwoFibersOf
<1>2. CASE GiveTwoFibers(f)
  <2>1. PICK packet : /\ Gives(f, packet) /\ IsEmpty(packet)
                      /\ packet.ts = Ones \/ f \in failed'
    BY <1>2, TwoFibersGive
  <2>2. f \notin failed
    BY <1>2 DEF GiveTwoFibers
  <2>3. given'[f] = Append(given[f], packet)
    BY <2>1 DEF Gives, FilesTyped
  <2>4. PICK l \in Nat : /\ l = Len(given[f]) /\ DOMAIN given[f] = 1 .. l
                         /\ Len(given'[f]) = l + 1 /\ DOMAIN given'[f] = 1 .. l + 1
                         /\ \A i \in 1 .. l : given'[f][i] = given[f][i]
                         /\ given'[f][l + 1] = packet
    <3>1. PICK s : s = given[f] /\ IsSeq(s)
      BY DEF FilesTyped
    <3>2. PICK t : t = Append(s, packet)
      OBVIOUS
    <3>3. /\ Len(s) \in Nat /\ DOMAIN s = 1 .. Len(s)
          /\ Len(t) = Len(s) + 1 /\ DOMAIN t = 1 .. Len(s) + 1
          /\ \A i \in 1 .. Len(s) : t[i] = s[i]
          /\ t[Len(s) + 1] = packet
      BY <3>1, <3>2, AppendIsSeq
    <3>4. PICK l \in Nat : l = Len(s)
      BY <3>3
    <3>5. /\ DOMAIN s = 1 .. l /\ Len(t) = l + 1 /\ DOMAIN t = 1 .. l + 1
          /\ \A i \in 1 .. l : t[i] = s[i]
          /\ t[l + 1] = packet
      BY <3>3, <3>4
    <3>6. given'[f] = t
      BY <2>3, <3>1, <3>2
    <3>7. QED
      BY <3>1, <3>4, <3>5, <3>6
  <2>5. ASSUME NEW i \in 1 .. l + 1
        PROVE  IsEmpty(given'[f][i]) /\ (i < l + 1 => given'[f][i].ts = Ones)
    <3>1. CASE i = l + 1
      BY <2>1, <2>4, <3>1
    <3>2. CASE i < l
      BY <2>4, <3>2 DEF TwoFibersOf
    <3>3. CASE i = l
      <4>1. given[f] # << >>
        BY <2>4, <3>3
      <4>2. given[f][l].ts = Ones
        BY <2>2, <2>4, <4>1 DEF TwoFibersOf
      <4>3. QED
        BY <2>4, <3>3, <4>2 DEF TwoFibersOf
    <3>4. QED
      BY <3>1, <3>2, <3>3
  <2>6. f \in failed' \/ given'[f][l + 1].ts = Ones
    BY <2>1, <2>4
  <2>7. QED
    BY <2>4, <2>5, <2>6 DEF TwoFibersOf
<1>3. QED
  BY <1>1, <1>2 DEF TwoFibersNext

-----------------------------------------------------------------------------
(* All files.                                                              *)
PolarfireInv == KeepIsExplained /\ \A f \in OfClass("Polarfire") : PolarfireOf(f)

WhiteRabbitInv ==
  \A f \in OfClass("WhiteRabbit") :
    LastSpillOf(f) /\ (NanosecondsAreMore => SpillsOf(f))

TrackerInv == \A f \in OfClass("FiberTracker") : FailsOf(f)

GroupedInv == \A f \in OfClass("EventGrouped") : GroupedOf(f)

TwoFibersInv == \A f \in OfClass("TwoFibers") : TwoFibersOf(f)

InductiveInv ==
  /\ Typed /\ PolarfireInv /\ WhiteRabbitInv /\ TrackerInv /\ GroupedInv
  /\ TwoFibersInv

LEMMA StartsPolarfire == Starts => PolarfireInv
<1> SUFFICES ASSUME Starts PROVE PolarfireInv
  OBVIOUS
<1>1. Typed
  BY StartsTyped
<1>2. ASSUME NEW f \in OfClass("Polarfire")
      PROVE  SpillEvents(f) = {} /\ PolarfireOf(f)
  <2>1. /\ f \in Files /\ class[f] = "Polarfire" /\ pos[f] = 0 /\ given[f] = << >>
        /\ spill_[f] = -1 /\ i_spill_[f] = 0 /\ spills_to_skip_[f] = offset[f]
        /\ offset[f] \in Nat
    BY DEF Starts, Created, FileInit, PolarfireInit, OfClass
  <2>2. 1 .. pos[f] = {}
    BY <2>1
  <2>3. SpillEvents(f) = {}
    BY <2>2 DEF SpillEvents
  <2>4. Openings(f) = {} /\ Wanted(f) = {}
    BY <2>3 DEF Openings, Wanted
  <2>5. Cardinality(Openings(f)) = 0
    BY <2>4, FS_EmptySet
  <2>6. DOMAIN given[f] = {}
    BY <2>1
  <2>7. CountedOf(f)
    BY <2>1, <2>5 DEF CountedOf
  <2>8. LastEventOf(f) /\ LastOpeningOf(f) /\ SkipOf(f)
    BY <2>1, <2>3, <2>4 DEF LastEventOf, LastOpeningOf, SkipOf
  <2>9. GivenSpillsOf(f) /\ RiseOf(f) /\ GivesWantedOf(f)
    BY <2>4, <2>6 DEF GivenSpillsOf, RiseOf, GivesWantedOf, Given
  <2>10. LostOf(f) /\ FirstsOf(f) /\ RestOf(f)
    BY <2>4 DEF LostOf, FirstsOf, RestOf
  <2>11. QED
    BY <2>3, <2>7, <2>8, <2>9, <2>10 DEF PolarfireOf
<1>3. KeepIsExplained
  <2>1. keep_current_spill = {}
    BY DEF Starts, Created, PolarfireInit
  <2>2. QED
    BY <1>2, <2>1 DEF KeepIsExplained
<1>4. QED
  BY <1>2, <1>3 DEF PolarfireInv

LEMMA StartsOthers ==
  Starts => WhiteRabbitInv /\ TrackerInv /\ GroupedInv /\ TwoFibersInv
<1> SUFFICES ASSUME Starts
             PROVE  WhiteRabbitInv /\ TrackerInv /\ GroupedInv /\ TwoFibersInv
  OBVIOUS
<1>0. \A f \in Files : given[f] = << >> /\ state[f] = "open"
  BY DEF Starts, Created, FileInit
<1>1. \A f \in Files : given[f] = << >> /\ state[f] = "open" /\ DOMAIN given[f] = {}
  <2>1. DOMAIN << >> = {}
    OBVIOUS
  <2>2. QED
    BY <1>0, <2>1
<1>2. WhiteRabbitInv
  <2>1. ASSUME NEW f \in OfClass("WhiteRabbit")
        PROVE  LastSpillOf(f) /\ SpillsOf(f)
    <3>1. f \in Files /\ pos[f] = 0 /\ i_spill[f] = -1 /\ DOMAIN given[f] = {}
      BY <1>1 DEF Starts, Created, WhiteRabbitInit, OfClass
    <3>2. 1 .. pos[f] = {}
      BY <3>1
    <3>3. Given(f) = {} /\ Triggers(f) = {}
      BY <3>1, <3>2 DEF Given, Triggers
    <3>4. OfChannel1(f) = {}
      BY <3>3 DEF OfChannel1
    <3>5. QED
      BY <3>1, <3>3, <3>4, FS_EmptySet DEF SpillsOf, LastSpillOf
  <2>2. QED
    BY <2>1 DEF WhiteRabbitInv
<1>3. TrackerInv
  BY <1>1 DEF Starts, Created, TrackerInv, FailsOf, OfClass
<1>4. GroupedInv
  <2>1. ASSUME NEW f \in OfClass("EventGrouped")
        PROVE  GroupedOf(f)
    <3>1. /\ given[f] = << >> /\ DOMAIN given[f] = {}
          /\ i_spill_count[f] = -1 /\ last_event_time[f] = Word32 - 1
      BY <1>1 DEF Starts, Created, GroupedInit, OfClass
    <3>2. QED
      BY <3>1 DEF GroupedOf, GivenAreEvents, LastIsTime, FallsAreCounted, StampsOf
  <2>2. QED
    BY <2>1 DEF GroupedInv
<1>5. TwoFibersInv
  BY <1>1 DEF TwoFibersInv, TwoFibersOf, OfClass
<1>6. QED
  BY <1>2, <1>3, <1>4, <1>5

LEMMA NextKeepsPolarfire ==
  ASSUME Typed, PolarfireInv, NEW f \in Files, next(f)
  PROVE  PolarfireInv'
<1>1. class' = class /\ data' = data
  BY NextIsStep DEF StepOf
<1>2. \A g \in OfClass("Polarfire") : g # f => PolarfireOf(g)'
  BY OthersStayPolarfire DEF PolarfireInv, OfClass
<1>3. CASE class[f] = "Polarfire"
  <2>1. PolarfireOf(f)' /\ KeepIsExplained'
    BY <1>3, PolarfireKeeps, StepIsOfClass DEF PolarfireInv, OfClass
  <2>2. OfClass("Polarfire")' = OfClass("Polarfire")
    BY <1>1 DEF OfClass
  <2>3. QED
    BY <1>2, <2>1, <2>2 DEF PolarfireInv
<1>4. CASE class[f] # "Polarfire"
  <2>1. keep_current_spill' = keep_current_spill /\ f \notin OfClass("Polarfire")
        /\ OfClass("Polarfire")' = OfClass("Polarfire")
    BY <1>1, <1>4, StepIsOfClass DEF polarfireVars, OfClass
  <2>2. \A g \in OfClass("Polarfire") : SpillEvents(g)' = SpillEvents(g)
    BY <2>1, OthersKeepSpills DEF OfClass
  <2>3. KeepIsExplained'
    <3>1. keep_current_spill' = {} =>
            \A g \in OfClass("Polarfire")' : SpillEvents(g)' = {}
      BY <2>1, <2>2 DEF PolarfireInv, KeepIsExplained
    <3>2. ASSUME keep_current_spill' = {FALSE}
          PROVE  \E g \in OfClass("Polarfire")' :
                   /\ offset'[g] > 0 /\ Wanted(g)' = {}
                   /\ asked' = {g} \/ state'[g] # "open"
      <4>1. PICK g \in OfClass("Polarfire") :
              offset[g] > 0 /\ Wanted(g) = {} /\ (asked = {g} \/ state[g] # "open")
        BY <2>1, <3>2 DEF PolarfireInv, KeepIsExplained
      <4>2. g # f
        BY <2>1
      <4>3. QED
        BY <4>1, <4>2, OtherExplains
    <3>3. QED
      BY <3>1, <3>2 DEF KeepIsExplained
  <2>4. QED
    BY <1>2, <2>1, <2>3 DEF PolarfireInv
<1>5. QED
  BY <1>3, <1>4

LEMMA NextKeepsWhiteRabbit ==
  ASSUME Typed, WhiteRabbitInv, NEW f \in Files, next(f)
  PROVE  WhiteRabbitInv'
<1>1. /\ class' = class /\ data' = data
      /\ OfClass("WhiteRabbit")' = OfClass("WhiteRabbit")
  BY NextIsStep DEF StepOf, OfClass
<1>2. NanosecondsAreMore' => NanosecondsAreMore
  BY <1>1 DEF NanosecondsAreMore, Records, OfClass, SpillTime
<1>3. ASSUME NEW g \in OfClass("WhiteRabbit")
      PROVE  LastSpillOf(g)' /\ (NanosecondsAreMore => SpillsOf(g)')
  <2>1. g \in Files /\ class[g] = "WhiteRabbit"
    BY DEF OfClass
  <2>2. LastSpillOf(g) /\ (NanosecondsAreMore => SpillsOf(g))
    BY DEF WhiteRabbitInv
  <2>3. CASE g = f
    BY <2>1, <2>2, <2>3, WhiteRabbitCounts, StepIsOfClass
  <2>4. CASE g # f
    <3>1. /\ i_spill'[g] = i_spill[g] /\ last_spill_time_'[g] = last_spill_time_[g]
          /\ pos'[g] = pos[g] /\ Given(g)' = Given(g)
      BY <2>1, <2>4, OthersKeepCounters, OthersKeepSpills
    <3>2. LastSpillOf(g)'
      BY <1>1, <2>2, <3>1 DEF LastSpillOf, Records, SpillTime
    <3>3. Triggers(g)' = Triggers(g) /\ OfChannel1(g)' = OfChannel1(g)
      BY <1>1, <3>1 DEF Triggers, OfChannel1
    <3>4. QED
      BY <2>2, <3>1, <3>2, <3>3 DEF SpillsOf
  <2>5. QED
    BY <2>3, <2>4
<1>4. QED
  BY <1>1, <1>2, <1>3 DEF WhiteRabbitInv

LEMMA NextKeepsTracker ==
  ASSUME Typed, TrackerInv, NEW f \in Files, next(f)
  PROVE  TrackerInv'
<1>1. /\ class' = class /\ data' = data /\ StepOf(f) /\ FilesTyped
      /\ OfClass("FiberTracker")' = OfClass("FiberTracker")
  BY NextIsStep DEF StepOf, OfClass, Typed
<1>2. ASSUME NEW g \in OfClass("FiberTracker")
      PROVE  FailsOf(g)'
  <2>1. g \in Files /\ class[g] = "FiberTracker" /\ FailsOf(g)
    BY DEF OfClass, TrackerInv
  <2>2. CASE g = f
    BY <2>1, <2>2, TrackerFails, StepIsOfClass
  <2>3. CASE g # f
    <3>1. /\ given'[g] = given[g] /\ state'[g] = state[g]
          /\ g \in failed' <=> g \in failed
      BY <1>1, <2>1, <2>3, OthersStay
    <3>2. QED
      BY <1>1, <2>1, <3>1 DEF FailsOf, CutOrMadeUp
  <2>4. QED
    BY <2>2, <2>3
<1>3. QED
  BY <1>1, <1>2 DEF TrackerInv

LEMMA NextKeepsGrouped ==
  ASSUME Typed, GroupedInv, NEW f \in Files, next(f)
  PROVE  GroupedInv'
<1>1. /\ class' = class /\ data' = data
      /\ OfClass("EventGrouped")' = OfClass("EventGrouped")
  BY NextIsStep DEF StepOf, OfClass
<1>2. ASSUME NEW g \in OfClass("EventGrouped")
      PROVE  GroupedOf(g)'
  <2>1. g \in Files /\ class[g] = "EventGrouped" /\ GroupedOf(g)
    BY DEF OfClass, GroupedInv
  <2>2. CASE g = f
    BY <1>1, <2>1, <2>2, StepIsOfClass, GroupedEventCounts, GroupedEndCounts DEF GroupedNext
  <2>3. CASE g # f
    <3>1. /\ given'[g] = given[g] /\ i_spill_count'[g] = i_spill_count[g]
          /\ last_event_time'[g] = last_event_time[g]
      BY <2>1, <2>3, OthersKeepCounters, OthersKeepSpills
    <3>2. /\ \A i : TimeOf(g, i)' = TimeOf(g, i)
          /\ TimeOf(g, Len(given[g]))' = TimeOf(g, Len(given[g]))
          /\ FallsOf(g)' = FallsOf(g)
      BY <1>1, <3>1 DEF TimeOf, FallsOf, Before, Since
    <3>3. GivenAreEvents(g)' = GivenAreEvents(g) /\ HighestIsZero(g)' = HighestIsZero(g)
      BY <1>1, <3>1, <3>2 DEF GivenAreEvents, HighestIsZero
    <3>4. LastIsTime(g)' = LastIsTime(g) /\ FallsAreCounted(g)' = FallsAreCounted(g)
      BY <3>1, <3>2 DEF LastIsTime, FallsAreCounted, LowBytes
    <3>5. StampsOf(g)' = StampsOf(g)
      BY <3>1, <3>2 DEF StampsOf, LowBytes
    <3>6. QED
      BY <2>1, <3>3, <3>4, <3>5 DEF GroupedOf
  <2>4. QED
    BY <2>2, <2>3
<1>3. QED
  BY <1>1, <1>2 DEF GroupedInv

LEMMA NextKeepsTwoFibers ==
  ASSUME Typed, TwoFibersInv, NEW f \in Files, next(f)
  PROVE  TwoFibersInv'
<1>1. /\ class' = class /\ data' = data /\ StepOf(f) /\ FilesTyped
      /\ OfClass("TwoFibers")' = OfClass("TwoFibers")
  BY NextIsStep DEF StepOf, OfClass, Typed
<1>2. ASSUME NEW g \in OfClass("TwoFibers")
      PROVE  TwoFibersOf(g)'
  <2>1. g \in Files /\ class[g] = "TwoFibers" /\ TwoFibersOf(g)
    BY DEF OfClass, TwoFibersInv
  <2>2. CASE g = f
    BY <1>1, <2>1, <2>2, TwoFibersKeep, StepIsOfClass
  <2>3. CASE g # f
    <3>1. given'[g] = given[g] /\ (g \in failed' <=> g \in failed)
      BY <1>1, <2>1, <2>3, OthersStay
    <3>2. QED
      BY <2>1, <3>1 DEF TwoFibersOf
  <2>4. QED
    BY <2>2, <2>3
<1>3. QED
  BY <1>1, <1>2 DEF TwoFibersInv

(* The inductive invariant: what each class has counted, and why, of every *)
(* file, whatever is in the files and in whichever order they are asked.   *)
THEOREM FilesInduction == Spec => []InductiveInv
<1>1. Starts => InductiveInv
  BY StartsTyped, StartsPolarfire, StartsOthers DEF InductiveInv
<1>2. InductiveInv /\ [Next]_vars => InductiveInv'
  <2> SUFFICES ASSUME InductiveInv, [Next]_vars
               PROVE  InductiveInv'
    OBVIOUS
  <2>1. ASSUME NEW f \in Files, next(f)
        PROVE  InductiveInv'
    <3>1. /\ Typed' /\ PolarfireInv' /\ WhiteRabbitInv' /\ TrackerInv' /\ GroupedInv'
          /\ TwoFibersInv'
      BY <2>1, NextIsStep, NextKeepsPolarfire, NextKeepsWhiteRabbit, NextKeepsTracker,
         NextKeepsGrouped, NextKeepsTwoFibers DEF InductiveInv
    <3>2. QED
      BY <3>1 DEF InductiveInv
  <2>2. CASE UNCHANGED vars
    <3>1. /\ UNCHANGED fileVars /\ UNCHANGED polarfireVars /\ UNCHANGED whiteRabbitVars
          /\ UNCHANGED trackerVars /\ UNCHANGED groupedVars
      BY <2>2 DEF vars
    <3>2. Typed'
      BY <3>1 DEF InductiveInv, Typed, FilesTyped, PolarfireTyped, WhiteRabbitTyped,
                  TrackerTyped, GroupedTyped, Contents, ItemOf, CutComesLast,
                  fileVars, polarfireVars, whiteRabbitVars, trackerVars, groupedVars
    <3>3. /\ \A f : SpillEvents(f)' = SpillEvents(f) /\ Given(f)' = Given(f)
          /\ \A f : Openings(f)' = Openings(f) /\ SkipsIn(f)' = SkipsIn(f)
          /\ \A c : OfClass(c)' = OfClass(c)
      BY <3>1 DEF SpillEvents, Given, Openings, SkipsIn, OfClass, fileVars, polarfireVars
    <3>4. /\ \A f, k : SpillOf(f, k)' = SpillOf(f, k)
          /\ \A f : Wanted(f)' = Wanted(f)
      BY <3>1, <3>3 DEF SpillOf, Wanted, polarfireVars
    <3>5. \A f : OtherEndsSkipping(f)' = OtherEndsSkipping(f)
      BY <3>1, <3>3, <3>4 DEF OtherEndsSkipping, fileVars, polarfireVars
    <3>6. PolarfireInv'
      <4>1. KeepIsExplained'
        BY <3>1, <3>3, <3>4 DEF InductiveInv, PolarfireInv, KeepIsExplained,
                                 fileVars, polarfireVars
      <4>2. ASSUME NEW f \in OfClass("Polarfire")
            PROVE  PolarfireOf(f)'
        <5>1. PolarfireOf(f)
          BY DEF InductiveInv, PolarfireInv
        <5>2. CountedOf(f)' /\ LastEventOf(f)' /\ LastOpeningOf(f)'
          BY <3>1, <3>3, <5>1 DEF PolarfireOf, CountedOf, LastEventOf, LastOpeningOf, IsLast,
                                   fileVars, polarfireVars
        <5>3. GivenSpillsOf(f)' /\ RiseOf(f)'
          BY <3>1, <5>1 DEF PolarfireOf, GivenSpillsOf, RiseOf, fileVars, polarfireVars
        <5>4. GivesWantedOf(f)'
          <6>1. \A i : SpillOf(f, given[f][i].at)' = SpillOf(f, given[f][i].at)
            BY <3>1, <3>3 DEF SpillOf, fileVars
          <6>2. QED
            BY <3>1, <3>3, <3>4, <5>1, <6>1 DEF PolarfireOf, GivesWantedOf,
                                                 fileVars, polarfireVars
        <5>5. LostOf(f)' /\ FirstsOf(f)'
          BY <3>3, <3>4, <3>5, <5>1 DEF PolarfireOf, LostOf, FirstsOf
        <5>6. RestOf(f)' /\ SkipOf(f)'
          BY <3>1, <3>3, <3>4, <5>1 DEF PolarfireOf, RestOf, SkipOf, fileVars, polarfireVars
        <5>7. QED
          BY <5>2, <5>3, <5>4, <5>5, <5>6 DEF PolarfireOf
      <4>3. QED
        BY <3>3, <4>1, <4>2 DEF PolarfireInv
    <3>7. WhiteRabbitInv'
      <4>1. \A f : Triggers(f)' = Triggers(f) /\ OfChannel1(f)' = OfChannel1(f)
                   /\ Records(f)' = Records(f)
        BY <3>1, <3>3 DEF Triggers, OfChannel1, Records, fileVars
      <4>2. NanosecondsAreMore' = NanosecondsAreMore
        BY <3>1, <3>3, <4>1 DEF NanosecondsAreMore, SpillTime, fileVars
      <4>3. \A f : SpillsOf(f)' = SpillsOf(f) /\ LastSpillOf(f)' = LastSpillOf(f)
        BY <3>1, <3>3, <4>1 DEF SpillsOf, LastSpillOf, SpillTime, fileVars, whiteRabbitVars
      <4>4. QED
        BY <3>3, <4>2, <4>3 DEF InductiveInv, WhiteRabbitInv
    <3>8. TrackerInv'
      BY <3>1, <3>3 DEF InductiveInv, TrackerInv, FailsOf, CutOrMadeUp, fileVars
    <3>9. GroupedInv'
      <4>1. /\ \A f, i : TimeOf(f, i)' = TimeOf(f, i)
            /\ \A f : TimeOf(f, Len(given[f]))' = TimeOf(f, Len(given[f]))
            /\ \A f : FallsOf(f)' = FallsOf(f)
        BY <3>1 DEF TimeOf, FallsOf, Before, Since, fileVars
      <4>2. \A f : /\ GivenAreEvents(f)' = GivenAreEvents(f)
                   /\ HighestIsZero(f)' = HighestIsZero(f)
        BY <3>1, <4>1 DEF GivenAreEvents, HighestIsZero, fileVars
      <4>3. \A f : /\ LastIsTime(f)' = LastIsTime(f)
                   /\ FallsAreCounted(f)' = FallsAreCounted(f)
                   /\ StampsOf(f)' = StampsOf(f)
        BY <3>1, <4>1 DEF LastIsTime, FallsAreCounted, StampsOf, LowBytes, fileVars, groupedVars
      <4>4. QED
        BY <3>3, <4>2, <4>3 DEF InductiveInv, GroupedInv, GroupedOf
    <3>10. TwoFibersInv'
      BY <3>1, <3>3 DEF InductiveInv, TwoFibersInv, TwoFibersOf, fileVars
    <3>11. QED
      BY <3>2, <3>6, <3>7, <3>8, <3>9, <3>10 DEF InductiveInv
  <2>3. QED
    BY <2>1, <2>2 DEF Next
<1>3. QED
  BY <1>1, <1>2, PTL DEF Spec, Starts

-----------------------------------------------------------------------------
(* The timestamps of the grouped events of one file.                       *)
LEMMA GroupedFallBack ==
  ASSUME Typed, NEW f \in Files, class[f] = "EventGrouped", GroupedOf(f), HighestIsZero(f)
  PROVE  /\ given[f] # << >> => i_spill_count[f] = Cardinality(FallsOf(f))
         /\ i_spill_count[f] < Byte =>
              /\ \A i \in FallsOf(f) : given[f][i + 1].ts[1] < given[f][i].ts[1]
              /\ \A i \in 1 .. Len(given[f]) - 1 :
                   Before(Since(TimeOf(f, i)), Since(TimeOf(f, i + 1))) =>
                     given[f][i].ts[1] < given[f][i + 1].ts[1]
<1>1. DOMAIN given[f] = 1 .. Len(given[f]) /\ Len(given[f]) \in Nat
  BY AppendIsSeq DEF Typed, FilesTyped
<1>2. \A i \in 1 .. Len(given[f]) - 1 : i \in DOMAIN given[f] /\ i + 1 \in DOMAIN given[f]
  BY <1>1
<1>3. FallsAreCounted(f)
  BY DEF GroupedOf
<1>4. ASSUME NEW i \in 1 .. Len(given[f]) - 1, i_spill_count[f] < Byte
      PROVE  /\ i \in FallsOf(f) => given[f][i + 1].ts[1] < given[f][i].ts[1]
             /\ Before(Since(TimeOf(f, i)), Since(TimeOf(f, i + 1))) =>
                  given[f][i].ts[1] < given[f][i + 1].ts[1]
  BY <1>2, <1>4, StampsFallBack DEF FallsOf
<1>5. QED
  BY <1>3, <1>4 DEF FallsAreCounted, FallsOf

LEMMA GroupedFollows ==
  InductiveInv => GroupedTimesFallBack /\ StampsAreTimes
<1> SUFFICES ASSUME InductiveInv, NEW f \in OfClass("EventGrouped")
             PROVE  HighestIsZero(f) =>
                      /\ given[f] # << >> => i_spill_count[f] = Cardinality(FallsOf(f))
                      /\ i_spill_count[f] < Byte =>
                           /\ \A i \in FallsOf(f) :
                                given[f][i + 1].ts[1] < given[f][i].ts[1]
                           /\ \A i \in 1 .. Len(given[f]) - 1 :
                                Before(Since(TimeOf(f, i)), Since(TimeOf(f, i + 1))) =>
                                  given[f][i].ts[1] < given[f][i + 1].ts[1]
                      /\ LastIsTime(f) /\ StampsOf(f)
  BY DEF GroupedTimesFallBack, StampsAreTimes, HighestIsZero, FallsOf, TimeOf,
         LastIsTime, StampsOf
<1>1. f \in Files /\ class[f] = "EventGrouped" /\ GroupedOf(f) /\ Typed
  BY DEF InductiveInv, GroupedInv, OfClass
<1>2. HighestIsZero(f) => LastIsTime(f) /\ StampsOf(f)
  BY <1>1 DEF GroupedOf
<1>3. QED
  BY <1>1, <1>2, GroupedFallBack

LEMMA PolarfireFollows ==
  InductiveInv =>
    /\ PolarfireGivesSpills
    /\ PolarfireSpillsRise /\ SpillsAreCounted /\ SkippingIsExplained /\ RestIsLost
<1> SUFFICES ASSUME InductiveInv
             PROVE  /\ PolarfireGivesSpills
                    /\ PolarfireSpillsRise /\ SpillsAreCounted
                    /\ SkippingIsExplained /\ RestIsLost
  OBVIOUS
<1>1. \A f \in OfClass("Polarfire") : PolarfireOf(f)
  BY DEF InductiveInv, PolarfireInv
<1>2. PolarfireGivesSpills
  BY <1>1 DEF PolarfireGivesSpills, PolarfireOf, GivesWantedOf, LostOf
<1>3. PolarfireSpillsRise
  BY <1>1 DEF PolarfireSpillsRise, PolarfireOf, RiseOf
<1>4. SpillsAreCounted
  BY <1>1 DEF SpillsAreCounted, PolarfireOf, CountedOf, LastEventOf, GivenSpillsOf
<1>5. SkippingIsExplained
  BY <1>1 DEF SkippingIsExplained, PolarfireOf, SkipOf, InductiveInv, PolarfireInv,
              KeepIsExplained
<1>6. RestIsLost
  BY <1>1 DEF RestIsLost, PolarfireOf, FirstsOf, RestOf
<1>7. QED
  BY <1>2, <1>3, <1>4, <1>5, <1>6

LEMMA WhiteRabbitFollows ==
  InductiveInv => WhiteRabbitSpills /\ LastSpillIsRecord
BY DEF InductiveInv, WhiteRabbitInv, WhiteRabbitSpills, LastSpillIsRecord, SpillsOf,
       LastSpillOf, Triggers, OfChannel1

LEMMA TrackerFollows ==
  InductiveInv => TrackersFail
BY DEF InductiveInv, TrackerInv, TrackersFail, FailsOf,
       CutOrMadeUp, OfClass

LEMMA TypeFollows == InductiveInv => TypeOK
<1> SUFFICES ASSUME Typed PROVE TypeOK
  BY DEF InductiveInv
<1>1. \A f \in Files : pos[f] \in 0 .. Len(data[f])
  <2>1. ASSUME NEW f \in Files PROVE pos[f] \in 0 .. Len(data[f])
    <3>1. pos[f] \in Nat /\ Len(data[f]) \in Nat /\ pos[f] <= Len(data[f])
      BY ReadsWithin DEF Typed
    <3>2. QED
      BY <3>1
  <2>2. QED
    BY <2>1
<1>2. QED
  BY <1>1 DEF TypeOK, Typed, FilesTyped, PolarfireTyped, WhiteRabbitTyped, GroupedTyped

LEMMA TwoFibersFollow ==
  InductiveInv => TwoFibersAreEmpty /\ TwoFibersFail
BY DEF InductiveInv, TwoFibersInv, TwoFibersOf, IsEmpty, TwoFibersAreEmpty, TwoFibersFail

(* The invariant of the files: the types, what each Polarfire has counted  *)
(* and why spills are skipped, the timestamps of the grouped events, and   *)
(* that there is nothing in a packet of the two fibers.                    *)
THEOREM FilesInvariant == Spec => []RawInv
<1>1. InductiveInv => RawInv
  BY TypeFollows, PolarfireFollows, WhiteRabbitFollows, TrackerFollows, GroupedFollows,
     TwoFibersFollow DEF RawInv
<1>2. QED
  BY <1>1, FilesInduction, PTL

(* A Polarfire gives all events in the range of ticks from the spill after *)
(* the skipped ones on, with the number of their spill, unless another     *)
(* file has come to its end while it skipped.                              *)
THEOREM PolarfireAlwaysGivesSpills == Spec => []PolarfireGivesSpills
<1>1. InductiveInv => PolarfireGivesSpills
  BY PolarfireFollows
<1>2. QED
  BY <1>1, FilesInduction, PTL

(* White Rabbit gives every record of channels 1 and 2, and takes every    *)
(* one of channel 1 for a new spill.                                       *)
THEOREM WhiteRabbitAlwaysCounts == Spec => []WhiteRabbitSpills
<1>1. InductiveInv => WhiteRabbitSpills
  BY WhiteRabbitFollows
<1>2. QED
  BY <1>1, FilesInduction, PTL

(* The timestamps of grouped events fall back with every spill.            *)
THEOREM GroupedTimesAlwaysFallBack == Spec => []GroupedTimesFallBack
<1>1. InductiveInv => GroupedTimesFallBack
  BY GroupedFollows
<1>2. QED
  BY <1>1, FilesInduction, PTL

=============================================================================
