---------------------------- MODULE RawDataFiles ----------------------------
(***************************************************************************)
(* The raw data files attached to one run of reformat: each is created as  *)
(* the class that its configuration names, and next() is asked of one file *)
(* after another, in any order, until it gives nothing.                    *)
(***************************************************************************)
EXTENDS PolarfireRawFile, WhiteRabbitRawFile, FiberTrackerRawFile,
        TrigScintEventGroupedRawFile, TrigScintTwoFibersRawFile, FiniteSets

vars == <<fileVars, polarfireVars, whiteRabbitVars, trackerVars, groupedVars>>

Classes ==
  {"Polarfire", "WhiteRabbit", "FiberTracker", "EventGrouped", "TwoFibers"}

ItemOf(c) ==
  CASE c = "Polarfire" -> PolarfireItem
    [] c = "WhiteRabbit" -> WhiteRabbitItem
    [] c = "FiberTracker" -> TrackerItem
    [] c = "EventGrouped" -> GroupedItem
    [] c = "TwoFibers" -> TwoFibersItem

(* What may be in the files.                                               *)
Contents ==
  \A f \in Files : data[f] \in Seq(ItemOf(class[f])) /\ CutComesLast(data[f])

TypeOK ==
  /\ Contents
  /\ class \in [Files -> Classes]
  /\ \A f \in Files : pos[f] \in 0 .. Len(data[f])
  /\ failed \subseteq Files
  /\ state \in [Files -> {"open", "done", "thrown"}]
  /\ asked \subseteq Files
  /\ \A f \in Files : \A i \in DOMAIN given[f] : given[f][i].at \in 1 .. pos[f]
  /\ keep_current_spill \subseteq BOOLEAN
  /\ i_spill_ \in [Files -> Nat] /\ spills_to_skip_ \in [Files -> Nat]
  /\ \A f \in Files : i_spill[f] >= -1 /\ i_spill_count[f] >= -1

(* A file is created with its contents, and only the constructor of the    *)
(* two fibers reads it.                                                    *)
Created ==
  /\ pos = [f \in Files |->
             IF class[f] = "TwoFibers" THEN Started(data[f]) ELSE 0]
  /\ failed = {f \in Files : class[f] = "TwoFibers" /\ NeverStarted(data[f])}
  /\ FileInit /\ PolarfireInit /\ WhiteRabbitInit /\ TrackerInit /\ GroupedInit

next(f) ==
  \/ /\ PolarfireNext(f)
     /\ UNCHANGED <<whiteRabbitVars, trackerVars, groupedVars>>
  \/ /\ WhiteRabbitNext(f)
     /\ UNCHANGED <<polarfireVars, trackerVars, groupedVars>>
  \/ /\ TrackerNext(f)
     /\ UNCHANGED <<polarfireVars, whiteRabbitVars, groupedVars>>
  \/ /\ GroupedNext(f)
     /\ UNCHANGED <<polarfireVars, whiteRabbitVars, trackerVars>>
  \/ /\ TwoFibersNext(f)
     /\ UNCHANGED <<polarfireVars, whiteRabbitVars, trackerVars, groupedVars>>

Next == \E f \in Files : next(f)

(* Any contents, classes and offsets of the spills.                        *)
Spec ==
  /\ class \in [Files -> Classes] /\ offset \in [Files -> Nat] /\ Contents
  /\ Created
  /\ [][Next]_vars

-----------------------------------------------------------------------------
OfClass(c) == {f \in Files : class[f] = c}

Given(f) == {given[f][i].at : i \in DOMAIN given[f]}

(* A Polarfire gives its packets in the order of the file, and numbers     *)
(* their spills: the count in the timestamp never falls, and two packets   *)
(* have the same count only if they come from spills of the same number.   *)
PolarfireSpillsRise ==
  \A f \in OfClass("Polarfire") : \A j \in DOMAIN given[f] : \A i \in 1 .. j - 1 :
    LET p == given[f][i]
        q == given[f][j]
    IN  /\ p.at < q.at
        /\ p.ts[1] <= q.ts[1]
        /\ p.ts[1] = q.ts[1] => data[f][p.at].spill = data[f][q.at].spill

(* The events in the range of ticks among the items read, those with which *)
(* a spill begins, and the number of the spill that the event at k is in.  *)
SpillEvents(f) ==
  {k \in 1 .. pos[f] : /\ data[f][k].kind = "event"
                       /\ data[f][k].ticks \in MinTick .. MaxTick}

Openings(f) ==
  {k \in SpillEvents(f) : \A j \in SpillEvents(f) :
     j < k /\ (\A i \in SpillEvents(f) : i < k => i <= j) =>
       data[f][j].spill # data[f][k].spill}

SpillOf(f, k) == Cardinality({j \in Openings(f) : j <= k})

Wanted(f) == {k \in SpillEvents(f) : SpillOf(f, k) > offset[f]}

(* Another file has come to its end while it skipped its first spills.     *)
OtherEndsSkipping(f) ==
  \E g \in OfClass("Polarfire") \ {f} :
    state[g] = "done" /\ offset[g] > 0 /\ Wanted(g) = {}

(* A Polarfire gives all events in the range of ticks from the spill after *)
(* the skipped ones on, with the number of their spill.  Only if another   *)
(* file comes to its end while it skips is the rest of the current spill   *)
(* lost: keep_current_spill, which they share, stays false.                *)
PolarfireGivesSpills ==
  \A f \in OfClass("Polarfire") :
    /\ Given(f) \subseteq Wanted(f)
    /\ \A i \in DOMAIN given[f] :
         given[f][i].ts[1] = SpillOf(f, given[f][i].at) - offset[f]
    /\ \A k \in Wanted(f) \ Given(f) :
         /\ OtherEndsSkipping(f)
         /\ \E j \in Given(f) : SpillOf(f, j) = SpillOf(f, k)
         /\ \A j \in Given(f) : SpillOf(f, j) = SpillOf(f, k) => j < k

(* White Rabbit takes every record of channel 1 for a new spill: seconds   *)
(* minus nanoseconds wraps around to more than five, unless the clock has  *)
(* just begun to count or is about to overflow.                            *)
Records(f) == {k \in DOMAIN data[f] : data[f][k].kind = "record"}

NanosecondsAreMore ==
  \A f \in OfClass("WhiteRabbit") : \A j, k \in Records(f) :
    data[f][k].seconds < SpillTime(data[f][j]) /\ SpillTime(data[f][j]) < Word64 - 5

WhiteRabbitSpills == NanosecondsAreMore =>
  \A f \in OfClass("WhiteRabbit") :
    /\ Given(f) = {k \in 1 .. pos[f] : /\ data[f][k].kind = "record"
                                       /\ data[f][k].channel \in {1, 2}}
    /\ i_spill[f] + 1 = Cardinality({k \in Given(f) : data[f][k].channel = 1})

(* The timestamps of grouped events do not tell the spills apart: as long  *)
(* as the highest byte of the time since the spill is zero, the timestamp  *)
(* falls back with every spill that is counted, and only then, up to as    *)
(* many spills as a byte can count.                                        *)
Since(time) == <<time[2], time[3], time[4]>>

Before(s, t) ==
  \E n \in 1 .. 3 : s[n] < t[n] /\ \A m \in 1 .. n - 1 : s[m] = t[m]

GroupedTimesFallBack ==
  \A f \in OfClass("EventGrouped") :
    LET Time(i) == data[f][given[f][i].at].time
        Stamp(i) == given[f][i].ts[1]
        Pairs == 1 .. Len(given[f]) - 1
        Falls == {i \in Pairs : Before(Since(Time(i + 1)), Since(Time(i)))}
    IN  (\A i \in DOMAIN given[f] : Time(i)[1] = 0) =>
          /\ given[f] # << >> => i_spill_count[f] = Cardinality(Falls)
          /\ i_spill_count[f] < Byte =>
               /\ \A i \in Falls : Stamp(i + 1) < Stamp(i)
               /\ \A i \in Pairs : Before(Since(Time(i)), Since(Time(i + 1))) =>
                     Stamp(i) < Stamp(i + 1)

(* No packet of the two fibers has a sample or an error in it, and there   *)
(* is only one per file, unless the memory happens to hold the boundary.   *)
TwoFibersAreEmpty ==
  \A f \in OfClass("TwoFibers") : \A i \in DOMAIN given[f] :
    /\ given[f][i].samples = 0
    /\ \A e \in DOMAIN given[f][i].errors : ~given[f][i].errors[e]
    /\ i < Len(given[f]) => given[f][i].ts = Ones

-----------------------------------------------------------------------------
(* Why these hold.  A Polarfire has counted the spills that have begun,    *)
(* the skipped ones first, and knows the spill of the last event.          *)
IsLast(f, k) == k \in SpillEvents(f) /\ \A j \in SpillEvents(f) : j <= k

SpillsAreCounted ==
  \A f \in OfClass("Polarfire") :
    /\ spills_to_skip_[f] <= offset[f]
    /\ i_spill_[f] > 0 => spills_to_skip_[f] = 0
    /\ Cardinality(Openings(f)) = i_spill_[f] + offset[f] - spills_to_skip_[f]
    /\ IF SpillEvents(f) = {}
         THEN spill_[f] = -1
         ELSE \E k \in SpillEvents(f) : IsLast(f, k) /\ spill_[f] = data[f][k].spill
    /\ \A i \in DOMAIN given[f] :
         /\ given[f][i].ts[1] <= i_spill_[f]
         /\ given[f][i].ts[1] = i_spill_[f] => data[f][given[f][i].at].spill = spill_[f]

(* A file that skips a spill is asked until it has skipped all it has to,  *)
(* so keep_current_spill is false only in it or after it has ended so.     *)
SkipsIn(f) == asked = {f} /\ keep_current_spill = {FALSE}

SkippingIsExplained ==
  /\ keep_current_spill = {} => \A f \in OfClass("Polarfire") : SpillEvents(f) = {}
  /\ keep_current_spill = {FALSE} =>
       \E g \in OfClass("Polarfire") :
         offset[g] > 0 /\ Wanted(g) = {} /\ (asked = {g} \/ state[g] # "open")
  /\ \A f \in OfClass("Polarfire") :
       state[f] = "open" /\ SpillEvents(f) # {} /\ i_spill_[f] = 0 => SkipsIn(f)

(* The first event of a spill that is wanted is given, and what is lost of *)
(* the current spill is lost in one call of next().                        *)
RestIsLost ==
  \A f \in OfClass("Polarfire") :
    /\ Openings(f) \intersect Wanted(f) \subseteq Given(f)
    /\ \A k \in Wanted(f) \ Given(f) :
         SpillOf(f, k) = Cardinality(Openings(f)) => state[f] # "open" \/ SkipsIn(f)

LastSpillIsRecord ==
  \A f \in OfClass("WhiteRabbit") : i_spill[f] >= 0 =>
    \E k \in Records(f) : last_spill_time_[f] = SpillTime(data[f][k])

(* The reader of a fiber tracker fails where the file is cut short, or in  *)
(* the read past its end that throws, or makes a packet up.                *)
TrackersFail ==
  \A f \in OfClass("FiberTracker") \intersect failed :
    \/ state[f] = "thrown"
    \/ data[f] # << >> /\ data[f][Len(data[f])].kind = "cut"
    \/ \E i \in DOMAIN given[f] : given[f][i].ts = <<0, 0>>

(* A timestamp of a grouped event is its time, give or take the spills.    *)
StampsAreTimes ==
  \A f \in OfClass("EventGrouped") :
    LET Time(i) == data[f][given[f][i].at].time
    IN  (\A i \in DOMAIN given[f] : Time(i)[1] = 0) =>
          /\ given[f] = << >> =>
               i_spill_count[f] = -1 /\ last_event_time[f] = Word32 - 1
          /\ given[f] # << >> => last_event_time[f] = LowBytes(Time(Len(given[f])))
          /\ i_spill_count[f] < Byte =>
               \A i \in DOMAIN given[f] :
                 /\ LowBytes(Time(i)) <= given[f][i].ts[1]
                 /\ given[f][i].ts[1] <= LowBytes(Time(i)) + i_spill_count[f]

(* All of the file has gone into a packet of the two fibers but if the     *)
(* memory held the boundary.                                               *)
TwoFibersFail ==
  \A f \in OfClass("TwoFibers") : given[f] # << >> =>
    f \in failed \/ given[f][Len(given[f])].ts = Ones

RawInv ==
  /\ TypeOK
  /\ PolarfireSpillsRise
  /\ SpillsAreCounted /\ SkippingIsExplained /\ RestIsLost
  /\ LastSpillIsRecord /\ TrackersFail /\ StampsAreTimes
  /\ TwoFibersAreEmpty /\ TwoFibersFail

(* What is said of next().  Of the two fibers: "We read 64-bit words until *)
(* the boundary word (all F's) is encountered".                            *)
ReadsToBoundary ==
  \A f \in OfClass("TwoFibers") : given[f] # << >> =>
    \A i \in given[f][Len(given[f])].at + 1 .. pos[f] - 1 :
      data[f][i].kind # "boundary"

(* Of any: "Return the empty braces {} to signal that the file is all      *)
(* done".  A file of whole spills, each of whole events, is all done after *)
(* the last of them.                                                       *)
WholeSpills(f) ==
  /\ data[f] # << >>
  /\ \A k \in DOMAIN data[f] :
       data[f][k].kind = "spill" /\ data[f][k].times # << >> /\ data[f][k].rest = 0

TrackerFilesEnd ==
  \A f \in OfClass("FiberTracker") : WholeSpills(f) => state[f] # "thrown"

(* At no time are both false: where this is violated neither is true.      *)
BoundaryOrEndIsSeen == ReadsToBoundary \/ TrackerFilesEnd

=============================================================================
