---------------------------- MODULE MCRawDataFiles ----------------------------
(***************************************************************************)
(* Instances of RawDataFiles for TLC: two Polarfire files, one file of     *)
(* another class beside an empty Polarfire file, or one of the two fibers  *)
(* and one of a tracker.                                                   *)
(***************************************************************************)
EXTENDS RawDataFiles

CONSTANTS MaxItems, MaxPolarfire   (* bounds: the items of a file *)

UpTo(n, S) == UNION {[1 .. m -> S] : m \in 0 .. n}

(* The items that end a file come last.                                    *)
WithEnd(files, ends) ==
  files \union {Append(s, e) : s \in files, e \in ends}

Cut == [kind |-> "cut"]
Word == [kind |-> "word"]

PolarfireData(n, ticks, words, ends) ==
  WithEnd(UpTo(n, words \union
            {[kind |-> "event", spill |-> s, ticks |-> t] :
               s \in {1, 2}, t \in ticks}),
          ends)

WhiteRabbitData ==
  WithEnd(UpTo(MaxItems, {[kind |-> "record", channel |-> c, seconds |-> s,
                           coarse |-> 1] : c \in 1 .. 3, s \in {1, 3, 9}}),
          {Cut})

TrackerCut(times) == [kind |-> "cut", times |-> times]

Spill(times) ==
  [kind |-> "spill", times |-> times, rest |-> 0, restTime |-> <<9, 9>>]

TrackerData ==
  WithEnd(UpTo(2, {[kind |-> "spill", times |-> t, rest |-> r,
                    restTime |-> <<9, 9>>] :
                     t \in {<< >>, << <<1, 5>> >>, << <<1, 5>>, <<2, 0>> >>},
                     r \in {0, 3, 4}}),
          {TrackerCut(<< >>), TrackerCut(<< <<3, 1>>, <<0, 0>> >>),
           [kind |-> "bad"]})

GroupedData ==
  WithEnd(UpTo(MaxItems, {[kind |-> "bytes", time |-> t] :
                            t \in {0, 1} \X {0, 1} \X {0, 2} \X {0, 1}}),
          {Cut})

TwoFibersData ==
  UpTo(5, {[kind |-> "boundary"], [kind |-> "word"]})

(* Words of the memory: columns with the phrases and the separators in     *)
(* every place.                                                            *)
Halves == {<<247, 251>>, <<188, 124>>, <<188, 5>>, <<5, 188>>, <<6, 10>>,
           <<255, 255>>}
MCLeftovers ==
  {a \o b \o c \o d : a, b \in Halves, c, d \in {<<5, 188>>, <<6, 10>>, <<255, 255>>}}

One(c, contents) ==
  /\ class = <<c, "Polarfire">> /\ offset = <<0, 0>>
  /\ \E d \in contents : data = <<d, << >> >>

MCInit ==
  /\ \/ \E d1 \in PolarfireData(MaxPolarfire, {MaxTick, MaxTick + 1}, {}, {}) :
        \E d2 \in PolarfireData(MaxPolarfire - 1, {MinTick - 1, MinTick}, {Word},
                                {Cut, [kind |-> "bad"]}) :
        \E n \in 0 .. 1 :
          /\ class = <<"Polarfire", "Polarfire">> /\ data = <<d1, d2>>
          /\ offset = <<0, n>>
     \/ One("WhiteRabbit", WhiteRabbitData)
     \/ One("FiberTracker", TrackerData)
     \/ One("EventGrouped", GroupedData)
     \/ One("TwoFibers", TwoFibersData)
     \/ /\ class = <<"TwoFibers", "FiberTracker">> /\ offset = <<0, 0>>
        /\ \E words \in UpTo(4, {Word, [kind |-> "boundary"]}) :
             data = <<words, <<Spill(<< <<1, 5>> >>)>> >>
  /\ Created

MCSpec == MCInit /\ [][Next]_vars
=============================================================================
