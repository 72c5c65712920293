------------------------ MODULE HCalTestBeamMonitor ------------------------
(***************************************************************************)
(* HCalTestBeamMonitor, which decodes the block of its FPGA in every event *)
(* it gets and fills histograms.  A histogram is the set of its fills,     *)
(* each with the count of the event, so that no two are the same; what a   *)
(* fill says is kept, binning is not.  The histograms of a chip for ADC,   *)
(* TOT and TOA are filled together and are one set, with the samples.      *)
(***************************************************************************)
EXTENDS HgcrocRawDecode, CSVParser

CONSTANTS
  FpgaId,          (* block_, FPGA_ID                                      *)
  EventsPerReset,  (* nevents_reset, NRESET                                *)
  EventsPerSpill,  (* nevents_spill, NSPILL                                *)
  DaqMap           (* the table HCALDAQMAP                                 *)

ASSUME PeriodsAssumption == EventsPerReset \in Nat \ {0} /\ EventsPerSpill \in Nat \ {0}

VARIABLES
  nevents,
  histos,  (* the histograms, see Booked                                   *)
  w        (* the static variable of decode                                *)

monitorVars == <<nevents, histos, w>>

Unusedchans == {8, 17, 26, 35, 44, 53, 62, 71, 72}
NPlanes == 19
Bars == 0 .. 11
Rocs == 0 .. 2

(* The histograms, which are booked anew: samples are adc_, tot_ and       *)
(* toa_histo_map, max is max_sample_histo_map, place maxsample_maxadc_1 to *)
(* 4 and hits hcalhits_top and _bot; those with reset are reset.           *)
Booked ==
  [samples |-> {}, samplesReset |-> {}, max |-> {}, maxReset |-> {},
   place |-> {}, hits |-> {}, hitsReset |-> {}, hcal_event |-> {}]

AtConfiguration == nevents' = 0 /\ histos' = Booked /\ UNCHANGED w

-----------------------------------------------------------------------------
(* Where a channel is: plane, bar in the plane, and end of the bar.        *)
BarOf(plane, bar, quadbar) ==
  (IF plane % 2 = 1 THEN 4 - bar ELSE bar - 1) + (quadbar - 1) * 4

CMBMap == buildDaqMap(DaqMap, "CMB")
PlaneMap == buildDaqMap(DaqMap, "Plane")
BarMap == buildDaqMap(DaqMap, "Bar")
QuadbarMap == buildDaqMap(DaqMap, "Quadbar")

Nowhere == [plane |-> -9999, end |-> -1, bar |-> -50000]

Places ==
  << >> @@ [eid \in DOMAIN CMBMap |->
              [plane |-> PlaneMap[eid], end |-> CMBMap[eid] % 2,
               bar |-> BarOf(PlaneMap[eid], BarMap[eid], QuadbarMap[eid])]]

Place(eid) == IF eid \in DOMAIN Places THEN Places[eid] ELSE Nowhere

(* The places that have a histogram of their own.                          *)
Special == [plane : {1}, bar : {3, 4}, end : {0, 1}]
             \union [plane : {12}, bar : {5, 6}, end : {0, 1}]

Adcs(list) == {adc_t(list[k]) : k \in DOMAIN list}
MaxAdc(list) == Max(Adcs(list))
TimestampOfMax(list) == Min({k \in DOMAIN list : adc_t(list[k]) = MaxAdc(list)}) - 1

(* A pulse is taken for a hit by its height above the lowest sample.       *)
Adcthreshold == 20
IsAboveThreshold(list) == MaxAdc(list) >= Min(Adcs(list)) + Adcthreshold

(* Below plane 10 a plane has two bars less at the bottom.                 *)
Drawn(plane, bar) == IF plane < 10 THEN bar + 2 ELSE bar

-----------------------------------------------------------------------------
(* What the event adds to each histogram.                                  *)
UsedChannels(lists) == {eid \in DOMAIN lists : eid[3] \notin Unusedchans}
OfBookedRoc(lists) == {eid \in UsedChannels(lists) : eid[2] \in Rocs}

Measured(list) ==
  [k \in DOMAIN list |-> <<adc_t(list[k]), tot(list[k]), toa(list[k])>>]

(* The samples of a channel are one fill.                                  *)
SampleFills(lists) ==
  {[ev |-> nevents, eid |-> eid, samples |-> Measured(lists[eid])] :
     eid \in OfBookedRoc(lists)}

MaxFills(lists) ==
  {[ev |-> nevents, eid |-> eid, max |-> TimestampOfMax(lists[eid])] :
     eid \in OfBookedRoc(lists)}

PlaceFills(lists) ==
  {[ev |-> nevents, place |-> Place(eid), max |-> TimestampOfMax(lists[eid])] :
     eid \in {e \in UsedChannels(lists) : Place(e) \in Special}}

HitFills(lists) ==
  {[ev |-> nevents, eid |-> eid, top |-> Place(eid).end # 0,
    plane |-> Place(eid).plane,
    bar   |-> Drawn(Place(eid).plane, Place(eid).bar)] :
     eid \in {e \in UsedChannels(lists) : IsAboveThreshold(lists[e])}}

(* Of channels with the same place the first one counts.                   *)
FirstOf(eids) ==
  CHOOSE eid \in eids : \A e \in eids : e = eid \/ LocationBefore(eid, e)

ChannelsAt(lists, plane, bar, end) ==
  {eid \in UsedChannels(lists) :
     Place(eid) = [plane |-> plane, end |-> end, bar |-> bar]}

(* The ends of a bar above threshold, if both have been read out.          *)
EndsAbove(lists, plane, bar) ==
  LET At(end) == ChannelsAt(lists, plane, bar, end)
  IN  IF At(0) # {} /\ At(1) # {}
        THEN {end \in {0, 1} : IsAboveThreshold(lists[FirstOf(At(end))])}
        ELSE {}

BarsRead(lists) ==
  {<<Place(eid).plane, Place(eid).bar>> : eid \in UsedChannels(lists)}

BarFills(lists) ==
  {[ev |-> nevents, plane |-> pb[1], bar |-> Drawn(pb[1], pb[2]),
    sum |-> Cardinality(EndsAbove(lists, pb[1], pb[2]))] :
     pb \in {pb \in BarsRead(lists) : /\ pb[1] \in 1 .. NPlanes /\ pb[2] \in Bars
                                      /\ EndsAbove(lists, pb[1], pb[2]) # {}}}

(* An empty histogram, or the one there is; the fault: reset at every      *)
(* event but the first.                                                    *)
ResetLate(per, histogram) == IF nevents % per = 1 THEN {} ELSE histogram
ResetAt(per, histogram) == IF nevents % per = 0 THEN {} ELSE histogram

(* The event display is filled only with the event that resets it.  An     *)
(* event without the block is decoded as one without channels.             *)
Filled(lists) ==
  [samples      |-> histos.samples \union SampleFills(lists),
   samplesReset |-> ResetAt(EventsPerReset, histos.samplesReset)
                      \union SampleFills(lists),
   max          |-> histos.max \union MaxFills(lists),
   maxReset     |-> ResetAt(EventsPerReset, histos.maxReset)
                      \union MaxFills(lists),
   place        |-> histos.place \union PlaceFills(lists),
   hits         |-> histos.hits \union HitFills(lists),
   hitsReset    |-> ResetAt(EventsPerReset, histos.hitsReset)
                      \union HitFills(lists),
   hcal_event   |-> IF nevents % EventsPerSpill = 0 THEN BarFills(lists)
                                                    ELSE histos.hcal_event]

AtEventReception(block) ==
  LET d == decode(block, w)
  IN  /\ w' = d.w
      /\ IF d.thrown THEN UNCHANGED <<nevents, histos>>
                     ELSE histos' = Filled(d.lists) /\ nevents' = nevents + 1

=============================================================================
