-------------------- MODULE TestBeamEventDisplayMonitor --------------------
(***************************************************************************)
(* TestBeamEventDisplayMonitor, which draws the charge in every bar of one *)
(* event.  An event that is not drawn is not counted.  Charges are in      *)
(* steps of the ADC above the pedestal, times the gain.                    *)
(***************************************************************************)
EXTENDS HgcrocRawDecode, CSVParser

CONSTANTS
  DisplayReset,   (* nevents_reset, NRESET                                 *)
  DisplayFpga,    (* block_, FPGA_ID                                       *)
  DisplayDaqMap,  (* the table HCALDAQMAP                                  *)
  GainMap         (* the table HCALGAIN                                    *)

ASSUME DisplayResetAssumption == DisplayReset \in Nat \ {0}

VARIABLES
  counted,   (* nevents                                                    *)
  drawn,     (* hcal_event, and history: the event that is drawn, if any   *)
  wd         (* the static variable of decode in this process              *)

displayVars == <<counted, drawn, wd>>

DisplayConfigured ==
  counted' = 0 /\ drawn' = [event |-> 0, bars |-> {}] /\ UNCHANGED wd

DisplayPlanes == 19

NotRead == {8, 17, 26, 35, 44, 53, 62, 71, 72}

(* Bars are counted down in all planes.                                    *)
CMBs == buildDaqMap(DisplayDaqMap, "CMB")
Planes == buildDaqMap(DisplayDaqMap, "Plane")
BarsOfQuadbar == buildDaqMap(DisplayDaqMap, "Bar")
Quadbars == buildDaqMap(DisplayDaqMap, "Quadbar")

DrawnPlaces ==
  << >> @@ [eid \in DOMAIN CMBs |->
              [plane |-> Planes[eid], end |-> CMBs[eid] % 2,
               bar |-> (4 - BarsOfQuadbar[eid]) + (Quadbars[eid] - 1) * 4]]

PlaceOf(eid) ==
  IF eid \in DOMAIN DrawnPlaces
    THEN DrawnPlaces[eid] ELSE [plane |-> -9999, end |-> -1, bar |-> -29997]

(* A charge below the pedestal, or of a channel without calibration, is 0: *)
(* the gain is then negative.                                              *)
Gain == buildThresholdMap(GainMap, "ADC_GAIN")
Ped == buildThresholdMap(GainMap, "ADC_PEDESTAL")

Charge(eid, list) ==
  LET adc == Max({adc_t(list[k]) : k \in DOMAIN list})
  IN  IF eid \in DOMAIN Gain THEN Max({0, (adc - Ped[eid]) * Gain[eid]}) ELSE 0

ReadOut(lists) == {eid \in DOMAIN lists : eid[3] \notin NotRead}

(* The sum of both ends, if both have been read out; of channels with the  *)
(* same place the first one counts.                                        *)
BarCharge(lists, plane, bar) ==
  LET At(end) == {eid \in ReadOut(lists) :
                    PlaceOf(eid) = [plane |-> plane, end |-> end, bar |-> bar]}
      First(eids) == CHOOSE eid \in eids :
                       \A e \in eids : e = eid \/ LocationBefore(eid, e)
      Q(end)  == Charge(First(At(end)), lists[First(At(end))])
  IN  IF At(0) # {} /\ At(1) # {} THEN Q(0) + Q(1) ELSE 0

(* The bars that have a charge.                                            *)
Display(lists) ==
  {d \in {<<PlaceOf(eid).plane, PlaceOf(eid).bar,
            BarCharge(lists, PlaceOf(eid).plane, PlaceOf(eid).bar)>> :
             eid \in ReadOut(lists)} :
     d[1] \in 1 .. DisplayPlanes /\ d[2] \in 0 .. 11 /\ d[3] > 0}

(* Which events are drawn; the fault: all are.                             *)
AlwaysNew == TRUE
NewSpill == counted % DisplayReset = 0

DrawEvent(n, block) ==
  LET d == decode(block, wd)
  IN  IF ~NewSpill THEN UNCHANGED displayVars
      ELSE IF d.thrown
        THEN drawn' = [event |-> 0, bars |-> {}] /\ wd' = d.w /\ UNCHANGED counted
        ELSE /\ drawn' = [event |-> n, bars |-> Display(d.lists)]
             /\ counted' = counted + 1 /\ wd' = d.w

=============================================================================
