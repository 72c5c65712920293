----------------------- MODULE TestBeamDataCollector -----------------------
(***************************************************************************)
(* TestBeamDataCollector: it numbers the events of all producers in their  *)
(* order of arrival, whatever they belong to, and gives the monitors one   *)
(* of every m_fraction.  Every monitor gets the events in this order.      *)
(***************************************************************************)
EXTENDS Naturals, Sequences

CONSTANTS
  Fraction   (* m_fraction, EUDAQ_DATACOL_SEND_MONITOR_FRACTION            *)

ASSUME FractionAssumption == Fraction \in Nat \ {0}

VARIABLES
  m_evt_c,
  run_c,      (* GetRunNumber() of the collector                           *)
  received,   (* history: the events, with their numbers                   *)
  delivered   (* the events given to the monitors                          *)

collectorVars == <<m_evt_c, run_c, received, delivered>>

CollectorInit ==
  m_evt_c = 0 /\ run_c = 0 /\ received = << >> /\ delivered = << >>

(* What the base class does when a run is started.                         *)
CollectorStarts(run) ==
  run_c' = run /\ m_evt_c' = 0 /\ UNCHANGED <<received, delivered>>

(* Which events are sent on; the fault: the count before this one decides. *)
FirstOfFraction(count) == (count - 1) % Fraction = 0
IsSent(count) == count % Fraction = 0

Received == [event : Nat, run : Nat, n : Nat]

Numbered(event) == [event |-> event, run |-> run_c, n |-> m_evt_c]

DoReceive(event) ==
  /\ received' = Append(received, Numbered(event))
  /\ m_evt_c' = m_evt_c + 1
  /\ delivered' = IF IsSent(m_evt_c') THEN Append(delivered, Numbered(event))
                                      ELSE delivered
  /\ UNCHANGED run_c

=============================================================================
