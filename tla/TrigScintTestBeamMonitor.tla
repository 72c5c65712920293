---------------------- MODULE TrigScintTestBeamMonitor ----------------------
(***************************************************************************)
(* TrigScintTestBeamMonitor, which decodes the block of the trigger        *)
(* scintillator in every event and fills histograms.  What a step fills    *)
(* them with is kept until the next step, with the booking that they are   *)
(* of: the plots of the channels are in vectors that every configuration   *)
(* appends to, the others are replaced.                                    *)
(***************************************************************************)
EXTENDS TrigScintRawDecode, SimQIE

VARIABLES
  booking,  (* how often the histograms have been booked                   *)
  vectors,  (* h2_ADCvT and the others: per place, which booking it is of  *)
  plots     (* the fills of the last step, if it was the monitor's         *)

monitorVars == <<booking, vectors, plots>>

n_channels == 16
comma_char == 63483    (* 0xF7FB                                           *)

chan_map == <<0, 2, 10, 4, 3, 1, 5, 11, 12, 6, 13, 8, 7, 14, 9, 15>>

MonitorWaits == plots' = {} /\ UNCHANGED <<booking, vectors>>

MonitorInit == booking = 0 /\ vectors = << >> /\ plots = {}

PushBack(n) == vectors \o [i \in 1 .. n_channels |-> n]

AtConfiguration ==
  /\ booking' = booking + 1
  /\ vectors' = PushBack(booking')
  /\ plots' = {}

-----------------------------------------------------------------------------
(* A word of the block is two words of each fiber.  The commas are left    *)
(* out.                                                                    *)
IsData(word) == word # comma_char

KeepData(fiber, word) == IF IsData(word) THEN Append(fiber, word) ELSE fiber

Fiber(block, f) ==
  FoldLeft(LAMBDA fiber, word : KeepData(KeepData(fiber, word[2 * f - 1]), word[2 * f]),
           << >>, block)

(* Channels from 8 on are those of fiber 2.                                *)
SamplesOf(tse, chan) == IF chan < 8 THEN tse.qie1_ ELSE tse.qie2_

ChargesOf(tse, chan) ==
  [ts \in DOMAIN SamplesOf(tse, chan) |-> ADC2Q(SamplesOf(tse, chan)[ts].adc[chan % 8])]

SumOf(charges) == FoldLeft(LAMBDA sum, charge : sum + charge, 0, charges)

sum_charge(tse, chan) == SumOf(ChargesOf(tse, chan))

Threshold == 20000 * 20

Charges(tse) == [chan \in 0 .. n_channels - 1 |-> sum_charge(tse, chan)]

(* The bars that are hit.                                                  *)
Bars(charge) ==
  {chan_map[chan + 1] : chan \in {c \in DOMAIN charge : charge[c] > Threshold}}

AtEventReception(ev, block) ==
  /\ \E tse \in {TSevent(Fiber(block, 1), Fiber(block, 2))} :
     \E charge \in {Charges(tse)} :
       plots' = {[ev |-> ev, booking |-> booking,
                  channels |-> {vectors[i] : i \in 1 .. n_channels},
                  tse |-> tse, charge |-> charge, bars |-> Bars(charge)]}
  /\ UNCHANGED <<booking, vectors>>

=============================================================================
