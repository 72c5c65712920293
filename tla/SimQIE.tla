------------------------------- MODULE SimQIE -------------------------------
(***************************************************************************)
(* ADC2Q, which makes a charge of an ADC count.  Charges are in units of   *)
(* 1/20 fC, so that they are whole numbers.                                *)
(***************************************************************************)
EXTENDS Integers, FiniteSets

(* The tables, whose indices start from 1 here: the first bin of each      *)
(* subrange, the lower limit of the charge in fC, and the sensitivity in   *)
(* tenths of fC.                                                           *)
nbins_ == <<0, 16, 36, 57, 64>>
edges_ == <<-16, 34, 158, 419, 517, 915, 1910, 3990, 4780, 7960, 15900, 32600,
            38900, 64300, 128000, 261000, 350000>>
sense_ == <<31, 62, 124, 248, 248, 496, 992, 1984, 1984, 3968, 7936, 15870,
            15870, 31740, 63490, 127000>>

(* The subrange of a count in its range, where the first bin of the next   *)
(* subrange counts to the one before; the fault: there are only three.     *)
OneOfThree(v1) == Cardinality({i \in 1 .. 2 : v1 > nbins_[i + 1]})
Subrange(v1) == Cardinality({i \in 1 .. 3 : v1 > nbins_[i + 1]})

ADC2Q(ADC) ==
  IF ADC <= 0 THEN -16 * 20 ELSE
  IF ADC >= 255 THEN 350000 * 20 ELSE
  LET v1 == ADC % 64
      ss == Subrange(v1)
      bin == 4 * (ADC \div 64) + ss + 1
  IN  20 * edges_[bin] + 2 * (v1 - nbins_[ss + 1]) * sense_[bin] + sense_[bin]

=============================================================================
