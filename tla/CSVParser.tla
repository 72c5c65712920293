----------------------------- MODULE CSVParser -----------------------------
(***************************************************************************)
(* The tables that say where a channel is and how it is calibrated.  A     *)
(* table is its rows, a row the sequence of its fields; numbers are read   *)
(* as numbers.  A column that is not there, or not in a row, is read from  *)
(* beyond the row: such tables are outside the model.                      *)
(***************************************************************************)
EXTENDS SequencesExt

(* The last column with the title.                                         *)
Column(head, title) == Max({j \in DOMAIN head : head[j] = title})

(* The first row with a key counts.                                        *)
Inserted(map, key, value) == map @@ (key :> value)

(* The value at each key, over the rows.                                   *)
BuildMap(keys, values) ==
  FoldLeft(LAMBDA map, i : Inserted(map, keys[i], values[i]), << >>,
           [i \in DOMAIN keys |-> i])

(* The column under its name, per Polarfire, chip and channel.             *)
buildDaqMap(csv, column) ==
  LET rows == Tail(csv)
      Field(i, title) == rows[i][Column(csv[1], title)]
  IN  BuildMap([i \in DOMAIN rows |-> <<Field(i, "Polarfire"), Field(i, "HGCROC"),
                                        Field(i, "Channel")>>],
               [i \in DOMAIN rows |-> Field(i, column)])

(* The names are in the second row, and TOT_GAIN is the sixth column       *)
(* whatever its name.                                                      *)
buildThresholdMap(csv, column) ==
  LET rows  == SubSeq(csv, 3, Len(csv))
      eloc  == Column(csv[2], "ElLoc")
      value == IF column = "TOT_GAIN" THEN 6 ELSE Column(csv[2], column)
  IN  BuildMap([i \in DOMAIN rows |-> rows[i][eloc]],
               [i \in DOMAIN rows |-> rows[i][value]])

=============================================================================
