---------------------------- MODULE MCHCalReadout ----------------------------
(***************************************************************************)
(* Instances of HCalReadout for TLC: files of events as the firmware       *)
(* writes them, and what the chips have read out in each.                  *)
(***************************************************************************)
EXTENDS HCalReadout

CONSTANTS
  Cuts   (* how many words may be missing at the end of a file             *)

(* The channels on the maps of two links of FPGA 1, and the slots of a     *)
(* header, a common mode and a checksum.                                   *)
Map(link) == IF link = 0 THEN {0, 1, 2} ELSE {19, 22}

(* An event has one value per link and sample, the same for all slots.     *)
LinkWords(link, value) ==
  <<[Zero EXCEPT !.map = Map(link)], [Zero EXCEPT !.map = Map(link)]>>
    \o [k \in 1 .. Cardinality(Map(link)) |-> [Zero EXCEPT !.third = value]]

BunchWords(values) ==
  <<[Zero EXCEPT !.fpga = 1, !.n = 2], Zero, [Zero EXCEPT !.lens = <<5, 4, 0, 0>>]>>
    \o LinkWords(0, values[1]) \o LinkWords(1, values[2]) \o <<Zero>>

Padded(words) == IF Len(words) % 2 = 1 THEN Append(words, Zero) ELSE words

(* The words after the header and the header, of both versions.            *)
Body(version, bunches) ==
  <<[Zero EXCEPT !.lens = [i \in 1 .. 4 |->
       IF i <= Len(bunches) THEN Len(bunches[i]) ELSE 0]]>>
    \o (IF version = 1 THEN FlattenSeq(bunches)
        ELSE [i \in 1 .. 11 |-> Zero]
               \o FlattenSeq([i \in DOMAIN bunches |-> Padded(bunches[i])]))

WithHeader(version, n, body) ==
  <<Signal, [Zero EXCEPT !.version = version, !.n = n,
               !.len = IF version = 1 THEN Len(body) + 1
                                      ELSE (Len(body) + 2) \div 2]>>
    \o body

Encoded(readout) ==
  WithHeader(readout.version, Len(readout.values),
    Body(readout.version,
         [i \in DOMAIN readout.values |-> BunchWords(readout.values[i])]))

(* What decode has to give of it.                                          *)
Channels == {<<1, 0, 0>>, <<1, 0, 1>>, <<1, 0, 55>>}

Truth(readout) ==
  [eid \in Channels |-> [i \in DOMAIN readout.values |->
     readout.values[i][IF eid[3] < 36 THEN 1 ELSE 2]]]

Readouts ==
  <<[version |-> 1, values |-> <<<<1, 1>>, <<30, 2>>>>],
    [version |-> 2, values |-> <<<<25, 5>>>>]>>

WithoutLast(words, n) == SubSeq(words, 1, Len(words) - n)

Contents(f) ==
  WithoutLast([i \in 1 .. f[2] |-> Zero]
                \o FlattenSeq([i \in DOMAIN f[1] |-> Encoded(Readouts[f[1][i]])]),
              f[3])

(* A file without events; files of one event, which may begin with a word  *)
(* of an event before and end in the middle of the event; and files of two *)
(* events.                                                                 *)
Empty == <<<< >>, 1, 0>>
Double(j, k) == <<<<j, k>>, 0, 0>>
Single(k) == <<<<k>>, 2 - k, 0>>

Names ==
  {Empty, Single(1), Single(2), Double(2, 1)}
    \union {<<<<k>>, 0, cut>> : k \in 1 .. 2, cut \in Cuts}

Stored == [f \in Names |-> Contents(f)]

MCFiles == Stored

readouts == [i \in DOMAIN name[1] |-> Readouts[name[1][i]]]

(* Nobody waits for the monitors: they see an event before anything else   *)
(* happens that they do not take part in.  Runs get too old when there are *)
(* no events, and nobody waits for run control's own steps when they do    *)
(* not.  Another producer sends its events when there is one of version 2, *)
(* more than two in the first run, so that the monitors count a third, and *)
(* cut files and those that begin amidst an event are played once.         *)
MCNext ==
  /\ IF shown < seen THEN Show
     ELSE IF seen < Len(delivered) THEN Monitor \/ Configure
     ELSE IF name # Empty /\ user # "idle" THEN Control ELSE Next
  /\ aged' => name = Empty
  /\ others' > 0 => name = Single(2)
  /\ others' > 2 => number' = 1 /\ configures' = 1
  /\ number' > 1 => name \in {Empty, Single(2), Double(2, 1)}

MCSpec == Init /\ [][MCNext]_vars

(* Where the chips' channels are: two ends of the bar 1 of plane 1.        *)
MCDaqMap ==
  <<<<"Polarfire", "HGCROC", "Channel", "CMB", "Quadbar", "Bar", "Plane">>,
    <<1, 0, 0, 2, 1, 1, 1>>, <<1, 0, 55, 3, 1, 1, 1>>, <<1, 0, 55, 4, 1, 1, 2>>>>
MCGainMap ==
  <<<<>>, <<"ElLoc", "DetID", "ADC_PEDESTAL", "ADC_GAIN">>,
    << <<1, 0, 0>>, 1, 3, 2>>, << <<1, 0, 55>>, 2, 3, 2>>>>

-----------------------------------------------------------------------------
(* The event of the file that a packet begins with.                        *)
ReadoutOf(p) ==
  readouts[Cardinality({q \in 1 .. p.parts[1][2] : file[q].signal})]

Unbroken(p) == Len(p.parts) = 1

Values(lists) ==
  [eid \in DOMAIN lists |-> [k \in DOMAIN lists[eid] |-> adc_t(lists[eid][k])]]

(* The event that has been sent last; those before have been the last too. *)
Newest == {k \in DOMAIN sent : k = Len(sent) /\ taken < k}

(* decode undoes what the firmware does: of a packet that has been read    *)
(* without a break it gives every sample of every channel.                 *)
DecodeGivesReadout ==
  \A k \in Newest : Unbroken(sent[k].packet) /\ Whole(sent[k].packet) =>
    LET d == decode(Words(sent[k].packet, file), Zero)
    IN  ~d.thrown /\ Values(d.lists) = Truth(ReadoutOf(sent[k].packet))

(* Of an event that is cut, decode gives no sample that the chips have not *)
(* read out but makes up samples of value 0 behind them, also of channels  *)
(* that do not exist, or throws, and it throws only at version 2.          *)
CutEventsAreMadeUp ==
  \A k \in Newest : Unbroken(sent[k].packet) =>
    LET d     == decode(Words(sent[k].packet, file), Zero)
        truth == Truth(ReadoutOf(sent[k].packet))
        got   == Values(d.lists)
    IN  /\ d.thrown => ReadoutOf(sent[k].packet).version = 2
        /\ ~d.thrown => \A eid \in DOMAIN got : \A i \in DOMAIN got[eid] :
             \/ got[eid][i] = 0
             \/ eid \in Channels /\ got[eid][i] = truth[eid][i]

(* A hit in the plots comes of a pulse, or of an event that was cut: its   *)
(* zeros pass for the lowest sample.                                       *)
HitsArePulses ==
  \A h \in histos.hits :
    LET p     == sent[delivered[looked[h.ev + 1]].event].packet
        truth == Truth(ReadoutOf(p))[h.eid]
    IN  Whole(p) /\ Unbroken(p) => \E i, j \in DOMAIN truth :
                       truth[i] >= truth[j] + Adcthreshold

(* What is decoded and what passes for a hit, of whole events and cut ones *)
ReadoutIsShown ==
  DecodeGivesReadout /\ CutEventsAreMadeUp /\ HitsArePulses /\ PastHasNoPart

=============================================================================
