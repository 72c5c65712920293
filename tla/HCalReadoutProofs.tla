-------------------------- MODULE HCalReadoutProofs --------------------------
(***************************************************************************)
(* Proofs about the chain of the HCal: what is sent follows the file,      *)
(* however run control and RunLoop interleave, events have numbers of      *)
(* their own, what the plots of the monitor show that are reset, when the  *)
(* event display stands still, and what may cut a run short.               *)
(***************************************************************************)
EXTENDS HCalReadout, SequenceTheorems, FiniteSetTheorems, WellFoundedInduction, TLAPS

LEMMA LeastNat ==
  ASSUME NEW S \in SUBSET Nat, S # {}
  PROVE  Min(S) \in S /\ \A n \in S : Min(S) <= n
<1>1. \E R : /\ \A x, y \in Nat : y < x => <<y, x>> \in R
             /\ \E x \in S : \A y \in S : ~(<<y, x>> \in R)
  <2>1. \E x \in S : \A y \in S : ~(<<y, x>> \in OpToRel(<, Nat))
    BY WFMin, NatLessThanWellFounded, Zenon
  <2>2. \A x, y \in Nat : y < x => <<y, x>> \in OpToRel(<, Nat)
    BY DEF OpToRel
  <2>3. QED
    BY <2>1, <2>2, Zenon
<1>2. PICK R : /\ \A x, y \in Nat : y < x => <<y, x>> \in R
               /\ \E x \in S : \A y \in S : ~(<<y, x>> \in R)
  BY <1>1
<1>3. PICK m \in S : \A y \in S : ~(<<y, m>> \in R)
  BY <1>2
<1>4. \A y \in S : ~(y < m)
  BY <1>2, <1>3
<1>5. \A y \in S : m <= y
  BY <1>4
<1>6. QED
  BY <1>5 DEF Min

(* What concerns the producer only.                                        *)
ProducerInv ==
  /\ ProducerTypeOK /\ (loop \in InLoop => run > 0)
  /\ OneRunPerOpening /\ ConfiguredIsFresh /\ LiveIsOfRun
  /\ PacketIsOfOpening /\ PacketsArePackets /\ ReadingGoesOn
  /\ PacketStartsNext /\ FailsBecause

-----------------------------------------------------------------------------
(* Putting stretches together.                                             *)
LEMMA EndOfSeq ==
  ASSUME NEW S, NEW s \in Seq(S), s # << >>
  PROVE  /\ Len(s) \in Nat \ {0} /\ Last(s) = s[Len(s)] /\ Last(s) \in S
         /\ DOMAIN s = 1 .. Len(s)
<1>1. Len(s) \in Nat \ {0}
  BY EmptySeq
<1>2. \A i \in 1 .. Len(s) : s[i] \in S
  BY ElementOfSeq
<1>3. DOMAIN s = 1 .. Len(s)
  BY LenProperties
<1>4. QED
  BY <1>1, <1>2, <1>3 DEF Last

LEMMA Appended ==
  ASSUME NEW S, NEW s \in Seq(S), NEW e \in S
  PROVE  /\ Append(s, e) \in Seq(S) /\ Len(Append(s, e)) = Len(s) + 1
         /\ \A i \in 1 .. Len(s) : Append(s, e)[i] = s[i]
         /\ Append(s, e)[Len(s) + 1] = e
         /\ Append(s, e) # << >> /\ Last(Append(s, e)) = e
  BY AppendProperties DEF Last

LEMMA WithPartJoins ==
  ASSUME NEW parts \in Seq(Stretch), parts # << >>, NEW part \in Stretch,
         Last(parts)[1] = part[1], Last(parts)[3] + 1 = part[2]
  PROVE  /\ WithPart(parts, part) \in Seq(Stretch)
         /\ Len(WithPart(parts, part)) = Len(parts)
         /\ \A i \in 1 .. Len(parts) - 1 : WithPart(parts, part)[i] = parts[i]
         /\ WithPart(parts, part)[Len(parts)] =
              <<Last(parts)[1], Last(parts)[2], part[3]>>
<1> DEFINE new == <<Last(parts)[1], Last(parts)[2], part[3]>>
<1>1. new \in Stretch
  BY EndOfSeq DEF Stretch
<1>2. WithPart(parts, part) = [parts EXCEPT ![Len(parts)] = new]
  BY DEF WithPart
<1> HIDE DEF new
<1>3. Len(parts) \in 1 .. Len(parts) /\ Len(parts) \in Nat
  BY EndOfSeq
<1>4. /\ WithPart(parts, part) \in Seq(Stretch)
      /\ Len(WithPart(parts, part)) = Len(parts)
      /\ \A i \in 1 .. Len(parts) :
           WithPart(parts, part)[i] = IF i = Len(parts) THEN new ELSE parts[i]
  BY <1>1, <1>2, <1>3, ExceptSeq
<1>5. WithPart(parts, part)[Len(parts)] = new
  BY <1>3, <1>4
<1>6. QED
  BY <1>3, <1>4, <1>5 DEF new

LEMMA WithPartAppends ==
  ASSUME NEW parts \in Seq(Stretch), parts # << >>, NEW part \in Stretch,
         Last(parts)[1] # part[1]
  PROVE  /\ WithPart(parts, part) \in Seq(Stretch)
         /\ Len(WithPart(parts, part)) = Len(parts) + 1
         /\ \A i \in 1 .. Len(parts) : WithPart(parts, part)[i] = parts[i]
         /\ WithPart(parts, part)[Len(parts) + 1] = part
<1>1. WithPart(parts, part) = Append(parts, part)
  BY DEF WithPart
<1>2. QED
  BY <1>1, Appended

(* Stretches that are in order stay so when reading goes on where they end *)
(* or at the beginning of a file opened anew.                              *)
LEMMA Extended ==
  ASSUME NEW words, Len(words) \in Nat, NEW o \in Nat, NEW at \in Nat,
         NEW parts \in Seq(Stretch), InOrder(parts, words, o),
         at = IF Last(parts)[1] = o THEN Last(parts)[3] ELSE 0,
         NEW n \in Nat \ {0}, at + n <= Len(words),
         NEW longer, longer = WithPart(parts, <<o, at + 1, at + n>>)
  PROVE  /\ longer \in Seq(Stretch) /\ InOrder(longer, words, o)
         /\ longer[1][1] = parts[1][1] /\ longer[1][2] = parts[1][2]
         /\ Last(longer)[1] = o /\ Last(longer)[3] = at + n
         /\ Len(longer) = 1 => /\ Len(parts) = 1
                               /\ longer[1][3] = parts[1][3] + n
<1> DEFINE part == <<o, at + 1, at + n>>
<1>1. part \in Stretch /\ part[1] = o /\ part[2] = at + 1 /\ part[3] = at + n
  BY DEF Stretch
<1>2. parts \in Seq(Stretch) /\ parts # << >>
  BY DEF InOrder
<1>3. /\ Len(parts) \in Nat \ {0} /\ Last(parts) = parts[Len(parts)]
      /\ Last(parts) \in Stretch
  BY ONLY <1>2, EndOfSeq
<1>4. \A i \in 1 .. Len(parts) : IsPart(parts[i], words, o)
  BY <1>2, EndOfSeq DEF InOrder
<1>5. \A i \in 1 .. Len(parts) : i > 1 =>
        parts[i][1] > parts[i - 1][1] /\ parts[i][2] = 1
  BY <1>2, EndOfSeq DEF InOrder
<1>6. IsPart(Last(parts), words, o)
  BY <1>3, <1>4
<1>7. /\ Last(parts)[1] \in Nat /\ Last(parts)[2] \in Nat /\ Last(parts)[3] \in Nat
      /\ Last(parts) = <<Last(parts)[1], Last(parts)[2], Last(parts)[3]>>
  BY ONLY <1>3 DEF Stretch
<1> HIDE DEF part
<1>8. CASE Last(parts)[1] = o
  <2> DEFINE new == <<Last(parts)[1], Last(parts)[2], part[3]>>
  <2>1. Last(parts)[1] = part[1] /\ Last(parts)[3] + 1 = part[2]
    BY <1>1, <1>8
  <2>2. /\ longer \in Seq(Stretch) /\ Len(longer) = Len(parts)
        /\ \A i \in 1 .. Len(parts) - 1 : longer[i] = parts[i]
        /\ longer[Len(parts)] = new
    BY <1>1, <1>2, <2>1, WithPartJoins DEF part
  <2>3. new[1] = Last(parts)[1] /\ new[2] = Last(parts)[2] /\ new[3] = at + n
    BY <1>1
  <2> HIDE DEF new
  <2>4. IsPart(new, words, o)
    BY <1>6, <1>7, <1>8, <2>3 DEF IsPart
  <2>5. \A i \in 1 .. Len(longer) : IsPart(longer[i], words, o)
    <3> TAKE i \in 1 .. Len(longer)
    <3>1. i \in 1 .. Len(parts) /\ (i \in 1 .. Len(parts) - 1 \/ i = Len(parts))
      BY ONLY <1>3, <2>2
    <3>2. QED
      BY <1>4, <2>2, <2>4, <3>1
  <2>6. \A i \in 1 .. Len(longer) :
          longer[i][1] = parts[i][1] /\ longer[i][2] = parts[i][2]
    BY ONLY <1>3, <2>2, <2>3
  <2>7. \A i \in 1 .. Len(longer) : i > 1 =>
          longer[i][1] > longer[i - 1][1] /\ longer[i][2] = 1
    BY ONLY <1>3, <1>5, <2>2, <2>6
  <2>8. longer # << >> /\ Last(longer) = new
    BY ONLY <1>3, <2>2 DEF Last
  <2>9. InOrder(longer, words, o)
    <3>1. DOMAIN longer = 1 .. Len(longer)
      BY <2>2, <2>8, EndOfSeq
    <3>2. QED
      BY <2>5, <2>7, <2>8, <3>1 DEF InOrder
  <2>10. longer[1][1] = parts[1][1] /\ longer[1][2] = parts[1][2]
    BY ONLY <1>3, <2>2, <2>6
  <2>11. Len(longer) = 1 => Len(parts) = 1 /\ longer[1][3] = parts[1][3] + n
    BY <1>3, <1>8, <2>2, <2>3
  <2>12. QED
    BY <1>8, <2>2, <2>3, <2>8, <2>9, <2>10, <2>11
<1>9. CASE Last(parts)[1] # o
  <2>1. /\ longer \in Seq(Stretch) /\ Len(longer) = Len(parts) + 1
        /\ \A i \in 1 .. Len(parts) : longer[i] = parts[i]
        /\ longer[Len(parts) + 1] = part
    BY <1>1, <1>2, <1>9, WithPartAppends DEF part
  <2>2. at = 0 /\ Last(parts)[1] < o
    BY <1>6, <1>7, <1>9 DEF IsPart
  <2>3. IsPart(part, words, o)
    BY <1>1, <1>7, <2>2 DEF IsPart
  <2>4. \A i \in 1 .. Len(longer) : IsPart(longer[i], words, o)
    <3> TAKE i \in 1 .. Len(longer)
    <3>1. i \in 1 .. Len(parts) \/ i = Len(parts) + 1
      BY ONLY <1>3, <2>1
    <3>2. QED
      BY <1>4, <2>1, <2>3, <3>1
  <2>5. \A i \in 1 .. Len(longer) : i > 1 =>
          longer[i][1] > longer[i - 1][1] /\ longer[i][2] = 1
    <3> SUFFICES ASSUME NEW i \in 1 .. Len(longer), i > 1
                 PROVE  longer[i][1] > longer[i - 1][1] /\ longer[i][2] = 1
      OBVIOUS
    <3>1. CASE i \in 1 .. Len(parts)
      <4>1. i - 1 \in 1 .. Len(parts)
        BY <1>3, <3>1
      <4>2. longer[i] = parts[i] /\ longer[i - 1] = parts[i - 1]
        BY <2>1, <3>1, <4>1
      <4>3. parts[i][1] > parts[i - 1][1] /\ parts[i][2] = 1
        BY <1>5, <3>1
      <4>4. QED
        BY ONLY <4>2, <4>3
    <3>2. CASE i = Len(parts) + 1
      <4>1. i - 1 = Len(parts) /\ Len(parts) \in 1 .. Len(parts)
        BY ONLY <1>3, <3>2
      <4>2. longer[i - 1] = Last(parts) /\ longer[i] = part
        BY ONLY <1>3, <2>1, <3>2, <4>1
      <4>3. QED
        BY <1>1, <1>7, <2>2, <4>2
    <3>3. QED
      BY <1>3, <2>1, <3>1, <3>2
  <2>6. longer # << >> /\ Last(longer) = part /\ Len(longer) # 1
    BY ONLY <1>3, <2>1 DEF Last
  <2>7. InOrder(longer, words, o)
    <3>1. DOMAIN longer = 1 .. Len(longer)
      BY <2>1, <2>6, EndOfSeq
    <3>2. QED
      BY <2>4, <2>5, <2>6, <3>1 DEF InOrder
  <2>8. longer[1] = parts[1]
    BY ONLY <1>3, <2>1
  <2>9. QED
    BY <1>1, <2>1, <2>6, <2>7, <2>8
<1>10. QED
  BY <1>8, <1>9

(* What a packet has.                                                      *)
LEMMA PacketFacts ==
  ASSUME NEW words, Len(words) \in Nat, NEW o \in Nat,
         NEW p \in Packet, IsPacket(p, words, o)
  PROVE  /\ p.parts \in Seq(Stretch) /\ p.parts # << >>
         /\ p.length \in Nat /\ p.got \in Nat /\ p.begun \in Nat
         /\ OpeningOf(p) \in 1 .. o /\ p.parts[1][2] \in 1 .. Len(words)
         /\ p.parts[1][3] \in Nat
         /\ Last(p.parts)[1] \in 1 .. o /\ Last(p.parts)[3] \in 1 .. Len(words)
<1>1. /\ p.parts \in Seq(Stretch)
      /\ p.length \in Nat /\ p.got \in Nat /\ p.begun \in Nat
  BY DEF Packet
<1>2. InOrder(p.parts, words, o)
  BY DEF IsPacket
<1>3. /\ p.parts # << >> /\ \A i \in DOMAIN p.parts : IsPart(p.parts[i], words, o)
  BY <1>2 DEF InOrder
<1>4. /\ Last(p.parts) = p.parts[Len(p.parts)] /\ DOMAIN p.parts = 1 .. Len(p.parts)
      /\ Len(p.parts) \in Nat \ {0}
  BY <1>1, <1>3, EndOfSeq
<1>5. 1 \in DOMAIN p.parts /\ Len(p.parts) \in DOMAIN p.parts
  BY ONLY <1>4
<1>6. \A i \in DOMAIN p.parts : p.parts[i] \in Stretch
  BY <1>1, <1>4, ElementOfSeq
<1>7. /\ IsPart(p.parts[1], words, o) /\ IsPart(Last(p.parts), words, o)
      /\ p.parts[1] \in Stretch /\ Last(p.parts) \in Stretch
  BY <1>3, <1>4, <1>5, <1>6
<1>8. \A part \in Stretch : IsPart(part, words, o) =>
        part[1] \in 1 .. o /\ part[2] \in 1 .. Len(words) /\ part[3] \in 1 .. Len(words)
  BY DEF IsPart, Stretch
<1>9. QED
  BY <1>1, <1>3, <1>7, <1>8 DEF OpeningOf

(* It stays one when the file is opened anew.                              *)
LEMMA PacketStays ==
  ASSUME NEW words, NEW o \in Nat, NEW later \in Nat, o <= later,
         NEW p, IsPacket(p, words, o)
  PROVE  IsPacket(p, words, later)
<1>1. \A part : IsPart(part, words, o) => IsPart(part, words, later)
  BY DEF IsPart
<1>2. InOrder(p.parts, words, later)
  BY <1>1 DEF IsPacket, InOrder
<1>3. QED
  BY <1>2 DEF IsPacket

(* It is one still, and reading goes on behind it, when more is read.      *)
LEMMA PacketReadOn ==
  ASSUME NEW words, Len(words) \in Nat, NEW o \in Nat,
         NEW p \in Packet, IsPacket(p, words, o),
         NEW at, at = After(p, o), NEW n \in Nat \ {0}, at + n <= Len(words),
         NEW q, q.parts = WithPart(p.parts, <<o, at + 1, at + n>>),
         q.length \in Nat, q.got = p.got + n, q.got <= q.length
  PROVE  /\ q.parts \in Seq(Stretch) /\ IsPacket(q, words, o)
         /\ After(q, o) = at + n /\ Last(q.parts)[1] = o
         /\ OpeningOf(q) = OpeningOf(p) /\ q.parts[1][2] = p.parts[1][2]
         /\ Len(q.parts) = 1 => Len(p.parts) = 1
<1>1. /\ p.parts \in Seq(Stretch) /\ p.got \in Nat /\ Last(p.parts)[3] \in Nat
      /\ p.parts[1][2] \in Nat /\ p.parts[1][3] \in Nat
  BY PacketFacts
<1>2. /\ InOrder(p.parts, words, o) /\ words[p.parts[1][2]].signal /\ 1 <= p.got
      /\ Len(p.parts) = 1 => p.parts[1][3] = p.parts[1][2] + p.got - 1
  BY DEF IsPacket
<1>3. at \in Nat /\ at = IF Last(p.parts)[1] = o THEN Last(p.parts)[3] ELSE 0
  BY <1>1 DEF After
<1>4. /\ q.parts \in Seq(Stretch) /\ InOrder(q.parts, words, o)
      /\ q.parts[1][1] = p.parts[1][1] /\ q.parts[1][2] = p.parts[1][2]
      /\ Last(q.parts)[1] = o /\ Last(q.parts)[3] = at + n
      /\ Len(q.parts) = 1 => /\ Len(p.parts) = 1
                             /\ q.parts[1][3] = p.parts[1][3] + n
  <2> DEFINE parts == p.parts
  <2> DEFINE longer == q.parts
  <2>1. /\ parts \in Seq(Stretch) /\ InOrder(parts, words, o)
        /\ at = IF Last(parts)[1] = o THEN Last(parts)[3] ELSE 0
        /\ at \in Nat /\ longer = WithPart(parts, <<o, at + 1, at + n>>)
    BY <1>1, <1>2, <1>3
  <2> HIDE DEF parts, longer
  <2>2. /\ longer \in Seq(Stretch) /\ InOrder(longer, words, o)
        /\ longer[1][1] = parts[1][1] /\ longer[1][2] = parts[1][2]
        /\ Last(longer)[1] = o /\ Last(longer)[3] = at + n
        /\ Len(longer) = 1 => /\ Len(parts) = 1
                              /\ longer[1][3] = parts[1][3] + n
    BY <2>1, Extended
  <2>3. QED
    BY <2>2 DEF parts, longer
<1>5. Len(q.parts) = 1 => q.parts[1][3] = q.parts[1][2] + q.got - 1
  <2> SUFFICES ASSUME Len(q.parts) = 1
               PROVE  q.parts[1][3] = q.parts[1][2] + q.got - 1
    OBVIOUS
  <2>1. p.parts[1][3] = p.parts[1][2] + p.got - 1
    BY <1>2, <1>4
  <2>2. q.parts[1][3] = p.parts[1][3] + n /\ q.parts[1][2] = p.parts[1][2]
    BY <1>4
  <2>3. /\ p.parts[1][2] \in Nat /\ p.parts[1][3] \in Nat /\ p.got \in Nat
        /\ n \in Nat /\ q.got = p.got + n
    BY <1>1
  <2>4. QED
    BY ONLY <2>1, <2>2, <2>3
<1>6. 1 <= q.got /\ q.got <= q.length
  BY ONLY <1>1, <1>2, n \in Nat \ {0}, q.got = p.got + n, q.got <= q.length
<1>7. IsPacket(q, words, o)
  BY <1>2, <1>4, <1>5, <1>6 DEF IsPacket
<1>8. QED
  BY <1>4, <1>7 DEF After, OpeningOf

-----------------------------------------------------------------------------
Event == [packet : Packet, run : Nat]

(* What the invariant says of each event and of the file.                  *)
LEMMA Typed ==
  ASSUME ProducerInv
  PROVE  /\ name \in DOMAIN Files /\ Len(file) \in Nat
         /\ opens \in Nat /\ run \in Nat /\ pos \in 0 .. Len(file)
         /\ is_open \in BOOLEAN /\ fail \in BOOLEAN /\ caught \subseteq 1 .. opens
         /\ packet \in Packet /\ sent \in Seq(Event)
         /\ \A k \in DOMAIN sent :
              /\ sent[k].packet \in Packet /\ sent[k].run \in 1 .. run
              /\ IsPacket(sent[k].packet, file, opens)
              /\ Opening(k) \in 1 .. opens
<1>1. /\ name \in DOMAIN Files /\ opens \in Nat /\ run \in Nat /\ pos \in 0 .. Len(file)
      /\ is_open \in BOOLEAN /\ fail \in BOOLEAN /\ caught \subseteq 1 .. opens
      /\ packet \in Packet /\ sent \in Seq([packet : Packet, run : 1 .. run])
  BY DEF ProducerInv, ProducerTypeOK
<1>2. Len(file) \in Nat
  BY <1>1, FilesAssumption DEF file
<1>3. [packet : Packet, run : 1 .. run] \subseteq Event
  BY <1>1 DEF Event
<1>4. sent \in Seq(Event)
  BY <1>1, <1>3, SeqMonotonic
<1>5. \A k \in DOMAIN sent : sent[k] \in [packet : Packet, run : 1 .. run]
  BY ONLY <1>1, ElementOfSeq, LenProperties
<1>6. \A k \in DOMAIN sent : sent[k].packet \in Packet /\ sent[k].run \in 1 .. run
  BY <1>5
<1>7. \A k \in DOMAIN sent : IsPacket(sent[k].packet, file, opens)
  BY DEF ProducerInv, PacketsArePackets
<1>8. \A k \in DOMAIN sent : OpeningOf(sent[k].packet) \in 1 .. opens
  BY <1>1, <1>2, <1>6, <1>7, PacketFacts
<1>9. QED
  BY <1>1, <1>2, <1>4, <1>6, <1>7, <1>8 DEF Opening

-----------------------------------------------------------------------------
(* The commands of run control.  None of them touches an event, and none   *)
(* makes RunLoop be in one.                                                *)
CommandFrame ==
  /\ name' = name /\ packet' = packet /\ sent' = sent
  /\ loop' = loop \/ (loop = "idle" /\ loop' = "top")
  /\ run' \in Nat /\ run <= run' /\ opens' \in Nat /\ opens <= opens'
  /\ caught \subseteq caught' /\ caught' \subseteq 1 .. opens'
  /\ opens < opens' \/ (is_open' => is_open)

LEMMA CommandKeepsTypes ==
  ASSUME ProducerInv, CommandFrame, pos' \in 0 .. Len(file),
         is_open' \in BOOLEAN, fail' \in BOOLEAN,
         status' \in {"unconf", "conf", "running", "stopped", "error"}
  PROVE  ProducerTypeOK' /\ file' = file
<1>1. file' = file
  BY DEF CommandFrame, file
<1>2. sent \in Seq([packet : Packet, run : 1 .. run]) /\ run \in Nat
      /\ name \in DOMAIN Files /\ packet \in Packet
      /\ loop \in {"idle", "thrown"} \union InLoop
  BY DEF ProducerInv, ProducerTypeOK
<1>3. 1 .. run \subseteq 1 .. run'
  BY <1>2 DEF CommandFrame
<1>4. [packet : Packet, run : 1 .. run] \subseteq [packet : Packet, run : 1 .. run']
  BY <1>3
<1>5. sent' \in Seq([packet : Packet, run : 1 .. run'])
  BY <1>2, <1>4, SeqMonotonic DEF CommandFrame
<1>6. loop' \in {"idle", "thrown"} \union InLoop
  BY <1>2 DEF CommandFrame, InLoop
<1>7. QED
  BY <1>1, <1>2, <1>5, <1>6 DEF ProducerTypeOK, CommandFrame

LEMMA CommandKeepsEvents ==
  ASSUME ProducerInv, CommandFrame
  PROVE  /\ PacketsArePackets' /\ PacketStartsNext' /\ OneRunPerOpening'
         /\ PacketIsOfOpening'
         /\ loop' = "send" /\ ~Whole(packet)' => CutBecause(packet)'
<1>1. /\ file' = file /\ packet' = packet /\ sent' = sent
      /\ UnderWay' => UnderWay /\ loop' = loop
      /\ loop' \in {"header", "rest", "send"} => loop' = loop
  BY DEF CommandFrame, file, UnderWay
<1>2. opens \in Nat /\ opens' \in Nat /\ opens <= opens' /\ Len(file) \in Nat
  BY Typed DEF CommandFrame
<1>3. \A p : IsPacket(p, file, opens) => IsPacket(p, file, opens')
  BY <1>2, PacketStays
<1>4. PacketsArePackets'
  BY <1>1, <1>3 DEF ProducerInv, PacketsArePackets
<1>5. PacketStartsNext'
  BY <1>1 DEF ProducerInv, PacketStartsNext, AfterLast
<1>6. OneRunPerOpening'
  BY <1>1 DEF ProducerInv, CommandFrame, OneRunPerOpening, Opening
<1>7. PacketIsOfOpening'
  BY <1>1 DEF ProducerInv, CommandFrame, PacketIsOfOpening, Opening
<1>8. loop' = "send" /\ ~Whole(packet)' => CutBecause(packet)'
  <2> SUFFICES ASSUME loop = "send", ~Whole(packet)
               PROVE  CutBecause(packet)'
    BY <1>1 DEF Whole
  <2>1. CutBecause(packet) /\ IsPacket(packet, file, opens)
    BY DEF ProducerInv, FailsBecause, PacketsArePackets, UnderWay
  <2>2. Last(packet.parts)[1] \in 1 .. opens
    BY <1>2, <2>1, Typed, PacketFacts
  <2>3. QED
    BY <1>1, <1>2, <2>1, <2>2 DEF CutBecause, CommandFrame
<1>9. QED
  BY <1>4, <1>5, <1>6, <1>7, <1>8

LEMMA ConfigureKeeps ==
  ASSUME ProducerInv, NEW exists \in BOOLEAN, DoConfigure(exists)
  PROVE  ProducerInv'
<1>1. /\ opens \in Nat /\ run \in Nat /\ Len(file) \in Nat /\ caught \subseteq 1 .. opens
      /\ is_open \in BOOLEAN /\ fail \in BOOLEAN /\ pos \in 0 .. Len(file)
      /\ packet \in Packet
  BY Typed
<1>2. /\ name' = name /\ packet' = packet /\ sent' = sent /\ loop' = loop /\ run' = run
      /\ status \in {"unconf", "conf", "stopped"}
  BY DEF DoConfigure
<1>3. CASE exists /\ ~is_open
  <2>1. /\ is_open' = TRUE /\ fail' = FALSE /\ pos' = 0 /\ opens' = opens + 1
        /\ caught' = IF loop \in InLoop THEN caught \union {opens'} ELSE caught
        /\ status' = "conf"
    BY <1>3 DEF DoConfigure, Open, Beginning, Checked
  <2>2. CommandFrame
    BY <1>1, <1>2, <1>3, <2>1 DEF CommandFrame
  <2>3. ProducerTypeOK' /\ file' = file
    <3>1. pos' \in 0 .. Len(file)
      BY <1>1, <2>1
    <3>2. QED
      BY <2>1, <2>2, <3>1, CommandKeepsTypes
  <2>4. ConfiguredIsFresh'
    BY <2>1 DEF ConfiguredIsFresh
  <2>5. LiveIsOfRun'
    <3>1. \A k \in DOMAIN sent : Opening(k)' # opens'
      BY <1>1, <1>2, <2>1, Typed DEF Opening
    <3>2. Live' => loop \notin InLoop
      BY <1>2, <2>1 DEF Live
    <3>3. opens' > 0
      BY <1>1, <2>1
    <3>4. QED
      BY <1>2, <2>1, <3>1, <3>2, <3>3 DEF LiveIsOfRun, UnderWay, InLoop
  <2>6. ReadingGoesOn'
    <3>1. UnderWay => Last(packet.parts)[1] # opens'
      BY <1>1, <2>1, PacketFacts DEF ProducerInv, PacketsArePackets
    <3>2. sent # << >> => Last(Last(sent).packet.parts)[1] # opens'
      <4>1. sent # << >> => Last(sent) = sent[Len(sent)] /\ Len(sent) \in DOMAIN sent
        BY Typed, EndOfSeq
      <4>2. \A k \in DOMAIN sent : Last(sent[k].packet.parts)[1] \in 1 .. opens
        BY <1>1, Typed, PacketFacts
      <4>3. QED
        BY <1>1, <2>1, <4>1, <4>2
    <3>3. QED
      BY <1>2, <2>1, <3>1, <3>2 DEF ReadingGoesOn, UnderWay, After, AfterLast
  <2>7. FailsBecause'
    BY <2>1, <2>2, CommandKeepsEvents DEF FailsBecause
  <2>8. QED
    BY <1>2, <2>2, <2>3, <2>4, <2>5, <2>6, <2>7, CommandKeepsEvents DEF ProducerInv
<1>4. CASE ~(exists /\ ~is_open)
  <2>1. /\ fail' = TRUE /\ is_open' = is_open /\ pos' = pos /\ opens' = opens
        /\ caught' = caught /\ status' = "error"
    BY <1>4 DEF DoConfigure, Open, Beginning, Checked
  <2>2. CommandFrame
    BY <1>1, <1>2, <2>1 DEF CommandFrame
  <2>3. ProducerTypeOK' /\ file' = file
    BY <1>1, <2>1, <2>2, CommandKeepsTypes
  <2>4. ConfiguredIsFresh' /\ LiveIsOfRun'
    BY <2>1 DEF ConfiguredIsFresh, LiveIsOfRun, Live
  <2>5. ReadingGoesOn'
    BY <1>2, <2>1 DEF ProducerInv, ReadingGoesOn, UnderWay
  <2>6. FailsBecause'
    <3>1. loop \in {"header", "rest"} =>
            ~is_open \/ Last(packet.parts)[1] < opens \/ opens \in caught
      BY <1>2 DEF ProducerInv, FailsBecause, LiveIsOfRun, Live, InLoop
    <3>2. QED
      BY <1>2, <2>1, <2>2, <3>1, CommandKeepsEvents DEF FailsBecause
  <2>7. QED
    BY <1>2, <2>2, <2>3, <2>4, <2>5, <2>6, CommandKeepsEvents DEF ProducerInv
<1>5. QED
  BY <1>3, <1>4

LEMMA StartKeeps ==
  ASSUME ProducerInv, DoStartRun
  PROVE  ProducerInv'
<1>1. /\ opens \in Nat /\ run \in Nat /\ Len(file) \in Nat /\ caught \subseteq 1 .. opens
      /\ is_open \in BOOLEAN /\ fail \in BOOLEAN /\ pos \in 0 .. Len(file)
  BY Typed
<1>2. /\ name' = name /\ is_open' = is_open /\ fail' = fail /\ pos' = pos
      /\ packet' = packet /\ sent' = sent /\ opens' = opens /\ caught' = caught
      /\ status \in {"conf", "stopped"} /\ status' = "running" /\ run' = run + 1
      /\ loop' = IF loop = "idle" THEN "top" ELSE loop
  BY DEF DoStartRun, stream
<1>3. CommandFrame
  BY <1>1, <1>2 DEF CommandFrame
<1>4. ProducerTypeOK' /\ file' = file
  BY <1>1, <1>2, <1>3, CommandKeepsTypes
<1>5. ConfiguredIsFresh'
  BY <1>2 DEF ConfiguredIsFresh
<1>6. LiveIsOfRun'
  <2>1. Live => opens > 0 /\ loop \notin InLoop /\ \A k \in DOMAIN sent : Opening(k) # opens
    BY <1>2 DEF ProducerInv, LiveIsOfRun
  <2>2. Live' => Live
    BY <1>2 DEF Live
  <2>3. UnderWay' => loop \in InLoop
    BY <1>2 DEF UnderWay, InLoop
  <2>4. QED
    BY <1>2, <2>1, <2>2, <2>3 DEF LiveIsOfRun, Opening
<1>7. ReadingGoesOn'
  BY <1>2 DEF ProducerInv, ReadingGoesOn, UnderWay, AfterLast
<1>8. FailsBecause'
  <2>1. loop' \in {"header", "rest"} => loop' = loop
    BY <1>2
  <2>2. QED
    BY <1>2, <1>3, <2>1, CommandKeepsEvents DEF ProducerInv, FailsBecause
<1>9. loop' \in InLoop => run' > 0
  BY <1>1, <1>2
<1>10. QED
  BY <1>3, <1>4, <1>5, <1>6, <1>7, <1>8, <1>9, CommandKeepsEvents DEF ProducerInv

LEMMA StopKeeps ==
  ASSUME ProducerInv, DoStopRun
  PROVE  ProducerInv'
<1>1. /\ opens \in Nat /\ run \in Nat /\ Len(file) \in Nat /\ caught \subseteq 1 .. opens
      /\ is_open \in BOOLEAN /\ fail \in BOOLEAN /\ pos \in 0 .. Len(file)
  BY Typed
<1>2. /\ name' = name /\ is_open' = FALSE /\ fail' = (fail \/ ~is_open) /\ pos' = pos
      /\ packet' = packet /\ sent' = sent /\ opens' = opens /\ caught' = caught
      /\ status' = "stopped" /\ run' = run /\ loop' = loop
  BY DEF DoStopRun, Closed
<1>3. CommandFrame
  BY <1>1, <1>2 DEF CommandFrame
<1>4. ProducerTypeOK' /\ file' = file
  BY <1>1, <1>2, <1>3, CommandKeepsTypes
<1>5. ConfiguredIsFresh' /\ LiveIsOfRun'
  BY <1>2 DEF ConfiguredIsFresh, LiveIsOfRun, Live
<1>6. ReadingGoesOn'
  BY <1>2 DEF ProducerInv, ReadingGoesOn, UnderWay, AfterLast
<1>7. FailsBecause'
  BY <1>2, <1>3, CommandKeepsEvents DEF FailsBecause
<1>8. QED
  BY <1>2, <1>3, <1>4, <1>5, <1>6, <1>7, CommandKeepsEvents DEF ProducerInv

LEMMA ResetKeeps ==
  ASSUME ProducerInv, DoReset
  PROVE  ProducerInv'
<1>1. /\ opens \in Nat /\ run \in Nat /\ Len(file) \in Nat /\ caught \subseteq 1 .. opens
      /\ is_open \in BOOLEAN /\ fail \in BOOLEAN /\ pos \in 0 .. Len(file)
  BY Typed
<1>2. /\ name' = name /\ is_open' = is_open /\ fail' = fail /\ pos' = pos
      /\ packet' = packet /\ sent' = sent /\ opens' = opens /\ caught' = caught
      /\ status # "running" /\ status' = "unconf" /\ run' = run /\ loop' = loop
  BY DEF DoReset, stream
<1>3. CommandFrame
  BY <1>1, <1>2 DEF CommandFrame
<1>4. ProducerTypeOK' /\ file' = file
  BY <1>1, <1>2, <1>3, CommandKeepsTypes
<1>5. ConfiguredIsFresh' /\ LiveIsOfRun'
  BY <1>2 DEF ProducerInv, ConfiguredIsFresh, LiveIsOfRun, Live, Opening, UnderWay
<1>6. ReadingGoesOn'
  BY <1>2 DEF ProducerInv, ReadingGoesOn, UnderWay, AfterLast
<1>7. FailsBecause'
  BY <1>2, <1>3, CommandKeepsEvents DEF ProducerInv, FailsBecause
<1>8. QED
  BY <1>2, <1>3, <1>4, <1>5, <1>6, <1>7, CommandKeepsEvents DEF ProducerInv

-----------------------------------------------------------------------------
(* RunLoop.  What a step of it that sends no event leaves alone, whatever  *)
(* it reads.                                                               *)
ReadStep ==
  /\ loop \in InLoop /\ LoopOnly /\ sent' = sent
  /\ pos' \in 0 .. Len(file) /\ fail' \in BOOLEAN /\ (fail => fail')
  /\ \/ loop' \in InLoop /\ status' = status
     \/ loop' = "idle" /\ status' = "stopped" /\ fail'
     \/ loop' = "thrown" /\ status' = "error"

SamePacket ==
  UnderWay /\ OpeningOf(packet)' = OpeningOf(packet) /\ packet'.begun = packet.begun

NewPacket ==
  is_open /\ ~fail /\ OpeningOf(packet)' = opens /\ packet'.begun = run

LEMMA ReadStepKeeps ==
  ASSUME ProducerInv, ReadStep, packet' \in Packet,
         UnderWay' => SamePacket \/ NewPacket
  PROVE  /\ ProducerTypeOK' /\ (loop \in InLoop => run > 0)'
         /\ OneRunPerOpening' /\ ConfiguredIsFresh' /\ LiveIsOfRun'
         /\ PacketIsOfOpening' /\ file' = file
         /\ \A o : AfterLast(o)' = AfterLast(o)
<1>1. /\ name' = name /\ is_open' = is_open /\ run' = run /\ opens' = opens
      /\ caught' = caught /\ sent' = sent
  BY DEF ReadStep, LoopOnly
<1>2. file' = file
  BY <1>1 DEF file
<1>3. \A k \in DOMAIN sent : Opening(k)' = Opening(k)
  BY <1>1 DEF Opening, OpeningOf
<1>4. ProducerTypeOK'
  BY <1>1, <1>2 DEF ProducerInv, ProducerTypeOK, ReadStep
<1>5. OneRunPerOpening'
  BY <1>1, <1>3 DEF ProducerInv, OneRunPerOpening
<1>6. status = "conf" => opens \in caught
  BY DEF ProducerInv, ConfiguredIsFresh, LiveIsOfRun, Live, ReadStep
<1>7. ConfiguredIsFresh'
  BY <1>1, <1>6 DEF ProducerInv, ConfiguredIsFresh, ReadStep
<1>8. Live' => Live
  BY <1>1 DEF Live, ReadStep
<1>9. Live => opens > 0 /\ status = "running" /\ \A k \in DOMAIN sent : Opening(k) = opens =>
                sent[k].packet.begun = run /\ sent[k].run = run
  BY DEF ProducerInv, LiveIsOfRun, ReadStep
<1>10. UnderWay' /\ Live' /\ OpeningOf(packet)' = opens => packet'.begun = run
  BY <1>8 DEF SamePacket, NewPacket, ProducerInv, LiveIsOfRun
<1>11. LiveIsOfRun'
  <2> SUFFICES ASSUME Live'
               PROVE  /\ opens > 0 /\ status' # "stopped"
                      /\ loop' \in InLoop => status' = "running"
                      /\ (UnderWay /\ OpeningOf(packet) = opens => packet.begun = run)'
                      /\ \A k \in DOMAIN sent : Opening(k) = opens =>
                           status' # "conf" /\ sent[k].packet.begun = run /\ sent[k].run = run
    BY <1>1, <1>3 DEF LiveIsOfRun
  <2>1. ~fail'
    BY DEF Live
  <2>2. status' \in {"running", "error"} /\ (loop' \in InLoop => status' = "running")
    BY <1>8, <1>9, <2>1 DEF ReadStep, InLoop
  <2>3. QED
    BY <1>1, <1>8, <1>9, <1>10, <2>2
<1>12. PacketIsOfOpening'
  <2> SUFFICES ASSUME UnderWay', OpeningOf(packet)' \notin caught,
                      NEW k \in DOMAIN sent, Opening(k) = OpeningOf(packet)'
               PROVE  sent[k].packet.begun = packet'.begun /\ sent[k].run = packet'.begun
    BY <1>1, <1>3 DEF PacketIsOfOpening
  <2>1. CASE SamePacket
    BY <2>1 DEF SamePacket, ProducerInv, PacketIsOfOpening
  <2>2. CASE NewPacket
    BY <1>9, <2>2 DEF NewPacket, Live
  <2>3. QED
    BY <2>1, <2>2
<1>13. \A o : AfterLast(o)' = AfterLast(o)
  BY <1>1 DEF AfterLast
<1>14. QED
  BY <1>1, <1>2, <1>4, <1>5, <1>7, <1>11, <1>12, <1>13 DEF ProducerInv, ReadStep

LEMMA TopKeeps ==
  ASSUME ProducerInv, Top
  PROVE  ProducerInv'
<1>1. /\ loop = "top" /\ LoopOnly /\ fail' = fail /\ pos' = pos /\ packet' = packet
      /\ sent' = sent /\ opens' = opens /\ loop' \in {"idle", "scan"}
      /\ \/ fail /\ loop' = "idle" /\ status' = "stopped"
         \/ ~fail /\ loop' = "scan" /\ status' = status
  BY DEF Top, Ends, LoopOnly
<1>2. ReadStep /\ packet' \in Packet /\ ~UnderWay'
  BY <1>1, Typed DEF ReadStep, InLoop, UnderWay
<1>3. /\ ProducerTypeOK' /\ (loop \in InLoop => run > 0)'
      /\ OneRunPerOpening' /\ ConfiguredIsFresh' /\ LiveIsOfRun'
      /\ PacketIsOfOpening' /\ file' = file
      /\ \A o : AfterLast(o)' = AfterLast(o)
  BY <1>2, ReadStepKeeps
<1>4. PacketsArePackets'
  BY <1>1, <1>2, <1>3 DEF ProducerInv, PacketsArePackets
<1>5. ReadingGoesOn'
  BY <1>1, <1>2, <1>3 DEF ProducerInv, ReadingGoesOn
<1>6. PacketStartsNext' /\ FailsBecause'
  BY <1>1, <1>2 DEF PacketStartsNext, FailsBecause
<1>7. QED
  BY <1>3, <1>4, <1>5, <1>6 DEF ProducerInv

LEMMA ScanKeeps ==
  ASSUME ProducerInv, Scan
  PROVE  ProducerInv'
<1>1. /\ loop = "scan" /\ LoopOnly /\ sent' = sent /\ opens' = opens /\ is_open' = is_open
      /\ run' = run /\ caught' = caught
  BY DEF Scan, LoopOnly
<1>2. /\ Len(file) \in Nat /\ pos \in 0 .. Len(file) /\ fail \in BOOLEAN
      /\ opens \in Nat /\ run \in Nat /\ packet \in Packet
  BY Typed
<1>3. CASE CanRead /\ SignalsAfter(file, pos) # {}
  <2> DEFINE signal == NextSignal(file, pos)
  <2>1. /\ is_open /\ ~fail /\ fail' = fail /\ status' = status /\ loop' = "header"
        /\ pos' = signal
        /\ packet' = [length |-> 1, parts |-> << <<opens, pos', pos'>> >>, got |-> 1,
                      begun |-> run]
    BY <1>3 DEF Scan, CanRead
  <2>2. SignalsAfter(file, pos) \in SUBSET Nat
    BY <1>2 DEF SignalsAfter
  <2>3. signal \in SignalsAfter(file, pos)
    BY <1>3, <2>2, LeastNat DEF NextSignal
  <2>4. signal \in 1 .. Len(file) /\ file[signal].signal
    BY <1>2, <2>3 DEF SignalsAfter
  <2>5. opens \in 1 .. opens
    BY <1>2, <2>1, Typed DEF ProducerInv, LiveIsOfRun, Live
  <2> HIDE DEF signal
  <2>6. /\ packet'.parts = << <<opens, signal, signal>> >> /\ packet'.got = 1
        /\ packet'.begun = run /\ packet'.length = 1 /\ Len(packet'.parts) = 1
        /\ packet'.parts[1] = <<opens, signal, signal>>
        /\ Last(packet'.parts) = packet'.parts[1]
        /\ DOMAIN packet'.parts = {1}
    BY <2>1 DEF Last
  <2>7. packet' \in Packet
    BY <1>2, <2>1, <2>4 DEF Packet, Stretch
  <2>8. IsPacket(packet', file, opens)
    BY <2>4, <2>5, <2>6 DEF IsPacket, InOrder, IsPart
  <2>9. OpeningOf(packet)' = opens
    BY <2>6 DEF OpeningOf
  <2>10. ReadStep /\ NewPacket
    BY <1>1, <1>2, <2>1, <2>4, <2>6, <2>9 DEF ReadStep, NewPacket, InLoop
  <2>11. /\ ProducerTypeOK' /\ (loop \in InLoop => run > 0)'
         /\ OneRunPerOpening' /\ ConfiguredIsFresh' /\ LiveIsOfRun'
         /\ PacketIsOfOpening' /\ file' = file
         /\ \A o : AfterLast(o)' = AfterLast(o)
    BY <2>7, <2>10, ReadStepKeeps
  <2>12. PacketsArePackets'
    BY <1>1, <2>1, <2>6, <2>8, <2>11 DEF ProducerInv, PacketsArePackets
  <2>13. ReadingGoesOn'
    BY <1>1, <2>1, <2>6 DEF ReadingGoesOn, After
  <2>14. PacketStartsNext'
    <3>1. pos = AfterLast(opens)
      BY <1>1, <2>1 DEF ProducerInv, ReadingGoesOn
    <3>2. packet'.parts[1][2] = NextSignal(file, AfterLast(opens))
      BY <2>6, <3>1 DEF signal
    <3>3. QED
      BY <2>9, <2>11, <3>2 DEF PacketStartsNext
  <2>15. FailsBecause'
    BY <2>1 DEF FailsBecause
  <2>16. QED
    BY <2>11, <2>12, <2>13, <2>14, <2>15 DEF ProducerInv
<1>4. CASE ~CanRead \/ SignalsAfter(file, pos) = {}
  <2>1. /\ fail' = TRUE /\ loop' = "idle" /\ status' = "stopped" /\ packet' = packet
        /\ pos' = IF CanRead THEN Len(file) ELSE pos
    BY <1>4 DEF Scan, Ends
  <2>2. ReadStep /\ packet' \in Packet /\ ~UnderWay'
    BY <1>1, <1>2, <2>1 DEF ReadStep, InLoop, UnderWay
  <2>3. /\ ProducerTypeOK' /\ (loop \in InLoop => run > 0)'
        /\ OneRunPerOpening' /\ ConfiguredIsFresh' /\ LiveIsOfRun'
        /\ PacketIsOfOpening' /\ file' = file
    BY <2>2, ReadStepKeeps
  <2>4. PacketsArePackets'
    BY <1>1, <2>1, <2>2, <2>3 DEF ProducerInv, PacketsArePackets
  <2>5. ReadingGoesOn' /\ PacketStartsNext' /\ FailsBecause'
    BY <2>1, <2>2 DEF ReadingGoesOn, PacketStartsNext, FailsBecause
  <2>6. QED
    BY <2>3, <2>4, <2>5 DEF ProducerInv
<1>5. QED
  BY <1>3, <1>4 DEF Scan

(* More of an event is read, from its header on.                           *)
ReadOn(n) ==
  /\ UnderWay /\ LoopOnly /\ sent' = sent /\ is_open /\ ~fail /\ fail' = fail
  /\ pos + n <= Len(file) /\ pos' = pos + n
  /\ loop' = "rest" /\ status' = status
  /\ packet'.parts = WithPart(packet.parts, <<opens, pos + 1, pos + n>>)
  /\ packet'.got = packet.got + n /\ packet'.got <= packet'.length
  /\ packet'.length \in Nat /\ packet'.begun = packet.begun
  /\ packet' = [length |-> packet'.length, parts |-> packet'.parts,
                got |-> packet'.got, begun |-> packet'.begun]

LEMMA ReadOnKeeps ==
  ASSUME ProducerInv, NEW n \in Nat \ {0}, ReadOn(n)
  PROVE  /\ HasHeader(packet', file) => ProducerInv'
         /\ IsPacket(packet', file, opens) /\ After(packet', opens) = pos'
         /\ packet'.parts \in Seq(Stretch) /\ packet'.parts[1][2] = packet.parts[1][2]
         /\ Last(packet'.parts)[1] = opens
         /\ Len(packet'.parts) = 1 => Len(packet.parts) = 1
<1>1. /\ Len(file) \in Nat /\ pos \in 0 .. Len(file) /\ fail \in BOOLEAN
      /\ opens \in Nat /\ run \in Nat /\ packet \in Packet
  BY Typed
<1>2. /\ IsPacket(packet, file, opens) /\ pos = After(packet, opens)
  BY DEF ProducerInv, PacketsArePackets, ReadingGoesOn, ReadOn
<1>3. packet.got \in Nat /\ packet.begun \in Nat
  BY <1>1 DEF Packet
<1>4. /\ packet'.parts \in Seq(Stretch) /\ IsPacket(packet', file, opens)
      /\ After(packet', opens) = pos + n /\ Last(packet'.parts)[1] = opens
      /\ OpeningOf(packet') = OpeningOf(packet)
      /\ packet'.parts[1][2] = packet.parts[1][2]
      /\ Len(packet'.parts) = 1 => Len(packet.parts) = 1
  BY <1>1, <1>2, PacketReadOn DEF ReadOn
<1>5. packet'.got \in Nat
  BY <1>3 DEF ReadOn
<1>6. packet' \in Packet
  BY <1>3, <1>4, <1>5 DEF ReadOn, Packet
<1>7. OpeningOf(packet)' = OpeningOf(packet)
  BY <1>4 DEF OpeningOf
<1>8. pos' \in 0 .. Len(file)
  BY <1>1 DEF ReadOn
<1>9. ReadStep /\ SamePacket
  BY <1>1, <1>7, <1>8 DEF ReadOn, ReadStep, SamePacket, UnderWay, InLoop
<1>10. /\ ProducerTypeOK' /\ (loop \in InLoop => run > 0)'
       /\ OneRunPerOpening' /\ ConfiguredIsFresh' /\ LiveIsOfRun'
       /\ PacketIsOfOpening' /\ file' = file
       /\ \A o : AfterLast(o)' = AfterLast(o)
  BY <1>6, <1>9, ReadStepKeeps
<1>11. opens' = opens /\ sent' = sent
  BY DEF ReadOn, LoopOnly
<1>12. HasHeader(packet', file) => PacketsArePackets'
  BY <1>4, <1>10, <1>11 DEF ProducerInv, PacketsArePackets, ReadOn
<1>13. ReadingGoesOn'
  BY <1>4, <1>11 DEF ReadingGoesOn, ReadOn, After
<1>14. PacketStartsNext'
  BY <1>4, <1>7, <1>10 DEF PacketStartsNext, ProducerInv, ReadOn
<1>15. FailsBecause'
  BY DEF FailsBecause, ReadOn
<1>16. QED
  BY <1>4, <1>10, <1>12, <1>13, <1>14, <1>15 DEF ProducerInv, ReadOn

LEMMA HeaderKeeps ==
  ASSUME ProducerInv, ReadHeader
  PROVE  ProducerInv'
<1>1. /\ Len(file) \in Nat /\ pos \in 0 .. Len(file) /\ fail \in BOOLEAN
      /\ opens \in Nat /\ packet \in Packet /\ name \in DOMAIN Files
  BY Typed
<1>2. /\ loop = "header" /\ LoopOnly /\ sent' = sent /\ opens' = opens
      /\ UnderWay /\ packet.got = 1 /\ Len(packet.parts) = 1
  BY DEF ReadHeader, LoopOnly, UnderWay, ProducerInv, PacketsArePackets
<1>3. CASE Read /\ MayBeHeader(HeadAt(pos'))
  <2> DEFINE head == file[pos + 1]
  <2>1. /\ is_open /\ ~fail /\ pos + 1 <= Len(file) /\ fail' = fail /\ pos' = pos + 1
        /\ HeadAt(pos') = head
    BY <1>1, <1>3 DEF Read, CanRead, HeadAt
  <2>2. PacketLength(head) \in Nat \ {0, 1}
    BY <1>1, <1>3, <2>1, FilesAssumption DEF file
  <2>3. /\ loop' = "rest" /\ status' = status
        /\ packet' = [packet EXCEPT !.length = PacketLength(head),
                        !.parts = WithPart(packet.parts, <<opens, pos + 1, pos + 1>>),
                        !.got = 2]
    BY <1>2, <1>3, <2>1 DEF ReadHeader, ReadFails, Read
  <2> HIDE DEF head
  <2>4. /\ packet'.parts = WithPart(packet.parts, <<opens, pos + 1, pos + 1>>)
        /\ packet'.got = 2 /\ packet'.length = PacketLength(head)
        /\ packet'.begun = packet.begun
        /\ packet' = [length |-> packet'.length, parts |-> packet'.parts,
                      got |-> packet'.got, begun |-> packet'.begun]
    BY <1>1, <2>3 DEF Packet
  <2>5. ReadOn(1)
    BY <1>2, <2>1, <2>2, <2>3, <2>4 DEF ReadOn
  <2>6. /\ HasHeader(packet', file) => ProducerInv'
        /\ IsPacket(packet', file, opens) /\ After(packet', opens) = pos'
        /\ packet'.parts \in Seq(Stretch) /\ Last(packet'.parts)[1] = opens
    BY <2>5, ReadOnKeeps
  <2>7. HasHeader(packet', file)
    <3>1. SUFFICES ASSUME Len(packet'.parts) = 1
                   PROVE  file[packet'.parts[1][2] + 1] = head
      BY <1>3, <2>1, <2>4 DEF HasHeader
    <3>2. Last(packet'.parts) = packet'.parts[1]
      BY <3>1 DEF Last
    <3>3. packet'.parts[1][3] = pos + 1
      BY <2>1, <2>6, <3>2 DEF After
    <3>4. packet'.parts[1][3] = packet'.parts[1][2] + packet'.got - 1
      BY <2>6, <3>1 DEF IsPacket
    <3>5. packet'.parts[1][2] \in Nat
      BY <2>6, <3>1, ElementOfSeq DEF Stretch
    <3>6. packet'.parts[1][2] + 1 = pos + 1
      BY <2>4, <3>3, <3>4, <3>5
    <3>7. QED
      BY <3>6 DEF head
  <2>8. QED
    BY <2>6, <2>7
<1>4. CASE loop' = "thrown" /\ status' = "error" /\ packet' = packet
           /\ pos' \in 0 .. Len(file) /\ fail' \in BOOLEAN /\ (fail => fail')
  <2>1. ReadStep /\ ~UnderWay'
    BY <1>2, <1>4 DEF ReadStep, InLoop, UnderWay
  <2>2. /\ ProducerTypeOK' /\ (loop \in InLoop => run > 0)'
        /\ OneRunPerOpening' /\ ConfiguredIsFresh' /\ LiveIsOfRun'
        /\ PacketIsOfOpening' /\ file' = file
    BY <1>1, <1>4, <2>1, ReadStepKeeps
  <2>3. PacketsArePackets'
    BY <1>2, <1>4, <2>1, <2>2 DEF ProducerInv, PacketsArePackets
  <2>4. ReadingGoesOn' /\ PacketStartsNext' /\ FailsBecause'
    BY <1>4, <2>1 DEF ReadingGoesOn, PacketStartsNext, FailsBecause
  <2>5. QED
    BY <2>2, <2>3, <2>4 DEF ProducerInv
<1>5. QED
  <2>1. CASE Read
    <3>1. pos' \in 0 .. Len(file) /\ fail' = fail
      BY <1>1, <2>1 DEF Read, CanRead
    <3>2. QED
      BY <1>1, <1>3, <1>4, <2>1, <3>1 DEF ReadHeader, ReadFails, Read
  <2>2. CASE ReadFails
    <3>1. pos' \in 0 .. Len(file) /\ fail' = TRUE
      BY <1>1, <2>2 DEF ReadFails
    <3>2. QED
      BY <1>4, <2>2, <3>1 DEF ReadHeader, ReadFails, Read
  <2>3. QED
    BY <2>1, <2>2 DEF ReadHeader

LEMMA WantedFits ==
  ASSUME ProducerInv, loop = "rest", ~Whole(packet), CanRead
  PROVE  /\ Wanted \in Nat \ {0}
         /\ packet.got + Wanted <= packet.length /\ pos + Wanted <= Len(file)
<1>1. /\ Len(file) \in Nat /\ pos \in 0 .. Len(file) /\ packet \in Packet
  BY Typed
<1>2. packet.got \in Nat /\ packet.length \in Nat /\ packet.got <= packet.length
  BY <1>1 DEF Packet, ProducerInv, PacketsArePackets, UnderWay, IsPacket
<1>3. /\ Chunk \in Nat \ {0} /\ packet.length - packet.got \in Nat \ {0}
      /\ Len(file) - pos \in Nat \ {0}
  BY <1>1, <1>2, ChunkAssumption DEF Whole, CanRead
<1> DEFINE S == {Chunk, packet.length - packet.got, Len(file) - pos}
<1>4. S \in SUBSET Nat /\ S # {}
  BY <1>3
<1>5. Min(S) \in S /\ \A m \in S : Min(S) <= m
  BY <1>4, LeastNat
<1>6. Wanted = Min(S)
  BY DEF Wanted
<1>7. /\ Wanted \in Nat \ {0} /\ Wanted <= packet.length - packet.got
      /\ Wanted <= Len(file) - pos
  BY <1>3, <1>5, <1>6
<1>8. QED
  BY <1>1, <1>2, <1>7

LEMMA RestKeeps ==
  ASSUME ProducerInv, ReadRest
  PROVE  ProducerInv'
<1>1. /\ Len(file) \in Nat /\ pos \in 0 .. Len(file) /\ fail \in BOOLEAN
      /\ opens \in Nat /\ packet \in Packet /\ is_open \in BOOLEAN
  BY Typed
<1>2. /\ loop = "rest" /\ LoopOnly /\ sent' = sent /\ opens' = opens /\ UnderWay
      /\ status' = status /\ is_open' = is_open /\ caught' = caught
      /\ IsPacket(packet, file, opens) /\ HasHeader(packet, file)
      /\ pos = After(packet, opens)
  BY DEF ReadRest, LoopOnly, UnderWay, ProducerInv, PacketsArePackets, ReadingGoesOn
<1>3. packet.got \in Nat /\ packet.length \in Nat /\ packet.begun \in Nat
  BY <1>1 DEF Packet
<1>4. CASE /\ ~Whole(packet) /\ CanRead /\ pos' = pos + Wanted
           /\ packet' = [packet EXCEPT !.parts = WithPart(@, <<opens, pos + 1, pos'>>),
                                       !.got = @ + Wanted]
           /\ UNCHANGED <<fail, loop>>
  <2> DEFINE n == Wanted
  <2>1. /\ n \in Nat \ {0} /\ packet.got + n <= packet.length /\ pos + n <= Len(file)
    BY <1>2, <1>4, WantedFits
  <2>2. /\ is_open /\ ~fail /\ fail' = fail /\ loop' = "rest" /\ pos' = pos + n
        /\ packet' = [packet EXCEPT
                        !.parts = WithPart(packet.parts, <<opens, pos + 1, pos + n>>),
                        !.got = packet.got + n]
    BY <1>2, <1>4 DEF CanRead
  <2> HIDE DEF n
  <2>3. /\ packet'.parts = WithPart(packet.parts, <<opens, pos + 1, pos + n>>)
        /\ packet'.got = packet.got + n /\ packet'.length = packet.length
        /\ packet'.begun = packet.begun
        /\ packet' = [length |-> packet'.length, parts |-> packet'.parts,
                      got |-> packet'.got, begun |-> packet'.begun]
    BY <1>1, <2>2 DEF Packet
  <2>4. ReadOn(n)
    BY <1>2, <1>3, <2>1, <2>2, <2>3 DEF ReadOn
  <2>5. /\ HasHeader(packet', file) => ProducerInv'
        /\ packet'.parts[1][2] = packet.parts[1][2]
        /\ Len(packet'.parts) = 1 => Len(packet.parts) = 1
    BY <2>1, <2>4, ReadOnKeeps
  <2>6. HasHeader(packet', file)
    <3>1. packet.got >= 2 /\ packet'.got >= 2
      BY <1>2, <1>3, <2>1, <2>3 DEF HasHeader
    <3>2. QED
      BY <1>2, <2>3, <2>5, <3>1 DEF HasHeader
  <2>7. QED
    BY <2>5, <2>6
<1>5. ASSUME loop' = "send", packet' = packet, pos' = pos, fail' \in BOOLEAN, fail => fail',
             ~Whole(packet) => CutBecause(packet)
      PROVE  ProducerInv'
  <2>1. ReadStep /\ SamePacket
    BY <1>1, <1>2, <1>5 DEF ReadStep, SamePacket, InLoop, UnderWay, OpeningOf
  <2>2. /\ ProducerTypeOK' /\ (loop \in InLoop => run > 0)'
        /\ OneRunPerOpening' /\ ConfiguredIsFresh' /\ LiveIsOfRun'
        /\ PacketIsOfOpening' /\ file' = file
        /\ \A o : AfterLast(o)' = AfterLast(o)
    BY <1>1, <1>5, <2>1, ReadStepKeeps
  <2>3. PacketsArePackets'
    BY <1>2, <1>5, <2>2 DEF ProducerInv, PacketsArePackets
  <2>4. ReadingGoesOn'
    BY <1>2, <1>5 DEF ReadingGoesOn
  <2>5. PacketStartsNext'
    BY <1>2, <1>5, <2>2 DEF PacketStartsNext, ProducerInv, OpeningOf
  <2>6. FailsBecause'
    BY <1>2, <1>5, <2>2 DEF FailsBecause, CutBecause, Whole
  <2>7. QED
    BY <2>2, <2>3, <2>4, <2>5, <2>6 DEF ProducerInv
<1>6. CASE ~Whole(packet) /\ ReadFails /\ loop' = "send" /\ UNCHANGED packet
  <2>1. fail' = TRUE /\ pos' = pos /\ ~CanRead
    BY <1>6 DEF ReadFails
  <2>2. /\ Last(packet.parts)[1] \in 1 .. opens /\ Last(packet.parts)[3] \in 1 .. Len(file)
    BY <1>1, <1>2, PacketFacts
  <2>3. CASE fail
    <3>1. ~is_open \/ Last(packet.parts)[1] < opens \/ opens \in caught
      BY <1>2, <2>3 DEF ProducerInv, FailsBecause
    <3>2. CutBecause(packet)
      BY <1>1, <2>2, <3>1 DEF CutBecause
    <3>3. QED
      BY <1>5, <1>6, <2>1, <3>2
  <2>4. CASE ~fail
    <3>1. ~is_open \/ pos = Len(file)
      BY <1>1, <2>1, <2>4 DEF CanRead
    <3>2. CutBecause(packet)
      BY <1>1, <1>2, <2>2, <3>1 DEF CutBecause, After
    <3>3. QED
      BY <1>5, <1>6, <2>1, <3>2
  <2>5. QED
    BY <2>3, <2>4
<1>7. CASE Whole(packet) /\ loop' = "send" /\ UNCHANGED <<fail, pos, packet>>
  BY <1>1, <1>5, <1>7
<1>8. QED
  BY <1>4, <1>6, <1>7 DEF ReadRest

LEMMA SendKeeps ==
  ASSUME ProducerInv, Send
  PROVE  ProducerInv'
<1>1. /\ loop = "send" /\ loop' = "top" /\ UnderWay /\ ~UnderWay'
      /\ name' = name /\ is_open' = is_open /\ run' = run /\ opens' = opens
      /\ caught' = caught /\ fail' = fail /\ pos' = pos /\ status' = status
      /\ packet' = packet /\ sent' = Append(sent, [packet |-> packet, run |-> run])
      /\ file' = file
  BY DEF Send, LoopOnly, UnderWay, file
<1>2. /\ packet \in Packet /\ run \in Nat /\ run > 0 /\ sent \in Seq(Event)
      /\ sent \in Seq([packet : Packet, run : 1 .. run])
  BY <1>1, Typed DEF ProducerInv, ProducerTypeOK, InLoop
<1> DEFINE event == [packet |-> packet, run |-> run]
<1>3. event \in [packet : Packet, run : 1 .. run]
  BY <1>2
<1>4. event.packet = packet /\ event.run = run
  OBVIOUS
<1> HIDE DEF event
<1>5. sent' = Append(sent, event)
  BY <1>1 DEF event
<1>6. /\ sent' \in Seq([packet : Packet, run : 1 .. run]) /\ Len(sent') = Len(sent) + 1
      /\ \A k \in 1 .. Len(sent) : sent'[k] = sent[k]
      /\ sent'[Len(sent) + 1] = event /\ sent' # << >> /\ Last(sent') = event
      /\ Len(sent) \in Nat /\ DOMAIN sent = 1 .. Len(sent)
      /\ DOMAIN sent' = 1 .. Len(sent')
  <2> DEFINE S == [packet : Packet, run : 1 .. run]
  <2>1. sent \in Seq(S) /\ event \in S
    BY <1>2, <1>3
  <2> HIDE DEF S
  <2>2. /\ sent' \in Seq(S) /\ Len(sent') = Len(sent) + 1
        /\ \A k \in 1 .. Len(sent) : sent'[k] = sent[k]
        /\ sent'[Len(sent) + 1] = event /\ sent' # << >> /\ Last(sent') = event
    BY <1>5, <2>1, Appended
  <2>3. Len(sent) \in Nat /\ DOMAIN sent = 1 .. Len(sent) /\ DOMAIN sent' = 1 .. Len(sent')
    BY <2>1, <2>2, LenProperties
  <2>4. QED
    BY <2>2, <2>3 DEF S
<1>7. \A k \in DOMAIN sent' : (k \in DOMAIN sent /\ sent'[k] = sent[k])
                              \/ (k = Len(sent) + 1 /\ sent'[k] = event)
  BY <1>6
<1>8. ProducerTypeOK'
  BY <1>1, <1>2, <1>6 DEF ProducerInv, ProducerTypeOK, InLoop
<1>9. \A k \in DOMAIN sent' :
        \/ k \in DOMAIN sent /\ Opening(k)' = Opening(k)
        \/ k = Len(sent) + 1 /\ Opening(k)' = OpeningOf(packet)
  BY <1>4, <1>7 DEF Opening, OpeningOf
<1>10. /\ IsPacket(packet, file, opens) /\ HasHeader(packet, file)
       /\ pos = After(packet, opens)
  BY <1>1 DEF ProducerInv, PacketsArePackets, ReadingGoesOn
<1>11. OneRunPerOpening'
  <2> SUFFICES ASSUME NEW i \in DOMAIN sent', NEW j \in DOMAIN sent',
                      Opening(i)' = Opening(j)', Opening(i)' \notin caught
               PROVE  /\ sent'[i].packet.begun = sent'[j].packet.begun
                      /\ i < j => sent'[i].run = sent'[i].packet.begun
    BY <1>1 DEF OneRunPerOpening
  <2>1. CASE i \in DOMAIN sent /\ j \in DOMAIN sent
    <3>1. Opening(i)' = Opening(i) /\ Opening(j)' = Opening(j)
      BY <1>6, <1>9, <2>1
    <3>2. sent'[i] = sent[i] /\ sent'[j] = sent[j]
      BY <1>6, <2>1
    <3>3. QED
      BY <2>1, <3>1, <3>2 DEF ProducerInv, OneRunPerOpening
  <2>2. ASSUME NEW k \in DOMAIN sent, Opening(k) = OpeningOf(packet),
               OpeningOf(packet) \notin caught
        PROVE  sent[k].packet.begun = packet.begun /\ sent[k].run = packet.begun
    BY <1>1, <2>2 DEF ProducerInv, PacketIsOfOpening
  <2>3. CASE i \in DOMAIN sent /\ j = Len(sent) + 1
    <3>1. Opening(i)' = Opening(i) /\ Opening(j)' = OpeningOf(packet)
      BY <1>6, <1>9, <2>3
    <3>2. sent'[i] = sent[i] /\ sent'[j] = event
      BY <1>6, <2>3
    <3>3. QED
      BY <1>4, <2>2, <2>3, <3>1, <3>2
  <2>4. CASE i = Len(sent) + 1 /\ j \in DOMAIN sent
    <3>1. Opening(j)' = Opening(j) /\ Opening(i)' = OpeningOf(packet) /\ ~(i < j)
      BY <1>6, <1>9, <2>4
    <3>2. sent'[j] = sent[j] /\ sent'[i] = event
      BY <1>6, <2>4
    <3>3. QED
      BY <1>4, <2>2, <2>4, <3>1, <3>2
  <2>5. CASE i = Len(sent) + 1 /\ j = Len(sent) + 1
    BY <1>6, <2>5
  <2>6. QED
    BY <1>7, <2>1, <2>3, <2>4, <2>5
<1>12. ConfiguredIsFresh'
  BY <1>1 DEF ProducerInv, ConfiguredIsFresh
<1>13. LiveIsOfRun'
  <2> SUFFICES ASSUME Live
               PROVE  /\ opens > 0 /\ status = "running"
                      /\ \A k \in DOMAIN sent' : Opening(k)' = opens =>
                           sent'[k].packet.begun = run /\ sent'[k].run = run
    BY <1>1 DEF LiveIsOfRun, Live
  <2>1. /\ opens > 0 /\ status = "running"
        /\ OpeningOf(packet) = opens => packet.begun = run
        /\ \A k \in DOMAIN sent : Opening(k) = opens =>
             sent[k].packet.begun = run /\ sent[k].run = run
    BY <1>1 DEF ProducerInv, LiveIsOfRun, InLoop
  <2>2. ASSUME NEW k \in DOMAIN sent', Opening(k)' = opens
        PROVE  sent'[k].packet.begun = run /\ sent'[k].run = run
    <3>1. CASE k \in DOMAIN sent
      BY <1>6, <1>9, <2>1, <2>2, <3>1
    <3>2. CASE k = Len(sent) + 1
      BY <1>4, <1>6, <1>9, <2>1, <2>2, <3>2
    <3>3. QED
      BY <1>7, <3>1, <3>2
  <2>3. QED
    BY <2>1, <2>2
<1>14. PacketIsOfOpening' /\ PacketStartsNext' /\ FailsBecause'
  BY <1>1 DEF PacketIsOfOpening, PacketStartsNext, FailsBecause
<1>15. PacketsArePackets'
  BY <1>1, <1>4, <1>7, <1>10 DEF ProducerInv, PacketsArePackets
<1>16. ReadingGoesOn'
  BY <1>1, <1>4, <1>6, <1>10 DEF ReadingGoesOn, AfterLast, After
<1>17. QED
  BY <1>1, <1>2, <1>8, <1>11, <1>12, <1>13, <1>14, <1>15, <1>16 DEF ProducerInv

LEMMA RunLoopKeeps ==
  ASSUME ProducerInv, RunLoop
  PROVE  ProducerInv'
BY TopKeeps, ScanKeeps, HeaderKeeps, RestKeeps, SendKeeps DEF RunLoop

-----------------------------------------------------------------------------
(* The events that have been sent follow each other in the file.           *)
Follows ==
  /\ \A k \in DOMAIN sent : ~Whole(sent[k].packet) => CutBecause(sent[k].packet)
  /\ sent # << >> => sent[1].packet.parts[1][2] = NextSignal(file, 0)
  /\ \A k \in DOMAIN sent : k + 1 \in DOMAIN sent =>
       sent[k + 1].packet.parts[1][2] =
         NextSignal(file, After(sent[k].packet, Opening(k + 1)))

LEMMA FollowsUntilSent ==
  ASSUME ProducerInv, Follows, name' = name, sent' = sent, opens' \in Nat,
         caught \subseteq caught',
         (opens' = opens /\ (is_open' => is_open)) \/ opens < opens'
  PROVE  Follows'
<1>1. file' = file
  BY DEF file
<1>2. \A k \in DOMAIN sent : CutBecause(sent[k].packet) => CutBecause(sent[k].packet)'
  <2> SUFFICES ASSUME NEW k \in DOMAIN sent, CutBecause(sent[k].packet)
               PROVE  CutBecause(sent[k].packet)'
    OBVIOUS
  <2>1. Last(sent[k].packet.parts)[1] \in 1 .. opens /\ opens \in Nat
    BY Typed, PacketFacts
  <2>2. QED
    BY <1>1, <2>1 DEF CutBecause
<1>3. QED
  BY <1>1, <1>2 DEF Follows, Opening, Whole

LEMMA SendFollows ==
  ASSUME ProducerInv, Follows, Send
  PROVE  Follows'
<1>1. /\ loop = "send" /\ UnderWay /\ file' = file /\ is_open' = is_open
      /\ opens' = opens /\ caught' = caught
      /\ sent' = Append(sent, [packet |-> packet, run |-> run])
  BY DEF Send, LoopOnly, UnderWay, file
<1> DEFINE event == [packet |-> packet, run |-> run]
<1>2. sent \in Seq(Event) /\ event \in Event
  BY Typed DEF Event
<1>3. event.packet = packet
  OBVIOUS
<1> HIDE DEF event
<1>4. sent' = Append(sent, event)
  BY <1>1 DEF event
<1>5. /\ Len(sent') = Len(sent) + 1 /\ sent'[Len(sent) + 1] = event
      /\ \A k \in 1 .. Len(sent) : sent'[k] = sent[k]
      /\ sent' \in Seq(Event)
  BY <1>2, <1>4, Appended
<1>6. Len(sent) \in Nat /\ DOMAIN sent = 1 .. Len(sent) /\ DOMAIN sent' = 1 .. Len(sent')
  BY <1>2, <1>5, LenProperties
<1>7. \A k \in DOMAIN sent' : (k \in DOMAIN sent /\ sent'[k] = sent[k])
                              \/ (k = Len(sent) + 1 /\ sent'[k] = event)
  BY <1>5, <1>6
<1>8. \A k \in DOMAIN sent' : ~Whole(sent'[k].packet) => CutBecause(sent'[k].packet)
  BY <1>1, <1>3, <1>7 DEF Follows, ProducerInv, FailsBecause
<1>9. \A p : CutBecause(p)' <=> CutBecause(p)
  BY <1>1 DEF CutBecause
<1>10. packet.parts[1][2] = NextSignal(file, AfterLast(OpeningOf(packet)))
  BY <1>1 DEF ProducerInv, PacketStartsNext
<1>11. sent'[1].packet.parts[1][2] = NextSignal(file, 0)
  <2>1. CASE sent = << >>
    <3>1. sent'[1] = event
      BY <1>5, <2>1, EmptySeq
    <3>2. QED
      BY <1>3, <1>10, <2>1, <3>1 DEF AfterLast
  <2>2. CASE sent # << >>
    <3>1. 1 \in 1 .. Len(sent)
      BY <1>2, <2>2, EndOfSeq
    <3>2. QED
      BY <1>5, <2>2, <3>1 DEF Follows
  <2>3. QED
    BY <2>1, <2>2
<1>12. ASSUME NEW k \in DOMAIN sent', k + 1 \in DOMAIN sent'
       PROVE  sent'[k + 1].packet.parts[1][2] =
                NextSignal(file, After(sent'[k].packet, OpeningOf(sent'[k + 1].packet)))
  <2>1. k \in DOMAIN sent /\ sent'[k] = sent[k]
    BY <1>5, <1>6, <1>12
  <2>2. CASE k + 1 \in DOMAIN sent
    <3>1. sent'[k + 1] = sent[k + 1]
      BY <1>5, <1>6, <2>2
    <3>2. QED
      BY <2>1, <2>2, <3>1 DEF Follows, Opening
  <2>3. CASE k = Len(sent)
    <3>1. sent # << >> /\ Last(sent) = sent[k] /\ sent'[k + 1] = event
      BY <1>2, <1>5, <1>6, <2>1, <2>3, EmptySeq DEF Last
    <3>2. QED
      BY <1>3, <1>10, <2>1, <3>1 DEF AfterLast
  <2>4. QED
    BY <1>6, <1>5, <1>12, <2>1, <2>2, <2>3
<1>13. QED
  BY <1>1, <1>8, <1>9, <1>11, <1>12 DEF Follows, Opening, Whole

LEMMA OneStretch ==
  ASSUME name \in DOMAIN Files, NEW o \in Nat, NEW p \in Packet,
         IsPacket(p, file, o), HasHeader(p, file), Len(p.parts) = 1
  PROVE  \A q \in p.parts[1][2] + 1 .. Last(p.parts)[3] : ~file[q].signal
<1> DEFINE start == p.parts[1][2]
<1> DEFINE end == Last(p.parts)[3]
<1>1. Len(file) \in Nat
  BY FilesAssumption DEF file
<1>2. /\ start \in 1 .. Len(file) /\ end \in 1 .. Len(file)
      /\ p.got \in Nat /\ p.length \in Nat
  BY <1>1, PacketFacts
<1>3. end = p.parts[1][3]
  BY DEF Last
<1>4. /\ end = start + p.got - 1 /\ p.got <= p.length /\ p.got >= 2
      /\ file[start].signal /\ MayBeHeader(file[start + 1])
      /\ p.length = PacketLength(file[start + 1])
  BY <1>3 DEF IsPacket, HasHeader
<1> HIDE DEF start, end
<1>5. start \in 1 .. Len(file) - 1
  BY <1>1, <1>2, <1>4
<1>6. \A r \in start + 1 .. Len(file) :
        r < start + PacketLength(file[start + 1]) => ~file[r].signal
  BY <1>4, <1>5, FilesAssumption DEF file
<1>7. \A q \in start + 1 .. end : ~file[q].signal
  <2> TAKE q \in start + 1 .. end
  <2>1. q \in start + 1 .. Len(file) /\ q < start + p.length
    BY <1>1, <1>2, <1>4
  <2>2. QED
    BY <1>4, <1>6, <2>1
<1>8. QED
  BY <1>7 DEF start, end

LEMMA EventsFollow ==
  ASSUME ProducerInv, Follows
  PROVE  EventsFollowFile
<1> SUFFICES ASSUME NEW k \in DOMAIN sent
             PROVE  LET p     == sent[k].packet
                        start == p.parts[1]
                        end   == Last(p.parts)
                        again == {i \in DOMAIN p.parts : i > 1}
                    IN  /\ again = {} =>
                             \A q \in start[2] + 1 .. end[3] : ~file[q].signal
                        /\ \A i \in again :
                             p.parts[i][1] > p.parts[i - 1][1] /\ p.parts[i][2] = 1
                        /\ k = 1 => start[2] = NextSignal(file, 0)
                        /\ ~Whole(p) => CutBecause(p)
                        /\ k < Len(sent) =>
                             LET next == sent[k + 1].packet.parts[1]
                             IN  next[2] = NextSignal(file,
                                   IF next[1] = end[1] THEN end[3] ELSE 0)
  BY DEF EventsFollowFile
<1> DEFINE p == sent[k].packet
<1>1. /\ p \in Packet /\ IsPacket(p, file, opens) /\ HasHeader(p, file)
      /\ opens \in Nat /\ Len(file) \in Nat /\ name \in DOMAIN Files
      /\ sent \in Seq(Event)
  BY Typed DEF ProducerInv, PacketsArePackets
<1>2. /\ p.parts \in Seq(Stretch) /\ p.parts # << >>
  BY <1>1, PacketFacts
<1>3. \A i \in DOMAIN p.parts : i > 1 =>
        p.parts[i][1] > p.parts[i - 1][1] /\ p.parts[i][2] = 1
  BY <1>1 DEF IsPacket, InOrder
<1>4. ~Whole(p) => CutBecause(p)
  BY DEF Follows
<1>5. k = 1 => p.parts[1][2] = NextSignal(file, 0)
  BY <1>1 DEF Follows
<1>6. k < Len(sent) =>
        sent[k + 1].packet.parts[1][2] =
          NextSignal(file, IF sent[k + 1].packet.parts[1][1] = Last(p.parts)[1]
                             THEN Last(p.parts)[3] ELSE 0)
  <2>1. k < Len(sent) => k + 1 \in DOMAIN sent
    <3>1. Len(sent) \in Nat /\ DOMAIN sent = 1 .. Len(sent)
      BY <1>1, LenProperties
    <3>2. QED
      BY ONLY <3>1, k \in DOMAIN sent
  <2>2. QED
    BY <2>1 DEF Follows, After, Opening, OpeningOf
<1>7. {i \in DOMAIN p.parts : i > 1} = {} =>
        \A q \in p.parts[1][2] + 1 .. Last(p.parts)[3] : ~file[q].signal
  <2> HIDE DEF p
  <2> SUFFICES ASSUME {i \in DOMAIN p.parts : i > 1} = {}
               PROVE  \A q \in p.parts[1][2] + 1 .. Last(p.parts)[3] : ~file[q].signal
    OBVIOUS
  <2> DEFINE last == Len(p.parts)
  <2>1. last \in Nat \ {0} /\ last \in DOMAIN p.parts
    BY <1>2, EndOfSeq
  <2>2. ~(last > 1)
    BY <2>1
  <2> HIDE DEF last
  <2>3. last = 1
    BY <2>1, <2>2
  <2>4. QED
    BY <1>1, <2>3, OneStretch DEF last
<1> HIDE DEF p
<1>8. QED
  BY <1>3, <1>4, <1>5, <1>6, <1>7 DEF p

-----------------------------------------------------------------------------
(* The whole chain.                                                        *)
ControlInv == RunIsWatched /\ ControlKnows

ChainTypeOK ==
  /\ m_evt_c \in Nat /\ run_c = number /\ run = number
  /\ received \in Seq(Received) /\ delivered \in Seq(Received)
  /\ seen \in 0 .. Len(delivered) /\ shown \in 0 .. Len(delivered)
  /\ taken \in 0 .. Len(sent) /\ others \in Nat /\ nevents \in Nat
  /\ looked \in Seq(Nat) /\ Len(looked) = nevents /\ counted \in Nat
  /\ user \in {"idle", "started", "timed", "stopped"}
  /\ exec \in {"poll", "decided", "stopping"}
  /\ decided \in [run : 0 .. number, starting : BOOLEAN]

IInv == ProducerInv /\ Follows /\ ChainTypeOK /\ ControlInv

LEMMA IInvIsHCalInv == IInv => HCalInv
BY DEF IInv, HCalInv, ProducerInv, TypeOK, ChainTypeOK, ControlInv

LEMMA InitEstablishes == Init => IInv
<1> SUFFICES ASSUME Init
             PROVE  IInv
  OBVIOUS
<1>1. /\ name \in DOMAIN Files
      /\ status = "unconf" /\ is_open = FALSE /\ fail = FALSE /\ pos = 0
      /\ loop = "idle" /\ packet = NoPacket /\ sent = << >>
      /\ run = 0 /\ opens = 0 /\ caught = {}
      /\ m_evt_c = 0 /\ run_c = 0 /\ received = << >> /\ delivered = << >>
      /\ m_flag_running = FALSE /\ overdue = FALSE /\ aged = FALSE
      /\ user = "idle" /\ exec = "poll" /\ number = 0
      /\ decided = [run |-> 0, starting |-> FALSE] /\ overlap = FALSE
      /\ nevents = 0 /\ counted = 0 /\ taken = 0 /\ others = 0 /\ seen = 0 /\ shown = 0
      /\ looked = << >>
  BY DEF Init, ProducerInit, CollectorInit, ControlInit
<1>2. Len(file) \in Nat
  BY <1>1, FilesAssumption DEF file
<1>3. << >> \in Seq([packet : Packet, run : 1 .. run]) /\ DOMAIN << >> = {}
  <2>1. \A S : << >> \in Seq(S)
    BY EmptySeq
  <2>2. QED
    BY <2>1
<1>4. NoPacket \in Packet
  <2>1. << >> \in Seq(Stretch)
    BY EmptySeq
  <2> HIDE DEF Stretch
  <2>2. QED
    BY ONLY <2>1 DEF NoPacket, Packet
<1>5. ProducerTypeOK
  <2>1. sent \in Seq([packet : Packet, run : 1 .. run]) /\ packet \in Packet
    BY ONLY <1>1, <1>3, <1>4
  <2>2. pos \in 0 .. Len(file) /\ caught \subseteq 1 .. opens /\ run \in Nat /\ opens \in Nat
    BY <1>1, <1>2
  <2>3. QED
    BY <1>1, <2>1, <2>2 DEF ProducerTypeOK
<1>6. /\ OneRunPerOpening /\ ConfiguredIsFresh /\ LiveIsOfRun
      /\ PacketIsOfOpening /\ PacketsArePackets /\ ReadingGoesOn
      /\ PacketStartsNext /\ FailsBecause /\ Follows
  BY <1>1, <1>3
     DEF OneRunPerOpening, ConfiguredIsFresh, LiveIsOfRun, Live, PacketIsOfOpening,
         PacketsArePackets, ReadingGoesOn, PacketStartsNext, FailsBecause, Follows,
         UnderWay, AfterLast
<1>7. ChainTypeOK
  BY <1>1, <1>3, EmptySeq DEF ChainTypeOK
<1>8. ControlInv
  BY <1>1 DEF ControlInv, RunIsWatched, ControlKnows, InLoop
<1>9. QED
  BY <1>1, <1>5, <1>6, <1>7, <1>8 DEF IInv, ProducerInv, InLoop

LEMMA StutterKeeps ==
  ASSUME ProducerInv, Follows, UNCHANGED producerVars
  PROVE  ProducerInv' /\ Follows'
<1>1. /\ name' = name /\ status' = status /\ is_open' = is_open /\ fail' = fail
      /\ pos' = pos /\ loop' = loop /\ packet' = packet /\ sent' = sent
      /\ run' = run /\ opens' = opens /\ caught' = caught /\ file' = file
  BY DEF producerVars, stream, file
<1>2. ProducerTypeOK'
  BY <1>1 DEF ProducerInv, ProducerTypeOK
<1>3. OneRunPerOpening' /\ ConfiguredIsFresh' /\ LiveIsOfRun' /\ PacketIsOfOpening'
  BY <1>1 DEF ProducerInv, OneRunPerOpening, ConfiguredIsFresh, LiveIsOfRun, Live,
              UnderWay, PacketIsOfOpening, Opening
<1>4. PacketsArePackets'
  BY <1>1 DEF ProducerInv, PacketsArePackets, UnderWay
<1>5. ReadingGoesOn' /\ PacketStartsNext'
  BY <1>1 DEF ProducerInv, ReadingGoesOn, PacketStartsNext, UnderWay, AfterLast
<1>6. FailsBecause'
  BY <1>1 DEF ProducerInv, FailsBecause, CutBecause, Whole
<1>7. Follows'
  BY <1>1, FollowsUntilSent, Typed
<1>8. QED
  BY <1>1, <1>2, <1>3, <1>4, <1>5, <1>6, <1>7 DEF ProducerInv

(* Every step of the chain is one of the producer or leaves it alone.      *)
LEMMA ProducerSteps ==
  ASSUME ProducerInv, Follows, Next
  PROVE  ProducerInv' /\ Follows'
<1>1. opens \in Nat /\ caught \subseteq 1 .. opens /\ is_open \in BOOLEAN
  BY Typed
<1>2. ASSUME NEW exists \in BOOLEAN, DoConfigure(exists)
      PROVE  ProducerInv' /\ Follows'
  <2>1. /\ name' = name /\ sent' = sent /\ opens' \in Nat /\ caught \subseteq caught'
        /\ (opens' = opens /\ is_open' = is_open) \/ opens < opens'
    BY <1>1, <1>2 DEF DoConfigure, Open, Beginning
  <2>2. QED
    BY <1>2, <2>1, ConfigureKeeps, FollowsUntilSent
<1>3. ASSUME DoStartRun \/ DoStopRun \/ DoReset
      PROVE  ProducerInv' /\ Follows'
  <2>1. /\ name' = name /\ sent' = sent /\ opens' = opens /\ caught' = caught
        /\ is_open' => is_open
    BY <1>3 DEF DoStartRun, DoStopRun, DoReset, stream, Closed
  <2>2. Follows'
    BY <1>1, <2>1, FollowsUntilSent
  <2>3. QED
    BY <1>3, <2>2, StartKeeps, StopKeeps, ResetKeeps
<1>4. ASSUME RunLoop
      PROVE  ProducerInv' /\ Follows'
  <2>1. CASE Send
    BY <2>1, SendKeeps, SendFollows
  <2>2. CASE Top \/ Scan \/ ReadHeader \/ ReadRest
    <3>1. /\ name' = name /\ sent' = sent /\ opens' = opens /\ caught' = caught
          /\ is_open' = is_open
      BY <2>2 DEF Top, Scan, ReadHeader, ReadRest, LoopOnly
    <3>2. Follows'
      BY <1>1, <3>1, FollowsUntilSent
    <3>3. QED
      BY <1>4, <3>2, RunLoopKeeps
  <2>3. QED
    BY <1>4, <2>1, <2>2 DEF RunLoop
<1>5. CASE UNCHANGED producerVars
  BY <1>5, StutterKeeps
<1>6. QED
  BY <1>2, <1>3, <1>4, <1>5
     DEF Next, Configure, Reset, StartRun, StopRun, StopsProducer, Control, Produce,
         Collect, CollectOther, Monitor, Show

(* What the steps that are not of the chain leave alone.                   *)
LEMMA ReceiveKeeps ==
  ASSUME ProducerInv, ChainTypeOK, NEW e \in Nat, DoReceive(e)
  PROVE  /\ m_evt_c' \in Nat /\ run_c' = run_c
         /\ received' \in Seq(Received) /\ delivered' \in Seq(Received)
         /\ 0 .. Len(delivered) \subseteq 0 .. Len(delivered')
<1>1. /\ m_evt_c \in Nat /\ run_c \in Nat
      /\ received \in Seq(Received) /\ delivered \in Seq(Received)
  BY Typed DEF ChainTypeOK
<1>2. Numbered(e) \in Received
  BY <1>1 DEF Numbered, Received
<1>3. /\ Append(received, Numbered(e)) \in Seq(Received)
      /\ Append(delivered, Numbered(e)) \in Seq(Received)
      /\ Len(Append(delivered, Numbered(e))) = Len(delivered) + 1
      /\ Len(delivered) \in Nat
  BY <1>1, <1>2, Appended, LenProperties
<1>4. /\ m_evt_c' = m_evt_c + 1 /\ run_c' = run_c
      /\ received' = Append(received, Numbered(e))
      /\ delivered' = delivered \/ delivered' = Append(delivered, Numbered(e))
  BY DEF DoReceive
<1>5. Len(delivered') = Len(delivered) \/ Len(delivered') = Len(delivered) + 1
  BY <1>3, <1>4
<1>6. 0 .. Len(delivered) \subseteq 0 .. Len(delivered')
  <2> DEFINE before == Len(delivered)
  <2> DEFINE after == Len(delivered')
  <2>1. before \in Nat /\ (after = before \/ after = before + 1)
    BY <1>3, <1>5
  <2> HIDE DEF before, after
  <2>2. 0 .. before \subseteq 0 .. after
    BY <2>1
  <2>3. QED
    BY <2>2 DEF before, after
<1>7. received' \in Seq(Received) /\ delivered' \in Seq(Received)
  BY ONLY <1>1, <1>3, <1>4
<1>8. m_evt_c' \in Nat /\ run_c' = run_c
  BY <1>1, <1>4
<1>9. QED
  BY ONLY <1>6, <1>7, <1>8

LEMMA SentGrows ==
  ASSUME ProducerInv, RunLoop
  PROVE  0 .. Len(sent) \subseteq 0 .. Len(sent') /\ run' = run
<1>1. sent \in Seq(Event) /\ packet \in Packet /\ run \in Nat
  BY Typed
<1>2. CASE sent' = sent /\ run' = run
  BY <1>2
<1>3. CASE Send
  <2>1. [packet |-> packet, run |-> run] \in Event
    BY <1>1 DEF Event
  <2>2. Len(sent') = Len(sent) + 1 /\ Len(sent) \in Nat
    BY <1>1, <1>3, <2>1, Appended, LenProperties DEF Send
  <2>3. QED
    BY <1>3, <2>2 DEF Send, LoopOnly
<1>4. QED
  BY <1>2, <1>3 DEF RunLoop, Top, Scan, ReadHeader, ReadRest, LoopOnly

LEMMA ChainKeeps ==
  ASSUME ProducerInv, ChainTypeOK, Next
  PROVE  ChainTypeOK'
<1>1. run \in Nat /\ number = run /\ run_c = number
  BY Typed DEF ChainTypeOK
<1>2. CASE Configure
  <2>1. << >> \in Seq(Nat) /\ Len(<< >>) = 0
    BY EmptySeq
  <2>2. /\ UNCHANGED <<collectorVars, controlVars, taken, others, seen, shown>>
        /\ looked' = << >> /\ nevents' = 0 /\ counted' = 0 /\ sent' = sent /\ run' = run
    BY <1>2 DEF Configure, DoConfigure, AtConfiguration, DisplayConfigured
  <2>3. QED
    BY <2>1, <2>2 DEF ChainTypeOK, collectorVars, controlVars
<1>3. CASE Reset
  BY <1>3 DEF Reset, DoReset, ChainTypeOK, collectorVars, controlVars, monitorVars,
              displayVars, chainVars
<1>4. CASE StartRun
  <2>1. /\ number' = number + 1 /\ run_c' = number' /\ run' = run + 1 /\ m_evt_c' = 0
        /\ user' = "started"
        /\ UNCHANGED <<received, delivered, monitorVars, displayVars, chainVars, sent,
                       exec, decided>>
    BY <1>4 DEF StartRun, UserStarts, DoStartRun, CollectorStarts
  <2>2. decided' \in [run : 0 .. number', starting : BOOLEAN]
    BY <1>1, <2>1 DEF ChainTypeOK
  <2>3. QED
    BY <1>1, <2>1, <2>2 DEF ChainTypeOK, monitorVars, displayVars, chainVars
<1>5. CASE StopRun
  <2>1. /\ UNCHANGED <<collectorVars, monitorVars, displayVars, chainVars>>
        /\ sent' = sent /\ run' = run /\ number' = number /\ decided' = decided
        /\ user' \in {user, "stopped"} /\ exec' \in {exec, "stopping"}
    BY <1>5 DEF StopRun, UserStops, ExecStops, StopsProducer, DoStopRun, producerVars
  <2>2. QED
    BY <2>1 DEF ChainTypeOK, collectorVars, monitorVars, displayVars, chainVars
<1>6. CASE Control
  <2>1. /\ UNCHANGED <<producerVars, collectorVars, monitorVars, displayVars, chainVars>>
        /\ number' = number /\ user' \in {user, "timed", "idle"}
        /\ exec' \in {exec, "decided", "poll"}
        /\ decided' \in {decided, [run |-> number, starting |-> user = "started"]}
    BY <1>6 DEF Control, ControlAlone, SetStartTime, SetFlag, ClearFlag, Elapse,
                ExecDecides, ExecClears
  <2>2. decided' \in [run : 0 .. number', starting : BOOLEAN]
    <3>1. \A b \in BOOLEAN : [run |-> number, starting |-> b] \in
                               [run : 0 .. number, starting : BOOLEAN]
      BY <1>1
    <3>2. (user = "started") \in BOOLEAN
      OBVIOUS
    <3>3. QED
      BY <2>1, <3>1, <3>2, Zenon DEF ChainTypeOK
  <2>3. QED
    BY <2>1, <2>2 DEF ChainTypeOK, producerVars, collectorVars, monitorVars, displayVars,
                      chainVars
<1>7. CASE Produce
  <2>1. 0 .. Len(sent) \subseteq 0 .. Len(sent') /\ run' = run
    BY <1>7, SentGrows DEF Produce
  <2>2. QED
    BY <1>7, <2>1 DEF Produce, ChainTypeOK, collectorVars, monitorVars, displayVars,
                      controlVars, chainVars
<1>8. CASE Collect
  <2>1. /\ taken \in 0 .. Len(sent) /\ sent \in Seq(Event)
        /\ taken < Len(sent) /\ taken' = taken + 1 /\ DoReceive(taken')
        /\ UNCHANGED <<producerVars, monitorVars, displayVars, controlVars,
                       configures, others, seen, shown, looked>>
    BY <1>8, Typed DEF Collect, ChainTypeOK
  <2>2. taken' \in 0 .. Len(sent) /\ taken' \in Nat
    BY <2>1, LenProperties
  <2>3. QED
    BY <2>1, <2>2, ReceiveKeeps
       DEF ChainTypeOK, producerVars, monitorVars, displayVars, controlVars
<1>9. CASE CollectOther
  <2>1. /\ others' = others + 1 /\ DoReceive(0)
        /\ UNCHANGED <<producerVars, monitorVars, displayVars, controlVars,
                       configures, taken, seen, shown, looked>>
    BY <1>9 DEF CollectOther
  <2>2. others' \in Nat
    BY <2>1 DEF ChainTypeOK
  <2>3. QED
    BY <2>1, <2>2, ReceiveKeeps
       DEF ChainTypeOK, producerVars, monitorVars, displayVars, controlVars
<1>10. CASE Monitor
  <2>1. /\ seen < Len(delivered) /\ seen' = seen + 1
        /\ nevents' = nevents \/ nevents' = nevents + 1
        /\ looked' = IF nevents' = nevents THEN looked ELSE Append(looked, seen')
        /\ UNCHANGED <<producerVars, collectorVars, displayVars, controlVars,
                       configures, taken, others, shown>>
    BY <1>10 DEF Monitor, AtEventReception
  <2>2. /\ looked \in Seq(Nat) /\ Len(looked) = nevents /\ nevents \in Nat
        /\ seen \in 0 .. Len(delivered) /\ delivered \in Seq(Received)
    BY DEF ChainTypeOK
  <2>3. seen' \in 0 .. Len(delivered) /\ seen' \in Nat
    BY <2>1, <2>2, LenProperties
  <2>4. Append(looked, seen') \in Seq(Nat) /\ Len(Append(looked, seen')) = Len(looked) + 1
    BY <2>2, <2>3, Appended
  <2>5. looked' \in Seq(Nat) /\ Len(looked') = nevents' /\ nevents' \in Nat
    BY <2>1, <2>2, <2>4
  <2>6. QED
    BY <2>1, <2>3, <2>5
       DEF ChainTypeOK, producerVars, collectorVars, displayVars, controlVars
<1>11. CASE Show
  <2>1. /\ shown < Len(delivered) /\ shown' = shown + 1
        /\ counted' = counted \/ counted' = counted + 1
        /\ UNCHANGED <<producerVars, collectorVars, monitorVars, controlVars,
                       configures, taken, others, seen, looked>>
    BY <1>11 DEF Show, DrawEvent, displayVars
  <2>2. /\ shown \in 0 .. Len(delivered) /\ delivered \in Seq(Received) /\ counted \in Nat
    BY DEF ChainTypeOK
  <2>3. shown' \in 0 .. Len(delivered) /\ counted' \in Nat
    BY <2>1, <2>2, LenProperties
  <2>4. QED
    BY <2>1, <2>3
       DEF ChainTypeOK, producerVars, collectorVars, monitorVars, controlVars
<1>12. QED
  BY <1>2, <1>3, <1>4, <1>5, <1>6, <1>7, <1>8, <1>9, <1>10, <1>11 DEF Next

(* Run control, apart from what the producer does on its own.              *)
LEMMA ControlKeeps ==
  ASSUME ProducerInv, ProducerInv', ChainTypeOK, ControlInv, Next
  PROVE  ControlInv'
<1>1. (loop \in InLoop => run > 0)'
  BY DEF ProducerInv
<1>2. /\ status = "running" /\ user = "idle" /\ exec = "poll" /\ ~m_flag_running => overlap
      /\ user = "stopped" => status # "running"
      /\ exec = "stopping" /\ status = "running" => overlap
      /\ user # "started" /\ overdue => aged
      /\ exec = "decided" /\ decided.run = number => aged \/ decided.starting
  BY DEF ControlInv, RunIsWatched, ControlKnows
<1>3. /\ user \in {"idle", "started", "timed", "stopped"}
      /\ exec \in {"poll", "decided", "stopping"}
  BY DEF ChainTypeOK
<1>4. CASE UNCHANGED controlVars /\ (status' = "running" => status = "running")
  BY <1>1, <1>2, <1>4 DEF ControlInv, RunIsWatched, ControlKnows, controlVars
<1>5. CASE StartRun
  <2>1. number \in Nat /\ decided.run <= number /\ decided.run \in Nat
    <3>1. number \in Nat
      BY Typed DEF ChainTypeOK
    <3>2. QED
      BY <3>1 DEF ChainTypeOK
  <2>2. /\ user' = "started" /\ number' = number + 1 /\ overlap' = (exec # "poll")
        /\ UNCHANGED <<m_flag_running, overdue, exec, decided>>
    BY <1>5 DEF StartRun, UserStarts
  <2>3. decided'.run # number'
    BY <2>1, <2>2
  <2>4. QED
    BY <1>1, <1>2, <1>3, <2>2, <2>3 DEF ControlInv, RunIsWatched, ControlKnows
<1>6. CASE StopRun
  <2>1. status' # "running"
    BY <1>6 DEF StopRun, StopsProducer, DoStopRun, producerVars
  <2>2. /\ UNCHANGED <<m_flag_running, overdue, number, aged, decided, overlap>>
        /\ \/ user' = "stopped" /\ exec' = exec /\ user = "idle"
           \/ user' = user /\ exec' = "stopping"
    BY <1>6 DEF StopRun, UserStops, ExecStops
  <2>3. QED
    BY <1>1, <1>2, <1>3, <2>1, <2>2 DEF ControlInv, RunIsWatched, ControlKnows
<1>7. CASE Control
  <2>1. status' = status
    BY <1>7 DEF Control, producerVars
  <2>2. CASE SetStartTime
    BY <1>1, <1>2, <2>1, <2>2 DEF SetStartTime, ControlInv, RunIsWatched, ControlKnows
  <2>3. CASE SetFlag
    BY <1>1, <1>2, <2>1, <2>3 DEF SetFlag, ControlInv, RunIsWatched, ControlKnows
  <2>4. CASE ClearFlag
    BY <1>1, <1>2, <2>1, <2>4 DEF ClearFlag, ControlInv, RunIsWatched, ControlKnows
  <2>5. CASE Elapse
    BY <1>1, <1>2, <2>1, <2>5 DEF Elapse, ControlInv, RunIsWatched, ControlKnows
  <2>6. CASE ExecDecides
    BY <1>1, <1>2, <2>1, <2>6
       DEF ExecDecides, IsTimeToStop, ControlInv, RunIsWatched, ControlKnows
  <2>7. CASE ExecClears
    BY <1>1, <1>2, <2>1, <2>7 DEF ExecClears, ControlInv, RunIsWatched, ControlKnows
  <2>8. QED
    BY <1>7, <2>2, <2>3, <2>4, <2>5, <2>6, <2>7 DEF Control, ControlAlone
<1>8. CASE Configure
  <2>1. status' \in {"conf", "error"}
    BY <1>8 DEF Configure, DoConfigure, Checked
  <2>2. QED
    BY <1>4, <1>8, <2>1 DEF Configure
<1>9. CASE Reset
  BY <1>4, <1>9 DEF Reset, DoReset
<1>10. CASE Produce
  <2>1. status' = "running" => status = "running"
    BY <1>10 DEF Produce, RunLoop, Top, Scan, ReadHeader, ReadRest, Send, Ends
  <2>2. QED
    BY <1>4, <1>10, <2>1 DEF Produce
<1>11. CASE Collect \/ CollectOther \/ Monitor \/ Show
  BY <1>4, <1>11 DEF Collect, CollectOther, Monitor, Show, producerVars
<1>12. QED
  BY <1>5, <1>6, <1>7, <1>8, <1>9, <1>10, <1>11 DEF Next

LEMMA IInvInductive == IInv /\ [Next]_vars => IInv'
<1>1. CASE IInv /\ Next
  BY <1>1, ProducerSteps, ChainKeeps, ControlKeeps DEF IInv
<1>2. CASE IInv /\ UNCHANGED vars
  <2>1. UNCHANGED <<producerVars, collectorVars, monitorVars, displayVars, controlVars,
                    chainVars>>
    BY <1>2 DEF vars
  <2>2. ProducerInv' /\ Follows'
    BY <1>2, <2>1, StutterKeeps DEF IInv
  <2>3. ChainTypeOK'
    BY <1>2, <2>1 DEF IInv, ChainTypeOK, producerVars, collectorVars, monitorVars,
                      displayVars, controlVars, chainVars
  <2>4. ControlInv'
    BY <1>2, <2>1 DEF IInv, ControlInv, RunIsWatched, ControlKnows, producerVars,
                      controlVars
  <2>5. QED
    BY <2>2, <2>3, <2>4 DEF IInv
<1>3. QED
  BY <1>1, <1>2

LEMMA AlwaysIInv == Spec => []IInv
BY InitEstablishes, IInvInductive, PTL DEF Spec

(* Whatever order run control and RunLoop go on in, what has been read of  *)
(* a file and where reading goes on is known, files that no RunLoop has    *)
(* met are of one run, and a run that is on is watched.                    *)
THEOREM HCalInvariant == Spec => []HCalInv
BY AlwaysIInv, IInvIsHCalInv, PTL

(* The events follow each other in the file.                               *)
THEOREM EventsAlwaysFollowFile == Spec => []EventsFollowFile
<1>1. IInv => EventsFollowFile
  BY EventsFollow DEF IInv
<1>2. QED
  BY <1>1, AlwaysIInv, PTL

(* Exec cuts a run short only if it was started while Exec was on its way  *)
(* to stop the one before, or before its time of start was set.            *)
THEOREM RunsAreCutShortOnlyByOverlap == Spec => CutShortOnlyByOverlap
<1>1. IInv /\ [Next]_vars =>
        [exec = "decided" /\ exec' = "stopping" /\ status = "running" /\ ~aged =>
           decided.run < number \/ decided.starting]_vars
  <2>1. ASSUME IInv, exec = "decided", ~aged
        PROVE  decided.run < number \/ decided.starting
    <3>1. /\ decided.run \in Nat /\ decided.run <= number /\ number \in Nat
          /\ decided.run = number => decided.starting
      BY <2>1, Typed DEF IInv, ChainTypeOK, ControlInv, ControlKnows
    <3>2. QED
      BY <3>1
  <2>2. QED
    BY <2>1
<1>2. QED
  BY <1>1, AlwaysIInv, PTL DEF Spec, CutShortOnlyByOverlap

-----------------------------------------------------------------------------
(* The numbers that the collector gives.                                   *)
LEMMA OfRunAppended ==
  ASSUME NEW s \in Seq(Received), NEW e \in Received, NEW r
  PROVE  /\ Cardinality(OfRun(s, r)) \in Nat
         /\ Cardinality(OfRun(Append(s, e), r)) =
              IF e.run = r THEN Cardinality(OfRun(s, r)) + 1
                           ELSE Cardinality(OfRun(s, r))
<1>1. /\ Len(s) \in Nat /\ DOMAIN s = 1 .. Len(s)
      /\ DOMAIN Append(s, e) = 1 .. Len(s) + 1
      /\ \A i \in 1 .. Len(s) : Append(s, e)[i] = s[i]
      /\ Append(s, e)[Len(s) + 1] = e
  BY Appended, LenProperties
<1>2. IsFiniteSet(OfRun(s, r)) /\ Cardinality(OfRun(s, r)) \in Nat
  <2>1. IsFiniteSet(1 .. Len(s))
    <3>1. \A n \in Nat : IsFiniteSet(1 .. n)
      BY FS_Interval
    <3>2. QED
      BY <1>1, <3>1
  <2>2. OfRun(s, r) \subseteq 1 .. Len(s)
    BY <1>1 DEF OfRun
  <2>3. QED
    BY <2>1, <2>2, FS_Subset, FS_CardinalityType
<1>3. OfRun(Append(s, e), r) =
        IF e.run = r THEN OfRun(s, r) \union {Len(s) + 1} ELSE OfRun(s, r)
  BY <1>1 DEF OfRun
<1>4. Len(s) + 1 \notin OfRun(s, r)
  BY <1>1 DEF OfRun
<1>5. Cardinality(OfRun(s, r) \union {Len(s) + 1}) = Cardinality(OfRun(s, r)) + 1
  BY <1>2, <1>4, FS_AddElement
<1>6. QED
  BY <1>2, <1>3, <1>5

(* The numbers go back from the next one without a gap, and as many events *)
(* have got one as the next one says.                                      *)
NumbersInv ==
  /\ run_c \in Nat /\ m_evt_c \in Nat
  /\ received \in Seq(Received) /\ delivered \in Seq(Received)
  /\ \A i \in DOMAIN received : received[i].run <= run_c
  /\ \A i \in DOMAIN delivered : delivered[i].run <= run_c
  /\ \A i \in DOMAIN received : received[i].run = run_c =>
       m_evt_c - received[i].n = Len(received) + 1 - i
  /\ \A i, j \in DOMAIN received : i < j /\ received[i].run = received[j].run =>
       received[j].n - received[i].n = j - i
  /\ Cardinality(OfRun(received, run_c)) = m_evt_c
  /\ \A r \in 0 .. run_c :
       Cardinality(OfRun(delivered, r)) = Cardinality(OfRun(received, r)) \div Fraction

LEMMA ReceiveNumbers ==
  ASSUME NumbersInv, NEW e \in Nat, DoReceive(e)
  PROVE  NumbersInv'
<1> DEFINE event == Numbered(e)
<1>1. event \in Received /\ event.run = run_c /\ event.n = m_evt_c
  BY DEF Numbered, Received, NumbersInv
<1>2. /\ received' = Append(received, event) /\ m_evt_c' = m_evt_c + 1 /\ run_c' = run_c
      /\ delivered' = IF IsSent(m_evt_c + 1) THEN Append(delivered, event) ELSE delivered
  BY DEF DoReceive
<1> HIDE DEF event
<1>3. /\ run_c \in Nat /\ m_evt_c \in Nat
      /\ received \in Seq(Received) /\ delivered \in Seq(Received)
  BY DEF NumbersInv
<1>4. /\ Len(received) \in Nat /\ Len(received') = Len(received) + 1
      /\ DOMAIN received = 1 .. Len(received) /\ DOMAIN received' = 1 .. Len(received')
      /\ \A i \in 1 .. Len(received) : received'[i] = received[i]
      /\ received'[Len(received) + 1] = event /\ received' \in Seq(Received)
  BY <1>1, <1>2, <1>3, Appended, LenProperties
<1>5. \A i \in DOMAIN received' :
        \/ i \in DOMAIN received /\ received'[i] = received[i]
        \/ i = Len(received) + 1 /\ received'[i] = event
  BY <1>4
<1>6. \A i \in DOMAIN received : received[i].run \in Nat /\ received[i].n \in Nat
  <2>1. \A i \in DOMAIN received : received[i] \in Received
    BY <1>3, ElementOfSeq, LenProperties
  <2>2. QED
    BY <2>1 DEF Received
<1>7. \A i \in DOMAIN received' : received'[i].run <= run_c
  BY <1>1, <1>3, <1>5 DEF NumbersInv
<1>8. \A i \in DOMAIN delivered' : delivered'[i].run <= run_c
  <2>1. CASE delivered' = delivered
    BY <2>1 DEF NumbersInv
  <2>2. CASE delivered' = Append(delivered, event)
    <3>1. \A i \in DOMAIN delivered' : (i \in DOMAIN delivered /\ delivered'[i] = delivered[i])
                                      \/ delivered'[i] = event
      <4>1. /\ Len(delivered) \in Nat /\ Len(delivered') = Len(delivered) + 1
            /\ DOMAIN delivered = 1 .. Len(delivered)
            /\ DOMAIN delivered' = 1 .. Len(delivered')
            /\ \A i \in 1 .. Len(delivered) : delivered'[i] = delivered[i]
            /\ delivered'[Len(delivered) + 1] = event
        BY <1>1, <1>3, <2>2, Appended, LenProperties
      <4>2. QED
        BY <4>1
    <3>2. QED
      BY <1>1, <1>3, <3>1 DEF NumbersInv
  <2>3. QED
    BY <1>2, <2>1, <2>2
<1>9. ASSUME NEW i \in DOMAIN received', received'[i].run = run_c
      PROVE  m_evt_c' - received'[i].n = Len(received') + 1 - i
  <2>1. CASE i \in DOMAIN received /\ received'[i] = received[i]
    <3>1. m_evt_c - received[i].n = Len(received) + 1 - i
      BY <1>9, <2>1 DEF NumbersInv
    <3>2. received[i].n \in Nat /\ i \in Nat
      BY <1>4, <1>6, <2>1
    <3>3. QED
      BY <1>2, <1>3, <1>4, <2>1, <3>1, <3>2
  <2>2. CASE i = Len(received) + 1 /\ received'[i] = event
    BY <1>1, <1>2, <1>3, <1>4, <2>2
  <2>3. QED
    BY <1>5, <2>1, <2>2
<1>10. ASSUME NEW i \in DOMAIN received', NEW j \in DOMAIN received',
              i < j, received'[i].run = received'[j].run
       PROVE  received'[j].n - received'[i].n = j - i
  <2>1. CASE i \in DOMAIN received /\ j \in DOMAIN received
    BY <1>4, <1>10, <2>1 DEF NumbersInv
  <2>2. CASE i \in DOMAIN received /\ j = Len(received) + 1
    <3>1. received'[i] = received[i] /\ received'[j] = event
      BY <1>4, <2>2
    <3>2. m_evt_c - received[i].n = Len(received) + 1 - i
      BY <1>1, <1>10, <2>2, <3>1 DEF NumbersInv
    <3>3. QED
      BY <1>1, <2>2, <3>1, <3>2
  <2>3. CASE i = Len(received) + 1
    BY <1>4, <1>10, <2>3
  <2>4. QED
    BY <1>5, <2>1, <2>2, <2>3
<1>11. /\ Cardinality(OfRun(received, run_c)) = m_evt_c
       /\ \A r \in 0 .. run_c :
            Cardinality(OfRun(delivered, r)) = Cardinality(OfRun(received, r)) \div Fraction
  BY DEF NumbersInv
<1>12. \A r : Cardinality(OfRun(received', r)) =
                IF r = run_c THEN Cardinality(OfRun(received, r)) + 1
                             ELSE Cardinality(OfRun(received, r))
  BY <1>1, <1>2, <1>3, OfRunAppended
<1>13. \A r : Cardinality(OfRun(delivered', r)) =
                IF r = run_c /\ IsSent(m_evt_c + 1)
                  THEN Cardinality(OfRun(delivered, r)) + 1
                  ELSE Cardinality(OfRun(delivered, r))
  BY <1>1, <1>2, <1>3, OfRunAppended
<1>14. (m_evt_c + 1) \div Fraction =
         IF IsSent(m_evt_c + 1) THEN (m_evt_c \div Fraction) + 1 ELSE m_evt_c \div Fraction
  <2>1. (m_evt_c + 1) % Fraction = 0 =>
          (m_evt_c + 1) \div Fraction = (m_evt_c \div Fraction) + 1
    BY <1>3, FractionAssumption
  <2>2. (m_evt_c + 1) % Fraction # 0 =>
          (m_evt_c + 1) \div Fraction = m_evt_c \div Fraction
    BY <1>3, FractionAssumption
  <2>3. QED
    BY <2>1, <2>2 DEF IsSent
<1>15. ASSUME NEW r \in 0 .. run_c
       PROVE  Cardinality(OfRun(delivered', r)) = Cardinality(OfRun(received', r)) \div Fraction
  <2>1. CASE r = run_c
    <3>1. /\ Cardinality(OfRun(received', r)) = m_evt_c + 1
          /\ Cardinality(OfRun(delivered, r)) = m_evt_c \div Fraction
      BY <1>11, <1>12, <2>1
    <3>2. QED
      BY <1>13, <1>14, <2>1, <3>1
  <2>2. CASE r # run_c
    BY <1>11, <1>12, <1>13, <1>15, <2>2
  <2>3. QED
    BY <2>1, <2>2
<1>16. Cardinality(OfRun(received', run_c)) = m_evt_c + 1
  BY <1>11, <1>12
<1>17. delivered' \in Seq(Received)
  BY <1>1, <1>2, <1>3, Appended
<1>18. run_c' \in Nat /\ m_evt_c' \in Nat /\ run_c' = run_c /\ m_evt_c' = m_evt_c + 1
  BY <1>2, <1>3
<1>19. QED
  BY <1>4, <1>7, <1>8, <1>9, <1>10, <1>15, <1>16, <1>17, <1>18 DEF NumbersInv

(* Those of the run that is started begin at 0: there is no event of it.   *)
LEMMA StartNumbers ==
  ASSUME NumbersInv, CollectorStarts(run_c + 1)
  PROVE  NumbersInv'
<1>1. /\ run_c \in Nat /\ run_c' = run_c + 1 /\ m_evt_c' = 0
      /\ received' = received /\ delivered' = delivered
  BY DEF NumbersInv, CollectorStarts
<1>2. \A s \in Seq(Received) : \A i \in DOMAIN s : s[i].run \in Nat
  <2>1. \A s \in Seq(Received) : \A i \in DOMAIN s : s[i] \in Received
    BY ElementOfSeq, LenProperties
  <2>2. QED
    BY <2>1 DEF Received
<1>3. /\ \A i \in DOMAIN received : received[i].run <= run_c /\ received[i].run \in Nat
      /\ \A i \in DOMAIN delivered : delivered[i].run <= run_c /\ delivered[i].run \in Nat
  BY <1>2 DEF NumbersInv
<1>4. /\ \A i \in DOMAIN received : received[i].run <= run_c + 1 /\ received[i].run # run_c + 1
      /\ \A i \in DOMAIN delivered : delivered[i].run <= run_c + 1 /\ delivered[i].run # run_c + 1
  BY <1>1, <1>3
<1>5. OfRun(received, run_c + 1) = {} /\ OfRun(delivered, run_c + 1) = {}
  BY <1>4 DEF OfRun
<1>6. /\ Cardinality(OfRun(received, run_c + 1)) = 0
      /\ Cardinality(OfRun(delivered, run_c + 1)) = 0
  BY <1>5, FS_EmptySet
<1>7. 0 \div Fraction = 0
  BY FractionAssumption
<1>8. ASSUME NEW r \in 0 .. run_c + 1
      PROVE  Cardinality(OfRun(delivered, r)) = Cardinality(OfRun(received, r)) \div Fraction
  <2>1. CASE r = run_c + 1
    BY <1>6, <1>7, <2>1
  <2>2. CASE r # run_c + 1
    <3>1. r \in 0 .. run_c
      BY <1>1, <1>8, <2>2
    <3>2. QED
      BY <3>1 DEF NumbersInv
  <2>3. QED
    BY <2>1, <2>2
<1>9. run_c' \in Nat /\ m_evt_c' \in Nat
  BY <1>1
<1>10. QED
  BY <1>1, <1>4, <1>6, <1>8, <1>9 DEF NumbersInv

LEMMA InitNumbers == Init => NumbersInv
<1> SUFFICES ASSUME Init PROVE NumbersInv
  OBVIOUS
<1>1. run_c = 0 /\ m_evt_c = 0 /\ received = << >> /\ delivered = << >>
  BY DEF Init, CollectorInit
<1>2. << >> \in Seq(Received) /\ DOMAIN << >> = {}
  BY EmptySeq
<1>3. \A r : OfRun(<< >>, r) = {}
  BY <1>2 DEF OfRun
<1>4. \A r : Cardinality(OfRun(<< >>, r)) = 0
  BY <1>3, FS_EmptySet
<1>5. 0 \div Fraction = 0
  BY FractionAssumption
<1>6. QED
  BY <1>1, <1>2, <1>4, <1>5 DEF NumbersInv

LEMMA NextNumbers == IInv /\ NumbersInv /\ [Next]_vars => NumbersInv'
<1> SUFFICES ASSUME IInv, NumbersInv, [Next]_vars PROVE NumbersInv'
  OBVIOUS
<1>1. CASE UNCHANGED collectorVars
  BY <1>1 DEF collectorVars, NumbersInv
<1>2. CASE StartRun
  <2>1. run_c = number /\ number' = number + 1
    BY <1>2 DEF IInv, ChainTypeOK, StartRun, UserStarts
  <2>2. CollectorStarts(run_c + 1)
    BY <1>2, <2>1 DEF StartRun
  <2>3. QED
    BY <2>2, StartNumbers
<1>3. CASE Collect
  <2>1. taken' \in Nat /\ DoReceive(taken')
    <3>1. taken \in 0 .. Len(sent) /\ Len(sent) \in Nat
      BY Typed, LenProperties DEF IInv, ChainTypeOK
    <3>2. QED
      BY <1>3, <3>1 DEF Collect
  <2>2. QED
    BY <2>1, ReceiveNumbers
<1>4. CASE CollectOther
  BY <1>4, ReceiveNumbers DEF CollectOther
<1>5. CASE Configure \/ Reset \/ StopRun \/ Control \/ Produce \/ Monitor \/ Show
  BY <1>1, <1>5 DEF Configure, Reset, StopRun, Control, Produce, Monitor, Show
<1>6. CASE UNCHANGED vars
  BY <1>1, <1>6 DEF vars
<1>7. QED
  BY <1>2, <1>3, <1>4, <1>5, <1>6 DEF Next

(* Events of a run are told apart by their numbers, whoever sent them, and *)
(* the monitors get the share of them that the fraction says.              *)
THEOREM NumbersAlwaysTellApart == Spec => []NumbersTellApart
<1>1. NumbersInv => NumbersTellApart
  <2> SUFFICES ASSUME NumbersInv PROVE NumbersTellApart
    OBVIOUS
  <2>1. 1 .. run_c \subseteq 0 .. run_c
    BY DEF NumbersInv
  <2>2. QED
    BY <2>1 DEF NumbersInv, NumbersTellApart
<1>2. Init => NumbersInv
  BY InitNumbers
<1>3. IInv /\ NumbersInv /\ [Next]_vars => NumbersInv'
  BY NextNumbers
<1>4. QED
  BY <1>1, <1>2, <1>3, AlwaysIInv, PTL DEF Spec

-----------------------------------------------------------------------------
(* The event display counts no further than 1.                             *)
CountedOnce == counted \in Nat /\ (DisplayReset > 1 => counted <= 1)

LEMMA NextCounts == CountedOnce /\ [Next]_vars => CountedOnce'
<1> SUFFICES ASSUME CountedOnce, [Next]_vars PROVE CountedOnce'
  OBVIOUS
<1>1. CASE UNCHANGED counted
  BY <1>1 DEF CountedOnce
<1>2. CASE Configure
  BY <1>2 DEF Configure, DisplayConfigured, CountedOnce
<1>3. CASE Show
  <2>1. \/ UNCHANGED counted
        \/ NewSpill /\ counted' = counted + 1
    BY <1>3 DEF Show, DrawEvent, displayVars
  <2>2. ASSUME NewSpill, counted' = counted + 1, DisplayReset > 1
        PROVE  counted = 0
    <3>1. counted % DisplayReset = 0 /\ counted \in Nat /\ counted <= 1
      BY <2>2 DEF NewSpill, CountedOnce
    <3>2. 1 % DisplayReset = 1
      BY <2>2, DisplayResetAssumption
    <3>3. counted = 0 \/ counted = 1
      BY <3>1
    <3>4. QED
      BY <3>1, <3>2, <3>3
  <2>3. QED
    BY <1>1, <2>1, <2>2 DEF CountedOnce
<1>4. CASE Reset \/ StartRun \/ StopRun \/ Control \/ Produce \/ Collect \/ CollectOther
           \/ Monitor
  <2>1. UNCHANGED displayVars
    BY <1>4 DEF Reset, StartRun, StopRun, Control, Produce, Collect, CollectOther, Monitor
  <2>2. QED
    BY <1>1, <2>1 DEF displayVars
<1>5. CASE UNCHANGED vars
  BY <1>1, <1>5 DEF vars, displayVars
<1>6. QED
  BY <1>2, <1>3, <1>4, <1>5 DEF Next

(* With NRESET other than 1 the display draws the first event and no other *)
(* until it is configured again.                                           *)
THEOREM DisplayAlwaysStandsStill == Spec => DisplayStandsStill
<1>1. Init => CountedOnce
  BY DEF Init, CountedOnce
<1>2. CountedOnce /\ [Next]_vars =>
        [counted > 0 /\ DisplayReset > 1 /\ counted' # 0 => UNCHANGED drawn]_vars
  <2> SUFFICES ASSUME CountedOnce, Next, counted > 0, DisplayReset > 1, counted' # 0
               PROVE  UNCHANGED drawn
    OBVIOUS
  <2>1. ~NewSpill
    <3>1. counted = 1
      BY DEF CountedOnce
    <3>2. 1 % DisplayReset = 1
      BY DisplayResetAssumption
    <3>3. QED
      BY <3>1, <3>2 DEF NewSpill
  <2>2. CASE Configure
    BY <2>2 DEF Configure, DisplayConfigured
  <2>3. CASE Show
    BY <2>1, <2>3 DEF Show, DrawEvent, displayVars
  <2>4. CASE Reset \/ StartRun \/ StopRun \/ Control \/ Produce \/ Collect
             \/ CollectOther \/ Monitor
    <3>1. UNCHANGED displayVars
      BY <2>4 DEF Reset, StartRun, StopRun, Control, Produce, Collect, CollectOther, Monitor
    <3>2. QED
      BY <3>1 DEF displayVars
  <2>5. QED
    BY <2>2, <2>3, <2>4 DEF Next
<1>3. CountedOnce /\ [Next]_vars => CountedOnce'
  BY NextCounts
<1>4. QED
  BY <1>1, <1>2, <1>3, PTL DEF Spec, DisplayStandsStill

-----------------------------------------------------------------------------
(* The samples in the plots that are not reset are those that decode gives *)
(* of every event that has been counted.                                   *)
PlotsAreOfEvents ==
  \A ev \in 0 .. nevents - 1 :
    \E v : {fill \in histos.samples : fill.ev = ev} = FillsOf(ev, v)

PlotsInv ==
  /\ nevents \in Nat /\ looked \in Seq(Nat) /\ Len(looked) = nevents
  /\ \A i \in DOMAIN looked : looked[i] \in 1 .. Len(delivered)
  /\ \A k \in DOMAIN delivered : delivered[k].event \in 0 .. taken
  /\ \A fill \in histos.samples \union histos.hits : fill.ev \in 0 .. nevents - 1
  /\ PlotsAreRecent /\ PlotsAreOfEvents

LEMMA Quotient ==
  ASSUME NEW q \in Nat, NEW r \in Nat, NEW per \in Nat \ {0}, r < per
  PROVE  (q * per + r) \div per = q
<1> DEFINE d == (q * per + r) \div per
<1>1. d \in Nat /\ d * per <= q * per + r /\ q * per + r < d * per + per
  OBVIOUS
<1> HIDE DEF d
<1>2. CASE d > q
  <2>1. PICK k \in Nat : d = q + 1 + k
    BY <1>1, <1>2
  <2>2. d * per = q * per + per + k * per
    BY <2>1
  <2>3. k * per \in Nat
    BY <2>1
  <2>4. QED
    BY <1>1, <2>2, <2>3
<1>3. CASE d < q
  <2>1. PICK k \in Nat : q = d + 1 + k
    BY <1>1, <1>3
  <2>2. q * per = d * per + per + k * per
    BY <1>1, <2>1
  <2>3. k * per \in Nat
    BY <2>1
  <2>4. QED
    BY <1>1, <2>2, <2>3
<1>4. QED
  BY <1>1, <1>2, <1>3 DEF d

LEMMA Multiples ==
  ASSUME NEW n \in Nat, NEW per \in Nat \ {0}
  PROVE  /\ (n \div per) * per \in Nat /\ (n \div per) * per <= n
         /\ n % per = 0 => (n \div per) * per = n
         /\ n % per # 0 => n > 0 /\ (n \div per) * per = ((n - 1) \div per) * per
<1>1. n % per \in Nat /\ n % per < per /\ n \div per \in Nat
  OBVIOUS
<1>2. (n \div per) * per = n - (n % per)
  OBVIOUS
<1>3. ASSUME n % per # 0 PROVE n > 0 /\ (n - 1) \div per = n \div per
  <2>1. n # 0
    BY <1>3
  <2>2. PICK q \in Nat, r \in Nat : q = n \div per /\ r = (n % per) - 1
    BY <1>1, <1>3
  <2>3. r < per /\ n - 1 = q * per + r
    BY <1>1, <1>2, <2>2
  <2>4. (n - 1) \div per = q
    BY <2>3, Quotient
  <2>5. QED
    BY <2>1, <2>2, <2>4
<1>4. QED
  BY <1>1, <1>2, <1>3

(* What an event says does not change once it has been delivered.          *)
LEMMA BlockStays ==
  ASSUME NEW CONSTANT k, NEW CONSTANT id, name' = name, delivered'[k] = delivered[k],
         delivered[k].event = 0 \/ sent'[delivered[k].event] = sent[delivered[k].event]
  PROVE  BlockOf(k, id)' = BlockOf(k, id)
BY DEF BlockOf, file

(* Events are received and delivered at the end.                           *)
QueuesGrow ==
  /\ taken \in Nat /\ taken' \in Nat /\ taken <= taken' /\ taken <= Len(sent)
  /\ sent \in Seq(Event) /\ delivered \in Seq(Received) /\ Len(delivered') \in Nat
  /\ DOMAIN delivered' = 1 .. Len(delivered') /\ Len(delivered) <= Len(delivered')
  /\ \A k \in DOMAIN sent : sent'[k] = sent[k]
  /\ \A k \in DOMAIN delivered : delivered'[k] = delivered[k]
  /\ \A k \in DOMAIN delivered' : k \in DOMAIN delivered \/ delivered'[k].event \in 0 .. taken'

LEMMA FillsStay ==
  ASSUME PlotsInv, QueuesGrow, name' = name,
         NEW CONSTANT ev, ev + 1 \in DOMAIN looked, looked'[ev + 1] = looked[ev + 1],
         NEW CONSTANT v
  PROVE  FillsOf(ev, v)' = FillsOf(ev, v)
<1>1. PICK k : k = looked[ev + 1]
  OBVIOUS
<1>2. /\ Len(delivered) \in Nat /\ DOMAIN delivered = 1 .. Len(delivered)
      /\ Len(sent) \in Nat /\ DOMAIN sent = 1 .. Len(sent)
  BY LenProperties DEF QueuesGrow
<1>3. k \in DOMAIN delivered /\ delivered'[k] = delivered[k]
  BY <1>1, <1>2 DEF PlotsInv, QueuesGrow
<1>4. delivered[k].event \in 0 .. taken
  BY <1>3 DEF PlotsInv
<1>5. delivered[k].event = 0 \/ delivered[k].event \in DOMAIN sent
  BY <1>2, <1>4 DEF QueuesGrow
<1>6. delivered[k].event = 0 \/ sent'[delivered[k].event] = sent[delivered[k].event]
  BY <1>5 DEF QueuesGrow
<1>7. BlockOf(k, FpgaId)' = BlockOf(k, FpgaId)
  BY <1>3, <1>6, BlockStays
<1>8. BlockOf(looked[ev + 1], FpgaId)' = BlockOf(looked[ev + 1], FpgaId)
  BY <1>1, <1>7 DEF BlockOf, file
<1>9. QED
  BY <1>8 DEF FillsOf

LEMMA QueuesKeepPlots ==
  ASSUME PlotsInv, QueuesGrow, name' = name, UNCHANGED <<looked, nevents, histos>>
  PROVE  PlotsInv'
<1>1. /\ nevents \in Nat /\ looked \in Seq(Nat) /\ Len(looked) = nevents
      /\ DOMAIN looked = 1 .. nevents
  BY LenProperties DEF PlotsInv
<1>2. /\ Len(delivered) \in Nat /\ DOMAIN delivered = 1 .. Len(delivered)
      /\ Len(delivered') \in Nat /\ Len(delivered) <= Len(delivered')
  BY LenProperties DEF QueuesGrow
<1>3. \A i \in DOMAIN looked : looked[i] \in 1 .. Len(delivered')
  BY <1>2 DEF PlotsInv
<1>4. ASSUME NEW k \in DOMAIN delivered' PROVE delivered'[k].event \in 0 .. taken'
  <2>1. CASE k \in DOMAIN delivered
    <3>1. delivered'[k] = delivered[k] /\ delivered[k].event \in 0 .. taken
      BY <2>1 DEF PlotsInv, QueuesGrow
    <3>2. 0 .. taken \subseteq 0 .. taken'
      BY DEF QueuesGrow
    <3>3. QED
      BY <3>1, <3>2
  <2>2. CASE k \notin DOMAIN delivered
    BY <2>2 DEF QueuesGrow
  <2>3. QED
    BY <2>1, <2>2
<1>5. ASSUME NEW CONSTANT ev, ev \in 0 .. nevents - 1
      PROVE  \E v : ({fill \in histos.samples : fill.ev = ev} = FillsOf(ev, v))'
  <2>1. PICK v : {fill \in histos.samples : fill.ev = ev} = FillsOf(ev, v)
    BY <1>5 DEF PlotsInv, PlotsAreOfEvents
  <2>2. ev + 1 \in DOMAIN looked
    BY <1>1, <1>5
  <2>3. FillsOf(ev, v)' = FillsOf(ev, v)
    BY <2>2, FillsStay
  <2>4. QED
    BY <2>1, <2>3
<1>6. PlotsAreOfEvents'
  BY <1>5 DEF PlotsAreOfEvents
<1>7. PlotsAreRecent'
  BY DEF PlotsInv, PlotsAreRecent, LastMultiple, EventsIn
<1>8. QED
  BY <1>3, <1>4, <1>6, <1>7 DEF PlotsInv

LEMMA ReceiveGrows ==
  ASSUME ProducerInv, ChainTypeOK, NEW e \in Nat, DoReceive(e), sent' = sent,
         taken' \in Nat, taken <= taken', e \in 0 .. taken'
  PROVE  QueuesGrow
<1> DEFINE event == Numbered(e)
<1>1. event \in Received /\ event.event = e
  BY Typed DEF Numbered, Received, ChainTypeOK
<1>2. delivered' = delivered \/ delivered' = Append(delivered, event)
  BY DEF DoReceive
<1> HIDE DEF event
<1>3. /\ delivered \in Seq(Received) /\ sent \in Seq(Event)
      /\ taken \in 0 .. Len(sent) /\ Len(sent) \in Nat
  BY Typed, LenProperties DEF ChainTypeOK
<1>4. taken \in Nat /\ taken <= Len(sent)
  BY <1>3
<1>5. Len(delivered) \in Nat /\ DOMAIN delivered = 1 .. Len(delivered)
  BY <1>3, LenProperties
<1>6. CASE delivered' = delivered
  BY <1>3, <1>4, <1>5, <1>6 DEF QueuesGrow
<1>7. CASE delivered' = Append(delivered, event)
  <2>1. /\ Len(delivered') = Len(delivered) + 1 /\ DOMAIN delivered' = 1 .. Len(delivered) + 1
        /\ \A k \in 1 .. Len(delivered) : delivered'[k] = delivered[k]
        /\ delivered'[Len(delivered) + 1] = event
    BY <1>1, <1>3, <1>7, Appended, LenProperties
  <2>2. \A k \in DOMAIN delivered' : k \in DOMAIN delivered \/ k = Len(delivered) + 1
    BY <1>5, <2>1
  <2>3. \A k \in DOMAIN delivered' : k \in DOMAIN delivered \/ delivered'[k].event \in 0 .. taken'
    BY <1>1, <2>1, <2>2
  <2>4. QED
    BY <1>3, <1>4, <1>5, <2>1, <2>3 DEF QueuesGrow
<1>8. QED
  BY <1>2, <1>6, <1>7

LEMMA ProduceGrows ==
  ASSUME ProducerInv, ChainTypeOK, RunLoop, UNCHANGED <<taken, delivered>>
  PROVE  QueuesGrow /\ name' = name
<1>1. /\ delivered \in Seq(Received) /\ sent \in Seq(Event)
      /\ taken \in 0 .. Len(sent) /\ Len(sent) \in Nat /\ packet \in Packet /\ run \in Nat
  BY Typed, LenProperties DEF ChainTypeOK
<1>2. /\ Len(delivered) \in Nat /\ DOMAIN delivered = 1 .. Len(delivered)
      /\ DOMAIN sent = 1 .. Len(sent) /\ taken \in Nat /\ taken <= Len(sent)
  BY <1>1, LenProperties
<1>3. name' = name
  BY DEF RunLoop, Top, Scan, ReadHeader, ReadRest, Send, LoopOnly
<1>4. \A k \in DOMAIN sent : sent'[k] = sent[k]
  <2>1. CASE Send
    <3>1. [packet |-> packet, run |-> run] \in Event
      BY <1>1 DEF Event
    <3>2. QED
      BY <1>1, <1>2, <2>1, <3>1, Appended DEF Send
  <2>2. CASE ~Send
    BY <2>2 DEF RunLoop, Top, Scan, ReadHeader, ReadRest, LoopOnly
  <2>3. QED
    BY <2>1, <2>2
<1>5. QED
  BY <1>1, <1>2, <1>3, <1>4 DEF QueuesGrow

(* What a plot that is reset shows, when an event has been added.          *)
LEMMA FillsSince ==
  ASSUME NEW n, NEW m, n \in Nat, m \in Nat, m <= n, NEW S, NEW F,
         \A fill \in S : fill.ev \in 0 .. n - 1, \A fill \in F : fill.ev = n
  PROVE  /\ m = n => {fill \in S \union F : fill.ev >= m} = F
         /\ {fill \in S \union F : fill.ev >= m} = {fill \in S : fill.ev >= m} \union F
<1>1. \A fill \in F : fill.ev >= m
  OBVIOUS
<1>2. m = n => \A fill \in S : ~(fill.ev >= m)
  OBVIOUS
<1>3. m = n => {fill \in S \union F : fill.ev >= m} = F
  BY <1>1, <1>2
<1>4. {fill \in S \union F : fill.ev >= m} = {fill \in S : fill.ev >= m} \union F
  BY <1>1
<1>5. QED
  BY <1>3, <1>4

LEMMA QuietGrows ==
  ASSUME ProducerInv, ChainTypeOK, UNCHANGED <<sent, taken, delivered>>
  PROVE  QueuesGrow
<1>1. /\ delivered \in Seq(Received) /\ sent \in Seq(Event)
      /\ taken \in 0 .. Len(sent) /\ Len(sent) \in Nat
  BY Typed, LenProperties DEF ChainTypeOK
<1>2. Len(delivered) \in Nat /\ DOMAIN delivered = 1 .. Len(delivered)
  BY <1>1, LenProperties
<1>3. taken \in Nat /\ taken <= Len(sent)
  BY <1>1
<1>4. QED
  BY <1>1, <1>2, <1>3 DEF QueuesGrow

(* What an event adds has the count of the event.                          *)
LEMMA AddedFills ==
  ASSUME NEW lists
  PROVE  /\ \A fill \in SampleFills(lists) : fill.ev = nevents
         /\ \A fill \in HitFills(lists) : fill.ev = nevents
         /\ \A fill \in BarFills(lists) : fill.ev = nevents
         /\ EventsIn(MaxFills(lists)) = EventsIn(SampleFills(lists))
<1>1. \A fill \in SampleFills(lists) : fill.ev = nevents
  BY DEF SampleFills
<1>2. \A fill \in HitFills(lists) : fill.ev = nevents
  BY DEF HitFills
<1>3. \A fill \in BarFills(lists) : fill.ev = nevents
  BY DEF BarFills
<1>4. EventsIn(MaxFills(lists)) = EventsIn(SampleFills(lists))
  <2>1. \A fill \in MaxFills(lists) : fill.ev = nevents
    BY DEF MaxFills
  <2>2. MaxFills(lists) = {} <=> SampleFills(lists) = {}
    BY DEF MaxFills, SampleFills
  <2>3. \A F : (\A fill \in F : fill.ev = nevents) =>
          EventsIn(F) = IF F = {} THEN {} ELSE {nevents}
    BY DEF EventsIn
  <2>4. QED
    BY <1>1, <2>1, <2>2, <2>3
<1>5. QED
  BY <1>1, <1>2, <1>3, <1>4

(* The plots that are reset, when an event has been added.                 *)
LEMMA FilledIsReset ==
  ASSUME PlotsInv, NEW lists, histos' = Filled(lists), nevents' = nevents + 1
  PROVE  PlotsAreRecent'
<1>1. /\ nevents \in Nat
      /\ \A fill \in histos.samples : fill.ev \in 0 .. nevents - 1
      /\ \A fill \in histos.hits : fill.ev \in 0 .. nevents - 1
  BY DEF PlotsInv
<1>2. PICK n \in Nat : n = nevents
  BY <1>1
<1>3. /\ EventsPerReset \in Nat \ {0} /\ EventsPerSpill \in Nat \ {0}
  BY PeriodsAssumption
<1>4. /\ \A fill \in SampleFills(lists) : fill.ev = n
      /\ \A fill \in HitFills(lists) : fill.ev = n
      /\ \A fill \in BarFills(lists) : fill.ev = n
      /\ EventsIn(MaxFills(lists)) = EventsIn(SampleFills(lists))
  BY <1>2, AddedFills
<1>5. nevents' = n + 1 /\ (n + 1) - 1 = n
  BY <1>2
<1>6. /\ LastMultiple(EventsPerReset)' = (n \div EventsPerReset) * EventsPerReset
      /\ LastMultiple(EventsPerSpill)' = (n \div EventsPerSpill) * EventsPerSpill
  BY <1>5 DEF LastMultiple
<1>7. /\ LastMultiple(EventsPerReset) = ((n - 1) \div EventsPerReset) * EventsPerReset
      /\ LastMultiple(EventsPerSpill) = ((n - 1) \div EventsPerSpill) * EventsPerSpill
  BY <1>2 DEF LastMultiple
<1>8. n > 0 =>
        /\ histos.samplesReset = {fill \in histos.samples :
             fill.ev >= ((n - 1) \div EventsPerReset) * EventsPerReset}
        /\ histos.hitsReset = {fill \in histos.hits :
             fill.ev >= ((n - 1) \div EventsPerReset) * EventsPerReset}
        /\ EventsIn(histos.maxReset) = EventsIn(histos.samplesReset)
        /\ EventsIn(histos.hcal_event) \subseteq
             {((n - 1) \div EventsPerSpill) * EventsPerSpill}
  BY <1>2, <1>7 DEF PlotsInv, PlotsAreRecent
<1>9. /\ histos'.samples = histos.samples \union SampleFills(lists)
      /\ histos'.hits = histos.hits \union HitFills(lists)
      /\ histos'.samplesReset = (IF n % EventsPerReset = 0 THEN {} ELSE histos.samplesReset)
                                  \union SampleFills(lists)
      /\ histos'.hitsReset = (IF n % EventsPerReset = 0 THEN {} ELSE histos.hitsReset)
                                  \union HitFills(lists)
      /\ histos'.maxReset = (IF n % EventsPerReset = 0 THEN {} ELSE histos.maxReset)
                                  \union MaxFills(lists)
      /\ histos'.hcal_event = IF n % EventsPerSpill = 0 THEN BarFills(lists)
                                                        ELSE histos.hcal_event
  BY <1>2 DEF Filled, ResetAt
<1>10. /\ \A fill \in histos.samples : fill.ev \in 0 .. n - 1
       /\ \A fill \in histos.hits : fill.ev \in 0 .. n - 1
  BY <1>1, <1>2
<1>11. PICK m \in Nat : m = (n \div EventsPerReset) * EventsPerReset
  BY <1>3, Multiples
<1>12. /\ m <= n /\ (n % EventsPerReset = 0 => m = n)
       /\ n % EventsPerReset # 0 =>
            n > 0 /\ m = ((n - 1) \div EventsPerReset) * EventsPerReset
  BY <1>3, <1>11, Multiples
<1>13. histos'.samplesReset = {fill \in histos'.samples : fill.ev >= m}
  <2>1. CASE n % EventsPerReset = 0
    <3>1. {fill \in histos.samples \union SampleFills(lists) : fill.ev >= m} = SampleFills(lists)
      BY <1>4, <1>10, <1>12, <2>1, FillsSince
    <3>2. QED
      BY <1>9, <2>1, <3>1
  <2>2. CASE n % EventsPerReset # 0
    <3>1. {fill \in histos.samples \union SampleFills(lists) : fill.ev >= m} =
            {fill \in histos.samples : fill.ev >= m} \union SampleFills(lists)
      BY <1>4, <1>10, <1>12, FillsSince
    <3>2. histos.samplesReset = {fill \in histos.samples : fill.ev >= m}
      BY <1>8, <1>12, <2>2
    <3>3. QED
      BY <1>9, <2>2, <3>1, <3>2
  <2>3. QED
    BY <2>1, <2>2
<1>14. histos'.hitsReset = {fill \in histos'.hits : fill.ev >= m}
  <2>1. CASE n % EventsPerReset = 0
    <3>1. {fill \in histos.hits \union HitFills(lists) : fill.ev >= m} = HitFills(lists)
      BY <1>4, <1>10, <1>12, <2>1, FillsSince
    <3>2. QED
      BY <1>9, <2>1, <3>1
  <2>2. CASE n % EventsPerReset # 0
    <3>1. {fill \in histos.hits \union HitFills(lists) : fill.ev >= m} =
            {fill \in histos.hits : fill.ev >= m} \union HitFills(lists)
      BY <1>4, <1>10, <1>12, FillsSince
    <3>2. histos.hitsReset = {fill \in histos.hits : fill.ev >= m}
      BY <1>8, <1>12, <2>2
    <3>3. QED
      BY <1>9, <2>2, <3>1, <3>2
  <2>3. QED
    BY <2>1, <2>2
<1>15. EventsIn(histos'.maxReset) = EventsIn(histos'.samplesReset)
  <2>1. \A S, F : EventsIn(S \union F) = EventsIn(S) \union EventsIn(F)
    BY DEF EventsIn
  <2>2. CASE n % EventsPerReset = 0
    BY <1>4, <1>9, <2>1, <2>2
  <2>3. CASE n % EventsPerReset # 0
    <3>1. n > 0
      BY <1>3, <2>3, Multiples
    <3>2. EventsIn(histos.maxReset) = EventsIn(histos.samplesReset)
      BY <1>8, <3>1
    <3>3. /\ histos'.maxReset = histos.maxReset \union MaxFills(lists)
          /\ histos'.samplesReset = histos.samplesReset \union SampleFills(lists)
      BY <1>9, <2>3
    <3>4. /\ EventsIn(histos'.maxReset) =
               EventsIn(histos.maxReset) \union EventsIn(MaxFills(lists))
          /\ EventsIn(histos'.samplesReset) =
               EventsIn(histos.samplesReset) \union EventsIn(SampleFills(lists))
      BY <2>1, <3>3
    <3>5. QED
      BY <1>4, <3>2, <3>4
  <2>4. QED
    BY <2>2, <2>3
<1>16. EventsIn(histos'.hcal_event) \subseteq {(n \div EventsPerSpill) * EventsPerSpill}
  <2>1. CASE n % EventsPerSpill = 0
    <3>1. (n \div EventsPerSpill) * EventsPerSpill = n
      BY <1>3, <2>1, Multiples
    <3>2. EventsIn(BarFills(lists)) \subseteq {n}
      BY <1>4 DEF EventsIn
    <3>3. QED
      BY <1>9, <2>1, <3>1, <3>2
  <2>2. CASE n % EventsPerSpill # 0
    <3>1. /\ n > 0
          /\ (n \div EventsPerSpill) * EventsPerSpill =
               ((n - 1) \div EventsPerSpill) * EventsPerSpill
      BY <1>3, <2>2, Multiples
    <3>2. QED
      BY <1>8, <1>9, <2>2, <3>1
  <2>3. QED
    BY <2>1, <2>2
<1>17. /\ EventsIn(histos.maxReset)' = EventsIn(histos.samplesReset)'
       /\ EventsIn(histos.hcal_event)' \subseteq {LastMultiple(EventsPerSpill)'}
  BY <1>6, <1>15, <1>16 DEF EventsIn
<1>18. QED
  BY <1>6, <1>11, <1>13, <1>14, <1>17 DEF PlotsAreRecent

LEMMA MonitorKeepsPlots ==
  ASSUME ProducerInv, ChainTypeOK, PlotsInv, Monitor
  PROVE  PlotsInv'
<1>1. /\ UNCHANGED <<name, sent, taken, delivered>>
  BY DEF Monitor, producerVars, collectorVars
<1>2. QueuesGrow
  BY <1>1, QuietGrows
<1>3. PICK k, v : k = seen + 1 /\ v = w
  OBVIOUS
<1>4. /\ nevents \in Nat /\ looked \in Seq(Nat) /\ Len(looked) = nevents
      /\ DOMAIN looked = 1 .. nevents
  BY LenProperties DEF PlotsInv
<1>5. k \in Nat /\ k \in 1 .. Len(delivered)
  <2>1. Len(delivered) \in Nat /\ seen \in 0 .. Len(delivered) /\ seen < Len(delivered)
    BY LenProperties DEF ChainTypeOK, Monitor
  <2>2. QED
    BY <1>3, <2>1
<1>6. PICK d : d = decode(BlockOf(k, FpgaId), v)
  OBVIOUS
<1>7. /\ IF d.thrown THEN UNCHANGED <<nevents, histos>>
                     ELSE histos' = Filled(d.lists) /\ nevents' = nevents + 1
      /\ looked' = IF nevents' = nevents THEN looked ELSE Append(looked, k)
  BY <1>3, <1>6 DEF Monitor, AtEventReception
<1>8. CASE UNCHANGED <<nevents, histos>>
  BY <1>1, <1>2, <1>7, <1>8, QueuesKeepPlots
<1>9. CASE histos' = Filled(d.lists) /\ nevents' = nevents + 1
  <2>1. looked' = Append(looked, k)
    BY <1>4, <1>7, <1>9
  <2>2. /\ looked' \in Seq(Nat) /\ Len(looked') = nevents + 1
        /\ \A i \in 1 .. nevents : looked'[i] = looked[i]
        /\ looked'[nevents + 1] = k
    BY <1>4, <1>5, <2>1, Appended
  <2>3. DOMAIN looked' = 1 .. nevents + 1
    BY <2>2, LenProperties
  <2>4. \A i \in DOMAIN looked' : looked'[i] \in 1 .. Len(delivered')
    <3>1. \A i \in DOMAIN looked' : i \in 1 .. nevents \/ i = nevents + 1
      BY <1>4, <2>3
    <3>2. \A i \in 1 .. nevents : looked[i] \in 1 .. Len(delivered)
      BY <1>4 DEF PlotsInv
    <3>3. QED
      BY <1>1, <1>5, <2>2, <3>1, <3>2
  <2>5. \A i \in DOMAIN delivered' : delivered'[i].event \in 0 .. taken'
    BY <1>1 DEF PlotsInv
  <2>6. /\ \A fill \in SampleFills(d.lists) : fill.ev = nevents
        /\ \A fill \in HitFills(d.lists) : fill.ev = nevents
    BY AddedFills
  <2>7. /\ histos'.samples = histos.samples \union SampleFills(d.lists)
        /\ histos'.hits = histos.hits \union HitFills(d.lists)
    BY <1>9 DEF Filled
  <2>8. /\ \A fill \in histos.samples : fill.ev \in 0 .. nevents - 1
        /\ \A fill \in histos.hits : fill.ev \in 0 .. nevents - 1
    BY DEF PlotsInv
  <2>9. \A fill \in histos'.samples \union histos'.hits : fill.ev \in 0 .. nevents' - 1
    <3>1. nevents' - 1 = nevents /\ 0 .. nevents - 1 \subseteq 0 .. nevents
          /\ nevents \in 0 .. nevents
      BY <1>4, <1>9
    <3>2. QED
      BY <2>6, <2>7, <2>8, <3>1
  <2>10. PlotsAreRecent'
    BY <1>9, FilledIsReset
  <2>11. ASSUME NEW CONSTANT ev, ev \in 0 .. nevents
         PROVE  \E u : ({fill \in histos.samples : fill.ev = ev} = FillsOf(ev, u))'
    <3>1. CASE ev \in 0 .. nevents - 1
      <4>1. PICK u : {fill \in histos.samples : fill.ev = ev} = FillsOf(ev, u)
        BY <3>1 DEF PlotsInv, PlotsAreOfEvents
      <4>2. ev + 1 \in DOMAIN looked /\ looked'[ev + 1] = looked[ev + 1]
        BY <1>4, <2>2, <3>1
      <4>3. FillsOf(ev, u)' = FillsOf(ev, u)
        BY <1>1, <1>2, <4>2, FillsStay
      <4>4. ev # nevents
        BY <1>4, <3>1
      <4>5. {fill \in histos'.samples : fill.ev = ev} = {fill \in histos.samples : fill.ev = ev}
        BY <2>6, <2>7, <4>4
      <4>6. QED
        BY <4>1, <4>3, <4>5
    <3>2. CASE ev = nevents
      <4>1. \A fill \in histos.samples : fill.ev # ev
        BY <1>4, <2>8, <3>2
      <4>2. {fill \in histos'.samples : fill.ev = ev} = SampleFills(d.lists)
        BY <2>6, <2>7, <3>2, <4>1
      <4>3. looked'[ev + 1] = k
        BY <2>2, <3>2
      <4>4. BlockOf(k, FpgaId)' = BlockOf(k, FpgaId)
        BY <1>1, BlockStays
      <4>5. BlockOf(looked[ev + 1], FpgaId)' = BlockOf(k, FpgaId)
        BY <4>3, <4>4 DEF BlockOf, file
      <4>6. FillsOf(ev, v)' = SampleFills(d.lists)
        BY <1>6, <3>2, <4>5 DEF FillsOf, SampleFills
      <4>7. QED
        BY <4>2, <4>6
    <3>3. QED
      BY <1>4, <2>11, <3>1, <3>2
  <2>12. PlotsAreOfEvents'
    <3>1. nevents' - 1 = nevents
      BY <1>4, <1>9
    <3>2. QED
      BY <2>11, <3>1 DEF PlotsAreOfEvents
  <2>13. nevents' \in Nat /\ Len(looked') = nevents'
    BY <1>4, <1>9, <2>2
  <2>14. QED
    BY <2>2, <2>4, <2>5, <2>9, <2>10, <2>12, <2>13 DEF PlotsInv
<1>10. QED
  BY <1>7, <1>8, <1>9

(* Without an event nothing is said of the plots.                          *)
LEMMA NoneIsReset ==
  ASSUME nevents = 0, histos = Booked, looked = << >>,
         \A k \in DOMAIN delivered : delivered[k].event \in 0 .. taken
  PROVE  PlotsInv
<1>1. looked \in Seq(Nat) /\ Len(looked) = 0 /\ DOMAIN looked = {}
  BY EmptySeq
<1>2. histos.samples = {} /\ histos.hits = {}
  BY DEF Booked
<1>3. PlotsAreRecent
  BY DEF PlotsAreRecent
<1>4. PlotsAreOfEvents
  BY DEF PlotsAreOfEvents
<1>5. QED
  BY <1>1, <1>2, <1>3, <1>4 DEF PlotsInv

LEMMA NextPlots == IInv /\ PlotsInv /\ [Next]_vars => PlotsInv'
<1> SUFFICES ASSUME IInv, PlotsInv, [Next]_vars PROVE PlotsInv'
  OBVIOUS
<1>1. ProducerInv /\ ChainTypeOK
  BY DEF IInv
<1>2. taken \in Nat
  <2>1. taken \in 0 .. Len(sent) /\ Len(sent) \in Nat
    BY <1>1, Typed, LenProperties DEF ChainTypeOK
  <2>2. QED
    BY <2>1
<1>3. CASE Configure
  <2>1. /\ nevents' = 0 /\ histos' = Booked /\ looked' = << >>
        /\ UNCHANGED <<delivered, taken>>
    BY <1>3 DEF Configure, AtConfiguration, collectorVars
  <2>2. \A k \in DOMAIN delivered' : delivered'[k].event \in 0 .. taken'
    BY <2>1 DEF PlotsInv
  <2>3. /\ looked' \in Seq(Nat) /\ Len(looked') = 0 /\ DOMAIN looked' = {}
    BY <2>1, EmptySeq
  <2>4. histos'.samples = {} /\ histos'.hits = {}
    BY <2>1 DEF Booked
  <2>5. PlotsAreRecent' /\ PlotsAreOfEvents'
    BY <2>1 DEF PlotsAreRecent, PlotsAreOfEvents
  <2>6. QED
    BY <2>1, <2>2, <2>3, <2>4, <2>5 DEF PlotsInv
<1>4. CASE Reset \/ StopRun \/ Control \/ Show
  <2>1. UNCHANGED <<name, sent, taken, delivered, looked, nevents, histos>>
    BY <1>4 DEF Reset, StopRun, Control, Show, StopsProducer, DoReset, DoStopRun,
                producerVars, collectorVars, monitorVars, chainVars
  <2>2. QED
    BY <1>1, <2>1, QuietGrows, QueuesKeepPlots
<1>5. CASE StartRun
  <2>1. UNCHANGED <<name, sent, taken, delivered, looked, nevents, histos>>
    BY <1>5 DEF StartRun, DoStartRun, CollectorStarts, monitorVars, chainVars
  <2>2. QED
    BY <1>1, <2>1, QuietGrows, QueuesKeepPlots
<1>6. CASE Produce
  <2>1. RunLoop /\ UNCHANGED <<taken, delivered, looked, nevents, histos>>
    BY <1>6 DEF Produce, collectorVars, monitorVars, chainVars
  <2>2. QED
    BY <1>1, <2>1, ProduceGrows, QueuesKeepPlots
<1>7. CASE Collect
  <2>1. /\ UNCHANGED <<name, sent, looked, nevents, histos>>
        /\ taken' = taken + 1 /\ DoReceive(taken')
    BY <1>7 DEF Collect, producerVars, monitorVars
  <2>2. taken' \in Nat /\ taken <= taken' /\ taken' \in 0 .. taken'
    BY <1>2, <2>1
  <2>3. QueuesGrow
    BY <1>1, <2>1, <2>2, ReceiveGrows
  <2>4. QED
    BY <2>1, <2>3, QueuesKeepPlots
<1>8. CASE CollectOther
  <2>1. /\ UNCHANGED <<name, sent, looked, nevents, histos, taken>> /\ DoReceive(0)
    BY <1>8 DEF CollectOther, producerVars, monitorVars
  <2>2. taken' \in Nat /\ taken <= taken' /\ 0 \in 0 .. taken'
    BY <1>2, <2>1
  <2>3. QueuesGrow
    BY <1>1, <2>1, <2>2, ReceiveGrows
  <2>4. QED
    BY <2>1, <2>3, QueuesKeepPlots
<1>9. CASE Monitor
  BY <1>1, <1>9, MonitorKeepsPlots
<1>10. CASE UNCHANGED vars
  <2>1. UNCHANGED <<name, sent, taken, delivered, looked, nevents, histos>>
    BY <1>10 DEF vars, producerVars, collectorVars, monitorVars, chainVars
  <2>2. QED
    BY <1>1, <2>1, QuietGrows, QueuesKeepPlots
<1>11. QED
  BY <1>3, <1>4, <1>5, <1>6, <1>7, <1>8, <1>9, <1>10 DEF Next

LEMMA AlwaysPlots == Spec => []PlotsInv
<1>1. Init => PlotsInv
  <2> SUFFICES ASSUME Init PROVE PlotsInv
    OBVIOUS
  <2>1. nevents = 0 /\ histos = Booked /\ looked = << >> /\ delivered = << >>
    BY DEF Init, CollectorInit
  <2>2. DOMAIN delivered = {}
    BY <2>1, EmptySeq
  <2>3. QED
    BY <2>1, <2>2, NoneIsReset
<1>2. IInv /\ PlotsInv /\ [Next]_vars => PlotsInv'
  BY NextPlots
<1>3. QED
  BY <1>1, <1>2, AlwaysIInv, PTL DEF Spec

(* The plots that NRESET speaks of show the events since the last multiple *)
(* of NRESET, and that of one event the last at a multiple of NSPILL, also *)
(* when events fail to be decoded or programs are configured in between.   *)
THEOREM PlotsAlwaysRecent == Spec => []PlotsAreRecent
<1>1. PlotsInv => PlotsAreRecent
  BY DEF PlotsInv
<1>2. QED
  BY <1>1, AlwaysPlots, PTL

(* Those that are not reset have of every event counted since the programs *)
(* were configured what decode gives of it, and nothing else.              *)
THEOREM PlotsAlwaysOfEvents == Spec => []PlotsAreOfEvents
<1>1. PlotsInv => PlotsAreOfEvents
  BY DEF PlotsInv
<1>2. QED
  BY <1>1, AlwaysPlots, PTL

=============================================================================
