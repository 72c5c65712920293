----------------------- MODULE TrigScintReadoutProofs -----------------------
(***************************************************************************)
(* Proofs about the chain of the trigger scintillator: the front end is on *)
(* when a run is on, what is played follows the file, the plots of the     *)
(* channels are those of the first configuration, damage to what the front *)
(* end sends is local, its events are in the files, and what is shown of   *)
(* an event is what its fibers have, cut at the marks.                     *)
(***************************************************************************)
EXTENDS TrigScintReadout, FiniteSetTheorems, SequenceTheorems, TLAPS

Messages == {"two", "on", "off"} \X Nat

(* What the steps of the chain are.                                        *)
CaptanStep == source = "captan" /\ (RunControl \/ FrontEnd \/ UdpClient)

LEMMA SendKeepsAsked ==
  ASSUME NEW kind \in {"on", "off"}, commands \in Seq(Messages), client \in Nat,
         \/ commands' = commands \o << <<kind, client>> >>
         \/ commands' = commands \o << <<"two", client>>, <<"off", client>>, <<kind, client>> >>
  PROVE  commands' \in Seq(Messages) /\ commands' # << >> /\ Last(commands')[1] = kind
<1>1. <<kind, client>> \in Messages /\ <<"two", client>> \in Messages
      /\ <<"off", client>> \in Messages
  BY DEF Messages
<1>2. CASE commands' = commands \o << <<kind, client>> >>
  <2>1. /\ commands' \in Seq(Messages) /\ Len(commands') = Len(commands) + 1
        /\ commands'[Len(commands) + 1] = <<kind, client>>
    BY <1>1, <1>2
  <2>2. QED
    BY <2>1 DEF Last
<1>3. CASE commands' = commands \o << <<"two", client>>, <<"off", client>>, <<kind, client>> >>
  <2>1. /\ commands' \in Seq(Messages) /\ Len(commands') = Len(commands) + 3
        /\ commands'[Len(commands) + 3] = <<kind, client>>
    BY <1>1, <1>3
  <2>2. QED
    BY <2>1 DEF Last
<1>4. QED
  BY <1>2, <1>3

(* When the first message leaves, the last one stays, unless it is the     *)
(* same.                                                                   *)
LEMMA TailKeepsLast ==
  ASSUME commands \in Seq(Messages), commands # << >>
  PROVE  /\ Tail(commands) \in Seq(Messages)
         /\ (Tail(commands) = << >>) <=> Len(commands) = 1
         /\ Len(commands) = 1 => Last(commands) = commands[1]
         /\ Len(commands) # 1 => Last(Tail(commands)) = Last(commands)
<1>1. /\ Len(commands) \in Nat \ {0} /\ Tail(commands) \in Seq(Messages)
      /\ Len(Tail(commands)) = Len(commands) - 1
      /\ \A i \in 1 .. Len(Tail(commands)) : Tail(commands)[i] = commands[i + 1]
  OBVIOUS
<1>2. Len(commands) # 1 => Tail(commands)[Len(commands) - 1] = commands[Len(commands)]
  BY <1>1
<1>3. QED
  BY <1>1, <1>2 DEF Last

LEMMA CaptanKeepsAsked ==
  ASSUME AskedInv, CaptanStep, source' = source
  PROVE  AskedInv'
<1>0. /\ source = "captan" /\ commands \in Seq(Messages) /\ client \in Nat
      /\ missed => commands = << >>
      /\ call = "DoStartRun" => state # "running"
      /\ call = "DoStopRun" => state = "running"
      /\ ~missed => IF commands = << >> THEN enabled = (Wanted = "on")
                                       ELSE Last(commands)[1] = Wanted
  BY DEF AskedInv, CaptanStep, Messages
<1> USE DEF control, frontEnd, history
<1>1. CASE UNCHANGED <<commands, missed, enabled>> /\ Wanted' = Wanted /\ client' \in Nat
           /\ (call' = "DoStartRun" => state' # "running")
           /\ (call' = "DoStopRun" => state' = "running")
  BY <1>0, <1>1 DEF AskedInv, Messages
<1>2. CASE DoInitialise
  BY <1>0, <1>1, <1>2 DEF DoInitialise, Wanted
<1>3. CASE DoStartRun
  BY <1>0, <1>1, <1>3 DEF DoStartRun, Wanted
<1>4. CASE StopCloses
  BY <1>0, <1>1, <1>4 DEF StopCloses, Wanted
<1>5. CASE DoReset
  BY <1>0, <1>1, <1>5 DEF DoReset, Wanted
<1>6. ASSUME NEW kind \in {"on", "off"}, Wanted' = kind, ~missed', client' = client,
             call' = "DoStartRun" => state' # "running",
             call' = "DoStopRun" => state' = "running",
             \/ commands' = commands \o << <<kind, client>> >>
             \/ commands' = commands \o
                  << <<"two", client>>, <<"off", client>>, <<kind, client>> >>
      PROVE  AskedInv'
  <2>1. commands' \in Seq(Messages) /\ commands' # << >> /\ Last(commands')[1] = kind
    BY <1>0, <1>6, SendKeepsAsked
  <2>2. QED
    BY <1>0, <1>6, <2>1 DEF AskedInv, Messages
<1>7. CASE StartEnables
  <2>1. commands' = commands \o
          << <<"two", client>>, <<"off", client>>, <<"on", client>> >>
    <3>1. [i \in DOMAIN StartMessages |-> <<StartMessages[i], client>>]
            = << <<"two", client>>, <<"off", client>>, <<"on", client>> >>
      BY DEF StartMessages
    <3>2. QED
      BY <1>7, <3>1 DEF StartEnables, Send
  <2>2. Wanted' = "on" /\ ~missed' /\ client' = client /\ call' = "none"
    BY <1>7 DEF StartEnables, Send, Wanted
  <2>3. QED
    BY <1>6, <2>1, <2>2
<1>8. CASE DoStopRun
  <2>1. commands' = commands \o << <<"off", client>> >>
    <3>1. [i \in DOMAIN <<"off">> |-> <<(<<"off">>)[i], client>>] = << <<"off", client>> >>
      OBVIOUS
    <3>2. QED
      BY <1>8, <3>1 DEF DoStopRun, Send
  <2>2. Wanted' = "off" /\ ~missed' /\ client' = client /\ call' = "DoStopRun"
        /\ state' = "running"
    BY <1>8 DEF DoStopRun, Send, Wanted
  <2>3. QED
    BY <1>6, <2>1, <2>2
<1>9. CASE FrontEndHears
  <2>1. /\ commands # << >> /\ commands' = Tail(commands)
        /\ UNCHANGED <<missed, client, state, call>> /\ Wanted' = Wanted
        /\ enabled' = IF commands[1][1] = "two" THEN enabled ELSE commands[1][1] = "on"
    BY <1>9 DEF FrontEndHears, Wanted
  <2>2. ~missed /\ Wanted \in {"on", "off"}
    BY <1>0, <2>1 DEF Wanted
  <2>3. commands' = << >> => enabled' = (Wanted = "on")
    BY <1>0, <2>1, <2>2, TailKeepsLast
  <2>4. commands' # << >> => Last(commands')[1] = Wanted
    BY <1>0, <2>1, <2>2, TailKeepsLast
  <2>5. commands' \in Seq(Messages)
    BY <1>0, <2>1, TailKeepsLast
  <2>6. QED
    BY <1>0, <2>1, <2>2, <2>3, <2>4, <2>5 DEF AskedInv, Messages
<1>10. CASE CommandIsLost
  <2>1. /\ commands # << >> /\ commands' = Tail(commands)
        /\ UNCHANGED <<enabled, client, state, call>> /\ Wanted' = Wanted
        /\ missed' <=> Len(commands) = 1
    BY <1>10 DEF CommandIsLost, Wanted
  <2>2. commands' \in Seq(Messages) /\ (missed' <=> commands' = << >>)
    BY <1>0, <2>1, TailKeepsLast
  <2>3. commands' # << >> => Last(commands')[1] = Wanted
    BY <1>0, <2>1, TailKeepsLast
  <2>4. QED
    BY <1>0, <2>1, <2>2, <2>3 DEF AskedInv, Messages
<1>11. CASE FrontEndSends \/ UdpClient
  BY <1>0, <1>1, <1>11 DEF FrontEndSends, UdpClient, WriteFrame, TakeWord, DropFrame, Wanted
<1>12. QED
  BY <1>2, <1>3, <1>4, <1>5, <1>7, <1>8, <1>9, <1>10, <1>11
     DEF CaptanStep, RunControl, FrontEnd

LEMMA StepsKeepAsked ==
  ASSUME AskedInv, [Next]_vars
  PROVE  AskedInv'
<1> USE DEF captanVars, control, frontEnd, history
<1>1. CASE Captan
  BY <1>1, CaptanKeepsAsked DEF Captan, CaptanStep
<1>2. CASE Play
  BY <1>2 DEF Play, AskedInv
<1>3. CASE Configure
  BY <1>3 DEF Configure, DoConfigure, AskedInv, Wanted
<1>4. CASE Monitor
  BY <1>4 DEF Monitor, AskedInv, Wanted
<1>5. CASE UNCHANGED vars
  BY <1>5 DEF vars, AskedInv, Wanted
<1>6. QED
  BY <1>1, <1>2, <1>3, <1>4, <1>5 DEF Next

LEMMA AlwaysAsked == Spec => []AskedInv
<1>1. ASSUME Init
      PROVE  AskedInv
  <2>1. /\ Wanted = "off" /\ ~enabled /\ ~missed /\ commands = << >>
        /\ call = "none" /\ client = 0
    BY <1>1 DEF Init, CaptanInit, Wanted
  <2>2. commands \in Seq(Messages)
    BY <2>1
  <2>3. enabled = (Wanted = "on")
    BY <1>1, <2>1 DEF Init, CaptanInit
  <2>4. QED
    BY <2>1, <2>2, <2>3 DEF AskedInv, Messages
<1>2. AskedInv /\ [Next]_vars => AskedInv'
  BY StepsKeepAsked
<1>3. QED
  BY <1>1, <1>2, PTL DEF Spec

(* The front end is on while a run is on, and off otherwise, once it has   *)
(* got what is under way, unless the last message has been lost.           *)
THEOREM FrontEndObeys == Spec => []EnabledAsAsked
<1>1. AskedInv => EnabledAsAsked
  BY DEF AskedInv, EnabledAsAsked, Wanted
<1>2. QED
  BY <1>1, AlwaysAsked, PTL

-----------------------------------------------------------------------------
(* Before the first configuration nothing happens but initialising and     *)
(* resetting.                                                              *)
LEMMA NothingStays ==
  ASSUME NothingComes, Captan \/ Play
  PROVE  NothingComes'
<1> USE DEF NothingComes, senderVars, control, frontEnd, history
<1>1. CASE Captan
  <2>1. CASE RunControl
    BY <1>1, <2>1 DEF RunControl, DoInitialise, DoStartRun, StartEnables, DoStopRun, StopCloses,
       DoReset, Captan, playerVars
  <2>2. CASE FrontEnd \/ UdpClient
    BY <1>1, <2>2 DEF FrontEnd, FrontEndHears, CommandIsLost, FrontEndSends, UdpClient,
       WriteFrame, TakeWord, DropFrame, Captan, playerVars
  <2>3. QED
    BY <1>1, <2>1, <2>2 DEF Captan
<1>2. CASE Play
  BY <1>2 DEF Play, CaptanOnly, Player!RunControl, Player!DoInitialise, Player!DoStartRun,
     Player!DoStopRun, Player!DoReset, Player!RunLoop, Player!Top, Player!ReadSome,
     Player!ReadFails, Player!SendEvent
<1>3. QED
  BY <1>1, <1>2

LEMMA BookingAppends ==
  ASSUME booking \in Nat, vectors \in Seq(Nat), AtConfiguration,
         IF booking = 0 THEN vectors = << >>
         ELSE \A i \in 1 .. n_channels : i <= Len(vectors) /\ vectors[i] = 1
  PROVE  /\ booking' \in Nat /\ booking' > 0 /\ vectors' \in Seq(Nat)
         /\ \A i \in 1 .. n_channels : i <= Len(vectors') /\ vectors'[i] = 1
<1> DEFINE more == [i \in 1 .. n_channels |-> booking + 1]
<1>0. n_channels \in Nat
  BY DEF n_channels
<1>1. booking' = booking + 1 /\ vectors' = vectors \o more
  BY DEF AtConfiguration, PushBack
<1>2. /\ more \in Seq(Nat) /\ Len(more) = n_channels
      /\ \A i \in 1 .. n_channels : more[i] = booking + 1
  BY <1>0
<1> HIDE DEF more
<1>3. /\ vectors \o more \in Seq(Nat) /\ Len(vectors \o more) = Len(vectors) + n_channels
      /\ \A i \in 1 .. Len(vectors) + n_channels : (vectors \o more)[i] =
           IF i <= Len(vectors) THEN vectors[i] ELSE more[i - Len(vectors)]
  BY <1>2, ConcatProperties
<1>4. Len(vectors) \in Nat
  OBVIOUS
<1>5. \A i \in 1 .. n_channels : (vectors \o more)[i] = 1
  <2>1. CASE booking = 0
    BY <1>0, <1>2, <1>3, <2>1
  <2>2. CASE booking # 0
    BY <1>0, <1>3, <1>4, <2>2
  <2>3. QED
    BY <2>1, <2>2
<1>6. QED
  BY <1>0, <1>1, <1>3, <1>4, <1>5

LEMMA StepsKeepBooked ==
  ASSUME BookedInv, [Next]_vars
  PROVE  BookedInv'
<1> USE DEF BookedInv, ChannelPlotsAreOld
<1>1. CASE Captan \/ Play
  <2>1. plots' = {} /\ UNCHANGED <<booking, vectors, seen>>
    BY <1>1 DEF Captan, Play, MonitorWaits
  <2>2. booking = 0 => NothingComes'
    BY <1>1, NothingStays
  <2>3. QED
    BY <2>1, <2>2
<1>2. CASE Configure
  <2>1. AtConfiguration /\ plots' = {} /\ seen' = seen
    BY <1>2 DEF Configure, AtConfiguration
  <2>2. QED
    BY <2>1, BookingAppends
<1>3. CASE Monitor
  <2>1. booking > 0
    BY <1>3 DEF Monitor, NothingComes
  <2>2. UNCHANGED <<booking, vectors>> /\ seen' = seen + 1
    BY <1>3 DEF Monitor, AtEventReception
  <2>3. {vectors[i] : i \in 1 .. n_channels} = {1}
    <3>1. 1 \in 1 .. n_channels
      BY DEF n_channels
    <3>2. QED
      BY <2>1, <3>1
  <2>4. \A fill \in plots' : fill.channels = {1}
    <3>1. PICK block : AtEventReception(seen', block)
      BY <1>3 DEF Monitor
    <3> DEFINE Shown == {vectors[i] : i \in 1 .. n_channels}
    <3> DEFINE Fill(ev, tse, charge, bars) ==
                 [ev |-> ev, booking |-> booking, channels |-> Shown,
                  tse |-> tse, charge |-> charge, bars |-> bars]
    <3>2. PICK tse \in {TSevent(Fiber(block, 1), Fiber(block, 2))} :
            \E charge \in {Charges(tse)} :
              plots' = {Fill(seen', tse, charge, Bars(charge))}
      BY <3>1 DEF AtEventReception
    <3>3. PICK charge : plots' = {Fill(seen', tse, charge, Bars(charge))}
      BY <3>2
    <3>4. Fill(seen', tse, charge, Bars(charge)).channels = Shown
      OBVIOUS
    <3> HIDE DEF Fill
    <3>5. QED
      BY <2>3, <3>3, <3>4
  <2>5. QED
    BY <2>1, <2>2, <2>4
<1>4. CASE UNCHANGED vars
  BY <1>4 DEF vars, captanVars, senderVars, control, frontEnd, playerVars, monitorVars,
     NothingComes
<1>5. QED
  BY <1>1, <1>2, <1>3, <1>4 DEF Next

LEMMA AlwaysBooked == Spec => []BookedInv
<1>1. Init => BookedInv
  BY DEF Init, CaptanInit, SenderInit, MonitorInit, Player!PlayerInit, BookedInv,
     NothingComes, ChannelPlotsAreOld
<1>2. BookedInv /\ [Next]_vars => BookedInv'
  BY StepsKeepBooked
<1>3. QED
  BY <1>1, <1>2, PTL DEF Spec

(* However often the programs are configured, the plots of the channels    *)
(* that are filled are those of the first configuration.                   *)
THEOREM FirstPlotsAreFilled == Spec => []ChannelPlotsAreOld
<1>1. BookedInv => ChannelPlotsAreOld
  BY DEF BookedInv
<1>2. QED
  BY <1>1, AlwaysBooked, PTL

-----------------------------------------------------------------------------
(* The file player: what a read takes is in the file and in the event.     *)
LEMMA NeededFits ==
  ASSUME NEW read \in Nat, read <= WordsPerEvent, Len(packet) = read,
         NEW length \in Nat, Len(Stream) = length, pos \in 0 .. length
  PROVE  /\ Player!Needed \in Nat
         /\ Player!Needed <= WordsPerEvent - read /\ Player!Needed <= length - pos
<1> DEFINE S == {Chunk, WordsPerEvent - read, length - pos}
<1>1. Chunk \in Nat /\ WordsPerEvent - read \in Nat /\ length - pos \in Nat
  BY EventsHaveWords
<1>2. \E m \in S : \A n \in S : m <= n
  BY <1>1
<1>3. Min(S) \in S /\ \A n \in S : Min(S) <= n
  BY <1>2 DEF Min
<1>4. Player!Needed = Min(S)
  BY DEF Player!Needed, Player!Min, Min
<1>5. QED
  BY <1>1, <1>3, <1>4

LEMMA StreamIsIndexed ==
  ASSUME name \in DOMAIN Streams
  PROVE  Len(Stream) \in Nat /\ DOMAIN Stream = 1 .. Len(Stream)
BY StreamsAssumption DEF Stream

WordsAfter(p, k) == [i \in 1 .. k |-> p + i]

(* A read goes on where the last one ended, or at the beginning.           *)
LEMMA ReadGoesOn ==
  ASSUME NEW k \in Nat, NEW p \in Nat, NEW words \in Seq(Nat), GoesOn(words),
         words # << >> => p \in {0, Last(words)}
  PROVE  LET longer == words \o WordsAfter(p, k)
         IN  /\ longer \in Seq(Nat) /\ Len(longer) = Len(words) + k /\ GoesOn(longer)
             /\ words # << >> => longer[1] = words[1]
             /\ words = << >> /\ longer # << >> => longer[1] = p + 1
             /\ longer # << >> => p + k \in {0, Last(longer)}
<1> DEFINE piece == WordsAfter(p, k)
<1>a. PICK longer : longer = words \o piece
  OBVIOUS
<1>b. PICK L \in Nat : L = Len(words)
  OBVIOUS
<1>1. piece \in Seq(Nat) /\ Len(piece) = k /\ \A i \in 1 .. k : piece[i] = p + i
  BY DEF WordsAfter
<1>2. longer = words \o piece
  BY <1>a
<1> HIDE DEF piece
<1>3. L \in Nat /\ L = Len(words) /\ (words = << >> <=> L = 0)
  BY <1>b
<1>4. /\ longer \in Seq(Nat) /\ Len(longer) = L + k
      /\ \A i \in 1 .. L + k :
           longer[i] = IF i <= L THEN words[i] ELSE piece[i - L]
  <2>1. /\ words \o piece \in Seq(Nat) /\ Len(words \o piece) = Len(words) + Len(piece)
        /\ \A i \in 1 .. Len(words) + Len(piece) : (words \o piece)[i] =
              IF i <= Len(words) THEN words[i] ELSE piece[i - Len(words)]
    BY <1>1, ConcatProperties
  <2>2. Len(words) = L /\ Len(piece) = k
    BY <1>1, <1>3
  <2>3. QED
    BY ONLY <1>2, <2>1, <2>2
<1>5. ASSUME NEW i \in 1 .. L + k
      PROVE  longer[i] = IF i <= L THEN words[i] ELSE p + (i - L)
  <2>1. CASE i <= L
    BY ONLY <1>4, <2>1, i \in 1 .. L + k
  <2>2. CASE i > L
    <3>1. i - L \in 1 .. k /\ ~(i <= L)
      BY <2>2
    <3>2. longer[i] = piece[i - L]
      BY ONLY <1>4, <3>1, i \in 1 .. L + k
    <3>3. QED
      BY <1>1, <3>1, <3>2
  <2>3. QED
    BY <2>1, <2>2
<1>6. L > 0 => p = 0 \/ p = words[L]
  BY <1>3 DEF Last
<1>7. ASSUME NEW i \in 2 .. L + k
      PROVE  longer[i] \in {longer[i - 1] + 1, 1}
  <2>1. CASE i <= L
    <3>1. words[i] \in {words[i - 1] + 1, 1}
      BY <1>3, <2>1 DEF GoesOn
    <3>2. i \in 1 .. L + k /\ i - 1 \in 1 .. L + k /\ i <= L /\ i - 1 <= L
      BY <2>1
    <3>3. longer[i] = words[i] /\ longer[i - 1] = words[i - 1]
      BY ONLY <1>5, <3>2
    <3>4. QED
      BY <3>1, <3>3
  <2>2. CASE i = L + 1
    <3>1. i \in 1 .. L + k /\ i - 1 \in 1 .. L + k /\ ~(i <= L) /\ i - 1 <= L /\ L > 0
      BY <2>2
    <3>2. longer[i] = p + (i - L) /\ longer[i - 1] = words[i - 1]
      BY ONLY <1>5, <3>1
    <3>3. i - L = 1 /\ i - 1 = L
      BY <2>2
    <3>4. QED
      BY <1>6, <3>1, <3>2, <3>3
  <2>3. CASE i > L + 1
    <3>1. i \in 1 .. L + k /\ i - 1 \in 1 .. L + k /\ ~(i <= L) /\ ~(i - 1 <= L)
      BY <2>3
    <3>2. longer[i] = p + (i - L) /\ longer[i - 1] = p + (i - 1 - L)
      BY ONLY <1>5, <3>1
    <3>3. p + (i - L) = p + (i - 1 - L) + 1
      OBVIOUS
    <3>4. QED
      BY <3>2, <3>3
  <2>4. i <= L \/ i = L + 1 \/ i > L + 1
    OBVIOUS
  <2>5. QED
    BY <2>1, <2>2, <2>3, <2>4
<1>8. GoesOn(longer)
  BY <1>4, <1>7 DEF GoesOn
<1>9. words # << >> => longer[1] = words[1]
  <2>1. words # << >> => 1 \in 1 .. L + k /\ 1 <= L
    BY <1>3
  <2>2. QED
    BY ONLY <1>5, <2>1
<1>10. words = << >> /\ longer # << >> => longer[1] = p + 1
  <2>1. words = << >> /\ longer # << >> => 1 \in 1 .. L + k /\ ~(1 <= L) /\ 1 - L = 1
    BY <1>3, <1>4
  <2>2. QED
    BY ONLY <1>5, <2>1
<1>11. longer # << >> => p + k \in {0, Last(longer)}
  <2>1. CASE k > 0
    <3>1. L + k \in 1 .. L + k /\ ~(L + k <= L) /\ L + k - L = k
      BY <2>1
    <3>2. longer[L + k] = p + k
      BY ONLY <1>5, <3>1
    <3>3. QED
      BY <1>4, <3>2 DEF Last
  <2>2. CASE k = 0
    <3>1. longer # << >> => L \in 1 .. L + k /\ L <= L /\ L > 0 /\ Len(longer) = L
      BY <1>4, <2>2
    <3>2. longer # << >> => longer[L] = words[L]
      BY ONLY <1>5, <3>1
    <3>3. QED
      BY <1>6, <2>2, <3>1, <3>2 DEF Last
  <2>3. QED
    BY <2>1, <2>2
<1>12. QED
  BY <1>3, <1>4, <1>8, <1>9, <1>10, <1>11, <1>a DEF piece

(* An event that is sent follows the one before.                           *)
LEMMA SendFollows ==
  ASSUME PlayedInv, source = "file", loop = "read", Len(packet) = WordsPerEvent,
         sent' = Append(sent, [words |-> packet, run |-> run_number]), source' = source
  PROVE  /\ sent' \in Seq([words : Seq(Nat), run : Nat]) /\ PiecesFollowFile'
         /\ sent' # << >> /\ Last(sent')  = [words |-> packet, run |-> run_number]
<1> DEFINE event == [words |-> packet, run |-> run_number]
<1> DEFINE S == [words : Seq(Nat), run : Nat]
<1>1. /\ packet \in Seq(Nat) /\ event \in S /\ sent \in Seq(S) /\ GoesOn(packet)
      /\ PiecesFollowFile /\ packet # << >> /\ Follows(packet[1] - 1)
  BY EventsHaveWords DEF PlayedInv
<1>2. event.words = packet
  OBVIOUS
<1>3. sent' = Append(sent, event)
  OBVIOUS
<1> HIDE DEF event, S
<1>4. /\ sent' \in Seq(S) /\ Len(sent') = Len(sent) + 1 /\ Len(sent) \in Nat
      /\ \A k \in 1 .. Len(sent) : sent'[k] = sent[k]
      /\ sent'[Len(sent) + 1] = event
  BY <1>1, <1>3
<1>5. ASSUME NEW k \in DOMAIN sent'
      PROVE  LET words == sent'[k].words
             IN  /\ Len(words) = WordsPerEvent /\ GoesOn(words)
                 /\ words[1] \in {1} \union
                      (IF k = 1 THEN {} ELSE {Last(sent'[k - 1].words) + 1})
  <2>1. k \in 1 .. Len(sent) + 1
    BY <1>4
  <2>2. CASE k <= Len(sent)
    <3>1. k \in DOMAIN sent /\ sent'[k] = sent[k]
      BY <1>1, <1>4, <2>1, <2>2
    <3>2. k # 1 => sent'[k - 1] = sent[k - 1]
      BY <1>4, <2>1, <2>2
    <3>3. QED
      BY <1>1, <3>1, <3>2 DEF PiecesFollowFile, GoesOn
  <2>3. CASE k = Len(sent) + 1
    <3>1. sent'[k].words = packet
      BY <1>2, <1>4, <2>3
    <3>2. CASE packet[1] - 1 = 0
      <4>1. packet[1] = 1
        BY <1>1, <3>2
      <4>2. QED
        BY <1>1, <3>1, <4>1
    <3>3. CASE sent # << >> /\ packet[1] - 1 = Last(Last(sent).words)
      <4>1. Len(sent) > 0 /\ k # 1 /\ sent'[k - 1] = Last(sent)
        BY <1>1, <1>4, <2>3, <3>3 DEF Last
      <4>2. packet[1] = Last(sent'[k - 1].words) + 1
        BY <1>1, <3>3, <4>1
      <4>3. QED
        BY <1>1, <3>1, <4>1, <4>2
    <3>4. QED
      BY <1>1, <3>2, <3>3 DEF Follows
  <2>4. QED
    BY <1>4, <2>1, <2>2, <2>3
<1>6. PiecesFollowFile'
  BY <1>5 DEF PiecesFollowFile, GoesOn
<1>7. sent' # << >> /\ Last(sent') = event
  BY <1>4 DEF Last
<1>8. QED
  BY <1>4, <1>6, <1>7 DEF event, S

LEMMA PlayKeepsPlayed ==
  ASSUME PlayedInv, Play, source' = source, name' = name
  PROVE  PlayedInv'
<1>0. /\ source = "file" /\ name \in DOMAIN Streams /\ pos \in 0 .. Len(Stream)
      /\ packet \in Seq(Nat) /\ Len(packet) <= WordsPerEvent
      /\ sent \in Seq([words : Seq(Nat), run : Nat]) /\ run_number \in Nat
      /\ GoesOn(packet)
      /\ IF loop # "read" \/ packet = << >> THEN fail \/ Follows(pos)
         ELSE Follows(packet[1] - 1) /\ (fail \/ pos \in {0, Last(packet)})
      /\ PiecesFollowFile
  BY DEF PlayedInv, Play
<1> USE DEF Player!file_
<1>1. Stream' = Stream
  BY DEF Stream
<1>2. CASE UNCHANGED <<pos, packet, sent, loop>> /\ run_number' \in Nat /\ (fail => fail')
  BY <1>0, <1>1, <1>2 DEF PlayedInv, PiecesFollowFile, GoesOn, Follows
<1>3. CASE Player!DoInitialise \/ Player!DoStopRun \/ Player!DoReset
  BY <1>0, <1>2, <1>3 DEF Player!DoInitialise, Player!DoStopRun, Player!DoReset
<1>4. CASE Player!DoStartRun \/ Player!Top
  <2>1. /\ UNCHANGED <<pos, fail, sent>> /\ run_number' \in Nat
        /\ \/ loop' = loop /\ packet' = packet
           \/ loop # "read" /\ loop' # "read" /\ packet' = packet
           \/ loop # "read" /\ loop' = "read" /\ packet' = << >>
    BY <1>0, <1>4 DEF Player!DoStartRun, Player!Top
  <2>2. /\ packet' \in Seq(Nat) /\ Len(packet') <= WordsPerEvent /\ GoesOn(packet')
    <3>1. << >> \in Seq(Nat) /\ Len(<< >>) <= WordsPerEvent /\ GoesOn(<< >>)
      BY EventsHaveWords DEF GoesOn
    <3>2. packet' = packet \/ packet' = << >>
      BY <2>1
    <3>3. QED
      BY <1>0, <3>1, <3>2
  <2>3. IF loop' # "read" \/ packet' = << >> THEN fail \/ Follows(pos)
        ELSE Follows(packet'[1] - 1) /\ (fail \/ pos \in {0, Last(packet')})
    BY <1>0, <2>1
  <2>4. QED
    BY <1>0, <1>1, <2>1, <2>2, <2>3 DEF PlayedInv, PiecesFollowFile, GoesOn, Follows
<1>5. CASE Player!ReadSome
  <2> DEFINE k == Player!Needed
  <2>1. /\ loop = "read" /\ loop' = "read" /\ ~fail /\ fail' = fail /\ pos' = pos + k
        /\ packet' = packet \o WordsAfter(pos, k)
        /\ UNCHANGED <<sent, run_number>>
    BY <1>5 DEF Player!ReadSome, Player!CanRead, WordsAfter
  <2>2. Len(Stream) \in Nat /\ Len(packet) \in Nat /\ pos \in Nat
    BY <1>0, StreamIsIndexed
  <2>3. k \in Nat /\ k <= WordsPerEvent - Len(packet) /\ k <= Len(Stream) - pos
    BY <1>0, <2>2, NeededFits
  <2>4. packet # << >> => pos \in {0, Last(packet)}
    BY <1>0, <2>1
  <2> HIDE DEF k
  <2>5. /\ packet' \in Seq(Nat) /\ Len(packet') = Len(packet) + k /\ GoesOn(packet')
        /\ packet # << >> => packet'[1] = packet[1]
        /\ packet = << >> /\ packet' # << >> => packet'[1] = pos + 1
        /\ packet' # << >> => pos + k \in {0, Last(packet')}
    <3> DEFINE longer == packet \o WordsAfter(pos, k)
    <3>1. /\ longer \in Seq(Nat) /\ Len(longer) = Len(packet) + k /\ GoesOn(longer)
          /\ packet # << >> => longer[1] = packet[1]
          /\ packet = << >> /\ longer # << >> => longer[1] = pos + 1
          /\ longer # << >> => pos + k \in {0, Last(longer)}
      BY <1>0, <2>2, <2>3, <2>4, ReadGoesOn
    <3>2. packet' = longer
      BY <2>1
    <3> HIDE DEF longer
    <3>3. QED
      BY ONLY <3>1, <3>2
  <2>6. pos' \in 0 .. Len(Stream) /\ Len(packet') <= WordsPerEvent
    BY <2>1, <2>2, <2>3, <2>5, EventsHaveWords
  <2>7. packet' = << >> => Follows(pos')
    <3>1. SUFFICES ASSUME packet' = << >> PROVE Follows(pos')
      OBVIOUS
    <3>2. Len(packet) = 0 /\ k = 0 /\ packet = << >>
      BY <1>0, <2>2, <2>3, <2>5, <3>1
    <3>3. QED
      BY <1>0, <2>1, <2>2, <3>2
  <2>8. packet' # << >> => Follows(packet'[1] - 1)
    <3>1. SUFFICES ASSUME packet' # << >> PROVE Follows(packet'[1] - 1)
      OBVIOUS
    <3>2. CASE packet = << >>
      <4>1. packet'[1] - 1 = pos
        BY <2>2, <2>5, <3>1, <3>2
      <4>2. QED
        BY <1>0, <2>1, <3>2, <4>1
    <3>3. CASE packet # << >>
      BY <1>0, <2>1, <2>5, <3>3
    <3>4. QED
      BY <3>2, <3>3
  <2>9. packet' # << >> => pos' \in {0, Last(packet')}
    BY <2>1, <2>5
  <2>10. QED
    BY <1>0, <1>1, <2>1, <2>5, <2>6, <2>7, <2>8, <2>9
       DEF PlayedInv, PiecesFollowFile, GoesOn, Follows
<1>6. CASE Player!ReadFails
  <2>1. /\ fail' /\ loop' = "top" /\ UNCHANGED <<pos, packet, sent, run_number>>
    BY <1>6 DEF Player!ReadFails
  <2>2. QED
    BY <1>0, <1>1, <2>1 DEF PlayedInv, PiecesFollowFile, GoesOn
<1>7. CASE Player!SendEvent
  <2>1. /\ loop = "read" /\ Len(packet) = WordsPerEvent /\ loop' = "top"
        /\ sent' = Append(sent, [words |-> packet, run |-> run_number])
        /\ UNCHANGED <<pos, fail, packet, run_number>>
    BY <1>7 DEF Player!SendEvent
  <2>2. /\ sent' \in Seq([words : Seq(Nat), run : Nat]) /\ PiecesFollowFile'
        /\ sent' # << >> /\ Last(sent') = [words |-> packet, run |-> run_number]
    BY <1>0, <2>1, SendFollows
  <2>3. fail \/ pos \in {0, Last(packet)}
    BY <1>0, <2>1, EventsHaveWords
  <2>4. fail' \/ (Follows(pos))'
    BY <2>1, <2>2, <2>3 DEF Follows
  <2>5. QED
    BY <1>0, <1>1, <2>1, <2>2, <2>4 DEF PlayedInv, GoesOn
<1>8. QED
  BY <1>3, <1>4, <1>5, <1>6, <1>7 DEF Play, Player!RunControl, Player!RunLoop

LEMMA StepsKeepPlayed ==
  ASSUME PlayedInv, [Next]_vars
  PROVE  PlayedInv'
<1>1. CASE source' = source /\ source # "file"
  BY <1>1 DEF PlayedInv
<1>2. CASE Captan
  BY <1>1, <1>2 DEF Captan
<1>3. CASE Play
  BY <1>3, PlayKeepsPlayed DEF Play, CaptanOnly
<1>4. CASE Configure
  <2>1. CASE source = "file"
    <3>1. PICK exists \in BOOLEAN : Player!DoConfigure(exists)
      BY <1>4, <2>1 DEF Configure
    <3>2. /\ UNCHANGED <<name, source, packet, loop, sent, run_number>>
          /\ pos' = 0 \/ (pos' = pos /\ fail')
      BY <1>4, <2>1, <3>1 DEF Configure, CaptanOnly, Player!DoConfigure
    <3>3. pos' \in 0 .. Len(Stream)
      BY <2>1, <3>2, StreamIsIndexed DEF PlayedInv
    <3>4. QED
      BY <2>1, <3>2, <3>3 DEF PlayedInv, PiecesFollowFile, GoesOn, Follows, Stream
  <2>2. CASE source # "file"
    BY <1>1, <1>4, <2>2 DEF Configure
  <2>3. QED
    BY <2>1, <2>2
<1>5. CASE Monitor \/ UNCHANGED vars
  <2>1. UNCHANGED <<name, source, pos, fail, loop, packet, sent, run_number>>
    BY <1>5 DEF Monitor, vars, captanVars, senderVars, control, playerVars
  <2>2. QED
    BY <2>1 DEF PlayedInv, PiecesFollowFile, GoesOn, Follows, Stream
<1>6. QED
  BY <1>2, <1>3, <1>4, <1>5 DEF Next

LEMMA AlwaysPlayed == Spec => []PlayedInv
<1>1. ASSUME Init
      PROVE  PlayedInv
  <2>1. /\ name \in DOMAIN Streams /\ sent = << >> /\ run_number = 0
        /\ pos = 0 /\ loop = "idle" /\ packet = << >>
    BY <1>1 DEF Init, CaptanInit, SenderInit, Player!PlayerInit
  <2>2. pos \in 0 .. Len(Stream)
    BY <2>1, StreamIsIndexed
  <2>3. QED
    BY <2>1, <2>2, EventsHaveWords DEF PlayedInv, PiecesFollowFile, GoesOn, Follows
<1>2. PlayedInv /\ [Next]_vars => PlayedInv'
  BY StepsKeepPlayed
<1>3. QED
  BY <1>1, <1>2, PTL DEF Spec

(* What is played are whole pieces of the file, one after the other, but   *)
(* for one that is being read while the file is opened anew.               *)
THEOREM PlayedFollowsFile == Spec => []PiecesFollowFile
<1>1. PlayedInv => PiecesFollowFile
  BY DEF PlayedInv, PiecesFollowFile
<1>2. QED
  BY <1>1, AlwaysPlayed, PTL

-----------------------------------------------------------------------------
(* The words under way.                                                    *)
(* A set of positions up to n has a least one: the least of the intervals  *)
(* up to each of them.                                                     *)
LEMMA LeastOfPositions ==
  ASSUME NEW n \in Nat, NEW S \in SUBSET (0 .. n), S # {}
  PROVE  \E k \in S : \A j \in S : k <= j
<1> DEFINE T == {0 .. k : k \in S}
           F == FiniteSubsetsOf(0 .. n)
           R == StrictSubsetOrdering(0 .. n)
<1>1. T # {} /\ \A t \in T : t \subseteq 0 .. n
  <2>1. \A k \in S : k \in Nat /\ k <= n
    OBVIOUS
  <2>2. \A k \in S : 0 .. k \subseteq 0 .. n
    BY <2>1
  <2>3. QED
    BY <2>2
<1>2. IsFiniteSet(0 .. n)
  BY FS_Interval
<1>3. T \subseteq F
  BY <1>1, <1>2, FS_Subset DEF FiniteSubsetsOf
<1>4. IsWellFoundedOn(R, F)
  BY FS_StrictSubsetOrderingWellFounded
<1>5. \E t \in T : \A u \in T : <<u, t>> \notin R
  <2> HIDE DEF T, F, R
  <2> QED
    BY <1>1, <1>3, <1>4, WFMin
<1>6. PICK k \in S : \A j \in S : <<0 .. j, 0 .. k>> \notin R
  BY <1>5
<1>7. ASSUME NEW j \in S, j < k PROVE FALSE
  <2>1. 0 .. j \subseteq 0 .. k /\ 0 .. j # 0 .. k
    BY <1>7
  <2>2. <<0 .. j, 0 .. k>> \in R
    BY <2>1 DEF StrictSubsetOrdering
  <2>3. QED
    BY <2>2, <1>6
<1>8. \A j \in S : k <= j
  BY <1>7
<1>9. QED
  BY <1>8

LEMMA MinOfPositions ==
  ASSUME NEW n \in Nat, NEW S \in SUBSET (0 .. n), S # {}
  PROVE  Min(S) \in S /\ \A j \in S : Min(S) <= j
<1>1. \E k \in S : \A j \in S : k <= j
  BY LeastOfPositions
<1>2. QED
  BY <1>1 DEF Min

LEMMA FrameNumbers ==
  ASSUME NEW fs \in Seq(Frame)
  PROVE  /\ Len(fs) \in Nat /\ DOMAIN fs = 1 .. Len(fs)
         /\ \A i \in DOMAIN fs : fs[i] \in Frame /\ fs[i].from \in Nat /\ fs[i].to \in Nat
<1>1. Len(fs) \in Nat /\ DOMAIN fs = 1 .. Len(fs) /\ \A i \in DOMAIN fs : fs[i] \in Frame
  OBVIOUS
<1>2. \A frame \in Frame : frame.from \in Nat /\ frame.to \in Nat
  BY DEF Frame
<1>3. QED
  BY <1>1, <1>2

LEMMA LineGoesOn ==
  ASSUME NEW l, NEW a, NEW S, NEW d, NEW fs, IsLine(l, a, S, d, fs),
         NEW b \in Nat, a <= b, b <= l + 1
  PROVE  IsLine(l, b, S, d, fs)
<1>1. /\ l \in Nat /\ a \in Nat /\ 1 <= a /\ fs \in Seq(Frame) /\ d \in Seq(Frame)
      /\ Len(d) <= 1
  BY DEF IsLine
<1>2. \A frame \in Frame : IsStretch(frame, a) => IsStretch(frame, b)
  BY <1>1 DEF IsStretch, Frame
<1>3. \A i \in DOMAIN fs : /\ IsStretch(fs[i], b)
                          /\ \A j \in 1 .. i - 1 : fs[j].to < fs[i].from
  BY <1>1, <1>2, FrameNumbers DEF IsLine
<1>4. d # << >> => d[1] \in Frame
  BY <1>1
<1>5. d # << >> => /\ IsStretch(d[1], b)
                   /\ \A i \in DOMAIN fs : d[1].to < fs[i].from
  BY <1>2, <1>4 DEF IsLine
<1>6. \A q \in S : /\ q \in Nat /\ 1 <= q /\ q < b
                  /\ d # << >> => q < d[1].from
                  /\ \A i \in DOMAIN fs : q < fs[i].from
  BY <1>1 DEF IsLine
<1>7. QED
  BY <1>1, <1>3, <1>5, <1>6 DEF IsLine

LEMMA LineGrows ==
  ASSUME NEW l, NEW a, NEW S, NEW d, NEW fs, IsLine(l, a, S, d, fs),
         NEW frame \in Frame, frame.from = a, a <= frame.to, frame.to <= l
  PROVE  IsLine(l, frame.to + 1, S, d, Append(fs, frame))
<1> DEFINE n == Len(fs)
           b == frame.to + 1
           more == Append(fs, frame)
<1>1. /\ l \in Nat /\ a \in Nat /\ 1 <= a /\ a <= l + 1
      /\ fs \in Seq(Frame) /\ d \in Seq(Frame) /\ Len(d) <= 1
  BY DEF IsLine
<1>2. b \in Nat /\ a < b /\ b <= l + 1 /\ frame.to \in Nat
  BY <1>1 DEF Frame
<1>3. /\ n \in Nat /\ DOMAIN fs = 1 .. n
      /\ more \in Seq(Frame) /\ DOMAIN more = 1 .. n + 1
      /\ \A i \in 1 .. n : more[i] = fs[i]
      /\ more[n + 1] = frame
  BY <1>1
<1>4. IsLine(l, b, S, d, fs)
  <2> HIDE DEF b
  <2>1. a <= b
    BY <1>1, <1>2
  <2>2. QED
    BY <1>2, <2>1, LineGoesOn
<1>5. \A i \in 1 .. n : fs[i].to < a
  BY <1>3 DEF IsLine, IsStretch
<1> HIDE DEF n, b, more
<1>6. ASSUME NEW i \in 1 .. n + 1
      PROVE  IsStretch(more[i], b) /\ \A j \in 1 .. i - 1 : more[j].to < more[i].from
  <2>1. CASE i \in 1 .. n
    <3>1. more[i] = fs[i] /\ \A j \in 1 .. i - 1 : more[j] = fs[j]
      BY <1>3, <2>1
    <3>2. QED
      BY <1>3, <1>4, <2>1, <3>1 DEF IsLine
  <2>2. CASE i = n + 1
    <3>1. more[i] = frame /\ \A j \in 1 .. i - 1 : j \in 1 .. n /\ more[j] = fs[j]
      BY <1>3, <2>2
    <3>2. IsStretch(frame, b)
      BY <1>1, <1>2 DEF IsStretch, b
    <3>3. QED
      BY <1>5, <3>1, <3>2
  <2>3. QED
    BY <1>3, <2>1, <2>2
<1>7. \A i \in 1 .. n + 1 : i \in 1 .. n \/ i = n + 1
  BY <1>3
<1>8. d # << >> => \A i \in 1 .. n + 1 : d[1].to < more[i].from
  <2>1. d # << >> => d[1].to < a
    BY DEF IsLine, IsStretch
  <2>2. QED
    BY <1>3, <1>4, <1>7, <2>1 DEF IsLine
<1>9. \A q \in S : \A i \in 1 .. n + 1 : q < more[i].from
  BY <1>3, <1>7 DEF IsLine
<1>10. QED
  BY <1>3, <1>4, <1>6, <1>8, <1>9 DEF IsLine, b, more

LEMMA LineDelivers ==
  ASSUME NEW l, NEW a, NEW S, NEW fs, IsLine(l, a, S, << >>, fs), fs # << >>
  PROVE  IsLine(l, a, S, <<fs[1]>>, Tail(fs)) /\ fs[1] \in Frame /\ IsStretch(fs[1], a)
<1> DEFINE n == Len(fs)
           rest == Tail(fs)
<1>1. fs \in Seq(Frame)
  BY DEF IsLine
<1>2. /\ n \in Nat /\ n > 0 /\ DOMAIN fs = 1 .. n
      /\ rest \in Seq(Frame) /\ DOMAIN rest = 1 .. n - 1
      /\ \A i \in 1 .. n - 1 : rest[i] = fs[i + 1]
      /\ fs[1] \in Frame
  BY <1>1
<1> HIDE DEF n, rest
<1>3. \A i \in 1 .. n - 1 : /\ i + 1 \in 1 .. n /\ 1 \in 1 .. i + 1 - 1
                            /\ \A j \in 1 .. i - 1 : j \in 1 .. n - 1 /\ j + 1 \in 1 .. i + 1 - 1
  BY <1>2
<1>4. \A i \in 1 .. n - 1 : /\ IsStretch(rest[i], a)
                            /\ \A j \in 1 .. i - 1 : rest[j].to < rest[i].from
  <2> SUFFICES ASSUME NEW i \in 1 .. n - 1
               PROVE  /\ IsStretch(rest[i], a)
                      /\ \A j \in 1 .. i - 1 : rest[j].to < rest[i].from
    OBVIOUS
  <2>1. /\ i + 1 \in DOMAIN fs /\ rest[i] = fs[i + 1]
        /\ \A j \in 1 .. i - 1 : rest[j] = fs[j + 1] /\ j + 1 \in 1 .. i + 1 - 1
    BY <1>2, <1>3
  <2>2. /\ IsStretch(fs[i + 1], a)
        /\ \A j \in 1 .. i + 1 - 1 : fs[j].to < fs[i + 1].from
    BY <2>1 DEF IsLine
  <2>3. QED
    BY <2>1, <2>2
<1>5. /\ <<fs[1]>> \in Seq(Frame) /\ Len(<<fs[1]>>) = 1 /\ <<fs[1]>> # << >>
      /\ (<<fs[1]>>)[1] = fs[1]
  BY <1>2
<1>6. 1 \in DOMAIN fs
  BY <1>2
<1>7. IsStretch(fs[1], a) /\ \A i \in 1 .. n - 1 : fs[1].to < rest[i].from
  <2>1. IsStretch(fs[1], a)
    BY <1>6 DEF IsLine
  <2>2. ASSUME NEW i \in 1 .. n - 1 PROVE fs[1].to < rest[i].from
    <3>1. i + 1 \in DOMAIN fs /\ rest[i] = fs[i + 1] /\ 1 \in 1 .. i + 1 - 1
      BY <1>2, <1>3
    <3>2. \A j \in 1 .. i + 1 - 1 : fs[j].to < fs[i + 1].from
      BY <3>1 DEF IsLine
    <3>3. QED
      BY <3>1, <3>2
  <2>3. QED
    BY <2>1, <2>2
<1>8. \A q \in S : q < fs[1].from /\ \A i \in 1 .. n - 1 : q < rest[i].from
  BY <1>2, <1>3, <1>6 DEF IsLine
<1>9. QED
  BY <1>2, <1>4, <1>5, <1>7, <1>8 DEF IsLine, rest

LEMMA LineLeaves ==
  ASSUME NEW l, NEW a, NEW S, NEW d, NEW fs, IsLine(l, a, S, d, fs)
  PROVE  IsLine(l, a, S, << >>, fs) /\ IsLine(l, a, S, d, << >>)
<1>1. << >> \in Seq(Frame) /\ Len(<< >>) = 0 /\ DOMAIN << >> = {}
  OBVIOUS
<1>2. QED
  BY <1>1 DEF IsLine

LEMMA LineGives ==
  ASSUME NEW l, NEW a, NEW S, NEW d, NEW fs, IsLine(l, a, S, d, fs), d # << >>
  PROVE  IsLine(l, a, S \union {d[1].from}, AfterWord(d[1]), fs)
<1> DEFINE frame == d[1]
           rest == [frame EXCEPT !.from = @ + 1]
<1>1. d \in Seq(Frame) /\ d[1] \in Frame /\ fs \in Seq(Frame)
  BY DEF IsLine
<1>2. /\ IsStretch(frame, a) /\ frame.from \in Nat /\ frame.to \in Nat /\ a \in Nat
      /\ \A i \in DOMAIN fs : frame.to < fs[i].from /\ fs[i].from \in Nat
      /\ \A q \in S : q \in Nat /\ q < frame.from
  BY <1>1, FrameNumbers DEF IsLine, Frame
<1>3. \A i \in DOMAIN fs : frame.from < fs[i].from
  BY <1>2 DEF IsStretch
<1>4. frame.from < a /\ 1 <= frame.from
  BY <1>2 DEF IsStretch
<1>5. CASE frame.from = frame.to
  <2>1. AfterWord(frame) = << >> /\ << >> \in Seq(Frame) /\ Len(<< >>) = 0
    BY <1>5 DEF AfterWord
  <2>2. QED
    BY <1>2, <1>3, <1>4, <2>1 DEF IsLine
<1>6. CASE frame.from # frame.to
  <2>1. AfterWord(frame) = <<rest>>
    BY <1>6 DEF AfterWord
  <2>2. /\ rest \in Frame /\ rest.from = frame.from + 1 /\ rest.to = frame.to
    <3>1. PICK f \in Nat, t \in Nat, e \in BOOLEAN :
              frame = [from |-> f, to |-> t, error |-> e]
      BY <1>1 DEF Frame
    <3>2. rest = [from |-> f + 1, to |-> t, error |-> e]
      BY <3>1
    <3>3. QED
      BY <3>1, <3>2 DEF Frame
  <2>3. /\ <<rest>> \in Seq(Frame) /\ Len(<<rest>>) = 1 /\ (<<rest>>)[1] = rest
        /\ <<rest>> # << >>
    BY <2>2
  <2> HIDE DEF rest
  <2>4. IsStretch(rest, a)
    BY <1>2, <1>6, <2>2 DEF IsStretch
  <2>5. \A q \in S \union {frame.from} : q < rest.from
    BY <1>2, <2>2
  <2>6. QED
    BY <1>2, <1>3, <1>4, <2>1, <2>2, <2>3, <2>4, <2>5 DEF IsLine
<1>7. QED
  BY <1>5, <1>6

LEMMA NextIsLater ==
  ASSUME LineInv, source = "captan"
  PROVE  StartOfNext \in Nat /\ at <= StartOfNext /\ StartOfNext <= Len(Stream) + 1
<1> DEFINE S == {p + 1 : p \in {q \in DOMAIN Stream : q >= at /\ IsEnd(q)}}
                  \union {Len(Stream) + 1}
<1>1. Len(Stream) \in Nat /\ DOMAIN Stream = 1 .. Len(Stream) /\ at \in 1 .. Len(Stream) + 1
  BY StreamIsIndexed DEF LineInv, IsLine
<1>2. S \subseteq at .. Len(Stream) + 1 /\ S # {}
  BY <1>1
<1>3. S \subseteq 0 .. Len(Stream) + 1 /\ Len(Stream) + 1 \in Nat
  BY <1>1, <1>2
<1>4. Min(S) \in S
  <2> HIDE DEF S
  <2> QED
    BY <1>2, <1>3, MinOfPositions
<1>5. StartOfNext = Min(S)
  BY DEF StartOfNext
<1>6. StartOfNext \in at .. Len(Stream) + 1
  BY <1>2, <1>4, <1>5
<1>7. QED
  BY <1>1, <1>6

LEMMA NextFrameIsHere ==
  ASSUME LineInv, source = "captan", at <= Len(Stream), NEW error \in BOOLEAN
  PROVE  /\ NextFrame(error) \in Frame /\ NextFrame(error).from = at
         /\ at <= NextFrame(error).to /\ NextFrame(error).to <= Len(Stream)
         /\ NextFrame(error).to = NextFrame(FALSE).to
<1> DEFINE S == {at + FrameWords - 1, Len(Stream)}
<1>1. Len(Stream) \in Nat /\ at \in Nat /\ FrameWords \in Nat \ {0}
  BY StreamIsIndexed, TakingAssumption DEF LineInv, IsLine
<1>2. S \subseteq Nat /\ \A n \in S : n >= at
  BY <1>1
<1>3. Min(S) \in S /\ Min(S) <= Len(Stream)
  <2>1. \E m \in S : \A n \in S : m <= n
    BY <1>1
  <2>2. Min(S) \in S /\ \A n \in S : Min(S) <= n
    BY <2>1 DEF Min
  <2>3. QED
    BY <2>2
<1>4. NextFrame(error) = [from |-> at, to |-> Min(S), error |-> error]
  BY DEF NextFrame
<1>5. NextFrame(error).to = NextFrame(FALSE).to
  BY DEF NextFrame
<1> HIDE DEF S
<1>6. PICK m : m = Min(S)
  OBVIOUS
<1>7. m \in Nat /\ at <= m /\ m <= Len(Stream)
  BY <1>2, <1>3, <1>6
<1>8. NextFrame(error) = [from |-> at, to |-> m, error |-> error]
  BY <1>4, <1>6
<1>9. NextFrame(error) \in Frame /\ NextFrame(error).from = at /\ NextFrame(error).to = m
  BY <1>1, <1>7, <1>8 DEF Frame
<1>10. QED
  BY <1>5, <1>7, <1>9

LEMMA CaptanKeepsLine ==
  ASSUME LineInv, Captan
  PROVE  LineInv'
<1> DEFINE l == Len(Stream)
<1>1. /\ source = "captan" /\ source' = "captan"
      /\ name \in DOMAIN Streams /\ IsLine(l, at, heard, delivering, frames)
  BY DEF Captan, LineInv
<1>2. ASSUME name' = name, IsLine(l, at', heard', delivering', frames')
      PROVE  LineInv'
  <2>1. Len(Stream)' = l
    BY <1>2 DEF Stream
  <2>2. QED
    BY <1>1, <1>2, <2>1 DEF LineInv
<1> USE DEF senderVars, control, frontEnd, history
<1>3. CASE DoInitialise
  BY <1>1, <1>2, <1>3, LineLeaves DEF DoInitialise
<1>4. CASE RunControl /\ ~DoInitialise
  <2>1. UNCHANGED <<name, at, heard, delivering, frames>>
    BY <1>4 DEF RunControl, DoStartRun, StartEnables, DoStopRun, StopCloses, DoReset, Send
  <2>2. QED
    BY <1>1, <1>2, <2>1
<1>5. CASE FrontEndHears
  <2>1. UNCHANGED <<name, heard, delivering, frames>> /\ (at' = at \/ at' = StartOfNext)
    BY <1>5 DEF FrontEndHears
  <2>2. at \in Nat /\ at <= l + 1
    BY <1>1 DEF IsLine
  <2>3. at' \in Nat /\ at <= at' /\ at' <= l + 1
    BY <1>1, <2>1, <2>2, NextIsLater
  <2>4. QED
    BY <1>1, <1>2, <2>1, <2>3, LineGoesOn
<1>6. CASE CommandIsLost
  BY <1>1, <1>2, <1>6 DEF CommandIsLost
<1>7. CASE FrontEndSends
  <2>1. /\ at <= Len(Stream) /\ at' = NextFrame(FALSE).to + 1
        /\ UNCHANGED <<name, heard, delivering>>
        /\ frames' = frames \/ \E error \in BOOLEAN : frames' = Append(frames, NextFrame(error))
    BY <1>7 DEF FrontEndSends
  <2>2. CASE frames' = frames
    <3>1. PICK m : m = NextFrame(FALSE).to
      OBVIOUS
    <3>2. at \in Nat /\ l \in Nat /\ at <= m /\ m <= l /\ m \in Nat /\ at' = m + 1
      BY <1>1, <2>1, <3>1, NextFrameIsHere DEF Frame, IsLine
    <3>3. at' \in Nat /\ at <= at' /\ at' <= l + 1
      BY <3>2
    <3>4. QED
      BY <1>1, <1>2, <2>1, <2>2, <3>3, LineGoesOn
  <2>3. ASSUME NEW error \in BOOLEAN, frames' = Append(frames, NextFrame(error))
        PROVE  LineInv'
    <3>1. /\ NextFrame(error) \in Frame /\ NextFrame(error).from = at
          /\ at <= NextFrame(error).to /\ NextFrame(error).to <= Len(Stream)
          /\ at' = NextFrame(error).to + 1
      BY <1>1, <2>1, NextFrameIsHere
    <3>2. IsLine(l, at', heard, delivering, frames')
      BY <1>1, <2>3, <3>1, LineGrows
    <3>3. QED
      BY <1>2, <2>1, <3>2
  <2>4. QED
    BY <2>1, <2>2, <2>3
<1>8. CASE WriteFrame
  <2>1. /\ delivering = << >> /\ frames # << >> /\ frames' = Tail(frames)
        /\ delivering' = <<frames[1]>> /\ UNCHANGED <<name, heard, at>>
    BY <1>8 DEF WriteFrame
  <2>2. IsLine(l, at, heard, delivering', frames')
    BY <1>1, <2>1, LineDelivers
  <2>3. QED
    BY <1>2, <2>1, <2>2
<1>9. CASE TakeWord
  <2>1. /\ delivering # << >> /\ delivering' = AfterWord(delivering[1])
        /\ heard' = heard \union {delivering[1].from}
        /\ UNCHANGED <<name, at, frames>>
    BY <1>9 DEF TakeWord, takeWord
  <2>2. IsLine(l, at, heard', delivering', frames)
    BY <1>1, <2>1, LineGives
  <2>3. QED
    BY <1>2, <2>1, <2>2
<1>10. CASE DropFrame
  BY <1>1, <1>2, <1>10, LineLeaves DEF DropFrame
<1>11. QED
  BY <1>3, <1>4, <1>5, <1>6, <1>7, <1>8, <1>9, <1>10 DEF Captan, FrontEnd, UdpClient

LEMMA StepsKeepLine ==
  ASSUME LineInv, [Next]_vars
  PROVE  LineInv'
<1> USE DEF captanVars, senderVars, control, frontEnd, history
<1>1. CASE Captan
  BY <1>1, CaptanKeepsLine
<1>2. CASE Play
  BY <1>2 DEF Play, LineInv
<1>3. CASE UNCHANGED <<source, name, at, heard, delivering, frames>>
  BY <1>3 DEF LineInv, Stream
<1>4. CASE Configure
  <2>1. CASE source = "captan"
    BY <1>3, <1>4, <2>1 DEF Configure, DoConfigure
  <2>2. CASE source # "captan"
    BY <1>4, <2>2 DEF Configure, LineInv
  <2>3. QED
    BY <2>1, <2>2
<1>5. CASE Monitor
  BY <1>3, <1>5 DEF Monitor
<1>6. CASE UNCHANGED vars
  BY <1>3, <1>6 DEF vars
<1>7. QED
  BY <1>1, <1>2, <1>4, <1>5, <1>6 DEF Next

LEMMA StartsInLine == Init => LineInv
<1> SUFFICES ASSUME Init, source = "captan" PROVE LineInv
  BY DEF LineInv
<1>1. /\ name \in DOMAIN Streams /\ at = 1 /\ heard = {} /\ delivering = << >>
      /\ frames = << >>
  BY DEF Init, CaptanInit, SenderInit
<1>2. Len(Stream) \in Nat
  BY <1>1, StreamIsIndexed
<1>3. << >> \in Seq(Frame) /\ Len(<< >>) = 0 /\ DOMAIN << >> = {}
  OBVIOUS
<1>4. IsLine(Len(Stream), at, heard, delivering, frames)
  BY <1>1, <1>2, <1>3 DEF IsLine
<1>5. QED
  BY <1>1, <1>4 DEF LineInv

(* The pieces.  A word after all others changes no piece that has ended,   *)
(* and comes to the one that has not, which it ends if it is an end.       *)
LEMMA PiecesStay ==
  ASSUME NEW S \in SUBSET Nat, NEW D \in SUBSET S, NEW w \in Nat,
         \A q \in S : q < w, NEW e \in D
  PROVE  /\ Piece(S \union {w}, D, e) = Piece(S, D, e)
         /\ Piece(S \union {w}, D \union {w}, e) = Piece(S, D, e)
BY DEF Piece

LEMMA PieceEnds ==
  ASSUME NEW S \in SUBSET Nat, NEW D \in SUBSET S, NEW w \in Nat, NEW m \in Nat,
         \A q \in S : q < w, w < m
  PROVE  Piece(S \union {w}, D \union {w}, w) = Piece(S, D, m)
<1>1. \A q \in S \union {w} : q \in Nat /\ q < m /\ (q < w <=> q \in S) /\ (w < q <=> FALSE)
  OBVIOUS
<1>2. \A d \in D : d \in S
  OBVIOUS
<1>3. Piece(S \union {w}, D \union {w}, w) = {q \in S : \A d \in D : d < q}
  BY <1>1, <1>2 DEF Piece
<1>4. Piece(S, D, m) = {q \in S : \A d \in D : d < q}
  BY <1>1, <1>2 DEF Piece
<1>5. QED
  BY <1>3, <1>4

LEMMA PieceIsEmpty ==
  ASSUME NEW S \in SUBSET Nat, NEW D \in SUBSET S, NEW w \in Nat, NEW m \in Nat,
         \A q \in S : q < w, w < m
  PROVE  Piece(S \union {w}, D \union {w}, m) = {}
<1>1. \A q \in S \union {w} : ~(w < q)
  OBVIOUS
<1>2. QED
  BY <1>1 DEF Piece

LEMMA PieceGrows ==
  ASSUME NEW S \in SUBSET Nat, NEW D \in SUBSET S, NEW w \in Nat, NEW m \in Nat,
         \A q \in S : q < w, w < m
  PROVE  Piece(S \union {w}, D, m) = Piece(S, D, m) \union {w}
<1>1. \A q \in S \union {w} : q < m
  OBVIOUS
<1>2. \A d \in D : d < w
  OBVIOUS
<1>3. QED
  BY <1>1, <1>2 DEF Piece

LEMMA RisingNumbers ==
  ASSUME NEW words \in Seq(Nat), Rising(words)
  PROVE  /\ \A i \in DOMAIN words : words[i] \in Nat
         /\ \A i, j \in DOMAIN words : i < j => words[j] - words[i] >= j - i
         /\ IsFiniteSet(ToSet(words)) /\ Cardinality(ToSet(words)) = Len(words)
<1> DEFINE n == Len(words)
<1>1. n \in Nat /\ DOMAIN words = 1 .. n /\ \A i \in 1 .. n : words[i] \in Nat
  OBVIOUS
<1>2. \A i, j \in 1 .. n : i < j => i \in 1 .. j - 1
  BY <1>1
<1>3. \A i, j \in 1 .. n : i < j => words[j] - words[i] >= j - i
  BY <1>1, <1>2 DEF Rising
<1>4. \A i, j \in 1 .. n : words[i] = words[j] => i = j
  <2>1. \A i, j \in 1 .. n : i < j => words[i] # words[j]
    BY <1>1, <1>3
  <2>2. \A i, j \in 1 .. n : i = j \/ i < j \/ j < i
    BY <1>1
  <2>3. QED
    BY <2>1, <2>2
<1>5. words \in Bijection(1 .. n, ToSet(words))
  <2>1. words \in [1 .. n -> ToSet(words)]
    BY <1>1 DEF ToSet
  <2>2. words \in Injection(1 .. n, ToSet(words))
    BY <1>1, <1>4, <2>1 DEF Injection, IsInjective
  <2>3. words \in Surjection(1 .. n, ToSet(words))
    BY <1>1, <2>1 DEF Surjection, ToSet
  <2>4. QED
    BY <2>2, <2>3 DEF Bijection
<1>6. IsFiniteSet(1 .. n) /\ Cardinality(1 .. n) = n
  BY <1>1, FS_Interval
<1>7. IsFiniteSet(ToSet(words)) /\ Cardinality(ToSet(words)) = n
  BY <1>5, <1>6, FS_Bijection DEF ExistsBijection
<1>8. QED
  BY <1>1, <1>3, <1>7

LEMMA RisingGrows ==
  ASSUME NEW words \in Seq(Nat), Rising(words), NEW w \in Nat,
         \A q \in ToSet(words) : q < w
  PROVE  /\ Append(words, w) \in Seq(Nat) /\ Rising(Append(words, w))
         /\ ToSet(Append(words, w)) = ToSet(words) \union {w}
<1> DEFINE n == Len(words)
           more == Append(words, w)
<1>1. /\ n \in Nat /\ DOMAIN words = 1 .. n
      /\ \A i \in 1 .. n : words[i] \in Nat /\ words[i] < w
  BY DEF ToSet
<1>2. /\ more \in Seq(Nat) /\ DOMAIN more = 1 .. n + 1
      /\ \A i \in 1 .. n : more[i] = words[i]
      /\ more[n + 1] = w
  BY <1>1
<1>3. \A i, j \in 1 .. n : i < j => words[j] - words[i] >= j - i
  BY <1>1, RisingNumbers
<1> HIDE DEF n, more
<1>4. ASSUME NEW j \in 1 .. n + 1, NEW i \in 1 .. j - 1
      PROVE  more[j] - more[i] >= j - i
  <2>1. i \in 1 .. n /\ i < j /\ more[i] = words[i]
    BY <1>1, <1>2
  <2>2. CASE j \in 1 .. n
    BY <1>2, <1>3, <2>1, <2>2
  <2>3. CASE j = n + 1
    <3>1. CASE i = n
      BY <1>1, <1>2, <2>1, <2>3, <3>1
    <3>2. CASE i < n
      <4>1. n \in 1 .. n
        BY <1>1, <2>1
      <4>2. words[n] - words[i] >= n - i /\ words[n] < w /\ words[n] \in Nat /\ words[i] \in Nat
        BY <1>1, <1>3, <2>1, <3>2, <4>1
      <4>3. more[j] = w
        BY <1>2, <2>3
      <4>4. QED
        BY <1>1, <2>1, <2>3, <4>2, <4>3
    <3>3. QED
      BY <1>1, <2>1, <3>1, <3>2
  <2>4. QED
    BY <1>1, <2>2, <2>3
<1>5. Rising(more)
  BY <1>2, <1>4 DEF Rising
<1>6. ToSet(more) = ToSet(words) \union {w}
  <2>1. 1 .. n + 1 = 1 .. n \union {n + 1}
    BY <1>1
  <2>2. QED
    BY <1>1, <1>2, <2>1 DEF ToSet
<1>7. QED
  BY <1>2, <1>5, <1>6 DEF more

(* A word is taken: what the buffer is after it, and which events.         *)
LEMMA BufferGrows ==
  ASSUME NEW l \in Nat, NEW S \in SUBSET Nat, NEW D \in SUBSET S, NEW words,
         IsBuffer(l, S, D, words), NEW w \in Nat, w <= l, \A q \in S : q < w
  PROVE  IsBuffer(l, S \union {w}, D, Append(words, w))
<1>1. words \in Seq(Nat) /\ Rising(words) /\ ToSet(words) = Piece(S, D, l + 1)
  BY DEF IsBuffer
<1>2. \A q \in ToSet(words) : q < w
  BY <1>1 DEF Piece
<1>3. Piece(S \union {w}, D, l + 1) = ToSet(words) \union {w}
  <2>1. PICK m \in Nat : m = l + 1
    OBVIOUS
  <2>2. w < m
    BY <2>1
  <2>3. Piece(S \union {w}, D, m) = Piece(S, D, m) \union {w}
    BY <2>2, PieceGrows
  <2>4. QED
    BY <1>1, <2>1, <2>3
<1>4. QED
  BY <1>1, <1>2, <1>3, RisingGrows DEF IsBuffer

LEMMA BufferEmpties ==
  ASSUME NEW l \in Nat, NEW S \in SUBSET Nat, NEW D \in SUBSET S,
         NEW w \in Nat, w <= l, \A q \in S : q < w
  PROVE  IsBuffer(l, S \union {w}, D \union {w}, << >>)
<1>1. << >> \in Seq(Nat) /\ Rising(<< >>) /\ ToSet(<< >>) = {}
  BY DEF Rising, ToSet
<1>2. PICK m \in Nat : m = l + 1
  OBVIOUS
<1>3. w < m
  BY <1>2
<1>4. Piece(S \union {w}, D \union {w}, m) = {}
  BY <1>3, PieceIsEmpty
<1>5. QED
  BY <1>1, <1>2, <1>4 DEF IsBuffer

LEMMA EventsStay ==
  ASSUME NEW S \in SUBSET Nat, NEW D \in SUBSET S, NEW events,
         AreEvents(S, D, events), NEW w \in Nat, \A q \in S : q < w
  PROVE  AreEvents(S \union {w}, D, events)
<1>1. \A e \in D : Piece(S \union {w}, D, e) = Piece(S, D, e)
  BY PiecesStay
<1>2. QED
  BY <1>1 DEF AreEvents

LEMMA EventsGrow ==
  ASSUME NEW l \in Nat, NEW S \in SUBSET Nat, NEW D \in SUBSET S, NEW words, NEW events,
         IsBuffer(l, S, D, words), AreEvents(S, D, events),
         NEW w \in Nat, w <= l, \A q \in S : q < w, NEW run \in Nat
  PROVE  AreEvents(S \union {w}, D \union {w},
                   IF Len(words) > MinWords THEN Append(events, [words |-> words, run |-> run])
                                            ELSE events)
<1> DEFINE T == S \union {w}
           C == D \union {w}
           Event == [words : Seq(Nat), run : Nat]
<1>1. /\ words \in Seq(Nat) /\ Rising(words) /\ ToSet(words) = Piece(S, D, l + 1)
      /\ Cardinality(ToSet(words)) = Len(words)
  BY RisingNumbers DEF IsBuffer
<1>2. \A e \in D : Piece(T, C, e) = Piece(S, D, e)
  BY PiecesStay
<1>3. Piece(T, C, w) = ToSet(words)
  <2>1. PICK m \in Nat : m = l + 1
    OBVIOUS
  <2>2. w < m
    BY <2>1
  <2>3. Piece(S \union {w}, D \union {w}, w) = Piece(S, D, m)
    BY <2>2, PieceEnds
  <2>4. QED
    BY <1>1, <2>1, <2>3
<1>4. /\ events \in Seq(Event)
      /\ \A k \in DOMAIN events :
           /\ Rising(events[k].words) /\ Len(events[k].words) > MinWords
           /\ \E e \in D : ToSet(events[k].words) = Piece(S, D, e)
           /\ \A j \in 1 .. k - 1 : Last(events[j].words) < Head(events[k].words)
      /\ \A e \in D : Cardinality(Piece(S, D, e)) > MinWords =>
           \E k \in DOMAIN events : ToSet(events[k].words) = Piece(S, D, e)
  BY DEF AreEvents
<1> HIDE DEF T, C, Event
<1>5. D \subseteq C /\ \A e \in C : e \in D \/ e = w
  BY DEF C
<1>6. \A k \in DOMAIN events : \E e \in C : ToSet(events[k].words) = Piece(T, C, e)
  BY <1>2, <1>4, <1>5
<1>7. CASE ~(Len(words) > MinWords)
  <2>1. AreEvents(T, C, events)
    <3>1. \A e \in C : Cardinality(Piece(T, C, e)) > MinWords =>
             \E k \in DOMAIN events : ToSet(events[k].words) = Piece(T, C, e)
      BY <1>1, <1>2, <1>3, <1>4, <1>5, <1>7
    <3>2. QED
      BY <1>4, <1>6, <3>1 DEF AreEvents
  <2>2. QED
    BY <1>7, <2>1 DEF T, C
<1>8. CASE Len(words) > MinWords
  <2> DEFINE event == [words |-> words, run |-> run]
             n == Len(events)
             more == Append(events, event)
  <2>1. event \in Event /\ event.words = words
    BY <1>1 DEF Event
  <2> HIDE DEF event
  <2>2. /\ n \in Nat /\ DOMAIN events = 1 .. n
        /\ more \in Seq(Event) /\ DOMAIN more = 1 .. n + 1
        /\ \A k \in 1 .. n : more[k] = events[k]
        /\ more[n + 1] = event
    BY <1>4, <2>1
  <2>3. \A k \in 1 .. n : events[k].words \in Seq(Nat)
    <3>1. \A k \in 1 .. n : events[k] \in Event
      BY <1>4, <2>2
    <3>2. \A x \in Event : x.words \in Seq(Nat)
      BY DEF Event
    <3>3. QED
      BY <3>1, <3>2
  <2> HIDE DEF n, more, Event
  <2>4. ASSUME NEW j \in 1 .. n PROVE Last(events[j].words) < Head(words)
    <3>1. PICK e \in D : ToSet(events[j].words) = Piece(S, D, e)
      BY <1>4, <2>2
    <3>2. Len(events[j].words) > MinWords /\ MinWords \in Nat
      BY <1>4, <2>2, TakingAssumption
    <3>3. Last(events[j].words) \in ToSet(events[j].words)
      BY <2>3, <3>2 DEF Last, ToSet
    <3>4. Head(words) \in ToSet(words)
      BY <1>1, <1>8, <3>2 DEF ToSet
    <3>5. Last(events[j].words) < e
      BY <3>1, <3>3 DEF Piece
    <3>6. e \in Nat /\ e < l + 1
      OBVIOUS
    <3>7. e < Head(words)
      BY <1>1, <3>4, <3>6 DEF Piece
    <3>8. Last(events[j].words) \in Nat /\ Head(words) \in Nat
      BY <1>1, <3>1, <3>3, <3>4 DEF Piece
    <3>9. QED
      BY <3>5, <3>6, <3>7, <3>8
  <2>5. ASSUME NEW k \in 1 .. n + 1
        PROVE  /\ Rising(more[k].words) /\ Len(more[k].words) > MinWords
               /\ \E e \in C : ToSet(more[k].words) = Piece(T, C, e)
               /\ \A j \in 1 .. k - 1 : Last(more[j].words) < Head(more[k].words)
    <3>1. \A j \in 1 .. k - 1 : j \in 1 .. n /\ more[j] = events[j]
      BY <2>2
    <3>2. CASE k \in 1 .. n
      BY <1>4, <1>6, <2>2, <3>1, <3>2
    <3>3. CASE k = n + 1
      <4>1. more[k].words = words
        BY <2>1, <2>2, <3>3
      <4>2. w \in C
        BY DEF C
      <4>3. QED
        BY <1>1, <1>3, <1>8, <2>4, <3>1, <4>1, <4>2
    <3>4. QED
      BY <2>2, <3>2, <3>3
  <2>6. ASSUME NEW e \in C, Cardinality(Piece(T, C, e)) > MinWords
        PROVE  \E k \in 1 .. n + 1 : ToSet(more[k].words) = Piece(T, C, e)
    <3>1. CASE e \in D
      <4>1. PICK k \in 1 .. n : ToSet(events[k].words) = Piece(T, C, e)
        BY <1>2, <1>4, <2>2, <2>6, <3>1
      <4>2. k \in 1 .. n + 1 /\ more[k] = events[k]
        BY <2>2
      <4>3. QED
        BY <4>1, <4>2
    <3>2. CASE e = w
      <4>1. n + 1 \in 1 .. n + 1 /\ more[n + 1].words = words
        BY <2>1, <2>2
      <4>2. QED
        BY <1>3, <3>2, <4>1
    <3>3. QED
      BY <1>5, <3>1, <3>2
  <2>7. AreEvents(T, C, more)
    BY <2>2, <2>5, <2>6 DEF AreEvents, Event
  <2>8. QED
    BY <1>8, <2>7 DEF T, C, more, event
<1>9. QED
  BY <1>7, <1>8

(* A word that is taken comes after all that have been.                    *)
LEMMA WordComesLater ==
  ASSUME LineInv, source = "captan", delivering # << >>
  PROVE  LET w == delivering[1].from
         IN  /\ Len(Stream) \in Nat /\ heard \in SUBSET Nat
             /\ w \in Nat /\ 1 <= w /\ w <= Len(Stream) /\ \A q \in heard : q < w
<1> DEFINE l == Len(Stream)
           w == delivering[1].from
<1>1. IsLine(l, at, heard, delivering, frames)
  BY DEF LineInv
<1>2. /\ l \in Nat /\ at \in Nat /\ at <= l + 1 /\ delivering[1] \in Frame
      /\ 1 <= w /\ w <= delivering[1].to /\ delivering[1].to < at
      /\ \A q \in heard : q \in Nat /\ q < w
  BY <1>1 DEF IsLine, IsStretch
<1>3. w \in Nat /\ delivering[1].to \in Nat
  BY <1>2 DEF Frame
<1> HIDE DEF l
<1>4. w <= l
  BY <1>2, <1>3
<1>5. QED
  BY <1>2, <1>3, <1>4 DEF l

LEMMA TakeWordKeepsPieces ==
  ASSUME LineInv, PiecesInv, source = "captan", run_number \in Nat, TakeWord
  PROVE  /\ IsBuffer(Len(Stream), heard', HeardEnds', buffer')
         /\ AreEvents(heard', HeardEnds', sent')
<1> DEFINE l == Len(Stream)
           w == delivering[1].from
           D == HeardEnds
<1>1. /\ l \in Nat /\ heard \in SUBSET Nat
      /\ w \in Nat /\ 1 <= w /\ w <= l /\ \A q \in heard : q < w
  BY WordComesLater DEF TakeWord
<1>2. D \in SUBSET heard
  BY DEF HeardEnds
<1>3. IsBuffer(l, heard, D, buffer) /\ AreEvents(heard, D, sent)
  BY DEF PiecesInv
<1>4. name' = name /\ heard' = heard \union {w}
  BY DEF TakeWord, takeWord
<1>5. HeardEnds' = D \union {q \in {w} : IsEnd(q)}
  BY <1>4 DEF HeardEnds, IsEnd, Stream
<1> HIDE DEF l, D
<1>6. CASE IsEnd(w)
  <2>1. /\ buffer' = << >>
        /\ sent' = IF Len(buffer) > MinWords
                     THEN Append(sent, [words |-> buffer, run |-> run_number]) ELSE sent
    BY <1>6 DEF TakeWord, takeWord, Cleared
  <2>2. HeardEnds' = D \union {w}
    BY <1>5, <1>6
  <2>3. IsBuffer(l, heard', HeardEnds', buffer')
    BY <1>1, <1>2, <1>4, <2>1, <2>2, BufferEmpties
  <2>4. AreEvents(heard', HeardEnds', sent')
    BY <1>1, <1>2, <1>3, <1>4, <2>1, <2>2, EventsGrow
  <2>5. QED
    BY <2>3, <2>4 DEF l
<1>7. CASE ~IsEnd(w)
  <2>1. buffer' = Append(buffer, w) /\ sent' = sent
    BY <1>7 DEF TakeWord, takeWord
  <2>2. HeardEnds' = D
    BY <1>5, <1>7
  <2>3. IsBuffer(l, heard', HeardEnds', buffer')
    BY <1>1, <1>2, <1>3, <1>4, <2>1, <2>2, BufferGrows
  <2>4. AreEvents(heard', HeardEnds', sent')
    BY <1>1, <1>2, <1>3, <1>4, <2>1, <2>2, EventsStay
  <2>5. QED
    BY <2>3, <2>4 DEF l
<1>8. QED
  BY <1>6, <1>7

LEMMA StepsKeepPieces ==
  ASSUME LineInv, PiecesInv, source = "captan" => run_number \in Nat, [Next]_vars
  PROVE  PiecesInv'
<1> USE DEF captanVars, senderVars, control, frontEnd, history
<1>1. CASE UNCHANGED <<source, name, heard, buffer, sent>>
  BY <1>1 DEF PiecesInv, HeardEnds, IsEnd, Stream
<1>2. CASE Captan /\ ~TakeWord
  BY <1>1, <1>2
     DEF Captan, RunControl, DoInitialise, DoStartRun, StartEnables, DoStopRun, StopCloses,
         DoReset, Send, FrontEnd, FrontEndHears, CommandIsLost, FrontEndSends, Lose,
         UdpClient, WriteFrame, DropFrame
<1>3. CASE Captan /\ TakeWord
  <2>1. source = "captan" /\ source' = "captan" /\ name' = name
    BY <1>3 DEF Captan, TakeWord, takeWord
  <2>2. Len(Stream)' = Len(Stream)
    BY <2>1 DEF Stream
  <2>3. QED
    BY <1>3, <2>1, <2>2, TakeWordKeepsPieces DEF PiecesInv
<1>4. CASE Play
  BY <1>4 DEF Play, PiecesInv
<1>5. CASE Configure
  <2>1. CASE source = "captan"
    BY <1>1, <1>5, <2>1 DEF Configure, DoConfigure
  <2>2. CASE source # "captan"
    BY <1>5, <2>2 DEF Configure, PiecesInv
  <2>3. QED
    BY <2>1, <2>2
<1>6. CASE Monitor
  BY <1>1, <1>6 DEF Monitor
<1>7. CASE UNCHANGED vars
  BY <1>1, <1>7 DEF vars
<1>8. QED
  BY <1>2, <1>3, <1>4, <1>5, <1>6, <1>7 DEF Next

LEMMA StartsInPieces == Init => PiecesInv
<1> SUFFICES ASSUME Init PROVE PiecesInv
  OBVIOUS
<1>1. heard = {} /\ buffer = << >> /\ sent = << >>
  BY DEF Init, CaptanInit, SenderInit
<1>2. HeardEnds = {} /\ \A e : Piece({}, {}, e) = {}
  BY <1>1 DEF HeardEnds, Piece
<1>3. /\ << >> \in Seq(Nat) /\ << >> \in Seq([words : Seq(Nat), run : Nat])
      /\ DOMAIN << >> = {} /\ Rising(<< >>) /\ ToSet(<< >>) = {}
  BY DEF Rising, ToSet
<1>4. QED
  BY <1>1, <1>2, <1>3 DEF PiecesInv, IsBuffer, AreEvents

(* Words that rise, as many as there are from a to b and all of these, are *)
(* just these.                                                             *)
LEMMA RisingThroughInterval ==
  ASSUME NEW words \in Seq(Nat), Rising(words), NEW a \in Nat, NEW b \in Nat, a < b,
         ToSet(words) = a .. b - 1
  PROVE  words = [i \in 1 .. b - a |-> a + i - 1]
<1> DEFINE n == Len(words)
<1>1. /\ n \in Nat /\ DOMAIN words = 1 .. n /\ words = [i \in 1 .. n |-> words[i]]
      /\ \A i \in 1 .. n : words[i] \in a .. b - 1
  BY DEF ToSet
<1>2. \A i, j \in 1 .. n : i < j => words[j] - words[i] >= j - i
  BY <1>1, RisingNumbers
<1>3. Cardinality(a .. b - 1) = b - a
  <2>1. a \in Int /\ b - 1 \in Int /\ ~(a > b - 1) /\ (b - 1) - a + 1 = b - a
    OBVIOUS
  <2>2. QED
    BY <2>1, FS_Interval
<1>4. n = b - a
  BY <1>3, RisingNumbers
<1> HIDE DEF n
<1>5. ASSUME NEW i \in 1 .. n PROVE words[i] = a + i - 1
  <2>1. /\ 1 \in 1 .. n /\ n \in 1 .. n /\ n \in Nat /\ i \in Nat /\ 1 <= i /\ i <= n
    BY <1>1
  <2>2. PICK f, x, g : f = words[1] /\ x = words[i] /\ g = words[n]
    OBVIOUS
  <2>3. /\ f \in Nat /\ x \in Nat /\ g \in Nat /\ a <= f /\ g <= b - 1
    BY <1>1, <2>1, <2>2
  <2>4. i = 1 \/ x - f >= i - 1
    BY <1>2, <2>1, <2>2
  <2>5. i = n \/ g - x >= n - i
    BY <1>2, <2>1, <2>2
  <2>6. i = 1 => x = f
    BY <2>2
  <2>7. i = n => x = g
    BY <2>2
  <2>8. x >= a + i - 1
    BY <2>1, <2>3, <2>4, <2>6
  <2>9. x <= a + i - 1
    BY <1>4, <2>1, <2>3, <2>5, <2>7
  <2>10. QED
    BY <2>1, <2>2, <2>3, <2>8, <2>9
<1>6. QED
  BY <1>1, <1>4, <1>5

(* The start of an event and its end, with no end between them.            *)
LEMMA EndIsNext ==
  ASSUME name \in DOMAIN Streams, NEW p \in EventStarts
  PROVE  /\ p \in Nat /\ 1 <= p /\ EndOf(p) \in Nat /\ p < EndOf(p) /\ IsEnd(EndOf(p))
         /\ p = 1 \/ IsEnd(p - 1)
         /\ \A q \in p .. EndOf(p) - 1 : ~IsEnd(q)
<1> DEFINE S == {q \in DOMAIN Stream : q > p /\ IsEnd(q)}
<1>1. Len(Stream) \in Nat /\ DOMAIN Stream = 1 .. Len(Stream)
  BY StreamIsIndexed
<1>2. /\ p \in 1 .. Len(Stream) /\ ~IsEnd(p) /\ (p = 1 \/ IsEnd(p - 1))
      /\ S # {}
  BY <1>1 DEF EventStarts
<1>3. S \in SUBSET (0 .. Len(Stream))
  BY <1>1
<1>4. Min(S) \in S /\ \A j \in S : Min(S) <= j
  <2> HIDE DEF S
  <2> QED
    BY <1>1, <1>2, <1>3, MinOfPositions
<1>5. PICK e : e = Min(S)
  OBVIOUS
<1>6. EndOf(p) = e
  BY <1>5 DEF EndOf
<1>7. /\ e \in 1 .. Len(Stream) /\ e > p /\ IsEnd(e) /\ \A j \in S : e <= j
  BY <1>1, <1>4, <1>5
<1>8. ASSUME NEW q \in p .. e - 1, IsEnd(q) PROVE FALSE
  <2>1. q # p
    BY <1>2, <1>8
  <2>2. q \in 1 .. Len(Stream) /\ q > p /\ q < e
    BY <1>1, <1>2, <1>7, <2>1
  <2>3. q \in S
    BY <1>1, <1>8, <2>2
  <2>4. QED
    BY <1>1, <1>7, <2>2, <2>3
<1>9. QED
  BY <1>1, <1>2, <1>6, <1>7, <1>8

(* An event that arrives whole, between the end of the one before and its  *)
(* own, is a piece.                                                        *)
LEMMA WholeIsPiece ==
  ASSUME LineInv, source = "captan", NEW p \in EventStarts, ComesWhole(p)
  PROVE  EndOf(p) \in HeardEnds /\ Piece(heard, HeardEnds, EndOf(p)) = p .. EndOf(p) - 1
<1>1. PICK e : e = EndOf(p)
  OBVIOUS
<1>2. name \in DOMAIN Streams /\ \A q \in heard : q \in Nat /\ 1 <= q
  BY DEF LineInv, IsLine
<1>3. /\ p \in Nat /\ 1 <= p /\ e \in Nat /\ p < e /\ IsEnd(e)
      /\ p = 1 \/ IsEnd(p - 1)
      /\ \A q \in p .. e - 1 : ~IsEnd(q)
  BY <1>1, <1>2, EndIsNext
<1>4. (IF p = 1 THEN p ELSE p - 1) .. e \subseteq heard
  BY <1>1 DEF ComesWhole
<1>5. p .. e \subseteq heard /\ (p # 1 => p - 1 \in heard)
  <2>1. (IF p = 1 THEN p ELSE p - 1) \in Int /\ (IF p = 1 THEN p ELSE p - 1) <= p
    BY <1>3
  <2>2. p .. e \subseteq (IF p = 1 THEN p ELSE p - 1) .. e
    BY <1>3, <2>1
  <2>3. p # 1 => p - 1 \in (IF p = 1 THEN p ELSE p - 1) .. e
    BY <1>3
  <2>4. QED
    BY <1>4, <2>2, <2>3
<1>6. e \in HeardEnds
  BY <1>3, <1>5 DEF HeardEnds
<1>7. p = 1 \/ p - 1 \in HeardEnds
  BY <1>3, <1>5 DEF HeardEnds
<1>8. ASSUME NEW q \in Piece(heard, HeardEnds, e) PROVE q \in p .. e - 1
  <2>1. q \in Nat /\ 1 <= q /\ q < e /\ \A d \in HeardEnds : d < e => d < q
    BY <1>2 DEF Piece
  <2>2. p = 1 \/ p - 1 < q
    BY <1>3, <1>7, <2>1
  <2>3. QED
    BY <1>3, <2>1, <2>2
<1>9. ASSUME NEW q \in p .. e - 1 PROVE q \in Piece(heard, HeardEnds, e)
  <2>1. q \in Nat /\ p <= q /\ q < e /\ q \in heard
    BY <1>3, <1>5
  <2>2. ASSUME NEW d \in HeardEnds, d < e PROVE d < q
    <3>1. d \in Nat /\ IsEnd(d)
      BY <1>2 DEF HeardEnds
    <3>2. ~(p <= d)
      BY <1>3, <2>2, <3>1
    <3>3. QED
      BY <1>3, <2>1, <3>1, <3>2
  <2>3. QED
    BY <2>1, <2>2 DEF Piece
<1>10. QED
  BY <1>1, <1>6, <1>8, <1>9

LEMMA PiecesAreLocal ==
  ASSUME LineInv, PiecesInv
  PROVE  DamageIsLocal
<1> SUFFICES ASSUME source = "captan"
             PROVE  /\ \A p \in EventStarts : ComesWhole(p) /\ EndOf(p) - p > MinWords =>
                         Cardinality({k \in DOMAIN sent : sent[k].words = WordsFrom(p)}) = 1
                    /\ \A k \in DOMAIN sent :
                         \A q \in Head(sent[k].words) .. Last(sent[k].words) :
                           IsEnd(q) => q \notin heard
  BY DEF DamageIsLocal
<1> DEFINE D == HeardEnds
<1>1. AreEvents(heard, D, sent)
  BY DEF PiecesInv
<1>2. \A q \in heard : q \in Nat /\ 1 <= q
  BY DEF LineInv, IsLine
<1>3. /\ sent \in Seq([words : Seq(Nat), run : Nat])
      /\ \A k \in DOMAIN sent :
           /\ Rising(sent[k].words) /\ Len(sent[k].words) > MinWords
           /\ \E e \in D : ToSet(sent[k].words) = Piece(heard, D, e)
           /\ \A j \in 1 .. k - 1 : Last(sent[j].words) < Head(sent[k].words)
      /\ \A e \in D : Cardinality(Piece(heard, D, e)) > MinWords =>
           \E k \in DOMAIN sent : ToSet(sent[k].words) = Piece(heard, D, e)
  BY <1>1 DEF AreEvents
<1>4. Len(sent) \in Nat /\ DOMAIN sent = 1 .. Len(sent)
  BY <1>3
<1>5. ASSUME NEW k \in DOMAIN sent
      PROVE  /\ sent[k].words \in Seq(Nat)
             /\ Head(sent[k].words) \in ToSet(sent[k].words)
             /\ Last(sent[k].words) \in ToSet(sent[k].words)
  <2>1. sent[k].words \in Seq(Nat)
    <3> DEFINE Event == [words : Seq(Nat), run : Nat]
    <3>1. sent \in Seq(Event)
      BY <1>3
    <3>2. \A event \in Event : event.words \in Seq(Nat)
      OBVIOUS
    <3> HIDE DEF Event
    <3>3. sent[k] \in Event
      BY <3>1
    <3>4. QED
      BY <3>2, <3>3
  <2>2. PICK s \in Seq(Nat) : s = sent[k].words
    BY <2>1
  <2>3. Len(s) \in Nat /\ Len(s) > 0 /\ DOMAIN s = 1 .. Len(s)
    <3>1. Len(s) > MinWords
      BY <1>3, <2>2
    <3>2. Len(s) \in Nat /\ DOMAIN s = 1 .. Len(s)
      OBVIOUS
    <3>3. QED
      BY <3>1, <3>2, TakingAssumption
  <2>4. 1 \in DOMAIN s /\ Len(s) \in DOMAIN s /\ Head(s) = s[1]
    BY <2>3
  <2>5. QED
    BY <2>2, <2>4 DEF ToSet, Last
<1> HIDE DEF D
<1>6. ASSUME NEW k \in DOMAIN sent,
             NEW q \in Head(sent[k].words) .. Last(sent[k].words), IsEnd(q), q \in heard
      PROVE  FALSE
  <2>1. PICK e \in D : ToSet(sent[k].words) = Piece(heard, D, e)
    BY <1>3
  <2>2. PICK f, g : f = Head(sent[k].words) /\ g = Last(sent[k].words)
    OBVIOUS
  <2>3. f \in Piece(heard, D, e) /\ g \in Piece(heard, D, e)
    BY <1>5, <2>1, <2>2
  <2>4. /\ f \in Nat /\ g \in Nat /\ g < e /\ e \in Nat
        /\ \A d \in D : d < e => d < f
    BY <1>2, <2>3 DEF Piece, D, HeardEnds
  <2>5. q \in D /\ q \in Nat /\ f <= q /\ q <= g
    BY <1>2, <1>6, <2>2, <2>4 DEF D, HeardEnds
  <2>6. QED
    BY <2>4, <2>5
<1>7. ASSUME NEW p \in EventStarts, ComesWhole(p), EndOf(p) - p > MinWords
      PROVE  Cardinality({k \in DOMAIN sent : sent[k].words = WordsFrom(p)}) = 1
  <2>1. PICK e : e = EndOf(p)
    OBVIOUS
  <2>2. p \in Nat /\ 1 <= p /\ e \in Nat /\ p < e
    BY <2>1, EndIsNext DEF LineInv
  <2>3. e \in D /\ Piece(heard, D, e) = p .. e - 1
    BY <1>7, <2>1, WholeIsPiece DEF D
  <2>4. Cardinality(p .. e - 1) = e - p
    <3>1. p \in Int /\ e - 1 \in Int /\ ~(p > e - 1) /\ (e - 1) - p + 1 = e - p
      BY <2>2
    <3>2. QED
      BY <3>1, FS_Interval
  <2>5. PICK k \in DOMAIN sent : ToSet(sent[k].words) = p .. e - 1
    BY <1>3, <1>7, <2>1, <2>3, <2>4
  <2>6. WordsFrom(p) = [i \in 1 .. e - p |-> p + i - 1]
    BY <2>1 DEF WordsFrom
  <2>7. sent[k].words = WordsFrom(p)
    BY <1>3, <1>5, <2>2, <2>5, <2>6, RisingThroughInterval
  <2>8. ASSUME NEW j \in DOMAIN sent, sent[j].words = WordsFrom(p) PROVE j = k
    <3>1. PICK f, g : f = Head(sent[k].words) /\ g = Last(sent[k].words)
      OBVIOUS
    <3>2. f = Head(sent[j].words) /\ g = Last(sent[j].words)
      BY <2>7, <2>8, <3>1
    <3>3. f \in Nat /\ g \in Nat /\ f <= g
      <4>1. f \in p .. e - 1 /\ g \in p .. e - 1
        BY <1>5, <2>5, <3>1
      <4>2. f = p
        <5>1. Head(WordsFrom(p)) = WordsFrom(p)[1]
          BY <2>7, <1>5
        <5>2. 1 \in 1 .. e - p
          BY <2>2
        <5>3. QED
          BY <2>2, <2>6, <2>7, <3>1, <5>1, <5>2
      <4>3. QED
        BY <2>2, <4>1, <4>2
    <3>4. ~(g < f)
      BY <3>3
    <3>5. ~(j \in 1 .. k - 1) /\ ~(k \in 1 .. j - 1)
      BY <1>3, <3>1, <3>2, <3>4
    <3>6. QED
      BY <1>4, <3>5
  <2>9. {j \in DOMAIN sent : sent[j].words = WordsFrom(p)} = {k}
    BY <2>7, <2>8
  <2>10. QED
    BY <2>9, FS_Singleton
<1>8. QED
  BY <1>6, <1>7

(* What is in a file stays there, and the runs only go up.                 *)
FilesGrow ==
  /\ unwritten \subseteq unwritten'
  /\ \A r \in Runs : \A q : Contains(files[r], q) => Contains(files'[r], q)

LEMMA FiledStays ==
  ASSUME NEW CONSTANT p, NEW CONSTANT run \in Nat, run <= MaxRuns, IsFiled(p, run),
         NEW CONSTANT n \in Nat, run <= n, FilesGrow
  PROVE  IsFiled(p, n)'
<1>1. CASE p \in unwritten
  BY <1>1 DEF IsFiled, FilesGrow
<1>2. ASSUME NEW r \in 1 .. run, Contains(files[r], p) PROVE IsFiled(p, n)'
  <2>1. r \in Runs /\ r \in 1 .. n
    BY TakingAssumption DEF Runs
  <2>2. Contains(files'[r], p)
    BY <1>2, <2>1 DEF FilesGrow
  <2>3. QED
    BY <2>1, <2>2 DEF IsFiled
<1>3. QED
  BY <1>1, <1>2 DEF IsFiled

(* What comes to the buffer and to the events has been filed.              *)
LEMMA FiledInTime ==
  ASSUME FiledInv, source = "captan", FilesGrow,
         run_number' \in Nat, run_number <= run_number'
  PROVE  /\ \A p : IsFiled(p, run_number) => IsFiled(p, run_number)'
         /\ \A k \in DOMAIN sent : /\ sent[k].run \in 0 .. run_number'
                                   /\ \A i \in DOMAIN sent[k].words :
                                        LET p == sent[k].words[i]
                                            run == sent[k].run
                                        IN  p \in unwritten' \/
                                              \E r \in 1 .. run : Contains(files'[r], p)
<1>1. run_number \in Nat /\ run_number <= MaxRuns
  BY TakingAssumption DEF FiledInv
<1>2. ASSUME NEW CONSTANT p, IsFiled(p, run_number) PROVE IsFiled(p, run_number)'
  <2>1. PICK run, n : run = run_number /\ n = run_number'
    OBVIOUS
  <2>2. IsFiled(p, run)
    BY <1>2, <2>1 DEF IsFiled
  <2>3. IsFiled(p, n)'
    BY <1>1, <2>1, <2>2, FiledStays
  <2>4. QED
    BY <2>1, <2>3 DEF IsFiled
<1>3. ASSUME NEW CONSTANT k \in DOMAIN sent
      PROVE  /\ sent[k].run \in 0 .. run_number'
             /\ \A i \in DOMAIN sent[k].words :
                  sent[k].words[i] \in unwritten' \/
                    \E r \in 1 .. sent[k].run : Contains(files'[r], sent[k].words[i])
  <2>1. PICK run : run = sent[k].run
    OBVIOUS
  <2>2. run \in Nat /\ run <= run_number
    BY <1>1, <2>1 DEF FiledInv
  <2>3. run <= MaxRuns /\ run \in 0 .. run_number'
    BY <1>1, <2>2, TakingAssumption
  <2>4. ASSUME NEW CONSTANT i \in DOMAIN sent[k].words
        PROVE  sent[k].words[i] \in unwritten' \/
                 \E r \in 1 .. sent[k].run : Contains(files'[r], sent[k].words[i])
    <3>1. PICK p : p = sent[k].words[i]
      OBVIOUS
    <3>2. IsFiled(p, run)
      BY <2>1, <3>1 DEF FiledInv, EventsAreInFiles
    <3>3. IsFiled(p, run)'
      BY <2>2, <2>3, <3>2, FiledStays
    <3>4. QED
      BY <2>1, <3>1, <3>3 DEF IsFiled
  <2>5. QED
    BY <2>1, <2>3, <2>4
<1>4. QED
  BY <1>2, <1>3

(* So it is enough that what comes to the buffer, to the sender and to the *)
(* events has been filed.                                                  *)
LEMMA FiledGoesOn ==
  ASSUME FiledInv, source = "captan", FilesGrow, sent' = sent,
         run_number' \in 0 .. MaxRuns, run_number <= run_number',
         writer' \subseteq 1 .. run_number', files' \in [Runs -> Seq(Nat)],
         BufferIsFiled', FrameIsFiled'
  PROVE  FiledInv'
<1>1. run_number' \in Nat
  BY TakingAssumption
<1>2. \A k \in DOMAIN sent : /\ sent[k].run \in 0 .. run_number'
                             /\ \A i \in DOMAIN sent[k].words :
                                  sent[k].words[i] \in unwritten' \/
                                    \E r \in 1 .. sent[k].run : Contains(files'[r], sent[k].words[i])
  BY <1>1, FiledInTime
<1>3. (\A k \in DOMAIN sent : sent[k].run \in 0 .. run_number)'
  BY <1>2
<1>4. EventsAreInFiles'
  BY <1>2 DEF EventsAreInFiles, IsFiled
<1>5. (/\ run_number \in 0 .. MaxRuns /\ writer \subseteq 1 .. run_number
       /\ files \in [Runs -> Seq(Nat)])'
  OBVIOUS
<1>6. QED
  BY <1>3, <1>4, <1>5 DEF FiledInv

LEMMA TakeWordKeepsFiled ==
  ASSUME FiledInv, LineInv, PiecesInv, source = "captan", TakeWord
  PROVE  FiledInv'
<1> DEFINE w == delivering[1].from
<1>1. /\ UNCHANGED <<run_number, writer, files, unwritten>>
      /\ delivering # << >> /\ delivering' = AfterWord(delivering[1])
  BY DEF TakeWord, control, senderVars
<1>2. /\ run_number \in 0 .. MaxRuns /\ writer \subseteq 1 .. run_number
      /\ files \in [Runs -> Seq(Nat)]
      /\ \A i \in DOMAIN buffer : IsFiled(buffer[i], run_number)
      /\ \A p \in delivering[1].from .. delivering[1].to : IsFiled(p, run_number)
      /\ \A k \in DOMAIN sent : sent[k].run \in 0 .. run_number
      /\ EventsAreInFiles
  BY <1>1 DEF FiledInv, BufferIsFiled, FrameIsFiled
<1>3. \A p : IsFiled(p, run_number)' <=> IsFiled(p, run_number)
  BY <1>1 DEF IsFiled
<1>4. delivering[1] \in Frame /\ w <= delivering[1].to
  BY <1>1 DEF LineInv, IsLine, IsStretch
<1>5. w \in Nat /\ delivering[1].to \in Nat
  BY <1>4 DEF Frame
<1>6. IsFiled(w, run_number)
  BY <1>2, <1>4, <1>5
<1>7. FrameIsFiled'
  <2>1. CASE delivering[1].from = delivering[1].to
    BY <1>1, <2>1 DEF AfterWord, FrameIsFiled
  <2>2. CASE delivering[1].from # delivering[1].to
    <3>1. PICK f \in Nat, t \in Nat, e \in BOOLEAN :
              delivering[1] = [from |-> f, to |-> t, error |-> e]
      BY <1>4 DEF Frame
    <3>2. delivering' = <<[from |-> f + 1, to |-> t, error |-> e]>>
      BY <1>1, <2>2, <3>1 DEF AfterWord
    <3>3. delivering'[1].from = f + 1 /\ delivering'[1].to = t
      BY <3>2
    <3>4. \A p \in f + 1 .. t : p \in f .. t
      OBVIOUS
    <3>5. \A p \in f + 1 .. t : IsFiled(p, run_number)
      BY <1>2, <3>1, <3>4
    <3>6. QED
      BY <1>1, <3>3, <3>5 DEF FrameIsFiled, IsFiled
  <2>3. QED
    BY <2>1, <2>2
<1>8. buffer \in Seq(Nat) /\ sent \in Seq([words : Seq(Nat), run : Nat])
  BY DEF PiecesInv, IsBuffer, AreEvents
<1>9. CASE ~IsEnd(w)
  <2>1. buffer' = Append(buffer, w) /\ sent' = sent
    BY <1>9 DEF TakeWord, takeWord
  <2>2. \A i \in DOMAIN buffer' : buffer'[i] = w \/ \E j \in DOMAIN buffer : buffer'[i] = buffer[j]
    <3>1. \A i \in 1 .. Len(buffer) + 1 : i \in 1 .. Len(buffer) \/ i = Len(buffer) + 1
      BY <1>8
    <3>2. QED
      BY <1>5, <1>8, <2>1, <3>1
  <2>3. \A i \in DOMAIN buffer' : IsFiled(buffer'[i], run_number)
    BY <1>2, <1>6, <2>2
  <2>4. BufferIsFiled'
    BY <1>1, <2>3 DEF BufferIsFiled, IsFiled
  <2>5. EventsAreInFiles'
    BY <1>1, <1>2, <2>1 DEF EventsAreInFiles, IsFiled
  <2>6. QED
    BY <1>1, <1>2, <1>7, <2>1, <2>4, <2>5 DEF FiledInv
<1>10. CASE IsEnd(w)
  <2> DEFINE event == [words |-> buffer, run |-> run_number]
  <2>1. /\ buffer' = << >> /\ (sent' = sent \/ sent' = Append(sent, event))
    BY <1>10 DEF TakeWord, takeWord, Cleared
  <2>2. event.words = buffer /\ event.run = run_number
    OBVIOUS
  <2> HIDE DEF event
  <2>3. \A k \in DOMAIN sent' : sent'[k] = event \/ (k \in DOMAIN sent /\ sent'[k] = sent[k])
    <3>1. CASE sent' = sent
      BY <3>1
    <3>2. CASE sent' = Append(sent, event)
      <4>1. \A k \in 1 .. Len(sent) + 1 : k \in 1 .. Len(sent) \/ k = Len(sent) + 1
        BY <1>8
      <4>2. QED
        <5> DEFINE Event == [words : Seq(Nat), run : Nat]
        <5>1. sent \in Seq(Event) /\ event \in Event
          BY <1>2, <1>8, TakingAssumption DEF event
        <5> HIDE DEF Event
        <5>2. PICK n \in Nat : n = Len(sent)
          BY <5>1
        <5>3. PICK more : more = Append(sent, event)
          OBVIOUS
        <5>4. /\ DOMAIN sent = 1 .. n /\ DOMAIN more = 1 .. n + 1
              /\ \A k \in 1 .. n : more[k] = sent[k]
              /\ more[n + 1] = event
          BY <5>1, <5>2, <5>3
        <5>5. \A k \in DOMAIN more : more[k] = event \/ (k \in DOMAIN sent /\ more[k] = sent[k])
          BY <4>1, <5>2, <5>4
        <5>6. QED
          BY <3>2, <5>3, <5>5
    <3>3. QED
      BY <2>1, <3>1, <3>2
  <2>4. \A k \in DOMAIN sent' : sent'[k].run \in 0 .. run_number
    <3>1. run_number \in 0 .. run_number
      BY <1>2, TakingAssumption
    <3>2. QED
      BY <1>2, <2>2, <2>3, <3>1
  <2>5. \A k \in DOMAIN sent : \A i \in DOMAIN sent[k].words :
          IsFiled(sent[k].words[i], sent[k].run)
    BY <1>2 DEF EventsAreInFiles
  <2>6. \A k \in DOMAIN sent' : \A i \in DOMAIN sent'[k].words :
          IsFiled(sent'[k].words[i], sent'[k].run)
    BY <1>2, <2>2, <2>3, <2>5
  <2>7. EventsAreInFiles'
    BY <1>1, <2>6 DEF EventsAreInFiles, IsFiled
  <2>8. BufferIsFiled'
    BY <2>1 DEF BufferIsFiled
  <2>9. QED
    BY <1>1, <1>2, <1>7, <2>4, <2>7, <2>8 DEF FiledInv
<1>11. QED
  BY <1>9, <1>10

LEMMA WriteFrameKeepsFiled ==
  ASSUME FiledInv, LineInv, source = "captan", WriteFrame
  PROVE  FiledInv'
<1> DEFINE frame == frames[1]
           span == Span(frame)
<1>1. /\ frames # << >> /\ delivering' = <<frame>>
      /\ UNCHANGED <<buffer, sent, run_number, writer>>
      /\ files' = [r \in Runs |-> IF r \in writer THEN files[r] \o span ELSE files[r]]
      /\ unwritten' = IF writer = {} THEN unwritten \union frame.from .. frame.to
                                     ELSE unwritten
  BY DEF WriteFrame, Written, control, senderVars
<1>2. /\ frame.from \in Nat /\ frame.to \in Nat /\ frame.from <= frame.to
  <2>1. frames \in Seq(Frame) /\ 1 \in DOMAIN frames
    BY <1>1 DEF LineInv, IsLine
  <2>2. IsStretch(frames[1], at)
    BY <2>1 DEF LineInv, IsLine
  <2>3. QED
    BY <2>1, <2>2, FrameNumbers DEF IsStretch
<1>3. /\ run_number \in 0 .. MaxRuns /\ writer \subseteq 1 .. run_number
      /\ files \in [Runs -> Seq(Nat)]
      /\ \A i \in DOMAIN buffer : IsFiled(buffer[i], run_number)
  BY DEF FiledInv, BufferIsFiled
<1>4. span \in Seq(Nat) /\ \A p \in frame.from .. frame.to : Contains(span, p)
  <2>1. PICK f, t : f = frame.from /\ t = frame.to
    OBVIOUS
  <2>2. f \in Nat /\ t \in Nat /\ f <= t /\ t - f + 1 \in Nat
    BY <1>2, <2>1
  <2>3. span = [i \in 1 .. t - f + 1 |-> f + i - 1]
    BY <2>1 DEF Span
  <2>4. \A i \in 1 .. t - f + 1 : f + i - 1 \in Nat
    BY <2>2
  <2>5. span \in Seq(Nat) /\ Len(span) = t - f + 1
    BY <2>2, <2>3, <2>4
  <2>6. ASSUME NEW p \in f .. t PROVE Contains(span, p)
    <3>1. p - f + 1 \in 1 .. t - f + 1 /\ f + (p - f + 1) - 1 = p
      BY <2>2
    <3>2. span[p - f + 1] = p
      BY <2>3, <3>1
    <3>3. QED
      BY <2>5, <3>1, <3>2 DEF Contains
  <2>7. QED
    BY <2>1, <2>5, <2>6
<1> HIDE DEF span
<1>5. ASSUME NEW s \in Seq(Nat)
      PROVE  /\ s \o span \in Seq(Nat)
             /\ \A q : Contains(s, q) \/ Contains(span, q) => Contains(s \o span, q)
  <2>1. /\ s \o span \in Seq(Nat) /\ Len(s \o span) = Len(s) + Len(span)
        /\ Len(s) \in Nat /\ Len(span) \in Nat
        /\ \A i \in 1 .. Len(s) : (s \o span)[i] = s[i]
        /\ \A i \in 1 .. Len(span) : (s \o span)[Len(s) + i] = span[i]
    BY <1>4
  <2>2. /\ \A i \in 1 .. Len(s) : i \in 1 .. Len(s) + Len(span)
        /\ \A i \in 1 .. Len(span) : Len(s) + i \in 1 .. Len(s) + Len(span)
    BY <2>1
  <2>3. ASSUME NEW q, Contains(s, q) PROVE Contains(s \o span, q)
    BY <2>1, <2>2, <2>3 DEF Contains
  <2>4. ASSUME NEW q, Contains(span, q) PROVE Contains(s \o span, q)
    <3>1. PICK i \in 1 .. Len(span) : span[i] = q
      BY <2>4 DEF Contains
    <3>2. QED
      BY <2>1, <2>2, <3>1 DEF Contains
  <2>5. QED
    BY <2>1, <2>3, <2>4
<1>6. files' \in [Runs -> Seq(Nat)]
  <2>1. \A r \in Runs : files[r] \in Seq(Nat) /\ files[r] \o span \in Seq(Nat)
    BY <1>3, <1>5
  <2>2. QED
    BY <1>1, <2>1
<1>7. FilesGrow
  <2>1. unwritten \subseteq unwritten'
    BY <1>1
  <2>2. ASSUME NEW r \in Runs, NEW q, Contains(files[r], q) PROVE Contains(files'[r], q)
    <3>1. CASE r \in writer
      BY <1>1, <1>3, <1>5, <2>2, <3>1
    <3>2. CASE r \notin writer
      BY <1>1, <2>2, <3>2
    <3>3. QED
      BY <3>1, <3>2
  <2>3. QED
    BY <2>1, <2>2 DEF FilesGrow
<1>8. run_number \in Nat /\ run_number <= MaxRuns /\ run_number' \in Nat /\ run_number <= run_number'
  BY <1>1, <1>3, TakingAssumption
<1>9. BufferIsFiled'
  <2>1. \A p : IsFiled(p, run_number) => IsFiled(p, run_number)'
    BY <1>7, <1>8, FiledInTime
  <2>2. QED
    BY <1>1, <1>3, <2>1 DEF BufferIsFiled, IsFiled
<1>10. ASSUME NEW CONSTANT p, p \in frame.from .. frame.to PROVE IsFiled(p, run_number)'
  <2>1. CASE writer = {}
    BY <1>1, <1>10, <2>1 DEF IsFiled
  <2>2. CASE writer # {}
    <3>1. PICK r \in writer : TRUE
      BY <2>2
    <3>2. r \in 1 .. run_number /\ r \in Runs
      BY <1>3, <1>8, TakingAssumption DEF Runs
    <3>3. Contains(files'[r], p)
      BY <1>1, <1>3, <1>4, <1>5, <1>10, <3>2
    <3>4. QED
      BY <1>1, <3>2, <3>3 DEF IsFiled
  <2>3. QED
    BY <2>1, <2>2
<1>11. FrameIsFiled'
  <2>1. delivering'[1] = frame
    BY <1>1
  <2>2. QED
    BY <1>10, <2>1 DEF FrameIsFiled, IsFiled
<1>12. writer' \subseteq 1 .. run_number' /\ run_number' \in 0 .. MaxRuns
  BY <1>1, <1>3
<1>13. QED
  BY <1>1, <1>6, <1>7, <1>8, <1>9, <1>11, <1>12, FiledGoesOn

LEMMA StepsKeepFiled ==
  ASSUME FiledInv, LineInv, PiecesInv, [Next]_vars
  PROVE  FiledInv'
<1> USE DEF captanVars, senderVars, control, frontEnd, history
<1>1. CASE UNCHANGED <<source, run_number, writer, files, unwritten, buffer, delivering, sent>>
  BY <1>1 DEF FiledInv, EventsAreInFiles, IsFiled, BufferIsFiled, FrameIsFiled
<1>2. CASE Play
  BY <1>2 DEF Play, FiledInv
<1>3. CASE Configure
  <2>1. CASE source = "captan"
    BY <1>1, <1>3, <2>1 DEF Configure, DoConfigure
  <2>2. CASE source # "captan"
    BY <1>3, <2>2 DEF Configure, FiledInv
  <2>3. QED
    BY <2>1, <2>2
<1>4. CASE Monitor
  BY <1>1, <1>4 DEF Monitor
<1>5. CASE UNCHANGED vars
  BY <1>1, <1>5 DEF vars
<1>6. ASSUME source = "captan", source' = source,
             UNCHANGED <<files, unwritten, buffer, sent>>,
             delivering' = delivering \/ delivering' = << >>,
             run_number' \in 0 .. MaxRuns, run_number <= run_number',
             writer' \subseteq 1 .. run_number'
      PROVE  FiledInv'
  <2>1. FilesGrow
    BY <1>6 DEF FilesGrow
  <2>2. run_number' \in Nat
    BY <1>6, TakingAssumption
  <2>3. \A p : IsFiled(p, run_number) => IsFiled(p, run_number)'
    BY <1>6, <2>1, <2>2, FiledInTime
  <2>4. files' \in [Runs -> Seq(Nat)]
    BY <1>6 DEF FiledInv
  <2>5. BufferIsFiled'
    BY <1>6, <2>3 DEF FiledInv, BufferIsFiled, IsFiled
  <2>6. FrameIsFiled'
    BY <1>6, <2>3 DEF FiledInv, FrameIsFiled, IsFiled
  <2>7. QED
    BY <1>6, <2>1, <2>4, <2>5, <2>6, FiledGoesOn
<1>7. CASE Captan
  <2>1. source = "captan" /\ source' = source
    BY <1>7 DEF Captan
  <2>2. run_number \in 0 .. MaxRuns /\ writer \subseteq 1 .. run_number /\ MaxRuns \in Nat
    BY <2>1, TakingAssumption DEF FiledInv
  <2>3. CASE DoInitialise \/ StartEnables \/ DoStopRun \/ DoReset
    BY <1>1, <2>1, <2>3 DEF DoInitialise, StartEnables, DoStopRun, DoReset, Send
  <2>4. CASE DoStartRun
    <3>1. /\ run_number < MaxRuns /\ run_number' = run_number + 1 /\ writer' = {run_number'}
          /\ UNCHANGED <<files, unwritten, buffer, sent, delivering>>
      BY <2>4 DEF DoStartRun
    <3>2. /\ run_number' \in 0 .. MaxRuns /\ run_number <= run_number'
          /\ writer' \subseteq 1 .. run_number'
      BY <2>2, <3>1
    <3>3. QED
      BY <1>6, <2>1, <3>1, <3>2
  <2>5. CASE StopCloses
    <3>1. writer' = {} /\ UNCHANGED <<files, unwritten, buffer, sent, delivering, run_number>>
      BY <2>5 DEF StopCloses
    <3>2. run_number' \in 0 .. MaxRuns /\ run_number <= run_number'
      BY <2>2, <3>1
    <3>3. QED
      BY <1>6, <2>1, <3>1, <3>2
  <2>6. CASE FrontEnd
    BY <1>1, <2>1, <2>6 DEF FrontEnd, FrontEndHears, CommandIsLost, FrontEndSends, Lose
  <2>7. CASE WriteFrame
    BY <2>1, <2>7, WriteFrameKeepsFiled
  <2>8. CASE TakeWord
    BY <2>1, <2>8, TakeWordKeepsFiled
  <2>9. CASE DropFrame
    <3>1. delivering' = << >>
          /\ UNCHANGED <<files, unwritten, buffer, sent, run_number, writer>>
      BY <2>9 DEF DropFrame
    <3>2. run_number' \in 0 .. MaxRuns /\ run_number <= run_number'
      BY <2>2, <3>1
    <3>3. QED
      BY <1>6, <2>1, <2>2, <3>1, <3>2
  <2>10. QED
    BY <1>7, <2>3, <2>4, <2>5, <2>6, <2>7, <2>8, <2>9 DEF Captan, RunControl, UdpClient
<1>8. QED
  BY <1>2, <1>3, <1>4, <1>5, <1>7 DEF Next

LEMMA StartsFiled == Init => FiledInv
<1> SUFFICES ASSUME Init PROVE FiledInv
  OBVIOUS
<1>1. /\ buffer = << >> /\ sent = << >> /\ delivering = << >> /\ run_number = 0
      /\ writer = {} /\ files = [r \in Runs |-> << >>]
  BY DEF Init, CaptanInit, SenderInit
<1>2. files \in [Runs -> Seq(Nat)] /\ 0 \in 0 .. MaxRuns
  BY <1>1, TakingAssumption
<1>3. DOMAIN << >> = {}
  OBVIOUS
<1>4. QED
  BY <1>1, <1>2, <1>3 DEF FiledInv, EventsAreInFiles, BufferIsFiled, FrameIsFiled

LEMMA AlwaysInLine == Spec => [](LineInv /\ PiecesInv /\ FiledInv)
<1> DEFINE IInv == LineInv /\ PiecesInv /\ FiledInv
<1>1. Init => IInv
  BY StartsInLine, StartsInPieces, StartsFiled
<1>2. IInv /\ [Next]_vars => IInv'
  <2> SUFFICES ASSUME IInv, [Next]_vars PROVE IInv'
    OBVIOUS
  <2>1. source = "captan" => run_number \in Nat
    BY TakingAssumption DEF FiledInv
  <2>2. QED
    BY <2>1, StepsKeepLine, StepsKeepPieces, StepsKeepFiled
<1>3. QED
  BY <1>1, <1>2, PTL DEF Spec

(* Damage is local: an event that arrives with its end and the end of the  *)
(* one before is sent as it is, once, whatever has been lost, stopped or   *)
(* left over before, and no event goes over an end that has arrived.       *)
THEOREM DamageAlwaysLocal == Spec => []DamageIsLocal
<1>1. LineInv /\ PiecesInv => DamageIsLocal
  BY PiecesAreLocal
<1>2. QED
  BY <1>1, AlwaysInLine, PTL

(* The words of an event of a run are in the file of that run or of one    *)
(* before, unless they came when no file was open.                         *)
THEOREM EventsAlwaysInFiles == Spec => []EventsAreInFiles
<1>1. FiledInv => EventsAreInFiles
  BY DEF FiledInv, EventsAreInFiles
<1>2. QED
  BY <1>1, AlwaysInLine, PTL

-----------------------------------------------------------------------------
(* The largest of some numbers up to n.                                    *)
LEMMA MostOf ==
  ASSUME NEW n \in Nat, NEW S \in SUBSET (1 .. n), S # {}
  PROVE  Max(S) \in S /\ \A k \in S : k <= Max(S)
<1> DEFINE U == {m \in 0 .. n : \A k \in S : k <= m}
<1>1. n \in U /\ U \in SUBSET (0 .. n)
  OBVIOUS
<1>2. PICK m \in U : \A j \in U : m <= j
  <2> HIDE DEF U
  <2>1. QED
    BY <1>1, LeastOfPositions
<1>3. m \in S
  <2>1. SUFFICES ASSUME m \notin S PROVE FALSE
    OBVIOUS
  <2>2. \A k \in S : k <= m - 1
    BY <1>2, <2>1
  <2>3. PICK k \in S : k \in 1 .. n
    OBVIOUS
  <2>4. m - 1 \in 0 .. n
    BY <1>2, <2>2, <2>3
  <2>5. m - 1 \in U
    BY <2>2, <2>4
  <2>6. QED
    BY <1>2, <2>5
<1>4. QED
  BY <1>2, <1>3 DEF Max

(* Induction up to n.                                                      *)
LEMMA Induct ==
  ASSUME NEW n \in Nat, NEW T, 0 \in T, \A k \in 1 .. n : k - 1 \in T => k \in T
  PROVE  n \in T
<1> DEFINE Bad == {k \in 0 .. n : k \notin T}
<1>1. SUFFICES ASSUME Bad # {} PROVE FALSE
  <2>1. n \in 0 .. n
    OBVIOUS
  <2>2. Bad = {}
    <3> HIDE DEF Bad
    <3>1. QED
      BY <1>1
  <2>3. QED
    BY <2>1, <2>2
<1>2. Bad \in SUBSET (0 .. n)
  OBVIOUS
<1>3. PICK k \in Bad : \A m \in Bad : k <= m
  <2> HIDE DEF Bad
  <2>1. QED
    BY <1>1, <1>2, LeastOfPositions
<1>4. k \in 1 .. n /\ k - 1 \in 0 .. n /\ k \notin T
  BY <1>3
<1>5. k - 1 \notin Bad
  <2> HIDE DEF Bad
  <2>1. QED
    BY <1>3, <1>4
<1>6. QED
  BY <1>4, <1>5

(* h folds G over the numbers up to n, the largest last.                   *)
IsFold(h, V, base, n, G) ==
  /\ h \in [SUBSET (1 .. n) -> V]
  /\ \A s \in SUBSET (1 .. n) :
       h[s] = IF s = {} THEN base ELSE G[<<Max(s), h[s \ {Max(s)}]>>]

LEMMA FoldExists ==
  ASSUME NEW V, NEW base \in V, NEW n \in Nat, NEW G \in [(1 .. n) \X V -> V]
  PROVE  \E h : IsFold(h, V, base, n, G)
<1> USE DEF IsFold
<1> DEFINE Is(m, h) == IsFold(h, V, base, m, G)
           T == {m \in 0 .. n : \E h : Is(m, h)}
<1>1. 0 \in T
  <2>1. SUBSET (1 .. 0) = {{}} /\ 0 \in 0 .. n
    OBVIOUS
  <2>2. Is(0, [s \in {{}} |-> base])
    BY <2>1
  <2>3. QED
    BY <2>1, <2>2
<1>2. ASSUME NEW m \in 1 .. n, m - 1 \in T PROVE m \in T
  <2>1. PICK l \in 0 .. n : m = l + 1 /\ l \in Nat /\ l = m - 1
    OBVIOUS
  <2>2. PICK h : Is(l, h)
    <3> HIDE DEF Is
    <3>1. QED
      BY <1>2, <2>1
  <2> DEFINE D == SUBSET (1 .. m)
             g == [s \in D |-> IF m \in s THEN G[<<m, h[s \ {m}]>>] ELSE h[s]]
  <2>3. ASSUME NEW s \in D, m \in s PROVE Max(s) = m /\ s \ {m} \in SUBSET (1 .. l) /\ m \notin s \ {m} /\ s \ {m} \in D
    <3>1. s \in SUBSET (1 .. m) /\ s # {} /\ m \in Nat
      BY <2>3
    <3>2. Max(s) \in s /\ \A k \in s : k <= Max(s)
      BY <3>1, MostOf
    <3>3. PICK x \in 1 .. m : x = Max(s)
      BY <3>1, <3>2
    <3>6. m <= x
      BY <2>3, <3>2, <3>3
    <3>7. Max(s) = m
      BY <3>3, <3>6
    <3>4. s \ {m} \in SUBSET (1 .. l)
      BY <2>1, <3>1
    <3>5. QED
      BY <3>7, <3>4
  <2>4. ASSUME NEW s \in D, m \notin s PROVE s \in SUBSET (1 .. l)
    BY <2>1, <2>4
  <2>5. g \in [D -> V]
    <3>1. ASSUME NEW s \in D PROVE (IF m \in s THEN G[<<m, h[s \ {m}]>>] ELSE h[s]) \in V
      <4>1. CASE m \in s
        <5>1. h[s \ {m}] \in V
          BY <2>2, <2>3, <4>1
        <5>3. G[<<m, h[s \ {m}]>>] \in V
          BY <5>1
        <5>4. QED
          BY <4>1, <5>3
      <4>2. CASE m \notin s
        BY <2>2, <2>4, <4>2
      <4>3. QED
        BY <4>1, <4>2
    <3>2. QED
      BY <3>1
  <2>6. ASSUME NEW s \in D
        PROVE  g[s] = IF s = {} THEN base ELSE G[<<Max(s), g[s \ {Max(s)}]>>]
    <3>1. CASE m \in s
      <4>1. g[s \ {m}] = h[s \ {m}]
        BY <2>3, <3>1
      <4>2. QED
        BY <2>3, <3>1, <4>1
    <3>2. CASE m \notin s /\ s # {}
      <4>1. s \in SUBSET (1 .. l) /\ g[s] = h[s]
        BY <2>4, <3>2
      <4>2. Max(s) \in s
        BY <2>1, <3>2, <4>1, MostOf
      <4>3. h[s] = G[<<Max(s), h[s \ {Max(s)}]>>]
        BY <2>2, <3>2, <4>1
      <4>4. s \ {Max(s)} \in D /\ m \notin s \ {Max(s)}
        BY <3>2
      <4>5. g[s \ {Max(s)}] = h[s \ {Max(s)}]
        BY <4>4
      <4>6. QED
        BY <3>2, <4>1, <4>3, <4>5
    <3>3. CASE s = {}
      <4>1. g[s] = h[s] /\ s \in SUBSET (1 .. l)
        BY <3>3
      <4>2. QED
        BY <2>2, <3>3, <4>1
    <3>4. QED
      BY <3>1, <3>2, <3>3
  <2>8. Is(m, g)
    BY <2>5, <2>6
  <2>7. QED
    <3> HIDE DEF Is, g
    <3>1. QED
      BY <2>8
<1>3. n \in T
  <2> HIDE DEF T
  <2>1. QED
    BY <1>1, <1>2, Induct
<1>4. QED
  BY <1>3

(* The numbers up to k, without the largest.                               *)
LEMMA StepsOf ==
  ASSUME NEW n \in Nat, NEW k \in 1 .. n
  PROVE  /\ 1 .. k \in SUBSET (1 .. n) /\ 1 .. k # {} /\ Max(1 .. k) = k
         /\ (1 .. k) \ {k} = 1 .. (k - 1)
<1>1. 1 .. k \in SUBSET (1 .. n) /\ k \in 1 .. k /\ k \in Nat
  OBVIOUS
<1>2. Max(1 .. k) \in 1 .. k /\ \A j \in 1 .. k : j <= Max(1 .. k)
  BY <1>1, MostOf
<1>3. PICK x \in 1 .. k : x = Max(1 .. k)
  BY <1>2
<1>4. k <= x
  BY <1>1, <1>2, <1>3
<1>5. Max(1 .. k) = k
  BY <1>3, <1>4
<1>6. (1 .. k) \ {k} = 1 .. (k - 1)
  OBVIOUS
<1>7. QED
  BY <1>1, <1>5, <1>6

(* A sum that is folded over a sequence is reached step by step.           *)
LEMMA SumSteps ==
  ASSUME NEW n \in Nat, NEW charges \in [1 .. n -> Int]
  PROVE  \E r : /\ r[0] = 0
                /\ \A k \in 1 .. n : r[k] = r[k - 1] + charges[k]
                /\ SumOf(charges) = r[n]
<1> DEFINE G == [x \in (1 .. n) \X Int |-> x[2] + charges[x[1]]]
           D == SUBSET (1 .. n)
           Is(f) == f = [s \in SUBSET (1 .. n) |->
                           IF s = {} THEN 0
                           ELSE f[s \ {Max(s)}] + charges[Max(s)]]
           r(f) == [k \in 0 .. n |-> f[1 .. k]]
<1>1. SumOf(charges) = (CHOOSE f : Is(f))[1 .. n]
  <2>1. DOMAIN charges = 1 .. n
    OBVIOUS
  <2>2. QED
    BY <2>1 DEF SumOf, FoldLeft, MapThenFoldSet
<1>2. \E f : Is(f)
  <2>1. G \in [(1 .. n) \X Int -> Int]
    OBVIOUS
  <2>a. PICK V : V = Int
    OBVIOUS
  <2>b. PICK b \in V : b = 0
    BY <2>a
  <2>2. PICK h \in [D -> Int] :
           \A s \in D : h[s] = IF s = {} THEN 0 ELSE G[<<Max(s), h[s \ {Max(s)}]>>]
    <3>1. G \in [(1 .. n) \X V -> V]
      BY <2>1, <2>a
    <3>2. \E h : IsFold(h, V, b, n, G)
      <4> HIDE DEF G
      <4>1. QED
        BY <3>1, FoldExists
    <3>3. QED
      <4> HIDE DEF G
      <4>1. QED
        BY <2>a, <2>b, <3>2 DEF IsFold
  <2>3. ASSUME NEW s \in D, s # {}
        PROVE  G[<<Max(s), h[s \ {Max(s)}]>>] = h[s \ {Max(s)}] + charges[Max(s)]
    <3>1. Max(s) \in 1 .. n
      BY <2>3, MostOf
    <3>2. h[s \ {Max(s)}] \in Int
      BY <2>2
    <3>3. QED
      BY <3>1, <3>2
  <2>4. Is(h)
    <3> HIDE DEF G
    <3>1. QED
      BY <2>2, <2>3
  <2>5. QED
    BY <2>4
<1>3. PICK f : Is(f) /\ SumOf(charges) = f[1 .. n]
  <2> HIDE DEF Is
  <2>1. QED
    BY <1>1, <1>2
<1>4. r(f)[0] = 0
  <2>1. {} \in SUBSET (1 .. n) /\ 1 .. 0 = {}
    OBVIOUS
  <2>2. f[{}] = 0
    BY <1>3, <2>1
  <2>3. QED
    BY <2>1, <2>2
<1>5. ASSUME NEW k \in 1 .. n PROVE r(f)[k] = r(f)[k - 1] + charges[k]
  <2>1. /\ 1 .. k \in SUBSET (1 .. n) /\ 1 .. k # {} /\ Max(1 .. k) = k
        /\ (1 .. k) \ {k} = 1 .. (k - 1)
    BY StepsOf, Zenon
  <2>2. r(f)[k] = f[1 .. k] /\ r(f)[k - 1] = f[1 .. (k - 1)]
    BY DEF r
  <2>3. f[1 .. k] = f[(1 .. k) \ {k}] + charges[k]
    BY <1>3, <2>1
  <2>4. QED
    BY <2>1, <2>2, <2>3
<1>6. QED
  <2>1. r(f)[n] = f[1 .. n]
    OBVIOUS
  <2> HIDE DEF r, Is
  <2>2. QED
    BY <1>3, <1>4, <1>5, <2>1

(* One step of the bounds of a sum.                                        *)
LEMMA StaysBetween ==
  ASSUME NEW c \in Int, NEW l \in Int, NEW w \in Int, l - w <= c, c <= l,
         NEW x \in Int, NEW y \in Int, NEW z \in Int, y - z <= x, x <= y
  PROVE  /\ c + x \in Int /\ l + y \in Int /\ w + z \in Int
         /\ (l + y) - (w + z) <= c + x /\ c + x <= l + y
OBVIOUS

(* What is between two bounds each is so in the sum.                       *)
LEMMA SumBetween ==
  ASSUME NEW n \in Nat, NEW charges \in [1 .. n -> Int], NEW tops \in [1 .. n -> Int],
         NEW rooms \in [1 .. n -> Int],
         \A i \in 1 .. n : tops[i] - rooms[i] <= charges[i] /\ charges[i] <= tops[i]
  PROVE  SumOf(charges) \in SumOf(tops) - SumOf(rooms) .. SumOf(tops)
<1>1. PICK c : /\ c[0] = 0
               /\ \A k \in 1 .. n : c[k] = c[k - 1] + charges[k]
               /\ SumOf(charges) = c[n]
  BY SumSteps
<1>2. PICK l : /\ l[0] = 0
               /\ \A k \in 1 .. n : l[k] = l[k - 1] + tops[k]
               /\ SumOf(tops) = l[n]
  BY SumSteps
<1>3. PICK w : /\ w[0] = 0
               /\ \A k \in 1 .. n : w[k] = w[k - 1] + rooms[k]
               /\ SumOf(rooms) = w[n]
  BY SumSteps
<1> DEFINE T == {k \in 0 .. n : /\ c[k] \in Int /\ l[k] \in Int /\ w[k] \in Int
                               /\ l[k] - w[k] <= c[k] /\ c[k] <= l[k]}
<1>4. 0 \in T
  BY <1>1, <1>2, <1>3
<1>5. ASSUME NEW k \in 1 .. n, k - 1 \in T PROVE k \in T
  <2>1. /\ c[k] = c[k - 1] + charges[k]
        /\ l[k] = l[k - 1] + tops[k]
        /\ w[k] = w[k - 1] + rooms[k]
    BY <1>1, <1>2, <1>3
  <2>2. /\ charges[k] \in Int /\ tops[k] \in Int /\ rooms[k] \in Int
        /\ tops[k] - rooms[k] <= charges[k] /\ charges[k] <= tops[k]
    OBVIOUS
  <2>3. /\ c[k - 1] \in Int /\ l[k - 1] \in Int /\ w[k - 1] \in Int
        /\ l[k - 1] - w[k - 1] <= c[k - 1] /\ c[k - 1] <= l[k - 1]
    BY <1>5
  <2>4. k \in 0 .. n
    OBVIOUS
  <2>5. /\ c[k] \in Int /\ l[k] \in Int /\ w[k] \in Int
        /\ l[k] - w[k] <= c[k] /\ c[k] <= l[k]
    <3> DEFINE j == k - 1
    <3>1. PICK ck \in Int : ck = c[j]
      BY <2>3
    <3>2. PICK lk \in Int : lk = l[j]
      BY <2>3
    <3>3. PICK wk \in Int : wk = w[j]
      BY <2>3
    <3>4. PICK x \in Int : x = charges[k]
      BY <2>2
    <3>5. PICK y \in Int : y = tops[k]
      BY <2>2
    <3>6. PICK z \in Int : z = rooms[k]
      BY <2>2
    <3>7. lk - wk <= ck /\ ck <= lk
      BY <2>3, <3>1, <3>2, <3>3, Zenon
    <3>8. y - z <= x /\ x <= y
      BY <2>2, <3>4, <3>5, <3>6, Zenon
    <3>9. /\ ck + x \in Int /\ lk + y \in Int /\ wk + z \in Int
          /\ (lk + y) - (wk + z) <= ck + x /\ ck + x <= lk + y
      BY <3>7, <3>8, StaysBetween, Zenon
    <3>10. c[k] = ck + x /\ l[k] = lk + y /\ w[k] = wk + z
      BY <2>1, <3>1, <3>2, <3>3, <3>4, <3>5, <3>6, Zenon
    <3>11. QED
      BY <3>9, <3>10, Zenon
  <2>6. QED
    BY <2>4, <2>5
<1>6. n \in T
  <2> HIDE DEF T
  <2>1. QED
    BY <1>4, <1>5, Induct
<1>7. QED
  BY <1>1, <1>2, <1>3, <1>6

-----------------------------------------------------------------------------
(* A fiber is a sequence of words.                                         *)
Block == Word \X Word \X Word \X Word

LEMMA KeepDataTyped ==
  ASSUME NEW fiber \in Seq(Word), NEW word \in Word
  PROVE  KeepData(fiber, word) \in Seq(Word)
BY DEF KeepData

LEMMA FiberTyped ==
  ASSUME NEW n \in Nat, NEW block \in [1 .. n -> Block], NEW f \in 1 .. 2
  PROVE  Fiber(block, f) \in Seq(Word)
<1> DEFINE Take(fiber, i) == KeepData(KeepData(fiber, block[i][2 * f - 1]), block[i][2 * f])
           V == Seq(Word)
           G == [x \in (1 .. n) \X V |-> Take(x[2], x[1])]
           D == SUBSET (1 .. n)
           Is(g) == g = [s \in SUBSET (1 .. n) |->
                           IF s = {} THEN << >>
                           ELSE KeepData(KeepData(g[s \ {Max(s)}], block[Max(s)][2 * f - 1]),
                                         block[Max(s)][2 * f])]
           r(g) == [k \in 0 .. n |-> g[1 .. k]]
<1>1. Fiber(block, f) = (CHOOSE g : Is(g))[1 .. n]
  <2>1. DOMAIN block = 1 .. n
    OBVIOUS
  <2>2. QED
    BY <2>1 DEF Fiber, FoldLeft, MapThenFoldSet
<1>0. ASSUME NEW v \in V, NEW i \in 1 .. n PROVE Take(v, i) \in V
  <2>1. block[i][2 * f - 1] \in Word /\ block[i][2 * f] \in Word
    <3>1. block[i] \in Word \X Word \X Word \X Word
      BY DEF Block
    <3>2. \/ 2 * f - 1 = 1 /\ 2 * f = 2
          \/ 2 * f - 1 = 3 /\ 2 * f = 4
      OBVIOUS
    <3>3. /\ block[i][1] \in Word /\ block[i][2] \in Word
          /\ block[i][3] \in Word /\ block[i][4] \in Word
      BY <3>1
    <3>4. QED
      BY <3>2, <3>3
  <2>2. QED
    BY <2>1, KeepDataTyped
<1>2. \E g : Is(g)
  <2>1. << >> \in V
    OBVIOUS
  <2>7. G \in [(1 .. n) \X V -> V]
    <3> HIDE DEF V, Take
    <3>1. QED
      BY <1>0
  <2>8. PICK b \in V : b = << >>
    BY <2>1
  <2>2. PICK h \in [D -> V] :
           \A s \in D : h[s] = IF s = {} THEN b ELSE G[<<Max(s), h[s \ {Max(s)}]>>]
    <3>1. \E h : IsFold(h, V, b, n, G)
      <4> HIDE DEF V, G
      <4>1. QED
        BY <2>7, FoldExists
    <3>2. QED
      <4> HIDE DEF V, G
      <4>1. QED
        BY <3>1 DEF IsFold
  <2>3. ASSUME NEW s \in D, s # {}
        PROVE  G[<<Max(s), h[s \ {Max(s)}]>>] = Take(h[s \ {Max(s)}], Max(s))
    <3>1. Max(s) \in 1 .. n
      BY <2>3, MostOf
    <3>2. h[s \ {Max(s)}] \in V
      <4> HIDE DEF V
      <4>1. QED
        BY <2>2
    <3>3. QED
      <4> HIDE DEF V, Take
      <4>1. QED
        BY <3>1, <3>2
  <2>4. Is(h)
    <3> HIDE DEF G, V
    <3>1. QED
      BY <2>2, <2>3, <2>8
  <2>5. QED
    BY <2>4
<1>3. PICK g : Is(g) /\ Fiber(block, f) = g[1 .. n]
  <2> HIDE DEF Is
  <2>1. QED
    BY <1>1, <1>2
<1> DEFINE T == {k \in 0 .. n : g[1 .. k] \in V}
<1>4. 0 \in T
  <2>1. {} \in SUBSET (1 .. n) /\ 1 .. 0 = {}
    OBVIOUS
  <2>2. g[{}] = << >> /\ << >> \in V
    BY <1>3, <2>1
  <2>3. QED
    <3> HIDE DEF V
    <3>1. QED
      BY <2>1, <2>2
<1>5. ASSUME NEW k \in 1 .. n, k - 1 \in T PROVE k \in T
  <2>1. /\ 1 .. k \in SUBSET (1 .. n) /\ 1 .. k # {} /\ Max(1 .. k) = k
        /\ (1 .. k) \ {k} = 1 .. (k - 1)
    BY StepsOf, Zenon
  <2>2. g[1 .. k] = Take(g[(1 .. k) \ {k}], k)
    BY <1>3, <2>1
  <2>3. g[1 .. (k - 1)] \in V
    BY <1>5
  <2>4. g[1 .. k] \in V
    <3> HIDE DEF V, Take, Is
    <3>1. QED
      BY <1>0, <2>1, <2>2, <2>3
  <2>5. QED
    BY <2>4
<1>6. n \in T
  <2> HIDE DEF T
  <2>1. QED
    BY <1>4, <1>5, Induct
<1>7. QED
  BY <1>3, <1>6

-----------------------------------------------------------------------------
(* Reading a fiber.                                                        *)
QIE == {EmptyQIE} \union {add_data(bytes) : bytes \in Seq(Nat)}

Reading ==
  [first : BOOLEAN, iword : Nat, buffer : Seq(Nat), res_buffer : Seq(Nat), qies : Seq(QIE)]

(* The types of what is read.                                              *)
LEMMA BytesTyped ==
  ASSUME NEW bytes \in Seq(Nat), NEW word \in Word
  PROVE  bytes \o Bytes(word) \in Seq(Nat) /\ Len(bytes \o Bytes(word)) = Len(bytes) + 2
<1>1. word % 256 \in Nat /\ word \div 256 \in Nat
  BY DEF Word
<1>2. PICK b \in Seq(Nat) : b = Bytes(word) /\ Len(b) = 2
  <2>1. \A x \in Nat, y \in Nat : <<x, y>> \in Seq(Nat) /\ Len(<<x, y>>) = 2
    OBVIOUS
  <2>2. Bytes(word) \in Seq(Nat) /\ Len(Bytes(word)) = 2
    BY <1>1, <2>1, Zenon DEF Bytes
  <2>3. QED
    BY <2>2
<1>3. bytes \o b \in Seq(Nat) /\ Len(bytes \o b) = Len(bytes) + 2
  <2>1. bytes \o b \in Seq(Nat) /\ Len(bytes \o b) = Len(bytes) + Len(b)
    OBVIOUS
  <2>2. QED
    BY <1>2, <2>1
<1>4. QED
  BY <1>2, <1>3, Zenon

(* A word more is read of what comes before the first sample: it is kept   *)
(* apart.                                                                  *)
IsLeftOver(read, s, word) ==
  /\ read.first = s.first /\ read.buffer = s.buffer
  /\ read.res_buffer = s.res_buffer \o Bytes(word) /\ read.qies = s.qies

(* What a word does: it is of the time, or left over, or of a sample,      *)
(* which it may begin.                                                     *)
LEMMA ReadWordCases ==
  ASSUME NEW s \in Reading, NEW word \in Word, NEW read, read = ReadWord(s, word)
  PROVE  /\ read \in Reading /\ read.iword = s.iword + 1
         /\ s.iword < 2 =>
              /\ read.first = s.first /\ read.buffer = s.buffer
              /\ read.res_buffer = s.res_buffer /\ read.qies = s.qies
         /\ ~(s.iword < 2) /\ s.first /\ ~start_of_time_sample(word) =>
              IsLeftOver(read, s, word)
         /\ ~(s.iword < 2) /\ ~(s.first /\ ~start_of_time_sample(word)) =>
              /\ read.first = FALSE /\ read.buffer = Buffered(s, word)
              /\ read.res_buffer = s.res_buffer
              /\ Began(s, word) => read.qies = Append(s.qies, add_data(s.buffer))
              /\ ~Began(s, word) => read.qies = s.qies
<1>1. /\ s.first \in BOOLEAN /\ s.iword \in Nat /\ s.buffer \in Seq(Nat)
      /\ s.res_buffer \in Seq(Nat) /\ s.qies \in Seq(QIE)
  BY DEF Reading
<1> DEFINE next == [s EXCEPT !.iword = @ + 1]
<1>0. s = [first |-> s.first, iword |-> s.iword, buffer |-> s.buffer,
           res_buffer |-> s.res_buffer, qies |-> s.qies]
  BY DEF Reading
<1>2. next = [first |-> s.first, iword |-> s.iword + 1, buffer |-> s.buffer,
              res_buffer |-> s.res_buffer, qies |-> s.qies]
  BY <1>0
<1>a. s.iword + 1 \in Nat
  BY <1>1
<1>3. Buffered(s, word) \in Seq(Nat)
  <2>1. << >> \in Seq(Nat)
    OBVIOUS
  <2>2. QED
    BY <1>1, <2>1, BytesTyped DEF Buffered
<1>4. s.res_buffer \o Bytes(word) \in Seq(Nat)
  BY <1>1, BytesTyped
<1>5. Append(s.qies, add_data(s.buffer)) \in Seq(QIE)
  <2>1. add_data(s.buffer) \in QIE
    BY <1>1 DEF QIE
  <2>2. QED
    BY <1>1, <2>1
<1>6. CASE s.iword < 2
  <2>1. ReadWord(s, word) = next
    BY <1>6 DEF ReadWord
  <2>2. QED
    BY <1>1, <1>2, <1>6, <1>a, <2>1 DEF Reading
<1>7. CASE ~(s.iword < 2) /\ s.first /\ ~start_of_time_sample(word)
  <2>1. ReadWord(s, word) = [next EXCEPT !.res_buffer = @ \o Bytes(word)]
    BY <1>7 DEF ReadWord
  <2>2. ReadWord(s, word) = [first |-> s.first, iword |-> s.iword + 1, buffer |-> s.buffer,
                             res_buffer |-> s.res_buffer \o Bytes(word), qies |-> s.qies]
    BY <1>2, <2>1
  <2>3. PICK rb \in Seq(Nat) : rb = s.res_buffer \o Bytes(word)
    BY <1>4
  <2>4. read = [first |-> s.first, iword |-> s.iword + 1, buffer |-> s.buffer,
                res_buffer |-> rb, qies |-> s.qies]
    BY <2>2, <2>3
  <2>5. read \in Reading
    BY <1>1, <1>a, <2>4 DEF Reading
  <2>6. /\ read.iword = s.iword + 1 /\ read.first = s.first /\ read.buffer = s.buffer
        /\ read.res_buffer = rb /\ read.qies = s.qies
    BY <2>4
  <2>7. IsLeftOver(read, s, word)
    BY <2>3, <2>6 DEF IsLeftOver
  <2>8. QED
    BY <1>7, <2>5, <2>6, <2>7
<1>8. CASE ~(s.iword < 2) /\ ~(s.first /\ ~start_of_time_sample(word))
  <2>1. PICK q \in Seq(QIE) :
          q = IF Began(s, word) THEN Append(s.qies, add_data(s.buffer)) ELSE s.qies
    BY <1>1, <1>5
  <2>2. PICK b \in Seq(Nat) : b = Buffered(s, word)
    BY <1>3
  <2>3. ReadWord(s, word) = [next EXCEPT !.first = FALSE, !.buffer = b, !.qies = q]
    <3>1. next.qies = s.qies
      BY <1>2
    <3>2. QED
      BY <1>8, <2>1, <2>2, <3>1 DEF ReadWord
  <2>4. ReadWord(s, word) = [first |-> FALSE, iword |-> s.iword + 1, buffer |-> b,
                             res_buffer |-> s.res_buffer, qies |-> q]
    BY <1>2, <2>3
  <2>5. read \in Reading
    BY <1>1, <1>a, <2>4 DEF Reading
  <2>6. /\ read.iword = s.iword + 1 /\ read.first = FALSE /\ read.buffer = b
        /\ read.res_buffer = s.res_buffer /\ read.qies = q
    BY <2>4
  <2>7. QED
    BY <1>8, <2>1, <2>2, <2>5, <2>6
<1>9. QED
  BY <1>6, <1>7, <1>8

LEMMA ReadWordTyped ==
  ASSUME NEW s \in Reading, NEW word \in Word
  PROVE  ReadWord(s, word) \in Reading
BY ReadWordCases

(* The bytes of a stretch of words.                                        *)
LEMMA NoBytes ==
  ASSUME NEW words, NEW first \in Nat, NEW last \in Int, last < first
  PROVE  BytesOf(words, first, last) = << >>
<1>1. 1 .. 2 * (last - first + 1) = {}
  OBVIOUS
<1>2. QED
  BY <1>1 DEF BytesOf

LEMMA ByteTyped ==
  ASSUME NEW word \in Word
  PROVE  /\ Bytes(word)[1] \in Nat /\ Bytes(word)[2] \in Nat
         /\ Bytes(word) \in Seq(Nat) /\ Len(Bytes(word)) = 2
<1>1. word % 256 \in Nat /\ word \div 256 \in Nat
  BY DEF Word
<1>2. \A x \in Nat, y \in Nat :
        /\ <<x, y>> \in Seq(Nat) /\ Len(<<x, y>>) = 2
        /\ <<x, y>>[1] \in Nat /\ <<x, y>>[2] \in Nat
  OBVIOUS
<1>3. QED
  BY <1>1, <1>2, Zenon DEF Bytes

LEMMA BytesOfTyped ==
  ASSUME NEW words, NEW first \in Nat, NEW k \in Nat, first <= k + 1,
         \A i \in first .. k : words[i] \in Word
  PROVE  /\ BytesOf(words, first, k) \in Seq(Nat)
         /\ Len(BytesOf(words, first, k)) = 2 * (k - first + 1)
<1> DEFINE byte(j) == Bytes(words[first + (j - 1) \div 2])[1 + ((j - 1) % 2)]
<1>1. PICK n \in Nat : n = 2 * (k - first + 1)
  OBVIOUS
<1>2. BytesOf(words, first, k) = [j \in 1 .. n |-> byte(j)]
  BY <1>1, Zenon DEF BytesOf
<1>3. ASSUME NEW j \in 1 .. n PROVE byte(j) \in Nat
  <2>1. PICK i \in first .. k : i = first + (j - 1) \div 2
    BY <1>1
  <2>2. 1 + ((j - 1) % 2) = 1 \/ 1 + ((j - 1) % 2) = 2
    OBVIOUS
  <2>3. Bytes(words[i])[1] \in Nat /\ Bytes(words[i])[2] \in Nat
    BY ByteTyped
  <2>4. QED
    BY <2>1, <2>2, <2>3
<1>4. QED
  <2> HIDE DEF byte
  <2>1. QED
    BY <1>1, <1>2, <1>3

(* One word more.                                                          *)
LEMMA BytesGrow ==
  ASSUME NEW words, NEW first \in Nat, NEW k \in Nat, NEW l \in Nat, l = k + 1,
         first <= l, \A i \in first .. l : words[i] \in Word
  PROVE  BytesOf(words, first, l) = BytesOf(words, first, k) \o Bytes(words[l])
<1> DEFINE byte(j) == Bytes(words[first + (j - 1) \div 2])[1 + ((j - 1) % 2)]
<1>1. PICK n \in Nat : n = 2 * (k - first + 1) /\ 2 * (l - first + 1) = n + 2
  OBVIOUS
<1>2. PICK s \in Seq(Nat) : s = BytesOf(words, first, k) /\ Len(s) = n
  <2>1. BytesOf(words, first, k) \in Seq(Nat) /\ Len(BytesOf(words, first, k)) = n
    BY <1>1, BytesOfTyped
  <2>2. QED
    BY <2>1
<1>3. PICK g \in Seq(Nat) : g = BytesOf(words, first, l) /\ Len(g) = n + 2
  <2>1. BytesOf(words, first, l) \in Seq(Nat) /\ Len(BytesOf(words, first, l)) = n + 2
    BY <1>1, BytesOfTyped
  <2>2. QED
    BY <2>1
<1>4. PICK b \in Seq(Nat) : b = Bytes(words[l]) /\ Len(b) = 2
  <2>1. words[l] \in Word
    OBVIOUS
  <2>2. Bytes(words[l]) \in Seq(Nat) /\ Len(Bytes(words[l])) = 2
    BY <2>1, ByteTyped
  <2>3. QED
    BY <2>2
<1>5. \A j \in 1 .. n : s[j] = byte(j)
  <2>1. s = [j \in 1 .. n |-> byte(j)]
    BY <1>1, <1>2, Zenon DEF BytesOf
  <2>2. QED
    <3> HIDE DEF byte
    <3>1. QED
      BY <2>1
<1>6. \A j \in 1 .. n + 2 : g[j] = byte(j)
  <2>1. g = [j \in 1 .. n + 2 |-> byte(j)]
    BY <1>1, <1>3, Zenon DEF BytesOf
  <2>2. QED
    <3> HIDE DEF byte
    <3>1. QED
      BY <2>1
<1>7. /\ s \o b \in Seq(Nat) /\ Len(s \o b) = n + 2
      /\ \A j \in 1 .. n : (s \o b)[j] = s[j]
      /\ (s \o b)[n + 1] = b[1] /\ (s \o b)[n + 2] = b[2]
  <2>1. /\ s \o b \in Seq(Nat) /\ Len(s \o b) = Len(s) + Len(b)
        /\ \A i \in 1 .. Len(s) + Len(b) :
             (s \o b)[i] = IF i <= Len(s) THEN s[i] ELSE b[i - Len(s)]
    BY ConcatProperties
  <2>2. Len(s) = n /\ Len(b) = 2
    BY <1>2, <1>4
  <2>3. PICK h : h = s \o b
    OBVIOUS
  <2>4. /\ h \in Seq(Nat) /\ Len(h) = n + 2
        /\ \A i \in 1 .. n + 2 : h[i] = IF i <= n THEN s[i] ELSE b[i - n]
    BY ONLY <2>1, <2>2, <2>3
  <2>5. /\ \A j \in 1 .. n : h[j] = s[j]
        /\ h[n + 1] = b[1] /\ h[n + 2] = b[2]
    BY <2>4
  <2>6. QED
    BY <2>3, <2>4, <2>5
<1>8. byte(n + 1) = b[1] /\ byte(n + 2) = b[2]
  <2>1. ASSUME NEW j, j = n + 1 PROVE byte(j) = b[1]
    <3>1. first + (j - 1) \div 2 = l /\ 1 + ((j - 1) % 2) = 1
      BY <1>1, <2>1
    <3>2. QED
      BY <1>4, <3>1, Zenon
  <2>2. ASSUME NEW j, j = n + 2 PROVE byte(j) = b[2]
    <3>1. first + (j - 1) \div 2 = l /\ 1 + ((j - 1) % 2) = 2
      BY <1>1, <2>2
    <3>2. QED
      BY <1>4, <3>1, Zenon
  <2>3. QED
    BY <2>1, <2>2, Zenon
<1>9. ASSUME NEW j \in 1 .. n + 2 PROVE g[j] = (s \o b)[j]
  <2>1. j \in 1 .. n \/ j = n + 1 \/ j = n + 2
    OBVIOUS
  <2>2. g[j] = byte(j)
    BY <1>6
  <2> HIDE DEF byte
  <2>3. QED
    BY <1>5, <1>7, <1>8, <2>1, <2>2
<1>10. g = s \o b
  <2>1. PICK h \in Seq(Nat) : h = s \o b /\ Len(h) = n + 2
    BY <1>7
  <2>2. \A j \in 1 .. n + 2 : g[j] = h[j]
    BY <1>9, <2>1
  <2>3. g = h
    BY <1>3, <2>1, <2>2, SeqEqual
  <2>4. QED
    BY <2>1, <2>3
<1>11. QED
  BY <1>2, <1>3, <1>4, <1>10

(* A fiber is read word by word: r has what has been read after each of    *)
(* them.                                                                   *)
AreSteps(r, n, words, start) ==
  /\ r[0] = start
  /\ \A k \in 1 .. n : r[k] = ReadWord(r[k - 1], words[k])
  /\ FoldLeft(ReadWord, start, words) = r[n]

LEMMA ReadSteps ==
  ASSUME NEW n \in Nat, NEW words, DOMAIN words = 1 .. n, \A i \in 1 .. n : words[i] \in Word,
         NEW start \in Reading
  PROVE  \E r : AreSteps(r, n, words, start)
<1> DEFINE V == Reading
           G == [x \in (1 .. n) \X V |-> ReadWord(x[2], words[x[1]])]
           D == SUBSET (1 .. n)
           Is(f) == f = [s \in SUBSET (1 .. n) |->
                           IF s = {} THEN start
                           ELSE ReadWord(f[s \ {Max(s)}], words[Max(s)])]
           r(f) == [k \in 0 .. n |-> f[1 .. k]]
<1>1. FoldLeft(ReadWord, start, words) = (CHOOSE f : Is(f))[1 .. n]
  BY DEF FoldLeft, MapThenFoldSet
<1>2. \E f : Is(f)
  <2>6. ASSUME NEW v \in V, NEW i \in 1 .. n PROVE ReadWord(v, words[i]) \in V
    BY ReadWordTyped
  <2>7. G \in [(1 .. n) \X V -> V]
    <3> HIDE DEF V
    <3>1. QED
      BY <2>6
  <2>8. PICK b \in V : b = start
    OBVIOUS
  <2>2. PICK h \in [D -> V] :
           \A s \in D : h[s] = IF s = {} THEN b ELSE G[<<Max(s), h[s \ {Max(s)}]>>]
    <3>1. \E h : IsFold(h, V, b, n, G)
      <4> HIDE DEF V, G
      <4>1. QED
        BY <2>7, FoldExists
    <3>2. QED
      <4> HIDE DEF V, G
      <4>1. QED
        BY <3>1 DEF IsFold
  <2>3. ASSUME NEW s \in D, s # {}
        PROVE  G[<<Max(s), h[s \ {Max(s)}]>>] = ReadWord(h[s \ {Max(s)}], words[Max(s)])
    <3>1. Max(s) \in 1 .. n
      BY <2>3, MostOf
    <3>2. h[s \ {Max(s)}] \in V
      <4> HIDE DEF V
      <4>1. QED
        BY <2>2
    <3>3. QED
      <4> HIDE DEF V
      <4>1. QED
        BY <3>1, <3>2
  <2>4. Is(h)
    <3> HIDE DEF G, V
    <3>1. QED
      BY <2>2, <2>3, <2>8
  <2>5. QED
    BY <2>4
<1>3. PICK f : Is(f) /\ FoldLeft(ReadWord, start, words) = f[1 .. n]
  <2> HIDE DEF Is
  <2>1. QED
    BY <1>1, <1>2
<1>4. r(f)[0] = start
  <2>1. {} \in SUBSET (1 .. n) /\ 1 .. 0 = {}
    OBVIOUS
  <2>2. f[{}] = start
    BY <1>3, <2>1
  <2>3. QED
    BY <2>1, <2>2
<1>5. ASSUME NEW k \in 1 .. n PROVE r(f)[k] = ReadWord(r(f)[k - 1], words[k])
  <2>1. /\ 1 .. k \in SUBSET (1 .. n) /\ 1 .. k # {} /\ Max(1 .. k) = k
        /\ (1 .. k) \ {k} = 1 .. (k - 1)
    BY StepsOf, Zenon
  <2>2. r(f)[k] = f[1 .. k] /\ r(f)[k - 1] = f[1 .. (k - 1)]
    BY DEF r
  <2>3. f[1 .. k] = ReadWord(f[(1 .. k) \ {k}], words[k])
    BY <1>3, <2>1
  <2>4. QED
    BY <2>1, <2>2, <2>3
<1>6. QED
  <2>1. r(f)[n] = f[1 .. n]
    OBVIOUS
  <2> HIDE DEF r, Is
  <2>2. /\ r(f)[0] = start /\ FoldLeft(ReadWord, start, words) = r(f)[n]
        /\ \A k \in 1 .. n : r(f)[k] = ReadWord(r(f)[k - 1], words[k])
    BY <1>3, <1>4, <1>5, <2>1
  <2>3. QED
    BY <2>2 DEF AreSteps

(* Where a fiber has been cut is the beginning of it (0) or a mark: the    *)
(* parts and the samples that this makes.                                  *)
PartStart(p) == IF p = 0 THEN 1 ELSE p

PartOf(words, cuts, rest, p) ==
  LET later == {q \in cuts : q > p}
  IN  IF later = {} THEN BytesOf(words, PartStart(p), Len(words)) \o rest
                    ELSE BytesOf(words, PartStart(p), Min(later) - 1)

ManyOf(words, cuts, rest) ==
  IF Len(PartOf(words, cuts, rest, Max(cuts))) = 12 THEN Cardinality(cuts)
                                                    ELSE Cardinality(cuts) - 1

IsCutOf(words, cuts, rest, qies) ==
  \A t \in DOMAIN qies : \E p \in cuts :
    /\ PlaceOf(cuts, p) = ManyOf(words, cuts, rest) - Len(qies) + t
    /\ qies[t] = add_data(PartOf(words, cuts, rest, p))

(* The words up to k at which a fiber has been cut, from low on, and the   *)
(* beginning if it has been cut there; c is their list.                    *)
IsCuts(c, words, z, low, k) ==
  /\ c \in Seq(Nat)
  /\ \A i \in 1 .. Len(c) : \A j \in 1 .. i - 1 : c[j] < c[i]
  /\ \A i \in 1 .. Len(c) : \/ z /\ c[i] = 0
                            \/ c[i] \in low .. k /\ start_of_time_sample(words[c[i]])
  /\ \A p \in low .. k : start_of_time_sample(words[p]) => \E i \in 1 .. Len(c) : c[i] = p
  /\ z => Len(c) > 0 /\ c[1] = 0

(* What has been read of the fiber then.                                   *)
IsRead(s, c, words, z, low, k) ==
  /\ s \in Reading
  /\ IF c = << >> THEN s.first /\ s.buffer = << >> /\ s.qies = << >>
     ELSE /\ ~s.first /\ s.buffer = BytesOf(words, PartStart(c[Len(c)]), k)
          /\ Len(s.qies) = Len(c) - 1
          /\ \A t \in 1 .. Len(c) - 1 :
               s.qies[t] = add_data(BytesOf(words, PartStart(c[t]), c[t + 1] - 1))
  /\ s.res_buffer = IF z THEN << >>
                    ELSE BytesOf(words, low, IF c = << >> THEN k ELSE c[1] - 1)

(* The words of the time are left out.                                     *)
LEMMA ReadSkips ==
  ASSUME NEW words, NEW j \in Nat, NEW k \in Nat, k = j + 1, NEW low \in Nat, k < low,
         words[k] \in Word, NEW s, s.iword < 2,
         IsCuts(<< >>, words, FALSE, low, j), IsRead(s, << >>, words, FALSE, low, j)
  PROVE  /\ IsCuts(<< >>, words, FALSE, low, k)
         /\ IsRead(ReadWord(s, words[k]), << >>, words, FALSE, low, k)
<1>1. PICK read : read = ReadWord(s, words[k])
  OBVIOUS
<1>2. /\ s \in Reading /\ s.first /\ s.buffer = << >> /\ s.qies = << >>
      /\ s.res_buffer = BytesOf(words, low, j)
  BY DEF IsRead
<1>3. /\ read \in Reading /\ read.first = s.first /\ read.buffer = s.buffer
      /\ read.res_buffer = s.res_buffer /\ read.qies = s.qies
  BY <1>1, <1>2, ReadWordCases
<1>4. BytesOf(words, low, j) = << >> /\ BytesOf(words, low, k) = << >>
  BY NoBytes
<1>5. IsCuts(<< >>, words, FALSE, low, k)
  BY DEF IsCuts
<1>6. IsRead(read, << >>, words, FALSE, low, k)
  BY <1>2, <1>3, <1>4 DEF IsRead
<1>7. QED
  BY <1>1, <1>5, <1>6

(* Before the first sample.                                                *)
LEMMA ReadGoesOnBefore ==
  ASSUME NEW words, NEW j \in Nat, NEW k \in Nat, k = j + 1, NEW low \in Nat, low <= k,
         \A i \in low .. k : words[i] \in Word, NEW s, ~(s.iword < 2),
         ~start_of_time_sample(words[k]),
         IsCuts(<< >>, words, FALSE, low, j), IsRead(s, << >>, words, FALSE, low, j)
  PROVE  /\ IsCuts(<< >>, words, FALSE, low, k)
         /\ IsRead(ReadWord(s, words[k]), << >>, words, FALSE, low, k)
<1>1. PICK read : read = ReadWord(s, words[k])
  OBVIOUS
<1>2. /\ s \in Reading /\ s.first /\ s.buffer = << >> /\ s.qies = << >>
      /\ s.res_buffer = BytesOf(words, low, j)
  BY DEF IsRead
<1>3. words[k] \in Word
  OBVIOUS
<1>4. /\ read \in Reading /\ read.first = s.first /\ read.buffer = s.buffer
      /\ read.res_buffer = s.res_buffer \o Bytes(words[k]) /\ read.qies = s.qies
  <2>1. PICK word \in Word : /\ word = words[k] /\ read = ReadWord(s, word)
                             /\ ~start_of_time_sample(word)
    BY <1>1, <1>3
  <2>2. /\ read \in Reading /\ read.first = s.first /\ read.buffer = s.buffer
        /\ read.res_buffer = s.res_buffer \o Bytes(word) /\ read.qies = s.qies
    <3>1. read \in Reading /\ IsLeftOver(read, s, word)
      BY <1>2, <2>1, ReadWordCases
    <3>2. QED
      BY <3>1 DEF IsLeftOver
  <2>3. QED
    BY <2>1, <2>2
<1>5. BytesOf(words, low, k) = BytesOf(words, low, j) \o Bytes(words[k])
  BY BytesGrow
<1>6. IsCuts(<< >>, words, FALSE, low, k)
  <2>1. \A p \in low .. j : ~start_of_time_sample(words[p])
    BY DEF IsCuts
  <2>2. \A p \in low .. k : p \in low .. j \/ p = k
    OBVIOUS
  <2>3. \A p \in low .. k : ~start_of_time_sample(words[p])
    BY <2>1, <2>2
  <2>4. QED
    BY <2>3 DEF IsCuts
<1>7. IsRead(read, << >>, words, FALSE, low, k)
  BY <1>2, <1>4, <1>5 DEF IsRead
<1>8. QED
  BY <1>1, <1>6, <1>7

(* At the first sample.                                                    *)
LEMMA ReadBegins ==
  ASSUME NEW words, NEW j \in Nat, NEW k \in Nat, k = j + 1, NEW low \in Nat, low <= k,
         \A i \in low .. k : words[i] \in Word, NEW s, ~(s.iword < 2), k > 0,
         start_of_time_sample(words[k]),
         IsCuts(<< >>, words, FALSE, low, j), IsRead(s, << >>, words, FALSE, low, j)
  PROVE  /\ IsCuts(<<k>>, words, FALSE, low, k)
         /\ IsRead(ReadWord(s, words[k]), <<k>>, words, FALSE, low, k)
<1>1. PICK read : read = ReadWord(s, words[k])
  OBVIOUS
<1>2. /\ s \in Reading /\ s.first /\ s.buffer = << >> /\ s.qies = << >>
      /\ s.res_buffer = BytesOf(words, low, j)
  BY DEF IsRead
<1>3. words[k] \in Word /\ ~Began(s, words[k])
  BY <1>2 DEF Began
<1>4. /\ read \in Reading /\ read.first = FALSE /\ read.buffer = Buffered(s, words[k])
      /\ read.res_buffer = s.res_buffer /\ read.qies = s.qies
  <2>1. PICK word \in Word : /\ word = words[k] /\ read = ReadWord(s, word)
                             /\ start_of_time_sample(word) /\ ~Began(s, word)
    BY <1>1, <1>3
  <2>2. /\ read \in Reading /\ read.first = FALSE /\ read.buffer = Buffered(s, word)
        /\ read.res_buffer = s.res_buffer /\ read.qies = s.qies
    BY <1>2, <2>1, ReadWordCases
  <2>3. QED
    BY <2>1, <2>2
<1>5. Buffered(s, words[k]) = BytesOf(words, k, k)
  <2>1. BytesOf(words, k, k) = BytesOf(words, k, j) \o Bytes(words[k])
    BY BytesGrow
  <2>2. BytesOf(words, k, j) = << >>
    BY NoBytes
  <2>3. QED
    BY <1>2, <1>3, <2>1, <2>2, Zenon DEF Buffered
<1>6. PICK c \in Seq(Nat) : c = <<k>> /\ Len(c) = 1 /\ c[1] = k
  <2>1. <<k>> \in Seq(Nat) /\ Len(<<k>>) = 1 /\ <<k>>[1] = k
    OBVIOUS
  <2>2. QED
    BY <2>1
<1>7. IsCuts(c, words, FALSE, low, k)
  <2>1. \A p \in low .. j : ~start_of_time_sample(words[p])
    BY DEF IsCuts
  <2>2. \A p \in low .. k : p \in low .. j \/ p = k
    OBVIOUS
  <2>3. \A i \in 1 .. Len(c) : i = 1
    BY <1>6
  <2>4. k \in low .. k /\ 1 \in 1 .. Len(c) /\ 1 .. 1 - 1 = {}
    BY <1>6
  <2>5. QED
    BY <1>6, <2>1, <2>2, <2>3, <2>4 DEF IsCuts
<1>8. IsRead(read, c, words, FALSE, low, k)
  <2>1. c # << >> /\ Len(c) - 1 = 0 /\ 1 .. Len(c) - 1 = {} /\ c[1] - 1 = j
    BY <1>6
  <2>2. PartStart(c[Len(c)]) = k
    BY <1>6 DEF PartStart
  <2>3. Len(read.qies) = 0
    BY <1>2, <1>4
  <2>4. QED
    BY <1>2, <1>4, <1>5, <2>1, <2>2, <2>3 DEF IsRead
<1>9. QED
  BY <1>1, <1>6, <1>7, <1>8

(* After the first sample has begun.                                       *)
LEMMA ReadsOn ==
  ASSUME NEW s \in Reading, NEW word \in Word, ~(s.iword < 2), ~s.first
  PROVE  LET read == ReadWord(s, word)
         IN  /\ read \in Reading /\ ~read.first /\ read.buffer = Buffered(s, word)
             /\ read.res_buffer = s.res_buffer
             /\ read.qies = IF start_of_time_sample(word)
                            THEN Append(s.qies, add_data(s.buffer)) ELSE s.qies
<1>1. PICK read : read = ReadWord(s, word)
  OBVIOUS
<1>2. /\ read \in Reading /\ ~read.first /\ read.buffer = Buffered(s, word)
      /\ read.res_buffer = s.res_buffer
      /\ Began(s, word) => read.qies = Append(s.qies, add_data(s.buffer))
      /\ ~Began(s, word) => read.qies = s.qies
  BY <1>1, ReadWordCases
<1>3. Began(s, word) <=> start_of_time_sample(word)
  BY DEF Began
<1>4. QED
  BY <1>1, <1>2, <1>3, Zenon

LEMMA CutsTyped ==
  ASSUME NEW words, NEW j \in Nat, NEW low \in Nat, NEW z, NEW c, c # << >>,
         IsCuts(c, words, z, low, j)
  PROVE  /\ c \in Seq(Nat) /\ Len(c) \in Nat /\ Len(c) > 0 /\ Len(c) \in 1 .. Len(c)
         /\ \A i \in 1 .. Len(c) : c[i] \in 0 .. j
<1>1. c \in Seq(Nat)
  BY DEF IsCuts
<1>2. Len(c) \in Nat /\ Len(c) > 0
  <2>1. Len(c) \in Nat
    BY <1>1
  <2>2. Len(c) # 0
    BY <1>1
  <2>3. QED
    BY <2>1, <2>2
<1>3. ASSUME NEW i \in 1 .. Len(c) PROVE c[i] \in 0 .. j
  <2>1. c[i] = 0 \/ c[i] \in low .. j
    BY DEF IsCuts
  <2>2. QED
    BY <2>1
<1>4. QED
  BY <1>1, <1>2, <1>3

(* A sample has begun, and goes on.                                        *)
LEMMA ReadGoesOnIn ==
  ASSUME NEW words, NEW j \in Nat, NEW k \in Nat, k = j + 1, NEW low \in 1 .. k,
         NEW z \in BOOLEAN, \A i \in 1 .. k : words[i] \in Word, NEW s, ~(s.iword < 2),
         ~start_of_time_sample(words[k]), NEW c, c # << >>,
         IsCuts(c, words, z, low, j), IsRead(s, c, words, z, low, j)
  PROVE  /\ IsCuts(c, words, z, low, k)
         /\ IsRead(ReadWord(s, words[k]), c, words, z, low, k)
<1>0. low \in Nat
  OBVIOUS
<1>1. PICK read : read = ReadWord(s, words[k])
  OBVIOUS
<1>2. s \in Reading /\ ~s.first /\ s.buffer = BytesOf(words, PartStart(c[Len(c)]), j)
  BY DEF IsRead
<1>3. words[k] \in Word /\ ~Began(s, words[k])
  BY DEF Began
<1>a. s \in Reading /\ ~(s.first /\ ~start_of_time_sample(words[k]))
  BY <1>2, Zenon
<1>4. /\ read \in Reading /\ ~read.first /\ read.buffer = Buffered(s, words[k])
      /\ read.res_buffer = s.res_buffer /\ read.qies = s.qies
  <2>1. PICK word \in Word : word = words[k]
    BY <1>3
  <2>2. ~(s.iword < 2) /\ ~s.first
    BY <1>2
  <2>3. start_of_time_sample(word) <=> start_of_time_sample(words[k])
    BY <2>1, Zenon
  <2>4. LET read1 == ReadWord(s, word)
        IN  /\ read1 \in Reading /\ ~read1.first /\ read1.buffer = Buffered(s, word)
            /\ read1.res_buffer = s.res_buffer
            /\ read1.qies = IF start_of_time_sample(word)
                           THEN Append(s.qies, add_data(s.buffer)) ELSE s.qies
    BY <1>a, <2>2, ReadsOn, Zenon
  <2>5. QED
    BY <1>1, <2>1, <2>4, Zenon
<1>5. Len(c) \in 1 .. Len(c) /\ \A i \in 1 .. Len(c) : c[i] \in 0 .. j
  BY <1>0, CutsTyped, Zenon
<1>6. PICK f \in 1 .. k : f = PartStart(c[Len(c)])
  <2>1. c[Len(c)] \in 0 .. j
    BY <1>5
  <2>2. QED
    BY <2>1 DEF PartStart
<1>7. Buffered(s, words[k]) = BytesOf(words, f, k)
  <2>1. BytesOf(words, f, k) = BytesOf(words, f, j) \o Bytes(words[k])
    <3>1. \A i \in f .. k : words[i] \in Word
      OBVIOUS
    <3>2. QED
      BY <3>1, BytesGrow
  <2>2. QED
    BY <1>2, <1>3, <1>6, <2>1, Zenon DEF Buffered
<1>8. IsCuts(c, words, z, low, k)
  <2>1. \A p \in low .. k : p \in low .. j \/ p = k
    OBVIOUS
  <2>2. \A p \in low .. j : p \in low .. k
    OBVIOUS
  <2>3. QED
    BY <2>1, <2>2, Zenon DEF IsCuts
<1>9. IsRead(read, c, words, z, low, k)
  BY <1>2, <1>4, <1>6, <1>7, Zenon DEF IsRead
<1>10. QED
  BY <1>1, <1>8, <1>9

(* A sample has begun, and the next one does.                              *)
LEMMA ReadBeginsNext ==
  ASSUME NEW words, NEW j \in Nat, NEW k \in Nat, k = j + 1, NEW low \in 1 .. k,
         NEW z \in BOOLEAN, \A i \in 1 .. k : words[i] \in Word, NEW s, ~(s.iword < 2),
         start_of_time_sample(words[k]), NEW c, c # << >>,
         IsCuts(c, words, z, low, j), IsRead(s, c, words, z, low, j)
  PROVE  /\ IsCuts(Append(c, k), words, z, low, k)
         /\ IsRead(ReadWord(s, words[k]), Append(c, k), words, z, low, k)
         /\ Append(c, k) # << >>
<1>0. low \in Nat
  OBVIOUS
<1>1. PICK read : read = ReadWord(s, words[k])
  OBVIOUS
<1>2. s \in Reading /\ ~s.first /\ s.buffer = BytesOf(words, PartStart(c[Len(c)]), j)
  BY DEF IsRead
<1>3. words[k] \in Word /\ Began(s, words[k])
  BY <1>2 DEF Began
<1>a. s \in Reading /\ ~(s.first /\ ~start_of_time_sample(words[k]))
  BY <1>2, Zenon
<1>4. /\ read \in Reading /\ ~read.first /\ read.buffer = Buffered(s, words[k])
      /\ read.res_buffer = s.res_buffer /\ read.qies = Append(s.qies, add_data(s.buffer))
  <2>1. PICK word \in Word : word = words[k]
    BY <1>3
  <2>2. ~(s.iword < 2) /\ ~s.first
    BY <1>2
  <2>3. start_of_time_sample(word) <=> start_of_time_sample(words[k])
    BY <2>1, Zenon
  <2>4. LET read1 == ReadWord(s, word)
        IN  /\ read1 \in Reading /\ ~read1.first /\ read1.buffer = Buffered(s, word)
            /\ read1.res_buffer = s.res_buffer
            /\ read1.qies = IF start_of_time_sample(word)
                           THEN Append(s.qies, add_data(s.buffer)) ELSE s.qies
    BY <1>a, <2>2, ReadsOn, Zenon
  <2>5. QED
    BY <1>1, <2>1, <2>4, Zenon
<1>5. PICK m \in Nat : m = Len(c) /\ c \in Seq(Nat) /\ m > 0
  <2>1. c \in Seq(Nat) /\ Len(c) \in Nat /\ Len(c) > 0
    BY <1>0, CutsTyped, Zenon
  <2>2. QED
    BY <2>1
<1>6. \A i \in 1 .. m : c[i] \in 0 .. j
  BY <1>0, <1>5, CutsTyped
<1>7. PICK d \in Seq(Nat) : /\ d = Append(c, k) /\ Len(d) = m + 1 /\ d[m + 1] = k
                            /\ \A i \in 1 .. m : d[i] = c[i]
  <2>1. /\ Append(c, k) \in Seq(Nat) /\ Len(Append(c, k)) = m + 1 /\ Append(c, k)[m + 1] = k
        /\ \A i \in 1 .. m : Append(c, k)[i] = c[i]
    BY <1>5
  <2>2. QED
    BY <2>1
<1>8. Buffered(s, words[k]) = BytesOf(words, k, k)
  <2>1. BytesOf(words, k, k) = BytesOf(words, k, j) \o Bytes(words[k])
    BY BytesGrow
  <2>2. BytesOf(words, k, j) = << >>
    BY NoBytes
  <2>3. QED
    BY <1>2, <1>3, <2>1, <2>2, Zenon DEF Buffered
<1>9. IsCuts(d, words, z, low, k)
  <2>1. ASSUME NEW i \in 1 .. m + 1, NEW h \in 1 .. i - 1 PROVE d[h] < d[i]
    <3>1. CASE i = m + 1
      <4>1. h \in 1 .. m
        BY <3>1
      <4>2. d[h] \in 0 .. j
        BY <1>6, <1>7, <4>1
      <4>3. QED
        BY <1>7, <3>1, <4>2
    <3>2. CASE i # m + 1
      <4>1. i \in 1 .. m /\ h \in 1 .. m
        BY <3>2
      <4>2. c[h] < c[i]
        BY <1>5, <4>1 DEF IsCuts
      <4>3. QED
        BY <1>7, <4>1, <4>2
    <3>3. QED
      BY <3>1, <3>2
  <2>2. ASSUME NEW i \in 1 .. m + 1
        PROVE  \/ z /\ d[i] = 0
               \/ d[i] \in low .. k /\ start_of_time_sample(words[d[i]])
    <3>1. CASE i = m + 1
      BY <1>7, <3>1
    <3>2. CASE i # m + 1
      <4>1. i \in 1 .. m
        BY <3>2
      <4>2. \/ z /\ c[i] = 0
            \/ c[i] \in low .. j /\ start_of_time_sample(words[c[i]])
        BY <1>5, <4>1 DEF IsCuts
      <4>3. QED
        BY <1>7, <4>1, <4>2
    <3>3. QED
      BY <3>1, <3>2
  <2>3. ASSUME NEW p \in low .. k, start_of_time_sample(words[p])
        PROVE  \E i \in 1 .. m + 1 : d[i] = p
    <3>1. CASE p = k
      BY <1>7, <3>1
    <3>2. CASE p # k
      <4>1. p \in low .. j
        BY <3>2
      <4>2. PICK i \in 1 .. m : c[i] = p
        BY <1>5, <2>3, <4>1 DEF IsCuts
      <4>3. i \in 1 .. m + 1 /\ d[i] = p
        BY <1>7, <4>2
      <4>4. QED
        BY <4>3
    <3>3. QED
      BY <3>1, <3>2
  <2>4. z => d[1] = 0
    <3>1. z => c[1] = 0
      BY DEF IsCuts
    <3>2. d[1] = c[1]
      BY <1>5, <1>7
    <3>3. QED
      BY <3>1, <3>2
  <2>5. QED
    BY <1>7, <2>1, <2>2, <2>3, <2>4 DEF IsCuts
<1>10. IsRead(read, d, words, z, low, k)
  <2>1. /\ Len(s.qies) = m - 1
        /\ \A t \in 1 .. m - 1 :
             s.qies[t] = add_data(BytesOf(words, PartStart(c[t]), c[t + 1] - 1))
    BY <1>5 DEF IsRead
  <2>2. PICK q \in Seq(QIE) : q = s.qies
    BY <1>2 DEF Reading
  <2>3. PICK new \in QIE : new = add_data(s.buffer)
    <3>1. s.buffer \in Seq(Nat)
      BY <1>2 DEF Reading
    <3>2. QED
      BY <3>1 DEF QIE
  <2>4. /\ Len(read.qies) = m /\ read.qies[m] = new
        /\ \A t \in 1 .. m - 1 : read.qies[t] = q[t]
    <3>1. read.qies = Append(q, new) /\ Len(q) = m - 1
      BY <1>4, <2>1, <2>2, <2>3
    <3>2. QED
      BY <3>1, <1>5
  <2>5. new = add_data(BytesOf(words, PartStart(d[m]), d[m + 1] - 1))
    <3>1. d[m] = c[m] /\ d[m + 1] - 1 = j
      BY <1>5, <1>7
    <3>2. QED
      BY <1>2, <1>5, <2>3, <3>1
  <2>6. ASSUME NEW t \in 1 .. m
        PROVE  read.qies[t] = add_data(BytesOf(words, PartStart(d[t]), d[t + 1] - 1))
    <3>1. CASE t = m
      BY <2>4, <2>5, <3>1
    <3>2. CASE t # m
      <4>1. t \in 1 .. m - 1 /\ d[t] = c[t] /\ d[t + 1] = c[t + 1]
        BY <1>7, <3>2
      <4>2. read.qies[t] = s.qies[t]
        BY <2>2, <2>4, <4>1
      <4>3. s.qies[t] = add_data(BytesOf(words, PartStart(c[t]), c[t + 1] - 1))
        BY <2>1, <4>1
      <4>4. QED
        BY <4>1, <4>2, <4>3
    <3>3. QED
      BY <3>1, <3>2
  <2>7. read.res_buffer = IF z THEN << >> ELSE BytesOf(words, low, d[1] - 1)
    <3>1. d[1] = c[1]
      BY <1>5, <1>7
    <3>2. QED
      BY <1>4, <3>1 DEF IsRead
  <2>8. read.buffer = BytesOf(words, PartStart(d[Len(d)]), k)
    <3>1. PartStart(d[Len(d)]) = k
      BY <1>7 DEF PartStart
    <3>2. QED
      BY <1>4, <1>8, <3>1
  <2>9. d # << >> /\ Len(d) - 1 = m
    BY <1>7
  <2>10. QED
    BY <1>4, <2>4, <2>6, <2>7, <2>8, <2>9 DEF IsRead
<1>11. d # << >>
  BY <1>7
<1>12. QED
  BY <1>1, <1>7, <1>9, <1>10, <1>11

(* A word more is read.                                                    *)
LEMMA LoopGoesOn ==
  ASSUME NEW words, NEW j \in Nat, NEW k \in Nat, k = j + 1, NEW low \in Nat,
         NEW z \in BOOLEAN, \A i \in 1 .. k : words[i] \in Word, NEW s,
         \/ z = TRUE /\ low = 1 /\ s.iword >= 2
         \/ z = FALSE /\ low = 3 /\ s.iword = j,
         NEW c, IsCuts(c, words, z, low, j), IsRead(s, c, words, z, low, j)
  PROVE  \E d : IsCuts(d, words, z, low, k) /\ IsRead(ReadWord(s, words[k]), d, words, z, low, k)
<1>2. s \in Reading /\ low \in Nat
  BY DEF IsRead
<1>3. s.iword \in Nat
  BY <1>2 DEF Reading
<1>4. CASE s.iword < 2
  <2>1. z = FALSE /\ low = 3 /\ k < low
    BY <1>3, <1>4
  <2>2. c = << >>
    <3>1. SUFFICES ASSUME c # << >> PROVE FALSE
      OBVIOUS
    <3>2. 1 \in 1 .. Len(c)
      <4>1. Len(c) \in Nat /\ Len(c) > 0
        BY <1>2, <3>1, CutsTyped, Zenon
      <4>2. QED
        BY <4>1
    <3>3. c[1] \in low .. j
      BY <2>1, <3>2 DEF IsCuts
    <3>4. QED
      BY <2>1, <3>3
  <2>3. IsCuts(<< >>, words, FALSE, low, j) /\ IsRead(s, << >>, words, FALSE, low, j)
    BY <2>1, <2>2, Zenon
  <2>4. words[k] \in Word
    OBVIOUS
  <2>5. /\ IsCuts(<< >>, words, FALSE, low, k)
        /\ IsRead(ReadWord(s, words[k]), << >>, words, FALSE, low, k)
    BY <1>2, <1>4, <2>1, <2>3, <2>4, ReadSkips, Zenon
  <2>6. QED
    BY <2>1, <2>5, Zenon
<1>5. CASE ~(s.iword < 2) /\ c = << >>
  <2>1. z = FALSE
    BY <1>5 DEF IsCuts
  <2>2. low <= k
    BY <1>3, <1>5, <2>1
  <2>3. IsCuts(<< >>, words, FALSE, low, j) /\ IsRead(s, << >>, words, FALSE, low, j)
    BY <1>5, <2>1, Zenon
  <2>4. \A i \in low .. k : words[i] \in Word
    OBVIOUS
  <2>5. CASE start_of_time_sample(words[k])
    <3>1. k > 0
      OBVIOUS
    <3>2. /\ IsCuts(<<k>>, words, FALSE, low, k)
          /\ IsRead(ReadWord(s, words[k]), <<k>>, words, FALSE, low, k)
      BY <1>2, <1>5, <2>2, <2>3, <2>4, <2>5, <3>1, ReadBegins, Zenon
    <3>3. QED
      BY <2>1, <3>2, Zenon
  <2>6. CASE ~start_of_time_sample(words[k])
    <3>2. /\ IsCuts(<< >>, words, FALSE, low, k)
          /\ IsRead(ReadWord(s, words[k]), << >>, words, FALSE, low, k)
      BY <1>2, <1>5, <2>2, <2>3, <2>4, <2>6, ReadGoesOnBefore, Zenon
    <3>3. QED
      BY <2>1, <3>2, Zenon
  <2>7. QED
    BY <2>5, <2>6
<1>6. CASE ~(s.iword < 2) /\ c # << >>
  <2>1. low \in 1 .. k
    BY <1>6
  <2>2. CASE start_of_time_sample(words[k])
    BY <1>6, <2>1, <2>2, ReadBeginsNext, Zenon
  <2>3. CASE ~start_of_time_sample(words[k])
    BY <1>6, <2>1, <2>3, ReadGoesOnIn, Zenon
  <2>4. QED
    BY <2>2, <2>3
<1>7. QED
  BY <1>4, <1>5, <1>6

(* All words of a fiber are read.                                          *)
IsLoop(s, c, words, z, low, start, n) ==
  /\ s = FoldLeft(ReadWord, start, words)
  /\ IsCuts(c, words, z, low, n) /\ IsRead(s, c, words, z, low, n)
  /\ z = FALSE => s.iword = n

LEMMA LoopReads ==
  ASSUME NEW n \in Nat, NEW words, DOMAIN words = 1 .. n, \A i \in 1 .. n : words[i] \in Word,
         NEW low \in Nat, NEW z \in BOOLEAN, NEW start \in Reading,
         \/ z = TRUE /\ low = 1 /\ start.iword >= 2
         \/ z = FALSE /\ low = 3 /\ start.iword = 0,
         NEW c0, IsCuts(c0, words, z, low, 0), IsRead(start, c0, words, z, low, 0)
  PROVE  \E s, c : IsLoop(s, c, words, z, low, start, n)
<1>1. PICK r : /\ r[0] = start
               /\ \A k \in 1 .. n : r[k] = ReadWord(r[k - 1], words[k])
               /\ FoldLeft(ReadWord, start, words) = r[n]
  <2>1. \E r : AreSteps(r, n, words, start)
    BY ReadSteps, Zenon
  <2>2. QED
    BY <2>1 DEF AreSteps
<1> DEFINE Counts1(k) == \/ z = TRUE /\ low = 1 /\ r[k].iword >= 2
                         \/ z = FALSE /\ low = 3 /\ r[k].iword = k
           Done(k) == \E c : IsCuts(c, words, z, low, k) /\ IsRead(r[k], c, words, z, low, k)
           T == {k \in 0 .. n : Counts1(k) /\ Done(k)}
<1>3. 0 \in T
  <2>1. Counts1(0)
    BY <1>1
  <2>2. Done(0)
    BY <1>1, Zenon
  <2>3. 0 \in 0 .. n
    OBVIOUS
  <2> HIDE DEF Done, Counts1
  <2>4. QED
    BY <2>1, <2>2, <2>3
<1>4. ASSUME NEW k \in 1 .. n, k - 1 \in T PROVE k \in T
  <2>1. PICK j \in Nat : j = k - 1
    OBVIOUS
  <2>2. j \in T
    BY <1>4, <2>1
  <2>3. Counts1(j) /\ Done(j)
    <3> HIDE DEF Done, Counts1
    <3>1. QED
      BY <2>2
  <2>4. PICK c : IsCuts(c, words, z, low, j) /\ IsRead(r[j], c, words, z, low, j)
    BY <2>3
  <2>5. \A i \in 1 .. k : words[i] \in Word
    OBVIOUS
  <2>6. k = j + 1 /\ k \in Nat /\ k \in 0 .. n
    BY <2>1
  <2>7. \E d : IsCuts(d, words, z, low, k) /\ IsRead(ReadWord(r[j], words[k]), d, words, z, low, k)
    BY <2>3, <2>4, <2>5, <2>6, LoopGoesOn, Zenon
  <2>8. r[k] = ReadWord(r[j], words[k])
    BY <1>1, <2>1
  <2>9. Done(k)
    BY <2>7, <2>8, Zenon
  <2>10. Counts1(k)
    <3>1. PICK s \in Reading : s = r[j]
      BY <2>4 DEF IsRead
    <3>2. PICK word \in Word : word = words[k]
      BY <2>5, <2>6
    <3>3. ReadWord(s, word).iword = s.iword + 1
      BY ReadWordCases
    <3>4. r[k].iword = r[j].iword + 1
      BY <2>8, <3>1, <3>2, <3>3, Zenon
    <3>5. r[j].iword \in Nat
      BY <3>1 DEF Reading
    <3>6. QED
      BY <2>3, <2>6, <3>4, <3>5
  <2> HIDE DEF Done, Counts1
  <2>12. QED
    BY <2>6, <2>9, <2>10
<1>5. n \in T
  <2> HIDE DEF T
  <2>1. QED
    BY <1>3, <1>4, Induct, Zenon
<1>6. Counts1(n) /\ Done(n)
  <2> HIDE DEF Done, Counts1
  <2>1. QED
    BY <1>5
<1>7. PICK c : IsCuts(c, words, z, low, n) /\ IsRead(r[n], c, words, z, low, n)
  BY <1>6
<1>8. z = FALSE => r[n].iword = n
  BY <1>6
<1>9. IsLoop(r[n], c, words, z, low, start, n)
  BY <1>1, <1>7, <1>8, Zenon DEF IsLoop
<1>10. QED
  BY <1>9, Zenon

-----------------------------------------------------------------------------
(* The list of the cuts in their order: their number, the last, the first, *)
(* the place of each and the next after it.                                *)
IsListOf(c, m, cuts) ==
  /\ c \in [1 .. m -> Nat]
  /\ \A i \in 1 .. m : \A j \in 1 .. i - 1 : c[j] < c[i]
  /\ cuts = {c[i] : i \in 1 .. m}

LEMMA ListOrders ==
  ASSUME NEW m \in Nat, NEW cuts, NEW c, IsListOf(c, m, cuts), NEW i \in 1 .. m, NEW t \in 1 .. m
  PROVE  c[i] <= c[t] <=> i <= t
<1>1. c[i] \in Nat /\ c[t] \in Nat
  BY DEF IsListOf
<1>2. i < t => c[i] < c[t]
  BY DEF IsListOf
<1>3. t < i => c[t] < c[i]
  BY DEF IsListOf
<1>4. QED
  BY <1>1, <1>2, <1>3

(* The place of a cut in their list is how many are not after it.          *)
LEMMA ListCounts ==
  ASSUME NEW m \in Nat, NEW cuts, NEW c, IsListOf(c, m, cuts)
  PROVE  \A t \in 0 .. m : Cardinality({c[i] : i \in 1 .. t}) = t
<1> DEFINE S(t) == {c[i] : i \in 1 .. t}
           T == {t \in 0 .. m : IsFiniteSet(S(t)) /\ Cardinality(S(t)) = t}
<1>1. 0 \in T
  <2>1. S(0) = {} /\ 0 \in 0 .. m
    OBVIOUS
  <2>2. IsFiniteSet(S(0)) /\ Cardinality(S(0)) = 0
    BY <2>1, FS_EmptySet
  <2> HIDE DEF S
  <2>3. QED
    BY <2>1, <2>2
<1>2. ASSUME NEW k \in 1 .. m, k - 1 \in T PROVE k \in T
  <2>1. PICK j \in 0 .. m : j = k - 1 /\ k = j + 1
    BY <1>2
  <2>2. IsFiniteSet(S(j)) /\ Cardinality(S(j)) = j
    <3> HIDE DEF S
    <3>1. QED
      BY <1>2, <2>1
  <2>3. S(k) = S(j) \union {c[k]}
    <3>1. \A i : i \in 1 .. k <=> i \in 1 .. j \/ i = k
      BY <2>1
    <3>2. QED
      BY <3>1, Zenon
  <2>4. c[k] \notin S(j)
    <3>1. \A i \in 1 .. j : c[i] < c[k] /\ c[i] \in Nat /\ c[k] \in Nat
      BY <2>1 DEF IsListOf
    <3>2. \A i \in 1 .. j : c[i] # c[k]
      BY <3>1
    <3>3. QED
      BY <3>2, Zenon
  <2>5. IsFiniteSet(S(k)) /\ Cardinality(S(k)) = j + 1
    <3> HIDE DEF S
    <3>1. QED
      BY <2>2, <2>3, <2>4, FS_AddElement, Zenon
  <2>6. k \in 0 .. m
    OBVIOUS
  <2> HIDE DEF S
  <2>7. QED
    BY <2>1, <2>5, <2>6
<1>3. ASSUME NEW t \in 0 .. m PROVE t \in T
  <2>1. t \in Nat /\ \A k \in 1 .. t : k \in 1 .. m
    OBVIOUS
  <2> HIDE DEF T
  <2>2. \A k \in 1 .. t : k - 1 \in T => k \in T
    BY <1>2, <2>1
  <2>3. QED
    BY <1>1, <2>1, <2>2, Induct, Zenon
<1>4. QED
  BY <1>3

EndsWith(c, m, cuts) == Cardinality(cuts) = m /\ Max(cuts) = c[m] /\ Min(cuts) = c[1]

LEMMA ListEnds ==
  ASSUME NEW m \in Nat \ {0}, NEW cuts, NEW c, IsListOf(c, m, cuts)
  PROVE  EndsWith(c, m, cuts)
<1>1. cuts = {c[i] : i \in 1 .. m} /\ \A i \in 1 .. m : c[i] \in Nat /\ c[i] \in cuts
  BY DEF IsListOf
<1>2. Cardinality(cuts) = m
  <2>1. m \in 0 .. m
    OBVIOUS
  <2>2. QED
    BY <1>1, <2>1, ListCounts
<1>3. \A i \in 1 .. m : c[i] <= c[m] /\ c[1] <= c[i]
  <2>1. m \in 1 .. m /\ 1 \in 1 .. m
    OBVIOUS
  <2>2. QED
    BY <2>1, ListOrders
<1>4. c[m] \in cuts /\ c[1] \in cuts
  BY <1>1
<1>5. \A p \in cuts : p \in Nat /\ \E t \in 1 .. m : p = c[t]
  BY <1>1, Zenon
<1>6. \A p \in cuts : p <= c[m] /\ c[1] <= p
  BY <1>3, <1>5, Zenon
<1>7. Max(cuts) = c[m]
  <2>1. Max(cuts) \in cuts /\ \A p \in cuts : Max(cuts) >= p
    BY <1>4, <1>5, <1>6 DEF Max
  <2>2. QED
    BY <1>4, <1>5, <1>6, <2>1
<1>8. Min(cuts) = c[1]
  <2>1. Min(cuts) \in cuts /\ \A p \in cuts : Min(cuts) <= p
    BY <1>4, <1>5, <1>6 DEF Min
  <2>2. QED
    BY <1>4, <1>5, <1>6, <2>1
<1>9. QED
  BY <1>2, <1>7, <1>8 DEF EndsWith

IsPlaced(c, m, cuts, t) ==
  /\ c[t] \in cuts /\ PlaceOf(cuts, c[t]) = t
  /\ t = m => {q \in cuts : q > c[t]} = {}
  /\ t < m => /\ {q \in cuts : q > c[t]} # {}
              /\ Min({q \in cuts : q > c[t]}) = c[t + 1]

LEMMA ListPlaces ==
  ASSUME NEW m \in Nat \ {0}, NEW cuts, NEW c, IsListOf(c, m, cuts), NEW t \in 1 .. m
  PROVE  IsPlaced(c, m, cuts, t)
<1>1. /\ \A i \in 1 .. m : c[i] \in Nat /\ c[i] \in cuts
      /\ \A p \in cuts : \E i \in 1 .. m : p = c[i]
  BY DEF IsListOf
<1>2. \A i \in 1 .. m : c[i] <= c[t] <=> i <= t
  BY ListOrders
<1>3. {q \in cuts : q <= c[t]} = {c[i] : i \in 1 .. t}
  <2>1. ASSUME NEW q \in cuts, q <= c[t] PROVE \E i \in 1 .. t : q = c[i]
    <3>1. PICK i \in 1 .. m : q = c[i]
      BY <1>1
    <3>2. i \in 1 .. t
      BY <1>2, <2>1, <3>1
    <3>3. QED
      BY <3>1, <3>2
  <2>2. ASSUME NEW i \in 1 .. t PROVE c[i] \in cuts /\ c[i] <= c[t]
    <3>1. i \in 1 .. m /\ i <= t
      OBVIOUS
    <3>2. QED
      BY <1>1, <1>2, <3>1
  <2>3. QED
    BY <2>1, <2>2, Zenon
<1>4. PlaceOf(cuts, c[t]) = t
  <2>1. t \in 0 .. m
    OBVIOUS
  <2>2. QED
    BY <1>3, <2>1, ListCounts DEF PlaceOf
<1>5. ASSUME t = m PROVE {q \in cuts : q > c[t]} = {}
  <2>1. SUFFICES ASSUME NEW q \in cuts, q > c[t] PROVE FALSE
    OBVIOUS
  <2>2. PICK i \in 1 .. m : q = c[i]
    BY <1>1
  <2>3. c[i] <= c[t]
    BY <1>2, <1>5
  <2>4. QED
    BY <1>1, <2>1, <2>2, <2>3
<1>6. ASSUME t < m
      PROVE  /\ {q \in cuts : q > c[t]} # {}
             /\ Min({q \in cuts : q > c[t]}) = c[t + 1]
  <2> DEFINE L == {q \in cuts : q > c[t]}
  <2>1. PICK u \in 1 .. m : u = t + 1
    BY <1>6
  <2>2. c[u] \in L
    <3>1. ~(c[u] <= c[t])
      BY <1>2, <2>1
    <3>2. QED
      BY <1>1, <3>1
  <2>3. ASSUME NEW q \in L PROVE q \in Nat /\ c[u] <= q
    <3>1. PICK i \in 1 .. m : q = c[i]
      BY <1>1
    <3>2. ~(c[i] <= c[t])
      BY <1>1, <3>1, <2>3
    <3>3. u <= i
      BY <1>2, <2>1, <3>2
    <3>4. c[u] <= c[i]
      BY <3>3, ListOrders
    <3>5. QED
      BY <1>1, <3>1, <3>4
  <2> HIDE DEF L
  <2>4. Min(L) \in L /\ \A p \in L : Min(L) <= p
    BY <2>2, <2>3 DEF Min
  <2>5. Min(L) = c[u]
    BY <2>2, <2>3, <2>4
  <2>6. L # {}
    BY <2>2
  <2>7. QED
    BY <2>1, <2>5, <2>6 DEF L
<1>7. QED
  BY <1>1, <1>4, <1>5, <1>6 DEF IsPlaced

(* What is between the cuts, and which cut it is.                          *)
PartsAre(words, cuts, rest, c, m) ==
  /\ \A t \in 1 .. m : c[t] \in cuts /\ PlaceOf(cuts, c[t]) = t
  /\ \A t \in 1 .. m - 1 :
       PartOf(words, cuts, rest, c[t]) = BytesOf(words, PartStart(c[t]), c[t + 1] - 1)
  /\ PartOf(words, cuts, rest, c[m]) = BytesOf(words, PartStart(c[m]), Len(words)) \o rest

LEMMA PartsOf ==
  ASSUME NEW words, NEW rest, NEW m \in Nat \ {0}, NEW cuts, NEW c, IsListOf(c, m, cuts)
  PROVE  PartsAre(words, cuts, rest, c, m)
<1>1. ASSUME NEW t \in 1 .. m - 1
      PROVE  PartOf(words, cuts, rest, c[t]) = BytesOf(words, PartStart(c[t]), c[t + 1] - 1)
  <2>1. t \in 1 .. m /\ t < m
    OBVIOUS
  <2>2. /\ {q \in cuts : q > c[t]} # {}
        /\ Min({q \in cuts : q > c[t]}) = c[t + 1]
    BY <2>1, ListPlaces DEF IsPlaced
  <2>3. QED
    BY <2>2, Zenon DEF PartOf
<1>2. {q \in cuts : q > c[m]} = {}
  <2>1. m \in 1 .. m
    OBVIOUS
  <2>2. QED
    BY <2>1, ListPlaces, Zenon DEF IsPlaced
<1>3. PartOf(words, cuts, rest, c[m]) = BytesOf(words, PartStart(c[m]), Len(words)) \o rest
  BY <1>2, Zenon DEF PartOf
<1>4. ASSUME NEW t \in 1 .. m PROVE c[t] \in cuts /\ PlaceOf(cuts, c[t]) = t
  <2>1. IsPlaced(c, m, cuts, t)
    BY ListPlaces
  <2>2. QED
    BY <2>1, Zenon DEF IsPlaced
<1>5. QED
  BY <1>1, <1>3, <1>4, Zenon DEF PartsAre

(* The samples of a fiber: one of every part, in their order.              *)
AreSamples(words, cuts, rest, qies) ==
  /\ qies \in Seq(QIE) /\ Len(qies) = ManyOf(words, cuts, rest)
  /\ \A t \in 1 .. Len(qies) : \E p \in cuts :
       /\ PlaceOf(cuts, p) = t
       /\ qies[t] = add_data(PartOf(words, cuts, rest, p))

(* All words have been read, and the last of m samples has not been made.  *)
IsReadTo(s, c, m, words, rest) ==
  /\ s \in Reading /\ ~s.first /\ s.buffer = BytesOf(words, PartStart(c[m]), Len(words))
  /\ s.res_buffer = rest /\ Len(s.qies) = m - 1
  /\ \A t \in 1 .. m - 1 :
       s.qies[t] = add_data(BytesOf(words, PartStart(c[t]), c[t + 1] - 1))

(* When the last sample has been made, or not, all parts are samples.      *)
IsEnded(read, s, words, cuts, rest) ==
  /\ read.first = FALSE /\ read.iword = s.iword
  /\ AreSamples(words, cuts, rest, read.qies)

LEMMA EndIsRead ==
  ASSUME NEW words, NEW s, NEW m \in Nat \ {0}, NEW cuts, NEW rest, NEW c,
         IsListOf(c, m, cuts), IsReadTo(s, c, m, words, rest),
         NEW read, read = IF Len(Ends(s)) = 12
                          THEN [s EXCEPT !.qies = Append(@, add_data(Ends(s)))] ELSE s
  PROVE  IsEnded(read, s, words, cuts, rest)
<1>1. m \in 1 .. m
  OBVIOUS
<1>2. /\ s.res_buffer = rest /\ s \in Reading /\ ~s.first /\ s.buffer = BytesOf(words, PartStart(c[m]), Len(words))
      /\ Len(s.qies) = m - 1
      /\ \A t \in 1 .. m - 1 :
           s.qies[t] = add_data(BytesOf(words, PartStart(c[t]), c[t + 1] - 1))
  BY DEF IsReadTo
<1>3. /\ s.first \in BOOLEAN /\ s.buffer \in Seq(Nat) /\ s.res_buffer \in Seq(Nat)
      /\ s.qies \in Seq(QIE)
  BY <1>2 DEF Reading
<1>a. PartsAre(words, cuts, rest, c, m)
  BY PartsOf, Zenon
<1>4. Ends(s) = PartOf(words, cuts, rest, c[m]) /\ Max(cuts) = c[m] /\ Cardinality(cuts) = m
  <2>1. PartOf(words, cuts, rest, c[m]) = BytesOf(words, PartStart(c[m]), Len(words)) \o rest
    BY <1>a, Zenon DEF PartsAre
  <2>a. EndsWith(c, m, cuts)
    BY ListEnds, Zenon
  <2>2. Max(cuts) = c[m] /\ Cardinality(cuts) = m
    BY <2>a DEF EndsWith
  <2>3. QED
    BY <1>2, <2>1, <2>2 DEF Ends
<1>5. PICK new \in QIE : new = add_data(Ends(s))
  <2>1. Ends(s) \in Seq(Nat)
    BY <1>3 DEF Ends
  <2>2. QED
    BY <2>1 DEF QIE
<1> DEFINE Sampled(qies) ==
             \A t \in 1 .. Len(qies) : \E p \in cuts :
               /\ PlaceOf(cuts, p) = t
               /\ qies[t] = add_data(PartOf(words, cuts, rest, p))
<1>6. ASSUME NEW t \in 1 .. m
      PROVE  c[t] \in cuts /\ PlaceOf(cuts, c[t]) = t
  BY <1>a, Zenon DEF PartsAre
<1>7. ASSUME NEW t \in 1 .. m - 1
      PROVE  s.qies[t] = add_data(PartOf(words, cuts, rest, c[t]))
  <2>1. PartOf(words, cuts, rest, c[t]) = BytesOf(words, PartStart(c[t]), c[t + 1] - 1)
    BY <1>a, Zenon DEF PartsAre
  <2>2. QED
    BY <1>2, <2>1
<1>8. CASE Len(Ends(s)) = 12
  <2>1. ManyOf(words, cuts, rest) = m
    BY <1>4, <1>8 DEF ManyOf
  <2>2. PICK q \in Seq(QIE) : q = s.qies /\ Len(q) = m - 1
    BY <1>2, <1>3
  <2>3. PICK q1 \in Seq(QIE) : /\ q1 = Append(q, new) /\ Len(q1) = m /\ q1[m] = new
                               /\ \A t \in 1 .. m - 1 : q1[t] = q[t]
    <3>1. /\ Append(q, new) \in Seq(QIE) /\ Len(Append(q, new)) = m /\ Append(q, new)[m] = new
          /\ \A t \in 1 .. m - 1 : Append(q, new)[t] = q[t]
      BY <2>2
    <3>2. QED
      BY <3>1
  <2>4. read = [first |-> s.first, iword |-> s.iword, buffer |-> s.buffer,
                res_buffer |-> s.res_buffer, qies |-> q1]
    <3>1. s = [first |-> s.first, iword |-> s.iword, buffer |-> s.buffer,
               res_buffer |-> s.res_buffer, qies |-> s.qies]
      BY <1>2 DEF Reading
    <3>2. read = [s EXCEPT !.qies = q1]
      BY <1>5, <1>8, <2>2, <2>3
    <3>3. QED
      BY <3>1, <3>2
  <2>5. read.first = FALSE /\ read.iword = s.iword /\ read.qies = q1
    BY <1>2, <1>3, <2>4
  <2>6. ASSUME NEW t \in 1 .. m PROVE q1[t] = add_data(PartOf(words, cuts, rest, c[t]))
    <3>1. CASE t = m
      BY <1>4, <1>5, <2>3, <3>1
    <3>2. CASE t # m
      BY <1>7, <2>2, <2>3, <3>2
    <3>3. QED
      BY <3>1, <3>2
  <2>7. Sampled(q1)
    BY <1>6, <2>3, <2>6, Zenon
  <2>8. Len(q1) = ManyOf(words, cuts, rest) /\ q1 \in Seq(QIE)
    BY <2>1, <2>3, Zenon
  <2>9. AreSamples(words, cuts, rest, q1)
    BY <2>7, <2>8, Zenon DEF AreSamples
  <2>10. QED
    BY <2>5, <2>9, Zenon DEF IsEnded
<1>9. CASE Len(Ends(s)) # 12
  <2>1. ManyOf(words, cuts, rest) = m - 1
    BY <1>4, <1>9 DEF ManyOf
  <2>2. read.first = FALSE /\ read.iword = s.iword /\ read.qies = s.qies
    BY <1>2, <1>3, <1>9
  <2>3. Sampled(s.qies)
    <3>1. \A t \in 1 .. m - 1 : t \in 1 .. m
      OBVIOUS
    <3>2. QED
      BY <1>2, <1>6, <1>7, <3>1, Zenon
  <2>4. AreSamples(words, cuts, rest, s.qies)
    BY <1>2, <1>3, <2>1, <2>3, Zenon DEF AreSamples
  <2>5. QED
    BY <2>2, <2>4, Zenon DEF IsEnded
<1>10. QED
  BY <1>8, <1>9

-----------------------------------------------------------------------------
(* Fiber 1 is cut at its marks after the time, fiber 2 at all of its marks *)
(* and at its beginning, as fiber 1 has left it begun (z).                 *)
CutsOf(words, z) == IF z THEN {0} \union Marks(words, 1) ELSE Marks(words, 3)

RestOf(words, z) == IF z THEN << >> ELSE BytesOf(words, 3, Min(Marks(words, 3)) - 1)

(* The list of the cuts is that of the marks.                              *)
LEMMA CutsAreListed ==
  ASSUME NEW n \in Nat, NEW words, Len(words) = n, NEW low \in Nat, NEW z \in BOOLEAN,
         low = (IF z THEN 1 ELSE 3), NEW c, NEW m \in Nat \ {0}, c \in Seq(Nat), Len(c) = m,
         IsCuts(c, words, z, low, n)
  PROVE  IsListOf(c, m, CutsOf(words, z))
<1>1. c \in [1 .. m -> Nat] /\ c # << >>
  OBVIOUS
<1>2. /\ \A i \in 1 .. m : \A j \in 1 .. i - 1 : c[j] < c[i]
      /\ \A i \in 1 .. m : \/ z /\ c[i] = 0
                           \/ c[i] \in low .. n /\ start_of_time_sample(words[c[i]])
      /\ \A p \in low .. n : start_of_time_sample(words[p]) => \E i \in 1 .. m : c[i] = p
      /\ z => c[1] = 0
  BY DEF IsCuts
<1>3. CutsOf(words, z) = {p \in 0 .. n : \/ z /\ p = 0
                                         \/ p \in low .. n /\ start_of_time_sample(words[p])}
  BY DEF CutsOf, Marks
<1>4. ASSUME NEW i \in 1 .. m PROVE c[i] \in CutsOf(words, z)
  BY <1>2, <1>3
<1>5. ASSUME NEW p \in CutsOf(words, z) PROVE \E i \in 1 .. m : p = c[i]
  <2>1. CASE z /\ p = 0
    <3>1. 1 \in 1 .. m /\ p = c[1]
      BY <1>2, <2>1
    <3>2. QED
      BY <3>1
  <2>2. CASE p \in low .. n /\ start_of_time_sample(words[p])
    BY <1>2, <2>2
  <2>3. QED
    BY <1>3, <2>1, <2>2
<1>6. CutsOf(words, z) = {c[i] : i \in 1 .. m}
  BY <1>4, <1>5, Zenon
<1>7. QED
  BY <1>1, <1>2, <1>6 DEF IsListOf

FiberStart(first, iword) ==
  [first |-> first, iword |-> iword, buffer |-> << >>, res_buffer |-> << >>, qies |-> << >>]

(* What a fiber starts with.                                               *)
LEMMA FiberStarts ==
  ASSUME NEW words, NEW iword \in Nat
  PROVE  /\ FiberStart(TRUE, iword) \in Reading /\ FiberStart(FALSE, iword) \in Reading
         /\ IsCuts(<< >>, words, FALSE, 3, 0)
         /\ IsRead(FiberStart(TRUE, iword), << >>, words, FALSE, 3, 0)
         /\ IsCuts(<<0>>, words, TRUE, 1, 0)
         /\ IsRead(FiberStart(FALSE, iword), <<0>>, words, TRUE, 1, 0)
<1>1. << >> \in Seq(Nat) /\ << >> \in Seq(QIE) /\ Len(<< >>) = 0
  OBVIOUS
<1>2. FiberStart(TRUE, iword) \in Reading /\ FiberStart(FALSE, iword) \in Reading
  BY <1>1 DEF FiberStart, Reading
<1>3. IsCuts(<< >>, words, FALSE, 3, 0)
  BY DEF IsCuts
<1>4. BytesOf(words, 3, 0) = << >> /\ BytesOf(words, 1, 0) = << >>
  BY NoBytes
<1>5. IsRead(FiberStart(TRUE, iword), << >>, words, FALSE, 3, 0)
  BY <1>2, <1>4 DEF FiberStart, IsRead
<1>6. PICK c \in Seq(Nat) : c = <<0>> /\ Len(c) = 1 /\ c[1] = 0
  <2>1. <<0>> \in Seq(Nat) /\ Len(<<0>>) = 1 /\ <<0>>[1] = 0
    OBVIOUS
  <2>2. QED
    BY <2>1
<1>7. IsCuts(c, words, TRUE, 1, 0)
  <2>1. \A i \in 1 .. Len(c) : i = 1 /\ 1 .. i - 1 = {}
    BY <1>6
  <2>2. 1 .. 0 = {}
    OBVIOUS
  <2>3. QED
    BY <1>6, <2>1, <2>2 DEF IsCuts
<1>8. IsRead(FiberStart(FALSE, iword), c, words, TRUE, 1, 0)
  <2>1. PartStart(c[Len(c)]) = 1 /\ c # << >> /\ Len(c) - 1 = 0 /\ 1 .. Len(c) - 1 = {}
    BY <1>6 DEF PartStart
  <2>2. QED
    BY <1>1, <1>2, <1>4, <2>1 DEF FiberStart, IsRead
<1>9. QED
  BY <1>2, <1>3, <1>5, <1>6, <1>7, <1>8

(* A fiber that has a mark, or has been begun by the one before, is cut as *)
(* it should be.                                                           *)
IsFiberRead(words, z, read) ==
  /\ read.first = FALSE /\ AreSamples(words, CutsOf(words, z), RestOf(words, z), read.qies)
  /\ z = FALSE => read.iword \in Nat /\ read.iword >= 2

LEMMA FiberIsRead ==
  ASSUME NEW words \in Seq(Word), NEW z \in BOOLEAN, NEW first \in BOOLEAN, NEW iword \in Nat,
         NEW low \in Nat,
         \/ z = TRUE /\ first = FALSE /\ low = 1 /\ iword >= 2
         \/ z = FALSE /\ first = TRUE /\ low = 3 /\ iword = 0 /\ Marks(words, 3) # {}
  PROVE  IsFiberRead(words, z, ReadFiber(first, iword, words))
<1> DEFINE start == FiberStart(first, iword)
<1>1. PICK n \in Nat : n = Len(words) /\ DOMAIN words = 1 .. n /\ \A i \in 1 .. n : words[i] \in Word
  <2>1. /\ Len(words) \in Nat /\ DOMAIN words = 1 .. Len(words)
        /\ \A i \in 1 .. Len(words) : words[i] \in Word
    OBVIOUS
  <2>2. QED
    BY <2>1
<1>2. PICK c0 : start \in Reading /\ IsCuts(c0, words, z, low, 0) /\ IsRead(start, c0, words, z, low, 0)
  <2>1. CASE z = TRUE
    BY <2>1, FiberStarts, Zenon
  <2>2. CASE z = FALSE
    BY <2>2, FiberStarts, Zenon
  <2>3. QED
    BY <2>1, <2>2
<1>3. PICK s, c : IsLoop(s, c, words, z, low, start, n)
  <2>1. PICK begin \in Reading : begin = start
    BY <1>2
  <2>2. start.iword = iword
    BY DEF FiberStart
  <2>3. \/ z = TRUE /\ low = 1 /\ begin.iword >= 2
        \/ z = FALSE /\ low = 3 /\ begin.iword = 0
    BY <2>1, <2>2
  <2>4. IsCuts(c0, words, z, low, 0) /\ IsRead(begin, c0, words, z, low, 0)
    BY <1>2, <2>1
  <2> HIDE DEF start
  <2>5. \E s, c : IsLoop(s, c, words, z, low, begin, n)
    BY <1>1, <2>3, <2>4, LoopReads, Zenon
  <2>6. QED
    BY <2>1, <2>5
<1>4. /\ s = FoldLeft(ReadWord, start, words)
      /\ IsCuts(c, words, z, low, n) /\ IsRead(s, c, words, z, low, n)
      /\ z = FALSE => s.iword = n
  BY <1>3, Zenon DEF IsLoop
<1>5. c # << >>
  <2>1. CASE z = TRUE
    <3>1. Len(c) > 0 /\ c \in Seq(Nat)
      BY <1>4, <2>1 DEF IsCuts
    <3>2. QED
      BY <3>1
  <2>2. CASE z = FALSE
    <3>1. PICK p \in 3 .. n : start_of_time_sample(words[p])
      BY <1>1, <2>2 DEF Marks
    <3>2. PICK i \in 1 .. Len(c) : c[i] = p
      BY <1>4, <2>2, <3>1 DEF IsCuts
    <3>3. SUFFICES ASSUME c = << >> PROVE FALSE
      OBVIOUS
    <3>4. 1 .. Len(c) = {}
      BY <3>3
    <3>5. QED
      BY <3>2, <3>4
  <2>3. QED
    BY <2>1, <2>2
<1>6. PICK m \in Nat \ {0} : m = Len(c) /\ c \in Seq(Nat)
  <2>1. c \in Seq(Nat) /\ Len(c) \in Nat /\ Len(c) > 0
    BY <1>4, <1>5, CutsTyped, Zenon
  <2>2. QED
    BY <2>1
<1>7. IsListOf(c, m, CutsOf(words, z))
  <2>1. low = (IF z THEN 1 ELSE 3)
    OBVIOUS
  <2>2. QED
    BY <1>1, <1>4, <1>6, <2>1, CutsAreListed
<1>8. s.res_buffer = RestOf(words, z)
  <2>1. CASE z = TRUE
    BY <1>4, <2>1 DEF IsRead, RestOf
  <2>2. CASE z = FALSE
    <3>1. s.res_buffer = BytesOf(words, 3, c[1] - 1)
      BY <1>4, <1>5, <2>2 DEF IsRead
    <3>a. EndsWith(c, m, CutsOf(words, z))
      BY <1>7, ListEnds, Zenon
    <3>2. Min(CutsOf(words, z)) = c[1]
      BY <3>a DEF EndsWith
    <3>3. CutsOf(words, z) = Marks(words, 3)
      BY <2>2 DEF CutsOf
    <3>4. QED
      BY <2>2, <3>1, <3>2, <3>3 DEF RestOf
  <2>3. QED
    BY <2>1, <2>2
<1>9. IsReadTo(s, c, m, words, RestOf(words, z))
  BY <1>1, <1>4, <1>5, <1>6, <1>8 DEF IsRead, IsReadTo
<1>10. PICK read : read = IF Len(Ends(s)) = 12
                          THEN [s EXCEPT !.qies = Append(@, add_data(Ends(s)))] ELSE s
  OBVIOUS
<1>11. read = ReadFiber(first, iword, words)
  BY <1>4, <1>10 DEF ReadFiber, FiberStart
<1>12. /\ read.first = FALSE /\ read.iword = s.iword
       /\ AreSamples(words, CutsOf(words, z), RestOf(words, z), read.qies)
  <2> HIDE DEF start
  <2>1. IsEnded(read, s, words, CutsOf(words, z), RestOf(words, z))
    BY <1>7, <1>9, <1>10, EndIsRead, Zenon
  <2>2. QED
    BY <2>1, Zenon DEF IsEnded
<1>13. z = FALSE => read.iword \in Nat /\ read.iword >= 2
  <2>1. SUFFICES ASSUME z = FALSE PROVE read.iword \in Nat /\ read.iword >= 2
    OBVIOUS
  <2>2. PICK p \in 3 .. n : start_of_time_sample(words[p])
    BY <1>1, <2>1 DEF Marks
  <2>3. n >= 3
    OBVIOUS
  <2>4. QED
    BY <1>4, <1>12, <2>1, <2>3
<1>14. QED
  BY <1>11, <1>12, <1>13, Zenon DEF IsFiberRead

(* The end of a list of samples.                                           *)
IsLast(last, q, n) ==
  /\ last \in Seq(QIE) /\ Len(last) = n
  /\ \A t \in 1 .. n : last[t] = q[Len(q) - n + t]

LEMMA LastOfTyped ==
  ASSUME NEW q \in Seq(QIE), NEW n \in 0 .. Len(q)
  PROVE  IsLast(LastOf(q, n), q, n)
<1>1. PICK l \in Nat : l = Len(q) /\ n \in Nat /\ n <= l
  OBVIOUS
<1>2. \A i \in l - n + 1 .. l : q[i] \in QIE
  BY <1>1
<1>3. PICK a \in Int : a = l - n + 1
  <2>1. l - n + 1 \in Int
    BY <1>1
  <2>2. QED
    BY <2>1
<1>4. /\ SubSeq(q, a, l) \in Seq(QIE)
      /\ Len(SubSeq(q, a, l)) = IF a <= l THEN l - a + 1 ELSE 0
      /\ \A i \in 1 .. l - a + 1 : SubSeq(q, a, l)[i] = q[a + i - 1]
  <2>1. \A i \in a .. l : q[i] \in QIE
    BY <1>2, <1>3
  <2>2. l \in Int
    BY <1>1
  <2>3. QED
    BY <1>3, <2>1, <2>2, SubSeqProperties
<1>5. PICK last \in Seq(QIE) : last = LastOf(q, n) /\ last = SubSeq(q, a, l)
  BY <1>1, <1>3, <1>4 DEF LastOf
<1>6. Len(last) = n
  BY <1>1, <1>3, <1>4, <1>5
<1>7. ASSUME NEW t \in 1 .. n PROVE last[t] = q[Len(q) - n + t]
  <2>1. t \in 1 .. l - a + 1 /\ a + t - 1 = Len(q) - n + t
    BY <1>1, <1>3
  <2>2. QED
    BY <1>4, <1>5, <2>1
<1>8. QED
  BY <1>5, <1>6, <1>7, Zenon DEF IsLast

(* The last n of them are still made of the parts of their places.         *)
LEMMA LastIsCut ==
  ASSUME NEW words, NEW cuts, NEW rest, NEW q, AreSamples(words, cuts, rest, q),
         NEW n \in 0 .. Len(q), NEW last, IsLast(last, q, n)
  PROVE  IsCutOf(words, cuts, rest, last)
<1>1. PICK l \in Nat : l = Len(q) /\ l = ManyOf(words, cuts, rest) /\ n \in 0 .. l
  <2>1. q \in Seq(QIE) /\ Len(q) = ManyOf(words, cuts, rest)
    BY DEF AreSamples
  <2>2. QED
    BY <2>1
<1>2. DOMAIN last = 1 .. n /\ Len(last) = n
  BY DEF IsLast
<1>3. ASSUME NEW t \in 1 .. n
      PROVE  \E p \in cuts : /\ PlaceOf(cuts, p) = l - n + t
                             /\ last[t] = add_data(PartOf(words, cuts, rest, p))
  <2>1. PICK u \in 1 .. l : u = l - n + t
    BY <1>1
  <2>2. last[t] = q[u]
    BY <1>1, <2>1 DEF IsLast
  <2>3. PICK p \in cuts : PlaceOf(cuts, p) = u /\ q[u] = add_data(PartOf(words, cuts, rest, p))
    BY <1>1 DEF AreSamples
  <2>4. QED
    BY <2>1, <2>2, <2>3, Zenon
<1>4. QED
  BY <1>1, <1>2, <1>3, Zenon DEF IsCutOf

LEMMA MinOfTwo ==
  ASSUME NEW a \in Nat, NEW b \in Nat
  PROVE  Min({a, b}) = IF a < b THEN a ELSE b
<1>1. PICK m \in {a, b} : \A x \in {a, b} : m <= x
  <2>1. CASE a < b
    BY <2>1
  <2>2. CASE ~(a < b)
    BY <2>2
  <2>3. QED
    BY <2>1, <2>2
<1>2. Min({a, b}) \in {a, b} /\ \A x \in {a, b} : Min({a, b}) <= x
  BY <1>1, Zenon DEF Min
<1>3. QED
  BY <1>2

(* A fiber gives samples, whatever its words.                              *)
LEMMA ReadFiberTyped ==
  ASSUME NEW words \in Seq(Word), NEW first \in BOOLEAN, NEW iword \in Nat
  PROVE  ReadFiber(first, iword, words) \in Reading
<1> DEFINE start == FiberStart(first, iword)
<1>1. PICK n \in Nat : n = Len(words) /\ DOMAIN words = 1 .. n /\ \A i \in 1 .. n : words[i] \in Word
  <2>1. /\ Len(words) \in Nat /\ DOMAIN words = 1 .. Len(words)
        /\ \A i \in 1 .. Len(words) : words[i] \in Word
    OBVIOUS
  <2>2. QED
    BY <2>1
<1>2. start \in Reading
  <2>1. << >> \in Seq(Nat) /\ << >> \in Seq(QIE)
    OBVIOUS
  <2>2. QED
    BY <2>1 DEF FiberStart, Reading
<1>3. PICK r : AreSteps(r, n, words, start)
  <2> HIDE DEF start
  <2>1. QED
    BY <1>1, <1>2, ReadSteps, Zenon
<1> DEFINE T == {k \in 0 .. n : r[k] \in Reading}
<1>4. 0 \in T
  BY <1>2, <1>3 DEF AreSteps
<1>5. ASSUME NEW k \in 1 .. n, k - 1 \in T PROVE k \in T
  <2>1. r[k - 1] \in Reading /\ words[k] \in Word /\ k \in 0 .. n
    BY <1>1, <1>5
  <2>2. ReadWord(r[k - 1], words[k]) \in Reading
    BY <2>1, ReadWordTyped
  <2>3. r[k] = ReadWord(r[k - 1], words[k])
    BY <1>3 DEF AreSteps
  <2>4. QED
    BY <2>1, <2>2, <2>3
<1>6. n \in T
  <2> HIDE DEF T
  <2>1. QED
    BY <1>4, <1>5, Induct, Zenon
<1>7. PICK s \in Reading : s = FoldLeft(ReadWord, start, words)
  BY <1>3, <1>6 DEF AreSteps
<1>8. /\ s.first \in BOOLEAN /\ s.buffer \in Seq(Nat) /\ s.res_buffer \in Seq(Nat)
      /\ s.qies \in Seq(QIE) /\ s.iword \in Nat
  BY DEF Reading
<1>9. PICK q \in Seq(QIE) : q = Append(s.qies, add_data(Ends(s)))
  <2>1. Ends(s) \in Seq(Nat)
    BY <1>8 DEF Ends
  <2>2. add_data(Ends(s)) \in QIE
    BY <2>1 DEF QIE
  <2>3. Append(s.qies, add_data(Ends(s))) \in Seq(QIE)
    BY <1>8, <2>2
  <2>4. QED
    BY <2>3
<1>10. [s EXCEPT !.qies = q] \in Reading
  <2>1. s = [first |-> s.first, iword |-> s.iword, buffer |-> s.buffer,
             res_buffer |-> s.res_buffer, qies |-> s.qies]
    BY DEF Reading
  <2>2. [s EXCEPT !.qies = q] = [first |-> s.first, iword |-> s.iword, buffer |-> s.buffer,
                                 res_buffer |-> s.res_buffer, qies |-> q]
    BY <2>1
  <2>3. QED
    BY <1>8, <2>2 DEF Reading
<1>11. ReadFiber(first, iword, words) = IF Len(Ends(s)) = 12 THEN [s EXCEPT !.qies = q] ELSE s
  BY <1>7, <1>9 DEF ReadFiber, FiberStart
<1>12. QED
  BY <1>10, <1>11

(* The parts that begin at marks are the same with a cut at the beginning  *)
(* of the fiber and without, which is one place before them.               *)
SameParts(words, M, rest) ==
  \A p \in M : /\ PartOf(words, M, rest, p) = Part(words, M, rest, p)
               /\ PartOf(words, {0} \union M, rest, p) = Part(words, M, rest, p)

SamePlaces(M) ==
  /\ PlaceOf({0} \union M, 0) = 1
  /\ \A p \in M : PlaceOf(M, p) \in Nat /\ PlaceOf({0} \union M, p) = PlaceOf(M, p) + 1

SameMany(words, M, rest) ==
  /\ HowMany(words, M, rest) \in Nat
  /\ ManyOf(words, M, rest) = HowMany(words, M, rest)
  /\ ManyOf(words, {0} \union M, rest) = HowMany(words, M, rest) + 1

LEMMA PartsAreSame ==
  ASSUME NEW words, NEW rest, NEW n \in Nat, NEW M \in SUBSET (1 .. n)
  PROVE  SameParts(words, M, rest)
<1>1. ASSUME NEW p \in M
      PROVE  /\ PartStart(p) = p
             /\ {q \in {0} \union M : q > p} = {q \in M : q > p}
  BY DEF PartStart
<1>2. ASSUME NEW p \in M PROVE PartOf(words, M, rest, p) = Part(words, M, rest, p)
  BY <1>1, Zenon DEF PartOf, Part
<1>3. ASSUME NEW p \in M
      PROVE  PartOf(words, {0} \union M, rest, p) = Part(words, M, rest, p)
  <2>1. PICK later : later = {q \in M : q > p} /\ later = {q \in {0} \union M : q > p}
    BY <1>1
  <2>2. PartOf(words, {0} \union M, rest, p) =
          IF later = {} THEN BytesOf(words, PartStart(p), Len(words)) \o rest
                        ELSE BytesOf(words, PartStart(p), Min(later) - 1)
    BY <2>1, Zenon DEF PartOf
  <2>3. Part(words, M, rest, p) =
          IF later = {} THEN BytesOf(words, p, Len(words)) \o rest
                        ELSE BytesOf(words, p, Min(later) - 1)
    BY <2>1, Zenon DEF Part
  <2>4. QED
    BY <1>1, <2>2, <2>3, Zenon
<1>4. QED
  BY <1>2, <1>3, Zenon DEF SameParts

LEMMA PlacesAreSame ==
  ASSUME NEW n \in Nat, NEW M \in SUBSET (1 .. n)
  PROVE  SamePlaces(M)
<1>1. IsFiniteSet(1 .. n)
  BY FS_Interval
<1>2. ASSUME NEW L \in SUBSET M
      PROVE  Cardinality(L) \in Nat /\ Cardinality({0} \union L) = Cardinality(L) + 1
  <2>1. IsFiniteSet(L)
    <3>1. L \in SUBSET (1 .. n)
      OBVIOUS
    <3>2. QED
      BY <1>1, <3>1, FS_Subset, Zenon
  <2>0. 0 \notin L
    OBVIOUS
  <2>2. Cardinality(L) \in Nat
    BY <2>1, FS_CardinalityType
  <2>3. Cardinality(L \union {0}) = Cardinality(L) + 1
    BY <2>0, <2>1, FS_AddElement
  <2>4. {0} \union L = L \union {0}
    OBVIOUS
  <2>5. QED
    BY <2>2, <2>3, <2>4
<1>3. ASSUME NEW p \in M
      PROVE  PlaceOf(M, p) \in Nat /\ PlaceOf({0} \union M, p) = PlaceOf(M, p) + 1
  <2>1. PICK L \in SUBSET M : L = {q \in M : q <= p}
    OBVIOUS
  <2>2. {q \in {0} \union M : q <= p} = {0} \union L
    BY <2>1
  <2>3. QED
    BY <1>2, <2>1, <2>2, Zenon DEF PlaceOf
<1>4. PlaceOf({0} \union M, 0) = 1
  <2>1. {q \in {0} \union M : q <= 0} = {0}
    <3>1. 0 <= 0 /\ \A q \in M : ~(q <= 0)
      OBVIOUS
    <3>2. QED
      BY <3>1, Zenon
  <2>2. Cardinality({0}) = 1
    BY FS_Singleton
  <2>3. QED
    BY <2>1, <2>2, Zenon DEF PlaceOf
<1>5. QED
  BY <1>3, <1>4, Zenon DEF SamePlaces

LEMMA ManyAreSame ==
  ASSUME NEW words, NEW rest, NEW n \in Nat, NEW M \in SUBSET (1 .. n), M # {}
  PROVE  SameMany(words, M, rest)
<1>1. Max(M) \in M /\ \A q \in M : Max(M) >= q
  <2>1. PICK top \in M : top = Max(M) /\ \A q \in M : q <= top
    <3>1. Max(M) \in M /\ \A q \in M : q <= Max(M)
      BY MostOf
    <3>2. QED
      BY <3>1
  <2>2. QED
    BY <2>1
<1>2. Max({0} \union M) = Max(M)
  <2>1. PICK top \in M : top = Max(M) /\ \A q \in M : top >= q
    BY <1>1
  <2>2. top \in {0} \union M /\ \A q \in {0} \union M : top >= q
    BY <2>1
  <2>3. /\ Max({0} \union M) \in {0} \union M
        /\ \A q \in {0} \union M : Max({0} \union M) >= q
    BY <2>2, Zenon DEF Max
  <2>4. PICK x \in {0} \union M : x = Max({0} \union M) /\ x >= top
    BY <2>2, <2>3
  <2>5. top >= x
    BY <2>2
  <2>6. QED
    BY <2>1, <2>4, <2>5
<1>3. IsFiniteSet(M) /\ 0 \notin M
  <2>1. IsFiniteSet(1 .. n)
    BY FS_Interval
  <2>2. IsFiniteSet(M)
    BY <2>1, FS_Subset, Zenon
  <2>3. QED
    BY <2>2
<1>4. PICK k \in Nat : k = Cardinality(M) /\ k > 0
  <2>1. Cardinality(M) \in Nat
    BY <1>3, FS_CardinalityType
  <2>2. Cardinality(M) # 0
    BY <1>3, FS_EmptySet
  <2>3. QED
    BY <2>1, <2>2
<1>5. Cardinality({0} \union M) = k + 1
  <2>1. Cardinality(M \union {0}) = Cardinality(M) + 1
    BY <1>3, FS_AddElement
  <2>2. {0} \union M = M \union {0}
    OBVIOUS
  <2>3. QED
    BY <1>4, <2>1, <2>2
<1>6. PICK last : /\ last = Part(words, M, rest, Max(M))
                  /\ last = PartOf(words, M, rest, Max(M))
                  /\ last = PartOf(words, {0} \union M, rest, Max({0} \union M))
  <2>1. SameParts(words, M, rest)
    BY PartsAreSame
  <2>2. QED
    BY <1>1, <1>2, <2>1, Zenon DEF SameParts
<1>7. /\ HowMany(words, M, rest) = IF Len(last) = 12 THEN k ELSE k - 1
      /\ ManyOf(words, M, rest) = IF Len(last) = 12 THEN k ELSE k - 1
      /\ ManyOf(words, {0} \union M, rest) = IF Len(last) = 12 THEN k + 1 ELSE k + 1 - 1
  <2>1. HowMany(words, M, rest) = IF Len(last) = 12 THEN k ELSE k - 1
    BY <1>4, <1>6, Zenon DEF HowMany
  <2>2. ManyOf(words, M, rest) = IF Len(last) = 12 THEN k ELSE k - 1
    BY <1>4, <1>6, Zenon DEF ManyOf
  <2>3. ManyOf(words, {0} \union M, rest) = IF Len(last) = 12 THEN k + 1 ELSE k + 1 - 1
    <3>1. PICK C : C = {0} \union M /\ last = PartOf(words, C, rest, Max(C)) /\ Cardinality(C) = k + 1
      BY <1>5, <1>6
    <3>2. ManyOf(words, C, rest) = IF Len(last) = 12 THEN Cardinality(C) ELSE Cardinality(C) - 1
      BY <3>1, Zenon DEF ManyOf
    <3>3. ManyOf(words, C, rest) = IF Len(last) = 12 THEN k + 1 ELSE k + 1 - 1
      BY <3>1, <3>2
    <3>4. QED
      BY <3>1, <3>3
  <2>4. QED
    BY <2>1, <2>2, <2>3
<1>8. QED
  BY <1>4, <1>7 DEF SameMany

(* What is cut at marks only, as fiber 1, and from the beginning on, as    *)
(* fiber 2.                                                                *)
LEMMA MarksCut ==
  ASSUME NEW words, NEW rest, NEW n \in Nat, NEW M \in SUBSET (1 .. n), M # {}, NEW qies
  PROVE  /\ IsCutOf(words, M, rest, qies) => IsCut(words, M, rest, qies)
         /\ IsCutOf(words, {0} \union M, << >>, qies) /\ Len(qies) \in Nat
              /\ DOMAIN qies = 1 .. Len(qies) => IsCutFromMarks(words, M, qies)
<1>1. SameMany(words, M, rest) /\ SameParts(words, M, rest)
      /\ SameMany(words, M, << >>) /\ SameParts(words, M, << >>) /\ SamePlaces(M)
  BY PartsAreSame, PlacesAreSame, ManyAreSame
<1>2. ASSUME IsCutOf(words, M, rest, qies) PROVE IsCut(words, M, rest, qies)
  <2>1. SUFFICES ASSUME NEW t \in DOMAIN qies
                 PROVE  IsCutAt(words, M, rest, HowMany(words, M, rest) - Len(qies) + t, qies[t])
    BY DEF IsCut
  <2>2. PICK p \in M : /\ PlaceOf(M, p) = ManyOf(words, M, rest) - Len(qies) + t
                       /\ qies[t] = add_data(PartOf(words, M, rest, p))
    BY <1>2, Zenon DEF IsCutOf
  <2>3. /\ ManyOf(words, M, rest) = HowMany(words, M, rest)
        /\ PartOf(words, M, rest, p) = Part(words, M, rest, p)
    BY <1>1, Zenon DEF SameMany, SameParts
  <2>4. QED
    BY <2>2, <2>3, Zenon DEF IsCutAt
<1>3. ASSUME IsCutOf(words, {0} \union M, << >>, qies), Len(qies) \in Nat,
             DOMAIN qies = 1 .. Len(qies)
      PROVE  IsCutFromMarks(words, M, qies)
  <2>1. PICK h \in Nat : /\ h = HowMany(words, M, << >>)
                        /\ ManyOf(words, {0} \union M, << >>) = h + 1
    BY <1>1, Zenon DEF SameMany
  <2>2. PICK l \in Nat : l = Len(qies)
    BY <1>3
  <2>3. SUFFICES ASSUME NEW t \in DOMAIN qies, h - l + t >= 1
                 PROVE  IsCutAt(words, M, << >>, h - l + t, qies[t])
    BY <2>1, <2>2, Zenon DEF IsCutFromMarks
  <2>4. PICK p \in {0} \union M : /\ PlaceOf({0} \union M, p) = (h + 1) - l + t
                                 /\ qies[t] = add_data(PartOf(words, {0} \union M, << >>, p))
    BY <1>3, <2>1, <2>2, Zenon DEF IsCutOf
  <2>5. t \in 1 .. l
    BY <1>3, <2>2
  <2>6. p \in M
    <3>1. SUFFICES ASSUME p = 0 PROVE FALSE
      OBVIOUS
    <3>2. PlaceOf({0} \union M, p) = 1
      BY <1>1, <3>1 DEF SamePlaces
    <3>3. 1 = (h + 1) - l + t
      BY <2>4, <3>2, Zenon
    <3>4. QED
      BY <2>3, <2>5, <3>3
  <2>7. PICK place \in Nat : place = PlaceOf(M, p) /\ PlaceOf({0} \union M, p) = place + 1
    BY <1>1, <2>6 DEF SamePlaces
  <2>8. place + 1 = (h + 1) - l + t
    BY <2>4, <2>7, Zenon
  <2>9. place = h - l + t
    BY <2>5, <2>8
  <2>10. PartOf(words, {0} \union M, << >>, p) = Part(words, M, << >>, p)
    BY <1>1, <2>6, Zenon DEF SameParts
  <2>11. QED
    BY <2>4, <2>6, <2>7, <2>9, <2>10, Zenon DEF IsCutAt
<1>4. QED
  BY <1>2, <1>3

IsFirstCut(words, qies) ==
  IsCut(words, Marks(words, 3), BytesOf(words, 3, Min(Marks(words, 3)) - 1), qies)

(* Both fibers, of which as many samples are shown as the one with fewer   *)
(* has.                                                                    *)
LEMMA EventIsRead ==
  ASSUME NEW fiber1 \in Seq(Word), NEW fiber2 \in Seq(Word), NEW tse,
         tse = TSevent(fiber1, fiber2)
  PROVE  /\ tse.qie1_ \in Seq(QIE) /\ tse.qie2_ \in Seq(QIE)
         /\ Marks(fiber1, 3) # {} => IsFirstCut(fiber1, tse.qie1_)
         /\ HaveMarks(fiber1, fiber2) => AreCut(fiber1, fiber2, tse)
<1>1. PICK s1 \in Reading : s1 = ReadFiber(TRUE, 0, fiber1)
  <2>1. ReadFiber(TRUE, 0, fiber1) \in Reading
    BY ReadFiberTyped
  <2>2. QED
    BY <2>1
<1>2. s1.first \in BOOLEAN /\ s1.iword \in Nat /\ s1.qies \in Seq(QIE)
  BY DEF Reading
<1>3. PICK s2 \in Reading : s2 = ReadFiber(s1.first, s1.iword, fiber2)
  <2>1. ReadFiber(s1.first, s1.iword, fiber2) \in Reading
    BY <1>2, ReadFiberTyped
  <2>2. QED
    BY <2>1
<1>4. PICK q1 \in Seq(QIE), q2 \in Seq(QIE) : q1 = s1.qies /\ q2 = s2.qies
  BY <1>2 DEF Reading
<1>5. PICK l1 \in Nat, l2 \in Nat : l1 = Len(q1) /\ l2 = Len(q2)
  OBVIOUS
<1>6. PICK n \in Nat : n = (IF l1 < l2 THEN l1 ELSE l2)
  OBVIOUS
<1>7. n \in 0 .. Len(q1) /\ n \in 0 .. Len(q2)
  BY <1>5, <1>6
<1>8. PICK t1, t2 : t1 = LastOf(q1, n) /\ t2 = LastOf(q2, n)
  OBVIOUS
<1>9. IsLast(t1, q1, n) /\ IsLast(t2, q2, n)
  BY <1>7, <1>8, LastOfTyped
<1>10. tse.qie1_ = t1 /\ tse.qie2_ = t2
  BY <1>1, <1>3, <1>4, <1>5, <1>6, <1>8 DEF TSevent
<1>a. ASSUME Marks(fiber1, 3) # {} PROVE IsFirstCut(fiber1, t1)
  <2>1. PICK marks, rest : marks = Marks(fiber1, 3) /\ rest = BytesOf(fiber1, 3, Min(marks) - 1)
    OBVIOUS
  <2>2. IsFiberRead(fiber1, FALSE, ReadFiber(TRUE, 0, fiber1))
    <3>1. 3 \in Nat
      OBVIOUS
    <3>2. QED
      BY <1>a, <3>1, FiberIsRead
  <2>3. IsFiberRead(fiber1, FALSE, s1)
    BY <1>1, <2>2, Zenon
  <2>4. AreSamples(fiber1, marks, rest, q1)
    BY <1>4, <2>1, <2>3 DEF IsFiberRead, CutsOf, RestOf
  <2>5. IsCutOf(fiber1, marks, rest, t1)
    BY <1>7, <1>9, <2>4, LastIsCut, Zenon
  <2>6. PICK k \in Nat : k = Len(fiber1) /\ marks \in SUBSET (1 .. k) /\ marks # {}
    BY <1>a, <2>1 DEF Marks
  <2>7. IsCut(fiber1, marks, rest, t1)
    BY <2>5, <2>6, MarksCut, Zenon
  <2>8. QED
    BY <2>1, <2>7, Zenon DEF IsFirstCut
<1>11. ASSUME HaveMarks(fiber1, fiber2) PROVE AreCut(fiber1, fiber2, tse)
  <2>1. IsFiberRead(fiber1, FALSE, s1)
    <3>1. IsFiberRead(fiber1, FALSE, ReadFiber(TRUE, 0, fiber1))
      <4>1. 3 \in Nat
        OBVIOUS
      <4>2. QED
        BY <1>11, <4>1, FiberIsRead DEF HaveMarks
    <3>2. QED
      BY <1>1, <3>1, Zenon
  <2>2. s1.first = FALSE /\ s1.iword >= 2
    BY <2>1 DEF IsFiberRead
  <2>3. IsFiberRead(fiber2, TRUE, s2)
    <3>1. PICK i \in Nat : i = s1.iword /\ i >= 2
      BY <1>2, <2>2
    <3>2. IsFiberRead(fiber2, TRUE, ReadFiber(FALSE, i, fiber2))
      <4>1. 1 \in Nat
        OBVIOUS
      <4>2. QED
        BY <3>1, <4>1, FiberIsRead
    <3>3. QED
      BY <1>3, <2>2, <3>1, <3>2, Zenon
  <2>4. PICK marks1, marks2, rest : /\ marks1 = Marks(fiber1, 3) /\ marks2 = Marks(fiber2, 1)
                                    /\ rest = BytesOf(fiber1, 3, Min(marks1) - 1)
    OBVIOUS
  <2>5. /\ AreSamples(fiber1, marks1, rest, q1)
        /\ AreSamples(fiber2, {0} \union marks2, << >>, q2)
    BY <1>4, <2>1, <2>3, <2>4 DEF IsFiberRead, CutsOf, RestOf
  <2>6. IsCutOf(fiber2, {0} \union marks2, << >>, t2)
    BY <1>7, <1>9, <2>5, LastIsCut, Zenon
  <2>7. /\ l1 = ManyOf(fiber1, marks1, rest)
        /\ l2 = ManyOf(fiber2, {0} \union marks2, << >>)
    BY <1>5, <2>5, Zenon DEF AreSamples
  <2>8. Len(t1) = n /\ Len(t2) = n /\ DOMAIN t2 = 1 .. n
    BY <1>9 DEF IsLast
  <2>9. PICK k1 \in Nat, k2 \in Nat :
          /\ k1 = Len(fiber1) /\ marks1 \in SUBSET (1 .. k1) /\ marks1 # {}
          /\ k2 = Len(fiber2) /\ marks2 \in SUBSET (1 .. k2) /\ marks2 # {}
    BY <1>11, <2>4 DEF HaveMarks, Marks
  <2>10. IsCut(fiber1, marks1, rest, t1)
    BY <1>a, <2>4, <2>9, Zenon DEF IsFirstCut
  <2>11. IsCutFromMarks(fiber2, marks2, t2)
    BY <1>6, <2>6, <2>8, <2>9, MarksCut, Zenon
  <2>12. PICK n1 \in Nat, n2 \in Nat :
           /\ n1 = HowMany(fiber1, marks1, rest) /\ l1 = n1
           /\ n2 = HowMany(fiber2, marks2, << >>) /\ l2 = n2 + 1
    <3>1. SameMany(fiber1, marks1, rest) /\ SameMany(fiber2, marks2, << >>)
      BY <2>9, ManyAreSame
    <3>2. QED
      BY <2>7, <3>1, Zenon DEF SameMany
  <2>13. n <= n1 /\ n <= n2 + 1 /\ (n = n1 \/ n >= n2)
    BY <1>6, <2>12
  <2>14. QED
    BY <1>10, <2>4, <2>8, <2>10, <2>11, <2>12, <2>13, Zenon DEF AreCut
<1>12. t1 \in Seq(QIE) /\ t2 \in Seq(QIE)
  BY <1>9 DEF IsLast
<1>13. QED
  BY <1>10, <1>11, <1>a, <1>12, Zenon

-----------------------------------------------------------------------------
(* What is read of the file are words that it has.                         *)
LEMMA ReadTakesWords ==
  ASSUME PlayedInv, AreWords(packet), source = "file", Player!ReadSome, name' = name
  PROVE  AreWords(packet)'
<1>0. /\ name \in DOMAIN Streams /\ pos \in 0 .. Len(Stream)
      /\ packet \in Seq(Nat) /\ Len(packet) <= WordsPerEvent
  BY DEF PlayedInv
<1>1. Stream' = Stream
  BY DEF Stream
<1> DEFINE k == Player!Needed
<1>2. packet' = packet \o WordsAfter(pos, k)
  BY DEF Player!ReadSome, WordsAfter
<1>3. Len(Stream) \in Nat /\ Len(packet) \in Nat /\ pos \in Nat /\ DOMAIN Stream = 1 .. Len(Stream)
  BY <1>0, StreamIsIndexed
<1>4. k \in Nat /\ k <= Len(Stream) - pos
  BY <1>0, <1>3, NeededFits
<1> HIDE DEF k
<1>5. PICK m \in Nat, p \in Nat, l \in Nat : m = Len(packet) /\ p = pos /\ l = Len(Stream)
  BY <1>3
<1>6. PICK after \in Seq(Nat) : after = WordsAfter(p, k) /\ Len(after) = k
  <2>1. \A i \in 1 .. k : p + i \in Nat
    BY <1>4
  <2>2. [i \in 1 .. k |-> p + i] \in Seq(Nat) /\ Len([i \in 1 .. k |-> p + i]) = k
    BY <1>4, <2>1
  <2>3. QED
    BY <2>2 DEF WordsAfter
<1>7. \A i \in 1 .. k : after[i] = p + i
  BY <1>6 DEF WordsAfter
<1>8. PICK longer \in Seq(Nat) : /\ longer = packet \o after /\ Len(longer) = m + k
                                 /\ \A i \in 1 .. m : longer[i] = packet[i]
                                 /\ \A i \in m + 1 .. m + k : longer[i] = after[i - m]
  <2>1. /\ packet \o after \in Seq(Nat) /\ Len(packet \o after) = m + k
        /\ \A i \in 1 .. m : (packet \o after)[i] = packet[i]
        /\ \A i \in m + 1 .. m + k : (packet \o after)[i] = after[i - m]
    <3>1. PICK a \in Seq(Nat) : a = packet /\ Len(a) = m
      BY <1>0, <1>5
    <3>2. /\ a \o after \in Seq(Nat) /\ Len(a \o after) = m + k
          /\ \A i \in 1 .. m + k : (a \o after)[i] = IF i <= m THEN a[i] ELSE after[i - m]
      BY <1>6, <3>1, ConcatProperties
    <3>3. \A i \in 1 .. m : i \in 1 .. m + k /\ i <= m
      BY <1>4
    <3>4. \A i \in m + 1 .. m + k : i \in 1 .. m + k /\ ~(i <= m)
      BY <1>4
    <3>5. QED
      BY <3>1, <3>2, <3>3, <3>4
  <2>2. QED
    BY <2>1
<1>9. ASSUME NEW i \in 1 .. m + k PROVE longer[i] \in 1 .. l
  <2>1. CASE i <= m
    <3>1. i \in DOMAIN packet /\ longer[i] = packet[i]
      BY <1>0, <1>5, <1>8, <2>1
    <3>2. QED
      BY <1>3, <1>5, <3>1 DEF AreWords
  <2>2. CASE i > m
    <3>1. i - m \in 1 .. k
      BY <1>4, <2>2
    <3>2. longer[i] = p + (i - m)
      BY <1>7, <1>8, <2>2, <3>1
    <3>3. QED
      BY <1>4, <1>5, <3>1, <3>2
  <2>3. QED
    BY <1>4, <2>1, <2>2
<1>10. packet' = longer /\ DOMAIN longer = 1 .. m + k
  BY <1>2, <1>5, <1>6, <1>8
<1>11. QED
  BY <1>1, <1>3, <1>5, <1>9, <1>10 DEF AreWords

(* No step takes words from elsewhere.                                     *)
LEMMA StepsKeepWords ==
  ASSUME PlayedInv, WordsInv, [Next]_vars
  PROVE  WordsInv'
<1>1. CASE UNCHANGED <<source, name, packet, sent>>
  BY <1>1 DEF WordsInv, AreWords, Stream
<1>2. CASE source' = source /\ source # "file"
  BY <1>2 DEF WordsInv
<1>3. CASE Captan
  BY <1>2, <1>3 DEF Captan
<1>4. CASE Play
  <2>1. /\ source = "file" /\ source' = source /\ name' = name
        /\ AreWords(packet) /\ \A k \in DOMAIN sent : AreWords(sent[k].words)
        /\ sent \in Seq([words : Seq(Nat), run : Nat]) /\ packet \in Seq(Nat)
        /\ run_number \in Nat
    BY <1>4 DEF Play, CaptanOnly, WordsInv, PlayedInv
  <2>2. Stream' = Stream
    BY <2>1 DEF Stream
  <2>3. CASE UNCHANGED <<packet, sent>>
    BY <1>1, <2>1, <2>3
  <2>4. CASE packet' = << >> /\ sent' = sent
    BY <2>1, <2>2, <2>4 DEF WordsInv, AreWords
  <2>5. CASE Player!ReadSome
    <3>1. AreWords(packet)' /\ sent' = sent
      BY <2>1, <2>5, ReadTakesWords DEF Player!ReadSome
    <3>2. QED
      BY <2>1, <2>2, <3>1 DEF WordsInv, AreWords
  <2>6. CASE Player!SendEvent
    <3>1. packet' = packet /\ sent' = Append(sent, [words |-> packet, run |-> run_number])
      BY <2>6 DEF Player!SendEvent, Player!file_
    <3>2. PICK event \in [words : Seq(Nat), run : Nat] :
            event = [words |-> packet, run |-> run_number] /\ event.words = packet
      <4>1. PICK w \in Seq(Nat), r \in Nat : w = packet /\ r = run_number
        BY <2>1
      <4>2. [words |-> w, run |-> r] \in [words : Seq(Nat), run : Nat]
        OBVIOUS
      <4>3. QED
        BY <4>1, <4>2
    <3>3. ASSUME NEW k \in DOMAIN sent' PROVE AreWords(sent'[k].words)
      <4>1. sent'[k] = event \/ (k \in DOMAIN sent /\ sent'[k] = sent[k])
        BY <2>1, <3>1, <3>2
      <4>2. QED
        BY <2>1, <3>2, <4>1
    <3>4. QED
      BY <2>1, <2>2, <3>1, <3>3 DEF WordsInv, AreWords
  <2>7. QED
    BY <1>4, <2>3, <2>4, <2>5, <2>6
       DEF Play, Player!RunControl, Player!RunLoop, Player!DoInitialise, Player!DoStartRun,
           Player!DoStopRun, Player!DoReset, Player!Top, Player!ReadFails
<1>5. CASE Configure
  <2>1. source # "file" \/ \E exists \in BOOLEAN : Player!DoConfigure(exists)
    BY <1>5 DEF Configure
  <2>2. source = "file" => UNCHANGED <<source, name, packet, sent>>
    BY <1>5, <2>1 DEF Configure, CaptanOnly, Player!DoConfigure
  <2>3. source' = source
    BY <1>5 DEF Configure
  <2>4. QED
    BY <1>1, <1>2, <2>2, <2>3
<1>6. CASE Monitor \/ UNCHANGED vars
  BY <1>1, <1>6 DEF Monitor, vars, captanVars, senderVars, playerVars
<1>7. QED
  BY <1>3, <1>4, <1>5, <1>6 DEF Next

LEMMA AlwaysWords == Spec => [](PlayedInv /\ WordsInv)
<1>1. Init => WordsInv
  BY DEF Init, CaptanInit, SenderInit, Player!PlayerInit, WordsInv, AreWords
<1>2. PlayedInv /\ WordsInv /\ [Next]_vars => WordsInv'
  BY StepsKeepWords
<1>3. QED
  BY <1>1, <1>2, AlwaysPlayed, PTL DEF Spec

-----------------------------------------------------------------------------
(* The tables, index by index.                                             *)
LEMMA Tables ==
  /\ nbins_[1] = 0 /\ nbins_[2] = 16 /\ nbins_[3] = 36 /\ nbins_[4] = 57
  /\ edges_[1] = -16 /\ edges_[2] = 34 /\ edges_[3] = 158 /\ edges_[4] = 419
  /\ edges_[5] = 517 /\ edges_[6] = 915 /\ edges_[7] = 1910 /\ edges_[8] = 3990
  /\ edges_[9] = 4780 /\ edges_[10] = 7960 /\ edges_[11] = 15900 /\ edges_[12] = 32600
  /\ edges_[13] = 38900 /\ edges_[14] = 64300 /\ edges_[15] = 128000 /\ edges_[16] = 261000
  /\ sense_[1] = 31 /\ sense_[2] = 62 /\ sense_[3] = 124 /\ sense_[4] = 248
  /\ sense_[5] = 248 /\ sense_[6] = 496 /\ sense_[7] = 992 /\ sense_[8] = 1984
  /\ sense_[9] = 1984 /\ sense_[10] = 3968 /\ sense_[11] = 7936 /\ sense_[12] = 15870
  /\ sense_[13] = 15870 /\ sense_[14] = 31740 /\ sense_[15] = 63490 /\ sense_[16] = 127000
BY SMT DEF nbins_, edges_, sense_

(* The largest of the first numbers.                                       *)
LEMMA MaxOfFirst ==
  ASSUME NEW k \in Nat, k >= 1
  PROVE  Max(1 .. k) = k
<1>1. k \in 1 .. k /\ \A j \in 1 .. k : k >= j
  OBVIOUS
<1>2. Max(1 .. k) \in 1 .. k /\ \A j \in 1 .. k : Max(1 .. k) >= j
  BY <1>1 DEF Max
<1>3. PICK x \in 1 .. k : x = Max(1 .. k)
  BY <1>2
<1>4. QED
  BY <1>1, <1>2, <1>3

(* The subrange that a count is in, and the one that ADC2Q takes it for.   *)
LEMMA SubrangeCases ==
  ASSUME NEW v \in 0 .. 63
  PROVE  LET m == Max({i \in 1 .. 4 : nbins_[i] <= v})
             s == Subrange(v)
         IN  \/ v < 16 /\ m = 1 /\ s = 0
             \/ v = 16 /\ m = 2 /\ s = 0
             \/ 16 < v /\ v < 36 /\ m = 2 /\ s = 1
             \/ v = 36 /\ m = 3 /\ s = 1
             \/ 36 < v /\ v < 57 /\ m = 3 /\ s = 2
             \/ v = 57 /\ m = 4 /\ s = 2
             \/ v > 57 /\ m = 4 /\ s = 3
<1> DEFINE I == {i \in 1 .. 4 : nbins_[i] <= v}
           J == {i \in 1 .. 3 : v > nbins_[i + 1]}
<1>1. \A i \in 1 .. 4 : i = 1 \/ i = 2 \/ i = 3 \/ i = 4
  OBVIOUS
<1>2. \A i \in 1 .. 3 : i = 1 \/ i = 2 \/ i = 3
  OBVIOUS
<1>3. nbins_[1 + 1] = 16 /\ nbins_[2 + 1] = 36 /\ nbins_[3 + 1] = 57
  BY Tables, SMT
<1>4. /\ v < 16 => I = 1 .. 1
      /\ v >= 16 /\ v < 36 => I = 1 .. 2
      /\ v >= 36 /\ v < 57 => I = 1 .. 3
      /\ v >= 57 => I = 1 .. 4
  BY <1>1, Tables, SMT
<1>5. /\ v <= 16 => J = {}
      /\ v > 16 /\ v <= 36 => J = 1 .. 1
      /\ v > 36 /\ v <= 57 => J = 1 .. 2
      /\ v > 57 => J = 1 .. 3
  BY <1>2, <1>3
<1>6. Max(1 .. 1) = 1 /\ Max(1 .. 2) = 2 /\ Max(1 .. 3) = 3 /\ Max(1 .. 4) = 4
  <2>1. 1 \in Nat /\ 1 >= 1 /\ 2 \in Nat /\ 2 >= 1 /\ 3 \in Nat /\ 3 >= 1
        /\ 4 \in Nat /\ 4 >= 1
    OBVIOUS
  <2>2. QED
    BY ONLY <2>1, MaxOfFirst, Zenon
<1>7. /\ Cardinality({}) = 0 /\ Cardinality(1 .. 1) = 1 /\ Cardinality(1 .. 2) = 2
      /\ Cardinality(1 .. 3) = 3
  <2>1. ASSUME NEW k \in Nat, k >= 1 PROVE Cardinality(1 .. k) = k
    <3>1. 1 \in Int /\ k \in Int
      OBVIOUS
    <3>2. Cardinality(1 .. k) = IF 1 > k THEN 0 ELSE k - 1 + 1
      BY <3>1, FS_Interval, Zenon
    <3>3. QED
      BY <2>1, <3>2
  <2>2. 1 \in Nat /\ 1 >= 1 /\ 2 \in Nat /\ 2 >= 1 /\ 3 \in Nat /\ 3 >= 1
    OBVIOUS
  <2>3. QED
    BY ONLY <2>1, <2>2, FS_EmptySet, Zenon
<1>8. Subrange(v) = Cardinality(J)
  BY DEF Subrange
<1> HIDE DEF I, J
<1>9. \/ v < 16 /\ Max(I) = 1 /\ Cardinality(J) = 0
      \/ v = 16 /\ Max(I) = 2 /\ Cardinality(J) = 0
      \/ 16 < v /\ v < 36 /\ Max(I) = 2 /\ Cardinality(J) = 1
      \/ v = 36 /\ Max(I) = 3 /\ Cardinality(J) = 1
      \/ 36 < v /\ v < 57 /\ Max(I) = 3 /\ Cardinality(J) = 2
      \/ v = 57 /\ Max(I) = 4 /\ Cardinality(J) = 2
      \/ v > 57 /\ Max(I) = 4 /\ Cardinality(J) = 3
  <2>1. v < 16 \/ v = 16 \/ (16 < v /\ v < 36) \/ v = 36 \/ (36 < v /\ v < 57) \/ v = 57 \/ v > 57
    OBVIOUS
  <2>2. /\ v < 16 => I = 1 .. 1 /\ J = {}
        /\ v = 16 => I = 1 .. 2 /\ J = {}
        /\ 16 < v /\ v < 36 => I = 1 .. 2 /\ J = 1 .. 1
        /\ v = 36 => I = 1 .. 3 /\ J = 1 .. 1
        /\ 36 < v /\ v < 57 => I = 1 .. 3 /\ J = 1 .. 2
        /\ v = 57 => I = 1 .. 4 /\ J = 1 .. 2
        /\ v > 57 => I = 1 .. 4 /\ J = 1 .. 3
    BY <1>4, <1>5
  <2>3. QED
    BY ONLY <1>6, <1>7, <2>1, <2>2
<1>10. QED
  BY <1>8, <1>9 DEF I

LEMMA HalfOfTwice ==
  ASSUME NEW x \in Int
  PROVE  (2 * x) \div 2 = x
OBVIOUS

(* Where a subrange begins, half a bin above the end of the one before is  *)
(* in the lower half of its first bin.                                     *)
LEMMA SubrangesMeet ==
  ASSUME NEW r \in 0 .. 3, NEW s \in 0 .. 2, NEW b, b = 4 * r + s + 1
  PROVE  LET charge == 20 * edges_[b] + 2 * (nbins_[s + 2] - nbins_[s + 1]) * sense_[b]
                         + sense_[b]
         IN  20 * edges_[b + 1] <= charge /\ charge <= 20 * edges_[b + 1] + sense_[b + 1]
<1>1. CASE r = 0 /\ s = 0
  <2>1. b = 1 /\ b + 1 = 2 /\ s + 1 = 1 /\ s + 2 = 2
    BY <1>1
  <2>2. QED
    BY <2>1, Tables, SMT
<1>2. CASE r = 0 /\ s = 1
  <2>1. b = 2 /\ b + 1 = 3 /\ s + 1 = 2 /\ s + 2 = 3
    BY <1>2
  <2>2. QED
    BY <2>1, Tables, SMT
<1>3. CASE r = 0 /\ s = 2
  <2>1. b = 3 /\ b + 1 = 4 /\ s + 1 = 3 /\ s + 2 = 4
    BY <1>3
  <2>2. QED
    BY <2>1, Tables, SMT
<1>4. CASE r = 1 /\ s = 0
  <2>1. b = 5 /\ b + 1 = 6 /\ s + 1 = 1 /\ s + 2 = 2
    BY <1>4
  <2>2. QED
    BY <2>1, Tables, SMT
<1>5. CASE r = 1 /\ s = 1
  <2>1. b = 6 /\ b + 1 = 7 /\ s + 1 = 2 /\ s + 2 = 3
    BY <1>5
  <2>2. QED
    BY <2>1, Tables, SMT
<1>6. CASE r = 1 /\ s = 2
  <2>1. b = 7 /\ b + 1 = 8 /\ s + 1 = 3 /\ s + 2 = 4
    BY <1>6
  <2>2. QED
    BY <2>1, Tables, SMT
<1>7. CASE r = 2 /\ s = 0
  <2>1. b = 9 /\ b + 1 = 10 /\ s + 1 = 1 /\ s + 2 = 2
    BY <1>7
  <2>2. QED
    BY <2>1, Tables, SMT
<1>8. CASE r = 2 /\ s = 1
  <2>1. b = 10 /\ b + 1 = 11 /\ s + 1 = 2 /\ s + 2 = 3
    BY <1>8
  <2>2. QED
    BY <2>1, Tables, SMT
<1>9. CASE r = 2 /\ s = 2
  <2>1. b = 11 /\ b + 1 = 12 /\ s + 1 = 3 /\ s + 2 = 4
    BY <1>9
  <2>2. QED
    BY <2>1, Tables, SMT
<1>10. CASE r = 3 /\ s = 0
  <2>1. b = 13 /\ b + 1 = 14 /\ s + 1 = 1 /\ s + 2 = 2
    BY <1>10
  <2>2. QED
    BY <2>1, Tables, SMT
<1>11. CASE r = 3 /\ s = 1
  <2>1. b = 14 /\ b + 1 = 15 /\ s + 1 = 2 /\ s + 2 = 3
    BY <1>11
  <2>2. QED
    BY <2>1, Tables, SMT
<1>12. CASE r = 3 /\ s = 2
  <2>1. b = 15 /\ b + 1 = 16 /\ s + 1 = 3 /\ s + 2 = 4
    BY <1>12
  <2>2. QED
    BY <2>1, Tables, SMT
<1>13. (r = 0 \/ r = 1 \/ r = 2 \/ r = 3) /\ (s = 0 \/ s = 1 \/ s = 2)
  OBVIOUS
<1>14. QED
  BY <1>1, <1>2, <1>3, <1>4, <1>5, <1>6, <1>7, <1>8, <1>9, <1>10, <1>11, <1>12, <1>13, Zenon

(* What is in the tables is a number.                                      *)
LEMMA TablesTyped ==
  ASSUME NEW b \in 1 .. 16
  PROVE  edges_[b] \in Int /\ sense_[b] \in Nat
BY SMT DEF edges_, sense_

(* A charge is the mean of the bin of its count, or is in the lower half   *)
(* of it if it is the first one of its subrange.                           *)
IsMean(a) ==
  /\ ADC2Q(a) \in Int /\ MeanOf(a) \in Int /\ RoomOf(a) \in Int
  /\ MeanOf(a) - RoomOf(a) <= ADC2Q(a) /\ ADC2Q(a) <= MeanOf(a)

LEMMA ChargeIsMean ==
  ASSUME NEW a \in 1 .. 254
  PROVE  IsMean(a)
<1>1. PICK v \in 0 .. 63 : v = a % 64
  OBVIOUS
<1>2. PICK r \in 0 .. 3 : r = a \div 64
  OBVIOUS
<1> DEFINE m == Max({i \in 1 .. 4 : nbins_[i] <= v})
           s == Subrange(v)
           bin == 4 * r + s + 1
<1>3. ADC2Q(a) = 20 * edges_[4 * r + s + 1]
                   + 2 * (v - nbins_[s + 1]) * sense_[4 * r + s + 1] + sense_[4 * r + s + 1]
  <2>1. ~(a <= 0) /\ ~(a >= 255)
    OBVIOUS
  <2> HIDE DEF s
  <2>2. s = Subrange(v)
    BY DEF s
  <2>3. QED
    BY <1>1, <1>2, <2>1, <2>2, SMT DEF ADC2Q
<1>4. /\ BinOf(a) = 20 * edges_[4 * r + m] + 2 * (v - nbins_[m]) * sense_[4 * r + m]
      /\ BinWidth(a) = 2 * sense_[4 * r + m]
  BY <1>1, <1>2, Zenon DEF BinOf, BinWidth, SubrangeOf
<1>m. /\ MeanOf(a) = BinOf(a) + BinWidth(a) \div 2
      /\ RoomOf(a) = IF v \in {16, 36, 57} THEN BinWidth(a) \div 2 ELSE 0
      /\ RoomOf(a) \in {0, BinWidth(a) \div 2}
  <2>1. a # 0 /\ a # 255
    OBVIOUS
  <2>2. {nbins_[i] : i \in 2 .. 4} = {16, 36, 57}
    <3>1. \A i \in 2 .. 4 : i = 2 \/ i = 3 \/ i = 4
      OBVIOUS
    <3>2. 2 \in 2 .. 4 /\ 3 \in 2 .. 4 /\ 4 \in 2 .. 4
      OBVIOUS
    <3>3. nbins_[2] = 16 /\ nbins_[3] = 36 /\ nbins_[4] = 57
      BY Tables
    <3>4. QED
      BY ONLY <3>1, <3>2, <3>3
  <2>3. MeanOf(a) = BinOf(a) + BinWidth(a) \div 2
    BY <2>1, Zenon DEF MeanOf
  <2>4. RoomOf(a) = IF v \in {16, 36, 57} THEN BinWidth(a) \div 2 ELSE 0
    BY <1>1, <2>2, Zenon DEF RoomOf
  <2>5. QED
    BY <2>3, <2>4, Zenon
<1>5. \/ v < 16 /\ m = 1 /\ s = 0
      \/ v = 16 /\ m = 2 /\ s = 0
      \/ 16 < v /\ v < 36 /\ m = 2 /\ s = 1
      \/ v = 36 /\ m = 3 /\ s = 1
      \/ 36 < v /\ v < 57 /\ m = 3 /\ s = 2
      \/ v = 57 /\ m = 4 /\ s = 2
      \/ v > 57 /\ m = 4 /\ s = 3
  BY SubrangeCases
<1> HIDE DEF m, s
<1>6. s \in 0 .. 3 /\ m \in 1 .. 4
  BY <1>5
<1>7. PICK b \in 1 .. 16 : b = 4 * r + s + 1
  BY <1>6
<1>8. edges_[b] \in Int /\ sense_[b] \in Nat
  BY TablesTyped
<1>9. nbins_[m] \in Int /\ nbins_[s + 1] \in Int
  <2>1. (m = 1 \/ m = 2 \/ m = 3 \/ m = 4) /\ (s = 0 \/ s = 1 \/ s = 2 \/ s = 3)
    BY <1>6
  <2>2. nbins_[1] \in Int /\ nbins_[2] \in Int /\ nbins_[3] \in Int /\ nbins_[4] \in Int
    BY Tables, SMT
  <2>3. 0 + 1 = 1 /\ 1 + 1 = 2 /\ 2 + 1 = 3 /\ 3 + 1 = 4
    OBVIOUS
  <2>4. QED
    BY ONLY <2>1, <2>2, <2>3, SMT
<1>10. CASE m = s + 1
  <2>1. PICK t \in Int : t = 2 * (v - nbins_[s + 1])
    BY <1>9
  <2>2. PICK w \in Int : w = t * sense_[b]
    BY <1>8
  <2>3. 4 * r + m = b
    BY <1>6, <1>7, <1>10
  <2>4. /\ ADC2Q(a) = 20 * edges_[b] + w + sense_[b]
        /\ BinOf(a) = 20 * edges_[b] + w
        /\ BinWidth(a) = 2 * sense_[b]
    BY <1>3, <1>4, <1>7, <1>10, <2>1, <2>2, <2>3, Zenon
  <2>5. (2 * sense_[b]) \div 2 = sense_[b]
    BY <1>8, HalfOfTwice
  <2>6. MeanOf(a) = BinOf(a) + sense_[b] /\ RoomOf(a) \in {0, sense_[b]}
    BY <1>m, <2>4, <2>5, Zenon
  <2>7. ADC2Q(a) = MeanOf(a)
    BY <2>4, <2>6, Zenon
  <2>8. PICK x \in Int, y \in Nat :
          x = 20 * edges_[b] + w + sense_[b] /\ y = sense_[b] /\ ADC2Q(a) = x /\ MeanOf(a) = x
    BY <1>8, <2>4, <2>7, SMT
  <2>9. RoomOf(a) \in {0, y}
    BY <2>6, <2>8
  <2>10. QED
    BY <2>8, <2>9 DEF IsMean
<1>11. CASE m = s + 2
  <2>1. s \in 0 .. 2 /\ v = nbins_[s + 2] /\ v = nbins_[m]
    <3>1. \/ v = 16 /\ m = 2 /\ s = 0
          \/ v = 36 /\ m = 3 /\ s = 1
          \/ v = 57 /\ m = 4 /\ s = 2
      BY <1>5, <1>11
    <3>2. nbins_[2] = 16 /\ nbins_[3] = 36 /\ nbins_[4] = 57
      BY Tables, SMT
    <3>3. QED
      BY ONLY <3>1, <3>2, SMT
  <2>2. 4 * r + m = b + 1 /\ b + 1 \in 1 .. 16
    BY <1>7, <1>11, <2>1
  <2>3. edges_[b + 1] \in Int /\ sense_[b + 1] \in Nat
    BY <2>2, TablesTyped
  <2>4. 2 * (v - nbins_[m]) * sense_[4 * r + m] = 0
    <3>1. PICK w \in Int : w = sense_[4 * r + m]
      BY <2>2, <2>3
    <3>2. v - nbins_[m] = 0
      BY <2>1
    <3>3. QED
      BY <3>1, <3>2
  <2>5. /\ BinOf(a) = 20 * edges_[b + 1]
        /\ BinWidth(a) = 2 * sense_[b + 1]
    <3>1. BinOf(a) = 20 * edges_[b + 1] + 0
      BY <1>4, <2>2, <2>4, Zenon
    <3>2. BinWidth(a) = 2 * sense_[b + 1]
      BY <1>4, <2>2, Zenon
    <3>3. QED
      BY <2>3, <3>1, <3>2, SMT
  <2>6. ADC2Q(a) = 20 * edges_[b] + 2 * (nbins_[s + 2] - nbins_[s + 1]) * sense_[b] + sense_[b]
    BY <1>3, <1>7, <2>1, Zenon
  <2>7. /\ 20 * edges_[b + 1] <= ADC2Q(a)
        /\ ADC2Q(a) <= 20 * edges_[b + 1] + sense_[b + 1]
    BY <1>7, <2>1, <2>6, SubrangesMeet, Zenon
  <2>8. ADC2Q(a) \in Int
    <3>1. nbins_[s + 2] \in Int
      BY <2>1
    <3>2. PICK t \in Int : t = 2 * (nbins_[s + 2] - nbins_[s + 1])
      BY <1>9, <3>1
    <3>3. PICK w \in Int : w = t * sense_[b]
      BY <1>8
    <3>4. ADC2Q(a) = 20 * edges_[b] + w + sense_[b]
      BY <2>6, <3>2, <3>3, Zenon
    <3>5. QED
      BY <1>8, <3>4, SMT
  <2>9. (2 * sense_[b + 1]) \div 2 = sense_[b + 1]
    BY <2>3, HalfOfTwice
  <2>10. MeanOf(a) = 20 * edges_[b + 1] + sense_[b + 1]
    BY <1>m, <2>5, <2>9, Zenon
  <2>11. RoomOf(a) = sense_[b + 1]
    <3>1. v \in {16, 36, 57}
      BY <1>5, <1>11
    <3>2. QED
      BY <1>m, <2>5, <2>9, <3>1, Zenon
  <2>12. PICK x \in Int, y \in Nat : x = 20 * edges_[b + 1] /\ y = sense_[b + 1]
    <3>1. 20 * edges_[b + 1] \in Int
      BY <2>3, SMT
    <3>2. QED
      BY <2>3, <3>1
  <2>13. MeanOf(a) = x + y /\ RoomOf(a) = y /\ x <= ADC2Q(a) /\ ADC2Q(a) <= x + y
    BY <2>7, <2>10, <2>11, <2>12, Zenon
  <2>14. QED
    BY <2>8, <2>12, <2>13 DEF IsMean
<1>12. m = s + 1 \/ m = s + 2
  BY <1>5
<1>13. QED
  BY <1>10, <1>11, <1>12, Zenon

LEMMA ChargesTyped ==
  ASSUME NEW tse
  PROVE  /\ DOMAIN Charges(tse) = 0 .. 15
         /\ \A chan \in 0 .. 15 : Charges(tse)[chan] = sum_charge(tse, chan)
BY SMT DEF Charges, n_channels

(* Of a count without a bin it is the end of the range.                    *)
LEMMA ChargeOfCount ==
  ASSUME NEW a \in 0 .. 255
  PROVE  IsMean(a)
<1>1. CASE a \in 1 .. 254
  BY <1>1, ChargeIsMean
<1>2. CASE a = 0
  <2>1. a <= 0 /\ a \notin 1 .. 254
    BY <1>2
  <2>2. ADC2Q(a) = -16 * 20 /\ MeanOf(a) = 20 * edges_[1] /\ RoomOf(a) = 0
    BY <1>2, <2>1, SMT DEF ADC2Q, MeanOf, RoomOf
  <2>3. edges_[1] = -16
    BY Tables
  <2>4. QED
    BY <2>2, <2>3, SMT DEF IsMean
<1>3. CASE a = 255
  <2>1. ~(a <= 0) /\ a >= 255 /\ a \notin 1 .. 254 /\ a # 0
    BY <1>3
  <2>2. ADC2Q(a) = 350000 * 20 /\ MeanOf(a) = 20 * edges_[17] /\ RoomOf(a) = 0
    BY <1>3, <2>1, SMT DEF ADC2Q, MeanOf, RoomOf
  <2>3. edges_[17] = 350000
    BY SMT DEF edges_
  <2>4. QED
    BY <2>2, <2>3, SMT DEF IsMean
<1>4. QED
  BY <1>1, <1>2, <1>3

(* The charges of a channel are summed as their means are.                 *)
LEMMA ChargeSumsBins ==
  ASSUME NEW tse, tse.qie1_ \in Seq(QIE), tse.qie2_ \in Seq(QIE)
  PROVE  AreInBins(tse, Charges(tse))
<1> SUFFICES ASSUME NEW chan \in 0 .. 15
             PROVE  IsInBins(CountsOf(tse, chan), Charges(tse)[chan])
  BY ChargesTyped DEF AreInBins
<1> SUFFICES ASSUME NEW counts, counts = CountsOf(tse, chan),
                    \A t \in DOMAIN counts : counts[t] \in 0 .. 255
             PROVE  Charges(tse)[chan] \in
                      MeanSum(counts) - RoomSum(counts) .. MeanSum(counts)
  BY Zenon DEF IsInBins
<1>0. PICK qies : qies = SamplesOf(tse, chan)
  OBVIOUS
<1>1. qies \in Seq(QIE)
  BY <1>0 DEF SamplesOf
<1>2. PICK n \in Nat : DOMAIN qies = 1 .. n
  BY <1>1
<1>3. counts = [t \in 1 .. n |-> qies[t].adc[chan % 8]]
  BY <1>0, <1>2 DEF CountsOf
<1> DEFINE charges == [t \in 1 .. n |-> ADC2Q(counts[t])]
           means   == [t \in 1 .. n |-> MeanOf(counts[t])]
           rooms   == [t \in 1 .. n |-> RoomOf(counts[t])]
<1>4. ASSUME NEW t \in 1 .. n
      PROVE  /\ charges[t] \in Int /\ means[t] \in Int /\ rooms[t] \in Int
             /\ means[t] - rooms[t] <= charges[t] /\ charges[t] <= means[t]
  <2>1. PICK a \in 0 .. 255 : a = counts[t]
    BY <1>3
  <2>2. IsMean(a)
    BY ChargeOfCount
  <2>3. charges[t] = ADC2Q(a) /\ means[t] = MeanOf(a) /\ rooms[t] = RoomOf(a)
    BY <2>1
  <2>4. QED
    BY <2>2, <2>3 DEF IsMean
<1>5. charges \in [1 .. n -> Int] /\ means \in [1 .. n -> Int] /\ rooms \in [1 .. n -> Int]
  BY <1>4
<1>6. \A i \in 1 .. n : means[i] - rooms[i] <= charges[i] /\ charges[i] <= means[i]
  BY <1>4
<1>7. sum_charge(tse, chan) = SumOf(charges)
  <2>1. ChargesOf(tse, chan) = charges
    BY <1>0, <1>2, <1>3 DEF ChargesOf
  <2>2. QED
    BY <2>1 DEF sum_charge
<1> HIDE DEF charges, means, rooms
<1>8. SumOf(charges) \in SumOf(means) - SumOf(rooms) .. SumOf(means)
  BY <1>5, <1>6, SumBetween
<1>9. Charges(tse)[chan] = SumOf(charges)
  BY <1>7, ChargesTyped
<1>10. QED
  BY <1>3, <1>8, <1>9 DEF MeanSum, RoomSum, means, rooms

-----------------------------------------------------------------------------
(* A part that begins with a mark has its byte, and the cap ID of it is 3. *)
LEMMA MarkIsSecondByte ==
  ASSUME NEW words, NEW p \in Nat, NEW k \in Nat, p <= k, \A i \in p .. k : words[i] \in Word,
         start_of_time_sample(words[p]), NEW rest \in Seq(Nat)
  PROVE  /\ BytesOf(words, p, k) \in Seq(Nat)
         /\ CapId(BytesOf(words, p, k)) = 3
         /\ CapId(BytesOf(words, p, k) \o rest) = 3
<1>1. PICK n \in Nat : n = 2 * (k - p + 1) /\ n >= 2
  <2>1. 2 * (k - p + 1) \in Nat /\ 2 * (k - p + 1) >= 2
    OBVIOUS
  <2>2. QED
    BY <2>1
<1>2. PICK s \in Seq(Nat) : s = BytesOf(words, p, k) /\ Len(s) = n
  <2>1. BytesOf(words, p, k) \in Seq(Nat) /\ Len(BytesOf(words, p, k)) = n
    BY <1>1, BytesOfTyped
  <2>2. QED
    BY <2>1
<1>3. s[2] \in {188, 252}
  <2> DEFINE byte(j) == Bytes(words[p + (j - 1) \div 2])[1 + ((j - 1) % 2)]
  <2>1. s = [j \in 1 .. n |-> byte(j)]
    BY <1>1, <1>2, Zenon DEF BytesOf
  <2>2. 2 \in 1 .. n
    BY <1>1
  <2>3. s[2] = byte(2)
    BY <2>1, <2>2
  <2>4. p + (2 - 1) \div 2 = p /\ 1 + ((2 - 1) % 2) = 2
    OBVIOUS
  <2>5. byte(2) = Bytes(words[p])[2]
    BY <2>4, Zenon
  <2>6. Bytes(words[p])[2] = words[p] \div 256
    BY DEF Bytes
  <2>7. words[p] \div 256 \in {188, 252}
    BY DEF start_of_time_sample
  <2>8. QED
    BY <2>3, <2>5, <2>6, <2>7
<1>4. (s \o rest)[2] = s[2]
  <2>1. 2 \in 1 .. Len(s) + Len(rest) /\ 2 <= Len(s)
    BY <1>1, <1>2
  <2>2. QED
    BY <2>1, ConcatProperties
<1>5. (188 \div 4) % 4 = 3 /\ (252 \div 4) % 4 = 3
  OBVIOUS
<1>6. \A x \in {188, 252} : (x \div 4) % 4 = 3
  BY <1>5
<1>7. CapId(s) = 3 /\ CapId(s \o rest) = 3
  <2>1. PICK x \in {188, 252} : x = s[2] /\ (x \div 4) % 4 = 3
    BY <1>3, <1>6
  <2>2. CapId(s) = (s[2] \div 4) % 4 /\ CapId(s \o rest) = ((s \o rest)[2] \div 4) % 4
    BY Zenon DEF CapId
  <2>3. QED
    BY <1>4, <2>1, <2>2, Zenon
<1>8. QED
  BY <1>2, <1>7

(* All samples of fiber 1 begin with a mark.                               *)
LEMMA CutCapIds ==
  ASSUME NEW words \in Seq(Word), NEW qies, Marks(words, 3) # {},
         IsCut(words, Marks(words, 3), BytesOf(words, 3, Min(Marks(words, 3)) - 1), qies)
  PROVE  CapIdsAreMarks(qies)
<1>1. PICK marks, rest : /\ marks = Marks(words, 3) /\ rest = BytesOf(words, 3, Min(marks) - 1)
                         /\ IsCut(words, marks, rest, qies)
  OBVIOUS
<1>2. PICK n \in Nat : n = Len(words) /\ \A i \in 1 .. n : words[i] \in Word
  <2>1. Len(words) \in Nat /\ \A i \in 1 .. Len(words) : words[i] \in Word
    OBVIOUS
  <2>2. QED
    BY <2>1
<1>3. \A q \in marks : q \in 3 .. n /\ start_of_time_sample(words[q])
  BY <1>1, <1>2 DEF Marks
<1>4. ASSUME NEW L \in SUBSET marks, L # {} PROVE Min(L) \in L
  <2>1. L \in SUBSET (0 .. n)
    BY <1>3
  <2>2. PICK k \in L : \A j \in L : k <= j
    BY <1>4, <2>1, LeastOfPositions
  <2>3. QED
    BY <2>2, Zenon DEF Min
<1>5. rest \in Seq(Nat)
  <2>1. PICK k \in Nat : k = Min(marks) - 1 /\ 3 <= k + 1 /\ k <= n
    <3>1. Min(marks) \in 3 .. n
      BY <1>1, <1>3, <1>4
    <3>2. QED
      BY <3>1
  <2>2. \A i \in 3 .. k : words[i] \in Word
    BY <1>2, <2>1
  <2>3. BytesOf(words, 3, k) \in Seq(Nat)
    BY <2>1, <2>2, BytesOfTyped
  <2>4. QED
    BY <1>1, <2>1, <2>3
<1>6. ASSUME NEW p \in marks
      PROVE  CapId(Part(words, marks, rest, p)) = 3
  <2>1. p \in 3 .. n /\ start_of_time_sample(words[p]) /\ p \in Nat
    BY <1>3
  <2> DEFINE L == {q \in marks : q > p}
  <2>2. CASE L = {}
    <3>1. \A i \in p .. n : words[i] \in Word
      BY <1>2, <2>1
    <3>2. CapId(BytesOf(words, p, n) \o rest) = 3
      BY <1>5, <2>1, <3>1, MarkIsSecondByte
    <3>3. Part(words, marks, rest, p) = BytesOf(words, p, Len(words)) \o rest
      BY <2>2, Zenon DEF Part
    <3>4. QED
      BY <1>2, <2>1, <3>2, <3>3, Zenon
  <2>3. CASE L # {}
    <3>1. Min(L) \in L
      BY <1>4, <2>3
    <3>2. PICK k \in Nat : k = Min(L) - 1 /\ p <= k /\ k <= n
      <4>1. Min(L) \in 3 .. n /\ Min(L) > p
        BY <1>3, <3>1
      <4>2. Min(L) - 1 \in Nat /\ p <= Min(L) - 1 /\ Min(L) - 1 <= n
        BY <2>1, <4>1
      <4>3. QED
        BY <4>2, Zenon
    <3>3. \A i \in p .. k : words[i] \in Word
      BY <1>2, <2>1, <3>2
    <3>4. CapId(BytesOf(words, p, k)) = 3
      BY <1>5, <2>1, <3>2, <3>3, MarkIsSecondByte
    <3>5. Part(words, marks, rest, p) = BytesOf(words, p, Min(L) - 1)
      BY <2>3, Zenon DEF Part
    <3>6. QED
      BY <2>1, <3>2, <3>4, <3>5, Zenon
  <2>4. QED
    BY <2>2, <2>3
<1>7. ASSUME NEW t \in DOMAIN qies PROVE qies[t] = EmptyQIE \/ qies[t].cid = 3
  <2>1. PICK p \in marks : qies[t] = add_data(Part(words, marks, rest, p))
    BY <1>1 DEF IsCut, IsCutAt
  <2>2. PICK data : data = Part(words, marks, rest, p) /\ CapId(data) = 3
    BY <1>6
  <2>3. add_data(data) = EmptyQIE \/ add_data(data).cid = CapId(data)
    BY DEF add_data
  <2>4. QED
    BY <2>1, <2>2, <2>3
<1>8. QED
  BY <1>7, Zenon DEF CapIdsAreMarks

-----------------------------------------------------------------------------
(* The events that are sent are of words that the front end or the file    *)
(* has.                                                                    *)
HasBlock(event) == \E n \in Nat : BlockOf(event) \in [1 .. n -> Block]

(* Words of the stream make a block.                                       *)
LEMMA WordsMakeBlocks ==
  ASSUME name \in DOMAIN Streams, NEW words \in Seq(Nat), AreWords(words),
         NEW event, event.words = words
  PROVE  HasBlock(event)
<1>1. Streams[name] \in Seq(Word \X Word \X Word \X Word)
  BY StreamsAssumption
<1>2. \A i \in DOMAIN Streams[name] : Streams[name][i] \in Block
  BY <1>1 DEF Block
<1>3. \A i \in DOMAIN Stream : Stream[i] \in Block
  BY <1>2 DEF Stream
<1>4. PICK n \in Nat : DOMAIN words = 1 .. n
  OBVIOUS
<1>5. BlockOf(event) = [i \in 1 .. n |-> Stream[words[i]]]
  BY <1>4 DEF BlockOf
<1>6. \A i \in 1 .. n : Stream[words[i]] \in Block
  BY <1>3, <1>4 DEF AreWords
<1>7. QED
  BY <1>5, <1>6 DEF HasBlock

LEMMA ElementOf ==
  ASSUME NEW S, NEW s \in Seq(S), NEW k \in DOMAIN s
  PROVE  s[k] \in S
OBVIOUS

(* Those of the front end: what has been heard is of the stream.           *)
LEMMA TakenHaveBlocks ==
  ASSUME LineInv, PiecesInv, source = "captan", NEW k \in DOMAIN sent
  PROVE  HasBlock(sent[k])
<1>1. name \in DOMAIN Streams /\ IsLine(Len(Stream), at, heard, delivering, frames)
  BY DEF LineInv
<1>2. DOMAIN Stream = 1 .. Len(Stream) /\ Len(Stream) \in Nat
  BY <1>1, StreamIsIndexed
<1>3. /\ at \in Nat /\ at <= Len(Stream) + 1
      /\ \A q \in heard : q \in Nat /\ 1 <= q /\ q < at
  BY <1>1 DEF IsLine
<1>4. \A q \in heard : q \in DOMAIN Stream
  BY <1>2, <1>3
<1>a. AreEvents(heard, HeardEnds, sent)
  BY DEF PiecesInv
<1>b. sent[k].words \in Seq(Nat) /\ \E e : ToSet(sent[k].words) = Piece(heard, HeardEnds, e)
  <2>1. sent \in Seq([words : Seq(Nat), run : Nat])
    BY <1>a DEF AreEvents
  <2>2. sent[k] \in [words : Seq(Nat), run : Nat]
    BY <2>1, ElementOf
  <2>3. QED
    BY <1>a, <2>2 DEF AreEvents
<1>5. PICK words \in Seq(Nat) : words = sent[k].words
  BY <1>b
<1>6. PICK e : ToSet(words) = Piece(heard, HeardEnds, e)
  BY <1>b, <1>5
<1>7. \A i \in DOMAIN words : words[i] \in heard
  BY <1>6 DEF ToSet, Piece
<1>8. AreWords(words)
  BY <1>4, <1>7 DEF AreWords
<1>9. QED
  BY <1>1, <1>5, <1>8, WordsMakeBlocks

(* Those of the file.                                                      *)
LEMMA PlayedHaveBlocks ==
  ASSUME PlayedInv, WordsInv, source = "file", NEW k \in DOMAIN sent
  PROVE  HasBlock(sent[k])
<1>1. name \in DOMAIN Streams /\ sent \in Seq([words : Seq(Nat), run : Nat])
  BY DEF PlayedInv
<1>a. sent[k] \in [words : Seq(Nat), run : Nat]
  BY <1>1, ElementOf
<1>b. sent[k].words \in Seq(Nat)
  BY <1>a
<1>2. PICK words \in Seq(Nat) : words = sent[k].words
  BY <1>b
<1>3. AreWords(words)
  BY <1>2 DEF WordsInv
<1>4. QED
  BY <1>1, <1>2, <1>3, WordsMakeBlocks

(* The events keep their source.                                           *)
IsSource == source \in {"captan", "file"}

LEMMA SourceIsKnown == Spec => []IsSource
<1>1. Init => IsSource
  BY DEF Init, IsSource
<1>2. IsSource /\ [Next]_vars => IsSource'
  BY DEF Next, Captan, Play, Configure, Monitor, vars, IsSource
<1>3. QED
  BY <1>1, <1>2, PTL DEF Spec

(* The event that the monitor receives is one that has been sent, and of   *)
(* words.                                                                  *)
LEMMA SeenHasBlock ==
  ASSUME IsSource, LineInv, PiecesInv, PlayedInv, WordsInv, BookedInv,
         seen < Len(sent)
  PROVE  HasBlock(sent[seen + 1])
<1>1. seen \in Nat
  BY DEF BookedInv
<1>2. sent \in Seq([words : Seq(Nat), run : Nat])
  <2>1. CASE source = "captan"
    BY <2>1 DEF PiecesInv, AreEvents
  <2>2. CASE source = "file"
    BY <2>2 DEF PlayedInv
  <2>3. QED
    BY <2>1, <2>2 DEF IsSource
<1>3. seen + 1 \in DOMAIN sent
  BY <1>1, <1>2
<1>4. PICK k \in DOMAIN sent : k = seen + 1
  BY <1>3
<1>5. HasBlock(sent[k])
  <2>1. CASE source = "captan"
    BY <2>1, TakenHaveBlocks
  <2>2. CASE source = "file"
    BY <2>2, PlayedHaveBlocks
  <2>3. QED
    BY <2>1, <2>2 DEF IsSource
<1>6. QED
  BY <1>4, <1>5

(* What is shown of one event.                                             *)
IsDecoded(fiber1, fiber2, tse, charge) ==
  /\ HaveMarks(fiber1, fiber2) => AreCut(fiber1, fiber2, tse)
  /\ Marks(fiber1, 3) # {} => CapIdsAreMarks(tse.qie1_)
  /\ AreInBins(tse, charge)

(* Any words are decoded so.                                               *)
LEMMA EventIsDecoded ==
  ASSUME NEW fiber1 \in Seq(Word), NEW fiber2 \in Seq(Word), NEW tse,
         tse = TSevent(fiber1, fiber2)
  PROVE  IsDecoded(fiber1, fiber2, tse, Charges(tse))
<1>1. PICK t1, t2 : t1 = tse.qie1_ /\ t2 = tse.qie2_
  OBVIOUS
<1>2. /\ tse.qie1_ \in Seq(QIE) /\ tse.qie2_ \in Seq(QIE)
      /\ Marks(fiber1, 3) # {} => IsFirstCut(fiber1, tse.qie1_)
      /\ HaveMarks(fiber1, fiber2) => AreCut(fiber1, fiber2, tse)
  BY EventIsRead
<1>3. AreInBins(tse, Charges(tse))
  BY <1>2, ChargeSumsBins
<1>4. ASSUME Marks(fiber1, 3) # {} PROVE CapIdsAreMarks(t1)
  <2>1. IsFirstCut(fiber1, t1)
    BY <1>1, <1>2, <1>4, Zenon
  <2>2. IsCut(fiber1, Marks(fiber1, 3), BytesOf(fiber1, 3, Min(Marks(fiber1, 3)) - 1), t1)
    BY <2>1, Zenon DEF IsFirstCut
  <2>3. QED
    BY <1>4, <2>2, CutCapIds
<1>5. QED
  BY <1>1, <1>2, <1>3, <1>4, Zenon DEF IsDecoded

LEMMA DecodedIs ==
  EventsAreDecoded <=>
    \A fill \in plots : IsDecoded(FiberOf(fill, 1), FiberOf(fill, 2), fill.tse, fill.charge)
BY Zenon DEF EventsAreDecoded, SamplesAreCut, CapIdIsNotRead, ChargesAreInBins, IsDecoded

(* The monitor shows of the event it receives what TSevent makes of it;    *)
(* all other steps show none, and what is shown stays what it is.          *)
LEMMA StepsKeepDecoded ==
  ASSUME IsSource, LineInv, PiecesInv, PlayedInv, WordsInv, BookedInv,
         EventsAreDecoded, [Next]_vars
  PROVE  EventsAreDecoded'
<1> DEFINE Now(fill) ==
             IsDecoded(FiberOf(fill, 1), FiberOf(fill, 2), fill.tse, fill.charge)
<1>0. EventsAreDecoded' <=> \A fill \in plots' : Now(fill)'
  BY Zenon DEF EventsAreDecoded, SamplesAreCut, CapIdIsNotRead, ChargesAreInBins, IsDecoded
<1>1. ASSUME UNCHANGED <<name, sent>>, NEW fill PROVE Now(fill)' <=> Now(fill)
  <2>1. FiberOf(fill, 1)' = FiberOf(fill, 1) /\ FiberOf(fill, 2)' = FiberOf(fill, 2)
    BY <1>1 DEF FiberOf, BlockOf, Stream
  <2>2. QED
    BY <2>1
<1>2. CASE Captan \/ Play \/ Configure
  <2>1. plots' = {}
    BY <1>2 DEF Captan, Play, Configure, MonitorWaits, AtConfiguration
  <2>2. QED
    BY <1>0, <2>1
<1>3. CASE Monitor
  <2>1. seen < Len(sent) /\ seen' = seen + 1 /\ UNCHANGED <<name, sent>>
    BY <1>3 DEF Monitor, captanVars, senderVars
  <2>2. PICK k : k = seen + 1 /\ HasBlock(sent[k])
    BY <2>1, SeenHasBlock
  <2>3. PICK block : block = BlockOf(sent[k]) /\ AtEventReception(k, block)
    BY <1>3, <2>1, <2>2 DEF Monitor
  <2>4. PICK n \in Nat : block \in [1 .. n -> Block]
    BY <2>2, <2>3 DEF HasBlock
  <2>5. PICK fiber1 \in Seq(Word), fiber2 \in Seq(Word) :
          fiber1 = Fiber(block, 1) /\ fiber2 = Fiber(block, 2)
    <3>1. 1 \in 1 .. 2 /\ 2 \in 1 .. 2
      OBVIOUS
    <3>2. Fiber(block, 1) \in Seq(Word) /\ Fiber(block, 2) \in Seq(Word)
      BY <2>4, <3>1, FiberTyped
    <3>3. QED
      BY <3>2
  <2>6. ASSUME NEW fill \in plots' PROVE Now(fill)
    <3>1. PICK tse : tse = TSevent(fiber1, fiber2) /\
            \E charge \in {Charges(tse)} :
              plots' = {[ev |-> k, booking |-> booking,
                         channels |-> {vectors[i] : i \in 1 .. n_channels},
                         tse |-> tse, charge |-> charge, bars |-> Bars(charge)]}
      BY <2>3, <2>5 DEF AtEventReception
    <3>2. fill.ev = k /\ fill.tse = tse /\ fill.charge = Charges(tse)
      BY <2>6, <3>1
    <3>3. FiberOf(fill, 1) = fiber1 /\ FiberOf(fill, 2) = fiber2
      BY <2>3, <2>5, <3>2 DEF FiberOf
    <3>4. IsDecoded(fiber1, fiber2, tse, Charges(tse))
      BY <3>1, EventIsDecoded
    <3>5. QED
      BY <3>2, <3>3, <3>4
  <2>7. QED
    BY <1>0, <1>1, <2>1, <2>6
<1>4. CASE UNCHANGED vars
  <2>1. UNCHANGED <<name, sent, plots>>
    BY <1>4 DEF vars, captanVars, senderVars, monitorVars
  <2>2. \A fill \in plots : Now(fill)
    BY DecodedIs
  <2>3. QED
    BY <1>0, <1>1, <2>1, <2>2
<1>5. QED
  BY <1>2, <1>3, <1>4 DEF Next

(* Whatever words the front end sends or the file has, stopped, lost, cut  *)
(* or played again in any way: of every event that is shown, the samples   *)
(* are cut at the marks of its two fibers, no cap ID is read out of them,  *)
(* and the charge of every channel is the sum of the means of its counts,  *)
(* but for the first bins of subranges.                                    *)
THEOREM EventsAlwaysDecoded == Spec => []EventsAreDecoded
<1> DEFINE IInv == /\ IsSource /\ LineInv /\ PiecesInv /\ FiledInv
                   /\ PlayedInv /\ WordsInv /\ BookedInv
<1>1. Init => EventsAreDecoded
  BY DEF Init, MonitorInit, EventsAreDecoded, SamplesAreCut, CapIdIsNotRead, ChargesAreInBins
<1>2. IInv /\ EventsAreDecoded /\ [Next]_vars => EventsAreDecoded'
  BY StepsKeepDecoded
<1>3. Spec => []IInv
  BY SourceIsKnown, AlwaysInLine, AlwaysWords, AlwaysBooked, PTL
<1> HIDE DEF IInv
<1>4. QED
  BY <1>1, <1>2, <1>3, PTL DEF Spec

-----------------------------------------------------------------------------
(* What is asked of the front end, cut, filed and played, and which plots  *)
(* are booked: the invariants of all of these, of any session.             *)
THEOREM TrigScintInvariant == Spec => []TrigScintInv
  BY AlwaysInLine, AlwaysAsked, AlwaysBooked, AlwaysWords, PTL DEF TrigScintInv

=============================================================================
