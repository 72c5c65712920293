---------------------- MODULE HgcrocFileReaderProducer ----------------------
(***************************************************************************)
(* HgcrocFileReaderProducer, which plays a file of HCal events as if they  *)
(* were taken now.  Run control configures, starts and stops it on one     *)
(* thread; RunLoop cuts the file into events on another.  Both work on     *)
(* file_ without a lock, so that file_ can be closed and opened between    *)
(* two words of an event.  The search for the next signal word is one      *)
(* step: it keeps nothing of what it reads, so what happens to file_ in    *)
(* the meantime may as well happen before it or after it.                  *)
(*                                                                         *)
(* A packet is kept as its length and the stretches of the file that its   *)
(* words were read from, each with how often the file had been opened, and *)
(* the positions of its first and last word, and how many words that are.  *)
(* The rest of it is zero.  A part of the history is the run in which it   *)
(* was begun.                                                              *)
(***************************************************************************)
EXTENDS HgcrocRawDecode

CONSTANTS
  Files,    (* the files that there may be, each a sequence of words       *)
  LenBits,  (* how many bits of the length in the header RunLoop looks at  *)
  Chunk     (* bound: how many words are read before anything else happens *)

VARIABLES
  name,     (* which file it is: never changes                             *)
  status,
  is_open,  (* file_ has a file                                            *)
  fail,     (* the fail bit of file_                                       *)
  pos,      (* words read since it was opened                              *)
  loop,     (* where RunLoop is                                            *)
  packet,
  sent,     (* the events on the way to the data collector                 *)
  run,      (* the number of the run                                       *)
  opens,    (* history: how often the file has been opened                 *)
  caught    (* history: the openings while RunLoop was at work             *)

file == Files[name]

stream == <<is_open, fail, pos>>
producerVars ==
  <<name, status, stream, loop, packet, sent, run, opens, caught>>

InLoop == {"top", "scan", "header", "rest", "send"}

Stretch == Nat \X Nat \X Nat
Packet == [length : Nat, parts : Seq(Stretch), got : Nat, begun : Nat]

Whole(p) == p.got = p.length

(* The stretch that goes on where the last one ends is part of it.         *)
WithPart(parts, part) ==
  LET end == Last(parts)
  IN  IF end[1] = part[1] /\ end[3] + 1 = part[2]
        THEN [parts EXCEPT ![Len(parts)] = <<end[1], end[2], part[3]>>]
        ELSE Append(parts, part)

ProducerTypeOK ==
  /\ name \in DOMAIN Files
  /\ status \in {"unconf", "conf", "running", "stopped", "error"}
  /\ is_open \in BOOLEAN /\ fail \in BOOLEAN /\ pos \in 0 .. Len(file)
  /\ loop \in {"idle", "thrown"} \union InLoop
  /\ packet \in Packet
  /\ sent \in Seq([packet : Packet, run : 1 .. run])
  /\ run \in Nat /\ opens \in Nat /\ caught \subseteq 1 .. opens

NoPacket == [length |-> 0, parts |-> << >>, got |-> 0, begun |-> 0]

ProducerInit ==
  /\ name \in DOMAIN Files
  /\ status = "unconf" /\ is_open = FALSE /\ fail = FALSE /\ pos = 0
  /\ loop = "idle" /\ packet = NoPacket /\ sent = << >>
  /\ run = 0 /\ opens = 0 /\ caught = {}

-----------------------------------------------------------------------------
(* Where reading begins; the fault: it goes on where it was left.          *)
WhereItWas == pos
Beginning == 0

(* open() fails if there is no such file, and also if there is one open.   *)
(* It is one step, though it opens, seeks the end and the beginning while  *)
(* RunLoop may read: a read in between takes less than one after it.       *)
Open(exists) ==
  IF exists /\ ~is_open
    THEN /\ is_open' = TRUE /\ fail' = FALSE /\ pos' = Beginning
         /\ opens' = opens + 1
         /\ caught' = IF loop \in InLoop THEN caught \union {opens'} ELSE caught
    ELSE /\ fail' = TRUE /\ UNCHANGED <<is_open, pos, opens, caught>>

Checked == IF fail' THEN "error" ELSE "conf"

DoConfigure(exists) ==
  /\ status \in {"unconf", "conf", "stopped"}
  /\ Open(exists) /\ status' = Checked
  /\ UNCHANGED <<name, loop, packet, sent, run>>

(* RunLoop is put on its thread.                                           *)
DoStartRun ==
  /\ status \in {"conf", "stopped"} /\ status' = "running"
  /\ run' = run + 1
  /\ loop' = IF loop = "idle" THEN "top" ELSE loop
  /\ UNCHANGED <<name, stream, packet, sent, opens, caught>>

(* What the stop makes of is_open: a file that is closed cannot be closed  *)
(* again.  The fault: the file is left open.                               *)
LeftOpen == is_open
Closed == FALSE

DoStopRun ==
  /\ status \in {"running", "stopped"} /\ status' = "stopped"
  /\ is_open' = Closed /\ fail' = (fail \/ ~is_open)
  /\ UNCHANGED <<name, pos, loop, packet, sent, run, opens, caught>>

(* Nothing is reset.                                                       *)
DoReset ==
  /\ status # "running" /\ status' = "unconf"
  /\ UNCHANGED <<name, stream, loop, packet, sent, run, opens, caught>>

-----------------------------------------------------------------------------
LoopOnly == UNCHANGED <<name, is_open, run, opens, caught>>

CanRead == is_open /\ ~fail /\ pos < Len(file)

Read == CanRead /\ pos' = pos + 1 /\ UNCHANGED fail

ReadFails == ~CanRead /\ fail' = TRUE /\ UNCHANGED pos

(* The loop has come to the end of the file.                               *)
Ends == loop' = "idle" /\ status' = "stopped"

Top ==
  /\ loop = "top"
  /\ \/ fail /\ Ends
     \/ ~fail /\ loop' = "scan" /\ UNCHANGED status
  /\ LoopOnly /\ UNCHANGED <<fail, pos, packet, sent>>

SignalsAfter(words, p) == {q \in p + 1 .. Len(words) : words[q].signal}
NextSignal(words, p) == Min(SignalsAfter(words, p))

Scan ==
  /\ loop = "scan"
  /\ \/ /\ CanRead /\ SignalsAfter(file, pos) # {}
        /\ pos' = NextSignal(file, pos)
        /\ packet' = [length |-> 1, parts |-> <<<<opens, pos', pos'>>>>, got |-> 1,
                      begun |-> run]
        /\ loop' = "header" /\ UNCHANGED <<fail, status>>
     \/ /\ ~CanRead \/ SignalsAfter(file, pos) = {}
        /\ pos' = IF CanRead THEN Len(file) ELSE pos
        /\ fail' = TRUE /\ Ends /\ UNCHANGED packet
  /\ LoopOnly /\ UNCHANGED sent

(* How many words an event has, with its signal word, which version 2      *)
(* counts too.                                                             *)
PacketLength(head) ==
  LET eventlen == head.len % 2^LenBits
  IN  IF head.version = 1 THEN 1 + eventlen ELSE 2 * eventlen

(* What a file is assumed to be: no word that may be taken for a header    *)
(* announces less than itself, and no event has a signal word in it.       *)
MayBeHeader(word) == word.version \in {1, 2}

ASSUME ChunkAssumption == Chunk \in Nat \ {0}

ASSUME FilesAssumption ==
  \A f \in DOMAIN Files :
    /\ Len(Files[f]) \in Nat
    /\ \A q \in 1 .. Len(Files[f]) : MayBeHeader(Files[f][q]) =>
         PacketLength(Files[f][q]) \in Nat \ {0, 1}
    /\ \A q \in 1 .. Len(Files[f]) - 1 :
         Files[f][q].signal /\ MayBeHeader(Files[f][q + 1]) =>
           \A r \in q + 1 .. Len(Files[f]) :
             r < q + PacketLength(Files[f][q + 1]) => ~Files[f][r].signal

(* The header of the event.  If it cannot be read, w is still the signal   *)
(* word, which is no header that RunLoop knows.                            *)
HeadAt(at) == file[at]

ReadHeader ==
  /\ loop = "header"
  /\ \/ /\ Read
        /\ IF MayBeHeader(HeadAt(pos'))
             THEN /\ packet' = [packet EXCEPT
                       !.length = PacketLength(HeadAt(pos')),
                       !.parts = WithPart(@, <<opens, pos', pos'>>),
                       !.got = 2]
                  /\ loop' = "rest" /\ UNCHANGED status
             ELSE /\ loop' = "thrown" /\ status' = "error"
                  /\ UNCHANGED packet
     \/ /\ ReadFails
        /\ loop' = "thrown" /\ status' = "error" /\ UNCHANGED packet
  /\ LoopOnly /\ UNCHANGED sent

(* The rest of the event, some words at once, up to its length or to the   *)
(* first word that cannot be read; what is missing is zero.                *)
Wanted == Min({Chunk, packet.length - packet.got, Len(file) - pos})

ReadRest ==
  /\ loop = "rest"
  /\ \/ /\ ~Whole(packet) /\ CanRead
        /\ pos' = pos + Wanted
        /\ packet' = [packet EXCEPT !.parts = WithPart(@, <<opens, pos + 1, pos'>>),
                                    !.got = @ + Wanted]
        /\ UNCHANGED <<fail, loop>>
     \/ /\ ~Whole(packet) /\ ReadFails /\ loop' = "send" /\ UNCHANGED packet
     \/ /\ Whole(packet) /\ loop' = "send" /\ UNCHANGED <<fail, pos, packet>>
  /\ LoopOnly /\ UNCHANGED <<status, sent>>

Send ==
  /\ loop = "send" /\ loop' = "top"
  /\ sent' = Append(sent, [packet |-> packet, run |-> run])
  /\ LoopOnly /\ UNCHANGED <<fail, pos, status, packet>>

RunLoop == Top \/ Scan \/ ReadHeader \/ ReadRest \/ Send

(* The words of a packet, out of those of the file.                        *)
Words(p, words) ==
  FoldLeft(LAMBDA got, part : got \o SubSeq(words, part[2], part[3]), << >>, p.parts)
    \o [i \in 1 .. p.length - p.got |-> Zero]

=============================================================================
