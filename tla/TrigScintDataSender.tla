------------------------ MODULE TrigScintDataSender ------------------------
(***************************************************************************)
(* TrigScintDataSender, which cuts the words of the trigger scintillator   *)
(* into events.  An event ends in a word of ones and goes over as many     *)
(* frames as it takes.  A word is its place in the stream of words that    *)
(* the front end has.                                                      *)
(***************************************************************************)
EXTENDS Integers, SequencesExt

CONSTANTS
  Streams,   (* the streams that there may be: sequences of words, each    *)
             (* four words of 16 bits                                      *)
  MinWords   (* an event is sent if it has more words than these, 50       *)

VARIABLES
  name,      (* which stream it is: never changes                          *)
  buffer,    (* the words of the event that has not ended                  *)
  sent       (* the events on the way to the monitor, with their run       *)

senderVars == <<name, buffer, sent>>

Stream == Streams[name]

Ones == <<65535, 65535, 65535, 65535>>

IsEnd(p) == Stream[p] = Ones

SenderInit == name \in DOMAIN Streams /\ buffer = << >> /\ sent = << >>

(* The buffer when an event has ended; the fault: what is too short to be  *)
(* sent is kept.                                                           *)
KeptIfShort(buf) == IF Len(buf) > MinWords THEN << >> ELSE buf
Cleared(buf) == << >>

(* Of a frame with an error nothing is taken.                              *)
IsTaken(frame) == ~frame.error

(* One word of a frame.                                                    *)
takeWord(p, run) ==
  /\ IF IsEnd(p)
       THEN /\ buffer' = Cleared(buffer)
            /\ sent' = IF Len(buffer) > MinWords
                         THEN Append(sent, [words |-> buffer, run |-> run]) ELSE sent
       ELSE buffer' = Append(buffer, p) /\ UNCHANGED sent
  /\ UNCHANGED name

=============================================================================
