----------------------------- MODULE RawDataFile -----------------------------
(***************************************************************************)
(* What the raw data files of reformat have in common: a Reader that goes  *)
(* through the file once, and next(), which gives a packet, or nothing at  *)
(* the end of the file, or throws, which ends the program.                 *)
(*                                                                         *)
(* A file is a sequence of items, each a piece of the file that its class  *)
(* reads in one go.  The item "cut" is a piece that the file ends in.      *)
(* next() takes one step per item it reads; "asked" says in which file it  *)
(* is on its way.  The Converter asks one file at a time.                  *)
(***************************************************************************)
EXTENDS Integers, Sequences

CONSTANT Files

VARIABLES
  class,  (* per file, the class it is created as: never changes            *)
  data,   (* per file, its items: never changes                             *)
  pos,    (* per file, how many items have been read                        *)
  failed, (* the files whose reader is in a fail state                      *)
  state,  (* per file: "open", "done" once next() has given nothing,        *)
          (* "thrown" once it has thrown                                    *)
  asked,  (* the file whose next() is on its way, if any                    *)
  given   (* per file, the packets that next() has given                    *)

(* A piece that the file ends in is its last.                              *)
CutComesLast(items) ==
  \A i \in DOMAIN items : items[i].kind = "cut" => i = Len(items)

fileVars == <<class, data, pos, failed, state, asked, given>>

FileInit ==
  /\ state = [f \in Files |-> "open"]
  /\ asked = {}
  /\ given = [f \in Files |-> << >>]

-----------------------------------------------------------------------------
(* The program runs until next() throws, and asks no file again that has   *)
(* given nothing.                                                          *)
IsAsked(f, c) ==
  /\ class[f] = c
  /\ state[f] = "open" /\ \A g \in Files : state[g] # "thrown"
  /\ asked \subseteq {f}

Item(f) == data[f][pos[f] + 1]

AtEnd(f) == pos[f] < Len(data[f]) => Item(f).kind = "cut"

Finds(f, kind) == pos[f] < Len(data[f]) /\ Item(f).kind = kind

(* A read past the end fails, and so does every read after it.             *)
Reads(f) ==
  /\ pos' = [pos EXCEPT ![f] = @ + 1] /\ UNCHANGED failed

ReadFails(f) ==
  /\ pos' = [pos EXCEPT ![f] = Len(data[f])]
  /\ failed' = failed \union {f}

GoesOn(f) == asked' = {f} /\ UNCHANGED <<state, given>>

Gives(f, packet) ==
  /\ asked' = {} /\ UNCHANGED state
  /\ given' = [given EXCEPT ![f] = Append(@, packet)]

GivesNothing(f) ==
  /\ asked' = {} /\ state' = [state EXCEPT ![f] = "done"] /\ UNCHANGED given

Throws(f) ==
  /\ asked' = {} /\ state' = [state EXCEPT ![f] = "thrown"] /\ UNCHANGED given

Constant == UNCHANGED <<class, data>>

=============================================================================
