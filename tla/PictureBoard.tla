---------------------------- MODULE PictureBoard ----------------------------
(***************************************************************************)
(* What the frame store promises: a board on which each channel posts its  *)
(* pictures one after the other, and from which the application takes the  *)
(* newest of both channels in one moment.                                  *)
(*                                                                         *)
(* A picture is its number, 0 stands for the blank one.  Every operation   *)
(* is one step: no mutex, no copies, no picture half written.              *)
(***************************************************************************)
EXTENDS Integers

Channels == {0, 1}

VARIABLES
  posted,    (* how many pictures each channel has posted             *)
  newest,    (* what hangs on the board                               *)
  taken,     (* what the application took last, -1 for a spoilt one   *)
  phase      (* "starting", "ready", or "disturbed" once Wait is used *)

boardVars == <<posted, newest, taken, phase>>

BoardInit ==
  /\ posted = [c \in Channels |-> 0]
  /\ newest = [c \in Channels |-> 0]
  /\ taken = [c \in Channels |-> 0]
  /\ phase = "starting"

Post(c) ==
  /\ posted' = [posted EXCEPT ![c] = @ + 1]
  /\ newest' = [newest EXCEPT ![c] = posted[c] + 1]
  /\ UNCHANGED <<taken, phase>>

Remove(gone) == newest' = [c \in Channels |-> IF c \in gone THEN 0 ELSE newest[c]]

(* Start, which runs after the channels, throws away what they have posted. *)
Prepare ==
  /\ phase = "starting"
  /\ \E gone \in SUBSET Channels : Remove(gone)
  /\ phase' \in {"starting", "ready"}
  /\ UNCHANGED <<posted, taken>>

Take ==
  /\ phase = "ready"
  /\ taken' = newest
  /\ UNCHANGED <<posted, newest, phase>>

(* So does Wait, ... *)
Disturb ==
  /\ phase # "starting"
  /\ \E gone \in SUBSET Channels : Remove(gone)
  /\ phase' = "disturbed"
  /\ UNCHANGED <<posted, taken>>

(* ... from when on the two pictures need not be of one moment: the first   *)
(* one is the newest or an older one.  Either may be spoilt, drawn over.    *)
TakeApart ==
  /\ phase = "disturbed"
  /\ \E n \in 0 .. posted[0], spoilt \in SUBSET Channels :
       taken' = [c \in Channels |-> IF c \in spoilt THEN -1
                                   ELSE IF c = 0 THEN n ELSE newest[c]]
  /\ UNCHANGED <<posted, newest, phase>>

BoardNext == (\E c \in Channels : Post(c)) \/ Prepare \/ Take \/ Disturb \/ TakeApart

BoardSpec == BoardInit /\ [][BoardNext]_boardVars

=============================================================================
