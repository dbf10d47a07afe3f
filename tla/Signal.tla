------------------------------- MODULE Signal -------------------------------
(***************************************************************************)
(* What an event promises: a flag that is raised and lowered atomically,   *)
(* and callers who return TRUE only while it is raised, lowering it if it  *)
(* is of the kind that resets itself, and FALSE only while it is lowered.  *)
(***************************************************************************)
CONSTANT Waiters

VARIABLES
  auto,      (* whether a call that returns TRUE lowers the flag *)
  raised,    (* the flag                               *)
  blocked,   (* the callers that have not yet returned *)
  returned   (* what each call last returned           *)

signalVars == <<auto, raised, blocked, returned>>

SignalInit ==
  /\ auto \in BOOLEAN
  /\ raised = FALSE
  /\ blocked = {}
  /\ returned = [t \in Waiters |-> FALSE]

Raise == raised' = TRUE /\ UNCHANGED <<auto, blocked, returned>>
Lower == raised' = FALSE /\ UNCHANGED <<auto, blocked, returned>>
Block(t) == blocked' = blocked \cup {t} /\ UNCHANGED <<auto, raised, returned>>

(* t returns TRUE, whether or not it had to block first. *)
Take(t) ==
  /\ raised
  /\ raised' = ~auto
  /\ blocked' = blocked \ {t}
  /\ returned' = [returned EXCEPT ![t] = TRUE]
  /\ UNCHANGED auto

GiveUp(t) ==
  /\ ~raised
  /\ blocked' = blocked \ {t}
  /\ returned' = [returned EXCEPT ![t] = FALSE]
  /\ UNCHANGED <<auto, raised>>

SignalNext == Raise \/ Lower \/ \E t \in Waiters : Block(t) \/ Take(t) \/ GiveUp(t)

(* A raised flag with a blocked caller does not stay so for ever. *)
SignalSpec ==
  /\ SignalInit
  /\ [][SignalNext]_signalVars
  /\ WF_signalVars(\E t \in blocked : Take(t))

=============================================================================
