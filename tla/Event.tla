------------------------------- MODULE Event --------------------------------
(***************************************************************************)
(* An event (event.h, event.cpp): a flag, a mutex and a condition          *)
(* variable.  Every method is one critical section of the mutex, except    *)
(* that a wait gives the mutex up while it sleeps, so an action is one     *)
(* critical section; a sleeper is woken by a notification, by its timeout  *)
(* or by nothing at all, then competes for the mutex with every caller.    *)
(***************************************************************************)
EXTENDS Naturals, FiniteSets

CONSTANTS
  Waiters,   (* the threads that wait                                 *)
  Kinds      (* the kinds of event there are, see kind                *)

ASSUME EventAssumption ==
  Kinds \subseteq [auto : BOOLEAN, notifies : SUBSET {"one", "all"}]

VARIABLES
  kind,      (* auto: _auto, whether a wait that succeeds resets the  *)
             (* event; notifies: what its users call, "one" or "all"  *)
  state,     (* _state                                              *)
  pc,        (* where each waiter is, see Places                    *)
  timed,     (* whether its call is wait_for or wait_until          *)
  result     (* what its last call returned; wait counts as TRUE    *)

eventVars == <<kind, state, pc, timed, result>>

(* "asleep" is in the condition variable's wait set; "woken" and "expired" *)
(* have left it, by a wake-up or by the timeout, and want the mutex.       *)
Places == {"out", "asleep", "woken", "expired"}

At(place) == {t \in Waiters : pc[t] = place}

EventInit ==
  /\ kind \in Kinds
  /\ state = FALSE
  /\ pc = [t \in Waiters |-> "out"]
  /\ timed = [t \in Waiters |-> FALSE]
  /\ result = [t \in Waiters |-> FALSE]

(* The end of a call that found the event set. *)
Succeed(t) ==
  /\ state
  /\ state' = ~kind.auto
  /\ pc' = [pc EXCEPT ![t] = "out"]
  /\ result' = [result EXCEPT ![t] = TRUE]

Sleep(t) ==
  /\ ~state
  /\ pc' = [pc EXCEPT ![t] = "asleep"]
  /\ UNCHANGED <<state, result>>

(* wait, wait_for and wait_until are called. *)
Call(t, hasTimeout) ==
  /\ pc[t] = "out"
  /\ timed' = [timed EXCEPT ![t] = hasTimeout]
  /\ Succeed(t) \/ Sleep(t)
  /\ UNCHANGED kind

SpuriousWake(t) ==
  /\ pc[t] = "asleep"
  /\ pc' = [pc EXCEPT ![t] = "woken"]
  /\ UNCHANGED <<kind, state, timed, result>>

(* Mutant of Expire: a wait without a timeout is ended by one. *)
ExpireAnyway(t) ==
  /\ pc[t] = "asleep"
  /\ pc' = [pc EXCEPT ![t] = "expired"]
  /\ UNCHANGED <<kind, state, timed, result>>

Expire(t) ==
  /\ pc[t] = "asleep"
  /\ timed[t]
  /\ pc' = [pc EXCEPT ![t] = "expired"]
  /\ UNCHANGED <<kind, state, timed, result>>

(* Mutant of Resume: if instead of while, the predicate is not read again. *)
ResumeWithoutLook(t) ==
  /\ pc[t] = "woken"
  /\ state' = ((~kind.auto) /\ state)
  /\ pc' = [pc EXCEPT ![t] = "out"]
  /\ result' = [result EXCEPT ![t] = TRUE]
  /\ UNCHANGED <<kind, timed>>

(* A waiter has the mutex again and evaluates the predicate; one that has *)
(* been woken and finds the event not set sleeps again.                   *)
Resume(t) ==
  /\ pc[t] = "woken"
  /\ Succeed(t) \/ Sleep(t)
  /\ UNCHANGED <<kind, timed>>

(* After the timeout the predicate decides what is returned. *)
GiveUp(t) ==
  /\ ~state
  /\ pc' = [pc EXCEPT ![t] = "out"]
  /\ result' = [result EXCEPT ![t] = FALSE]
  /\ UNCHANGED state

ResumeLate(t) ==
  /\ pc[t] = "expired"
  /\ Succeed(t) \/ GiveUp(t)
  /\ UNCHANGED <<kind, timed>>

(* Mutant of notify_one: the flag is raised after the notification, by a *)
(* reader of the code who takes the order not to matter; nobody is woken. *)
notify_one_to_nobody ==
  /\ "one" \in kind.notifies
  /\ state' = TRUE
  /\ UNCHANGED <<kind, pc, timed, result>>

notify_one ==
  /\ "one" \in kind.notifies
  /\ state' = TRUE
  /\ IF At("asleep") = {} THEN UNCHANGED pc
       ELSE \E t \in At("asleep") : pc' = [pc EXCEPT ![t] = "woken"]
  /\ UNCHANGED <<kind, timed, result>>

(* Mutant of notify_all: notify_one is called. *)
notify_all_wakes_one ==
  /\ "all" \in kind.notifies
  /\ state' = TRUE
  /\ IF At("asleep") = {} THEN UNCHANGED pc
       ELSE \E t \in At("asleep") : pc' = [pc EXCEPT ![t] = "woken"]
  /\ UNCHANGED <<kind, timed, result>>

notify_all ==
  /\ "all" \in kind.notifies
  /\ state' = TRUE
  /\ pc' = [t \in Waiters |-> IF pc[t] = "asleep" THEN "woken" ELSE pc[t]]
  /\ UNCHANGED <<kind, timed, result>>

reset ==
  /\ state' = FALSE
  /\ UNCHANGED <<kind, pc, timed, result>>

EventNext ==
  \/ \E t \in Waiters :
       \/ \E hasTimeout \in BOOLEAN : Call(t, hasTimeout)
       \/ SpuriousWake(t)
       \/ Expire(t)
       \/ Resume(t)
       \/ ResumeLate(t)
  \/ notify_one
  \/ notify_all
  \/ reset

(* A thread that wants the mutex gets it; nobody has to call or to notify. *)
EventSpec ==
  /\ EventInit
  /\ [][EventNext]_eventVars
  /\ \A t \in Waiters : WF_eventVars(Resume(t) \/ ResumeLate(t))

-----------------------------------------------------------------------------
(* Properties *)

(* The type invariant; only a wait with a timeout is ended by one. *)
EventTypeOK ==
  /\ kind \in Kinds
  /\ state \in BOOLEAN
  /\ pc \in [Waiters -> Places]
  /\ timed \in [Waiters -> BOOLEAN]
  /\ result \in [Waiters -> BOOLEAN]
  /\ \A t \in At("expired") : timed[t]

(* No waiter sleeps through a signal: while the event is set and somebody   *)
(* sleeps, somebody else is awake and on his way to it, whoever overtakes   *)
(* him, however many notifications fell together.  It holds of an event     *)
(* that resets itself, whichever notification is used.                      *)
NoLostWakeup ==
  kind.auto /\ state /\ At("asleep") # {} => At("woken") \cup At("expired") # {}

(* Of an event that is only notified with notify_all nobody sleeps while it *)
(* is set, whoever calls between the notification and the next reset.       *)
ManualWakesAll == "one" \notin kind.notifies /\ state => At("asleep") = {}

Abstract == INSTANCE Signal WITH
              auto     <- kind.auto,
              raised   <- state,
              blocked  <- Waiters \ At("out"),
              returned <- result

(* An event is a signal: for every interleaving of callers, timeouts and    *)
(* spurious wake-ups a call returns TRUE only when the event is set at that *)
(* moment, takes the signal then, and returns FALSE only when it is not;    *)
(* and an event that stays set does not leave its waiters blocked.          *)
EventIsSignal == Abstract!SignalSpec

=============================================================================
