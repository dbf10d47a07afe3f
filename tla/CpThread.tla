------------------------------ MODULE CpThread ------------------------------
(***************************************************************************)
(* cpthread: an object that starts, controls and ends one POSIX thread at  *)
(* a time; it may be started again when its thread has finished.  Every    *)
(* method is one critical section of _mutex and so one action, but for the *)
(* places where the code locks _mutex while it holds it.  std::mutex is    *)
(* not recursive: there the holder waits for itself, and nothing can take  *)
(* it further.  interruption_requested looks at its flag before it locks.  *)
(***************************************************************************)
EXTENDS SchedPriority

CONSTANTS
  MaxRuns,      (* how many threads the object may start in all  *)
  Priorities,   (* the priorities its users ask for              *)
  Cpus          (* the processors                                *)

ASSUME CpAssumption ==
  /\ MaxRuns \in Nat
  /\ Priorities \subseteq Nat

(* What becomes of the scheduling attributes in start *)
Hints == {"set", "refused"}

Runs == 1 .. MaxRuns

NoThread == 0    (* _tid is null                                    *)
Garbage == -1    (* _tid before the first start: it is never set by *)
                 (* the constructor, and C++11's atomic does not    *)

VARIABLES
  running, finished,   (* _running, _finished                               *)
  requested,           (* _interruption_requested                           *)
  tid,                 (* _tid: which thread                                *)
  priority, again,     (* _priority, and priority_reset_flag within it      *)
  stacksize,           (* _stacksize: 0, or one that is "valid" or "invalid" *)
  cpu_set,             (* _cpu_set                                          *)
  holder,              (* who holds _mutex over several actions             *)
  object,              (* "alive", "dying" inside the destructor, "gone"    *)
  place,               (* of every thread, see Places                       *)
  cancelled,           (* the threads with a pthread_cancel pending         *)
  scheduling,          (* of every thread: policy and priority              *)
  affinity,            (* of every thread: its processors                   *)
  answer,              (* what interruption_requested last told it          *)
  askedOf,             (* ghost: the threads request_interruption was for   *)
  attempted            (* ghost: whether start has reached pthread_create   *)

flagVars == <<running, finished, tid>>
settingVars == <<priority, again, stacksize, cpu_set>>
threadVars == <<place, cancelled, scheduling, affinity, answer>>
cpVars == <<flagVars, requested, settingVars, holder, object, threadVars,
            askedOf, attempted>>

(* "resetting" is exec inside set_priority; "asking" is between the two *)
(* looks of interruption_requested; "leaving" is after run().           *)
Places == {"none", "entry", "resetting", "run", "asking", "leaving", "ended"}
Live == {r \in Runs : place[r] \notin {"none", "ended"}}
Free == holder = "nobody"

Inherited == [policy |-> "other", prio |-> 0]

CpInit ==
  /\ running = FALSE /\ finished = FALSE
  /\ requested = FALSE
  /\ tid \in {NoThread, Garbage}
  /\ priority = inherit_priority /\ again = FALSE
  /\ stacksize = "default"
  /\ cpu_set = {}
  /\ holder = "nobody"
  /\ object = "alive"
  /\ place = [r \in Runs |-> "none"]
  /\ cancelled = {}
  /\ scheduling = [r \in Runs |-> Inherited]
  /\ affinity = [r \in Runs |-> {}]
  /\ answer = [r \in Runs |-> FALSE]
  /\ askedOf = {}
  /\ attempted = FALSE

(* A caller of a method: the object exists and _mutex is to be had. *)
Caller == object = "alive" /\ Free

-----------------------------------------------------------------------------
(* start *)

(* What start leaves in _priority before it creates the thread *)
TakePriority(p, hint) ==
  /\ priority' = p
  /\ again' = (hint = "refused" /\ IsScheduled(p))

StartFails ==
  /\ running' = FALSE
  /\ finished' = FALSE
  /\ UNCHANGED threadVars

(* pthread_attr_setstacksize refuses: _tid stays as it is. *)
StackRefused ==
  /\ stacksize = "invalid"
  /\ StartFails
  /\ UNCHANGED <<tid, attempted>>

CreateFails ==
  /\ stacksize # "invalid"
  /\ StartFails
  /\ tid' = NoThread
  /\ attempted' = TRUE

(* The thread has the attributes, unless they were refused, or EPERM made *)
(* start create it a second time with the scheduling of its creator.      *)
CreateThread(r, p, hint) ==
  /\ stacksize # "invalid"
  /\ place[r] = "none"
  /\ running' = TRUE
  /\ finished' = FALSE
  /\ tid' = r
  /\ attempted' = TRUE
  /\ place' = [place EXCEPT ![r] = "entry"]
  /\ \E given \in {Inherited} \cup {Scheduling(q) : q \in
                    {p} \cap {q \in Priorities : hint = "set" /\ IsScheduled(q)}} :
       scheduling' = [scheduling EXCEPT ![r] = given]
  /\ affinity' = [affinity EXCEPT ![r] = IF cpu_set = {} THEN Cpus ELSE cpu_set]
  /\ UNCHANGED <<cancelled, answer>>

start(p, hint) ==
  /\ Caller
  /\ ~running
  /\ TakePriority(p, hint)
  /\ StackRefused \/ CreateFails \/ \E r \in Runs : CreateThread(r, p, hint)
  /\ UNCHANGED <<requested, stacksize, cpu_set, holder, object, askedOf>>

-----------------------------------------------------------------------------
(* The settings *)

(* pthread_setschedparam and pthread_getschedparam may refuse; they return *)
(* the error, never -1, so that the fallback to the lowest priority of the *)
(* policy, which waits for a -1, is not taken.                             *)
set_priority(p) ==
  /\ Caller
  /\ p # inherit_priority
  /\ running
  /\ priority' = p
  /\ again' = FALSE
  /\ scheduling' \in {scheduling} \cup
       {[scheduling EXCEPT ![tid] = Scheduling(q)] :
           q \in {p} \cap {q \in Priorities : IsScheduled(q)}}
  /\ UNCHANGED <<flagVars, requested, stacksize, cpu_set, holder, object,
                 place, cancelled, affinity, answer, askedOf, attempted>>

(* Mutant of set_affinity: the object keeps what it asked for. *)
set_affinity_and_forget(cpus) ==
  /\ Caller
  /\ cpu_set' = cpus
  /\ \/ ~running /\ UNCHANGED affinity
     \/ running /\ UNCHANGED affinity
     \/ running /\ cpus # {} /\ affinity' = [affinity EXCEPT ![tid] = cpus]
  /\ UNCHANGED <<flagVars, requested, priority, again, stacksize, holder, object,
                 place, cancelled, scheduling, answer, askedOf, attempted>>

(* A running thread is moved at once, if the system allows it; if not, the *)
(* object reads back where the thread may run.                             *)
set_affinity_cpuset(cpus) ==
  /\ Caller
  /\ \/ ~running /\ cpu_set' = cpus /\ UNCHANGED affinity
     \/ running /\ cpus # {} /\ cpu_set' = cpus
          /\ affinity' = [affinity EXCEPT ![tid] = cpus]
     \/ running /\ cpu_set' = affinity[tid] /\ UNCHANGED affinity
  /\ UNCHANGED <<flagVars, requested, priority, again, stacksize, holder, object,
                 place, cancelled, scheduling, answer, askedOf, attempted>>

set_stacksize(size) ==
  /\ Caller
  /\ ~running
  /\ stacksize' = size
  /\ UNCHANGED <<flagVars, requested, priority, again, cpu_set, holder, object,
                 threadVars, askedOf, attempted>>

-----------------------------------------------------------------------------
(* Interruption and termination *)

request_interruption ==
  /\ Caller
  /\ running /\ ~finished
  /\ requested' = TRUE
  /\ askedOf' = askedOf \cup {tid}
  /\ UNCHANGED <<flagVars, settingVars, holder, object, threadVars, attempted>>

(* The id of no thread is undefined behaviour: no effect, or the end. *)
terminate ==
  /\ Caller
  /\ tid # NoThread
  /\ cancelled' = IF tid = Garbage THEN cancelled ELSE cancelled \cup {tid}
  /\ UNCHANGED <<flagVars, requested, settingVars, holder, object, place,
                 scheduling, affinity, answer, askedOf, attempted>>

(* Mutant of Destroy: the lock is not taken, the calls succeed, and the *)
(* destructor does not wait for the thread.                             *)
DestroyWithoutLock ==
  /\ Caller
  /\ object' = "gone"
  /\ cancelled' = IF tid \in Runs THEN cancelled \cup {tid} ELSE cancelled
  /\ requested' = (requested \/ running)
  /\ UNCHANGED <<flagVars, settingVars, holder, place, scheduling, affinity,
                 answer, askedOf, attempted>>

(* The destructor locks _mutex, and again in request_interruption. *)
Destroy ==
  /\ Caller
  /\ IF running /\ ~finished
       THEN object' = "dying" /\ holder' = "destructor"
       ELSE object' = "gone" /\ UNCHANGED holder
  /\ UNCHANGED <<flagVars, requested, settingVars, threadVars, askedOf, attempted>>

-----------------------------------------------------------------------------
(* The thread: exec, run, finish *)

ThreadKeeps == UNCHANGED <<requested, settingVars, object, cancelled, scheduling,
                           affinity, askedOf, attempted>>

Goes(r, there) == place' = [place EXCEPT ![r] = there]

(* exec with cancellation disabled; set_priority, if it is called, waits for *)
(* the _mutex exec holds.  pthread_testcancel ends the thread before run().  *)
Enter(r) ==
  /\ place[r] = "entry"
  /\ Free
  /\ IF again THEN Goes(r, "resetting") /\ holder' = "exec"
       ELSE Goes(r, IF r \in cancelled THEN "leaving" ELSE "run") /\ UNCHANGED holder
  /\ UNCHANGED <<flagVars, answer>>
  /\ ThreadKeeps

(* run() returns, or reaches a cancellation point. *)
Return(r) ==
  /\ place[r] = "run"
  /\ Goes(r, "leaving")
  /\ UNCHANGED <<flagVars, holder, answer>>
  /\ ThreadKeeps

ActOnCancel(r) == r \in cancelled /\ Return(r)
ActOnAnswer(r) == answer[r] /\ Return(r)

(* interruption_requested, called by run() *)
Ask(r) ==
  /\ place[r] = "run"
  /\ IF requested THEN Goes(r, "asking") /\ UNCHANGED answer
       ELSE answer' = [answer EXCEPT ![r] = FALSE] /\ UNCHANGED place
  /\ UNCHANGED <<flagVars, holder>>
  /\ ThreadKeeps

(* Mutant of AskAgain: the flags the wrong way round. *)
AskAgainFinished(r) ==
  /\ place[r] = "asking"
  /\ Free
  /\ answer' = [answer EXCEPT ![r] = finished]
  /\ Goes(r, "run")
  /\ UNCHANGED <<flagVars, holder>>
  /\ ThreadKeeps

AskAgain(r) ==
  /\ place[r] = "asking"
  /\ Free
  /\ answer' = [answer EXCEPT ![r] = running /\ ~finished]
  /\ Goes(r, "run")
  /\ UNCHANGED <<flagVars, holder>>
  /\ ThreadKeeps

(* Mutant of finish: _tid keeps the id of the thread that has ended. *)
finish_and_keep_tid(r) ==
  /\ place[r] = "leaving"
  /\ Free
  /\ running' = FALSE
  /\ finished' = TRUE
  /\ Goes(r, "ended")
  /\ UNCHANGED <<tid, holder, answer>>
  /\ ThreadKeeps

finish(r) ==
  /\ place[r] = "leaving"
  /\ Free
  /\ running' = FALSE
  /\ finished' = TRUE
  /\ tid' = NoThread
  /\ Goes(r, "ended")
  /\ UNCHANGED <<holder, answer>>
  /\ ThreadKeeps

-----------------------------------------------------------------------------
ThreadStep(r) ==
  Enter(r) \/ Return(r) \/ Ask(r) \/ AskAgain(r) \/ finish(r)

CpNext ==
  \/ \E p \in Priorities : (\E hint \in Hints : start(p, hint)) \/ set_priority(p)
  \/ \E cpus \in SUBSET Cpus : set_affinity_cpuset(cpus)
  \/ \E size \in {"default", "valid", "invalid"} : set_stacksize(size)
  \/ request_interruption
  \/ terminate
  \/ Destroy
  \/ \E r \in Runs : ThreadStep(r)

(* The system runs the threads and gives _mutex to whoever waits for it; a  *)
(* run() that is willing asks whether to stop, and heeds the answer and the *)
(* cancellation.  Nobody has to call a method.                              *)
CpSpec ==
  /\ CpInit
  /\ [][CpNext]_cpVars
  /\ \A r \in Runs :
       /\ WF_cpVars(Enter(r))
       /\ WF_cpVars(Ask(r))
       /\ WF_cpVars(AskAgain(r))
       /\ SF_cpVars(ActOnCancel(r))
       /\ SF_cpVars(ActOnAnswer(r))
       /\ WF_cpVars(finish(r))

-----------------------------------------------------------------------------
(* Properties *)

CpTypeOK ==
  /\ running \in BOOLEAN /\ finished \in BOOLEAN /\ requested \in BOOLEAN
  /\ tid \in Runs \cup {NoThread, Garbage}
  /\ priority \in Priorities \cup {inherit_priority} /\ again \in BOOLEAN
  /\ stacksize \in {"default", "valid", "invalid"}
  /\ cpu_set \in SUBSET Cpus
  /\ holder \in {"nobody", "exec", "destructor"}
  /\ object \in {"alive", "dying", "gone"}
  /\ place \in [Runs -> Places]
  /\ cancelled \in SUBSET Runs
  /\ scheduling \in [Runs -> Schedulings]
  /\ affinity \in [Runs -> SUBSET Cpus]
  /\ answer \in [Runs -> BOOLEAN]
  /\ askedOf \in SUBSET Runs
  /\ attempted \in BOOLEAN

(* The id the methods hand to the pthread calls names the object's own, still *)
(* existing thread, whenever they get past their tests: running for the       *)
(* settings, a null _tid for terminate.  Only before the first attempt to     *)
(* create a thread is it undefined.  At most one thread exists at a time.     *)
IdNamesLiveThread ==
  /\ attempted => Live = {tid} \ {NoThread}
  /\ running <=> Live # {}

(* _cpu_set, once it is not empty, says where the thread may run, whichever  *)
(* of the moves and restarts succeeded.                                      *)
AffinityIsKnown == running /\ cpu_set # {} => affinity[tid] = cpu_set

(* No thread is left that would use the object after its destructor. *)
NoUseAfterDestroy == object = "gone" => Live = {}

(* A thread of which the end was asked, either way, ends: the request and  *)
(* the cancellation reach it wherever it is, unless exec or the destructor *)
(* waits for the mutex it holds itself.                                    *)
RequestsEndIt ==
  \A r \in Runs : r \in cancelled \cup askedOf ~> place[r] = "ended" \/ ~Free

(* cpthread.cpp:63: "could not set scheduling hints, fallback to inheriting *)
(* them; we'll try again from inside the thread": a thread whose hints were *)
(* refused comes to the end of that second attempt.                         *)
TriesAgainInside == \A r \in Runs : place[r] = "resetting" ~> place[r] # "resetting"

=============================================================================
