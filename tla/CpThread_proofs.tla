-------------------------- MODULE CpThread_proofs ---------------------------
(* Proofs about CpThread, for any number of runs, priorities and processors *)
(* and any range of real-time priorities.                                   *)
EXTENDS CpThread, TLAPS

-----------------------------------------------------------------------------
(* sched_get_priority *)

LEMMA ScaledInRange ==
  ASSUME NEW p \in Int, NEW lowest \in Int, NEW highest \in Nat \ {0}
  PROVE  Scaled(p, lowest, highest) \in PrioMin .. PrioMax
<1> DEFINE x == PrioMin + ((p - lowest) * (PrioMax - PrioMin)) \div highest
<1>1. (p - lowest) * (PrioMax - PrioMin) \in Int
  BY PrioAssumption
<1>2. x \in Int
  BY <1>1, PrioAssumption
<1> HIDE DEF x
<1>3. AtLeast(PrioMin, AtMost(PrioMax, x)) \in PrioMin .. PrioMax
  BY <1>2, PrioAssumption DEF AtLeast, AtMost
<1> QED BY <1>3 DEF Scaled, x

(* What sched_get_priority returns is a priority of the policy it returns. *)
THEOREM SchedulingInRange ==
  ASSUME NEW p \in Nat, IsScheduled(p)
  PROVE  Scheduling(p) \in Schedulings
<1> USE DEF inherit_priority, idle_priority, normal_priority, rr_lowest_priority,
            rr_highest_priority, fifo_lowest_priority, fifo_highest_priority,
            RoundRobin, Fifo
<1>1. CASE p = idle_priority \/ p = normal_priority
  BY <1>1 DEF Scheduling, Schedulings
<1>2. CASE p \in RoundRobin
  <2>1. Scaled(p, 3, 7) \in PrioMin .. PrioMax
    BY ScaledInRange
  <2>2. Scheduling(p) = [policy |-> "rr", prio |-> Scaled(p, 3, 7)]
    BY <1>2 DEF Scheduling
  <2> QED BY <2>1, <2>2 DEF Schedulings
<1>3. CASE p \in Fifo
  <2>1. Scaled(p, 8, 12) \in PrioMin .. PrioMax
    BY ScaledInRange
  <2>2. Scheduling(p) = [policy |-> "fifo", prio |-> Scaled(p, 8, 12)]
    BY <1>3 DEF Scheduling
  <2> QED BY <2>1, <2>2 DEF Schedulings
<1> QED BY <1>1, <1>2, <1>3 DEF IsScheduled

(* A higher level of a policy is a higher priority, and no two levels fall *)
(* together, in a range of at least twelve steps (Linux has 98).           *)
THEOREM LevelsAreApart ==
  ASSUME PrioMax - PrioMin >= 12,
         NEW p \in Nat, NEW q \in Nat, p < q,
         \/ p \in RoundRobin /\ q \in RoundRobin
         \/ p \in Fifo /\ q \in Fifo
  PROVE  /\ Scheduling(p).policy = Scheduling(q).policy
         /\ Scheduling(p).prio < Scheduling(q).prio
<1> USE DEF inherit_priority, idle_priority, normal_priority, rr_lowest_priority,
            rr_highest_priority, fifo_lowest_priority, fifo_highest_priority,
            RoundRobin, Fifo
<1> DEFINE d == PrioMax - PrioMin
<1>1. d \in Nat /\ d >= 12 /\ PrioMin \in Nat /\ PrioMax = PrioMin + d
  BY PrioAssumption
<1> HIDE DEF d
<1>2. \A n \in 0 .. 4 : n * d \in Nat
  BY <1>1
<1>3. ASSUME NEW h \in {7, 12}, NEW lo \in Nat, NEW i \in 0 .. 4
      PROVE Scaled(lo + i, lo, h) = PrioMin + (i * d) \div h
  <2>1. (lo + i) - lo = i
    OBVIOUS
  <2>2. (i * d) \div h \in 0 .. d
    <3>1. CASE i = 0 BY <1>1, <3>1
    <3>2. CASE i = 1 BY <1>1, <3>2
    <3>3. CASE i = 2 BY <1>1, <3>3
    <3>4. CASE i = 3 BY <1>1, <3>4
    <3>5. CASE i = 4 BY <1>1, <3>5
    <3> QED BY <3>1, <3>2, <3>3, <3>4, <3>5
  <2>3. Scaled(lo + i, lo, h) =
          AtLeast(PrioMin, AtMost(PrioMax, PrioMin + (i * d) \div h))
    BY <2>1 DEF Scaled, d
  <2> QED BY <1>1, <2>2, <2>3 DEF AtLeast, AtMost
<1>4. ASSUME NEW h \in {7, 12}, NEW i \in 0 .. 4, NEW j \in 0 .. 4, i < j
      PROVE (i * d) \div h < (j * d) \div h
  <2>1. \A n \in 0 .. 3 : (n * d) \div h < ((n + 1) * d) \div h
    <3>1. (0 * d) \div h < (1 * d) \div h BY <1>1
    <3>2. (1 * d) \div h < (2 * d) \div h BY <1>1
    <3>3. (2 * d) \div h < (3 * d) \div h BY <1>1
    <3>4. (3 * d) \div h < (4 * d) \div h BY <1>1
    <3>5. TAKE n \in 0 .. 3
    <3> QED BY <3>1, <3>2, <3>3, <3>4
  <2> DEFINE f(n) == (n * d) \div h
  <2>2. f(0) \in Int /\ f(1) \in Int /\ f(2) \in Int /\ f(3) \in Int /\ f(4) \in Int
    BY <1>1
  <2>3. f(0) < f(1) /\ f(1) < f(2) /\ f(2) < f(3) /\ f(3) < f(4)
    BY <2>1
  <2> HIDE DEF f
  <2>4. f(i) < f(j)
    BY <1>4, <2>2, <2>3
  <2> QED BY <2>4 DEF f
<1>5. CASE p \in RoundRobin /\ q \in RoundRobin
  <2>1. p - 3 \in 0 .. 4 /\ q - 3 \in 0 .. 4 /\ p - 3 < q - 3
    BY <1>5
  <2>2. /\ Scaled(p, 3, 7) = PrioMin + ((p - 3) * d) \div 7
        /\ Scaled(q, 3, 7) = PrioMin + ((q - 3) * d) \div 7
    <3>1. 3 + (p - 3) = p /\ 3 + (q - 3) = q
      BY <2>1
    <3> QED BY <1>3, <2>1, <3>1
  <2>3. ((p - 3) * d) \div 7 < ((q - 3) * d) \div 7
    BY <1>4, <2>1
  <2>4. /\ Scheduling(p) = [policy |-> "rr", prio |-> Scaled(p, 3, 7)]
        /\ Scheduling(q) = [policy |-> "rr", prio |-> Scaled(q, 3, 7)]
    BY <1>5 DEF Scheduling
  <2>5. ((p - 3) * d) \div 7 \in Int /\ ((q - 3) * d) \div 7 \in Int
    BY <1>2, <2>1
  <2> QED BY <1>1, <2>2, <2>3, <2>4, <2>5
<1>6. CASE p \in Fifo /\ q \in Fifo
  <2>1. p - 8 \in 0 .. 4 /\ q - 8 \in 0 .. 4 /\ p - 8 < q - 8
    BY <1>6
  <2>2. /\ Scaled(p, 8, 12) = PrioMin + ((p - 8) * d) \div 12
        /\ Scaled(q, 8, 12) = PrioMin + ((q - 8) * d) \div 12
    <3>1. 8 + (p - 8) = p /\ 8 + (q - 8) = q
      BY <2>1
    <3> QED BY <1>3, <2>1, <3>1
  <2>3. ((p - 8) * d) \div 12 < ((q - 8) * d) \div 12
    BY <1>4, <2>1
  <2>4. /\ Scheduling(p) = [policy |-> "fifo", prio |-> Scaled(p, 8, 12)]
        /\ Scheduling(q) = [policy |-> "fifo", prio |-> Scaled(q, 8, 12)]
    BY <1>6 DEF Scheduling
  <2>5. ((p - 8) * d) \div 12 \in Int /\ ((q - 8) * d) \div 12 \in Int
    BY <1>2, <2>1
  <2> QED BY <1>1, <2>2, <2>3, <2>4, <2>5
<1> QED BY <1>5, <1>6

-----------------------------------------------------------------------------
(* Type correctness *)

LEMMA StartType ==
  ASSUME CpTypeOK, NEW p \in Priorities, NEW hint \in Hints, start(p, hint)
  PROVE  CpTypeOK'
<1> USE CpAssumption DEF CpTypeOK, start, TakePriority, Places, Runs
<1>1. /\ priority' \in Priorities \cup {inherit_priority}
      /\ again' \in BOOLEAN
      /\ requested' \in BOOLEAN /\ stacksize' \in {"default", "valid", "invalid"}
      /\ cpu_set' \in SUBSET Cpus
      /\ holder' \in {"nobody", "exec", "destructor"}
      /\ object' \in {"alive", "dying", "gone"}
      /\ askedOf' \in SUBSET Runs
  OBVIOUS
<1>2. CASE StackRefused
  BY <1>1, <1>2 DEF StackRefused, StartFails, threadVars
<1>3. CASE CreateFails
  BY <1>1, <1>3 DEF CreateFails, StartFails, threadVars
<1>4. CASE \E r \in Runs : CreateThread(r, p, hint)
  <2>1. PICK r \in Runs : CreateThread(r, p, hint)
    BY <1>4
  <2>2. scheduling' \in [Runs -> Schedulings]
    <3>1. Inherited \in Schedulings
      BY DEF Inherited, Schedulings
    <3>2. PICK given \in {Inherited} \cup {Scheduling(q) : q \in
                {p} \cap {q \in Priorities : hint = "set" /\ IsScheduled(q)}} :
            scheduling' = [scheduling EXCEPT ![r] = given]
      BY <2>1 DEF CreateThread
    <3>3. given \in Schedulings
      BY <3>1, SchedulingInRange
    <3> QED BY <3>2, <3>3
  <2>3. affinity' \in [Runs -> SUBSET Cpus]
    BY <2>1 DEF CreateThread
  <2>4. /\ place' \in [Runs -> Places] /\ running' \in BOOLEAN /\ finished' \in BOOLEAN
        /\ tid' \in Runs \cup {NoThread, Garbage} /\ attempted' \in BOOLEAN
        /\ cancelled' \in SUBSET Runs /\ answer' \in [Runs -> BOOLEAN]
    BY <2>1 DEF CreateThread
  <2> QED BY <1>1, <2>2, <2>3, <2>4
<1> QED BY <1>2, <1>3, <1>4

LEMMA SetPriorityType ==
  ASSUME CpTypeOK, NEW p \in Priorities, set_priority(p)
  PROVE  CpTypeOK'
<1>1. scheduling' \in [Runs -> Schedulings]
  <2>1. \A q \in Priorities : IsScheduled(q) => Scheduling(q) \in Schedulings
    BY CpAssumption, SchedulingInRange
  <2> QED BY <2>1 DEF set_priority, CpTypeOK
<1>2. /\ priority' = p /\ again' = FALSE
      /\ UNCHANGED <<flagVars, requested, stacksize, cpu_set, holder, object,
                     place, cancelled, affinity, answer, askedOf, attempted>>
  BY DEF set_priority
<1> QED BY <1>1, <1>2 DEF CpTypeOK, flagVars

LEMMA ThreadType ==
  ASSUME CpTypeOK, NEW r \in Runs, ThreadStep(r)
  PROVE  CpTypeOK'
<1> USE DEF CpTypeOK, ThreadKeeps, settingVars, flagVars, Goes, Places
<1>1. CASE Enter(r)
  BY <1>1 DEF Enter
<1>2. CASE Return(r)
  BY <1>2 DEF Return
<1>3. CASE Ask(r)
  <2>1. place' \in [Runs -> Places]
    BY <1>3 DEF Ask
  <2>2. answer' \in [Runs -> BOOLEAN]
    BY <1>3 DEF Ask
  <2> QED BY <1>3, <2>1, <2>2 DEF Ask
<1>4. CASE AskAgain(r)
  BY <1>4 DEF AskAgain
<1>5. CASE finish(r)
  BY <1>5 DEF finish
<1> QED BY <1>1, <1>2, <1>3, <1>4, <1>5 DEF ThreadStep

-----------------------------------------------------------------------------
(* The inductive invariant.  The pthread calls, and the reads of affinity in *)
(* them, are about tid, so that the type of the state itself depends on tid  *)
(* naming the one live thread whenever the object is running.                *)

LiveInv ==
  /\ attempted => Live = {tid} \ {NoThread}
  /\ ~attempted => Live = {} /\ ~running /\ tid \in {NoThread, Garbage}
  /\ running <=> Live # {}
  /\ running => ~finished

CpInv == CpTypeOK /\ LiveInv

LEMMA RunningIsRun ==
  ASSUME CpInv
  PROVE  /\ running <=> tid \in Runs
         /\ tid \in Runs => attempted /\ tid \in Live
<1>1. NoThread \notin Runs /\ Garbage \notin Runs
  BY CpAssumption DEF NoThread, Garbage, Runs
<1>2. Live \subseteq Runs
  BY DEF Live
<1>3. CASE attempted
  <2>1. Live = {tid} \ {NoThread} /\ (running <=> Live # {})
    BY <1>3 DEF CpInv, LiveInv
  <2>2. running => tid \in Live
    BY <2>1
  <2>3. tid \in Runs => tid \in Live
    BY <1>1, <2>1
  <2> QED BY <1>2, <1>3, <2>1, <2>2, <2>3
<1>4. CASE ~attempted
  <2>1. ~running /\ tid \notin Runs
    BY <1>1, <1>4 DEF CpInv, LiveInv
  <2> QED BY <2>1
<1> QED BY <1>3, <1>4

LEMMA LiveMoves ==
  ASSUME CpTypeOK, NEW r \in Runs, NEW there \in Places,
         place' = [place EXCEPT ![r] = there]
  PROVE  Live' = IF there \in {"none", "ended"} THEN Live \ {r} ELSE Live \cup {r}
  BY DEF CpTypeOK, Live

LEMMA LiveStays == place' = place => Live' = Live
  BY DEF Live

(* An action that leaves the threads where they are keeps LiveInv. *)
LEMMA KeepsLive ==
  ASSUME LiveInv, UNCHANGED <<flagVars, place, attempted>>
  PROVE  LiveInv'
  BY LiveStays DEF LiveInv, flagVars

LEMMA StartLive ==
  ASSUME CpInv, NEW p \in Priorities, NEW hint \in Hints, start(p, hint)
  PROVE  LiveInv'
<1>1. ~running /\ Live = {}
  BY DEF start, CpInv, LiveInv
<1>2. CASE StackRefused
  <2>1. /\ running' = FALSE /\ finished' = FALSE /\ tid' = tid /\ attempted' = attempted
        /\ place' = place
    BY <1>2 DEF StackRefused, StartFails, threadVars
  <2> QED BY <1>1, <2>1, LiveStays DEF CpInv, LiveInv
<1>3. CASE CreateFails
  <2>1. /\ running' = FALSE /\ finished' = FALSE /\ tid' = NoThread /\ attempted'
        /\ place' = place
    BY <1>3 DEF CreateFails, StartFails, threadVars
  <2> QED BY <1>1, <2>1, LiveStays DEF LiveInv
<1>4. CASE \E r \in Runs : CreateThread(r, p, hint)
  <2>1. PICK r \in Runs : CreateThread(r, p, hint)
    BY <1>4
  <2>2. /\ running' = TRUE /\ finished' = FALSE /\ tid' = r /\ attempted' = TRUE
        /\ place' = [place EXCEPT ![r] = "entry"]
    BY <2>1 DEF CreateThread
  <2>3. Live' = {r}
    BY <1>1, <2>2, LiveMoves DEF CpInv, Places
  <2> QED BY <2>2, <2>3 DEF LiveInv, NoThread, Runs
<1> QED BY <1>2, <1>3, <1>4 DEF start

LEMMA ThreadLive ==
  ASSUME CpInv, NEW r \in Runs, ThreadStep(r)
  PROVE  LiveInv'
<1>1. ASSUME r \in Live, NEW there \in Places \ {"none", "ended"},
             place' = [place EXCEPT ![r] = there], UNCHANGED <<flagVars, attempted>>
      PROVE LiveInv'
  <2>1. there \in Places /\ there \notin {"none", "ended"}
    BY <1>1
  <2>2. Live' = Live \cup {r}
    BY <1>1, <2>1, LiveMoves DEF CpInv
  <2>3. Live' = Live
    BY <1>1, <2>2
  <2> QED BY <1>1, <2>3 DEF CpInv, LiveInv, flagVars
<1>2. CASE Enter(r)
  <2>1. r \in Live
    BY <1>2 DEF Enter, Live
  <2>2. \E there \in Places \ {"none", "ended"} : place' = [place EXCEPT ![r] = there]
    BY <1>2 DEF Enter, Goes, Places
  <2> QED BY <1>1, <1>2, <2>1, <2>2 DEF Enter, ThreadKeeps
<1>3. CASE Return(r)
  <2>1. r \in Live
    BY <1>3 DEF Return, Live
  <2> QED BY <1>1, <1>3, <2>1 DEF Return, ThreadKeeps, Goes, Places
<1>4. CASE Ask(r)
  <2>1. r \in Live
    BY <1>4 DEF Ask, Live
  <2>2. CASE requested
    BY <1>1, <1>4, <2>1, <2>2 DEF Ask, ThreadKeeps, Goes, Places
  <2>3. CASE ~requested
    BY <1>4, <2>3, KeepsLive DEF Ask, ThreadKeeps, CpInv
  <2> QED BY <2>2, <2>3
<1>5. CASE AskAgain(r)
  <2>1. r \in Live
    BY <1>5 DEF AskAgain, Live
  <2> QED BY <1>1, <1>5, <2>1 DEF AskAgain, ThreadKeeps, Goes, Places
<1>6. CASE finish(r)
  <2>1. r \in Live
    BY <1>6 DEF finish, Live
  <2>2. /\ running' = FALSE /\ finished' = TRUE /\ tid' = NoThread /\ attempted' = attempted
        /\ place' = [place EXCEPT ![r] = "ended"]
    BY <1>6 DEF finish, ThreadKeeps, Goes
  <2>3. Live = {r} /\ attempted
    BY <2>1 DEF CpInv, LiveInv
  <2>4. Live' = {}
    BY <2>2, <2>3, LiveMoves DEF CpInv, Places
  <2> QED BY <2>2, <2>3, <2>4 DEF LiveInv
<1> QED BY <1>2, <1>3, <1>4, <1>5, <1>6 DEF ThreadStep

LEMMA CpInvInductive ==
  ASSUME CpInv, [CpNext]_cpVars
  PROVE  CpInv'
<1> USE DEF CpInv
<1>1. ASSUME NEW p \in Priorities, NEW hint \in Hints, start(p, hint)
      PROVE CpInv'
  BY <1>1, StartType, StartLive
<1>2. ASSUME NEW p \in Priorities, set_priority(p) PROVE CpInv'
  BY <1>2, SetPriorityType, KeepsLive DEF set_priority
<1>3. ASSUME NEW cpus \in SUBSET Cpus, set_affinity_cpuset(cpus) PROVE CpInv'
  <2>1. running => affinity[tid] \in SUBSET Cpus
    BY RunningIsRun DEF CpTypeOK
  <2>2. cpu_set' \in SUBSET Cpus /\ affinity' \in [Runs -> SUBSET Cpus]
    BY <1>3, <2>1 DEF set_affinity_cpuset, CpTypeOK
  <2>3. UNCHANGED <<flagVars, requested, priority, again, stacksize, holder, object,
                    place, cancelled, scheduling, answer, askedOf, attempted>>
    BY <1>3 DEF set_affinity_cpuset
  <2> QED BY <2>2, <2>3, KeepsLive DEF CpTypeOK, flagVars
<1>4. ASSUME NEW size \in {"default", "valid", "invalid"}, set_stacksize(size)
      PROVE CpInv'
  BY <1>4, KeepsLive DEF set_stacksize, CpTypeOK, flagVars, threadVars
<1>5. ASSUME request_interruption PROVE CpInv'
  <2>1. tid \in Runs
    BY <1>5, RunningIsRun DEF request_interruption
  <2> QED BY <1>5, <2>1, KeepsLive
          DEF request_interruption, CpTypeOK, flagVars, settingVars, threadVars
<1>6. ASSUME terminate PROVE CpInv'
  BY <1>6, KeepsLive DEF terminate, CpTypeOK, flagVars, settingVars
<1>7. ASSUME Destroy PROVE CpInv'
  BY <1>7, KeepsLive DEF Destroy, CpTypeOK, flagVars, settingVars, threadVars
<1>8. ASSUME NEW r \in Runs, ThreadStep(r) PROVE CpInv'
  BY <1>8, ThreadType, ThreadLive
<1>9. ASSUME UNCHANGED cpVars PROVE CpInv'
  BY <1>9, KeepsLive DEF cpVars, CpTypeOK, flagVars, settingVars, threadVars
<1> QED BY <1>1, <1>2, <1>3, <1>4, <1>5, <1>6, <1>7, <1>8, <1>9 DEF CpNext

LEMMA CpInvAlways == CpSpec => []CpInv
<1>1. CpInit => CpInv
  <2>1. Inherited \in Schedulings
    BY DEF Inherited, Schedulings
  <2> QED BY <2>1 DEF CpInit, CpInv, CpTypeOK, LiveInv, Live, Places
<1> QED BY <1>1, CpInvInductive, PTL DEF CpSpec

(* The type invariant, for any number of runs and any range of priorities. *)
THEOREM CpType == CpSpec => []CpTypeOK
<1>1. CpInv => CpTypeOK
  BY DEF CpInv
<1> QED BY <1>1, CpInvAlways, PTL

(* Whatever is started, refused, cancelled and finished, and however often: *)
(* the id the methods hand to pthread is that of the object's live thread.  *)
THEOREM IdIsLive == CpSpec => []IdNamesLiveThread
<1>1. CpInv => IdNamesLiveThread
  BY DEF CpInv, LiveInv, IdNamesLiveThread
<1> QED BY <1>1, CpInvAlways, PTL

-----------------------------------------------------------------------------
(* The processors a running thread may use are those the object says. *)
THEOREM AffinityKnown == CpSpec => []AffinityIsKnown
<1>1. CpInit => AffinityIsKnown
  BY DEF CpInit, AffinityIsKnown
<1>2. CpInv /\ AffinityIsKnown /\ [CpNext]_cpVars => AffinityIsKnown'
  <2> SUFFICES ASSUME CpInv, AffinityIsKnown, [CpNext]_cpVars
               PROVE  AffinityIsKnown'
    OBVIOUS
  <2>0. CpTypeOK
    BY DEF CpInv
  <2>1. ASSUME NEW p \in Priorities, NEW hint \in Hints, start(p, hint)
        PROVE AffinityIsKnown'
    <3>1. CASE StackRefused \/ CreateFails
      BY <3>1 DEF StackRefused, CreateFails, StartFails, AffinityIsKnown
    <3>2. ASSUME NEW r \in Runs, CreateThread(r, p, hint) PROVE AffinityIsKnown'
      <4>1. /\ tid' = r /\ cpu_set' = cpu_set
            /\ affinity' = [affinity EXCEPT ![r] = IF cpu_set = {} THEN Cpus ELSE cpu_set]
        BY <2>1, <3>2 DEF CreateThread, start
      <4> QED BY <2>0, <4>1 DEF AffinityIsKnown, CpTypeOK
    <3> QED BY <2>1, <3>1, <3>2 DEF start
  <2>2. ASSUME NEW cpus \in SUBSET Cpus, set_affinity_cpuset(cpus)
        PROVE AffinityIsKnown'
    <3>1. running => tid \in Runs
      BY RunningIsRun
    <3>2. running' = running /\ tid' = tid
      BY <2>2 DEF set_affinity_cpuset, flagVars
    <3> QED BY <2>0, <2>2, <3>1, <3>2
            DEF set_affinity_cpuset, AffinityIsKnown, CpTypeOK
  <2>3. ASSUME NEW r \in Runs, ThreadStep(r) PROVE AffinityIsKnown'
    <3>1. UNCHANGED <<cpu_set, affinity>>
      BY <2>3 DEF ThreadStep, Enter, Return, Ask, AskAgain, finish, ThreadKeeps, settingVars
    <3>2. \/ running' = FALSE
          \/ running' = running /\ tid' = tid
      BY <2>3 DEF ThreadStep, Enter, Return, Ask, AskAgain, finish, flagVars
    <3> QED BY <3>1, <3>2 DEF AffinityIsKnown
  <2>4. ASSUME UNCHANGED <<running, tid, cpu_set, affinity>> PROVE AffinityIsKnown'
    BY <2>4 DEF AffinityIsKnown
  <2> QED
    BY <2>1, <2>2, <2>3, <2>4
       DEF CpNext, set_priority, set_stacksize, request_interruption, terminate,
           Destroy, cpVars, flagVars, settingVars, threadVars
<1> QED BY <1>1, <1>2, CpInvAlways, PTL DEF CpSpec

(* The object is destroyed only when no thread is left that would use it:   *)
(* the destructor gets past its own locks only when nothing is running, and *)
(* nothing is started afterwards.                                           *)
THEOREM NothingUsesTheDestroyed == CpSpec => []NoUseAfterDestroy
<1>1. CpInit => NoUseAfterDestroy
  BY DEF CpInit, NoUseAfterDestroy
<1>2. CpInv /\ NoUseAfterDestroy /\ [CpNext]_cpVars => NoUseAfterDestroy'
  <2> SUFFICES ASSUME CpInv, NoUseAfterDestroy, [CpNext]_cpVars
               PROVE  NoUseAfterDestroy'
    OBVIOUS
  <2>1. ASSUME Destroy PROVE NoUseAfterDestroy'
    <3>1. Live' = Live
      BY <2>1, LiveStays DEF Destroy, threadVars
    <3>2. CASE running /\ ~finished
      BY <2>1, <3>2 DEF Destroy, NoUseAfterDestroy
    <3>3. CASE ~(running /\ ~finished)
      BY <3>1, <3>3 DEF CpInv, LiveInv, NoUseAfterDestroy
    <3> QED BY <3>2, <3>3
  <2>2. ASSUME NEW r \in Runs, ThreadStep(r) PROVE NoUseAfterDestroy'
    <3>1. object' = object
      BY <2>2 DEF ThreadStep, Enter, Return, Ask, AskAgain, finish, ThreadKeeps
    <3>2. r \in Live
      BY <2>2 DEF ThreadStep, Enter, Return, Ask, AskAgain, finish, Live
    <3> QED BY <3>1, <3>2 DEF NoUseAfterDestroy
  <2>3. ASSUME object = "alive", object' = object PROVE NoUseAfterDestroy'
    BY <2>3 DEF NoUseAfterDestroy
  <2>4. ASSUME UNCHANGED cpVars PROVE NoUseAfterDestroy'
    BY <2>4, LiveStays DEF cpVars, threadVars, NoUseAfterDestroy
  <2> QED
    BY <2>1, <2>2, <2>3, <2>4
       DEF CpNext, Caller, start, set_priority, set_affinity_cpuset, set_stacksize,
           request_interruption, terminate
<1> QED BY <1>1, <1>2, CpInvAlways, PTL DEF CpSpec

=============================================================================
