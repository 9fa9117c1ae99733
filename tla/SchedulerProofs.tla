-------------------------- MODULE SchedulerProofs --------------------------
(***************************************************************************)
(* Safety of the threads of proj02, for every number of processes, every   *)
(* workload and every slice policy: the invariant IInv of Scheduler is     *)
(* inductive, and the safety properties follow from it.  Before that, what *)
(* the operations of Cfs do to the runqueue and what its arithmetic        *)
(* returns, for every runqueue, priority and time; at the end, what the    *)
(* scheduler has waited for when it tears everything down.                 *)
(***************************************************************************)
EXTENDS Scheduler, FiniteSetTheorems, TLAPS

(* The runqueue and the time slices.                                       *)

(* Every priority of the kernel's table has a positive weight.             *)
LEMMA WeightIsPositive ==
  \A prio \in PriorityRange : get_weight(prio) \in Nat \ {0}
BY DEF PriorityRange, get_weight, prio_to_weight

(* runqueue_add_pcb adds the pid, and keeps a list without duplicates so.  *)
LEMMA AddPcb ==
  ASSUME NEW S, NEW q \in Seq(S), NEW p \in S
  PROVE  LET r == runqueue_add_pcb(q, p)
         IN  /\ r \in Seq(S)
             /\ Range(r) = Range(q) \cup {p}
             /\ IsInjective(q) /\ p \notin Range(q) => IsInjective(r)
<1> DEFINE r == <<p>> \o q
<1>1. /\ r \in Seq(S)
      /\ Len(r) = Len(q) + 1
      /\ r[1] = p
      /\ \A i \in 1 .. Len(q) : r[i + 1] = q[i]
  OBVIOUS
<1>2. DOMAIN r = 1 .. Len(q) + 1 /\ DOMAIN q = 1 .. Len(q) /\ Len(q) \in Nat
  BY <1>1
<1> HIDE DEF r
<1>3. \A i \in DOMAIN r : i = 1 \/ (i - 1 \in DOMAIN q /\ r[i] = q[i - 1])
  <2> TAKE i \in DOMAIN r
  <2>1. CASE i # 1
    <3>1. i - 1 \in 1 .. Len(q) /\ (i - 1) + 1 = i
      BY <1>2, <2>1
    <3> QED BY <1>1, <1>2, <3>1
  <2> QED BY <2>1
<1>4. Range(r) = Range(q) \cup {p}
  <2>1. Range(r) \subseteq Range(q) \cup {p}
    BY <1>1, <1>3 DEF Range
  <2>2. p \in Range(r)
    BY <1>1, <1>2 DEF Range
  <2>3. ASSUME NEW i \in DOMAIN q PROVE q[i] \in Range(r)
    <3>1. i + 1 \in DOMAIN r /\ r[i + 1] = q[i]
      BY <1>1, <1>2
    <3> QED BY <3>1 DEF Range
  <2> QED BY <2>1, <2>2, <2>3 DEF Range
<1>5. ASSUME IsInjective(q), p \notin Range(q) PROVE IsInjective(r)
  <2> SUFFICES ASSUME NEW i \in DOMAIN r, NEW j \in DOMAIN r, r[i] = r[j]
               PROVE  i = j
    BY DEF IsInjective
  <2>1. CASE i = 1 \/ j = 1
    BY <1>1, <1>3, <1>5, <2>1 DEF Range
  <2>2. CASE i # 1 /\ j # 1
    <3>1. i - 1 = j - 1
      BY <1>3, <1>5, <2>2 DEF IsInjective
    <3> QED BY <1>2, <3>1
  <2> QED BY <2>1, <2>2
<1> QED BY <1>1, <1>4, <1>5 DEF r, runqueue_add_pcb

(* runqueue_remove_pcb leaves a list without duplicates with exactly the   *)
(* other pids.                                                             *)
LEMMA RemovePcb ==
  ASSUME NEW S, NEW q \in Seq(S), NEW p, IsInjective(q)
  PROVE  LET r == runqueue_remove_pcb(q, p)
         IN  /\ r \in Seq(S)
             /\ Range(r) = Range(q) \ {p}
             /\ IsInjective(r)
<1>1. CASE p \notin Range(q)
  BY <1>1 DEF runqueue_remove_pcb
<1>2. CASE p \in Range(q)
  <2> DEFINE IsFirst(i) == q[i] = p /\ \A j \in 1 .. i - 1 : q[j] # p
             first      == CHOOSE i \in DOMAIN q : IsFirst(i)
             r          == [ i \in 1 .. Len(q) - 1 |->
                               IF i < first THEN q[i] ELSE q[i + 1] ]
  <2>1. DOMAIN q = 1 .. Len(q) /\ Len(q) \in Nat
    OBVIOUS
  <2>2. PICK k \in DOMAIN q : q[k] = p
    BY <1>2 DEF Range
  <2>3. \A j \in 1 .. k - 1 : q[j] # p
    BY <2>1, <2>2 DEF IsInjective
  <2>4. first \in DOMAIN q /\ q[first] = p
    BY <2>2, <2>3
  <2>5. first = k
    BY <2>2, <2>4 DEF IsInjective
  <2>6. r = runqueue_remove_pcb(q, p)
    BY <1>2 DEF runqueue_remove_pcb
  <2>7. r = [ i \in 1 .. Len(q) - 1 |-> IF i < k THEN q[i] ELSE q[i + 1] ]
    BY <2>5
  <2> HIDE DEF first, r
  <2>8. Len(q) - 1 \in Nat
    BY <2>1, <2>2
  <2>9. \A i \in 1 .. Len(q) - 1 : r[i] \in S
    BY <2>1, <2>7
  <2>10. r \in Seq(S) /\ DOMAIN r = 1 .. Len(q) - 1
    BY <2>7, <2>8, <2>9
  <2>11. Range(r) = Range(q) \ {p}
    <3>1. ASSUME NEW i \in DOMAIN r PROVE r[i] \in Range(q) \ {p}
      <4>1. CASE i < k
        BY <2>1, <2>2, <2>3, <2>7, <2>10, <4>1 DEF Range
      <4>2. CASE ~ i < k
        <5>1. i + 1 \in DOMAIN q /\ i + 1 # k /\ r[i] = q[i + 1]
          BY <2>1, <2>7, <2>10, <4>2
        <5> QED BY <2>2, <5>1 DEF Range, IsInjective
      <4> QED BY <4>1, <4>2
    <3>2. ASSUME NEW j \in DOMAIN q, q[j] # p PROVE q[j] \in Range(r)
      <4>1. CASE j < k
        <5>1. j \in DOMAIN r /\ r[j] = q[j]
          BY <2>1, <2>7, <2>10, <4>1
        <5> QED BY <5>1 DEF Range
      <4>2. CASE ~ j < k
        <5>1. j # k
          BY <2>2, <3>2
        <5>2. j - 1 \in DOMAIN r /\ ~ (j - 1 < k) /\ (j - 1) + 1 = j
          BY <2>1, <2>10, <4>2, <5>1
        <5>3. r[j - 1] = q[j]
          BY <2>7, <2>10, <5>2
        <5> QED BY <5>2, <5>3 DEF Range
      <4> QED BY <4>1, <4>2
    <3> QED BY <3>1, <3>2 DEF Range
  <2>12. IsInjective(r)
    <3> SUFFICES ASSUME NEW i \in DOMAIN r, NEW j \in DOMAIN r, r[i] = r[j] PROVE i = j
      BY DEF IsInjective
    <3>1. /\ IF i < k THEN i \in DOMAIN q /\ r[i] = q[i]
             ELSE i + 1 \in DOMAIN q /\ r[i] = q[i + 1]
          /\ IF j < k THEN j \in DOMAIN q /\ r[j] = q[j]
             ELSE j + 1 \in DOMAIN q /\ r[j] = q[j + 1]
      BY <2>1, <2>7, <2>10
    <3>2. PICK l \in DOMAIN q : l = (IF i < k THEN i ELSE i + 1) /\ r[i] = q[l]
      BY <3>1
    <3>3. PICK m \in DOMAIN q : m = (IF j < k THEN j ELSE j + 1) /\ r[j] = q[m]
      BY <3>1
    <3>4. l = m
      BY <3>2, <3>3 DEF IsInjective
    <3> QED BY <2>1, <2>10, <3>2, <3>3, <3>4
  <2> QED BY <2>6, <2>10, <2>11, <2>12
<1> QED BY <1>1, <1>2

(* A natural number of milliseconds adds a natural number to the virtual   *)
(* runtime, whatever the scale.                                            *)
LEMMA VruntimeIsNatural ==
  ASSUME NEW scale \in Nat, NEW prio \in PriorityRange, NEW time \in Nat
  PROVE  runqueue_vruntime(scale, prio, time) \in Nat
<1>1. get_weight(prio) \in Nat \ {0} /\ get_weight(0) \in Nat
  BY WeightIsPositive DEF PriorityRange
<1>2. get_weight(0) * scale \in Nat
  BY <1>1
<1>3. get_weight(0) * scale * time \in Nat
  BY <1>2
<1>4. ASSUME NEW m \in Nat, NEW n \in Nat \ {0} PROVE m \div n \in Nat
  OBVIOUS
<1> QED BY <1>1, <1>3, <1>4 DEF runqueue_vruntime

(* No slice is shorter than MIN_GRANULARITY, and one that is longer is the *)
(* process's weighted share of SCHED_LATENCY.                              *)
LEMMA SliceIsLongEnough ==
  ASSUME NEW weight \in Nat, NEW total \in Nat
  PROVE  /\ SliceOfWeight(weight, total) \in Nat
         /\ SliceOfWeight(weight, total) >= MIN_GRANULARITY
<1>1. CASE total = 0
  BY <1>1 DEF SliceOfWeight, MIN_GRANULARITY, SCHED_LATENCY
<1>2. CASE total # 0
  <2>1. 2 * weight * SCHED_LATENCY + total \in Nat /\ 2 * total \in Nat \ {0}
    BY <1>2 DEF SCHED_LATENCY
  <2>2. ASSUME NEW m \in Nat, NEW n \in Nat \ {0} PROVE m \div n \in Nat
    OBVIOUS
  <2>3. (2 * weight * SCHED_LATENCY + total) \div (2 * total) \in Nat
    BY <2>1, <2>2
  <2> QED BY <1>2, <2>3 DEF SliceOfWeight, MIN_GRANULARITY
<1> QED BY <1>1, <1>2

-----------------------------------------------------------------------------
(* The threads.                                                            *)

USE DEF vars, rqVars, needVars, schedVars, genVars, paramVars, timingVars,
        pcbVars, mainVars, QueuedPcs, OnCpu, Terminates

LEMMA PrioritiesAreTabulated == Priorities \cup {0} \subseteq PriorityRange
BY ParamsAssumption DEF Priorities, PriorityRange

LEMMA QueuedAreProcs == TypeOK => Range(rq) \subseteq Procs
BY DEF TypeOK, Range

LEMMA InitInv == Init => IInv
<1> SUFFICES ASSUME Init PROVE IInv
  OBVIOUS
<1>1. Range(rq) = {} /\ IsInjective(rq) /\ rq \in Seq(Procs)
  BY DEF Init, Range, IsInjective
<1>2. TypeOK
  <2>1. /\ created \in 0 .. N /\ selected \in Procs \cup {NoPcb}
        /\ rq_count \in Nat /\ remaining_process_count \in Int
        /\ stats \in SUBSET Procs /\ printed \in SUBSET Procs
    BY CountAssumption DEF Init
  <2>2. have_running_process \in BOOLEAN /\ waiting_for_new_process \in BOOLEAN
    BY DEF Init
  <2>3. /\ pc \in [Procs -> QueuedPcs \cup {"unborn", "enqueue", "burst", "yield",
                                          "unlock", "depart", "exited", "segv"}]
        /\ state \in [Procs -> {"READY", "RUNNING"}]
        /\ pcb_mutex \in [Procs -> {"free", "held"}]
    BY DEF Init
  <2>4. /\ process_length \in [Procs -> Int] /\ cpu_time \in [Procs -> Nat]
        /\ vruntime \in [Procs -> Nat]
        /\ priority \in [Procs -> Priorities \cup {0}]
    BY DEF Init
  <2>5. /\ rq_memory \in {"live", "freed", "null"}
        /\ mutex_runqueue \in {"valid", "destroyed"}
        /\ mutex_need_scheduling \in {"free", "held", "destroyed"}
        /\ sched_pc = "start" /\ gen_pc = "loop" /\ main_pc = "join_scheduler"
    BY DEF Init
  <2> QED BY <1>1, <2>1, <2>2, <2>3, <2>4, <2>5 DEF TypeOK
<1>3. /\ MutualExclusion /\ CpuAccounting /\ RunqueueMatchesThreads
      /\ SelectionStaysValid /\ NoLostWakeup /\ ServedExactly
      /\ LocksMatchControl /\ StateMatchesControl /\ WaitingFlag
      /\ SelectionIsLeast
  BY <1>1 DEF Init, MutualExclusion, CpuAccounting, RunqueueMatchesThreads,
     SelectionStaysValid, NoLostWakeup, ServedExactly, LocksMatchControl,
     StateMatchesControl, WaitingFlag, SelectionIsLeast
<1>4. DemandMatchesControl
  BY DEF Init, DemandMatchesControl, Procs
<1> QED BY <1>2, <1>3, <1>4 DEF IInv

-----------------------------------------------------------------------------
(* The scheduler thread.                                                   *)

(* The steps that only move the scheduler between its lock, its loop and   *)
(* its teardown.                                                           *)
LEMMA SchedulerControlStep ==
  ASSUME IInv,
         \/ sched_start \/ sched_loop \/ sched_lock \/ sched_wait
         \/ sched_spurious_wakeup \/ sched_teardown
  PROVE  IInv'
<1>1. TypeOK'
  BY CountAssumption DEF IInv, TypeOK, sched_start, sched_loop, sched_lock,
     sched_wait, sched_spurious_wakeup, sched_teardown
<1>2. /\ MutualExclusion' /\ RunqueueMatchesThreads' /\ ServedExactly'
      /\ StateMatchesControl' /\ DemandMatchesControl'
  BY DEF IInv, MutualExclusion, RunqueueMatchesThreads, ServedExactly,
     StateMatchesControl, DemandMatchesControl, sched_start, sched_loop,
     sched_lock, sched_wait, sched_spurious_wakeup, sched_teardown
<1>3. /\ CpuAccounting' /\ SelectionStaysValid' /\ SelectionIsLeast'
      /\ LocksMatchControl'
  BY DEF IInv, CpuAccounting, SelectionStaysValid, SelectionIsLeast,
     LocksMatchControl, sched_start, sched_loop,
     sched_lock, sched_wait, sched_spurious_wakeup, sched_teardown
<1>4. NoLostWakeup' /\ WaitingFlag'
  BY DEF IInv, NoLostWakeup, WaitingFlag, sched_start, sched_loop,
     sched_lock, sched_wait, sched_spurious_wakeup, sched_teardown
<1> QED BY <1>1, <1>2, <1>3, <1>4 DEF IInv

(* An empty runqueue: from here on the scheduler waits for a process that  *)
(* has not announced itself, because nobody is queued at all.              *)
LEMMA SchedulerNobodyStep ==
  ASSUME IInv, sched_nobody
  PROVE  IInv'
<1>1. Range(rq) = {}
  BY DEF sched_nobody, Range
<1>2. TypeOK'
  BY DEF IInv, TypeOK, sched_nobody
<1>3. /\ MutualExclusion' /\ RunqueueMatchesThreads' /\ ServedExactly'
      /\ StateMatchesControl' /\ DemandMatchesControl'
  BY DEF IInv, MutualExclusion, RunqueueMatchesThreads, ServedExactly,
     StateMatchesControl, DemandMatchesControl, sched_nobody
<1>4. /\ CpuAccounting' /\ SelectionStaysValid' /\ SelectionIsLeast'
      /\ LocksMatchControl'
  BY DEF IInv, CpuAccounting, SelectionStaysValid, SelectionIsLeast,
     LocksMatchControl, sched_nobody
<1>5. NoLostWakeup' /\ WaitingFlag'
  BY <1>1 DEF IInv, NoLostWakeup, WaitingFlag, sched_nobody
<1> QED BY <1>2, <1>3, <1>4, <1>5 DEF IInv

(* The selection: nobody owns the CPU, so the process picked is READY, and *)
(* whoever holds its mutex is about to wait on its condition variable.     *)
LEMMA SchedulerSelectStep ==
  ASSUME IInv, sched_select
  PROVE  IInv'
<1>1. PICK i \in DOMAIN rq : IsSmallestAt(rq, vruntime, i) /\ selected' = rq[i]
  BY DEF sched_select
<1>2. rq[i] \in Range(rq)
  BY DEF Range
<1>3. rq[i] \in Procs
  BY DEF IInv, TypeOK
<1>4. \A p \in Procs : ~ OnCpu(p)
  BY DEF IInv, CpuAccounting, sched_select
<1>5. TypeOK'
  BY <1>1, <1>3 DEF IInv, TypeOK, sched_select
<1>6. SelectionStaysValid'
  <2>1. state[rq[i]] = "READY" /\ pc[rq[i]] # "segv"
    BY <1>2, <1>3, <1>4 DEF IInv, TypeOK, StateMatchesControl
  <2>2. pc[rq[i]] \in QueuedPcs \ {"dispatch"}
    BY <1>2, <1>3, <2>1 DEF IInv, RunqueueMatchesThreads, StateMatchesControl
  <2>3. pcb_mutex[rq[i]] = "held" => pc[rq[i]] = "check"
    BY <1>3, <2>2 DEF IInv, LocksMatchControl
  <2> QED BY <1>1, <1>2, <2>1, <2>3 DEF SelectionStaysValid, sched_select
<1>7. SelectionIsLeast'
  <2>1. \A q \in Range(rq) : vruntime[rq[i]] <= vruntime[q]
    BY <1>1 DEF IsSmallestAt, Range
  <2> QED BY <1>1, <2>1 DEF SelectionIsLeast, sched_select
<1>8. /\ MutualExclusion' /\ RunqueueMatchesThreads' /\ ServedExactly'
      /\ StateMatchesControl' /\ DemandMatchesControl'
  BY DEF IInv, MutualExclusion, RunqueueMatchesThreads, ServedExactly,
     StateMatchesControl, DemandMatchesControl, sched_select
<1>9. CpuAccounting' /\ LocksMatchControl' /\ NoLostWakeup' /\ WaitingFlag'
  BY DEF IInv, CpuAccounting, LocksMatchControl, NoLostWakeup, WaitingFlag,
     sched_select
<1> QED BY <1>5, <1>6, <1>7, <1>8, <1>9 DEF IInv

(* PROCESS_RUNNING: the selected process takes the idle CPU, and is woken  *)
(* if it sleeps.                                                           *)
LEMMA SchedulerSignalStep ==
  ASSUME IInv, signal_process
  PROVE  IInv'
<1>1. /\ selected \in Procs /\ selected \in Range(rq)
      /\ state[selected] = "READY"
  BY DEF IInv, TypeOK, SelectionStaysValid, signal_process, Range
<1>2. pc[selected] \in QueuedPcs \ {"check", "dispatch"}
  BY <1>1 DEF IInv, RunqueueMatchesThreads, StateMatchesControl,
     LocksMatchControl, signal_process
<1>3. \A p \in Procs : ~ OnCpu(p)
  BY DEF IInv, CpuAccounting, WaitingFlag, signal_process
<1>4. \A p \in Procs : /\ pc'[p] = IF p = selected /\ pc[p] = "waiting"
                                   THEN "relock" ELSE pc[p]
                       /\ state'[p] = IF p = selected THEN "RUNNING"
                                                      ELSE state[p]
  BY <1>1 DEF IInv, TypeOK, signal_process, SignalPcb
<1>5. TypeOK'
  <2>1. pc' \in [Procs -> QueuedPcs \cup {"unborn", "enqueue", "burst", "yield",
                                          "unlock", "depart", "exited", "segv"}]
    BY DEF IInv, TypeOK, signal_process, SignalPcb
  <2>2. state' \in [Procs -> {"READY", "RUNNING"}]
    BY DEF IInv, TypeOK, signal_process
  <2> QED BY <2>1, <2>2 DEF IInv, TypeOK, signal_process
<1>6. \A p \in Procs : OnCpu(p)' <=> p = selected
  BY <1>3, <1>4
<1>7. MutualExclusion' /\ CpuAccounting'
  BY <1>1, <1>6 DEF MutualExclusion, CpuAccounting, signal_process
<1>8. RunqueueMatchesThreads' /\ StateMatchesControl'
  BY <1>1, <1>2, <1>4 DEF IInv, RunqueueMatchesThreads, StateMatchesControl,
     signal_process
<1>9. SelectionStaysValid' /\ SelectionIsLeast'
  BY DEF SelectionStaysValid, SelectionIsLeast, signal_process
<1>10. LocksMatchControl' /\ DemandMatchesControl' /\ ServedExactly'
  BY <1>4 DEF IInv, LocksMatchControl, DemandMatchesControl, ServedExactly,
     signal_process
<1>11. NoLostWakeup' /\ WaitingFlag'
  BY <1>4 DEF IInv, NoLostWakeup, WaitingFlag, signal_process
<1> QED BY <1>5, <1>7, <1>8, <1>9, <1>10, <1>11 DEF IInv

LEMMA SchedulerMarkStep ==
  ASSUME IInv, sched_mark
  PROVE  IInv'
<1>1. TypeOK'
  BY DEF IInv, TypeOK, sched_mark
<1>2. /\ MutualExclusion' /\ RunqueueMatchesThreads' /\ ServedExactly'
      /\ StateMatchesControl' /\ DemandMatchesControl'
  BY DEF IInv, MutualExclusion, RunqueueMatchesThreads, ServedExactly,
     StateMatchesControl, DemandMatchesControl, sched_mark
<1>3. /\ CpuAccounting' /\ SelectionStaysValid' /\ SelectionIsLeast'
      /\ LocksMatchControl'
  BY DEF IInv, CpuAccounting, SelectionStaysValid, SelectionIsLeast,
     LocksMatchControl, sched_mark
<1>4. NoLostWakeup' /\ WaitingFlag'
  BY DEF IInv, NoLostWakeup, WaitingFlag, sched_mark
<1> QED BY <1>1, <1>2, <1>3, <1>4 DEF IInv

-----------------------------------------------------------------------------
(* The generator thread.                                                   *)

LEMMA GeneratorCreateStep ==
  ASSUME IInv, gen_create
  PROVE  IInv'
<1> DEFINE p == created + 1
<1>1. p \in Procs /\ created \in 0 .. N /\ p <= N
  BY CountAssumption DEF IInv, TypeOK, Procs, gen_create
<1>2. PICK params \in ProcessParams :
        /\ process_length' = [process_length EXCEPT ![p] = params.length]
        /\ priority' = [priority EXCEPT ![p] = params.priority]
        /\ pc' = [pc EXCEPT ![p] = LoopTest(params.length, 0)]
  BY DEF gen_create
<1>3. params.length \in Int /\ params.priority \in Priorities
  BY ParamsAssumption DEF Priorities
<1>4. pc[p] = "unborn" /\ cpu_time[p] = 0
  BY <1>1 DEF IInv, DemandMatchesControl
<1>5. p \notin Range(rq) /\ state[p] = "READY" /\ pcb_mutex[p] = "free"
  BY <1>1, <1>4 DEF IInv, TypeOK, RunqueueMatchesThreads, StateMatchesControl,
     LocksMatchControl
<1> HIDE DEF p
<1>6. /\ pc'[p] = IF params.length > 0 THEN "enqueue" ELSE "depart"
      /\ process_length'[p] = params.length
      /\ \A q \in Procs : q # p => /\ pc'[q] = pc[q]
                                  /\ process_length'[q] = process_length[q]
  BY <1>1, <1>2 DEF IInv, TypeOK, LoopTest
<1>7. TypeOK'
  <2>1. pc' \in [Procs -> QueuedPcs \cup {"unborn", "enqueue", "burst", "yield",
                                          "unlock", "depart", "exited", "segv"}]
    BY <1>2 DEF IInv, TypeOK, LoopTest
  <2>2. /\ process_length' \in [Procs -> Int]
        /\ priority' \in [Procs -> Priorities \cup {0}]
    BY <1>2, <1>3 DEF IInv, TypeOK
  <2>3. created' \in 0 .. N /\ gen_pc' = "set_tid"
    BY <1>1 DEF gen_create, p
  <2> QED BY <2>1, <2>2, <2>3 DEF IInv, TypeOK, gen_create
<1>8. MutualExclusion' /\ CpuAccounting'
  BY <1>1, <1>4, <1>5, <1>6 DEF IInv, MutualExclusion, CpuAccounting, gen_create
<1>9. RunqueueMatchesThreads' /\ SelectionStaysValid' /\ NoLostWakeup'
  BY <1>1, <1>4, <1>5, <1>6 DEF IInv, TypeOK, RunqueueMatchesThreads,
     SelectionStaysValid, NoLostWakeup, gen_create
<1>10. ServedExactly'
  BY <1>3, <1>4, <1>6 DEF IInv, ServedExactly, gen_create
<1>11. LocksMatchControl' /\ StateMatchesControl'
  BY <1>1, <1>5, <1>6 DEF IInv, LocksMatchControl, StateMatchesControl, gen_create
<1>12. WaitingFlag' /\ SelectionIsLeast'
  BY <1>1, <1>5, <1>6, QueuedAreProcs DEF IInv, WaitingFlag, SelectionIsLeast,
     gen_create
<1>13. DemandMatchesControl'
  <2> SUFFICES ASSUME NEW q \in Procs
      PROVE  /\ q > created' <=> pc'[q] = "unborn"
             /\ pc'[q] \in QueuedPcs \cup {"enqueue", "segv"} =>
                  cpu_time[q] < process_length'[q]
             /\ pc'[q] = "unborn" => cpu_time[q] = 0
    BY DEF DemandMatchesControl, gen_create
  <2>1. created' = created + 1 /\ q \in Int
    BY DEF gen_create, Procs
  <2>2. CASE q = p
    BY <1>1, <1>3, <1>4, <1>6, <2>1, <2>2 DEF p
  <2>3. CASE q # p
    BY <1>1, <1>6, <2>1, <2>3 DEF IInv, DemandMatchesControl, p
  <2> QED BY <2>2, <2>3
<1> QED BY <1>7, <1>8, <1>9, <1>10, <1>11, <1>12, <1>13 DEF IInv

(* The other steps of the generator, and those of main, read the shared    *)
(* state and move only the thread itself.                                  *)
LEMMA GeneratorOrMainStep ==
  ASSUME IInv,
         \/ gen_set_tid \/ gen_poll \/ gen_exit
         \/ main_join \/ print_table \/ main_return
  PROVE  IInv'
<1>1. TypeOK'
  <2>1. CASE print_table
    BY <2>1 DEF IInv, TypeOK, print_table
  <2>2. CASE gen_set_tid \/ gen_poll \/ gen_exit \/ main_join \/ main_return
    BY <2>2 DEF IInv, TypeOK, gen_set_tid, gen_poll, gen_exit, main_join,
       main_return
  <2> QED BY <2>1, <2>2
<1>2. UNCHANGED <<rq, have_running_process, waiting_for_new_process,
                  mutex_need_scheduling, schedVars, created, pc, pcbVars>>
  BY DEF gen_set_tid, gen_poll, gen_exit, main_join, print_table, main_return
<1>3. /\ MutualExclusion' /\ CpuAccounting' /\ RunqueueMatchesThreads'
      /\ SelectionStaysValid' /\ NoLostWakeup' /\ ServedExactly'
  BY <1>2 DEF IInv, MutualExclusion, CpuAccounting, RunqueueMatchesThreads,
     SelectionStaysValid, NoLostWakeup, ServedExactly
<1>4. /\ LocksMatchControl' /\ StateMatchesControl' /\ WaitingFlag'
      /\ SelectionIsLeast' /\ DemandMatchesControl'
  BY <1>2 DEF IInv, LocksMatchControl, StateMatchesControl, WaitingFlag,
     SelectionIsLeast, DemandMatchesControl
<1> QED BY <1>1, <1>3, <1>4 DEF IInv

-----------------------------------------------------------------------------
(* The thread of a process.                                                *)

(* What a step of p that only moves its pc does to the pcs.                *)
LEMMA PcStep ==
  ASSUME TypeOK, NEW p \in Procs, NEW to, pc' = [pc EXCEPT ![p] = to]
  PROVE  \A q \in Procs : pc'[q] = IF q = p THEN to ELSE pc[q]
BY DEF TypeOK

LEMMA EnqueueStep ==
  ASSUME IInv, NEW p \in Procs, add_pcb_to_runqueue(p)
  PROVE  IInv'
<1>1. /\ pc[p] = "enqueue" /\ p \notin Range(rq) /\ state[p] = "READY"
      /\ pcb_mutex[p] = "free"
  BY DEF IInv, TypeOK, RunqueueMatchesThreads, StateMatchesControl,
     LocksMatchControl, add_pcb_to_runqueue
<1>2. CASE /\ rq_memory = "live"
           /\ rq' = runqueue_add_pcb(rq, p)
           /\ pc' = [pc EXCEPT ![p] = "announce"]
  <2>1. \A q \in Procs : pc'[q] = IF q = p THEN "announce" ELSE pc[q]
    BY <1>2, PcStep DEF IInv
  <2>2. rq' \in Seq(Procs) /\ Range(rq') = Range(rq) \cup {p} /\ IsInjective(rq')
    BY <1>1, <1>2, AddPcb DEF IInv, TypeOK, RunqueueMatchesThreads
  <2>3. TypeOK'
    <3>1. pc' \in [Procs -> QueuedPcs \cup {"unborn", "enqueue", "burst", "yield",
                                            "unlock", "depart", "exited", "segv"}]
      BY <1>2 DEF IInv, TypeOK
    <3> QED BY <2>2, <3>1 DEF IInv, TypeOK, add_pcb_to_runqueue
  <2>4. MutualExclusion' /\ CpuAccounting'
    BY <1>1, <2>1 DEF IInv, MutualExclusion, CpuAccounting, add_pcb_to_runqueue
  <2>5. RunqueueMatchesThreads'
    BY <2>1, <2>2 DEF IInv, RunqueueMatchesThreads
  <2>6. SelectionStaysValid' /\ SelectionIsLeast'
    <3>1. sched_pc = "signal" => selected # p /\ selected \in Procs
      BY <1>1, QueuedAreProcs DEF IInv, SelectionStaysValid
    <3> QED BY <2>1, <2>2, <3>1, QueuedAreProcs DEF IInv, SelectionStaysValid,
               SelectionIsLeast, add_pcb_to_runqueue
  <2>7. NoLostWakeup' /\ WaitingFlag'
    BY <1>1, <2>1, <2>2, QueuedAreProcs DEF IInv, NoLostWakeup, WaitingFlag,
       add_pcb_to_runqueue
  <2>8. /\ ServedExactly' /\ LocksMatchControl' /\ StateMatchesControl'
        /\ DemandMatchesControl'
    BY <1>1, <2>1, <2>2 DEF IInv, ServedExactly, LocksMatchControl,
       StateMatchesControl, DemandMatchesControl, add_pcb_to_runqueue
  <2> QED BY <2>3, <2>4, <2>5, <2>6, <2>7, <2>8 DEF IInv
<1>3. CASE /\ pc' = [pc EXCEPT ![p] = "segv"]
           /\ rq' = rq
  <2>1. \A q \in Procs : pc'[q] = IF q = p THEN "segv" ELSE pc[q]
    BY <1>3, PcStep DEF IInv
  <2>2. TypeOK'
    <3>1. pc' \in [Procs -> QueuedPcs \cup {"unborn", "enqueue", "burst", "yield",
                                            "unlock", "depart", "exited", "segv"}]
      BY <1>3 DEF IInv, TypeOK
    <3> QED BY <1>3, <3>1 DEF IInv, TypeOK, add_pcb_to_runqueue
  <2>3. /\ MutualExclusion' /\ CpuAccounting' /\ RunqueueMatchesThreads'
        /\ SelectionStaysValid' /\ SelectionIsLeast'
    BY <1>1, <1>3, <2>1, QueuedAreProcs DEF IInv, MutualExclusion,
       CpuAccounting, RunqueueMatchesThreads, SelectionStaysValid,
       SelectionIsLeast, add_pcb_to_runqueue
  <2>4. NoLostWakeup' /\ WaitingFlag'
    BY <1>1, <1>3, <2>1, QueuedAreProcs DEF IInv, NoLostWakeup, WaitingFlag,
       add_pcb_to_runqueue
  <2>5. /\ ServedExactly' /\ LocksMatchControl' /\ StateMatchesControl'
        /\ DemandMatchesControl'
    BY <1>1, <1>3, <2>1 DEF IInv, ServedExactly, LocksMatchControl,
       StateMatchesControl, DemandMatchesControl, add_pcb_to_runqueue
  <2> QED BY <2>2, <2>3, <2>4, <2>5 DEF IInv
<1> QED BY <1>2, <1>3 DEF add_pcb_to_runqueue

(* The announcement ends the wait for a new process, or finds the CPU      *)
(* taken and nobody told to wait.                                          *)
LEMMA AnnounceStep ==
  ASSUME IInv, NEW p \in Procs, signal_scheduler_new_process(p)
  PROVE  IInv'
<1>1. \A q \in Procs : pc'[q] = IF q = p THEN "lock" ELSE pc[q]
  BY PcStep DEF IInv, signal_scheduler_new_process
<1>2. pc[p] = "announce"
  BY DEF signal_scheduler_new_process
<1>3. sched_pc \notin {"check", "signal", "mark"}
  BY DEF IInv, LocksMatchControl, signal_scheduler_new_process,
     NeedSchedulingAvailable
<1>4. sched_pc' = IF sched_pc = "waiting" THEN "relock" ELSE sched_pc
  BY DEF signal_scheduler_new_process, SignalScheduler
<1>5. ~ waiting_for_new_process'
  BY DEF IInv, TypeOK, WaitingFlag, signal_scheduler_new_process
<1>6. TypeOK'
  <2>1. pc' \in [Procs -> QueuedPcs \cup {"unborn", "enqueue", "burst", "yield",
                                          "unlock", "depart", "exited", "segv"}]
    BY DEF IInv, TypeOK, signal_scheduler_new_process
  <2> QED BY <1>4, <1>5, <2>1 DEF IInv, TypeOK, signal_scheduler_new_process
<1>7. MutualExclusion' /\ CpuAccounting'
  BY <1>1, <1>2, <1>4 DEF IInv, MutualExclusion, CpuAccounting,
     signal_scheduler_new_process
<1>8. RunqueueMatchesThreads' /\ StateMatchesControl'
  BY <1>1, <1>2 DEF IInv, RunqueueMatchesThreads, StateMatchesControl,
     signal_scheduler_new_process
<1>9. SelectionStaysValid' /\ SelectionIsLeast'
  BY <1>3, <1>4 DEF SelectionStaysValid, SelectionIsLeast
<1>10. NoLostWakeup' /\ WaitingFlag'
  BY <1>1, <1>3, <1>4, <1>5 DEF IInv, NoLostWakeup, WaitingFlag,
     signal_scheduler_new_process
<1>11. /\ ServedExactly' /\ DemandMatchesControl'
  BY <1>1, <1>2 DEF IInv, ServedExactly, DemandMatchesControl,
     signal_scheduler_new_process
<1>12. LocksMatchControl'
  BY <1>1, <1>2, <1>3, <1>4 DEF IInv, LocksMatchControl,
     signal_scheduler_new_process
<1> QED BY <1>6, <1>7, <1>8, <1>9, <1>10, <1>11, <1>12 DEF IInv

(* A process takes its mutex, first or again, or wakes without a signal.   *)
LEMMA PcbLockStep ==
  ASSUME IInv, NEW p \in Procs, pcb_lock(p) \/ pcb_spurious_wakeup(p)
  PROVE  IInv'
<1> DEFINE to == IF pcb_lock(p) THEN "check" ELSE "relock"
<1>1. pc' = [pc EXCEPT ![p] = to]
  BY DEF pcb_lock, pcb_spurious_wakeup
<1>2. pc[p] \in {"lock", "waiting", "relock"} /\ to \in {"check", "relock"}
  BY DEF pcb_lock, pcb_spurious_wakeup
<1>3. pcb_mutex' = IF to = "check" THEN [pcb_mutex EXCEPT ![p] = "held"]
                                   ELSE pcb_mutex
  BY DEF pcb_lock, pcb_spurious_wakeup
<1>4. UNCHANGED <<rqVars, needVars, remaining_process_count, schedVars, genVars,
                  paramVars, timingVars, state, mainVars>>
  BY DEF pcb_lock, pcb_spurious_wakeup
<1> HIDE DEF to
<1>5. \A q \in Procs : /\ pc'[q] = IF q = p THEN to ELSE pc[q]
                       /\ pcb_mutex'[q] = IF q = p /\ to = "check"
                                          THEN "held" ELSE pcb_mutex[q]
  BY <1>1, <1>3 DEF IInv, TypeOK
<1>6. TypeOK'
  <2>1. pc' \in [Procs -> QueuedPcs \cup {"unborn", "enqueue", "burst", "yield",
                                          "unlock", "depart", "exited", "segv"}]
    BY <1>1, <1>2 DEF IInv, TypeOK
  <2>2. pcb_mutex' \in [Procs -> {"free", "held"}]
    BY <1>3 DEF IInv, TypeOK
  <2> QED BY <1>4, <2>1, <2>2 DEF IInv, TypeOK
<1>7. MutualExclusion' /\ CpuAccounting' /\ RunqueueMatchesThreads'
  BY <1>2, <1>4, <1>5 DEF IInv, MutualExclusion, CpuAccounting,
     RunqueueMatchesThreads
<1>8. SelectionStaysValid' /\ SelectionIsLeast'
  BY <1>2, <1>4, <1>5, QueuedAreProcs DEF IInv, SelectionStaysValid,
     SelectionIsLeast
<1>9. NoLostWakeup' /\ WaitingFlag'
  BY <1>2, <1>4, <1>5, QueuedAreProcs DEF IInv, NoLostWakeup, WaitingFlag
<1>10. ServedExactly' /\ StateMatchesControl' /\ DemandMatchesControl'
  BY <1>2, <1>4, <1>5 DEF IInv, ServedExactly, StateMatchesControl,
     DemandMatchesControl
<1>11. LocksMatchControl'
  BY <1>2, <1>4, <1>5 DEF IInv, LocksMatchControl
<1> QED BY <1>6, <1>7, <1>8, <1>9, <1>10, <1>11 DEF IInv

(* The test of its state under the mutex: to the condition variable only   *)
(* when READY, past it only when told to run.                              *)
LEMMA PcbCheckStep ==
  ASSUME IInv, NEW p \in Procs, pcb_check(p)
  PROVE  IInv'
<1> DEFINE to == IF state[p] = "RUNNING" THEN "dispatch" ELSE "waiting"
<1>1. pc[p] = "check" /\ p \in Range(rq)
  BY DEF IInv, RunqueueMatchesThreads, pcb_check
<1>2. pc' = [pc EXCEPT ![p] = to]
  BY DEF pcb_check
<1>3. pcb_mutex' = IF to = "waiting" THEN [pcb_mutex EXCEPT ![p] = "free"]
                                     ELSE pcb_mutex
  BY DEF pcb_check
<1>4. UNCHANGED <<rqVars, needVars, remaining_process_count, schedVars, genVars,
                  paramVars, timingVars, state, mainVars>>
  BY DEF pcb_check
<1>5. /\ to \in {"dispatch", "waiting"}
      /\ to = "dispatch" <=> state[p] = "RUNNING"
      /\ to = "waiting" <=> state[p] = "READY"
  BY DEF IInv, TypeOK
<1> HIDE DEF to
<1>6. \A q \in Procs : /\ pc'[q] = IF q = p THEN to ELSE pc[q]
                       /\ pcb_mutex'[q] = IF q = p /\ to = "waiting"
                                          THEN "free" ELSE pcb_mutex[q]
  BY <1>2, <1>3 DEF IInv, TypeOK
<1>7. TypeOK'
  <2>1. pc' \in [Procs -> QueuedPcs \cup {"unborn", "enqueue", "burst", "yield",
                                          "unlock", "depart", "exited", "segv"}]
    BY <1>2, <1>5 DEF IInv, TypeOK
  <2>2. pcb_mutex' \in [Procs -> {"free", "held"}]
    BY <1>3 DEF IInv, TypeOK
  <2> QED BY <1>4, <2>1, <2>2 DEF IInv, TypeOK
<1>8. MutualExclusion' /\ CpuAccounting' /\ RunqueueMatchesThreads'
  BY <1>1, <1>4, <1>5, <1>6 DEF IInv, MutualExclusion, CpuAccounting,
     RunqueueMatchesThreads
<1>9. SelectionStaysValid' /\ SelectionIsLeast'
  BY <1>1, <1>4, <1>5, <1>6, QueuedAreProcs DEF IInv, SelectionStaysValid,
     SelectionIsLeast
<1>10. NoLostWakeup' /\ WaitingFlag'
  BY <1>1, <1>4, <1>5, <1>6, QueuedAreProcs DEF IInv, NoLostWakeup, WaitingFlag
<1>11. ServedExactly' /\ StateMatchesControl' /\ DemandMatchesControl'
  BY <1>1, <1>4, <1>5, <1>6 DEF IInv, ServedExactly, StateMatchesControl,
     DemandMatchesControl
<1>12. LocksMatchControl'
  BY <1>1, <1>4, <1>5, <1>6 DEF IInv, LocksMatchControl
<1> QED BY <1>7, <1>8, <1>9, <1>10, <1>11, <1>12 DEF IInv

(* A process that leaves, and one that gives its mutex back and either     *)
(* leaves or queues again.                                                 *)
LEMMA OffCpuStep ==
  ASSUME IInv, NEW p \in Procs, pcb_unlock(p) \/ send_process_stats(p)
  PROVE  IInv'
<1> DEFINE to == IF send_process_stats(p) THEN "exited"
                 ELSE LoopTest(process_length[p], cpu_time[p])
<1>1. /\ pc' = [pc EXCEPT ![p] = to]
      /\ pcb_mutex' \in {pcb_mutex, [pcb_mutex EXCEPT ![p] = "free"]}
      /\ pc[p] = "unlock" => pcb_mutex' = [pcb_mutex EXCEPT ![p] = "free"]
      /\ UNCHANGED <<rqVars, needVars, remaining_process_count, schedVars,
                     genVars, paramVars, timingVars, state, main_pc, printed>>
  BY DEF pcb_unlock, send_process_stats
<1>2. stats' \in SUBSET Procs
  BY DEF IInv, TypeOK, pcb_unlock, send_process_stats
<1>3. pc[p] \in {"unlock", "depart"} /\ to \in {"enqueue", "depart", "exited"}
  BY DEF pcb_unlock, send_process_stats, LoopTest
<1>4. /\ to = "enqueue" => cpu_time[p] < process_length[p]
      /\ to # "enqueue" => cpu_time[p] >= process_length[p]
  BY DEF IInv, TypeOK, ServedExactly, send_process_stats, pcb_unlock, LoopTest
<1> HIDE DEF to
<1>5. \A q \in Procs : /\ pc'[q] = IF q = p THEN to ELSE pc[q]
                       /\ pcb_mutex'[q] = pcb_mutex[q] \/ (q = p /\ pcb_mutex'[q] = "free")
                       /\ q = p /\ pc[q] = "unlock" => pcb_mutex'[q] = "free"
  BY <1>1 DEF IInv, TypeOK
<1>6. state[p] = "READY" /\ p \notin Range(rq)
  BY <1>3 DEF IInv, TypeOK, StateMatchesControl, RunqueueMatchesThreads
<1>7. TypeOK'
  <2>1. pc' \in [Procs -> QueuedPcs \cup {"unborn", "enqueue", "burst", "yield",
                                          "unlock", "depart", "exited", "segv"}]
    BY <1>1, <1>3 DEF IInv, TypeOK
  <2>2. pcb_mutex' \in [Procs -> {"free", "held"}]
    BY <1>1 DEF IInv, TypeOK
  <2> QED BY <1>1, <1>2, <2>1, <2>2 DEF IInv, TypeOK
<1>8. MutualExclusion' /\ CpuAccounting' /\ RunqueueMatchesThreads'
  BY <1>1, <1>3, <1>5 DEF IInv, MutualExclusion, CpuAccounting,
     RunqueueMatchesThreads
<1>9. SelectionStaysValid' /\ SelectionIsLeast'
  BY <1>1, <1>5, <1>6, QueuedAreProcs DEF IInv, SelectionStaysValid,
     SelectionIsLeast
<1>10. NoLostWakeup' /\ WaitingFlag'
  BY <1>1, <1>3, <1>5, <1>6, QueuedAreProcs DEF IInv, NoLostWakeup, WaitingFlag
<1>11. ServedExactly' /\ StateMatchesControl'
  BY <1>1, <1>3, <1>4, <1>5 DEF IInv, ServedExactly, StateMatchesControl
<1>12. LocksMatchControl' /\ DemandMatchesControl'
  BY <1>1, <1>3, <1>4, <1>5 DEF IInv, LocksMatchControl, DemandMatchesControl
<1> QED BY <1>7, <1>8, <1>9, <1>10, <1>11, <1>12 DEF IInv

(* A slice is never empty, whatever the policy, and never longer than what *)
(* the process still wants.                                                *)
LEMMA SliceServesDemand ==
  ASSUME IInv, NEW p \in Procs, run_slice(p), pc'[p] # "segv"
  PROVE  /\ \E time \in 1 .. process_length[p] - cpu_time[p] :
              cpu_time' = [cpu_time EXCEPT ![p] = @ + time]
         /\ vruntime' \in [Procs -> Nat]
         /\ pc' = [pc EXCEPT ![p] = "burst"]
         /\ rq' \in Seq(Procs) /\ Range(rq') = Range(rq) \ {p} /\ IsInjective(rq')
<1> DEFINE remaining_time == process_length[p] - cpu_time[p]
           timeslice == Timeslice(Range(rq'), priority, priority[p])
           time == BurstTime(p, Range(rq'))
<1>1. pc' # [pc EXCEPT ![p] = "segv"]
  BY DEF IInv, TypeOK
<1>2. /\ pc[p] = "dispatch"
      /\ rq' = runqueue_remove_pcb(rq, p)
      /\ cpu_time' = [cpu_time EXCEPT ![p] = @ + time]
      /\ vruntime' = [vruntime EXCEPT ![p] =
                        @ + runqueue_vruntime(VruntimeScale, priority[p], time)]
      /\ pc' = [pc EXCEPT ![p] = "burst"]
  BY <1>1 DEF run_slice
<1>3. rq' \in Seq(Procs) /\ Range(rq') = Range(rq) \ {p} /\ IsInjective(rq')
  BY <1>2, RemovePcb DEF IInv, TypeOK, RunqueueMatchesThreads
<1>4. /\ Range(rq') \in SUBSET Procs
      /\ priority \in [Procs -> Priorities \cup {0}]
      /\ priority[p] \in Priorities \cup {0}
  BY <1>3, QueuedAreProcs DEF IInv, TypeOK
<1>5. timeslice \in Nat \ {0}
  BY <1>4, TimesliceAssumption
<1>6. remaining_time \in Nat \ {0}
  BY <1>2 DEF IInv, TypeOK, DemandMatchesControl
<1>7. time \in 1 .. remaining_time
  BY <1>5, <1>6 DEF BurstTime
<1>8. runqueue_vruntime(VruntimeScale, priority[p], time) \in Nat
  <2>1. time \in Nat /\ VruntimeScale \in Nat /\ priority[p] \in PriorityRange
    BY <1>4, <1>6, <1>7, PrioritiesAreTabulated, CountAssumption
  <2> QED BY <2>1, VruntimeIsNatural
<1> HIDE DEF time, timeslice, remaining_time
<1>9. vruntime' \in [Procs -> Nat]
  BY <1>2, <1>8 DEF IInv, TypeOK
<1> QED BY <1>2, <1>3, <1>7, <1>9 DEF remaining_time

(* While a process owns the CPU the scheduler selects nobody.              *)
LEMMA OwnerStopsSelection ==
  ASSUME IInv, NEW p \in Procs, OnCpu(p)
  PROVE  sched_pc # "signal" /\ ~ waiting_for_new_process
BY DEF IInv, CpuAccounting, WaitingFlag

LEMMA RunSliceStep ==
  ASSUME IInv, NEW p \in Procs, run_slice(p)
  PROVE  IInv'
<1>1. pc[p] = "dispatch" /\ state[p] = "RUNNING" /\ p \in Range(rq)
  BY DEF IInv, RunqueueMatchesThreads, StateMatchesControl, run_slice
<1>2. sched_pc # "signal" /\ ~ waiting_for_new_process
  BY <1>1, OwnerStopsSelection
<1>3. UNCHANGED <<rq_count, rq_memory, mutex_runqueue, needVars,
                  remaining_process_count, schedVars, genVars, paramVars, state,
                  pcb_mutex, mainVars>>
  BY DEF run_slice
<1>4. SelectionStaysValid' /\ SelectionIsLeast'
  BY <1>2, <1>3 DEF SelectionStaysValid, SelectionIsLeast
<1>5. CASE pc'[p] # "segv"
  <2>1. PICK time \in 1 .. process_length[p] - cpu_time[p] :
          cpu_time' = [cpu_time EXCEPT ![p] = @ + time]
    BY <1>5, SliceServesDemand
  <2>2. /\ vruntime' \in [Procs -> Nat]
        /\ pc' = [pc EXCEPT ![p] = "burst"]
        /\ rq' \in Seq(Procs) /\ Range(rq') = Range(rq) \ {p} /\ IsInjective(rq')
    BY <1>5, SliceServesDemand
  <2>3. \A q \in Procs :
          /\ pc'[q] = IF q = p THEN "burst" ELSE pc[q]
          /\ cpu_time'[q] = IF q = p THEN cpu_time[q] + time ELSE cpu_time[q]
    BY <2>1, <2>2 DEF IInv, TypeOK
  <2>4. TypeOK'
    <3>1. pc' \in [Procs -> QueuedPcs \cup {"unborn", "enqueue", "burst", "yield",
                                          "unlock", "depart", "exited", "segv"}]
      BY <2>2 DEF IInv, TypeOK
    <3>2. cpu_time' \in [Procs -> Nat]
      BY <2>1 DEF IInv, TypeOK
    <3>3. rq' \in Seq(Procs) /\ vruntime' \in [Procs -> Nat]
      BY <2>2
    <3> QED BY <1>3, <3>1, <3>2, <3>3, SMTT(30) DEF IInv, TypeOK
  <2>5. MutualExclusion' /\ CpuAccounting'
    BY <1>1, <1>3, <2>3 DEF IInv, MutualExclusion, CpuAccounting
  <2>6. RunqueueMatchesThreads' /\ StateMatchesControl'
    BY <1>1, <1>3, <2>2, <2>3 DEF IInv, RunqueueMatchesThreads,
       StateMatchesControl
  <2>7. NoLostWakeup' /\ WaitingFlag'
    BY <1>2, <1>3, <2>2, <2>3, QueuedAreProcs DEF IInv, NoLostWakeup, WaitingFlag
  <2>8. ServedExactly' /\ DemandMatchesControl'
    BY <1>1, <1>3, <2>1, <2>3 DEF IInv, TypeOK, ServedExactly, DemandMatchesControl
  <2>9. LocksMatchControl'
    BY <1>1, <1>3, <2>3 DEF IInv, LocksMatchControl
  <2> QED BY <1>4, <2>4, <2>5, <2>6, <2>7, <2>8, <2>9 DEF IInv
<1>6. CASE pc'[p] = "segv"
  <2>1. pc' = [pc EXCEPT ![p] = "segv"] /\ UNCHANGED <<rq, timingVars>>
    BY <1>6 DEF IInv, TypeOK, run_slice
  <2>2. \A q \in Procs : pc'[q] = IF q = p THEN "segv" ELSE pc[q]
    BY <2>1, PcStep DEF IInv
  <2>3. TypeOK'
    <3>1. pc' \in [Procs -> QueuedPcs \cup {"unborn", "enqueue", "burst", "yield",
                                          "unlock", "depart", "exited", "segv"}]
      BY <2>1 DEF IInv, TypeOK
    <3> QED BY <1>3, <2>1, <3>1 DEF IInv, TypeOK
  <2>4. MutualExclusion' /\ CpuAccounting'
    BY <1>1, <1>3, <2>1, <2>2 DEF IInv, MutualExclusion, CpuAccounting
  <2>5. RunqueueMatchesThreads' /\ StateMatchesControl'
    BY <1>1, <1>3, <2>1, <2>2 DEF IInv, RunqueueMatchesThreads,
       StateMatchesControl
  <2>6. NoLostWakeup' /\ WaitingFlag'
    BY <1>2, <1>3, <2>1, <2>2, QueuedAreProcs DEF IInv, NoLostWakeup, WaitingFlag
  <2>7. ServedExactly' /\ DemandMatchesControl' /\ LocksMatchControl'
    BY <1>1, <1>3, <2>1, <2>2 DEF IInv, ServedExactly, DemandMatchesControl,
       LocksMatchControl
  <2> QED BY <1>4, <2>3, <2>4, <2>5, <2>6, <2>7 DEF IInv
<1> QED BY <1>5, <1>6

(* Back to READY, while the CPU is still marked busy.                      *)
LEMMA EndBurstStep ==
  ASSUME IInv, NEW p \in Procs, end_burst(p)
  PROVE  IInv'
<1>1. pc[p] = "burst" /\ state[p] = "RUNNING" /\ p \notin Range(rq)
  BY DEF IInv, RunqueueMatchesThreads, StateMatchesControl, end_burst
<1>2. sched_pc # "signal" /\ ~ waiting_for_new_process
  BY <1>1, OwnerStopsSelection
<1>3. \A q \in Procs : /\ pc'[q] = IF q = p THEN "yield" ELSE pc[q]
                       /\ state'[q] = IF q = p THEN "READY" ELSE state[q]
  BY DEF IInv, TypeOK, end_burst
<1>4. TypeOK'
  <2>1. pc' \in [Procs -> QueuedPcs \cup {"unborn", "enqueue", "burst", "yield",
                                          "unlock", "depart", "exited", "segv"}]
    BY DEF IInv, TypeOK, end_burst
  <2>2. state' \in [Procs -> {"READY", "RUNNING"}]
    BY DEF IInv, TypeOK, end_burst
  <2>3. remaining_process_count' \in Int
    BY DEF IInv, TypeOK, end_burst
  <2> QED BY <2>1, <2>2, <2>3 DEF IInv, TypeOK, end_burst
<1>5. MutualExclusion' /\ CpuAccounting'
  BY <1>1, <1>3 DEF IInv, MutualExclusion, CpuAccounting, end_burst
<1>6. RunqueueMatchesThreads' /\ StateMatchesControl'
  BY <1>1, <1>3 DEF IInv, RunqueueMatchesThreads, StateMatchesControl, end_burst
<1>7. SelectionStaysValid' /\ SelectionIsLeast'
  BY <1>2 DEF SelectionStaysValid, SelectionIsLeast, end_burst
<1>8. NoLostWakeup' /\ WaitingFlag'
  BY <1>1, <1>2, <1>3, QueuedAreProcs DEF IInv, NoLostWakeup, WaitingFlag,
     end_burst
<1>9. ServedExactly' /\ DemandMatchesControl' /\ LocksMatchControl'
  BY <1>1, <1>3 DEF IInv, ServedExactly, DemandMatchesControl,
     LocksMatchControl, end_burst
<1> QED BY <1>4, <1>5, <1>6, <1>7, <1>8, <1>9 DEF IInv

(* The CPU is given back, and the scheduler is woken if it sleeps.         *)
LEMMA YieldStep ==
  ASSUME IInv, NEW p \in Procs, signal_scheduler_terminated_process(p)
  PROVE  IInv'
<1>1. pc[p] = "yield" /\ state[p] = "READY"
  BY DEF IInv, TypeOK, StateMatchesControl, signal_scheduler_terminated_process
<1>2. sched_pc \notin {"check", "signal", "mark"} /\ ~ waiting_for_new_process
  BY <1>1, OwnerStopsSelection DEF IInv, LocksMatchControl,
     signal_scheduler_terminated_process, NeedSchedulingAvailable
<1>3. sched_pc' = IF sched_pc = "waiting" THEN "relock" ELSE sched_pc
  BY DEF signal_scheduler_terminated_process, SignalScheduler
<1>4. \A q \in Procs : pc'[q] = IF q = p THEN "unlock" ELSE pc[q]
  BY PcStep DEF IInv, signal_scheduler_terminated_process
<1>5. TypeOK'
  <2>1. pc' \in [Procs -> QueuedPcs \cup {"unborn", "enqueue", "burst", "yield",
                                          "unlock", "depart", "exited", "segv"}]
    BY DEF IInv, TypeOK, signal_scheduler_terminated_process
  <2>2. have_running_process' \in BOOLEAN
    BY DEF signal_scheduler_terminated_process
  <2>3. sched_pc' \in {sched_pc, "relock"}
    BY <1>3
  <2>4. UNCHANGED <<rqVars, waiting_for_new_process, mutex_need_scheduling,
                    remaining_process_count, selected, genVars, pcbVars, mainVars>>
    BY DEF signal_scheduler_terminated_process
  <2> QED BY <2>1, <2>2, <2>3, <2>4 DEF IInv, TypeOK
<1>6. MutualExclusion' /\ CpuAccounting'
  <2>1. \A q \in Procs : ~ OnCpu(q)'
    BY <1>1, <1>4 DEF IInv, TypeOK, MutualExclusion,
       signal_scheduler_terminated_process
  <2>2. ~ have_running_process' /\ sched_pc' # "mark"
    BY <1>2, <1>3 DEF signal_scheduler_terminated_process
  <2> QED BY <2>1, <2>2 DEF MutualExclusion, CpuAccounting
<1>7. RunqueueMatchesThreads' /\ StateMatchesControl'
  BY <1>1, <1>4 DEF IInv, RunqueueMatchesThreads, StateMatchesControl,
     signal_scheduler_terminated_process
<1>8. SelectionStaysValid' /\ SelectionIsLeast'
  BY <1>2, <1>3 DEF SelectionStaysValid, SelectionIsLeast
<1>9. NoLostWakeup' /\ WaitingFlag'
  BY <1>1, <1>2, <1>3, <1>4, QueuedAreProcs DEF IInv, NoLostWakeup, WaitingFlag,
     signal_scheduler_terminated_process
<1>10. /\ ServedExactly' /\ DemandMatchesControl'
  BY <1>1, <1>4 DEF IInv, ServedExactly, DemandMatchesControl,
     signal_scheduler_terminated_process
<1>11. LocksMatchControl'
  BY <1>1, <1>2, <1>3, <1>4 DEF IInv, LocksMatchControl,
     signal_scheduler_terminated_process
<1> QED BY <1>5, <1>6, <1>7, <1>8, <1>9, <1>10, <1>11 DEF IInv

-----------------------------------------------------------------------------
(* The invariant is inductive.                                             *)

LEMMA StepInv == IInv /\ [Next]_vars => IInv'
<1> SUFFICES ASSUME IInv, [Next]_vars PROVE IInv'
  OBVIOUS
<1>1. CASE SchedulerThread \/ sched_spurious_wakeup
  BY <1>1, SchedulerControlStep, SchedulerNobodyStep, SchedulerSelectStep,
     SchedulerSignalStep, SchedulerMarkStep DEF SchedulerThread
<1>2. CASE GeneratorThread \/ MainThread
  BY <1>2, GeneratorCreateStep, GeneratorOrMainStep DEF GeneratorThread,
     MainThread
<1>3. ASSUME NEW p \in Procs, ProcessThread(p) \/ pcb_spurious_wakeup(p)
      PROVE  IInv'
  BY <1>3, EnqueueStep, AnnounceStep, PcbLockStep, PcbCheckStep, RunSliceStep,
     EndBurstStep, YieldStep, OffCpuStep DEF ProcessThread
<1>4. CASE UNCHANGED vars
  <2>1. TypeOK'
    BY <1>4 DEF IInv, TypeOK
  <2>2. /\ MutualExclusion' /\ CpuAccounting' /\ RunqueueMatchesThreads'
        /\ SelectionStaysValid' /\ NoLostWakeup' /\ ServedExactly'
    BY <1>4 DEF IInv, MutualExclusion, CpuAccounting, RunqueueMatchesThreads,
       SelectionStaysValid, NoLostWakeup, ServedExactly
  <2>3. /\ LocksMatchControl' /\ StateMatchesControl' /\ WaitingFlag'
        /\ SelectionIsLeast' /\ DemandMatchesControl'
    BY <1>4 DEF IInv, LocksMatchControl, StateMatchesControl, WaitingFlag,
       SelectionIsLeast, DemandMatchesControl
  <2> QED BY <2>1, <2>2, <2>3 DEF IInv
<1> QED BY <1>1, <1>2, <1>3, <1>4 DEF Next, Terminated

(* The inductive invariant holds of every reachable state of the threads   *)
(* of main.c, scheduler.c, generator.c and process.c.                      *)
THEOREM Invariance == Spec => []IInv
<1>1. Init => IInv
  BY InitInv
<1>2. IInv /\ [Next]_vars => IInv'
  BY StepInv
<1> QED BY <1>1, <1>2, PTL DEF Spec

(* Every variable keeps to the values its C counterpart can have.          *)
THEOREM TypeCorrect == Spec => []TypeOK
<1>1. IInv => TypeOK
  BY DEF IInv
<1> QED BY <1>1, Invariance, PTL

(* signal_process never runs a second process: the simulated CPU has one   *)
(* owner.                                                                  *)
THEOREM OneOwner == Spec => []MutualExclusion
<1>1. IInv => MutualExclusion
  BY DEF IInv
<1> QED BY <1>1, Invariance, PTL

(* have_running_process, set by the scheduler after the process has been   *)
(* told to run and cleared by the process itself, is never left wrong.     *)
THEOREM FlagIsTrue == Spec => []CpuAccounting
<1>1. IInv => CpuAccounting
  BY DEF IInv
<1> QED BY <1>1, Invariance, PTL

(* The list of cfs.c holds exactly the processes that wait for the CPU,    *)
(* each once.                                                              *)
THEOREM QueueIsExact == Spec => []RunqueueMatchesThreads
<1>1. IInv => RunqueueMatchesThreads
  BY DEF IInv
<1> QED BY <1>1, Invariance, PTL

(* The pcb start_scheduler_thread uses after unlock_rq is still in the     *)
(* list, READY, with a mutex it can get.                                   *)
THEOREM NoStaleSelection == Spec => []SelectionStaysValid
<1>1. IInv => SelectionStaysValid
  BY DEF IInv
<1> QED BY <1>1, Invariance, PTL

(* Neither condition variable loses a wakeup.                              *)
THEOREM WakeupsArrive == Spec => []NoLostWakeup
<1>1. IInv => NoLostWakeup
  BY DEF IInv
<1> QED BY <1>1, Invariance, PTL

(* update_pcb_timings charges a process at most what it asked for, and a   *)
(* process that leaves start_process_thread has got all of it.             *)
THEOREM DemandIsServed == Spec => []ServedExactly
<1>1. IInv => ServedExactly
  BY DEF IInv
<1> QED BY <1>1, Invariance, PTL

-----------------------------------------------------------------------------
(* The steps of the threads, seen from one process.                        *)

(* Only signal_process makes a process RUNNING, and it is the selected one.*)
LEMMA OnlySignalGrants ==
  ASSUME IInv, Next, NEW p \in Procs, state[p] = "READY", state'[p] = "RUNNING"
  PROVE  sched_pc = "signal" /\ p = selected
<1>1. CASE SchedulerThread \/ sched_spurious_wakeup
  <2>1. CASE signal_process
    BY <2>1 DEF IInv, TypeOK, signal_process
  <2>2. CASE ~ signal_process
    <3>1. UNCHANGED state
      BY <1>1, <2>2 DEF SchedulerThread, sched_start, sched_loop, sched_lock,
         sched_wait, sched_spurious_wakeup, sched_nobody, sched_select,
         sched_mark, sched_teardown
    <3> QED BY <3>1
  <2> QED BY <2>1, <2>2
<1>2. CASE GeneratorThread \/ MainThread \/ Terminated
  <2>1. UNCHANGED state
    BY <1>2 DEF GeneratorThread, gen_create, gen_set_tid, gen_poll, gen_exit,
       MainThread, main_join, print_table, main_return, Terminated
  <2> QED BY <2>1
<1>3. ASSUME NEW q \in Procs, ProcessThread(q) \/ pcb_spurious_wakeup(q)
      PROVE  FALSE
  <2>1. state' = state \/ state' = [state EXCEPT ![q] = "READY"]
    BY <1>3 DEF ProcessThread, add_pcb_to_runqueue,
       signal_scheduler_new_process, pcb_lock, pcb_check, pcb_spurious_wakeup,
       run_slice, end_burst, signal_scheduler_terminated_process, pcb_unlock,
       send_process_stats
  <2> QED BY <2>1 DEF IInv, TypeOK
<1> QED BY <1>1, <1>2, <1>3 DEF Next

(* The process that becomes RUNNING has the least virtual runtime of those *)
(* that have announced themselves, whatever arrives between the scan of    *)
(* runqueue_smallest_pcb and signal_process.                               *)
THEOREM LeastIsGranted == Spec => GrantsLeastVruntime
<1> DEFINE Grants ==
      \A p \in Procs : state[p] = "READY" /\ state'[p] = "RUNNING" =>
        \A q \in Range(rq) :
          pc[q] # "announce" => vruntime[p] <= vruntime[q]
<1>1. IInv /\ [Next]_vars => [Grants]_vars
  <2> SUFFICES ASSUME IInv, Next, NEW p \in Procs,
                      state[p] = "READY", state'[p] = "RUNNING",
                      NEW q \in Range(rq), pc[q] # "announce"
               PROVE  vruntime[p] <= vruntime[q]
    OBVIOUS
  <2> QED BY OnlySignalGrants DEF IInv, SelectionIsLeast
<1> QED BY <1>1, Invariance, PTL DEF Spec, GrantsLeastVruntime

-----------------------------------------------------------------------------
(***************************************************************************)
(* The teardown.  remaining_process_count counts the processes whose last  *)
(* burst is still to come.  For a workload of exactly total_process_count  *)
(* processes that is all of them, and nobody uses the runqueue afterwards. *)
(***************************************************************************)

(* The process has notified its termination.                               *)
Notified(p) ==
  /\ process_length[p] > 0
  /\ pc[p] \in {"yield", "unlock", "depart", "exited"}
  /\ cpu_time[p] >= process_length[p]

NotifiedSet == { p \in Procs : Notified(p) }

TornDown ==
  sched_pc \in {"destroy_need", "destroy_rq", "free_rq", "null_rq", "exited"}

BurstsAreOwed == \A p \in Procs : pc[p] = "burst" => process_length[p] > 0

(* remaining_process_count is exact from the moment the scheduler sets it, *)
(* which is before anybody gets the CPU.                                   *)
CountIsExact ==
  /\ BurstsAreOwed
  /\ sched_pc = "start" => ~ have_running_process /\ NotifiedSet = {}
  /\ sched_pc # "start" =>
       remaining_process_count = TotalProcessCount - Cardinality(NotifiedSet)
  /\ TornDown => Cardinality(NotifiedSet) >= TotalProcessCount

LEMMA ProcsAreFinite == IsFiniteSet(Procs) /\ Cardinality(Procs) = N
BY CountAssumption, FS_Interval DEF Procs

LEMMA SomeNotifiedAreFinite ==
  /\ IsFiniteSet(NotifiedSet)
  /\ Cardinality(NotifiedSet) \in Nat
  /\ Cardinality(NotifiedSet) = N => NotifiedSet = Procs
<1>1. NotifiedSet \in SUBSET Procs
  BY DEF NotifiedSet
<1> QED BY <1>1, ProcsAreFinite, FS_Subset, FS_CardinalityType

LEMMA CountInit == Init => CountIsExact
BY DEF Init, CountIsExact, BurstsAreOwed, NotifiedSet, Notified, TornDown

(* A burst belongs to a process that had some of its length left.          *)
LEMMA BurstsStep == ASSUME IInv, BurstsAreOwed, Next PROVE BurstsAreOwed'
<1>1. CASE SchedulerThread \/ sched_spurious_wakeup \/ MainThread \/ Terminated
  <2>1. \A p \in Procs : pc'[p] = "burst" => pc[p] = "burst"
    BY <1>1 DEF IInv, TypeOK, SchedulerThread, sched_start, sched_loop,
       sched_lock, sched_wait, sched_spurious_wakeup, sched_nobody,
       sched_select, signal_process, SignalPcb, sched_mark, sched_teardown,
       MainThread, main_join, print_table, main_return, Terminated
  <2>2. UNCHANGED process_length
    BY <1>1 DEF SchedulerThread, sched_start, sched_loop,
       sched_lock, sched_wait, sched_spurious_wakeup, sched_nobody,
       sched_select, signal_process, sched_mark, sched_teardown,
       MainThread, main_join, print_table, main_return, Terminated
  <2> QED BY <2>1, <2>2 DEF BurstsAreOwed
<1>2. CASE gen_create
  <2>1. \A p \in Procs : pc'[p] = "burst" =>
          pc[p] = "burst" /\ process_length'[p] = process_length[p]
    BY <1>2, CountAssumption DEF IInv, TypeOK, gen_create, LoopTest, Procs
  <2> QED BY <2>1 DEF BurstsAreOwed
<1>3. CASE gen_set_tid \/ gen_poll \/ gen_exit
  BY <1>3 DEF gen_set_tid, gen_poll, gen_exit, BurstsAreOwed
<1>4. ASSUME NEW p \in Procs, ProcessThread(p) \/ pcb_spurious_wakeup(p)
      PROVE  BurstsAreOwed'
  <2>1. UNCHANGED process_length
    BY <1>4 DEF ProcessThread, add_pcb_to_runqueue,
       signal_scheduler_new_process, pcb_lock, pcb_check, pcb_spurious_wakeup,
       run_slice, end_burst, signal_scheduler_terminated_process, pcb_unlock,
       send_process_stats
  <2>2. CASE run_slice(p)
    <3>1. process_length[p] > 0
      BY <2>2 DEF IInv, TypeOK, DemandMatchesControl, run_slice
    <3>2. \A q \in Procs : q # p => pc'[q] = pc[q]
      BY <2>2 DEF IInv, TypeOK, run_slice
    <3> QED BY <2>1, <3>1, <3>2 DEF BurstsAreOwed
  <2>3. CASE ~ run_slice(p)
    <3>1. \A q \in Procs : pc'[q] = "burst" => pc[q] = "burst"
      BY <1>4, <2>3 DEF IInv, TypeOK, ProcessThread, add_pcb_to_runqueue,
         signal_scheduler_new_process, pcb_lock, pcb_check,
         pcb_spurious_wakeup, end_burst, signal_scheduler_terminated_process,
         pcb_unlock, LoopTest, send_process_stats
    <3> QED BY <2>1, <3>1 DEF BurstsAreOwed
  <2> QED BY <2>2, <2>3
<1> QED BY <1>1, <1>2, <1>3, <1>4 DEF Next, GeneratorThread

(* Everything but the end of a burst leaves the set of those that have     *)
(* notified their termination alone.                                       *)
LEMMA NotifiedUnchanged ==
  ASSUME IInv, Next, \A p \in Procs : ~ end_burst(p)
  PROVE  UNCHANGED <<NotifiedSet, remaining_process_count>> \/ sched_start
<1>1. CASE SchedulerThread \/ sched_spurious_wakeup
  <2>1. CASE signal_process
    <3>1. \A p \in Procs : pc'[p] = pc[p] \/ (pc[p] = "waiting" /\ pc'[p] = "relock")
      BY <2>1 DEF IInv, TypeOK, signal_process, SignalPcb
    <3>2. UNCHANGED <<process_length, cpu_time, remaining_process_count>>
      BY <2>1 DEF signal_process
    <3> QED BY <3>1, <3>2 DEF NotifiedSet, Notified
  <2>2. CASE ~ signal_process /\ ~ sched_start
    <3>1. UNCHANGED <<pc, process_length, cpu_time, remaining_process_count>>
      BY <1>1, <2>2 DEF SchedulerThread, sched_loop, sched_lock, sched_wait,
         sched_spurious_wakeup, sched_nobody, sched_select, sched_mark,
         sched_teardown
    <3> QED BY <3>1 DEF NotifiedSet, Notified
  <2> QED BY <2>1, <2>2
<1>2. CASE gen_create
  <2>1. PICK p \in Procs : p = created + 1
    BY <1>2, CountAssumption DEF IInv, TypeOK, Procs, gen_create
  <2>2. PICK params \in ProcessParams :
          /\ process_length' = [process_length EXCEPT ![p] = params.length]
          /\ pc' = [pc EXCEPT ![p] = LoopTest(params.length, 0)]
    BY <1>2, <2>1 DEF gen_create
  <2>3. params.length \in Int
    BY ParamsAssumption
  <2>4. ~ Notified(p) /\ ~ Notified(p)'
    <3>1. pc[p] = "unborn" /\ cpu_time[p] = 0
      BY <2>1 DEF IInv, DemandMatchesControl, TypeOK
    <3>2. /\ pc'[p] = LoopTest(params.length, 0)
          /\ process_length'[p] = params.length
      BY <2>2 DEF IInv, TypeOK
    <3> QED BY <2>3, <3>1, <3>2 DEF Notified, LoopTest
  <2>5. \A q \in Procs : q # p => /\ pc'[q] = pc[q]
                                  /\ process_length'[q] = process_length[q]
    BY <2>2 DEF IInv, TypeOK
  <2>6. UNCHANGED <<cpu_time, remaining_process_count>>
    BY <1>2 DEF gen_create
  <2>7. \A q \in Procs : Notified(q)' <=> Notified(q)
    BY <2>4, <2>5, <2>6 DEF Notified
  <2> QED BY <2>6, <2>7 DEF NotifiedSet
<1>3. CASE \/ gen_set_tid \/ gen_poll \/ gen_exit \/ MainThread \/ Terminated
  <2>1. UNCHANGED <<pc, process_length, cpu_time, remaining_process_count>>
    BY <1>3 DEF gen_set_tid, gen_poll, gen_exit, MainThread, main_join,
       print_table, main_return, Terminated
  <2> QED BY <2>1 DEF NotifiedSet, Notified
<1>4. ASSUME NEW p \in Procs, ProcessThread(p) \/ pcb_spurious_wakeup(p)
      PROVE  UNCHANGED <<NotifiedSet, remaining_process_count>>
  <2>1. UNCHANGED <<process_length, remaining_process_count>>
    BY <1>4 DEF ProcessThread, add_pcb_to_runqueue,
       signal_scheduler_new_process, pcb_lock, pcb_check, pcb_spurious_wakeup,
       run_slice, signal_scheduler_terminated_process, pcb_unlock,
       send_process_stats
  <2>2. \A q \in Procs : q # p => pc'[q] = pc[q] /\ cpu_time'[q] = cpu_time[q]
    BY <1>4 DEF IInv, TypeOK, ProcessThread, add_pcb_to_runqueue,
       signal_scheduler_new_process, pcb_lock, pcb_check, pcb_spurious_wakeup,
       run_slice, signal_scheduler_terminated_process, pcb_unlock,
       send_process_stats
  <2>3. Notified(p)' <=> Notified(p)
    <3>1. CASE pcb_unlock(p)
      BY <3>1 DEF IInv, TypeOK, pcb_unlock, LoopTest, Notified
    <3>2. CASE signal_scheduler_terminated_process(p) \/ send_process_stats(p)
      BY <3>2 DEF IInv, TypeOK, signal_scheduler_terminated_process,
         send_process_stats, Notified
    <3>3. CASE \/ add_pcb_to_runqueue(p) \/ signal_scheduler_new_process(p)
               \/ pcb_lock(p) \/ pcb_check(p) \/ pcb_spurious_wakeup(p)
               \/ run_slice(p)
      <4>1. /\ pc[p] \notin {"yield", "unlock", "depart", "exited"}
            /\ pc'[p] \notin {"yield", "unlock", "depart", "exited"}
        BY <3>3 DEF IInv, TypeOK, add_pcb_to_runqueue,
           signal_scheduler_new_process, pcb_lock, pcb_check,
           pcb_spurious_wakeup, run_slice
      <4> QED BY <4>1 DEF Notified
    <3> QED BY <1>4, <3>1, <3>2, <3>3 DEF ProcessThread
  <2>4. \A q \in Procs : Notified(q)' <=> Notified(q)
    BY <2>1, <2>2, <2>3 DEF Notified
  <2> QED BY <2>1, <2>4 DEF NotifiedSet
<1> QED BY <1>1, <1>2, <1>3, <1>4 DEF Next, GeneratorThread

(* How the scheduler thread gets where it is: nobody but itself starts or  *)
(* tears down, and it tears down only on a count of zero.                  *)
LEMMA SchedulerControl ==
  ASSUME IInv, Next
  PROVE  /\ sched_pc' = "start" => /\ sched_pc = "start"
                                   /\ ~ have_running_process =>
                                        ~ have_running_process'
         /\ sched_pc = "start" => sched_pc' = "start" \/ sched_start
         /\ TornDown' => TornDown \/ (sched_pc = "loop" /\ remaining_process_count = 0)
<1>1. CASE SchedulerThread \/ sched_spurious_wakeup
  BY <1>1 DEF SchedulerThread, sched_start, sched_loop, sched_lock, sched_wait,
     sched_spurious_wakeup, sched_nobody, sched_select, signal_process,
     sched_mark, sched_teardown, TornDown
<1>2. CASE \/ GeneratorThread \/ MainThread \/ Terminated
  BY <1>2 DEF GeneratorThread, gen_create, gen_set_tid, gen_poll, gen_exit,
     MainThread, main_join, print_table, main_return, Terminated, TornDown
<1>3. ASSUME NEW p \in Procs, ProcessThread(p) \/ pcb_spurious_wakeup(p)
      PROVE  /\ sched_pc' = sched_pc \/ (sched_pc = "waiting" /\ sched_pc' = "relock")
             /\ have_running_process' => have_running_process
  BY <1>3 DEF ProcessThread, add_pcb_to_runqueue, signal_scheduler_new_process,
     SignalScheduler, pcb_lock, pcb_check, pcb_spurious_wakeup, run_slice,
     end_burst, signal_scheduler_terminated_process, pcb_unlock,
     send_process_stats
<1> QED BY <1>1, <1>2, <1>3 DEF Next, TornDown

LEMMA CountStep ==
  ASSUME IInv, CountIsExact, Next
  PROVE  CountIsExact'
<1>0. BurstsAreOwed'
  BY BurstsStep DEF CountIsExact
<1>1. CASE sched_start
  <2>1. NotifiedSet' = NotifiedSet
    BY <1>1 DEF sched_start, NotifiedSet, Notified
  <2>2. Cardinality(NotifiedSet) = 0
    BY <1>1, FS_EmptySet DEF CountIsExact, sched_start
  <2> QED BY <1>0, <1>1, <2>1, <2>2, CountAssumption DEF CountIsExact, TornDown,
             sched_start
<1>2. ASSUME NEW p \in Procs, end_burst(p) PROVE CountIsExact'
  <2>1. /\ pc[p] = "burst" /\ ~ Notified(p)
        /\ \A q \in Procs : pc'[q] = IF q = p THEN "yield" ELSE pc[q]
        /\ UNCHANGED <<sched_pc, have_running_process, process_length, cpu_time>>
    BY <1>2 DEF IInv, TypeOK, end_burst, Notified
  <2>2. sched_pc # "start"
    BY <1>2, <2>1 DEF IInv, CpuAccounting, StateMatchesControl, CountIsExact
  <2>3. process_length[p] > 0
    BY <2>1 DEF CountIsExact, BurstsAreOwed
  <2>4. CASE process_length[p] <= cpu_time[p]
    <3>1. Notified(p)' /\ \A q \in Procs : q # p => (Notified(q)' <=> Notified(q))
      BY <2>1, <2>3, <2>4 DEF IInv, TypeOK, Notified
    <3>2. NotifiedSet' = NotifiedSet \cup {p} /\ p \notin NotifiedSet
      BY <2>1, <3>1 DEF NotifiedSet
    <3>3. Cardinality(NotifiedSet') = Cardinality(NotifiedSet) + 1
      BY <3>2, SomeNotifiedAreFinite, FS_AddElement
    <3>4. remaining_process_count' = remaining_process_count - 1
      BY <1>2, <2>4 DEF end_burst
    <3> QED BY <1>0, <2>1, <2>2, <3>3, <3>4, SomeNotifiedAreFinite,
               CountAssumption DEF CountIsExact, TornDown
  <2>5. CASE ~ (process_length[p] <= cpu_time[p])
    <3>1. \A q \in Procs : Notified(q)' <=> Notified(q)
      BY <2>1, <2>5 DEF IInv, TypeOK, Notified
    <3>2. NotifiedSet' = NotifiedSet
      BY <3>1 DEF NotifiedSet
    <3>3. remaining_process_count' = remaining_process_count
      BY <1>2, <2>5 DEF end_burst
    <3> QED BY <1>0, <2>1, <2>2, <3>2, <3>3 DEF CountIsExact, TornDown
  <2> QED BY <2>4, <2>5
<1>3. CASE ~ sched_start /\ \A p \in Procs : ~ end_burst(p)
  <2>1. UNCHANGED <<NotifiedSet, remaining_process_count>>
    BY <1>3, NotifiedUnchanged
  <2>2. CASE sched_pc = "start"
    BY <1>0, <1>3, <2>1, <2>2, SchedulerControl DEF CountIsExact, TornDown
  <2>3. CASE sched_pc # "start"
    <3>1. sched_pc' # "start"
      BY <2>3, SchedulerControl
    <3>2. TornDown' => Cardinality(NotifiedSet) >= TotalProcessCount
      BY <2>3, SchedulerControl, SomeNotifiedAreFinite, CountAssumption
         DEF CountIsExact
    <3> QED BY <1>0, <2>1, <2>3, <3>1, <3>2 DEF CountIsExact
  <2> QED BY <2>2, <2>3
<1> QED BY <1>1, <1>2, <1>3

LEMMA CountInvariant == Spec => []CountIsExact
<1>1. Init => CountIsExact
  BY CountInit
<1>2. IInv /\ CountIsExact /\ [Next]_vars => CountIsExact'
  <2> SUFFICES ASSUME IInv, CountIsExact, [Next]_vars PROVE CountIsExact'
    OBVIOUS
  <2>1. CASE UNCHANGED vars
    BY <2>1 DEF CountIsExact, BurstsAreOwed, NotifiedSet, Notified, TornDown
  <2>2. CASE Next
    BY <2>2, CountStep
  <2> QED BY <2>1, <2>2
<1> QED BY <1>1, <1>2, Invariance, PTL DEF Spec

(* start_scheduler_thread leaves its loop only when total_process_count    *)
(* processes have run to their end, for any workload: more processes than  *)
(* that, fewer, or empty ones.                                             *)
THEOREM TotalIsServed == Spec => []TeardownNeedsTotal
<1>1. IInv /\ CountIsExact => TeardownNeedsTotal
  <2> SUFFICES ASSUME IInv, CountIsExact, TornDown
               PROVE  Cardinality(Finished) >= TotalProcessCount
    BY DEF TeardownNeedsTotal, TornDown
  <2>1. NotifiedSet \subseteq Finished /\ Finished \subseteq Procs
    BY DEF NotifiedSet, Notified, Finished
  <2>2. IsFiniteSet(Finished)
    BY <2>1, ProcsAreFinite, FS_Subset
  <2>3. Cardinality(NotifiedSet) <= Cardinality(Finished)
    BY <2>1, <2>2, FS_Subset
  <2>4. Cardinality(Finished) \in Nat
    BY <2>2, FS_CardinalityType
  <2> QED BY <2>3, <2>4, SomeNotifiedAreFinite, CountAssumption DEF CountIsExact
<1> QED BY <1>1, CountInvariant, Invariance, PTL

(* When every process of the workload is counted and none is empty, all    *)
(* of them have ended their last burst before start_scheduler_thread       *)
(* destroys anything, and no process thread adds itself to the runqueue or *)
(* leaves it again.  Nothing is said of the two that go on: the process    *)
(* that still has to call signal_scheduler_terminated_process, and the     *)
(* generator, whose poll may find the runqueue freed.                      *)
THEOREM BurstsEndBeforeTeardown ==
  ASSUME TotalProcessCount = N
  PROVE  Spec => []TeardownAfterLastBurst
<1>1. CountIsExact => TeardownAfterLastBurst
  <2> SUFFICES ASSUME CountIsExact, TornDown PROVE TeardownAfterLastBurst
    BY DEF TeardownAfterLastBurst, TornDown
  <2>1. Cardinality(NotifiedSet) <= N
    BY ProcsAreFinite, FS_Subset DEF NotifiedSet
  <2>2. NotifiedSet = Procs
    BY <2>1, SomeNotifiedAreFinite, CountAssumption DEF CountIsExact
  <2> QED BY <2>2 DEF NotifiedSet, Notified, TeardownAfterLastBurst
<1> QED BY <1>1, CountInvariant, PTL
=============================================================================
