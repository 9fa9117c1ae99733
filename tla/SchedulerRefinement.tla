------------------------ MODULE SchedulerRefinement ------------------------
(***************************************************************************)
(* The threads of proj02 implement CpuScheduling, for every workload and   *)
(* every slice policy: each of their steps gives, serves or takes back the *)
(* CPU as the abstract scheduler may, or does not show there at all.       *)
(***************************************************************************)
EXTENDS SchedulerProofs

USE DEF vars, rqVars, needVars, schedVars, genVars, paramVars, timingVars,
        pcbVars, mainVars, QueuedPcs, OnCpu, Terminates

CpuPhase == [p \in Procs |-> Phase(p)]

(* A step that changes no phase does not show.                             *)
LEMMA Stutters ==
  ASSUME \A p \in Procs : Phase(p)' = Phase(p),
         UNCHANGED <<process_length, cpu_time>>
  PROVE  UNCHANGED Cpu!vars
<1>1. CpuPhase' = CpuPhase
  BY DEF CpuPhase
<1> QED BY <1>1 DEF CpuPhase, Cpu!vars

(* A step that changes the phase of one process.                           *)
LEMMA Moves ==
  ASSUME NEW p \in Procs, NEW to, Phase(p)' = to,
         \A q \in Procs : q # p => Phase(q)' = Phase(q)
  PROVE  CpuPhase' = [CpuPhase EXCEPT ![p] = to]
BY DEF CpuPhase

(* The phase of a process depends on its own pc and state alone, and after *)
(* a crash on its place in the runqueue.                                   *)
LEMMA PhaseIsLocal ==
  ASSUME NEW q \in Procs, pc'[q] = pc[q], state'[q] = state[q],
         q \in Range(rq') <=> q \in Range(rq)
  PROVE  Phase(q)' = Phase(q)
BY DEF Phase

(* Between announcing itself and its turn, a process is ready, or has been *)
(* told to run.                                                            *)
LEMMA QueuedPhase ==
  ASSUME NEW p \in Procs, pc[p] \in QueuedPcs
  PROVE  Phase(p) = IF state[p] = "RUNNING" THEN "dispatched" ELSE "ready"
BY DEF Phase

LEMMA RefinesInit == Init => Cpu!Init
<1> SUFFICES ASSUME Init PROVE Cpu!Init
  OBVIOUS
<1>1. \A p \in Procs : Phase(p) = "unborn"
  BY DEF Init, Phase
<1> QED BY <1>1 DEF Init, Cpu!Init

LEMMA SchedulerRefines ==
  ASSUME IInv, SchedulerThread \/ sched_spurious_wakeup
  PROVE  [Cpu!Next]_Cpu!vars
<1>1. CASE signal_process
  <2>1. /\ selected \in Procs /\ selected \in Range(rq)
        /\ pc[selected] \in QueuedPcs /\ state[selected] = "READY"
    <3>1. selected \in Range(rq) /\ state[selected] = "READY"
      BY <1>1 DEF IInv, SelectionStaysValid, signal_process
    <3>2. selected \in Procs
      BY <3>1, QueuedAreProcs DEF IInv
    <3> QED BY <3>1, <3>2 DEF IInv, RunqueueMatchesThreads, StateMatchesControl
  <2> PICK p \in Procs : p = selected
    BY <2>1
  <2>2. \A q \in Procs : ~ OnCpu(q)
    BY <1>1 DEF IInv, CpuAccounting, WaitingFlag, signal_process
  <2>3. /\ pc'[p] \in QueuedPcs
        /\ \A q \in Procs :
             /\ q # p => pc'[q] = pc[q]
             /\ state'[q] = IF q = p THEN "RUNNING" ELSE state[q]
    BY <1>1, <2>1 DEF IInv, TypeOK, signal_process, SignalPcb
  <2>4. UNCHANGED <<rq, process_length, cpu_time>>
    BY <1>1 DEF signal_process
  <2>5. \A q \in Procs : CpuPhase[q] \notin {"dispatched", "serving"}
    <3> TAKE q \in Procs
    <3>1. state[q] = "READY" /\ pc[q] \notin {"burst", "yield"}
      BY <2>2 DEF IInv, TypeOK, StateMatchesControl
    <3> QED BY <3>1 DEF CpuPhase, Phase
  <2>6. CpuPhase[p] = "ready" /\ Phase(p)' = "dispatched"
    <3>1. CpuPhase[p] = "ready"
      BY <2>1, QueuedPhase DEF CpuPhase
    <3>2. Phase(p)' = "dispatched"
      BY <2>1, <2>3 DEF Phase
    <3> QED BY <3>1, <3>2
  <2>7. CpuPhase' = [CpuPhase EXCEPT ![p] = "dispatched"]
    <3>1. \A q \in Procs : q # p => Phase(q)' = Phase(q)
      BY <2>3, <2>4, PhaseIsLocal
    <3> QED BY <2>1, <2>6, <3>1, Moves
  <2>8. Cpu!Dispatch(p)
    BY <2>4, <2>5, <2>6, <2>7 DEF Cpu!Dispatch, CpuPhase
  <2> QED BY <2>8 DEF Cpu!Next
<1>2. CASE ~ signal_process
  <2>1. UNCHANGED <<pc, state, rq, process_length, cpu_time>>
    BY <1>2 DEF SchedulerThread, sched_start, sched_loop, sched_lock,
       sched_wait, sched_spurious_wakeup, sched_nobody, sched_select,
       sched_mark, sched_teardown
  <2> QED BY <2>1, PhaseIsLocal, Stutters
<1> QED BY <1>1, <1>2

LEMMA GeneratorOrMainRefines ==
  ASSUME IInv, GeneratorThread \/ MainThread
  PROVE  [Cpu!Next]_Cpu!vars
<1>1. CASE gen_create
  <2>1. PICK p \in Procs : p = created + 1
    BY <1>1, CountAssumption DEF IInv, TypeOK, Procs, gen_create
  <2>2. PICK params \in ProcessParams :
          /\ process_length' = [process_length EXCEPT ![p] = params.length]
          /\ pc' = [pc EXCEPT ![p] = LoopTest(params.length, 0)]
    BY <1>1, <2>1 DEF gen_create
  <2>3. pc[p] = "unborn"
    BY <2>1 DEF IInv, TypeOK, DemandMatchesControl
  <2>4. UNCHANGED <<rq, state, cpu_time>>
    BY <1>1 DEF gen_create
  <2>5. /\ pc'[p] \in {"enqueue", "depart"}
        /\ \A q \in Procs : q # p => pc'[q] = pc[q]
    BY <2>1, <2>2 DEF IInv, TypeOK, LoopTest
  <2>6. CpuPhase[p] = "unborn" /\ Phase(p)' = "off"
    <3>1. CpuPhase[p] = "unborn"
      BY <2>1, <2>3 DEF CpuPhase, Phase
    <3>2. Phase(p)' = "off"
      BY <2>5 DEF Phase
    <3> QED BY <3>1, <3>2
  <2>7. CpuPhase' = [CpuPhase EXCEPT ![p] = "off"]
    <3>1. \A q \in Procs : q # p => Phase(q)' = Phase(q)
      BY <2>4, <2>5, PhaseIsLocal
    <3> QED BY <2>1, <2>6, <3>1, Moves
  <2>8. params.length \in { r.length : r \in ProcessParams }
    OBVIOUS
  <2>9. Cpu!Arrive(p)
    BY <2>2, <2>4, <2>6, <2>7, <2>8 DEF Cpu!Arrive, CpuPhase
  <2> QED BY <2>1, <2>9 DEF Cpu!Next
<1>2. CASE ~ gen_create
  <2>1. UNCHANGED <<pc, state, rq, process_length, cpu_time>>
    BY <1>2 DEF GeneratorThread, gen_set_tid, gen_poll, gen_exit,
       MainThread, main_join, print_table, main_return
  <2> QED BY <2>1, PhaseIsLocal, Stutters
<1> QED BY <1>1, <1>2

LEMMA ProcessRefines ==
  ASSUME IInv, IInv', NEW p \in Procs, ProcessThread(p) \/ pcb_spurious_wakeup(p)
  PROVE  [Cpu!Next]_Cpu!vars
<1>1. CASE add_pcb_to_runqueue(p)
  <2>1. /\ pc[p] = "enqueue" /\ state[p] = "READY" /\ p \notin Range(rq)
        /\ cpu_time[p] < process_length[p]
    BY <1>1 DEF IInv, TypeOK, RunqueueMatchesThreads, StateMatchesControl,
       DemandMatchesControl, add_pcb_to_runqueue
  <2>2. UNCHANGED <<state, process_length, cpu_time>>
    BY <1>1 DEF add_pcb_to_runqueue
  <2>3. CpuPhase[p] = "off"
    BY <2>1 DEF CpuPhase, Phase
  <2>4. CASE rq' = runqueue_add_pcb(rq, p) /\ pc' = [pc EXCEPT ![p] = "announce"]
    <3>1. \A q \in Procs : pc'[q] = IF q = p THEN "announce" ELSE pc[q]
      BY <2>4, PcStep DEF IInv
    <3>2. Range(rq') = Range(rq) \cup {p}
      <4>1. rq' = runqueue_add_pcb(rq, p) /\ rq \in Seq(Procs)
        BY <1>1, <2>4 DEF IInv, TypeOK, add_pcb_to_runqueue
      <4> QED BY <4>1, AddPcb
    <3>3. Phase(p)' = "ready"
      BY <2>1, <2>2, <3>1 DEF Phase
    <3>4. CpuPhase' = [CpuPhase EXCEPT ![p] = "ready"]
      BY <2>2, <3>1, <3>2, <3>3, PhaseIsLocal, Moves
    <3>5. Cpu!Enqueue(p)
      BY <2>1, <2>2, <2>3, <3>4 DEF Cpu!Enqueue, CpuPhase
    <3> QED BY <3>5 DEF Cpu!Next
  <2>5. CASE rq' = rq /\ pc' = [pc EXCEPT ![p] = "segv"]
    <3>1. /\ rq' = rq
          /\ \A q \in Procs : pc'[q] = IF q = p THEN "segv" ELSE pc[q]
      BY <2>5, PcStep DEF IInv
    <3>2. Phase(p)' = Phase(p)
      BY <2>1, <3>1 DEF Phase
    <3> QED BY <2>2, <3>1, <3>2, PhaseIsLocal, Stutters
  <2> QED BY <1>1, <2>4, <2>5 DEF add_pcb_to_runqueue
<1>2. CASE \/ signal_scheduler_new_process(p) \/ pcb_lock(p) \/ pcb_check(p)
           \/ pcb_spurious_wakeup(p)
  <2>1. UNCHANGED <<rq, state, process_length, cpu_time>>
    BY <1>2 DEF signal_scheduler_new_process, pcb_lock, pcb_check,
       pcb_spurious_wakeup
  <2>2. /\ pc[p] \in QueuedPcs /\ pc'[p] \in QueuedPcs
        /\ \A q \in Procs : q # p => pc'[q] = pc[q]
    BY <1>2, SMTT(30) DEF IInv, TypeOK, signal_scheduler_new_process, pcb_lock,
       pcb_check, pcb_spurious_wakeup
  <2>3. Phase(p)' = Phase(p)
    BY <2>1, <2>2 DEF Phase
  <2> QED BY <2>1, <2>2, <2>3, PhaseIsLocal, Stutters
<1>3. CASE run_slice(p)
  <2>1. pc[p] = "dispatch" /\ state[p] = "RUNNING" /\ p \in Range(rq)
    BY <1>3 DEF IInv, RunqueueMatchesThreads, StateMatchesControl, run_slice
  <2>2. UNCHANGED <<state, process_length>>
    BY <1>3 DEF run_slice
  <2>3. CpuPhase[p] = "dispatched"
    BY <2>1 DEF CpuPhase, Phase
  <2>4. CASE pc'[p] # "segv"
    <3>1. PICK time \in 1 .. process_length[p] - cpu_time[p] :
            cpu_time' = [cpu_time EXCEPT ![p] = @ + time]
      BY <1>3, <2>4, SliceServesDemand
    <3>2. /\ Range(rq') = Range(rq) \ {p}
          /\ \A q \in Procs : pc'[q] = IF q = p THEN "burst" ELSE pc[q]
      BY <1>3, <2>4, SliceServesDemand, PcStep DEF IInv
    <3>3. Phase(p)' = "serving"
      BY <3>2 DEF Phase
    <3>4. CpuPhase' = [CpuPhase EXCEPT ![p] = "serving"]
      BY <2>2, <3>2, <3>3, PhaseIsLocal, Moves
    <3>5. Cpu!Serve(p)
      BY <2>2, <2>3, <3>1, <3>4 DEF Cpu!Serve, CpuPhase
    <3> QED BY <3>5 DEF Cpu!Next
  <2>5. CASE pc'[p] = "segv"
    <3>1. pc' = [pc EXCEPT ![p] = "segv"] /\ UNCHANGED <<rq, cpu_time>>
      BY <1>3, <2>5 DEF IInv, TypeOK, run_slice
    <3>2. \A q \in Procs : pc'[q] = IF q = p THEN "segv" ELSE pc[q]
      BY <3>1, PcStep DEF IInv
    <3>3. Phase(p)' = Phase(p)
      BY <2>1, <2>2, <3>1, <3>2 DEF Phase
    <3> QED BY <2>2, <3>1, <3>2, <3>3, PhaseIsLocal, Stutters
  <2> QED BY <2>4, <2>5
<1>4. CASE end_burst(p)
  <2>1. UNCHANGED <<rq, process_length, cpu_time>>
    BY <1>4 DEF end_burst
  <2>2. /\ pc[p] = "burst" /\ pc'[p] = "yield"
        /\ \A q \in Procs : q # p => pc'[q] = pc[q] /\ state'[q] = state[q]
    BY <1>4 DEF IInv, TypeOK, end_burst
  <2>3. Phase(p)' = Phase(p)
    BY <2>2 DEF Phase
  <2> QED BY <2>1, <2>2, <2>3, PhaseIsLocal, Stutters
<1>5. CASE signal_scheduler_terminated_process(p)
  <2>1. UNCHANGED <<rq, state, process_length, cpu_time>>
    BY <1>5 DEF signal_scheduler_terminated_process
  <2>2. /\ pc[p] = "yield"
        /\ \A q \in Procs : pc'[q] = IF q = p THEN "unlock" ELSE pc[q]
    BY <1>5, PcStep DEF IInv, signal_scheduler_terminated_process
  <2>3. CpuPhase[p] = "serving" /\ Phase(p)' = "off"
    BY <2>2 DEF CpuPhase, Phase
  <2>4. CpuPhase' = [CpuPhase EXCEPT ![p] = "off"]
    BY <2>1, <2>2, <2>3, PhaseIsLocal, Moves
  <2>5. Cpu!Yield(p)
    BY <2>1, <2>3, <2>4 DEF Cpu!Yield, CpuPhase
  <2> QED BY <2>5 DEF Cpu!Next
<1>6. CASE pcb_unlock(p)
  <2>1. UNCHANGED <<rq, state, process_length, cpu_time>>
    BY <1>6 DEF pcb_unlock
  <2>2. /\ pc[p] = "unlock" /\ pc'[p] \in {"enqueue", "depart"}
        /\ \A q \in Procs : q # p => pc'[q] = pc[q]
    BY <1>6 DEF IInv, TypeOK, pcb_unlock, LoopTest
  <2>3. Phase(p)' = Phase(p)
    BY <2>2 DEF Phase
  <2> QED BY <2>1, <2>2, <2>3, PhaseIsLocal, Stutters
<1>7. CASE send_process_stats(p)
  <2>1. UNCHANGED <<rq, state, process_length, cpu_time>>
    BY <1>7 DEF send_process_stats
  <2>2. /\ pc[p] = "depart" /\ cpu_time[p] >= process_length[p]
        /\ \A q \in Procs : pc'[q] = IF q = p THEN "exited" ELSE pc[q]
    BY <1>7, PcStep DEF IInv, ServedExactly, send_process_stats
  <2>3. CpuPhase[p] = "off" /\ Phase(p)' = "done"
    BY <2>2 DEF CpuPhase, Phase
  <2>4. CpuPhase' = [CpuPhase EXCEPT ![p] = "done"]
    BY <2>1, <2>2, <2>3, PhaseIsLocal, Moves
  <2>5. Cpu!Leave(p)
    BY <2>1, <2>2, <2>3, <2>4 DEF Cpu!Leave, CpuPhase
  <2> QED BY <2>5 DEF Cpu!Next
<1> QED BY <1>1, <1>2, <1>3, <1>4, <1>5, <1>6, <1>7 DEF ProcessThread

LEMMA RefinesNext == IInv /\ IInv' /\ [Next]_vars => [Cpu!Next]_Cpu!vars
<1> SUFFICES ASSUME IInv, IInv', [Next]_vars PROVE [Cpu!Next]_Cpu!vars
  OBVIOUS
<1>1. CASE UNCHANGED vars
  BY <1>1, PhaseIsLocal, Stutters
<1>2. CASE Next
  BY <1>1, <1>2, SchedulerRefines, GeneratorOrMainRefines, ProcessRefines
     DEF Next, Terminated
<1> QED BY <1>1, <1>2

(* The threads of main.c, scheduler.c, generator.c and process.c give the  *)
(* CPU to one process at a time, in turns that are neither empty nor       *)
(* longer than what is left of its demand, until all of it is served.      *)
THEOREM Refinement == Spec => ImplementsCpu
<1>1. Init => Cpu!Init
  BY RefinesInit
<1>2. IInv /\ IInv' /\ [Next]_vars => [Cpu!Next]_Cpu!vars
  BY RefinesNext
<1> QED BY <1>1, <1>2, Invariance, PTL DEF Spec, ImplementsCpu, Cpu!Spec
=============================================================================
