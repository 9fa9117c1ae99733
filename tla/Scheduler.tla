----------------------------- MODULE Scheduler -----------------------------
(***************************************************************************)
(* The threads of proj02 (`cfs'): the main thread, the scheduler thread,   *)
(* the generator thread and one thread per simulated process, over the     *)
(* runqueue, the process control blocks, the two mutexes and the condition *)
(* variables they share (main.c, scheduler.c, generator.c, process.c).     *)
(*                                                                         *)
(* An action is the code from one blocking point or unlocked access of a   *)
(* thread to the next.  A critical section that does not block is one      *)
(* action; a mutex held across a blocking step is a variable.  So          *)
(* mutex_runqueue, always the innermost lock, shows only as valid or       *)
(* destroyed, while mutex_need_scheduling (held by the scheduler while it  *)
(* takes the other locks) and pcb_mutex (held by a process through its     *)
(* whole burst) have owners.                                               *)
(***************************************************************************)
EXTENDS Cfs, FiniteSets

CONSTANTS
  N,                  \* how many processes the workload iterator yields
  TotalProcessCount,  \* common_params->total_process_count
  MaxRunqueueLength,  \* common_params->max_runqueue_length
  ProcessParams,      \* what get_next_process may return: [length, priority]
  VruntimeScale,      \* the unit of virtual runtime (see Cfs)
  Timeslice(_, _, _), \* the slice policy: runqueue_timeslice in every run
  SpuriousWakeups     \* whether pthread_cond_wait may return unsignalled

Procs      == 1 .. N
NoPcb      == 0                                     \* the NULL pcb pointer
Priorities == { r.priority : r \in ProcessParams }

ASSUME CountAssumption ==
  /\ N \in Nat
  /\ TotalProcessCount \in Nat
  /\ MaxRunqueueLength \in Int
  /\ VruntimeScale \in Nat \ {0}
  /\ SpuriousWakeups \in BOOLEAN

ASSUME ParamsAssumption ==
  \A r \in ProcessParams : r.length \in Int /\ r.priority \in PriorityRange

(* The scale leaves no remainder in what runqueue_vruntime divides.        *)
ASSUME ScaleAssumption ==
  \A r \in ProcessParams :
    (get_weight(0) * VruntimeScale) % get_weight(r.priority) = 0

(* A slice is a positive number of milliseconds, whoever waits.            *)
ASSUME TimesliceAssumption ==
  \A queued \in SUBSET Procs :
    \A priority \in [Procs -> Priorities \cup {0}], prio \in Priorities \cup {0} :
      Timeslice(queued, priority, prio) \in Nat \ {0}

VARIABLES
  rq,                        \* the list of the runqueue
  rq_count,                  \* its count field
  rq_memory,                 \* what the pointer rq is: live, freed or null
  mutex_runqueue,            \* valid or destroyed
  have_running_process,
  waiting_for_new_process,
  mutex_need_scheduling,     \* free, held (by the scheduler) or destroyed
  remaining_process_count,
  sched_pc, selected,        \* the scheduler thread and its local pcb
  gen_pc, created,           \* the generator thread and its i - 1
  pc,                        \* the process threads
  process_length, priority, cpu_time, vruntime, state, pcb_mutex,  \* the PCBs
  main_pc, stats, printed    \* the main thread, the pids whose statistics are
                             \* in stats_array, and those the table showed

rqVars      == <<rq, rq_count, rq_memory, mutex_runqueue>>
needVars    == <<have_running_process, waiting_for_new_process,
                 mutex_need_scheduling>>
schedVars   == <<sched_pc, selected>>
genVars     == <<gen_pc, created>>
paramVars   == <<process_length, priority>>
timingVars  == <<cpu_time, vruntime>>
pcbVars     == <<paramVars, timingVars, state, pcb_mutex>>
mainVars    == <<main_pc, stats, printed>>

vars == <<rqVars, needVars, remaining_process_count, schedVars, genVars, pc,
          pcbVars, mainVars>>

(* Zero-initialised globals, and what create_scheduler_thread sets up      *)
(* before it starts the scheduler thread and main starts the generator.    *)
Init ==
  /\ rq = <<>> /\ rq_count = 0 /\ rq_memory = "live"
  /\ mutex_runqueue = "valid"
  /\ have_running_process = FALSE
  /\ waiting_for_new_process = TRUE
  /\ mutex_need_scheduling = "free"
  /\ remaining_process_count = 0
  /\ sched_pc = "start" /\ selected = NoPcb
  /\ gen_pc = "loop" /\ created = 0
  /\ pc = [p \in Procs |-> "unborn"]
  /\ process_length = [p \in Procs |-> 0]
  /\ priority = [p \in Procs |-> 0]
  /\ cpu_time = [p \in Procs |-> 0]
  /\ vruntime = [p \in Procs |-> 0]
  /\ state = [p \in Procs |-> "READY"]
  /\ pcb_mutex = [p \in Procs |-> "free"]
  /\ main_pc = "join_scheduler" /\ stats = {} /\ printed = {}

-----------------------------------------------------------------------------
(* The mutexes and condition variables.  Locking a destroyed mutex is      *)
(* undefined; the build's C library returns EINVAL, nobody looks at the    *)
(* result, and the thread goes on without the lock.                        *)

NeedSchedulingAvailable == mutex_need_scheduling # "held"

(* Mutant: nobody signals the scheduler.                                   *)
SignalsNobody == sched_pc' = sched_pc

(* pthread_cond_signal(&cond_var_need_scheduling): one waiter at most.     *)
SignalScheduler ==
  sched_pc' = IF sched_pc = "waiting" THEN "relock" ELSE sched_pc

(* Mutant: nobody signals the process.                                     *)
SignalsNoPcb(p) == pc' = pc

(* pthread_cond_signal(&pcb->cond_var), for the thread of the pcb alone.   *)
SignalPcb(p) ==
  pc' = IF pc[p] = "waiting" THEN [pc EXCEPT ![p] = "relock"] ELSE pc

-----------------------------------------------------------------------------
(* The scheduler thread: start_scheduler_thread.                           *)

sched_start ==
  /\ sched_pc = "start"
  /\ remaining_process_count' = TotalProcessCount
  /\ sched_pc' = "loop"
  /\ UNCHANGED <<rqVars, needVars, selected, genVars, pc, pcbVars, mainVars>>

(* while (remaining_process_count), read without a lock.                   *)
sched_loop ==
  /\ sched_pc = "loop"
  /\ sched_pc' = IF remaining_process_count # 0 THEN "lock" ELSE "destroy_need"
  /\ UNCHANGED <<rqVars, needVars, remaining_process_count, selected, genVars,
                 pc, pcbVars, mainVars>>

(* pthread_mutex_lock, or pthread_cond_wait taking the mutex back.         *)
sched_lock ==
  /\ sched_pc \in {"lock", "relock"}
  /\ mutex_need_scheduling = "free"
  /\ mutex_need_scheduling' = "held"
  /\ sched_pc' = "check"
  /\ UNCHANGED <<rqVars, have_running_process, waiting_for_new_process,
                 remaining_process_count, selected, genVars, pc, pcbVars,
                 mainVars>>

sched_wait ==
  /\ sched_pc = "check"
  /\ have_running_process \/ waiting_for_new_process
  /\ mutex_need_scheduling' = "free"
  /\ sched_pc' = "waiting"
  /\ UNCHANGED <<rqVars, have_running_process, waiting_for_new_process,
                 remaining_process_count, selected, genVars, pc, pcbVars,
                 mainVars>>

sched_spurious_wakeup ==
  /\ SpuriousWakeups
  /\ sched_pc = "waiting"
  /\ sched_pc' = "relock"
  /\ UNCHANGED <<rqVars, needVars, remaining_process_count, selected, genVars,
                 pc, pcbVars, mainVars>>

(* runqueue_smallest_pcb found nobody: wait for a new process.             *)
sched_nobody ==
  /\ sched_pc = "check"
  /\ ~ have_running_process /\ ~ waiting_for_new_process
  /\ rq = <<>>
  /\ waiting_for_new_process' = TRUE
  /\ mutex_need_scheduling' = "free"
  /\ sched_pc' = "loop"
  /\ UNCHANGED <<rqVars, have_running_process, remaining_process_count,
                 selected, genVars, pc, pcbVars, mainVars>>

(* It found a pcb; mutex_runqueue is released before the pcb is used.      *)
sched_select ==
  /\ sched_pc = "check"
  /\ ~ have_running_process /\ ~ waiting_for_new_process
  /\ \E i \in DOMAIN rq : IsSmallestAt(rq, vruntime, i) /\ selected' = rq[i]
  /\ sched_pc' = "signal"
  /\ UNCHANGED <<rqVars, needVars, remaining_process_count, genVars, pc,
                 pcbVars, mainVars>>

(* Runs with mutex_need_scheduling held.                                   *)
signal_process ==
  /\ sched_pc = "signal"
  /\ pcb_mutex[selected] = "free"
  /\ state' = [state EXCEPT ![selected] = "RUNNING"]
  /\ SignalPcb(selected)
  /\ sched_pc' = "mark"
  /\ UNCHANGED <<rqVars, needVars, remaining_process_count, selected, genVars,
                 paramVars, timingVars, pcb_mutex, mainVars>>

(* Mutant: have_running_process stays as it is.                            *)
sched_mark_forgets ==
  /\ sched_pc = "mark"
  /\ mutex_need_scheduling' = "free"
  /\ selected' = NoPcb
  /\ sched_pc' = "loop"
  /\ UNCHANGED <<rqVars, have_running_process, waiting_for_new_process,
                 remaining_process_count, genVars, pc, pcbVars, mainVars>>

sched_mark ==
  /\ sched_pc = "mark"
  /\ have_running_process' = TRUE
  /\ mutex_need_scheduling' = "free"
  /\ selected' = NoPcb
  /\ sched_pc' = "loop"
  /\ UNCHANGED <<rqVars, waiting_for_new_process, remaining_process_count,
                 genVars, pc, pcbVars, mainVars>>

(* The teardown behind the loop, statement by statement.                   *)
sched_teardown ==
  /\ \/ /\ sched_pc = "destroy_need"
        /\ mutex_need_scheduling' = "destroyed"
        /\ sched_pc' = "destroy_rq"
        /\ UNCHANGED <<mutex_runqueue, rq_memory>>
     \/ /\ sched_pc = "destroy_rq"
        /\ mutex_runqueue' = "destroyed"
        /\ sched_pc' = "free_rq"
        /\ UNCHANGED <<mutex_need_scheduling, rq_memory>>
     \/ /\ sched_pc = "free_rq"
        /\ rq_memory' = "freed"
        /\ sched_pc' = "null_rq"
        /\ UNCHANGED <<mutex_need_scheduling, mutex_runqueue>>
     \/ /\ sched_pc = "null_rq"
        /\ rq_memory' = "null"
        /\ sched_pc' = "exited"
        /\ UNCHANGED <<mutex_need_scheduling, mutex_runqueue>>
  /\ UNCHANGED <<rq, rq_count, have_running_process, waiting_for_new_process,
                 remaining_process_count, selected, genVars, pc, pcbVars,
                 mainVars>>

SchedulerThread ==
  \/ sched_start \/ sched_loop \/ sched_lock \/ sched_wait \/ sched_nobody
  \/ sched_select \/ signal_process \/ sched_mark \/ sched_teardown

-----------------------------------------------------------------------------
(* The generator thread: start_generator_thread.                           *)

(* while (pcb->process_length > pcb->cpu_time) in the thread of a process. *)
LoopTest(length, time) == IF length > time THEN "enqueue" ELSE "depart"

(* get_next_process, a fresh PCB and pthread_create: the thread exists     *)
(* before the generator's next statement.                                  *)
gen_create ==
  /\ gen_pc = "loop"
  /\ created < N
  /\ \E params \in ProcessParams :
       LET p == created + 1
       IN  /\ process_length' = [process_length EXCEPT ![p] = params.length]
           /\ priority' = [priority EXCEPT ![p] = params.priority]
           /\ pc' = [pc EXCEPT ![p] = LoopTest(params.length, 0)]
  /\ created' = created + 1
  /\ gen_pc' = "set_tid"
  /\ UNCHANGED <<rqVars, needVars, remaining_process_count, schedVars,
                 timingVars, state, pcb_mutex, mainVars>>

(* pcb->tid = tid, whatever the new thread has done by now.                *)
gen_set_tid ==
  /\ gen_pc = "set_tid"
  /\ gen_pc' = "poll"
  /\ UNCHANGED <<rqVars, needVars, remaining_process_count, schedVars,
                 created, pc, pcbVars, mainVars>>

(* get_runqueue_item_count.  A count read from the freed runqueue is any   *)
(* number; what matters is whether it is the limit.                        *)
ItemCounts ==
  CASE rq_memory = "live"  -> {rq_count}
    [] rq_memory = "freed" -> {MaxRunqueueLength, MaxRunqueueLength + 1}
    [] rq_memory = "null"  -> {0}

(* do usleep while (count == max_runqueue_length): staying is a stutter.   *)
gen_poll ==
  /\ gen_pc = "poll"
  /\ \E count \in ItemCounts : count # MaxRunqueueLength
  /\ gen_pc' = "loop"
  /\ UNCHANGED <<rqVars, needVars, remaining_process_count, schedVars,
                 created, pc, pcbVars, mainVars>>

gen_exit ==
  /\ gen_pc = "loop"
  /\ created = N
  /\ gen_pc' = "exited"
  /\ UNCHANGED <<rqVars, needVars, remaining_process_count, schedVars,
                 created, pc, pcbVars, mainVars>>

GeneratorThread == gen_create \/ gen_set_tid \/ gen_poll \/ gen_exit

-----------------------------------------------------------------------------
(* The thread of process p: start_process_thread.                          *)

(* Once mutex_runqueue is destroyed, nothing keeps two sections apart.      *)
SectionsOverlap(p) ==
  /\ mutex_runqueue = "destroyed"
  /\ \E q \in Procs \ {p} : pc[q] \in {"enqueue", "dispatch"}

(* lock_rq; add_pcb_to_runqueue; unlock_rq.  With no runqueue behind the   *)
(* pointer the program dies, and with another thread in its section it may *)
(* do anything: what it does next is not followed.                         *)
add_pcb_to_runqueue(p) ==
  /\ pc[p] = "enqueue"
  /\ \/ /\ rq_memory = "live"
        /\ rq' = runqueue_add_pcb(rq, p)
        /\ pc' = [pc EXCEPT ![p] = "announce"]
     \/ /\ rq_memory # "live" \/ SectionsOverlap(p)
        /\ pc' = [pc EXCEPT ![p] = "segv"]
        /\ rq' = rq
  /\ UNCHANGED <<rq_count, rq_memory, mutex_runqueue, needVars,
                 remaining_process_count, schedVars, genVars, pcbVars, mainVars>>

(* Mutant: the test of have_running_process the wrong way round.           *)
new_process_inverted(p) ==
  /\ pc[p] = "announce"
  /\ NeedSchedulingAvailable
  /\ waiting_for_new_process' = (waiting_for_new_process /\ ~ have_running_process)
  /\ SignalScheduler
  /\ pc' = [pc EXCEPT ![p] = "lock"]
  /\ UNCHANGED <<rqVars, have_running_process, mutex_need_scheduling,
                 remaining_process_count, selected, genVars, pcbVars, mainVars>>

(* Mutant: the arrival also takes the CPU from whoever has it.             *)
new_process_preempts(p) ==
  /\ pc[p] = "announce"
  /\ NeedSchedulingAvailable
  /\ have_running_process' = FALSE
  /\ waiting_for_new_process' = FALSE
  /\ SignalScheduler
  /\ pc' = [pc EXCEPT ![p] = "lock"]
  /\ UNCHANGED <<rqVars, mutex_need_scheduling, remaining_process_count,
                 selected, genVars, pcbVars, mainVars>>

signal_scheduler_new_process(p) ==
  /\ pc[p] = "announce"
  /\ NeedSchedulingAvailable
  /\ waiting_for_new_process' = (waiting_for_new_process /\ have_running_process)
  /\ SignalScheduler
  /\ pc' = [pc EXCEPT ![p] = "lock"]
  /\ UNCHANGED <<rqVars, have_running_process, mutex_need_scheduling,
                 remaining_process_count, selected, genVars, pcbVars, mainVars>>

(* Mutant: a process that wakes up does not look at its state again.       *)
pcb_lock_once(p) ==
  /\ pc[p] \in {"lock", "relock"}
  /\ pcb_mutex[p] = "free"
  /\ pcb_mutex' = [pcb_mutex EXCEPT ![p] = "held"]
  /\ pc' = [pc EXCEPT ![p] = IF @ = "relock" THEN "dispatch" ELSE "check"]
  /\ UNCHANGED <<rqVars, needVars, remaining_process_count, schedVars, genVars,
                 paramVars, timingVars, state, mainVars>>

(* pthread_mutex_lock(&pcb->mutex), or pthread_cond_wait taking it back.   *)
pcb_lock(p) ==
  /\ pc[p] \in {"lock", "relock"}
  /\ pcb_mutex[p] = "free"
  /\ pcb_mutex' = [pcb_mutex EXCEPT ![p] = "held"]
  /\ pc' = [pc EXCEPT ![p] = "check"]
  /\ UNCHANGED <<rqVars, needVars, remaining_process_count, schedVars, genVars,
                 paramVars, timingVars, state, mainVars>>

(* while (pcb->state != PROCESS_RUNNING) pthread_cond_wait.                *)
pcb_check(p) ==
  /\ pc[p] = "check"
  /\ \/ /\ state[p] # "RUNNING"
        /\ pcb_mutex' = [pcb_mutex EXCEPT ![p] = "free"]
        /\ pc' = [pc EXCEPT ![p] = "waiting"]
     \/ /\ state[p] = "RUNNING"
        /\ pcb_mutex' = pcb_mutex
        /\ pc' = [pc EXCEPT ![p] = "dispatch"]
  /\ UNCHANGED <<rqVars, needVars, remaining_process_count, schedVars, genVars,
                 paramVars, timingVars, state, mainVars>>

pcb_spurious_wakeup(p) ==
  /\ SpuriousWakeups
  /\ pc[p] = "waiting"
  /\ pc' = [pc EXCEPT ![p] = "relock"]
  /\ UNCHANGED <<rqVars, needVars, remaining_process_count, schedVars, genVars,
                 pcbVars, mainVars>>

(* Mutant: a full slice, however little is left to do.                     *)
BurstUncapped(p, queued) == Timeslice(queued, priority, priority[p])

(* How long p runs next while the pids in `queued' wait.                   *)
BurstTime(p, queued) ==
  LET remaining_time == process_length[p] - cpu_time[p]
      timeslice      == Timeslice(queued, priority, priority[p])
  IN  IF remaining_time > timeslice THEN timeslice ELSE remaining_time

(* One critical section of mutex_runqueue: leave the queue, size the slice *)
(* by who is left in it, and account for the burst ahead.                  *)
run_slice(p) ==
  /\ pc[p] = "dispatch"
  /\ \/ /\ rq_memory = "live"
        /\ rq' = runqueue_remove_pcb(rq, p)
        /\ LET time == BurstTime(p, Range(rq'))
           IN  /\ cpu_time' = [cpu_time EXCEPT ![p] = @ + time]
               /\ vruntime' = [vruntime EXCEPT ![p] =
                    @ + runqueue_vruntime(VruntimeScale, priority[p], time)]
        /\ pc' = [pc EXCEPT ![p] = "burst"]
     \/ /\ rq_memory # "live" \/ SectionsOverlap(p)
        /\ pc' = [pc EXCEPT ![p] = "segv"]
        /\ UNCHANGED <<rq, timingVars>>
  /\ UNCHANGED <<rq_count, rq_memory, mutex_runqueue, needVars,
                 remaining_process_count, schedVars, genVars, paramVars, state,
                 pcb_mutex, mainVars>>

(* Mutants: every burst counts as the last one, or none does.              *)
TerminatesAlways(p)   == TRUE
TerminatesStrictly(p) == process_length[p] < cpu_time[p]

Terminates(p) == process_length[p] <= cpu_time[p]

(* usleep is over: back to READY, and notify_process_termination once the  *)
(* whole length has been served.                                           *)
end_burst(p) ==
  /\ pc[p] = "burst"
  /\ state' = [state EXCEPT ![p] = "READY"]
  /\ remaining_process_count' = IF Terminates(p)
                                THEN remaining_process_count - 1
                                ELSE remaining_process_count
  /\ pc' = [pc EXCEPT ![p] = "yield"]
  /\ UNCHANGED <<rqVars, needVars, schedVars, genVars, paramVars, timingVars,
                 pcb_mutex, mainVars>>

(* Called with pcb->mutex still held.                                      *)
signal_scheduler_terminated_process(p) ==
  /\ pc[p] = "yield"
  /\ NeedSchedulingAvailable
  /\ have_running_process' = FALSE
  /\ SignalScheduler
  /\ pc' = [pc EXCEPT ![p] = "unlock"]
  /\ UNCHANGED <<rqVars, waiting_for_new_process, mutex_need_scheduling,
                 remaining_process_count, selected, genVars, pcbVars, mainVars>>

pcb_unlock(p) ==
  /\ pc[p] = "unlock"
  /\ pcb_mutex' = [pcb_mutex EXCEPT ![p] = "free"]
  /\ pc' = [pc EXCEPT ![p] = LoopTest(process_length[p], cpu_time[p])]
  /\ UNCHANGED <<rqVars, needVars, remaining_process_count, schedVars, genVars,
                 paramVars, timingVars, state, mainVars>>

StatsFreed == main_pc \in {"free_arguments", "return", "exited"}

(* send_process_stats, free(pcb) and pthread_exit.  stats_array has a      *)
(* place for each pid up to total_process_count; a write to freed memory   *)
(* or behind its end reaches no reader of the table, and what else it      *)
(* overwrites is not modelled.                                             *)
send_process_stats(p) ==
  /\ pc[p] = "depart"
  /\ stats' = IF StatsFreed \/ p > TotalProcessCount THEN stats ELSE stats \cup {p}
  /\ pc' = [pc EXCEPT ![p] = "exited"]
  /\ UNCHANGED <<rqVars, needVars, remaining_process_count, schedVars, genVars,
                 pcbVars, main_pc, printed>>

ProcessThread(p) ==
  \/ add_pcb_to_runqueue(p) \/ signal_scheduler_new_process(p) \/ pcb_lock(p)
  \/ pcb_check(p) \/ run_slice(p) \/ end_burst(p)
  \/ signal_scheduler_terminated_process(p) \/ pcb_unlock(p)
  \/ send_process_stats(p)

-----------------------------------------------------------------------------
(* The main thread joins two threads, never a process.                     *)

main_join ==
  /\ \/ /\ main_pc = "join_scheduler" /\ sched_pc = "exited"
        /\ main_pc' = "join_generator"
     \/ /\ main_pc = "join_generator" /\ gen_pc = "exited"
        /\ main_pc' = "print_table"
  /\ UNCHANGED <<rqVars, needVars, remaining_process_count, schedVars, genVars,
                 pc, pcbVars, stats, printed>>

(* One row for each i < total_process_count, then free(stats).  A row      *)
(* whose process has not sent its statistics shows uninitialised memory.   *)
print_table ==
  /\ main_pc = "print_table"
  /\ printed' = stats
  /\ main_pc' = "free_arguments"
  /\ UNCHANGED <<rqVars, needVars, remaining_process_count, schedVars, genVars,
                 pc, pcbVars, stats>>

(* free_arguments, then the return that ends every thread.                 *)
main_return ==
  /\ \/ main_pc = "free_arguments" /\ main_pc' = "return"
     \/ main_pc = "return" /\ main_pc' = "exited"
  /\ UNCHANGED <<rqVars, needVars, remaining_process_count, schedVars, genVars,
                 pc, pcbVars, stats, printed>>

MainThread == main_join \/ print_table \/ main_return

-----------------------------------------------------------------------------
Crashed == \E p \in Procs : pc[p] = "segv"
Running == main_pc # "exited" /\ ~ Crashed

Terminated == ~ Running /\ UNCHANGED vars

Next ==
  \/ /\ Running
     /\ \/ SchedulerThread \/ sched_spurious_wakeup
        \/ GeneratorThread
        \/ MainThread
        \/ \E p \in Procs : ProcessThread(p) \/ pcb_spurious_wakeup(p)
  \/ Terminated

Spec == Init /\ [][Next]_vars

(* Every thread that can move does, and a thread that waits for a mutex    *)
(* others keep releasing gets it in the end.                               *)
Fairness ==
  /\ WF_vars(Running /\ SchedulerThread)
  /\ SF_vars(Running /\ (sched_lock \/ signal_process))
  /\ WF_vars(Running /\ GeneratorThread)
  /\ WF_vars(Running /\ MainThread)
  /\ \A p \in Procs :
       /\ WF_vars(Running /\ ProcessThread(p))
       /\ SF_vars(Running /\ (\/ signal_scheduler_new_process(p)
                              \/ signal_scheduler_terminated_process(p)
                              \/ pcb_lock(p)))

FairSpec == Spec /\ Fairness

-----------------------------------------------------------------------------
(***************************************************************************)
(* Properties                                                              *)
(***************************************************************************)

QueuedPcs == {"announce", "lock", "check", "waiting", "relock", "dispatch"}

(* Every variable keeps to the values its C counterpart can have; virtual   *)
(* runtimes and CPU times never go negative.                               *)
TypeOK ==
  /\ rq \in Seq(Procs)
  /\ rq_count \in Nat
  /\ rq_memory \in {"live", "freed", "null"}
  /\ mutex_runqueue \in {"valid", "destroyed"}
  /\ have_running_process \in BOOLEAN
  /\ waiting_for_new_process \in BOOLEAN
  /\ mutex_need_scheduling \in {"free", "held", "destroyed"}
  /\ remaining_process_count \in Int
  /\ sched_pc \in {"start", "loop", "lock", "relock", "check", "waiting",
                   "signal", "mark", "destroy_need", "destroy_rq", "free_rq",
                   "null_rq", "exited"}
  /\ selected \in Procs \cup {NoPcb}
  /\ gen_pc \in {"loop", "set_tid", "poll", "exited"}
  /\ created \in 0 .. N
  /\ pc \in [Procs -> QueuedPcs \cup {"unborn", "enqueue", "burst", "yield",
                                      "unlock", "depart", "exited", "segv"}]
  /\ process_length \in [Procs -> Int]
  /\ priority \in [Procs -> Priorities \cup {0}]
  /\ cpu_time \in [Procs -> Nat]
  /\ vruntime \in [Procs -> Nat]
  /\ state \in [Procs -> {"READY", "RUNNING"}]
  /\ pcb_mutex \in [Procs -> {"free", "held"}]
  /\ main_pc \in {"join_scheduler", "join_generator", "print_table",
                  "free_arguments", "return", "exited"}
  /\ stats \in SUBSET Procs
  /\ printed \in SUBSET Procs

(* p owns the simulated CPU: from the PROCESS_RUNNING of signal_process to *)
(* its own signal_scheduler_terminated_process.                            *)
OnCpu(p) == state[p] = "RUNNING" \/ pc[p] = "yield"

(* At most one process owns the CPU.                                       *)
MutualExclusion == \A p, q \in Procs : OnCpu(p) /\ OnCpu(q) => p = q

(* have_running_process never lies to the scheduler: outside the window    *)
(* before sched_mark it is set exactly while some process owns the CPU, so *)
(* the CPU is never marked busy with nobody to give it back.               *)
CpuAccounting ==
  (have_running_process \/ sched_pc = "mark") <=> \E p \in Procs : OnCpu(p)

(* The runqueue holds each process between its add and its remove exactly  *)
(* once, and nobody else: no stale pcb for the scheduler to pick.          *)
RunqueueMatchesThreads ==
  /\ IsInjective(rq)
  /\ \A p \in Procs : pc[p] # "segv" =>
       (p \in Range(rq) <=> pc[p] \in QueuedPcs)

(* The pcb the scheduler uses after unlock_rq is still queued, not yet     *)
(* told to run, and its mutex is at most briefly taken: the thread that    *)
(* holds it never waits for mutex_need_scheduling, which the scheduler     *)
(* holds here, although signal_scheduler_terminated_process nests the two  *)
(* locks the other way round.                                              *)
SelectionStaysValid ==
  sched_pc = "signal" =>
    /\ selected \in Range(rq)
    /\ state[selected] = "READY"
    /\ pcb_mutex[selected] = "held" => pc[selected] = "check"

(* No wakeup is lost: the scheduler sleeps only while a process owns the   *)
(* CPU or every queued process has its signal still to send; and no        *)
(* process sleeps once it has been told to run.                            *)
NoLostWakeup ==
  /\ sched_pc = "waiting" =>
       \/ have_running_process
       \/ \A p \in Range(rq) : pc[p] \in {"announce", "segv"}
  /\ \A p \in Procs : pc[p] = "waiting" => state[p] = "READY"

(* update_pcb_timings never charges more than the process asked for, and a *)
(* process that leaves has been served in full.                            *)
ServedExactly ==
  \A p \in Procs :
    /\ process_length[p] >= 0 => cpu_time[p] <= process_length[p]
    /\ pc[p] \in {"depart", "exited"} => cpu_time[p] >= process_length[p]

(* Before the scheduler destroys anything, every process of the workload   *)
(* has been created and has ended its last burst, so that no process       *)
(* thread enters a section of mutex_runqueue again.  It says no more: the  *)
(* last process may still lock the destroyed mutex_need_scheduling (at     *)
(* `yield'), and the generator may still poll (see PollsNoFreedRunqueue).  *)
TeardownAfterLastBurst ==
  sched_pc \in {"destroy_need", "destroy_rq", "free_rq", "null_rq", "exited"} =>
    \A p \in Procs : pc[p] \in {"yield", "unlock", "depart", "exited"}

(* Whatever the workload, the scheduler does not end before as many        *)
(* processes as total_process_count says have run to their end.  Processes *)
(* of length 0 never run, and do not count: where a file lists too many of *)
(* them, the scheduler waits forever.                                      *)
Finished == { p \in Procs : process_length[p] > 0
                            /\ cpu_time[p] >= process_length[p] }

TeardownNeedsTotal ==
  sched_pc \in {"destroy_need", "destroy_rq", "free_rq", "null_rq", "exited"} =>
    Cardinality(Finished) >= TotalProcessCount

(* The CPU goes to the least virtual runtime among the queued processes    *)
(* that have announced themselves; one that is queued in the window after  *)
(* the selection cannot get past its announcement.                         *)
GrantsLeastVruntime ==
  [][ \A p \in Procs : state[p] = "READY" /\ state'[p] = "RUNNING" =>
        \A q \in Range(rq) :
          pc[q] # "announce" => vruntime[p] <= vruntime[q] ]_vars

(* The life of a process as CpuScheduling tells it: `dispatched' from the  *)
(* PROCESS_RUNNING of signal_process on, `serving' from run_slice to its   *)
(* own signal_scheduler_terminated_process.                                *)
Phase(p) ==
  CASE pc[p] = "unborn"                  -> "unborn"
    [] pc[p] = "exited"                  -> "done"
    [] pc[p] \in {"burst", "yield"}      -> "serving"
    [] pc[p] \in {"enqueue", "unlock", "depart"} -> "off"
    [] pc[p] = "segv" /\ p \notin Range(rq)      -> "off"
    [] OTHER -> IF state[p] = "RUNNING" THEN "dispatched" ELSE "ready"

Cpu == INSTANCE CpuScheduling WITH
         Demands <- { r.length : r \in ProcessParams },
         phase   <- [p \in Procs |-> Phase(p)],
         demand  <- process_length,
         served  <- cpu_time

(* The threads implement the abstract scheduler: one CPU, turns that are   *)
(* neither empty nor too long, and nobody leaves before it is served.      *)
ImplementsCpu == Cpu!Spec

(* Whoever is queued gets its burst.                                       *)
QueuedEventuallyRuns ==
  \A p \in Procs : p \in Range(rq) ~> pc[p] = "burst"

(* The program returns, with every process served in full.                 *)
EventuallyReturns ==
  <>(main_pc = "exited" /\ \A p \in Procs : cpu_time[p] = process_length[p])

(* The table covers every process.                                         *)
TableComplete ==
  main_pc \in {"free_arguments", "return", "exited"} =>
    printed = 1 .. TotalProcessCount

(* get_runqueue_item_count tests rq for NULL, so that a poll behind the    *)
(* teardown finds no items: the count is never read from freed memory.     *)
PollsNoFreedRunqueue ==
  [][ gen_pc = "poll" /\ gen_pc' # "poll" => rq_memory # "freed" ]_vars

(* The generator does not go on while the runqueue is at its limit.        *)
LimitRespected ==
  [][ gen_pc = "poll" /\ gen_pc' = "loop" =>
        Len(rq) # MaxRunqueueLength ]_vars

-----------------------------------------------------------------------------
(***************************************************************************)
(* The inductive invariant: the safety properties above, with what each    *)
(* control state says about the locks and flags.  It needs neither         *)
(* TotalProcessCount = N nor positive lengths.                             *)
(***************************************************************************)

(* Who holds what, and what the teardown has reached.                      *)
LocksMatchControl ==
  /\ mutex_need_scheduling = "held" <=> sched_pc \in {"check", "signal", "mark"}
  /\ \A p \in Procs :
       /\ pc[p] \in {"check", "dispatch", "burst", "yield", "unlock"} =>
            pcb_mutex[p] = "held"
       /\ pcb_mutex[p] = "held" =>
            pc[p] \in {"check", "dispatch", "burst", "yield", "unlock", "segv"}

(* What the state field says of the position of its thread.                *)
StateMatchesControl ==
  \A p \in Procs :
    /\ pc[p] \in {"dispatch", "burst"} => state[p] = "RUNNING"
    /\ state[p] = "RUNNING" => pc[p] \in QueuedPcs \cup {"burst", "segv"}
    /\ pc[p] = "segv" => (p \in Range(rq) <=> state[p] = "RUNNING")

(* While the scheduler is told to wait for a new process, nobody queued    *)
(* has announced itself and the CPU is idle; while it selects and signals, *)
(* it is not told to wait.                                                 *)
WaitingFlag ==
  /\ waiting_for_new_process =>
       /\ ~ have_running_process
       /\ sched_pc \notin {"signal", "mark"}
       /\ \A p \in Range(rq) : pc[p] = "announce"
  /\ sched_pc = "waiting" => have_running_process \/ waiting_for_new_process
  /\ sched_pc = "signal" => ~ have_running_process
  /\ sched_pc = "mark" => ~ have_running_process

(* The selected pcb is the best of those that have announced themselves.   *)
SelectionIsLeast ==
  sched_pc = "signal" =>
    \A q \in Range(rq) : pc[q] # "announce" => vruntime[selected] <= vruntime[q]

(* Processes come into being in order, and one that asks for the CPU has   *)
(* something left to do.                                                   *)
DemandMatchesControl ==
  \A p \in Procs :
    /\ p > created <=> pc[p] = "unborn"
    /\ pc[p] \in QueuedPcs \cup {"enqueue", "segv"} =>
         cpu_time[p] < process_length[p]
    /\ pc[p] = "unborn" => cpu_time[p] = 0

IInv ==
  /\ TypeOK
  /\ MutualExclusion
  /\ CpuAccounting
  /\ RunqueueMatchesThreads
  /\ SelectionStaysValid
  /\ NoLostWakeup
  /\ ServedExactly
  /\ LocksMatchControl
  /\ StateMatchesControl
  /\ WaitingFlag
  /\ SelectionIsLeast
  /\ DemandMatchesControl
=============================================================================
