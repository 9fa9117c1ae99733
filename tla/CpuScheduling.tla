--------------------------- MODULE CpuScheduling ---------------------------
(***************************************************************************)
(* What proj02 promises its simulated processes: one CPU, given to one     *)
(* ready process at a time; every turn serves part of what the process     *)
(* still demands, and a process leaves only when all of it is served.      *)
(* Runqueues, mutexes, condition variables and the threads that signal one *)
(* another do not appear here: Scheduler implements this specification.    *)
(***************************************************************************)
EXTENDS Integers

CONSTANTS
  Procs,
  Demands  \* what a process may ask for

VARIABLES
  phase,   \* where each process is in its life
  demand,  \* how much CPU it asked for when it arrived
  served   \* how much it was given

vars == <<phase, demand, served>>

Init ==
  /\ phase  = [p \in Procs |-> "unborn"]
  /\ demand = [p \in Procs |-> 0]
  /\ served = [p \in Procs |-> 0]

Arrive(p) ==
  /\ phase[p] = "unborn"
  /\ \E d \in Demands : demand' = [demand EXCEPT ![p] = d]
  /\ phase' = [phase EXCEPT ![p] = "off"]
  /\ UNCHANGED served

(* A process asks for the CPU only while it has a use for it.              *)
Enqueue(p) ==
  /\ phase[p] = "off"
  /\ served[p] < demand[p]
  /\ phase' = [phase EXCEPT ![p] = "ready"]
  /\ UNCHANGED <<demand, served>>

(* The CPU goes to a ready process, and only when nobody has it.           *)
Dispatch(p) ==
  /\ phase[p] = "ready"
  /\ \A q \in Procs : phase[q] \notin {"dispatched", "serving"}
  /\ phase' = [phase EXCEPT ![p] = "dispatched"]
  /\ UNCHANGED <<demand, served>>

(* A turn is never empty and never exceeds the demand.                     *)
Serve(p) ==
  /\ phase[p] = "dispatched"
  /\ \E time \in 1 .. demand[p] - served[p] :
       served' = [served EXCEPT ![p] = @ + time]
  /\ phase' = [phase EXCEPT ![p] = "serving"]
  /\ UNCHANGED demand

Yield(p) ==
  /\ phase[p] = "serving"
  /\ phase' = [phase EXCEPT ![p] = "off"]
  /\ UNCHANGED <<demand, served>>

Leave(p) ==
  /\ phase[p] = "off"
  /\ served[p] >= demand[p]
  /\ phase' = [phase EXCEPT ![p] = "done"]
  /\ UNCHANGED <<demand, served>>

Next == \E p \in Procs : \/ Arrive(p) \/ Enqueue(p) \/ Dispatch(p)
                         \/ Serve(p) \/ Yield(p) \/ Leave(p)

Spec == Init /\ [][Next]_vars
=============================================================================
