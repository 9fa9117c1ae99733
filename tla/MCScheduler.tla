---------------------------- MODULE MCScheduler ----------------------------
(***************************************************************************)
(* The workloads of the runs of Scheduler.                                 *)
(***************************************************************************)
EXTENDS Scheduler

(* A process that needs two slices when it is alone and one when light     *)
(* processes wait, and a light one that needs two slices (of the minimal   *)
(* granularity) while a heavy one waits and one otherwise.                 *)
MixedParams == { [length |-> 120, priority |-> 0],
                 [length |-> 15, priority |-> 15] }

(* The same with a heavy process that needs one slice only.                *)
LightHeavyParams == { [length |-> 90, priority |-> 0],
                      [length |-> 15, priority |-> 15] }

(* A file may also list a process of length 0.                             *)
HeavyAndEmptyParams == { [length |-> 60, priority |-> 0],
                         [length |-> 0, priority |-> 15] }

LightParams == { [length |-> 15, priority |-> 15] }
=============================================================================
