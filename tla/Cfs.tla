-------------------------------- MODULE Cfs --------------------------------
(***************************************************************************)
(* The runqueue and the scheduling arithmetic of proj02/src/cfs.c.         *)
(*                                                                         *)
(* A runqueue is the sequence of the pids its linked list holds, the head  *)
(* of the list first.  The code computes time slices and virtual runtimes  *)
(* in doubles; here both are exact.  A virtual runtime is a natural number *)
(* counted in 1/scale of the code's unit, with the scale chosen so that    *)
(* the quotients the code takes are whole numbers.                         *)
(***************************************************************************)
EXTENDS Integers, Sequences, Functions

SCHED_LATENCY   == 100
MIN_GRANULARITY == 10

PriorityRange == -20 .. 19

prio_to_weight ==
  << 88761, 71755, 56483, 46273, 36291, 29154, 23254, 18705, 14949, 11916,
      9548,  7620,  6100,  4904,  3906,  3121,  2501,  1991,  1586,  1277,
      1024,   820,   655,   526,   423,   335,   272,   215,   172,   137,
       110,    87,    70,    56,    45,    36,    29,    23,    18,    15 >>

get_weight(prio) == prio_to_weight[prio + 21]

-----------------------------------------------------------------------------
(* The linked list.                                                        *)

(* Mutant: the index of a process for its pid.                             *)
AddsIndexOfPid(q, p) == <<p - 1>> \o q

runqueue_add_pcb(q, p) == <<p>> \o q

(* Mutant: only the head can be dropped.                                   *)
RemovesHeadOnly(q, p) == IF q # <<>> /\ Head(q) = p THEN Tail(q) ELSE q

(* Drops the first node of p; a list without p is left as it is.           *)
runqueue_remove_pcb(q, p) ==
  IF p \notin Range(q) THEN q
  ELSE LET first == CHOOSE i \in DOMAIN q :
                      q[i] = p /\ \A j \in 1 .. i - 1 : q[j] # p
       IN  [ i \in 1 .. Len(q) - 1 |-> IF i < first THEN q[i] ELSE q[i + 1] ]

(* Mutant: the comparison the wrong way round.                             *)
IsGreatestAt(q, vruntime, i) ==
  /\ \A j \in DOMAIN q   : vruntime[q[i]] >= vruntime[q[j]]
  /\ \A j \in 1 .. i - 1 : vruntime[q[i]] >  vruntime[q[j]]

(* i is the position runqueue_smallest_pcb settles on: the scan moves only *)
(* to a strictly smaller virtual runtime, so the first of the least wins.  *)
IsSmallestAt(q, vruntime, i) ==
  /\ \A j \in DOMAIN q   : vruntime[q[i]] <= vruntime[q[j]]
  /\ \A j \in 1 .. i - 1 : vruntime[q[i]] <  vruntime[q[j]]

-----------------------------------------------------------------------------
(* The arithmetic.                                                         *)

(* round(weight / total * SCHED_LATENCY), at least MIN_GRANULARITY.        *)
SliceOfWeight(weight, total) ==
  LET slice == IF total = 0
               THEN SCHED_LATENCY
               ELSE (2 * weight * SCHED_LATENCY + total) \div (2 * total)
  IN  IF slice < MIN_GRANULARITY THEN MIN_GRANULARITY ELSE slice

(* The slice of a process of priority prio while the pids in `queued' wait.*)
runqueue_timeslice(queued, priority, prio) ==
  SliceOfWeight(get_weight(prio),
                SumFunction([ p \in queued |-> get_weight(priority[p]) ]))

(* What `time' ms of CPU add to the virtual runtime at priority prio.      *)
runqueue_vruntime(scale, prio, time) ==
  (get_weight(0) * scale * time) \div get_weight(prio)
=============================================================================
