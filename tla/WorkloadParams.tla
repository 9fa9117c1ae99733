--------------------------- MODULE WorkloadParams ---------------------------
(***************************************************************************)
(* proj02/src/workload_params.c: the command line or the workload file of  *)
(* the CFS simulation, and the iterator the generator thread takes its     *)
(* processes from.                                                         *)
(*                                                                         *)
(* What a scan of the file tells apart is a token: "PL" with a length and  *)
(* a priority, "IAT" with a time, or anything else, at which both scans    *)
(* stop.  The list of process_params is the sequence of its nodes.         *)
(***************************************************************************)
EXTENDS Utility, Sequences, FiniteSets

CONSTANTS
  CommandLines,   \* mode C: [total, min_priority, max_priority, length,
                  \* interarrival], the last two a distribution each:
                  \* [method, average, min, max]
  WorkloadFiles   \* mode F: [total, opens, tokens], a token one of
                  \* [kind |-> "PL", length, priority],
                  \* [kind |-> "IAT", time] and [kind |-> "other"]

Methods == {"fixed", "uniform", "exponential", "other"}
Token   == [kind : {"PL"}, length : Int, priority : Int]
             \cup [kind : {"IAT"}, time : Int] \cup [kind : {"other"}]

ASSUME WorkloadAssumption ==
  /\ \A c \in CommandLines :
       /\ c.total \in CInt /\ c.min_priority \in CInt /\ c.max_priority \in CInt
       /\ \A d \in {c.length, c.interarrival} :
            /\ d.method \in Methods /\ d.min \in CInt /\ d.max \in CInt
            /\ d.average \in CInt /\ (d.method = "exponential" => d.average > 0)
  /\ \A f \in WorkloadFiles :
       f.total \in Int /\ f.opens \in BOOLEAN /\ f.tokens \in Seq(Token)

VARIABLES
  stage,        \* how far the program is with its parameters
  param_mode, param_store,
  scanned,      \* how many tokens the scans have consumed
  processes,    \* the list
  wild,         \* the pointer to the list is uninitialised, and not NULL
  next_process_params, iteration_count,  \* the iterator
  delivered     \* what get_next_process has returned so far

iteratorVars == <<next_process_params, iteration_count, delivered>>
workloadVars == <<stage, param_mode, param_store, scanned, processes, wild,
                  iteratorVars>>

WorkloadInit ==
  /\ stage = "start" /\ param_mode = "none" /\ param_store = [total |-> 0]
  /\ scanned = 0 /\ processes = <<>> /\ wild = FALSE
  /\ next_process_params = 0 /\ iteration_count = 0 /\ delivered = <<>>

-----------------------------------------------------------------------------
(* parse_arguments.  A mode that is neither C nor F ends the program, as   *)
(* an unknown distribution and a file that does not open do.               *)

parse_commandline_arguments(c) ==
  /\ stage = "start"
  /\ param_mode' = "C" /\ param_store' = c
  /\ stage' = IF "other" \in {c.length.method, c.interarrival.method}
              THEN "exited" ELSE "parsed"
  /\ UNCHANGED <<scanned, processes, wild, iteratorVars>>

open_workload_file(f) ==
  /\ stage = "start"
  /\ param_mode' = "F" /\ param_store' = f
  /\ stage' = IF f.opens THEN "scanning" ELSE "exited"
  /\ UNCHANGED <<scanned, processes, wild, iteratorVars>>

invalid_mode ==
  /\ stage = "start" /\ stage' = "exited"
  /\ UNCHANGED <<param_mode, param_store, scanned, processes, wild, iteratorVars>>

IsNext(i, kind) ==
  i \in DOMAIN param_store.tokens /\ param_store.tokens[i].kind = kind

Process(length, priority, interarrival_time) ==
  [ length |-> length, priority |-> priority,
    interarrival_time |-> interarrival_time ]

(* The node made of the tokens from i on.                                  *)
Node(i) ==
  Process(param_store.tokens[i].length, param_store.tokens[i].priority,
          IF IsNext(i + 1, "IAT") THEN param_store.tokens[i + 1].time ELSE 0)

(* Mutant: a missing IAT takes the next line with it.                      *)
ScansOneMore ==
  /\ stage = "scanning" /\ IsNext(scanned + 1, "PL")
  /\ processes' = Append(processes, Node(scanned + 1))
  /\ scanned' = scanned + 2
  /\ UNCHANGED <<stage, param_mode, param_store, wild, iteratorVars>>

(* A round of the loop of parse_file_arguments ...                         *)
scan_process ==
  /\ stage = "scanning" /\ IsNext(scanned + 1, "PL")
  /\ processes' = Append(processes, Node(scanned + 1))
  /\ scanned' = IF IsNext(scanned + 2, "IAT") THEN scanned + 2 ELSE scanned + 1
  /\ UNCHANGED <<stage, param_mode, param_store, wild, iteratorVars>>

(* ... and its end.  dummy_node.next_process is only set by a first node.  *)
end_of_scan ==
  /\ stage = "scanning" /\ ~ IsNext(scanned + 1, "PL")
  /\ wild' \in IF processes = <<>> THEN BOOLEAN ELSE {FALSE}
  /\ stage' = "parsed"
  /\ UNCHANGED <<param_mode, param_store, scanned, processes, iteratorVars>>

-----------------------------------------------------------------------------
(* The iterator.                                                           *)

(* The nodes are counted from 1, and NULL is the number after the last.    *)
init_params_iterator ==
  /\ stage = "parsed" /\ stage' = "iterating"
  /\ next_process_params' = 1 /\ iteration_count' = 0
  /\ UNCHANGED <<param_mode, param_store, scanned, processes, wild, delivered>>

has_next_process ==
  \/ param_mode = "C" /\ param_store.total > iteration_count
  \/ param_mode = "F" /\ (wild \/ next_process_params \in DOMAIN processes)

(* get_distributed_process_length, get_distributed_interarrival_time.      *)
Distributed(d) ==
  CASE d.method = "fixed"       -> {d.average}
    [] d.method = "uniform"     -> InRange(d.min, d.max)
    [] d.method = "exponential" -> get_exponential_random(d.average, d.min, d.max)

Crashes(d) == d.method = "uniform" /\ DividesByZero(d.min, d.max)

DrawCrashes ==
  \/ DividesByZero(param_store.min_priority, param_store.max_priority)
  \/ Crashes(param_store.length) \/ Crashes(param_store.interarrival)

Deliver(process) ==
  /\ delivered' = Append(delivered, process)
  /\ iteration_count' = iteration_count + 1
  /\ UNCHANGED <<stage, param_mode, param_store, scanned, processes, wild>>

(* The rounds of the loop of get_exponential_random that draw again change *)
(* nothing: a draw that never ends leaves the program where it is.         *)
get_random_process ==
  /\ stage = "iterating" /\ param_mode = "C" /\ has_next_process
  /\ ~ DrawCrashes
  /\ \E priority \in InRange(param_store.min_priority, param_store.max_priority),
        length \in Distributed(param_store.length),
        interarrival_time \in Distributed(param_store.interarrival) :
       Deliver(Process(length, priority, interarrival_time))
  /\ UNCHANGED next_process_params

draw_divides_by_zero ==
  /\ stage = "iterating" /\ param_mode = "C" /\ has_next_process
  /\ DrawCrashes
  /\ stage' = "sigfpe"
  /\ UNCHANGED <<param_mode, param_store, scanned, processes, wild, iteratorVars>>

get_listed_process ==
  /\ stage = "iterating" /\ param_mode = "F" /\ has_next_process /\ ~ wild
  /\ next_process_params' = next_process_params + 1
  /\ Deliver(processes[next_process_params])

(* What follows the use of the uninitialised pointer is not modelled.      *)
follow_wild_pointer ==
  /\ stage = "iterating" /\ has_next_process /\ wild
  /\ stage' = "undefined"
  /\ UNCHANGED <<param_mode, param_store, scanned, processes, wild, iteratorVars>>

(* main frees the parameters when the threads are done with them.          *)
free_arguments ==
  /\ stage = "iterating" /\ ~ has_next_process
  /\ stage' = "freed" /\ processes' = <<>>
  /\ UNCHANGED <<param_mode, param_store, scanned, wild, iteratorVars>>

WorkloadEnded ==
  stage \in {"freed", "exited", "sigfpe", "undefined"} /\ UNCHANGED workloadVars

(* A round of a loop of get_exponential_random that draws again.           *)
draw_again ==
  /\ stage = "iterating" /\ param_mode = "C" /\ has_next_process
  /\ \E d \in {param_store.length, param_store.interarrival} :
       d.method = "exponential"
  /\ UNCHANGED workloadVars

WorkloadStart ==
  \/ \E c \in CommandLines : parse_commandline_arguments(c)
  \/ \E f \in WorkloadFiles : open_workload_file(f)
  \/ invalid_mode

WorkloadNext ==
  \/ WorkloadStart
  \/ scan_process \/ end_of_scan \/ init_params_iterator
  \/ get_random_process \/ draw_divides_by_zero \/ draw_again
  \/ get_listed_process \/ follow_wild_pointer
  \/ free_arguments \/ WorkloadEnded

(* One thread runs on, and a loop that draws again and again ends if each  *)
(* round may be its last.                                                  *)
LikelyDraw ==
  /\ param_mode = "C"
  /\ \A d \in {param_store.length, param_store.interarrival} :
       d.method = "exponential" => DrawsOften(d.average, d.min, d.max)
  /\ get_random_process

WorkloadFairness ==
  /\ WF_workloadVars(scan_process \/ end_of_scan \/ init_params_iterator)
  /\ WF_workloadVars(get_listed_process \/ follow_wild_pointer)
  /\ WF_workloadVars(LikelyDraw) /\ WF_workloadVars(draw_divides_by_zero)
  /\ WF_workloadVars(free_arguments)

WorkloadSpec ==
  WorkloadInit /\ [][WorkloadNext]_workloadVars /\ WorkloadFairness

-----------------------------------------------------------------------------
(* Properties.                                                             *)

(* The ends are in order, and the range has no more values than an int     *)
(* can count.                                                              *)
RangeFits(min, max) == min <= max /\ max - min + 1 < IntHalf

Within(d, n) ==
  CASE d.method = "fixed"       -> n = d.average
    [] d.method = "uniform"     -> RangeFits(d.min, d.max) => n \in d.min .. d.max
    [] d.method = "exponential" -> n \in d.min .. d.max

(* Every number drawn lies in the range it was asked from, and no draw     *)
(* divides by zero, unless the ends of a uniform range are exchanged or it *)
(* is so wide that the number of its values overflows: the rejection loop  *)
(* accepts nothing that rounds out of the range, and the buckets of a      *)
(* uniform draw never reach past it.                                       *)
DrawnInRange ==
  param_mode = "C" =>
    /\ stage = "sigfpe" =>
         \/ ~ RangeFits(param_store.min_priority, param_store.max_priority)
         \/ \E d \in {param_store.length, param_store.interarrival} :
              d.method = "uniform" /\ ~ RangeFits(d.min, d.max)
    /\ \A i \in DOMAIN delivered :
         /\ RangeFits(param_store.min_priority, param_store.max_priority) =>
              delivered[i].priority
                \in param_store.min_priority .. param_store.max_priority
         /\ Within(param_store.length, delivered[i].length)
         /\ Within(param_store.interarrival, delivered[i].interarrival_time)

(* The lines of the file that give a process: PL lines with nothing before *)
(* them but PL lines, each with at most one IAT line of its own.           *)
Lines ==
  { j \in DOMAIN param_store.tokens :
      /\ IsNext(j, "PL")
      /\ \A i \in 1 .. j - 1 :
           \/ IsNext(i, "PL")
           \/ IsNext(i, "IAT") /\ IsNext(i - 1, "PL") }

(* The iterator yields the processes of the file, each once, in the order  *)
(* of their lines and with the time of their own IAT line, and all of them *)
(* before the parameters are freed; only a file without any makes it read  *)
(* a pointer that was never set.                                           *)
LinesInOrder ==
  param_mode = "F" =>
    /\ \A n \in DOMAIN delivered :
         \E j \in Lines :
           /\ Cardinality({ i \in Lines : i < j }) = n - 1
           /\ delivered[n] = Node(j)
    /\ stage = "freed" => Len(delivered) = Cardinality(Lines)
    /\ stage = "undefined" => Lines = {}

(* Every exponential range leaves a draw below the average.                *)
DrawsMayEnd ==
  param_mode = "C" =>
    \A d \in {param_store.length, param_store.interarrival} :
      d.method = "exponential" => DrawsOften(d.average, d.min, d.max)

(* The program gets through its workload, unless a range of an exponential *)
(* draw has nothing below the average: then the loop may draw for ever.    *)
DrawsEnd ==
  stage = "parsed" /\ DrawsMayEnd ~> stage \in {"freed", "sigfpe", "undefined"}
=============================================================================
