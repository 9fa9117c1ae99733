------------------------------- MODULE TWord -------------------------------
(***************************************************************************)
(* proj01/src/tword.c: one thread for each input file, which puts the      *)
(* pairs of its file into its own slot of sub_arrays; the main thread      *)
(* joins them all and then adds the slots up.                              *)
(***************************************************************************)
EXTENDS WordCounts

CONSTANTS
  InFileCount,
  FileContents,  \* the words of each file
  OpenMayFail,   \* whether fopen may fail on an input file
  str_toupper    \* the upper-case form of each word

MAX_IN_FILE_COUNT == 8
Files == 0 .. InFileCount - 1

ASSUME CliAssumption ==
  /\ InFileCount \in 1 .. MAX_IN_FILE_COUNT
  /\ FileContents \in [Files -> Seq(DOMAIN str_toupper)]
  /\ OpenMayFail \in BOOLEAN

VARIABLES
  main_pc, i,     \* the main thread, and the i of the loop it is in
  thread_pc,
  child_count,    \* what the allocated argument of each thread holds
  my_i,           \* the i each thread has read from its argument
  sub_arrays,     \* the slots that hold an array
  pair_array

vars == <<main_pc, i, thread_pc, child_count, my_i, sub_arrays, pair_array>>

Init ==
  /\ main_pc = "create" /\ i = 0
  /\ thread_pc = [t \in Files |-> "unborn"]
  /\ child_count = [t \in Files |-> 0]
  /\ my_i = [t \in Files |-> 0]
  /\ sub_arrays = [t \in {} |-> <<>>]
  /\ pair_array = <<>>

(* exit(2) of any thread ends them all.                                    *)
Alive == main_pc # "exited"

-----------------------------------------------------------------------------
(* A thread.                                                               *)

(* Mutant: the argument is the address of main's own i.                    *)
SharedIndex(t) == i

Argument(t) == child_count[t]

read_argument(t) ==
  /\ Alive /\ thread_pc[t] = "started"
  /\ my_i' = [my_i EXCEPT ![t] = Argument(t)]
  /\ thread_pc' = [thread_pc EXCEPT ![t] = "parse"]
  /\ UNCHANGED <<main_pc, i, child_count, sub_arrays, pair_array>>

parse_file(t) ==
  /\ Alive /\ thread_pc[t] = "parse"
  /\ \/ /\ sub_arrays' =
             [ slot \in DOMAIN sub_arrays \cup {my_i[t]} |->
                 IF slot = my_i[t]
                 THEN parse_in_file(FileContents[slot], str_toupper)
                 ELSE sub_arrays[slot] ]
        /\ thread_pc' = [thread_pc EXCEPT ![t] = "done"]
        /\ UNCHANGED main_pc
     \/ /\ OpenMayFail
        /\ main_pc' = "exited"
        /\ UNCHANGED <<sub_arrays, thread_pc>>
  /\ UNCHANGED <<i, child_count, my_i, pair_array>>

run_child_actions(t) == read_argument(t) \/ parse_file(t)

-----------------------------------------------------------------------------
(* The main thread.                                                        *)

(* Mutants: one thread less, one thread more.                              *)
CreatesOneLess ==
  /\ main_pc = "create"
  /\ IF i < InFileCount - 1
     THEN /\ child_count' = [child_count EXCEPT ![i] = i]
          /\ thread_pc' = [thread_pc EXCEPT ![i] = "started"]
          /\ i' = i + 1
          /\ UNCHANGED main_pc
     ELSE /\ main_pc' = "join" /\ i' = 0
          /\ UNCHANGED <<thread_pc, child_count>>
  /\ UNCHANGED <<my_i, sub_arrays, pair_array>>

CreatesOneMore ==
  /\ main_pc = "create"
  /\ IF i <= InFileCount
     THEN /\ child_count' = [child_count EXCEPT ![i] = i]
          /\ thread_pc' = [thread_pc EXCEPT ![i] = "started"]
          /\ i' = i + 1
          /\ UNCHANGED main_pc
     ELSE /\ main_pc' = "join" /\ i' = 0
          /\ UNCHANGED <<thread_pc, child_count>>
  /\ UNCHANGED <<my_i, sub_arrays, pair_array>>

create_thread ==
  /\ main_pc = "create"
  /\ IF i # InFileCount
     THEN /\ child_count' = [child_count EXCEPT ![i] = i]
          /\ thread_pc' = [thread_pc EXCEPT ![i] = "started"]
          /\ i' = i + 1
          /\ UNCHANGED main_pc
     ELSE /\ main_pc' = "join" /\ i' = 0
          /\ UNCHANGED <<thread_pc, child_count>>
  /\ UNCHANGED <<my_i, sub_arrays, pair_array>>

join_thread ==
  /\ main_pc = "join"
  /\ IF i # InFileCount
     THEN /\ thread_pc[i] = "done"
          /\ i' = i + 1 /\ UNCHANGED main_pc
     ELSE main_pc' = "merge" /\ i' = 0
  /\ UNCHANGED <<thread_pc, child_count, my_i, sub_arrays, pair_array>>

(* A slot nobody has filled is a NULL pointer.                             *)
merge ==
  /\ main_pc = "merge"
  /\ IF i = InFileCount THEN main_pc' = "write" /\ UNCHANGED <<i, sub_arrays, pair_array>>
     ELSE IF i \notin DOMAIN sub_arrays
     THEN main_pc' = "segv" /\ UNCHANGED <<i, sub_arrays, pair_array>>
     ELSE /\ pair_array' = add_array_to_array(pair_array, sub_arrays[i])
          /\ sub_arrays' = [t \in DOMAIN sub_arrays \ {i} |-> sub_arrays[t]]
          /\ i' = i + 1
          /\ UNCHANGED main_pc
  /\ UNCHANGED <<thread_pc, child_count, my_i>>

write_output_file ==
  /\ main_pc = "write"
  /\ main_pc' \in {"done", "exited"}  \* exit(3) if it does not open
  /\ UNCHANGED <<i, thread_pc, child_count, my_i, sub_arrays, pair_array>>

Main == create_thread \/ join_thread \/ merge \/ write_output_file

Terminated == main_pc \in {"done", "exited", "segv"} /\ UNCHANGED vars

Next == Main \/ (\E t \in Files : run_child_actions(t)) \/ Terminated

Spec == Init /\ [][Next]_vars

FairSpec ==
  Spec /\ WF_vars(Main) /\ \A t \in Files : WF_vars(run_child_actions(t))

-----------------------------------------------------------------------------
(* Properties.                                                             *)

(* Every variable keeps to the values its C counterpart can have.          *)
TypeOK ==
  /\ main_pc \in {"create", "join", "merge", "write", "done", "exited", "segv"}
  /\ i \in 0 .. InFileCount
  /\ thread_pc \in [Files -> {"unborn", "started", "parse", "done"}]
  /\ child_count \in [Files -> Files] /\ my_i \in [Files -> Files]
  /\ DOMAIN sub_arrays \subseteq Files

(* No two threads work on the same file, and each slot is filled by the    *)
(* thread that main joins before it reads the slot, so that none is ever   *)
(* read empty.                                                             *)
SlotsAreOwned ==
  /\ main_pc # "segv"
  /\ \A t, u \in Files :
       thread_pc[t] \in {"parse", "done"} /\ thread_pc[u] \in {"parse", "done"}
         /\ my_i[t] = my_i[u] => t = u
  /\ main_pc = "merge" => DOMAIN sub_arrays = i .. InFileCount - 1

(* The file says how often each word occurs in the input files.            *)
CountsExact ==
  main_pc = "done" =>
    CountsAll(pair_array, FileContents, str_toupper)

(* The program comes to an end.                                            *)
Returns == <>(main_pc \in {"done", "exited"})
=============================================================================
