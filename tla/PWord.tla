------------------------------- MODULE PWord -------------------------------
(***************************************************************************)
(* proj01/src/pword.c: a process forks one child for each input file, the  *)
(* children count the words of their file and send the pairs over a POSIX  *)
(* message queue, the parent adds them up until it has seen an end marker  *)
(* for every file.                                                         *)
(*                                                                         *)
(* The queue is bounded, first in first out, and belongs to the system: it *)
(* outlives an interrupted run and the next run opens it as it is.         *)
(***************************************************************************)
EXTENDS WordCounts

CONSTANTS
  InFileCount,
  FileContents,   \* the words of each file
  OpenMayFail,    \* whether fopen may fail on an input file
  str_toupper,    \* the upper-case form of each word
  WordLength,     \* strlen of each upper-case word
  MsgSize,
  MqMaxMsg,       \* how many messages the queue holds
  ForkMayFail,
  MaxRuns         \* bound on the runs of the program

Files            == 1 .. InFileCount
MQ_EOF_VAL       == -1
SizeOfInt        == 4
ValidMsgSizes    == {128, 256, 512, 1024, 2048, 4096}
MaxInFileCount   == 8

ASSUME CliAssumption ==
  /\ InFileCount \in 1 .. MaxInFileCount
  /\ FileContents \in [Files -> Seq(DOMAIN str_toupper)]
  /\ OpenMayFail \in BOOLEAN /\ ForkMayFail \in BOOLEAN
  /\ \A word \in DOMAIN str_toupper :
       str_toupper[word] \in DOMAIN WordLength /\ WordLength[str_toupper[word]] \in 1 .. 63
  /\ MsgSize \in ValidMsgSizes
  /\ MqMaxMsg \in Nat \ {0} /\ MaxRuns \in Nat \ {0}

VARIABLES
  mq, linked,                  \* the queue, and whether its name still exists
  parent_pc, forked,           \* the parent and the i of its fork loop
  pair_array, completed_children_count,
  child_pc, child_pairs, next, \* the children, their pair_array and their i
  runs, stale                  \* the run this is, and whether its queue held
                               \* messages of an earlier one

parentVars == <<parent_pc, forked, pair_array, completed_children_count>>
childVars  == <<child_pc, child_pairs, next>>
runVars    == <<runs, stale>>
vars       == <<mq, linked, parentVars, childVars, runVars>>

(* open_message_queue has been called.                                     *)
Init ==
  /\ mq = <<>> /\ linked = TRUE
  /\ parent_pc = "fork" /\ forked = 0
  /\ pair_array = <<>> /\ completed_children_count = 0
  /\ child_pc = [i \in Files |-> "unborn"]
  /\ child_pairs = [i \in Files |-> <<>>]
  /\ next = [i \in Files |-> 0]
  /\ runs = 1 /\ stale = FALSE

-----------------------------------------------------------------------------
(* A child.                                                                *)

parse_file(i) ==
  /\ child_pc[i] = "parse"
  /\ \/ /\ child_pairs' = [child_pairs EXCEPT ![i] =
                               parse_in_file(FileContents[i], str_toupper)]
        /\ child_pc' = [child_pc EXCEPT ![i] = "send"]
     \/ /\ OpenMayFail
        /\ child_pc' = [child_pc EXCEPT ![i] = "failed"]  \* exit(2)
        /\ UNCHANGED child_pairs
  /\ UNCHANGED <<mq, linked, parentVars, next, runVars>>

(* What a pair takes in a message: the word with its NUL, and the count.   *)
PairSize(pair) == WordLength[pair.word] + 1 + SizeOfInt

BytesOf(pairs, first, last) ==
  SumFunction([ k \in first .. last |-> PairSize(pairs[k]) ])

(* The pairs after the n-th up to `last' fill a message, behind its        *)
(* counter: there are no more, or the next one does not fit.               *)
FillsMessage(pairs, n, last) ==
  /\ SizeOfInt + BytesOf(pairs, n + 1, last) <= MsgSize
  /\ last < Len(pairs) => SizeOfInt + BytesOf(pairs, n + 1, last + 1) > MsgSize

(* Mutant: the pair that did not fit is skipped.                           *)
SkipsOne(pairs, last) == IF last = Len(pairs) THEN last ELSE last + 1

(* Where the next message starts after one that ends with pair `last': a   *)
(* pair that does not fit sets i back by one before the loop is left.      *)
NextAfter(pairs, last) == IF last = Len(pairs) THEN last ELSE last - 1

send_pairs(i) ==
  /\ child_pc[i] = "send" /\ next[i] # Len(child_pairs[i])
  /\ Len(mq) < MqMaxMsg
  /\ \E last \in next[i] .. Len(child_pairs[i]) :
       /\ FillsMessage(child_pairs[i], next[i], last)
       /\ mq' = Append(mq, [ pairs_count |-> last - next[i],
                             pairs |-> SubSeq(child_pairs[i], next[i] + 1, last) ])
       /\ next' = [next EXCEPT ![i] = NextAfter(child_pairs[i], last)]
  /\ UNCHANGED <<linked, parentVars, child_pc, child_pairs, runVars>>

(* Mutant: the child exits without its end marker.                         *)
EndsSilently(i) ==
  /\ child_pc[i] = "send" /\ next[i] = Len(child_pairs[i])
  /\ child_pc' = [child_pc EXCEPT ![i] = "exited"]
  /\ UNCHANGED <<mq, linked, parentVars, child_pairs, next, runVars>>

send_end_marker(i) ==
  /\ child_pc[i] = "send" /\ next[i] = Len(child_pairs[i])
  /\ Len(mq) < MqMaxMsg
  /\ mq' = Append(mq, [pairs_count |-> MQ_EOF_VAL, pairs |-> <<>>])
  /\ child_pc' = [child_pc EXCEPT ![i] = "exited"]
  /\ UNCHANGED <<linked, parentVars, child_pairs, next, runVars>>

run_child_actions(i) == parse_file(i) \/ send_pairs(i) \/ send_end_marker(i)

-----------------------------------------------------------------------------
(* The parent.                                                             *)

(* Mutant: one child too many.                                             *)
SpawnsOneMore ==
  /\ parent_pc = "fork"
  /\ \/ /\ forked <= InFileCount
        /\ child_pc' = [child_pc EXCEPT ![forked + 1] = "parse"]
        /\ forked' = forked + 1
        /\ UNCHANGED parent_pc
     \/ /\ forked = InFileCount + 1
        /\ parent_pc' = "await"
        /\ UNCHANGED <<child_pc, forked>>
  /\ UNCHANGED <<mq, linked, pair_array, completed_children_count, child_pairs,
                 next, runVars>>

spawn_child_processes ==
  /\ parent_pc = "fork"
  /\ \/ /\ forked < InFileCount
        /\ child_pc' = [child_pc EXCEPT ![forked + 1] = "parse"]
        /\ forked' = forked + 1
        /\ UNCHANGED parent_pc
     \/ /\ forked < InFileCount /\ ForkMayFail
        /\ parent_pc' = "failed"  \* exit(4); the children go on
        /\ UNCHANGED <<child_pc, forked>>
     \/ /\ forked = InFileCount
        /\ parent_pc' = "await"
        /\ UNCHANGED <<child_pc, forked>>
  /\ UNCHANGED <<mq, linked, pair_array, completed_children_count, child_pairs,
                 next, runVars>>

(* Mutant: every message counts as an end marker.                          *)
CountsMessages ==
  /\ parent_pc = "await" /\ completed_children_count < InFileCount
  /\ mq # <<>> /\ mq' = Tail(mq)
  /\ completed_children_count' = completed_children_count + 1
  /\ pair_array' = add_array_to_array(pair_array, Head(mq).pairs)
  /\ UNCHANGED <<linked, parent_pc, forked, childVars, runVars>>

receive ==
  /\ parent_pc = "await" /\ completed_children_count < InFileCount
  /\ mq # <<>> /\ mq' = Tail(mq)
  /\ IF Head(mq).pairs_count = MQ_EOF_VAL
     THEN /\ completed_children_count' = completed_children_count + 1
          /\ UNCHANGED pair_array
     ELSE /\ pair_array' = add_array_to_array(pair_array, Head(mq).pairs)
          /\ UNCHANGED completed_children_count
  /\ UNCHANGED <<linked, parent_pc, forked, childVars, runVars>>

(* Mutants: one end marker less will do; the name stays.                   *)
UnlinksEarly ==
  /\ parent_pc = "await" /\ completed_children_count >= InFileCount - 1
  /\ linked' = FALSE
  /\ parent_pc' = "write"
  /\ UNCHANGED <<mq, forked, pair_array, completed_children_count, childVars,
                 runVars>>

ClosesOnly ==
  /\ parent_pc = "await" /\ completed_children_count >= InFileCount
  /\ parent_pc' = "write"
  /\ UNCHANGED <<mq, linked, forked, pair_array, completed_children_count,
                 childVars, runVars>>

(* mq_close and mq_unlink.  Children that are still sending keep a queue   *)
(* without a name.                                                         *)
unlink ==
  /\ parent_pc = "await" /\ completed_children_count >= InFileCount
  /\ linked' = FALSE
  /\ parent_pc' = "write"
  /\ UNCHANGED <<mq, forked, pair_array, completed_children_count, childVars,
                 runVars>>

(* The order of the lines is left out: the file holds the pairs.           *)
write_output_file ==
  /\ parent_pc = "write"
  /\ parent_pc' \in {"done", "failed"}  \* exit(3) if it does not open
  /\ UNCHANGED <<mq, linked, forked, pair_array, completed_children_count,
                 childVars, runVars>>

Parent == spawn_child_processes \/ receive \/ unlink \/ write_output_file

-----------------------------------------------------------------------------
(* All processes of the run end, interrupted or not, and the program is    *)
(* started again: mq_open with O_CREAT finds the queue of the last run if  *)
(* nobody has unlinked it.  That children which outlive their parent (its  *)
(* fork failed, or it was killed alone) are gone by then is an assumption: *)
(* nothing in the code sees to it.                                         *)
run_again ==
  /\ runs < MaxRuns
  /\ runs' = runs + 1
  /\ mq' = IF linked THEN mq ELSE <<>>
  /\ stale' = (mq' # <<>>)
  /\ linked' = TRUE
  /\ parent_pc' = "fork" /\ forked' = 0
  /\ pair_array' = <<>> /\ completed_children_count' = 0
  /\ child_pc' = [i \in Files |-> "unborn"]
  /\ child_pairs' = [i \in Files |-> <<>>]
  /\ next' = [i \in Files |-> 0]

Terminated == parent_pc \in {"done", "failed"} /\ UNCHANGED vars

Next ==
  \/ Parent
  \/ \E i \in Files : run_child_actions(i)
  \/ run_again
  \/ Terminated

Spec == Init /\ [][Next]_vars

(* Every process that can go on does.  Nothing is asked of the order in    *)
(* which the children waiting for room in the queue get it.                *)
FairSpec ==
  Spec /\ WF_vars(Parent) /\ \A i \in Files : WF_vars(run_child_actions(i))

-----------------------------------------------------------------------------
(***************************************************************************)
(* Properties.  Those under ~ stale are promises of runs that found an     *)
(* empty queue.                                                            *)
(***************************************************************************)

Message == [ pairs_count : {MQ_EOF_VAL} \cup Nat,
             pairs : Seq([word : DOMAIN WordLength, count : Nat \ {0}]) ]

(* The queue never exceeds its limit, every message but an end marker      *)
(* carries at least one pair, and i never leaves the array of a child.     *)
TypeOK ==
  /\ mq \in Seq(Message) /\ Len(mq) <= MqMaxMsg
  /\ \A k \in DOMAIN mq : mq[k].pairs_count \in {MQ_EOF_VAL, Len(mq[k].pairs)} \ {0}
  /\ linked \in BOOLEAN
  /\ parent_pc \in {"fork", "await", "write", "done", "failed"}
  /\ forked \in 0 .. InFileCount
  /\ completed_children_count \in 0 .. InFileCount
  /\ child_pc \in [Files -> {"unborn", "parse", "send", "exited", "failed"}]
  /\ \A i \in Files : next[i] \in 0 .. Len(child_pairs[i])
  /\ runs \in 1 .. MaxRuns /\ stale \in BOOLEAN

(* The file says how often each word occurs in the input files.            *)
CountsExact ==
  parent_pc = "done" /\ ~ stale => CountsAll(pair_array, FileContents, str_toupper)

(* What holds of every run: no occurrence is lost however the messages of  *)
(* the children interleave, and only the occurrences in a file that takes  *)
(* more than one message can be counted again.                             *)
SplitFiles ==
  { i \in Files :
      LET pairs == parse_in_file(FileContents[i], str_toupper)
      IN  SizeOfInt + BytesOf(pairs, 1, Len(pairs)) > MsgSize }

CountsExactUnlessSplit ==
  parent_pc = "done" /\ ~ stale =>
    \A word \in { str_toupper[w] : w \in DOMAIN str_toupper } :
      LET exact == Occurrences(FileContents, str_toupper, word)
          again == Occurrences([i \in SplitFiles |-> FileContents[i]], str_toupper, word)
      IN  CountOf(pair_array, word) \in exact .. exact + again

(* When the parent stops receiving, every child has sent everything and    *)
(* nothing is left in the queue.                                           *)
NothingLeftBehind ==
  parent_pc \in {"write", "done"} /\ ~ stale =>
    mq = <<>> /\ \A i \in Files : child_pc[i] = "exited"

(* Every file is accounted for: its end marker is counted, in the queue,   *)
(* still to be sent, or will never come because the file did not open.     *)
EndMarkersAddUp ==
  ~ stale =>
    InFileCount = completed_children_count
      + Cardinality({ k \in DOMAIN mq : mq[k].pairs_count = MQ_EOF_VAL })
      + Cardinality({ i \in Files : child_pc[i] # "exited" })

(* A run that comes to its end leaves no message to the next one, not even *)
(* when it was itself disturbed by those of an interrupted run.            *)
EndedRunsCleanUp ==
  [][parent_pc = "done" /\ runs' # runs => ~ stale']_vars

(* Child i has more to send than the next message takes, and that message  *)
(* takes one pair only: i is set back to this very pair, and the child     *)
(* sends it again and again.                                               *)
SendsOnePairForEver(i) ==
  /\ child_pc[i] = "send" /\ next[i] + 1 < Len(child_pairs[i])
  /\ FillsMessage(child_pairs[i], next[i], next[i] + 1)

(* The program comes to an end, though the queue is short and every child  *)
(* may have to wait for room in it.  Two things keep it from that: a file  *)
(* that did not open, whose end marker never comes, and a child that       *)
(* reaches a message with room for one pair, which never gets past it.     *)
ParentReturns ==
  <>(\/ parent_pc \in {"done", "failed"}
     \/ \E i \in Files : child_pc[i] = "failed" \/ SendsOnePairForEver(i))
=============================================================================
