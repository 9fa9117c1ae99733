-------------------------------- MODULE Bst --------------------------------
(***************************************************************************)
(* hw01/src/tree.c: a binary search tree grown from all numbers below      *)
(* NODE_COUNT in random order, and printed in order.  The numbers are all  *)
(* different, so a node is named by its value; NULL is the pointer 0.  A   *)
(* node is created with both its pointers NULL, as all are from the start. *)
(***************************************************************************)
EXTENDS Integers, Sequences, FiniteSets

CONSTANT NODE_COUNT   \* 1000

ASSUME NodeCountAssumption == NODE_COUNT \in Nat \ {0}

Values        == 0 .. NODE_COUNT - 1
NODE_MIDPOINT == NODE_COUNT \div 2
NULL          == -1

VARIABLES
  phase,        \* drawing, inserting, traversing, printed, freed
  left, right,  \* the pointers of the nodes
  table,        \* the numbers that are used
  val, node,    \* the arguments and the cursor of insert_bst_node
  output        \* what traverse_inorder has printed, by main's call

bstVars == <<phase, left, right, table, val, node, output>>

BstInit ==
  /\ phase = "drawing"
  /\ left = [v \in Values |-> NULL] /\ right = [v \in Values |-> NULL]
  /\ table = {NODE_MIDPOINT}
  /\ val = NULL /\ node = NULL /\ output = <<>>

(* A number that is in the table is drawn again, which changes nothing.    *)
draw_number ==
  /\ phase = "drawing" /\ table # Values
  /\ \E v \in Values \ table : val' = v /\ table' = table \cup {v}
  /\ node' = NODE_MIDPOINT
  /\ phase' = "inserting"
  /\ UNCHANGED <<left, right, output>>

(* Mutant: the comparison the wrong way round.                             *)
ComesBefore == val < node

GoesRight == node < val

attach_right ==
  /\ phase = "inserting" /\ GoesRight /\ right[node] = NULL
  /\ right' = [right EXCEPT ![node] = val] /\ phase' = "drawing"
  /\ UNCHANGED <<left, table, val, node, output>>

attach_left ==
  /\ phase = "inserting" /\ ~ GoesRight /\ left[node] = NULL
  /\ left' = [left EXCEPT ![node] = val] /\ phase' = "drawing"
  /\ UNCHANGED <<right, table, val, node, output>>

descend ==
  LET child == IF GoesRight THEN right[node] ELSE left[node]
  IN  /\ phase = "inserting" /\ child # NULL
      /\ node' = child
      /\ UNCHANGED <<phase, left, right, table, val, output>>

(* What the calls print: each level of the recursion adds a node between   *)
(* its subtrees, and no tree has more levels than there are numbers.       *)
traverse_inorder(root) ==
  LET walk[levels \in 0 .. NODE_COUNT] ==
        [ at \in Values \cup {NULL} |->
            IF levels = 0 \/ at = NULL THEN <<>>
            ELSE walk[levels - 1][left[at]] \o <<at>> \o walk[levels - 1][right[at]] ]
  IN  walk[NODE_COUNT][root]

print_tree ==
  /\ phase = "drawing" /\ table = Values
  /\ output' = traverse_inorder(NODE_MIDPOINT) /\ phase' = "printed"
  /\ UNCHANGED <<left, right, table, val, node>>

free_tree ==
  /\ phase = "printed" /\ phase' = "freed"
  /\ left' = [v \in Values |-> NULL] /\ right' = [v \in Values |-> NULL]
  /\ UNCHANGED <<table, val, node, output>>

BstEnded == phase = "freed" /\ UNCHANGED bstVars

BstNext ==
  \/ draw_number \/ attach_right \/ attach_left \/ descend
  \/ print_tree \/ free_tree \/ BstEnded

BstSpec == BstInit /\ [][BstNext]_bstVars

-----------------------------------------------------------------------------
Ascending(s) == \A i, j \in DOMAIN s : i < j => s[i] < s[j]
Elements(s)  == { s[i] : i \in DOMAIN s }

(* Whenever an insertion is complete, the traversal from the root passes   *)
(* the numbers used so far in ascending order, each of them once: no       *)
(* subtree is cut off or overwritten.  What is printed in the end is every *)
(* number there is.                                                        *)
TraversalSorted ==
  /\ phase = "drawing" =>
       LET s == traverse_inorder(NODE_MIDPOINT)
       IN  Ascending(s) /\ Elements(s) = table
  /\ phase \in {"printed", "freed"} => Ascending(output) /\ Elements(output) = Values
=============================================================================
