-------------------------- MODULE PageReplacement --------------------------
(***************************************************************************)
(* Page replacement as a textbook has it: a memory that holds at most      *)
(* Capacity pages and the order in which they will leave it.  A reference  *)
(* to a page outside loads it behind all others, and when the memory is    *)
(* full the first page of the order leaves.  A reference to a page inside  *)
(* sends it to the end of the order if Refresh (LRU) and changes nothing   *)
(* otherwise (FIFO).  Frames, times and page tables do not appear here:    *)
(* Paging implements this specification.                                   *)
(***************************************************************************)
EXTENDS Integers, FiniteSets

CONSTANTS Pages, Capacity, Refresh

VARIABLES
  resident,  \* the pages in memory
  order      \* <<p, q>> is in it when p will leave before q

vars == <<resident, order>>

Init == resident = {} /\ order = {}

(* p stands behind the pages of `others', which keep their order.          *)
Behind(p, others) ==
  { pair \in order : pair[1] \in others /\ pair[2] \in others }
    \cup others \X {p}

Hit(p) ==
  /\ p \in resident
  /\ order' = IF Refresh THEN Behind(p, resident \ {p}) ELSE order
  /\ UNCHANGED resident

Load(p) ==
  /\ p \notin resident
  /\ Cardinality(resident) < Capacity
  /\ resident' = resident \cup {p}
  /\ order' = Behind(p, resident)

Replace(p) ==
  /\ p \notin resident
  /\ Cardinality(resident) = Capacity
  /\ \E first \in resident :
       /\ \A q \in resident \ {first} : <<first, q>> \in order
       /\ resident' = (resident \ {first}) \cup {p}
       /\ order' = Behind(p, resident \ {first})

Next == \E p \in Pages : Hit(p) \/ Load(p) \/ Replace(p)

Spec == Init /\ [][Next]_vars
=============================================================================
