------------------------------- MODULE Paging -------------------------------
(***************************************************************************)
(* proj03 (`pagesim'): the simulation of demand paging with a two-level    *)
(* page table and FIFO or LRU replacement (paging.c), over the addresses   *)
(* the iterator of params.c yields.                                        *)
(*                                                                         *)
(* The program is sequential; a step is one round of the loop of           *)
(* run_paging_simulation.  The page table holds the entries of the pages   *)
(* the input can name, all others stay as init_outer_page_table leaves     *)
(* them and the scans for a victim skip them.                              *)
(***************************************************************************)
EXTENDS Integers, Sequences, FiniteSets

CONSTANTS
  VirtualAddresses,  \* what the input may contain, as C ints
  VirtualRegions,    \* the regions of the address space: [base, past_end]
  NumOfFrames,
  ReplacementAlgorithm,
  InputLength,       \* total_virtual_address_input_length
  FarFuture          \* 999999, where the search for the least time starts

INT_MIN           == -2147483647 - 1
INT_MAX           == 2147483647
PAGE_TABLE_LENGTH == 1024
PAGE_SIZE         == 4096  \* 2^12, what PAGE_OFFSET_MASK leaves
MAX_FRAME_COUNT   == 1000

ASSUME ParamsAssumption ==
  /\ VirtualAddresses \subseteq INT_MIN .. INT_MAX
  /\ \A r \in VirtualRegions : r.base \in Int /\ r.past_end \in Int
  /\ NumOfFrames \in 0 .. MAX_FRAME_COUNT
  /\ ReplacementAlgorithm \in {"LRU", "FIFO"}
  /\ InputLength \in Nat
  /\ FarFuture \in Nat

VARIABLES
  taken,           \* the frames whose taken flag is set
  frame, valid, page_in_time, last_used_time,  \* the page table entries
  results,         \* the rounds so far; t is their number
  outcome          \* how the program stands

tableVars == <<taken, frame, valid, page_in_time, last_used_time>>
vars      == <<tableVars, results, outcome>>

-----------------------------------------------------------------------------
(* Addresses.  A mask takes the low bits of an int in two's complement,    *)
(* and the masked value is unsigned.                                       *)

(* Mutant: an offset mask one bit too wide.                                *)
WideOffset(virt_addr) ==
  [ outer_index |-> (virt_addr \div (PAGE_TABLE_LENGTH * PAGE_SIZE)) % PAGE_TABLE_LENGTH,
    inner_index |-> (virt_addr \div PAGE_SIZE) % PAGE_TABLE_LENGTH,
    page_offset |-> virt_addr % (2 * PAGE_SIZE) ]

get_logical_address(virt_addr) ==
  [ outer_index |-> (virt_addr \div (PAGE_TABLE_LENGTH * PAGE_SIZE)) % PAGE_TABLE_LENGTH,
    inner_index |-> (virt_addr \div PAGE_SIZE) % PAGE_TABLE_LENGTH,
    page_offset |-> virt_addr % PAGE_SIZE ]

get_physical_address(frame_index, frame_offset) ==
  frame_index * PAGE_SIZE + frame_offset

PageOf(a) == LET logical == get_logical_address(a)
             IN  <<logical.outer_index, logical.inner_index>>
Pages     == { PageOf(a) : a \in VirtualAddresses }
Frames    == 0 .. NumOfFrames - 1

is_virtual_address_in_range(a) ==
  \E r \in VirtualRegions : r.base <= a /\ a < r.past_end

-----------------------------------------------------------------------------
Init ==
  /\ taken = {}
  /\ frame = [p \in Pages |-> -1]
  /\ valid = [p \in Pages |-> FALSE]
  /\ page_in_time = [p \in Pages |-> -1]
  /\ last_used_time = [p \in Pages |-> -1]
  /\ results = <<>>
  /\ outcome = "running"

Now == Len(results) + 1

(* Mutant: the taken flags are not looked at.                              *)
IgnoresTaken(f) == f = 0

find_first_free_frame(f) ==
  f \notin taken /\ \A g \in 0 .. f - 1 : g \in taken

(* p is what a scan for the least `time' ends with.  No two valid pages    *)
(* have the same time, so the order of the scan does not matter.           *)
IsEarliest(p, time) ==
  /\ valid[p] /\ time[p] < FarFuture
  /\ \A q \in Pages : valid[q] => time[p] <= time[q]

get_fifo_page(p) == IsEarliest(p, page_in_time)
get_lru_page(p)  == IsEarliest(p, last_used_time)

(* Mutants: one algorithm, whatever was asked for.                         *)
AlwaysFifo(p) == get_fifo_page(p)
AlwaysLru(p)  == get_lru_page(p)

(* A number on the command line that is neither ends the program with 1 at *)
(* its first victim; ParamsAssumption excludes it.                         *)
get_victim_page(p) ==
  IF ReplacementAlgorithm = "FIFO" THEN get_fifo_page(p) ELSE get_lru_page(p)

Result(a, f, fault) ==
  [ virtual_address   |-> a,
    physical_address  |-> get_physical_address(f, get_logical_address(a).page_offset),
    caused_page_fault |-> fault,
    unused_memory_access_exception |-> FALSE ]

-----------------------------------------------------------------------------
(* One round of the loop, by what becomes of address a.                    *)

access_unused(a) ==
  /\ ~ is_virtual_address_in_range(a)
  /\ results' = Append(results,
       [ virtual_address   |-> a, physical_address |-> -1,
         caused_page_fault |-> FALSE, unused_memory_access_exception |-> TRUE ])
  /\ UNCHANGED <<tableVars, outcome>>

(* Mutant: the use of a page renews its load time as well.                 *)
RenewsLoad(a) ==
  /\ is_virtual_address_in_range(a)
  /\ valid[PageOf(a)]
  /\ last_used_time' = [last_used_time EXCEPT ![PageOf(a)] = Now]
  /\ page_in_time' = [page_in_time EXCEPT ![PageOf(a)] = Now]
  /\ results' = Append(results, Result(a, frame[PageOf(a)], FALSE))
  /\ UNCHANGED <<taken, frame, valid, outcome>>

access_valid(a) ==
  /\ is_virtual_address_in_range(a)
  /\ valid[PageOf(a)]
  /\ last_used_time' = [last_used_time EXCEPT ![PageOf(a)] = Now]
  /\ results' = Append(results, Result(a, frame[PageOf(a)], FALSE))
  /\ UNCHANGED <<taken, frame, valid, page_in_time, outcome>>

Faults(a) == is_virtual_address_in_range(a) /\ ~ valid[PageOf(a)]

(* Mutant: a load does not count as a use.                                 *)
LoadIsNoUse(a, f) ==
  LET p == PageOf(a)
  IN  /\ taken' = taken \cup {f}
      /\ frame' = [frame EXCEPT ![p] = f]
      /\ page_in_time' = [page_in_time EXCEPT ![p] = Now]
      /\ results' = Append(results, Result(a, f, TRUE))
      /\ UNCHANGED <<last_used_time, outcome>>

(* Page in: a's page gets frame f.                                         *)
page_in(a, f) ==
  LET p == PageOf(a)
  IN  /\ taken' = taken \cup {f}
      /\ frame' = [frame EXCEPT ![p] = f]
      /\ page_in_time' = [page_in_time EXCEPT ![p] = Now]
      /\ last_used_time' = [last_used_time EXCEPT ![p] = Now]
      /\ results' = Append(results, Result(a, f, TRUE))
      /\ UNCHANGED outcome

fault_with_free_frame(a) ==
  /\ Faults(a)
  /\ \E f \in Frames : find_first_free_frame(f) /\ page_in(a, f)
  /\ valid' = [valid EXCEPT ![PageOf(a)] = TRUE]

NoFreeFrame == \A f \in Frames : ~ find_first_free_frame(f)

(* Mutant: the victim stays valid.                                         *)
KeepsVictim(victim, a) ==
  /\ valid' = [valid EXCEPT ![PageOf(a)] = TRUE]
  /\ page_in(a, frame[victim])

Evict(victim, a) ==
  /\ valid' = [valid EXCEPT ![victim] = FALSE, ![PageOf(a)] = TRUE]
  /\ page_in(a, frame[victim])

fault_with_victim(a) ==
  /\ Faults(a) /\ NoFreeFrame
  /\ \E victim \in Pages : get_victim_page(victim) /\ Evict(victim, a)

(* No valid page is earlier than FarFuture: min_page is uninitialised, and *)
(* holds what an earlier call left on the stack, the address of any page   *)
(* that had a frame ...                                                    *)
fault_with_wild_victim(a) ==
  /\ Faults(a) /\ NoFreeFrame
  /\ ~ \E p \in Pages : get_victim_page(p)
  /\ \E victim \in Pages : frame[victim] # -1 /\ Evict(victim, a)

(* ... or an address that faults, here or in the debug output, which looks *)
(* at the pages of both algorithms.                                        *)
fault_with_wild_pointer(a) ==
  /\ Faults(a) /\ NoFreeFrame
  /\ \/ ~ \E p \in Pages : get_fifo_page(p)
     \/ ~ \E p \in Pages : get_lru_page(p)
  /\ outcome' = "segv"
  /\ UNCHANGED <<tableVars, results>>

run_paging_simulation(a) ==
  /\ outcome = "running" /\ Len(results) < InputLength
  /\ \/ access_unused(a) \/ access_valid(a)
     \/ fault_with_free_frame(a) \/ fault_with_victim(a)
     \/ fault_with_wild_victim(a) \/ fault_with_wild_pointer(a)

(* One line for each result, unless the output file does not open.         *)
print_paging_results ==
  /\ outcome = "running" /\ Len(results) = InputLength
  /\ outcome' \in {"printed", "failed"}
  /\ UNCHANGED <<tableVars, results>>

Terminated == outcome # "running" /\ UNCHANGED vars

Next ==
  \/ \E a \in VirtualAddresses : run_paging_simulation(a)
  \/ print_paging_results
  \/ Terminated

Spec == Init /\ [][Next]_vars

-----------------------------------------------------------------------------
(***************************************************************************)
(* Properties.  All but the type invariant are promises for runs that end  *)
(* before FarFuture.                                                       *)
(***************************************************************************)

ResultSet == [ virtual_address   : VirtualAddresses,
               physical_address  : -1 .. NumOfFrames * PAGE_SIZE - 1,
               caused_page_fault : BOOLEAN,
               unused_memory_access_exception : BOOLEAN ]

(* Every variable, and every address in the output, stays in its range.    *)
TypeOK ==
  /\ taken \subseteq Frames
  /\ frame \in [Pages -> Frames \cup {-1}]
  /\ valid \in [Pages -> BOOLEAN]
  /\ page_in_time \in [Pages -> Int]
  /\ last_used_time \in [Pages -> Int]
  /\ results \in Seq(ResultSet)
  /\ outcome \in {"running", "segv", "printed", "failed"}

InTime == Len(results) <= FarFuture

(* Every taken frame belongs to exactly one valid page: no two pages share *)
(* memory, and a replacement loses no frame.                               *)
FrameOwnership ==
  InTime =>
    /\ taken = { frame[p] : p \in { q \in Pages : valid[q] } }
    /\ \A p, q \in Pages : valid[p] /\ valid[q] /\ frame[p] = frame[q] => p = q

Mapped(i)  == ~ results[i].unused_memory_access_exception
PageAt(i)  == PageOf(results[i].virtual_address)
FrameAt(i) == results[i].physical_address \div PAGE_SIZE
Fault(i)   == results[i].caused_page_fault

(* What the output says makes sense to the process that sees it: an access *)
(* without a fault goes to the frame the page had at an earlier access,    *)
(* and no other page has used that frame in between.                       *)
OutputConsistent ==
  InTime =>
    \A j \in DOMAIN results : Mapped(j) /\ ~ Fault(j) =>
      \E i \in 1 .. j - 1 :
        /\ Mapped(i) /\ PageAt(i) = PageAt(j) /\ FrameAt(i) = FrameAt(j)
        /\ \A k \in i + 1 .. j - 1 :
             Mapped(k) /\ FrameAt(k) = FrameAt(j) => PageAt(k) = PageAt(j)

(* The definition of the two algorithms, on the output alone.  FIFO still  *)
(* has a page if fewer than NumOfFrames others were loaded after it; LRU   *)
(* if fewer than NumOfFrames other pages were referenced after it.         *)
StillThere(j) ==
  \E i \in 1 .. j - 1 :
    /\ Mapped(i) /\ PageAt(i) = PageAt(j)
    /\ \/ /\ ReplacementAlgorithm = "FIFO" /\ Fault(i)
          /\ Cardinality({ k \in i + 1 .. j - 1 : Fault(k) }) < NumOfFrames
       \/ /\ ReplacementAlgorithm = "LRU"
          /\ Cardinality({ PageAt(k) : k \in { l \in i + 1 .. j - 1 : Mapped(l) } })
               < NumOfFrames

(* The program faults exactly where the definition of its algorithm does.  *)
FaultsAsDefined ==
  InTime => \A j \in DOMAIN results :
              Mapped(j) => (Fault(j) <=> ~ StillThere(j))

LeavingTime(p) ==
  IF ReplacementAlgorithm = "LRU" THEN last_used_time[p] ELSE page_in_time[p]

LeavesBefore(p, q) == LeavingTime(p) < LeavingTime(q)

Resident == { p \in Pages : valid[p] }

LeavingOrder ==
  { pair \in Resident \X Resident : LeavesBefore(pair[1], pair[2]) }

Replacement == INSTANCE PageReplacement WITH
  Capacity <- NumOfFrames,
  Refresh  <- ReplacementAlgorithm = "LRU",
  resident <- Resident,
  order    <- LeavingOrder

(* The page table with its frames and times implements PageReplacement, in *)
(* every round up to FarFuture.                                            *)
ImplementsReplacement ==
  Replacement!Init /\ [][InTime' => Replacement!Next]_(Replacement!vars)

-----------------------------------------------------------------------------
(* The inductive invariant.                                                *)

(* The times of a valid page are the rounds of its load and its last use,  *)
(* which used its frame, and no other page has used that frame since.      *)
PageTimesMatch(p) ==
  /\ page_in_time[p] \in 1 .. last_used_time[p]
  /\ last_used_time[p] \in DOMAIN results
  /\ Mapped(last_used_time[p])
  /\ PageAt(last_used_time[p]) = p
  /\ FrameAt(last_used_time[p]) = frame[p]
  /\ \A k \in last_used_time[p] + 1 .. Len(results) :
       Mapped(k) => FrameAt(k) # frame[p]

TimesMatchResults ==
  InTime => \A p \in Pages : valid[p] => PageTimesMatch(p)

LoadTimesDiffer ==
  InTime => \A p, q \in Pages :
    valid[p] /\ valid[q] /\ page_in_time[p] = page_in_time[q] => p = q

(* A page that was ever loaded has the number of a frame, and keeps it     *)
(* when it is evicted: a valid page is one of them.                        *)
ValidHasFrame == \A p \in Pages : valid[p] => frame[p] \in Frames

TableInv ==
  /\ TypeOK
  /\ FrameOwnership
  /\ OutputConsistent
  /\ TimesMatchResults
  /\ LoadTimesDiffer
  /\ ValidHasFrame

(* The rounds that put their page behind all others in the leaving order.  *)
MovesBack(k) == IF ReplacementAlgorithm = "LRU" THEN Mapped(k) ELSE Fault(k)

(* The time by which a valid page leaves is the last such round of the     *)
(* page.  A page that had such a round and is gone left a full memory, and *)
(* before every page that is still there; under FIFO a page that is there  *)
(* has had no such round but its load, or had it that long ago.            *)
LastMove(p) ==
  /\ LeavingTime(p) \in DOMAIN results
  /\ MovesBack(LeavingTime(p)) /\ Mapped(LeavingTime(p))
  /\ PageAt(LeavingTime(p)) = p
  /\ \A k \in DOMAIN results : MovesBack(k) /\ PageAt(k) = p => k <= LeavingTime(p)

StaysFor(k) ==
  /\ PageAt(k) \in Resident
  /\ ReplacementAlgorithm = "LRU" \/ k = LeavingTime(PageAt(k))

LeftBefore(k) == taken = Frames /\ \A q \in Resident : k < LeavingTime(q)

MovesMatchTable ==
  InTime =>
    /\ \A p \in Resident : LastMove(p)
    /\ \A k \in DOMAIN results : MovesBack(k) => StaysFor(k) \/ LeftBefore(k)

IInv == TableInv /\ MovesMatchTable /\ FaultsAsDefined
=============================================================================
