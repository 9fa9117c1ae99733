# Verification of the cs342 programs

TLA+ models, model-checking runs and machine-checked proofs for the programs of
this repository: four operating-systems projects (`proj01` ... `proj04`) and a
warm-up exercise (`hw01`). The programs are independent of each other. They
share no code, and the only state that outlives a process is the POSIX message
queue of `proj01`.

TLC (the model checker) explores a small instance completely; TLAPS (the proof
system) proves a theorem for every value of the constants. Definitions carry the
names of the functions they model.

## 1. Inventory

### proj02: `cfs`, a multithreaded CFS simulation
Components: main (`main.c`), the scheduler thread (`scheduler.c`), the generator
thread (`generator.c`), one thread per simulated process (`process.c`), the
runqueue and the CFS arithmetic (`cfs.c`), and the workload
(`workload_params.c`, `utility.c`).

* **State.** The runqueue (a linked list of PCBs, head first, and a `count`
  field), the flags `have_running_process` and `waiting_for_new_process`,
  `remaining_process_count`, the PCBs (length, priority, CPU time, virtual
  runtime, state), `stats_array`; the mutexes `mutex_runqueue`,
  `mutex_need_scheduling` and one per PCB; the condition variables
  `cond_var_need_scheduling` and one per PCB.
* **Operations.** The scheduler waits until nobody runs, picks the PCB of least
  virtual runtime and signals it. The generator creates processes. A process adds
  itself to the runqueue, announces itself to the scheduler, waits to be RUNNING,
  leaves the queue, sleeps for its slice, gives the CPU back, and in the end
  sends its statistics. main joins the scheduler and the generator, prints the
  table and returns.
* **Interaction.** Everything is shared memory. Two locks are nested in both
  orders (`scheduler.c:52-60` takes a PCB mutex under `mutex_need_scheduling`,
  `process.c:54` the reverse); a PCB is used after the lock that protected the
  list is released (`scheduler.c:54`); two variables are accessed without a lock
  (`remaining_process_count` and, through `get_runqueue_item_count`, `count`);
  the scheduler tears everything down while processes are still about.
* **The workload.** `parse_arguments` takes three distributions from the command line
  or a list of processes from a file; an iterator draws from the former or walks the
  latter for the generator. Hard: the number of draws of the exponential distribution
  is not bounded, two divisions depend on the range, a line without an inter-arrival
  time must not take the next line with it, a file without processes leaves a pointer
  unset.
* **Correct when** one process at a time has the CPU, it is the one of least virtual
  runtime, no wakeup is lost, nobody waits forever, each process gets exactly what it
  asked for, no process has a burst to come when the shared structures are destroyed,
  nobody reads them afterwards, and the table shows everybody; and when what is drawn lies
  in its range, and what is read from a file arrives complete and in order.

### proj03: `pagesim`, demand paging with FIFO and LRU replacement
Components: the simulation (`paging.c`), the parameters and the address iterator
(`params.c`), random numbers (`utility.c`), the output (`main.c`).

* **State.** A two-level page table (frame, valid, `page_in_time`,
  `last_used_time` for each page), the `taken` flags of the frames, the result of
  each reference.
* **Operations.** One reference: range check, split of the address, page fault
  with a free frame or with a victim, update of the times, physical address.
  `params.c` reads regions and addresses from two files, or makes one region and draws
  random addresses in it.
* **Interaction.** Sequential; the components meet in `param_store` and in the
  iterator, and the size of the result store is computed apart from what the iterator
  yields.
* **Hard.** Long sequences of references: an evicted page keeps its frame number
  and its times, the order of replacement exists only in those times, and the
  search for a victim starts from the number 999999. Addresses are read as longs and
  kept as signed ints. A file without addresses leaves a pointer unset.
* **Correct when** no two pages share a frame, none is lost, a page is read from
  the frame it was loaded into, the faults are those of FIFO or LRU, every address of
  the input has its result, and the cast moves no address in or out of a region.

### proj01: `pword` and `tword`, counting words with processes and with threads
Components: the word arrays and the file parser (`common.c`), `pword.c` (children,
parent, message queue), `tword.c` (threads, slots).

* **State.** `pword`: the message queue, the array of each child and its position
  in it, the parent's total and its number of completed children. `tword`:
  `sub_arrays`, one slot per thread, and the total.
* **Interaction.** `pword`: bounded FIFO messages; the queue has a name in the
  system and outlives an interrupted run. `tword`: shared memory and joins.
* **Hard.** Messages of several children interleave; senders block on a full queue
  and the receiver on an empty one; a child may fail; a run may be interrupted.
* **Correct when** the output counts every occurrence exactly once, the parent
  stops after the last message and not before, and the program ends.

### proj04: `diskprint`, the root directory of an ext2 image
Components: `main.c` and `dir_entry_list.c`.

* **State.** One buffer that holds the block read last; copies of the superblock, the
  first group descriptor and the root inode; the position in the directory; the list of
  its entries.
* **Operations.** Read the three structures, walk over the entries of the directory and
  keep those in use, then look up and print the inode of each.
* **Interaction.** Sequential; everything goes through the one buffer.
* **Hard.** Every look-up overwrites the buffer that other data came from; the position
  counts bytes of the directory, the blocks have numbers; the size of an inode comes
  from the image, the size of the structure from the compiler; the offset of a block is
  computed in an int.
* **What it promises.** The entries at the front of the directory's first block, up to the
  first unused one, are listed once each, with the inode each names. Entries behind a
  deleted one and in further blocks are not listed (section 5).

### hw01: a binary search tree
`tree.c` draws all numbers below 1000 in random order, inserts each into a tree, prints
the tree in order and frees it.

* **State.** The nodes and their two pointers, the table of numbers drawn.
* **Hard.** Insertion is a loop of comparisons; a wrong turn or an overwritten pointer
  loses a subtree.
* **Correct when** each traversal shows every number inserted, in ascending order.

### Coverage

| component | source | modules | status |
|---|---|---|---|
| cfs threads | proj02 scheduler, process, generator, main | Scheduler, CpuScheduling | modelled |
| cfs runqueue and slices | proj02 cfs | Cfs | modelled |
| cfs workload and randomness | proj02 workload_params, utility | WorkloadParams, Utility | modelled |
| pagesim simulation | proj03 paging, main | Paging, PageReplacement | modelled |
| pagesim parameters | proj03 params, utility | PagingParams, Utility | modelled |
| pword | proj01 pword | PWord | modelled |
| tword | proj01 tword | TWord | modelled |
| word arrays | proj01 common | WordCounts | partly (see section 5) |
| diskprint | proj04 | Ext2Dir | modelled |
| binary tree | hw01 | Bst | modelled |

## 2. Modules

| module | what it is |
|---|---|
| `Cfs` | operators of `cfs.c`: the list, its minimum, weights, slices, virtual runtimes |
| `Scheduler` | all threads of `cfs` as one state machine; properties; inductive invariant |
| `CpuScheduling` | abstract: one CPU handed out in turns that serve a demand |
| `SchedulerProofs`, `SchedulerRefinement` | the theorems about them |
| `Paging` | the loop of `run_paging_simulation`; properties; inductive invariant |
| `PageReplacement` | abstract: a set of resident pages and the order in which they leave |
| `PagingProofs` | the theorems about them |
| `Utility` | the random distributions of proj02 and proj03 |
| `WorkloadParams` | the parameters of `cfs` and the iterator of its processes |
| `PagingParams` | the parameters of `pagesim` and the iterator of its addresses |
| `InputProofs` | the theorems about these three |
| `WordCounts` | the word arrays of `common.c`, and what the counts should be |
| `PWord`, `TWord` | the two word counters |
| `WordCountsProofs` | what the array operations and the parser do to the count of a word |
| `PWordProofs`, `TWordProofs` | the theorems about the queue, the counts and the end of `pword`, and about the slots and the counts of `tword` |
| `Ext2Dir` | `diskprint` on an image |
| `Bst` | the tree of hw01 |
| `ListingProofs` | the theorems about these two |
| `MCScheduler`, `MCPaging`, `MCPWord`, `MCTWord` | workloads and inputs for TLC |
| `MCPrograms` | inputs and images of the sequential programs for TLC; a behaviour runs one of them |

Definitions introduced by a comment `Mutant:` are not part of a specification.
Each is a plausible bug in the definition that follows it, and `PROJECT.json`
names the property that must fail when it takes that definition's place.

### How `Scheduler` corresponds to the code

* **Granularity.** An action is the code from one blocking point or unlocked
  access of a thread to the next. A critical section that does not block is one
  action. `mutex_runqueue` is always innermost and never held across a blocking
  call, so it shows only as `valid` or `destroyed`. `mutex_need_scheduling`, held by
  the scheduler while it takes other locks, and the PCB mutexes, held through a
  whole burst, are variables with owners.
* **Condition variables.** A waiting thread is at pc `waiting`; a signal moves it to
  `relock`, where it competes for the mutex and then tests its condition again. With
  `SpuriousWakeups` it may also move by itself.
* **Undefined behaviour.** Locking a destroyed mutex returns EINVAL in the C library the
  programs are built with, nobody looks at the result, and the thread goes on without the
  lock. From then on the sections of `mutex_runqueue` exclude each other no more: two
  threads that are about to enter theirs may corrupt the list, and either of them may come
  to `segv` (`SectionsOverlap`). Using the runqueue behind a freed or NULL pointer is
  `segv` too, except for the generator, which only reads a count: what it reads from freed
  memory is any number. A process whose pid exceeds `total_process_count` stores its
  statistics behind the end of `stats_array`: no reader of the table sees them, and what
  they overwrite is not modelled. A row of the table whose process has sent nothing is
  uninitialised memory, which `printed` does not contain.
* **Time.** `usleep` only delays. Every interleaving of the threads is allowed, so
  every duration is covered.
* **Arithmetic.** The code computes slices and virtual runtimes in doubles; `Cfs`
  uses integers: virtual runtime in units of 1/`VruntimeScale` ms, chosen so that
  every division is exact (`ScaleAssumption`). Rounding of doubles is not modelled.
  `Timeslice` is a constant operator, `runqueue_timeslice` in every run, so the theorems
  hold for any policy that yields positive slices.
* **Left out.** The values of the statistics, the debug output, the table's layout.
* `Terminated` lets a program that has ended stutter, so that TLC's deadlock check
  finds exactly the states where threads wait for each other forever.

### How `Paging` corresponds to the code

The program is sequential, and a step is one round of the loop, one disjunct per
path through it. The index of a round, `t`, is the length of `results`, which is
never shortened, as in the code; it also serves as the history the properties are
stated on. `VirtualAddresses` is what the iterator of `PagingParams` may yield, as signed
C ints; `\div` and `%` floor, which is what mask
and shift do to a two's complement number. The page table has an entry for every
page the input can name; the other entries are never valid and no scan selects them.
`FarFuture` is the literal 999999 of the two scans, a constant so that a run can
reach it. Beyond it no page is early enough and `min_page` is uninitialised: it
holds what an earlier call left on the stack (any page that once had a frame) or an
address that faults. `utility.h` defines `DEBUG_LOG`, so the victims of both
algorithms are dereferenced, whichever is asked for.

### How `PWord` and `TWord` correspond to the code

`PWord` has one process per file and the parent; `mq` is the queue. An action is one
blocking call with the code up to the next one: a message of a child is packed and
sent in one step, a message is received and its pairs added in one step. `run_again`
starts the program anew at any time, as after a kill: it keeps the queue unless it
was unlinked. `stale` is a history variable that remembers whether a run found
messages of an earlier one; what a run promises it promises if it did not. A run with
a stale queue uses the same files and message size as the run before. Words are model
values with a length; `str_toupper` maps each to its upper-case form. `fopen` may
fail for any input file (`OpenMayFail`) and `fork` for any child (`ForkMayFail`).
Allocation sizes, the order of the output lines (`qsort`) and failures of `mq_open`,
`mq_send` and `mq_receive` are left out. In `TWord` each thread reads its index from
its argument, parses its file into its slot and ends; main joins all of them, then
adds the slots up. A slot nobody filled is a NULL pointer (`segv`).

### How the input modules correspond to the code

`WorkloadParams` and `PagingParams` start before the parameters are read, so that one
behaviour is a run on one command line or one pair of files. A scan with `fscanf` is a
step; what it tells apart is whether the next token is a `PL` line, an `IAT` line or
something else. The lists are the sequences of their nodes, a cursor is an index, and
NULL the index behind the end. A list without nodes starts with a pointer nobody set: it
may happen to be NULL, otherwise it is `wild`, and where the code follows it the model
stops in `undefined` (`pagesim` does so right after parsing, because `DEBUG_LOG` makes
it print the lists). A division by zero is `sigfpe`.

`Utility` keeps what the code can tell apart of a random real: whole numbers and which
half between two of them a draw falls into. A draw is counted in thirds: 3n is n, 3n + 1
lies below n + 1/2, 3n + 2 from n + 1/2 on. The comparison with the range comes before the
rounding, as in the code. `RAND_MAX` and `LogReach`, the greatest value of
-log(1 - u), are constants. So is `IntHalf`, half the number of values of an int: sums and
differences of ints wrap around (`WrapInt`), which is what the build does with them. The
width of an ordered range may therefore be no positive number: from -1 to INT_MAX it is
-INT_MAX, the bucket is 0 and the code divides by zero. `strtol` followed by the cast to
int wraps too (`AsInt`).

### How `Ext2Dir` and `Bst` correspond to the code

An image is an ext2 file system whose first 1024 bytes are zeros; sizes count units of 128
bytes, the size of the inode structure. Blocks are known by their numbers, and `EntryIn`
and `InodeIn` say what the bytes of a block mean, so that data overwritten in the buffer
is really gone. A read behind the end of the image leaves the buffer as it is, and any
read may fail and end the program (`read_fails`). From block `SeekLimit` on, at 2 GiB, the
offset of a block is no int: the product wraps around to another offset, or to a negative
one with which `lseek` fails, and the read may yield any block of the image. Block 0 read
as a directory begins with an entry of inode 0. Inodes are looked up in the table of the
first block group, as in the code, and the directories of the run name inodes of a later
group too. Of the structures only the fields that steer the program are kept.
`s_inode_size` is 0 in file systems of revision 0, and the code divides by it.
`DisksAssumption` says what an ext2 image is: the superblock lies in block 0 and the group
descriptors in block 1, so the inode table comes behind both; the first group has the root
inode; the entries of a directory block follow each other and fill it.

In `Bst` an insertion goes one comparison at a time from the root to the place of the
new node. Only a number that is not yet in the tree is a step: one drawn twice is
thrown away. Freeing is a single step. `traverse_inorder` returns what the recursive calls
print, as a function on the levels below the node; a tree has no more levels than numbers.

## 3. Runs

| run | instance | checks |
|---|---|---|
| `sched_safety` | 3 processes of two weights, each one or two slices | type invariant; `MutualExclusion`, `CpuAccounting`, `RunqueueMatchesThreads`, `SelectionStaysValid`, `NoLostWakeup`, `ServedExactly`, `TeardownAfterLastBurst`, `GrantsLeastVruntime`; no deadlock |
| `sched_progress` | 2 processes, one or two slices, spurious wakeups, fair threads | `ImplementsCpu`, `QueuedEventuallyRuns`, `EventuallyReturns` |
| `sched_mismatch` | 3 processes, some empty, `total_process_count` 2 | `IInv` while the scheduler tears down under live processes; `TeardownNeedsTotal` |
| `sched_table` | 2 processes | finds `TableComplete` violated |
| `sched_limit` | 2 processes, limit 1 | finds `LimitRespected` violated |
| `sched_teardown` | 2 processes | finds `PollsNoFreedRunqueue` violated |
| `paging_fifo` | 2 frames, every input of up to 7 addresses on four pages, `FarFuture` 5 | `FrameOwnership`, `FaultsAsDefined`, `ImplementsReplacement` up to that time; `IInv` before and after the scans for a victim fail |
| `paging_lru` | 3 frames, every input of up to 7 addresses on five pages | `OutputConsistent`, `FaultsAsDefined`, `ImplementsReplacement` |
| `pword` | 3 files (one split over messages, one empty), queue of 2, up to 3 runs | type invariant, `CountsExactUnlessSplit`, `NothingLeftBehind`, `EndMarkersAddUp`, `EndedRunsCleanUp`, `ParentReturns` |
| `pword_split` | 2 files of more than one message | finds `CountsExact` violated |
| `tword` | 4 files, 4 threads | type invariant, `SlotsAreOwned`, `CountsExact`, `Returns`; no deadlock |
| `programs` | 7-bit ints; 13 command lines, every workload file of up to 4 tokens, 21 random inputs and 32 pairs of address files; trees of 7 numbers in every order; 126 images | `DrawnInRange`, `LinesInOrder`, `DrawsEnd`, `LengthAgrees`, `RandomAddressesMapped`, `AddressesKeepTheirPlace`, `TraversalSorted`, `ListsDirectory`, `InodesMatch`; no deadlock |

**Why the bounds are enough.** *Scheduler*: two processes compete, the third arrives in
the middle of every step of the other two; two weights make virtual runtimes differ,
and lengths of one and two slices (depending on who waits) bring every process back
to the queue. All inputs are bounded by themselves, so no counter is cut off. *Paging*:
seven references fill the memory, evict, bring an evicted page back into another frame
and still use it there (with two frames they evict it a second time); the mutants show
that sequences of that length tell FIFO from LRU. With `FarFuture` 5 the last two of them
come after the time the scans start from. *PWord*: a queue of two makes senders wait while
three of them compete; three runs let an interrupted run disturb a second one, and
show what that one leaves to a third. Its messages hold up to three pairs; the message
with room for one, with which a child never ends, is left to the theorem
`OnePairIsSentForEver`. *Programs*: ints of seven bits, of which `RAND_MAX` is the
greatest (63), have ranges of every kind: exchanged, too wide to be covered, so wide that
their width overflows (to a divisor of 0, a bucket of 0 and a negative bucket), and
exponential ones below, around, above and out of reach of the draws; four lines are enough
for a process with and without its time, before and behind another and behind a line that
ends the scan; the addresses lie on both sides of the sign. Seven numbers make
every shape of a tree of three levels and every path; blocks of four units hold four
entries, the images are cut off in each structure the program reads, and two blocks of the
largest, one of inodes and one of a directory, are beyond what an int offset
reaches.

**Deadlock** is checked in all passing runs but two: in `sched_mismatch` the workload and
the count disagree and the scheduler may wait forever for a process that never
notifies its end; in `pword` a child whose file does not open sends no end marker and
the parent waits forever. (A child with a message for one pair does not block but sends
without end, so that it would not show as a deadlock.) `ParentReturns` states these two
cases, and that no other keeps `pword` from its end.

**Fairness.** Each thread or process that can go on eventually does (weak fairness).
In `Scheduler` a thread waiting for a mutex that others keep taking and releasing gets
it in the end (strong fairness on the lock acquisitions): with a mutex that starves a
waiter forever nothing could be promised. Wakeups without a signal are not fair: the
program may not rely on them. `PWord` needs only weak fairness, since every sender has
finitely many messages. In `TWord` every thread is weakly fair. In `WorkloadParams` the
program runs on, and the rejection loop of an exponential draw ends only where each
round may be the last: `LikelyDraw` is fair where an interval below the average lies in
the range (`DrawsOften`), since it then has a probability that does not depend on the
round; elsewhere the loop may go on for ever.

**What the runs found** (details under `findings` in `PROJECT.json`).
`sched_table`: main joins no process thread, so the table and its average can be
printed before the last process has sent its statistics. `sched_limit`: `rq->count` is
never updated, so the runqueue limit never holds the generator back. `sched_teardown`:
`get_runqueue_item_count` tests whether the runqueue is gone, but the pointer becomes NULL
only after the runqueue is freed and after the mutex around the test is destroyed, so the
generator's last poll may read freed memory. `pword_split`: a
pair that does not fit steps the loop back by one pair too many, so the pair before it
is sent and counted twice; if a message holds one pair only, the child never ends
(`OnePairIsSentForEver`). Without a run of its own, since nothing in the repository
promises otherwise: the width of a uniform range is an int, so a range like -1 to INT_MAX
divides by zero or is left (`DrawnInRange` and `DrawsStayInRange` are about ranges that
fit).

## 4. Proofs

Eight modules hold theorems, all checked by TLAPS to the last step. Assumptions are the
named `ASSUME`s of the modules (`CountAssumption`, `ParamsAssumption`, `ScaleAssumption`
and `TimesliceAssumption` of Scheduler; `ParamsAssumption` of Paging; `RandAssumption`,
`WorkloadAssumption` and `InputAssumption` of the input modules; `CliAssumption` of
PWord and of TWord; `DisksAssumption` of Ext2Dir and `NodeCountAssumption` of Bst), which TLC
evaluates in the runs, and the hypotheses stated in the theorems. Every invariant and
action property that a passing run checks is stated by a theorem.

| theorem | statement |
|---|---|
| `SchedulerProofs!Invariance` | `Spec => []IInv` for every number of processes, workload and slice policy |
| `SchedulerProofs!TypeCorrect`, `OneOwner`, `FlagIsTrue`, `QueueIsExact`, `NoStaleSelection`, `WakeupsArrive`, `DemandIsServed`, `LeastIsGranted` | the invariants of `sched_safety` and the action property `GrantsLeastVruntime` |
| `SchedulerRefinement!Refinement` | `Spec => ImplementsCpu` |
| `SchedulerProofs!TotalIsServed` | whatever the workload, the teardown comes after `TotalProcessCount` processes were served in full |
| `SchedulerProofs!BurstsEndBeforeTeardown` | with exactly `TotalProcessCount` processes, every process thread has ended its last burst before the teardown begins; the generator's poll and the last process's `mutex_need_scheduling` are not part of it |
| `SchedulerProofs!AddPcb`, `RemovePcb`, `SliceIsLongEnough` | the list operations keep each pid once; a slice is at least `MIN_GRANULARITY` |
| `PagingProofs!Invariance`, `TypeCorrect`, `FramesAreOwned`, `OutputIsConsistent` | `Spec => []IInv` and its parts, for every input, address space, number of frames and algorithm |
| `PagingProofs!FaultsAreDefined` | `Spec => []FaultsAsDefined`: up to time `FarFuture` exactly those references fault that fault by a definition of FIFO and LRU in terms of the past references alone |
| `PagingProofs!Refinement` | `Spec => ImplementsReplacement`: every step up to time `FarFuture` is a step of the abstract replacement |
| `PagingProofs!RefinementInTime` | inputs of at most `FarFuture` addresses implement all of `PageReplacement` |
| `InputProofs!EveryValueDrawn` | a uniform draw yields exactly the range, if a range of w numbers has w(w - 1) <= `RAND_MAX` |
| `InputProofs!DrawsStayInRange` | `WorkloadSpec => []DrawnInRange`, for ints of any width: exponential ranges, and uniform ones in order whose number of values is an int (`RangeFits`) |
| `InputProofs!FileArrivesInOrder` | `WorkloadSpec => []LinesInOrder`, for files of any length and content |
| `InputProofs!AddressInvariance`, `LengthsAgree`, `RandomInMemory`, `PlacesKept` | `InputSpec => []AddressInv`, and from it the three properties of the address input; `RandomInMemory` is about sizes that fit in an int |
| `PWordProofs!EndInvariance`, `MarkersAddUp`, `StopsAfterLastMessage`, `LeavesCleanQueue` | `Spec => []EndInv`, and from it `EndMarkersAddUp`, `NothingLeftBehind` and `EndedRunsCleanUp`, for every number of files, message size, queue length and number of runs |
| `TWordProofs!SlotInvariance`, `IndicesInRange`, `SlotsHaveOwners` | `Spec => []SlotInv`, and from it the type invariant and `SlotsAreOwned`, for every number of files |
| `WordCountsProofs!AddedCounts`, `ParsedCounts` | adding an array adds the count of each word; parsing a text gives each word the number of places it has in the text; one pair per word in either case |
| `TWordProofs!CountInvariance`, `CountsAreExact` | `Spec => []CountInv`, and from it `CountsExact`, for any files, number of threads and interleaving |
| `PWordProofs!TypeInvariance`, `QueueKeepsLimit` | `Spec => []TypeInv`, and from it `TypeOK`, for every content, message size and queue length |
| `PWordProofs!OnePairIsSentForEver` | a child that reaches a message with room for one pair, and has more, stays there until the program is started anew |
| `PWordProofs!CountingInvariance`, `CountsAreExactUnlessSplit` | `Spec => []CountingInv`, and from it `CountsExactUnlessSplit` |
| `ListingProofs!ListingInvariance`, `ListsTheDirectory`, `InodesAreThoseNamed` | `DiskSpec => []ListInv`, and from it `ListsDirectory` and `InodesMatch`, for images of up to 2 GiB |
| `ListingProofs!TreeInvariance`, `TraversalIsSorted` | `BstSpec => []TreeInv`, and from it `TraversalSorted`, for every number of nodes and order of insertion |

**Scheduler.** The safety properties are not inductive by themselves. `IInv` adds what
each control state says about locks and flags: who holds which mutex
(`LocksMatchControl`); that a RUNNING state belongs to a thread between its selection
and its burst (`StateMatchesControl`); that while the scheduler is told to wait, the
CPU is idle and everybody queued has its announcement still to make, and that a
selection is made only while nobody runs (`WaitingFlag`); and that the selected PCB is
the least of those announced (`SelectionIsLeast`), which survives the release of
`mutex_runqueue` because a newcomer stops at its announcement, where it needs the mutex
the scheduler holds. The proof goes through the actions one by one. The refinement maps
the pc and the state field to a phase (`Phase`); signalling a process is the abstract
`Dispatch`, `run_slice` is `Serve`, and everything else that is not an arrival, a
request, a yield or a departure stutters. The teardown needs a second invariant,
`CountIsExact`: `remaining_process_count` is the number of processes that have not
notified their end. It is proved with the cardinality theorems of the library. What it
yields is about process threads. The generator is outside of it, and
`PollsNoFreedRunqueue` fails.

**Paging.** `IInv` ties the page table to the history: the last use of a valid page is a
round of the results that used its frame, and no later round used that frame for another
page (`TimesMatchResults`); no two valid pages were loaded in the same round
(`LoadTimesDiffer`); a valid page has a frame (`ValidHasFrame`). From these follow that
output and memory agree (`OutputConsistent`), and that the least time belongs to one
page, so that the order of the scan does not matter. For the refinement, the taken
frames are in bijection with the valid pages, so that no free frame means a full memory,
and the order of leaving is the order of the times. `FaultsAsDefined` speaks
of the past references alone. `MovesMatchTable` is what connects it with the table: the time
of a page in memory is that of the last round that moved it back in the leaving order, and a
round that moved a page back either still stands for a page in memory or lies before the
times of all of them, with every frame taken. A reference faults exactly if the last round
that moved its page back is of the second kind.

**Inputs.** The draws are arithmetic: a range that fits in an int has a width that does not
wrap around (`Wrapping`, `BucketOfRange`); the quotient of `RAND_MAX` and the width, plus one,
times the width exceeds `RAND_MAX`, so no bucket reaches past the range, and with
w(w - 1) <= `RAND_MAX` no bucket at its end stays empty. Only a range that does not fit can
crash the program (`CrashNeedsMisfit`). `DrawInv` says which
distributions a program that draws can have. `AddressInv` says that what has been yielded
is the front of the list, or lies in the one region; `AsInt` is monotone on either half of
the address space, which is why a region within one half keeps its addresses. For the
workload files, `ListInv` says that the tokens scanned so far are whole lines, that the
list has one node for each of them, and that the iterator has yielded the front of it;
where the scan stops no line can follow.

**PWord.** `NothingLeftBehind` needs to know why the last end marker counted was the last
message of all: a child that has sent pairs still has its own marker to send
(`MarkerComesLast`), the markers counted, queued and to come are as many as the files
(`EndMarkersAddUp`), and the queue is first in, first out. With all of them counted no
child is left to send and no message can be the last of the queue. Only runs that found an
empty queue promise this (`~ stale`). `Unlinked` is all that `EndedRunsCleanUp` needs. For
the counts, `Balance` says that what the parent has of a word and what the queue holds add
up to what the children have sent, and `SentBounds` that each child has sent its pairs up
to the next one, each of them once or, if its file is split over messages, up to twice; a
file that goes into one message (`SentInOne`) has sent none of its pairs or each of them
once. The proofs follow the loop that fills a message and the one that empties it, pair by
pair.

**TWord.** `SlotInv` says that an argument holds the number of the thread it was made for
(`OwnArgument`), that threads are created and joined in the order of their files, and that
the filled slots are those of the threads that are done (`FilledSlots`). When main starts to
read, all are. `CountInv` adds that a filled slot holds the counts of its file and that the
total is what the files added so far say.

**Word arrays.** The operations are recursive functions on positions. What they yield is
shown by induction in a form that needs no operator as a parameter: a set that contains 0 and
the successor of each of its numbers contains all of them (`SetInduction`), for the set of
the positions up to which the statement holds. The places of a word in a text are counted by
the cardinality of the set of those seen so far.

**Listings.** `ListInv` says, for each place of the program, which block the buffer holds,
and that the offset is that of the entry behind the last one listed; since offsets ascend
within a block, an offset names one entry. Behind the last entry the program goes on into
block 0, whose first bytes end the loop. The tree has no invariant of its own state that
would do: `TreeInv` says that two bounds can be given to each node such that
the children of a node share out its range (`Split`), that a node with numbers on one side
has a child there (`Complete`), and that the ranges of two nodes are apart or one of them
lies on one side of the other node (`Nested`). The last is what a new leaf needs: no other
node has its number on an empty side. The traversal of a node then prints what lies between
its bounds, by induction on the width of the range.

**Only model-checked.** Liveness (`QueuedEventuallyRuns`, `EventuallyReturns`,
`ParentReturns`, `Returns`, `DrawsEnd`) and anything about ENABLED are beyond the prover,
and so is the absence of deadlock.

## 5. Not modelled, and why

* Of `common.c`: the sizes of allocations and the doubling of arrays, the order of the
  output lines (`qsort`), and most of the command line; what the program prints and where
  is left out everywhere. An array that grew would show nothing about the counts.
* `num_of_frames` above `MAX_FRAME_COUNT` and more than `MAX_IN_FILE_COUNT` files: the
  code reads or writes outside its arrays. The assumptions of the modules exclude it, as
  they exclude a replacement algorithm that is neither FIFO nor LRU, with which `pagesim`
  exits with 1 at its first victim (`paging.c:80`).
* Processes of an interrupted `pword` that outlive it: `run_again` assumes that all
  processes of a run have ended before the next one starts. After a failed `fork`
  (`pword.c:86`) the parent exits and its children go on, so one of them could send into
  the queue that a next run found empty.
* What the sections of two processes do to the runqueue once its mutex is destroyed, beyond
  `segv`, and what statistics behind the end of `stats_array` overwrite. Two processes are
  in their sections at that time only with two more lines in the workload file than
  `total_process_count` says; no run has as many, and only the theorems cover it.
* `populate_dir_entry_list` copies a whole entry structure (`proj04/src/main.c:163`), for
  the last entries of a block from beyond the end of the buffer; the bytes in excess lie
  behind the entry's name and are never printed.
* What `ListsDirectory` does not promise: entries behind an unused one, and directories of
  several blocks. It states what the code lists.
* What a program does after it has followed an uninitialised pointer.
* Floating-point rounding of virtual runtimes and of exponential draws.
* Clocks, and the values of the statistics.
* Corrupted file systems: directories whose entries do not fill their blocks, and bytes in
  front of the superblock.

## 6. Plan

Done, in this order: Scheduler with Cfs (the concurrent core, first because its
interleavings are beyond any test), its invariant and proofs, CpuScheduling and the
refinement; Paging, PageReplacement and their proofs; WordCounts, PWord and TWord; the
inputs of the two simulations with their proofs; Ext2Dir and Bst; the proofs for PWord and
TWord; the counts of words, the faults of the paging simulation and the two listings.

Next:

1. An abstract specification of a word counter that both PWord (without split files) and
   TWord implement.
2. The absence of deadlock in Scheduler as a state predicate (some thread has a step, or
   the program has ended) that follows from `IInv`, so that it is proved for every number
   of processes and not only checked.
