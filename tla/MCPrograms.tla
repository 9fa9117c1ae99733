----------------------------- MODULE MCPrograms -----------------------------
(* The sequential parts side by side for TLC: the inputs of the two        *)
(* simulations, the tree and the directory listing.  A behaviour runs one  *)
(* of them, on one of the inputs below.  An int has seven bits, and        *)
(* RAND_MAX is the greatest of them, as in the C library.                  *)
EXTENDS WorkloadParams, PagingParams, Bst, Ext2Dir

Fixed(n)                  == [method |-> "fixed", average |-> n, min |-> 0, max |-> 0]
Uniform(min, max)         == [method |-> "uniform", average |-> 0, min |-> min, max |-> max]
Exponential(avg, min, max) ==
  [method |-> "exponential", average |-> avg, min |-> min, max |-> max]

Line(total, min_priority, max_priority, length, interarrival) ==
  [ total |-> total, min_priority |-> min_priority, max_priority |-> max_priority,
    length |-> length, interarrival |-> interarrival ]

(* Ordered and exchanged ranges, some with a width or a bucket of 0; wider *)
(* than half of RAND_MAX, and wider than an int can count: -1 .. 63 has a  *)
(* bucket of 0, -50 .. 60 a negative one, -64 .. 63 a width of 0.          *)
(* Exponential ranges on both sides of the average, without room between   *)
(* their ends and out of reach.                                            *)
SmallCommandLines ==
  { Line(2, -2, 1, Uniform(1, 3), Exponential(2, 1, 4)),
    Line(2, -20, 19, Fixed(5), Uniform(0, 0)),
    Line(2, 0, 0, Exponential(3, 0, 2), Fixed(1)),
    Line(2, 3, -3, Exponential(1, 2, 3), Fixed(0)),
    Line(1, 0, 0, Exponential(2, 2, 2), Fixed(0)),
    Line(1, 0, 0, Exponential(1, 9, 10), Uniform(5, 1)),
    Line(1, 0, 0, Uniform(1, 0), Fixed(0)),
    Line(1, 0, 0, Fixed(3), Uniform(40, 5)),
    Line(1, -64, 63, Fixed(3), Fixed(1)),
    Line(1, 0, 0, Uniform(-1, 63), Fixed(3)),
    Line(1, 0, 0, Uniform(-50, 60), Uniform(-31, 31)),
    Line(-1, 0, 1, Fixed(3), Fixed(3)),
    Line(1, 0, 0, [Fixed(1) EXCEPT !.method = "other"], Fixed(3)) }

PL(length, priority) == [kind |-> "PL", length |-> length, priority |-> priority]
IAT(time)            == [kind |-> "IAT", time |-> time]
Tokens               == {PL(7, 0), PL(3, -5), IAT(4), IAT(9), [kind |-> "other"]}

(* Every file of up to four lines of these.                                *)
SmallFiles ==
  [ total : {2}, opens : {TRUE}, tokens : UNION { [1 .. n -> Tokens] : n \in 0 .. 4 } ]
  \cup { [ total |-> 2, opens |-> FALSE, tokens |-> <<>> ] }

-----------------------------------------------------------------------------
(* Sizes that fit in an int, among them the greatest, and sizes that do    *)
(* not, among them the least; 72 is an int for which the bucket is 0.      *)
SmallRandomInputs == [ past_end : {0, 1, 3, 63, 64, 72, 127}, length : {-1, 0, 2} ]

Region(base, past_end) == [ base |-> base, past_end |-> past_end ]

(* Regions in both halves, up to the top, empty, and across the middle.    *)
SmallInputFiles ==
  [ regions_open : {TRUE}, addresses_open : {TRUE},
    regions : { <<>>, <<Region(2, 5)>>, <<Region(120, 128)>>, <<Region(60, 70)>>,
                <<Region(0, 3), Region(69, 75)>>, <<Region(75, 69)>> },
    addresses : { <<>>, <<2, 4, 5>>, <<69, 75, 127>>, <<0, 63, 64>>, <<71>> } ]
  \cup [ regions_open : {TRUE, FALSE}, addresses_open : {FALSE},
         regions : {<<>>}, addresses : {<<>>} ]

-----------------------------------------------------------------------------
Entry(offset, inode, rec_len) ==
  [ offset |-> offset, inode |-> inode, rec_len |-> rec_len, name |-> offset ]

(* Blocks of four units: two entries; four, the third of which names an    *)
(* inode whose block is out of reach of an int; one unused at the end, and *)
(* one in between; and a second block of the directory.                    *)
Full    == << Entry(0, 2, 2), Entry(2, 5, 2) >>
Crowded == << Entry(0, 2, 1), Entry(1, 2, 1), Entry(2, 40, 1), Entry(3, 8, 1) >>
Tailed  == << Entry(0, 2, 1), Entry(1, 4, 2), Entry(3, 0, 1) >>
Gap     == << Entry(0, 2, 1), Entry(1, 0, 1), Entry(2, 3, 2) >>
Second  == << Entry(0, 6, 4) >>

Block(number, entries) == [ number |-> number, entries |-> entries ]

Directories ==
  { << Block(6, entries) >> : entries \in {Full, Crowded, Tailed, Gap} }
  \cup { << Block(7, Full), Block(6, Second) >>, << Block(9, Full) >> }

(* A group of eight inodes in blocks 2 and 3 (or 2 to 5 if they take two   *)
(* units each); sizes that cut the image off at several places or go       *)
(* beyond what an int can seek; the size of inodes that a file system of   *)
(* revision 0 leaves at 0.                                                 *)
SmallDisks ==
  [ s_inode_size : {0, 1, 2}, inodes_per_group : {8}, bg_inode_table : {2},
    size : {0, 1, 2, 3, 4, 8, 10}, directory : Directories ]

-----------------------------------------------------------------------------
Init == WorkloadInit /\ InputInit /\ BstInit /\ DiskInit

NoWorkload == stage = "start" /\ UNCHANGED workloadVars
NoInput    == params_stage = "start" /\ UNCHANGED inputVars
NoTree     == table = {NODE_MIDPOINT} /\ phase = "drawing" /\ UNCHANGED bstVars
NoDisk     == reading = "start" /\ UNCHANGED diskVars

Next ==
  \/ WorkloadNext /\ NoInput /\ NoTree /\ NoDisk
  \/ InputNext /\ NoWorkload /\ NoTree /\ NoDisk
  \/ BstNext /\ NoWorkload /\ NoInput /\ NoDisk
  \/ DiskNext /\ NoWorkload /\ NoInput /\ NoTree

Spec ==
  /\ Init /\ [][Next]_<<workloadVars, inputVars, bstVars, diskVars>>
  /\ WorkloadFairness
=============================================================================
