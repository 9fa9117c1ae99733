---------------------------- MODULE TWordProofs ----------------------------
(***************************************************************************)
(* Every thread of proj01/src/tword.c works on a file and a slot of its    *)
(* own, and main never reads a slot that is not filled, for every number   *)
(* of files and under every interleaving.                                  *)
(***************************************************************************)
EXTENDS TWord, WordCountsProofs

(* Threads are created in the order of their files ...                     *)
CreatedSoFar ==
  /\ main_pc = "create" =>
       \A t \in Files : thread_pc[t] = "unborn" <=> i <= t
  /\ main_pc \in {"join", "merge", "write"} =>
       \A t \in Files : thread_pc[t] # "unborn"

(* ... and joined in that order, all of them before the first slot is read. *)
JoinedSoFar ==
  /\ main_pc = "join" => \A t \in Files : t < i => thread_pc[t] = "done"
  /\ main_pc \in {"merge", "write"} => \A t \in Files : thread_pc[t] = "done"

(* The argument of a thread is its own number, however late it is read.    *)
OwnArgument ==
  \A t \in Files :
    /\ thread_pc[t] # "unborn" => child_count[t] = t
    /\ thread_pc[t] \in {"parse", "done"} => my_i[t] = t

(* The slots that hold an array: of the threads that are done, until main  *)
(* takes them one by one.                                                  *)
FilledSlots ==
  /\ main_pc \in {"create", "join"} =>
       DOMAIN sub_arrays = { t \in Files : thread_pc[t] = "done" }
  /\ main_pc = "merge" => DOMAIN sub_arrays = i .. InFileCount - 1

SlotInv ==
  /\ TypeOK /\ main_pc # "segv"
  /\ CreatedSoFar /\ JoinedSoFar /\ OwnArgument /\ FilledSlots

-----------------------------------------------------------------------------
LEMMA FilesAreNumbers ==
  InFileCount \in Nat \ {0} /\ Files \subseteq Nat
BY CliAssumption DEF Files, MAX_IN_FILE_COUNT

LEMMA SlotInvInit == Init => SlotInv
<1> SUFFICES ASSUME Init PROVE SlotInv
  OBVIOUS
<1>1. TypeOK
  BY FilesAreNumbers DEF Init, TypeOK, Files
<1>2. CreatedSoFar
  BY FilesAreNumbers DEF Init, CreatedSoFar
<1>3. FilledSlots
  <2>1. DOMAIN sub_arrays = {} /\ { t \in Files : thread_pc[t] = "done" } = {}
    BY DEF Init
  <2> QED BY <2>1 DEF Init, FilledSlots
<1> QED BY <1>1, <1>2, <1>3 DEF Init, SlotInv, JoinedSoFar, OwnArgument

(* A thread reads its argument.                                            *)
LEMMA SlotInvRead ==
  ASSUME SlotInv, NEW t \in Files, read_argument(t)
  PROVE  SlotInv'
<1>1. /\ thread_pc[t] = "started" /\ child_count[t] = t
      /\ my_i' = [my_i EXCEPT ![t] = t]
      /\ thread_pc' = [thread_pc EXCEPT ![t] = "parse"]
      /\ UNCHANGED <<main_pc, i, child_count, sub_arrays, pair_array>>
  BY DEF SlotInv, OwnArgument, read_argument, Argument
<1>2. \A u \in Files :
        /\ u # t => thread_pc'[u] = thread_pc[u] /\ my_i'[u] = my_i[u]
        /\ u = t => thread_pc'[u] = "parse" /\ my_i'[u] = t
  BY <1>1 DEF SlotInv, TypeOK
<1>3. TypeOK'
  BY <1>1 DEF SlotInv, TypeOK
<1>4. CreatedSoFar' /\ JoinedSoFar' /\ OwnArgument'
  BY <1>1, <1>2 DEF SlotInv, CreatedSoFar, JoinedSoFar, OwnArgument
<1>5. { u \in Files : thread_pc'[u] = "done" } = { u \in Files : thread_pc[u] = "done" }
  BY <1>1, <1>2
<1>6. FilledSlots'
  BY <1>1, <1>5 DEF SlotInv, FilledSlots
<1> QED BY <1>1, <1>3, <1>4, <1>6 DEF SlotInv

(* A thread fills its slot, or ends the program.                           *)
LEMMA SlotInvParse ==
  ASSUME SlotInv, NEW t \in Files, parse_file(t)
  PROVE  SlotInv'
<1>1. thread_pc[t] = "parse" /\ my_i[t] = t /\ main_pc \in {"create", "join", "done"}
  BY DEF SlotInv, TypeOK, OwnArgument, JoinedSoFar, parse_file, Alive
<1>2. UNCHANGED <<i, child_count, my_i, pair_array>>
  BY DEF parse_file
<1>3. CASE main_pc' = "exited" /\ UNCHANGED <<sub_arrays, thread_pc>>
  BY <1>2, <1>3
     DEF SlotInv, TypeOK, CreatedSoFar, JoinedSoFar, OwnArgument, FilledSlots
<1>4. CASE /\ sub_arrays' =
                [ slot \in DOMAIN sub_arrays \cup {t} |->
                    IF slot = t
                    THEN parse_in_file(FileContents[slot], str_toupper)
                    ELSE sub_arrays[slot] ]
           /\ thread_pc' = [thread_pc EXCEPT ![t] = "done"]
           /\ UNCHANGED main_pc
  <2>1. DOMAIN sub_arrays' = {t} \cup DOMAIN sub_arrays
    BY <1>4
  <2>2. \A u \in Files :
          thread_pc'[u] = IF u = t THEN "done" ELSE thread_pc[u]
    BY <1>4 DEF SlotInv, TypeOK
  <2>3. TypeOK'
    BY <1>2, <1>4, <2>1 DEF SlotInv, TypeOK
  <2>4. CreatedSoFar' /\ JoinedSoFar' /\ OwnArgument'
    BY <1>1, <1>2, <1>4, <2>2 DEF SlotInv, CreatedSoFar, JoinedSoFar, OwnArgument
  <2>5. { u \in Files : thread_pc'[u] = "done" }
          = {t} \cup { u \in Files : thread_pc[u] = "done" }
    BY <2>2
  <2>6. FilledSlots'
    BY <1>1, <1>2, <1>4, <2>1, <2>5 DEF SlotInv, FilledSlots
  <2> QED BY <1>4, <2>3, <2>4, <2>6 DEF SlotInv
<1> QED BY <1>1, <1>3, <1>4 DEF parse_file

(* main creates a thread, or goes on to join them.                         *)
LEMMA SlotInvCreate ==
  ASSUME SlotInv, create_thread
  PROVE  SlotInv'
<1>1. main_pc = "create" /\ i \in 0 .. InFileCount
  BY DEF SlotInv, TypeOK, create_thread
<1>2. UNCHANGED <<my_i, sub_arrays, pair_array>>
  BY DEF create_thread
<1>3. CASE i # InFileCount
  <2>1. /\ child_count' = [child_count EXCEPT ![i] = i]
        /\ thread_pc' = [thread_pc EXCEPT ![i] = "started"]
        /\ i' = i + 1 /\ main_pc' = "create"
    BY <1>1, <1>3 DEF create_thread
  <2>2. i \in Files /\ i' \in 0 .. InFileCount
    BY <1>1, <1>3, <2>1, FilesAreNumbers DEF Files
  <2>3. \A u \in Files :
          /\ thread_pc'[u] = IF u = i THEN "started" ELSE thread_pc[u]
          /\ child_count'[u] = IF u = i THEN i ELSE child_count[u]
    BY <2>1 DEF SlotInv, TypeOK
  <2>4. TypeOK'
    BY <1>2, <2>1, <2>2 DEF SlotInv, TypeOK
  <2>5. CreatedSoFar' /\ JoinedSoFar' /\ OwnArgument'
    BY <1>1, <1>2, <2>1, <2>2, <2>3, FilesAreNumbers
       DEF SlotInv, CreatedSoFar, JoinedSoFar, OwnArgument
  <2>6. thread_pc[i] = "unborn"
    BY <1>1, <2>2, FilesAreNumbers DEF SlotInv, CreatedSoFar
  <2>7. { u \in Files : thread_pc'[u] = "done" } = { u \in Files : thread_pc[u] = "done" }
    BY <2>3, <2>6
  <2> QED BY <1>1, <1>2, <2>1, <2>4, <2>5, <2>7 DEF SlotInv, FilledSlots
<1>4. CASE i = InFileCount
  <2>1. main_pc' = "join" /\ i' = 0 /\ UNCHANGED <<thread_pc, child_count>>
    BY <1>4 DEF create_thread
  <2>2. \A t \in Files : ~ (i <= t) /\ ~ (t < i')
    BY <1>4, <2>1, FilesAreNumbers DEF Files
  <2>3. TypeOK'
    BY <1>2, <2>1, FilesAreNumbers DEF SlotInv, TypeOK
  <2>4. CreatedSoFar' /\ JoinedSoFar' /\ OwnArgument' /\ FilledSlots'
    BY <1>1, <1>2, <2>1, <2>2
       DEF SlotInv, CreatedSoFar, JoinedSoFar, OwnArgument, FilledSlots
  <2> QED BY <2>1, <2>3, <2>4 DEF SlotInv
<1> QED BY <1>3, <1>4

(* main joins a thread, or goes on to add the slots up.                    *)
LEMMA SlotInvJoin ==
  ASSUME SlotInv, join_thread
  PROVE  SlotInv'
<1>1. main_pc = "join" /\ i \in 0 .. InFileCount
  BY DEF SlotInv, TypeOK, join_thread
<1>2. UNCHANGED <<thread_pc, child_count, my_i, sub_arrays, pair_array>>
  BY DEF join_thread
<1>3. CASE i # InFileCount
  <2>1. thread_pc[i] = "done" /\ i' = i + 1 /\ main_pc' = "join"
    BY <1>1, <1>3 DEF join_thread
  <2>2. i' \in 0 .. InFileCount /\ \A t \in Files : t < i' => t < i \/ t = i
    BY <1>1, <1>3, <2>1, FilesAreNumbers
  <2> QED BY <1>1, <1>2, <2>1, <2>2
          DEF SlotInv, TypeOK, CreatedSoFar, JoinedSoFar, OwnArgument, FilledSlots
<1>4. CASE i = InFileCount
  <2>1. main_pc' = "merge" /\ i' = 0
    BY <1>4 DEF join_thread
  <2>2. \A t \in Files : t < i
    BY <1>4, FilesAreNumbers DEF Files
  <2>3. \A t \in Files : thread_pc[t] = "done"
    BY <1>1, <2>2 DEF SlotInv, JoinedSoFar
  <2>4. { t \in Files : thread_pc[t] = "done" } = i' .. InFileCount - 1
    BY <2>1, <2>3 DEF Files
  <2>5. DOMAIN sub_arrays' = i' .. InFileCount - 1
    BY <1>1, <1>2, <2>4 DEF SlotInv, FilledSlots
  <2>6. TypeOK'
    BY <1>2, <2>1, FilesAreNumbers DEF SlotInv, TypeOK
  <2> QED BY <1>2, <2>1, <2>3, <2>5, <2>6
          DEF SlotInv, CreatedSoFar, JoinedSoFar, OwnArgument, FilledSlots
<1> QED BY <1>3, <1>4

(* main adds a slot up, which is always there, or goes on to write.        *)
LEMMA SlotInvMerge ==
  ASSUME SlotInv, merge
  PROVE  SlotInv'
<1>1. /\ main_pc = "merge" /\ i \in 0 .. InFileCount
      /\ DOMAIN sub_arrays = i .. InFileCount - 1
  BY DEF SlotInv, TypeOK, FilledSlots, merge
<1>2. UNCHANGED <<thread_pc, child_count, my_i>>
  BY DEF merge
<1>3. CASE i = InFileCount
  <2>1. main_pc' = "write" /\ UNCHANGED <<i, sub_arrays>>
    BY <1>3 DEF merge
  <2> QED BY <1>1, <1>2, <2>1
          DEF SlotInv, TypeOK, CreatedSoFar, JoinedSoFar, OwnArgument, FilledSlots
<1>4. CASE i # InFileCount
  <2>1. i \in DOMAIN sub_arrays
    BY <1>1, <1>4, FilesAreNumbers
  <2>2. /\ sub_arrays' = [t \in DOMAIN sub_arrays \ {i} |-> sub_arrays[t]]
        /\ i' = i + 1 /\ main_pc' = "merge"
    BY <1>1, <1>4, <2>1 DEF merge
  <2>3. i' \in 0 .. InFileCount /\ DOMAIN sub_arrays' = i' .. InFileCount - 1
    BY <1>1, <1>4, <2>2, FilesAreNumbers
  <2>4. DOMAIN sub_arrays' \subseteq Files
    BY <2>2 DEF SlotInv, TypeOK
  <2> QED BY <1>1, <1>2, <2>2, <2>3, <2>4
          DEF SlotInv, TypeOK, CreatedSoFar, JoinedSoFar, OwnArgument, FilledSlots
<1> QED BY <1>3, <1>4

LEMMA SlotInvWrite ==
  ASSUME SlotInv, write_output_file \/ UNCHANGED vars
  PROVE  SlotInv'
BY DEF SlotInv, TypeOK, CreatedSoFar, JoinedSoFar, OwnArgument, FilledSlots,
       write_output_file, vars

-----------------------------------------------------------------------------
(* The strengthened invariant holds under every interleaving.              *)
THEOREM SlotInvariance == Spec => []SlotInv
<1>1. SlotInv /\ [Next]_vars => SlotInv'
  BY SlotInvRead, SlotInvParse, SlotInvCreate, SlotInvJoin, SlotInvMerge, SlotInvWrite
     DEF Next, Main, run_child_actions, Terminated
<1> QED BY <1>1, SlotInvInit, PTL DEF Spec

(* The indices of main and of the threads stay within the files.           *)
THEOREM IndicesInRange == Spec => []TypeOK
<1>1. SlotInv => TypeOK
  BY DEF SlotInv
<1> QED BY <1>1, SlotInvariance, PTL

(* No two threads share a file, and main never reads an empty slot.        *)
THEOREM SlotsHaveOwners == Spec => []SlotsAreOwned
<1>1. SlotInv => SlotsAreOwned
  BY DEF SlotInv, OwnArgument, FilledSlots, SlotsAreOwned
<1> QED BY <1>1, SlotInvariance, PTL

-----------------------------------------------------------------------------
(* The counts.                                                             *)

UpperWords == { str_toupper[word] : word \in DOMAIN str_toupper }

PlacesBefore(n, word) == Places(0 .. n - 1, FileContents, str_toupper, word)

(* Each slot that is filled holds the words of its own file; main has the  *)
(* words of the files before the one its loop is at, and of no other.      *)
SlotsHoldFiles ==
  \A slot \in DOMAIN sub_arrays :
    sub_arrays[slot] = parse_in_file(FileContents[slot], str_toupper)

AddedSoFar ==
  /\ pair_array \in Arrays(UpperWords)
  /\ main_pc \in {"create", "join"} => pair_array = <<>>
  /\ main_pc = "merge" =>
       \A word \in UpperWords :
         CountOf(pair_array, word) = Cardinality(PlacesBefore(i, word))
  /\ main_pc \in {"write", "done"} =>
       \A word \in UpperWords :
         CountOf(pair_array, word) = Cardinality(PlacesBefore(InFileCount, word))

CountInv == SlotInv /\ SlotsHoldFiles /\ AddedSoFar

LEMMA ContentsAreTexts ==
  ASSUME NEW f \in Files
  PROVE  FileContents[f] \in Seq(DOMAIN str_toupper)
BY CliAssumption

(* What a file adds to the places of a word in the files before it.        *)
LEMMA PlacesGrow ==
  ASSUME NEW word
  PROVE  /\ Cardinality(PlacesBefore(0, word)) = 0
         /\ \A f \in Files :
              /\ IsFiniteSet(PlacesBefore(f, word))
              /\ Cardinality(PlacesBefore(f + 1, word))
                   = Cardinality(PlacesBefore(f, word))
                     + Cardinality(Positions(FileContents[f], str_toupper, word))
<1>1. IsFiniteSet(PlacesBefore(0, word)) /\ Cardinality(PlacesBefore(0, word)) = 0
  <2>1. 0 .. 0 - 1 = {}
    OBVIOUS
  <2> QED BY <2>1, NoFile DEF PlacesBefore
<1>2. ASSUME NEW f \in Files, IsFiniteSet(PlacesBefore(f, word))
      PROVE  /\ IsFiniteSet(PlacesBefore(f + 1, word))
             /\ Cardinality(PlacesBefore(f + 1, word))
                  = Cardinality(PlacesBefore(f, word))
                    + Cardinality(Positions(FileContents[f], str_toupper, word))
  <2>1. f \in Nat /\ f \notin 0 .. f - 1 /\ 0 .. (f + 1) - 1 = (0 .. f - 1) \cup {f}
    BY FilesAreNumbers
  <2>2. FileContents[f] \in Seq(DOMAIN str_toupper)
    BY ContentsAreTexts
  <2> DEFINE before == 0 .. f - 1
             old == Places(before, FileContents, str_toupper, word)
             new == Places(before \cup {f}, FileContents, str_toupper, word)
  <2>3. f \notin before /\ IsFiniteSet(old)
    BY <1>2, <2>1 DEF PlacesBefore
  <2> HIDE DEF before
  <2>4. /\ IsFiniteSet(new)
        /\ Cardinality(new) = Cardinality(old)
             + Cardinality(Positions(FileContents[f], str_toupper, word))
    BY <2>2, <2>3, AnotherFile
  <2>5. PlacesBefore(f, word) = old /\ PlacesBefore(f + 1, word) = new
    BY <2>1 DEF PlacesBefore, before
  <2> QED BY <2>4, <2>5
<1> DEFINE Good == { n \in Nat : n < InFileCount => IsFiniteSet(PlacesBefore(n, word)) }
<1>3. 0 \in Good
  BY <1>1
<1>4. ASSUME NEW n \in Nat, n \in Good PROVE n + 1 \in Good
  <2>1. SUFFICES ASSUME n + 1 < InFileCount PROVE IsFiniteSet(PlacesBefore(n + 1, word))
    OBVIOUS
  <2>2. n \in Files /\ IsFiniteSet(PlacesBefore(n, word))
    BY <1>4, <2>1, FilesAreNumbers DEF Files
  <2> QED BY <1>2, <2>2
<1>5. Nat \subseteq Good
  <2> HIDE DEF Good
  <2> QED BY <1>3, <1>4, SetInduction
<1>6. \A f \in Files : IsFiniteSet(PlacesBefore(f, word))
  BY <1>5, FilesAreNumbers DEF Files
<1> QED BY <1>1, <1>2, <1>6

(* What the thread of a file finds in it.                                  *)
LEMMA FileCounts ==
  ASSUME NEW f \in Files
  PROVE  /\ parse_in_file(FileContents[f], str_toupper) \in Arrays(UpperWords)
         /\ \A word : CountOf(parse_in_file(FileContents[f], str_toupper), word)
                        = Cardinality(Positions(FileContents[f], str_toupper, word))
<1>1. \A x \in DOMAIN str_toupper : str_toupper[x] \in UpperWords
  BY DEF UpperWords
<1>2. FileContents[f] \in Seq(DOMAIN str_toupper)
  BY ContentsAreTexts
<1>3. CountsText(parse_in_file(FileContents[f], str_toupper), UpperWords,
                 FileContents[f], str_toupper)
  BY <1>1, <1>2, ParsedCounts
<1> QED BY <1>3 DEF CountsText

LEMMA CountInvInit == Init => CountInv
BY SlotInvInit, EmptyArray DEF Init, CountInv, SlotsHoldFiles, AddedSoFar

LEMMA CountInvParse ==
  ASSUME CountInv, NEW t \in Files, parse_file(t)
  PROVE  CountInv'
<1>1. SlotInv' /\ my_i[t] = t /\ UNCHANGED <<i, pair_array>>
  BY SlotInvParse DEF CountInv, SlotInv, OwnArgument, parse_file
<1>2. main_pc' \in {main_pc, "exited"}
  BY DEF parse_file
<1>3. SlotsHoldFiles'
  <2>1. CASE UNCHANGED sub_arrays
    BY <2>1 DEF CountInv, SlotsHoldFiles
  <2>2. CASE sub_arrays' =
               [ slot \in DOMAIN sub_arrays \cup {t} |->
                   IF slot = t
                   THEN parse_in_file(FileContents[slot], str_toupper)
                   ELSE sub_arrays[slot] ]
    BY <2>2 DEF CountInv, SlotsHoldFiles
  <2> QED BY <1>1, <2>1, <2>2 DEF parse_file
<1>4. AddedSoFar'
  BY <1>1, <1>2 DEF CountInv, AddedSoFar
<1> QED BY <1>1, <1>3, <1>4 DEF CountInv

LEMMA CountInvJoin ==
  ASSUME CountInv, join_thread
  PROVE  CountInv'
<1>1. SlotInv' /\ SlotsHoldFiles'
  BY SlotInvJoin DEF CountInv, SlotsHoldFiles, join_thread
<1>2. pair_array = <<>> /\ pair_array' = <<>>
  BY DEF CountInv, AddedSoFar, join_thread
<1>3. main_pc' = "join" \/ (main_pc' = "merge" /\ i' = 0)
  BY DEF join_thread
<1>4. \A word : CountOf(<<>>, word) = Cardinality(PlacesBefore(0, word))
  BY PlacesGrow, EmptyArray
<1>5. AddedSoFar'
  BY <1>2, <1>3, <1>4, EmptyArray DEF AddedSoFar
<1> QED BY <1>1, <1>5 DEF CountInv

(* main adds the words of one more file.                                   *)
LEMMA CountInvMerge ==
  ASSUME CountInv, merge
  PROVE  CountInv'
<1>1. /\ SlotInv' /\ main_pc = "merge" /\ i \in 0 .. InFileCount
      /\ DOMAIN sub_arrays = i .. InFileCount - 1
  BY SlotInvMerge DEF CountInv, SlotInv, TypeOK, FilledSlots, merge
<1>2. CASE i = InFileCount
  <2>1. main_pc' = "write" /\ UNCHANGED <<i, sub_arrays, pair_array>>
    BY <1>2 DEF merge
  <2> QED BY <1>1, <1>2, <2>1 DEF CountInv, SlotsHoldFiles, AddedSoFar
<1>3. CASE i # InFileCount
  <2>1. i \in DOMAIN sub_arrays /\ i \in Files
    BY <1>1, <1>3, FilesAreNumbers DEF Files
  <2>2. /\ pair_array' = add_array_to_array(pair_array, sub_arrays[i])
        /\ sub_arrays' = [t \in DOMAIN sub_arrays \ {i} |-> sub_arrays[t]]
        /\ i' = i + 1 /\ main_pc' = "merge"
    BY <1>1, <1>3, <2>1 DEF merge
  <2>3. SlotsHoldFiles'
    BY <2>2 DEF CountInv, SlotsHoldFiles
  <2>4. /\ sub_arrays[i] = parse_in_file(FileContents[i], str_toupper)
        /\ sub_arrays[i] \in Arrays(UpperWords) /\ pair_array \in Arrays(UpperWords)
    BY <2>1, FileCounts DEF CountInv, SlotsHoldFiles, AddedSoFar
  <2>5. /\ pair_array' \in Arrays(UpperWords)
        /\ \A word : CountOf(pair_array', word)
                       = CountOf(pair_array, word) + CountOf(sub_arrays[i], word)
    BY <2>2, <2>4, AddedCounts
  <2>6. \A word \in UpperWords :
          CountOf(pair_array', word) = Cardinality(PlacesBefore(i + 1, word))
    <3> SUFFICES ASSUME NEW word \in UpperWords
                 PROVE  CountOf(pair_array', word) = Cardinality(PlacesBefore(i + 1, word))
      OBVIOUS
    <3>1. CountOf(pair_array, word) = Cardinality(PlacesBefore(i, word))
      BY <1>1 DEF CountInv, AddedSoFar
    <3>2. CountOf(sub_arrays[i], word)
            = Cardinality(Positions(FileContents[i], str_toupper, word))
      BY <2>1, <2>4, FileCounts
    <3>3. Cardinality(PlacesBefore(i + 1, word))
            = Cardinality(PlacesBefore(i, word))
              + Cardinality(Positions(FileContents[i], str_toupper, word))
      BY <2>1, PlacesGrow
    <3> QED BY <2>5, <3>1, <3>2, <3>3
  <2>7. AddedSoFar'
    BY <2>2, <2>5, <2>6 DEF AddedSoFar
  <2> QED BY <1>1, <2>3, <2>7 DEF CountInv
<1> QED BY <1>2, <1>3

LEMMA CountInvElse ==
  ASSUME CountInv,
         \/ create_thread \/ write_output_file \/ UNCHANGED vars
         \/ \E t \in Files : read_argument(t)
  PROVE  CountInv'
<1>1. SlotInv' /\ UNCHANGED <<sub_arrays, pair_array>>
  BY SlotInvRead, SlotInvCreate, SlotInvWrite
     DEF CountInv, read_argument, create_thread, write_output_file, vars
<1>2. \/ main_pc' = main_pc /\ i' = i
      \/ main_pc = "create" /\ main_pc' \in {"create", "join"}
      \/ main_pc = "write" /\ main_pc' \in {"done", "exited"}
  BY DEF read_argument, create_thread, write_output_file, vars
<1>3. SlotsHoldFiles' /\ AddedSoFar'
  BY <1>1, <1>2 DEF CountInv, SlotsHoldFiles, AddedSoFar
<1> QED BY <1>1, <1>3 DEF CountInv

(* In every state main has counted the files before the one it is at.      *)
THEOREM CountInvariance == Spec => []CountInv
<1>1. CountInv /\ [Next]_vars => CountInv'
  BY CountInvParse, CountInvJoin, CountInvMerge, CountInvElse
     DEF Next, Main, run_child_actions, Terminated
<1> QED BY <1>1, CountInvInit, PTL DEF Spec

(* The file says how often each word occurs in the input files, whatever   *)
(* the files, their number and the order in which the threads run.         *)
THEOREM CountsAreExact == Spec => []CountsExact
<1>1. ASSUME CountInv, main_pc = "done"
      PROVE  CountsAll(pair_array, FileContents, str_toupper)
  <2>1. DOMAIN FileContents = 0 .. InFileCount - 1
    BY CliAssumption DEF Files
  <2>2. ASSUME NEW word \in DOMAIN str_toupper
        PROVE  CountOf(pair_array, str_toupper[word])
                 = Occurrences(FileContents, str_toupper, str_toupper[word])
    <3>1. str_toupper[word] \in UpperWords
      BY DEF UpperWords
    <3>2. CountOf(pair_array, str_toupper[word])
            = Cardinality(PlacesBefore(InFileCount, str_toupper[word]))
      BY <1>1, <3>1 DEF CountInv, AddedSoFar
    <3> QED BY <2>1, <3>2 DEF PlacesBefore, Places, Occurrences
  <2>3. pair_array \in Arrays(UpperWords)
    BY <1>1 DEF CountInv, AddedSoFar
  <2> QED BY <2>2, <2>3, PairsAreTyped DEF CountsAll
<1>2. CountInv => CountsExact
  BY <1>1 DEF CountsExact
<1> QED BY <1>2, CountInvariance, PTL
=============================================================================
