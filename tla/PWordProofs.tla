---------------------------- MODULE PWordProofs ----------------------------
(***************************************************************************)
(* What pword promises, for every number of files, every content, message  *)
(* size and length of the queue, with runs that are interrupted at any     *)
(* time: no end marker is lost or counted twice, the parent stops after    *)
(* the last message, a run that ends leaves nothing to the next one, and   *)
(* the file has every occurrence of every word, once for the files that    *)
(* fit in a message and at most twice for the others.                      *)
(***************************************************************************)
EXTENDS PWord, WordCountsProofs

Markers   == { k \in DOMAIN mq : mq[k].pairs_count = MQ_EOF_VAL }
Remaining == { i \in Files : child_pc[i] # "exited" }

(* The messages come from an unknown set: the words are any values.        *)
QueueIsSeq == \E S : mq \in Seq(S)

ControlOK ==
  /\ parent_pc \in {"fork", "await", "write", "done", "failed"}
  /\ forked \in 0 .. InFileCount
  /\ completed_children_count \in Nat
  /\ child_pc \in [Files -> {"unborn", "parse", "send", "exited", "failed"}]
  /\ next \in [Files -> Int]
  /\ stale \in BOOLEAN

NotYetForked == \A i \in Files : i > forked => child_pc[i] = "unborn"

(* A child that has sent pairs has yet to send its end marker, so the last *)
(* message of the queue is a marker once no child is sending.              *)
MarkerComesLast ==
  mq # <<>> /\ mq[Len(mq)].pairs_count # MQ_EOF_VAL =>
    \E i \in Files : child_pc[i] = "send"

Unlinked == parent_pc \in {"write", "done"} => ~ linked

EndInv ==
  /\ QueueIsSeq /\ ControlOK /\ NotYetForked /\ Unlinked
  /\ ~ stale => MarkerComesLast
  /\ EndMarkersAddUp /\ NothingLeftBehind

-----------------------------------------------------------------------------
(* The queue and its markers.                                              *)

LEMMA FilesAreFinite ==
  /\ InFileCount \in Nat /\ IsFiniteSet(Files) /\ Cardinality(Files) = InFileCount
<1>1. InFileCount \in Nat /\ InFileCount >= 1
  BY CliAssumption DEF MaxInFileCount
<1>2. IsFiniteSet(1 .. InFileCount) /\ Cardinality(1 .. InFileCount) = InFileCount
  BY <1>1, FS_Interval
<1> QED BY <1>1, <1>2 DEF Files

(* Every set of positions of a queue is finite.                            *)
LEMMA PositionsAreFinite ==
  ASSUME NEW S, NEW q \in Seq(S), NEW P \in SUBSET DOMAIN q
  PROVE  IsFiniteSet(P) /\ Cardinality(P) \in Nat
<1>1. DOMAIN q = 1 .. Len(q) /\ Len(q) \in Nat
  OBVIOUS
<1>2. IsFiniteSet(1 .. Len(q))
  BY <1>1, FS_Interval
<1> QED BY <1>1, <1>2, FS_Subset, FS_CardinalityType

EofIn(q) == { k \in DOMAIN q : q[k].pairs_count = MQ_EOF_VAL }

LEMMA MarkersIsEof == Markers = EofIn(mq) /\ Markers' = EofIn(mq)'
BY DEF Markers, EofIn

(* A message that is no marker leaves the markers, a marker is one more.   *)
LEMMA EofOfAppend ==
  ASSUME NEW S, NEW q \in Seq(S), NEW m
  PROVE  /\ \E T : Append(q, m) \in Seq(T)
         /\ Append(q, m) # <<>> /\ Append(q, m)[Len(Append(q, m))] = m
         /\ m.pairs_count # MQ_EOF_VAL => EofIn(Append(q, m)) = EofIn(q)
         /\ m.pairs_count = MQ_EOF_VAL =>
              Cardinality(EofIn(Append(q, m))) = Cardinality(EofIn(q)) + 1
<1> DEFINE T == S \cup {m}
           a == Append(q, m)
<1>1. q \in Seq(T)
  BY SeqMonotonic
<1>2. /\ a \in Seq(T) /\ Len(a) = Len(q) + 1 /\ Len(q) \in Nat
      /\ a[Len(a)] = m
      /\ \A k \in 1 .. Len(q) : a[k] = q[k]
  BY <1>1, AppendProperties
<1>3. DOMAIN q = 1 .. Len(q) /\ DOMAIN a = 1 .. Len(q) + 1
  BY <1>1, <1>2
<1>4. ASSUME m.pairs_count # MQ_EOF_VAL PROVE EofIn(a) = EofIn(q)
  BY <1>2, <1>3, <1>4 DEF EofIn
<1>5. ASSUME m.pairs_count = MQ_EOF_VAL
      PROVE  Cardinality(EofIn(a)) = Cardinality(EofIn(q)) + 1
  <2>1. EofIn(a) = EofIn(q) \cup {Len(q) + 1} /\ Len(q) + 1 \notin EofIn(q)
    BY <1>2, <1>3, <1>5 DEF EofIn
  <2>2. IsFiniteSet(EofIn(q))
    BY PositionsAreFinite DEF EofIn
  <2> QED BY <2>1, <2>2, FS_AddElement
<1>6. a # <<>>
  BY <1>2
<1> QED BY <1>2, <1>4, <1>5, <1>6

(* Taking a message off the front takes its marker, if it is one.          *)
LEMMA EofOfTail ==
  ASSUME NEW S, NEW q \in Seq(S), q # <<>>
  PROVE  /\ Tail(q) \in Seq(S)
         /\ Tail(q) # <<>> => Tail(q)[Len(Tail(q))] = q[Len(q)]
         /\ Cardinality(EofIn(Tail(q))) \in Nat
         /\ Cardinality(EofIn(q)) =
              IF Head(q).pairs_count = MQ_EOF_VAL
              THEN Cardinality(EofIn(Tail(q))) + 1 ELSE Cardinality(EofIn(Tail(q)))
<1> DEFINE r == Tail(q)
           F == EofIn(q) \ {1}
<1>1. /\ r \in Seq(S) /\ Len(r) = Len(q) - 1 /\ Len(q) \in Nat \ {0}
      /\ Head(q) = q[1]
      /\ \A k \in 1 .. Len(r) : r[k] = q[k + 1]
      /\ DOMAIN q = 1 .. Len(q) /\ DOMAIN r = 1 .. Len(q) - 1
  BY HeadTailProperties
<1>2. r # <<>> => r[Len(r)] = q[Len(q)]
  BY <1>1
<1>3. /\ IsFiniteSet(EofIn(q)) /\ Cardinality(EofIn(q)) \in Nat
      /\ IsFiniteSet(EofIn(r)) /\ Cardinality(EofIn(r)) \in Nat
  BY <1>1, PositionsAreFinite DEF EofIn
<1>4. Cardinality(F) = Cardinality(EofIn(r))
  <2> DEFINE f == [ k \in EofIn(r) |-> k + 1 ]
  <2>1. f \in [EofIn(r) -> F]
    BY <1>1 DEF EofIn
  <2>2. \A j \in F : \E k \in EofIn(r) : f[k] = j
    <3> SUFFICES ASSUME NEW j \in F PROVE j - 1 \in EofIn(r) /\ (j - 1) + 1 = j
      OBVIOUS
    <3>1. j \in 2 .. Len(q) /\ q[j].pairs_count = MQ_EOF_VAL
      BY <1>1 DEF EofIn
    <3>2. j - 1 \in 1 .. Len(r) /\ r[j - 1] = q[j]
      BY <1>1, <3>1
    <3> QED BY <1>1, <3>1, <3>2 DEF EofIn
  <2>3. \A k, l \in EofIn(r) : f[k] = f[l] => k = l
    BY <1>1 DEF EofIn
  <2>4. f \in Injection(EofIn(r), F) /\ f \in Surjection(EofIn(r), F)
    <3> HIDE DEF f
    <3> QED BY <2>1, <2>2, <2>3 DEF Injection, IsInjective, Surjection
  <2>5. ExistsBijection(EofIn(r), F)
    <3> HIDE DEF f
    <3> QED BY <2>4 DEF ExistsBijection, Bijection
  <2> QED BY <1>3, <2>5, FS_Bijection
<1>5. Cardinality(F) = IF 1 \in EofIn(q) THEN Cardinality(EofIn(q)) - 1
                       ELSE Cardinality(EofIn(q))
  BY <1>3, FS_RemoveElement
<1>6. 1 \in EofIn(q) <=> Head(q).pairs_count = MQ_EOF_VAL
  BY <1>1 DEF EofIn
<1>7. Cardinality(EofIn(q)) =
        IF Head(q).pairs_count = MQ_EOF_VAL
        THEN Cardinality(EofIn(r)) + 1 ELSE Cardinality(EofIn(r))
  <2> HIDE DEF F, r
  <2> QED BY <1>3, <1>4, <1>5, <1>6
<1> QED BY <1>1, <1>2, <1>3, <1>7

-----------------------------------------------------------------------------
(* The processes.                                                          *)

LEMMA RemainingIsFinite ==
  /\ IsFiniteSet(Remaining) /\ Cardinality(Remaining) \in Nat
  /\ IsFiniteSet(Remaining') /\ Cardinality(Remaining') \in Nat
<1>1. Remaining \in SUBSET Files /\ Remaining' \in SUBSET Files
  BY DEF Remaining, Files
<1> QED BY <1>1, FilesAreFinite, FS_Subset, FS_CardinalityType

LEMMA MarkersAreFinite ==
  QueueIsSeq => IsFiniteSet(Markers) /\ Cardinality(Markers) \in Nat
BY PositionsAreFinite DEF QueueIsSeq, Markers

LEMMA EndInvInit == Init => EndInv
<1> SUFFICES ASSUME Init PROVE EndInv
  OBVIOUS
<1>1. Markers = {} /\ Remaining = Files
  BY DEF Init, Markers, Remaining
<1>2. Cardinality(Markers) = 0 /\ Cardinality(Remaining) = InFileCount
  BY <1>1, FilesAreFinite, FS_EmptySet
<1>3. EndMarkersAddUp
  BY <1>2, FilesAreFinite DEF Init, EndMarkersAddUp, Markers, Remaining
<1>4. QueueIsSeq
  BY EmptySeq DEF Init, QueueIsSeq
<1>5. ControlOK
  <2>1. /\ forked \in 0 .. InFileCount /\ completed_children_count \in Nat
        /\ next \in [Files -> Int]
    BY FilesAreFinite DEF Init
  <2>2. child_pc \in [Files -> {"unborn", "parse", "send", "exited", "failed"}]
    BY DEF Init
  <2>3. parent_pc = "fork" /\ stale \in BOOLEAN
    BY DEF Init
  <2> QED BY <2>1, <2>2, <2>3 DEF ControlOK
<1> QED BY <1>3, <1>4, <1>5
        DEF Init, EndInv, NotYetForked, Unlinked, MarkerComesLast, NothingLeftBehind

(* While the parent may still receive, an open run has no step of a child  *)
(* behind its back.                                                        *)
LEMMA ChildrenAreDone ==
  ASSUME EndInv, NEW i \in Files, run_child_actions(i), ~ stale
  PROVE  parent_pc \notin {"write", "done"}
BY DEF EndInv, NothingLeftBehind, run_child_actions, parse_file, send_pairs,
       send_end_marker

LEMMA EndInvParse ==
  ASSUME EndInv, NEW i \in Files, parse_file(i)
  PROVE  EndInv'
<1>1. /\ child_pc[i] = "parse"
      /\ \/ child_pc' = [child_pc EXCEPT ![i] = "send"]
         \/ child_pc' = [child_pc EXCEPT ![i] = "failed"]
      /\ UNCHANGED <<mq, linked, parent_pc, forked, completed_children_count, next, stale>>
  BY DEF parse_file, parentVars, runVars
<1>2. ControlOK'
  BY <1>1 DEF EndInv, ControlOK
<1>3. Remaining' = Remaining /\ Markers' = Markers
  BY <1>1 DEF EndInv, ControlOK, Remaining, Markers
<1>4. EndMarkersAddUp'
  BY <1>1, <1>3 DEF EndInv, EndMarkersAddUp, Remaining, Markers
<1>5. NotYetForked'
  BY <1>1 DEF EndInv, ControlOK, NotYetForked
<1>6. ~ stale' => MarkerComesLast'
  BY <1>1 DEF EndInv, ControlOK, MarkerComesLast
<1>7. NothingLeftBehind'
  BY <1>1, ChildrenAreDone DEF NothingLeftBehind, run_child_actions
<1> QED BY <1>1, <1>2, <1>4, <1>5, <1>6, <1>7 DEF EndInv, QueueIsSeq, Unlinked

LEMMA EndInvSend ==
  ASSUME EndInv, NEW i \in Files, send_pairs(i)
  PROVE  EndInv'
<1>1. PICK last \in next[i] .. Len(child_pairs[i]) :
        /\ mq' = Append(mq, [ pairs_count |-> last - next[i],
                              pairs |-> SubSeq(child_pairs[i], next[i] + 1, last) ])
        /\ next' = [next EXCEPT ![i] = NextAfter(child_pairs[i], last)]
  BY DEF send_pairs
<1> DEFINE n == last - next[i]
           m == [ pairs_count |-> n, pairs |-> SubSeq(child_pairs[i], next[i] + 1, last) ]
<1>2. /\ child_pc[i] = "send"
      /\ UNCHANGED <<linked, parent_pc, forked, completed_children_count, child_pc, stale>>
  BY DEF send_pairs, parentVars, runVars
<1>3. next[i] \in Int /\ last \in Int /\ n \in Nat
  BY <1>1 DEF EndInv, ControlOK
<1>4. m.pairs_count # MQ_EOF_VAL
  BY <1>3 DEF MQ_EOF_VAL
<1>5. PICK S : mq \in Seq(S)
  BY DEF EndInv, QueueIsSeq
<1>6. QueueIsSeq' /\ EofIn(mq)' = EofIn(mq)
  <2>1. (\E T : Append(mq, m) \in Seq(T)) /\ EofIn(Append(mq, m)) = EofIn(mq)
    <3> HIDE DEF m
    <3> QED BY <1>4, <1>5, EofOfAppend
  <2>2. mq' = Append(mq, m)
    BY <1>1
  <2> HIDE DEF m
  <2> QED BY <2>1, <2>2 DEF QueueIsSeq, EofIn
<1>7. ControlOK'
  <2>1. NextAfter(child_pairs[i], last) \in Int
    BY <1>3 DEF NextAfter
  <2> QED BY <1>1, <1>2, <2>1 DEF EndInv, ControlOK
<1>8. EndMarkersAddUp'
  <2>1. Markers' = Markers /\ Remaining' = Remaining
    BY <1>2, <1>6, MarkersIsEof DEF Remaining
  <2> QED BY <1>2, <2>1 DEF EndInv, EndMarkersAddUp, Remaining, Markers
<1>9. NotYetForked' /\ MarkerComesLast' /\ Unlinked'
  BY <1>2 DEF EndInv, NotYetForked, MarkerComesLast, Unlinked
<1>10. NothingLeftBehind'
  BY <1>2, ChildrenAreDone DEF NothingLeftBehind, run_child_actions
<1> QED BY <1>6, <1>7, <1>8, <1>9, <1>10 DEF EndInv

LEMMA EndInvMarker ==
  ASSUME EndInv, NEW i \in Files, send_end_marker(i)
  PROVE  EndInv'
<1> DEFINE m == [ pairs_count |-> MQ_EOF_VAL, pairs |-> <<>> ]
<1>1. /\ child_pc[i] = "send" /\ mq' = Append(mq, m)
      /\ child_pc' = [child_pc EXCEPT ![i] = "exited"]
      /\ UNCHANGED <<linked, parent_pc, forked, completed_children_count, next, stale>>
  BY DEF send_end_marker, parentVars, runVars
<1>2. m.pairs_count = MQ_EOF_VAL
  OBVIOUS
<1> HIDE DEF m
<1>3. PICK S : mq \in Seq(S)
  BY DEF EndInv, QueueIsSeq
<1>4. /\ QueueIsSeq' /\ mq'[Len(mq')] = m
      /\ Cardinality(Markers') = Cardinality(Markers) + 1
  <2>1. /\ \E T : Append(mq, m) \in Seq(T)
        /\ Append(mq, m)[Len(Append(mq, m))] = m
        /\ Cardinality(EofIn(Append(mq, m))) = Cardinality(EofIn(mq)) + 1
    BY <1>2, <1>3, EofOfAppend
  <2>2. EofIn(mq)' = EofIn(Append(mq, m))
    BY <1>1 DEF EofIn
  <2> QED BY <1>1, <2>1, <2>2, MarkersIsEof DEF QueueIsSeq
<1>5. Cardinality(Remaining') = Cardinality(Remaining) - 1
  <2>1. Remaining' = Remaining \ {i} /\ i \in Remaining
    BY <1>1 DEF EndInv, ControlOK, Remaining
  <2> QED BY <2>1, RemainingIsFinite, FS_RemoveElement
<1>6. ControlOK'
  BY <1>1 DEF EndInv, ControlOK
<1>7. EndMarkersAddUp'
  <2>1. /\ Cardinality(Markers) \in Nat /\ Cardinality(Remaining) \in Nat
        /\ completed_children_count \in Nat
    BY MarkersAreFinite, RemainingIsFinite DEF EndInv, ControlOK
  <2>2. ~ stale => InFileCount = completed_children_count + Cardinality(Markers)
                                  + Cardinality(Remaining)
    BY DEF EndInv, EndMarkersAddUp, Markers, Remaining
  <2>3. ~ stale' => InFileCount = completed_children_count' + Cardinality(Markers')
                                   + Cardinality(Remaining')
    BY <1>1, <1>4, <1>5, <2>1, <2>2
  <2> QED BY <2>3 DEF EndMarkersAddUp, Markers, Remaining
<1>8. NotYetForked'
  BY <1>1 DEF EndInv, ControlOK, NotYetForked
<1>9. MarkerComesLast'
  BY <1>2, <1>4 DEF MarkerComesLast
<1>10. NothingLeftBehind'
  BY <1>1, ChildrenAreDone DEF NothingLeftBehind, run_child_actions
<1> QED BY <1>1, <1>4, <1>6, <1>7, <1>8, <1>9, <1>10 DEF EndInv, Unlinked

LEMMA EndInvSpawn ==
  ASSUME EndInv, spawn_child_processes
  PROVE  EndInv'
<1>1. /\ parent_pc = "fork" /\ parent_pc' \in {"fork", "await", "failed"}
      /\ UNCHANGED <<mq, linked, completed_children_count, next, stale>>
      /\ \/ /\ forked < InFileCount /\ forked' = forked + 1
            /\ child_pc' = [child_pc EXCEPT ![forked + 1] = "parse"]
         \/ UNCHANGED <<forked, child_pc>>
  BY DEF spawn_child_processes, runVars
<1>2. /\ forked \in Nat /\ InFileCount \in Nat
      /\ forked < InFileCount => forked + 1 \in Files /\ child_pc[forked + 1] = "unborn"
  BY FilesAreFinite DEF EndInv, ControlOK, NotYetForked, Files
<1>3. ControlOK'
  BY <1>1, <1>2 DEF EndInv, ControlOK
<1>4. Remaining' = Remaining /\ Markers' = Markers
  BY <1>1, <1>2 DEF EndInv, ControlOK, Remaining, Markers
<1>5. EndMarkersAddUp'
  BY <1>1, <1>4 DEF EndInv, EndMarkersAddUp, Remaining, Markers
<1>6. NotYetForked'
  BY <1>1, <1>2 DEF EndInv, ControlOK, NotYetForked, Files
<1>7. ~ stale' => MarkerComesLast'
  BY <1>1, <1>2 DEF EndInv, ControlOK, MarkerComesLast
<1> QED BY <1>1, <1>3, <1>5, <1>6, <1>7
        DEF EndInv, QueueIsSeq, Unlinked, NothingLeftBehind

LEMMA EndInvReceive ==
  ASSUME EndInv, receive
  PROVE  EndInv'
<1>1. /\ parent_pc = "await" /\ mq # <<>> /\ mq' = Tail(mq)
      /\ completed_children_count' =
           IF Head(mq).pairs_count = MQ_EOF_VAL
           THEN completed_children_count + 1 ELSE completed_children_count
      /\ UNCHANGED <<linked, parent_pc, forked, child_pc, next, stale>>
  BY DEF receive, childVars, runVars
<1>2. PICK S : mq \in Seq(S)
  BY DEF EndInv, QueueIsSeq
<1>3. /\ mq' \in Seq(S)
      /\ mq' # <<>> => mq'[Len(mq')] = mq[Len(mq)]
      /\ Cardinality(Markers') \in Nat
      /\ Cardinality(Markers) = IF Head(mq).pairs_count = MQ_EOF_VAL
                                THEN Cardinality(Markers') + 1 ELSE Cardinality(Markers')
  <2>1. EofIn(mq)' = EofIn(Tail(mq))
    BY <1>1 DEF EofIn
  <2> QED BY <1>1, <1>2, <2>1, EofOfTail, MarkersIsEof
<1>4. ControlOK'
  BY <1>1 DEF EndInv, ControlOK
<1>5. EndMarkersAddUp'
  <2>1. Cardinality(Remaining) \in Nat /\ completed_children_count \in Nat
        /\ Remaining' = Remaining
    BY <1>1, RemainingIsFinite DEF EndInv, ControlOK, Remaining
  <2>2. ~ stale => InFileCount = completed_children_count + Cardinality(Markers)
                                  + Cardinality(Remaining)
    BY DEF EndInv, EndMarkersAddUp, Markers, Remaining
  <2>3. ~ stale' => InFileCount = completed_children_count' + Cardinality(Markers')
                                   + Cardinality(Remaining')
    BY <1>1, <1>3, <2>1, <2>2
  <2> QED BY <2>3 DEF EndMarkersAddUp, Markers, Remaining
<1>6. ~ stale' => MarkerComesLast'
  BY <1>1, <1>3 DEF EndInv, MarkerComesLast
<1>7. QueueIsSeq'
  BY <1>3 DEF QueueIsSeq
<1> QED BY <1>1, <1>4, <1>5, <1>6, <1>7
        DEF EndInv, NotYetForked, Unlinked, NothingLeftBehind

(* The parent leaves its loop with as many end markers as files: none is   *)
(* left in the queue, and no child has one to send.                        *)
LEMMA EndInvUnlink ==
  ASSUME EndInv, unlink
  PROVE  EndInv'
<1>1. /\ completed_children_count >= InFileCount
      /\ linked' = FALSE /\ parent_pc' = "write"
      /\ UNCHANGED <<mq, forked, completed_children_count, child_pc, next, stale>>
  BY DEF unlink, childVars, runVars
<1>2. ASSUME ~ stale PROVE mq = <<>> /\ \A i \in Files : child_pc[i] = "exited"
  <2>1. /\ Cardinality(Markers) \in Nat /\ Cardinality(Remaining) \in Nat
        /\ IsFiniteSet(Markers) /\ IsFiniteSet(Remaining)
        /\ completed_children_count \in Nat /\ InFileCount \in Nat
    BY MarkersAreFinite, RemainingIsFinite, FilesAreFinite DEF EndInv, ControlOK
  <2>2. InFileCount = completed_children_count + Cardinality(Markers)
                        + Cardinality(Remaining)
    BY <1>2 DEF EndInv, EndMarkersAddUp, Markers, Remaining
  <2>3. Cardinality(Markers) = 0 /\ Cardinality(Remaining) = 0
    BY <1>1, <2>1, <2>2
  <2>4. Markers = {} /\ Remaining = {}
    BY <2>1, <2>3, FS_EmptySet
  <2>5. \A i \in Files : child_pc[i] = "exited"
    BY <2>4 DEF Remaining
  <2>6. mq = <<>>
    <3> SUFFICES ASSUME mq # <<>> PROVE FALSE
      OBVIOUS
    <3>1. PICK S : mq \in Seq(S)
      BY DEF EndInv, QueueIsSeq
    <3>2. Len(mq) \in DOMAIN mq
      BY <3>1
    <3>3. mq[Len(mq)].pairs_count # MQ_EOF_VAL
      BY <2>4, <3>2 DEF Markers
    <3> QED BY <1>2, <2>5, <3>3 DEF EndInv, MarkerComesLast
  <2> QED BY <2>5, <2>6
<1>3. ControlOK'
  BY <1>1 DEF EndInv, ControlOK
<1> QED BY <1>1, <1>2, <1>3
        DEF EndInv, QueueIsSeq, NotYetForked, Unlinked, MarkerComesLast,
            EndMarkersAddUp, NothingLeftBehind

LEMMA EndInvWrite ==
  ASSUME EndInv, write_output_file \/ UNCHANGED vars
  PROVE  EndInv'
<1>1. /\ \/ parent_pc = "write" /\ parent_pc' \in {"done", "failed"}
         \/ parent_pc' = parent_pc
      /\ UNCHANGED <<mq, linked, forked, completed_children_count, child_pc, next, stale>>
  BY DEF write_output_file, vars, parentVars, childVars, runVars
<1>2. ControlOK'
  BY <1>1 DEF EndInv, ControlOK
<1> QED BY <1>1, <1>2
        DEF EndInv, QueueIsSeq, NotYetForked, Unlinked, MarkerComesLast,
            EndMarkersAddUp, NothingLeftBehind

LEMMA EndInvAgain ==
  ASSUME EndInv, run_again
  PROVE  EndInv'
<1>1. /\ mq' = (IF linked THEN mq ELSE <<>>) /\ stale' = (mq' # <<>>)
      /\ parent_pc' = "fork" /\ forked' = 0 /\ completed_children_count' = 0
      /\ child_pc' = [i \in Files |-> "unborn"] /\ next' = [i \in Files |-> 0]
  BY DEF run_again
<1>2. QueueIsSeq'
  BY <1>1, EmptySeq DEF EndInv, QueueIsSeq
<1>3. ControlOK'
  BY <1>1, FilesAreFinite DEF ControlOK
<1>4. ASSUME ~ stale' PROVE EndMarkersAddUp'
  <2>1. mq' = <<>>
    BY <1>1, <1>4, Zenon
  <2>2. Markers' = {}
    BY <2>1 DEF Markers
  <2>3. \A i \in Files : child_pc'[i] = "unborn"
    BY <1>1
  <2>4. Remaining' = Files
    BY <2>3 DEF Remaining
  <2>5. Cardinality(Markers') = 0 /\ Cardinality(Remaining') = InFileCount
    BY <2>2, <2>4, FilesAreFinite, FS_EmptySet
  <2> QED BY <1>1, <2>5, FilesAreFinite DEF EndMarkersAddUp, Markers, Remaining
<1>5. EndMarkersAddUp'
  BY <1>4 DEF EndMarkersAddUp
<1> QED BY <1>1, <1>2, <1>3, <1>5
        DEF EndInv, NotYetForked, Unlinked, MarkerComesLast, NothingLeftBehind

-----------------------------------------------------------------------------
(* The strengthened invariant holds in every run, interrupted or not.      *)
THEOREM EndInvariance == Spec => []EndInv
<1>1. EndInv /\ [Next]_vars => EndInv'
  BY EndInvParse, EndInvSend, EndInvMarker, EndInvSpawn, EndInvReceive, EndInvUnlink,
     EndInvWrite, EndInvAgain
     DEF Next, Parent, run_child_actions, Terminated
<1> QED BY <1>1, EndInvInit, PTL DEF Spec

(* Every end marker is counted, in the queue, or still to come.            *)
THEOREM MarkersAddUp == Spec => []EndMarkersAddUp
<1>1. EndInv => EndMarkersAddUp
  BY DEF EndInv
<1> QED BY <1>1, EndInvariance, PTL

(* When the parent stops, every child has exited and the queue is empty.   *)
THEOREM StopsAfterLastMessage == Spec => []NothingLeftBehind
<1>1. EndInv => NothingLeftBehind
  BY DEF EndInv
<1> QED BY <1>1, EndInvariance, PTL

(* A run that has come to its end leaves an empty queue to the next one.   *)
THEOREM LeavesCleanQueue == Spec => EndedRunsCleanUp
<1>1. EndInv /\ [Next]_vars => [parent_pc = "done" /\ runs' # runs => ~ stale']_vars
  <2> SUFFICES ASSUME EndInv, [Next]_vars, parent_pc = "done", runs' # runs
               PROVE  ~ stale'
    OBVIOUS
  <2>1. run_again
    BY DEF Next, Parent, spawn_child_processes, receive, unlink, write_output_file,
           run_child_actions, parse_file, send_pairs, send_end_marker, Terminated,
           vars, runVars
  <2> QED BY <2>1 DEF run_again, EndInv, Unlinked
<1> QED BY <1>1, EndInvariance, PTL DEF Spec, EndedRunsCleanUp
-----------------------------------------------------------------------------
(* The sums a message is filled by.                                        *)

(* h takes every set of indices to the sum of f over it, in the order in   *)
(* which SumFunction takes them.                                           *)
AnyOf(s) == CHOOSE x \in s : TRUE

SumsUp(h, f, S) ==
  \A s \in SUBSET S : h[s] = IF s = {} THEN 0 ELSE f[AnyOf(s)] + h[s \ {AnyOf(s)}]

SumsOf(h, f, S) ==
  h \in [SUBSET S -> Nat] /\ SumsUp(h, f, S) /\ SumFunction(f) = h[S]

(* The subsets of a finite set, one element less each time.                *)
LEMMA OneLess ==
  ASSUME NEW S, IsFiniteSet(S), NEW s \in SUBSET S
  PROVE  /\ IsFiniteSet(s) /\ Cardinality(s) \in Nat
         /\ Cardinality(s) = 0 <=> s = {}
         /\ s # {} => AnyOf(s) \in s
         /\ \A x \in s : /\ s \ {x} \in SUBSET S
                         /\ Cardinality(s \ {x}) = Cardinality(s) - 1
<1>1. IsFiniteSet(s) /\ Cardinality(s) \in Nat
  BY FS_Subset, FS_CardinalityType
<1>2. Cardinality(s) = 0 <=> s = {}
  BY <1>1, FS_EmptySet
<1>3. s # {} => AnyOf(s) \in s
  BY DEF AnyOf
<1>4. \A x \in s : s \ {x} \in SUBSET S /\ Cardinality(s \ {x}) = Cardinality(s) - 1
  BY <1>1, FS_RemoveElement
<1> QED BY <1>1, <1>2, <1>3, <1>4

LEMMA SumExists ==
  ASSUME NEW S, IsFiniteSet(S), NEW f \in [S -> Nat]
  PROVE  \E h : SumsOf(h, f, S)
<1> DEFINE Upto(k) == { s \in SUBSET S : Cardinality(s) <= k }
           Has(k) == \E h \in [Upto(k) -> Nat] :
                       \A s \in Upto(k) :
                         h[s] = IF s = {} THEN 0 ELSE f[AnyOf(s)] + h[s \ {AnyOf(s)}]
           Good == { k \in Nat : Has(k) }
<1>1. Has(0)
  <2> DEFINE h == [s \in Upto(0) |-> 0]
  <2>1. \A s \in Upto(0) : s = {}
    BY OneLess
  <2>2. h \in [Upto(0) -> Nat] /\ \A s \in Upto(0) : h[s] = 0
    OBVIOUS
  <2> HIDE DEF h
  <2> QED BY <2>1, <2>2
<1>2. ASSUME NEW k \in Nat, Has(k) PROVE Has(k + 1)
  <2>1. PICK g \in [Upto(k) -> Nat] :
          \A s \in Upto(k) :
            g[s] = IF s = {} THEN 0 ELSE f[AnyOf(s)] + g[s \ {AnyOf(s)}]
    BY <1>2
  <2> DEFINE h == [s \in Upto(k + 1) |->
                     IF s = {} THEN 0 ELSE f[AnyOf(s)] + g[s \ {AnyOf(s)}]]
  <2>2. ASSUME NEW s \in Upto(k + 1), s # {}
        PROVE  s \ {AnyOf(s)} \in Upto(k) /\ s \ {AnyOf(s)} \in Upto(k + 1)
                 /\ AnyOf(s) \in S
    <3>1. /\ AnyOf(s) \in s /\ s \ {AnyOf(s)} \in SUBSET S
          /\ Cardinality(s \ {AnyOf(s)}) = Cardinality(s) - 1
          /\ Cardinality(s) \in Nat
      BY <2>2, OneLess
    <3> QED BY <3>1
  <2>3. h \in [Upto(k + 1) -> Nat]
    <3>1. ASSUME NEW s \in Upto(k + 1), s # {} PROVE f[AnyOf(s)] + g[s \ {AnyOf(s)}] \in Nat
      <4>1. f[AnyOf(s)] \in Nat /\ g[s \ {AnyOf(s)}] \in Nat
        <5> HIDE DEF Upto
        <5> QED BY <2>1, <2>2, <3>1
      <4> QED BY <4>1
    <3> HIDE DEF Upto
    <3> QED BY <3>1
  <2>4. ASSUME NEW s \in Upto(k) PROVE h[s] = g[s]
    <3>1. s \in Upto(k + 1)
      BY OneLess
    <3> HIDE DEF Upto
    <3> QED BY <2>1, <3>1
  <2>5. ASSUME NEW s \in Upto(k + 1)
        PROVE  h[s] = IF s = {} THEN 0 ELSE f[AnyOf(s)] + h[s \ {AnyOf(s)}]
    <3>1. s # {} => h[s \ {AnyOf(s)}] = g[s \ {AnyOf(s)}]
      <4> HIDE DEF h, Upto
      <4> QED BY <2>2, <2>4
    <3> QED BY <3>1
  <2> HIDE DEF h, Upto
  <2> QED BY <2>3, <2>5
<1> HIDE DEF Has
<1>3. Nat \subseteq Good
  <2>1. 0 \in Good /\ \A n \in Nat : n \in Good => n + 1 \in Good
    BY <1>1, <1>2
  <2> HIDE DEF Good
  <2> QED BY <2>1, SetInduction
<1>4. Cardinality(S) \in Nat /\ Upto(Cardinality(S)) = SUBSET S
  <2>1. \A s \in SUBSET S : Cardinality(s) <= Cardinality(S)
    BY FS_Subset
  <2> QED BY <2>1, FS_CardinalityType
<1>5. PICK h \in [SUBSET S -> Nat] : SumsUp(h, f, S)
  <2>1. Has(Cardinality(S))
    BY <1>3, <1>4
  <2>2. \E h \in [Upto(Cardinality(S)) -> Nat] :
          \A s \in Upto(Cardinality(S)) :
            h[s] = IF s = {} THEN 0 ELSE f[AnyOf(s)] + h[s \ {AnyOf(s)}]
    BY <2>1 DEF Has
  <2> HIDE DEF Upto
  <2> QED BY <1>4, <2>2 DEF SumsUp
<1> DEFINE Folds(k) == k = [s \in SUBSET S |->
                              IF s = {} THEN 0 ELSE f[AnyOf(s)] + k[s \ {AnyOf(s)}]]
           chosen == CHOOSE k : Folds(k)
<1>6. Folds(h)
  <2> DEFINE body(s) == IF s = {} THEN 0 ELSE f[AnyOf(s)] + h[s \ {AnyOf(s)}]
  <2>1. \A s \in SUBSET S : h[s] = body(s)
    BY <1>5 DEF SumsUp
  <2> HIDE DEF body
  <2>2. h = [s \in SUBSET S |-> body(s)]
    BY <1>5, <2>1
  <2> QED BY <2>2 DEF body
<1>7. Folds(chosen)
  <2> HIDE DEF Folds
  <2> QED BY <1>6
<1>8. SumFunction(f) = chosen[S]
  <2>1. DOMAIN f = S
    OBVIOUS
  <2> QED BY <2>1 DEF SumFunction, SumFunctionOnSet, FoldFunctionOnSet, MapThenFoldSet, AnyOf
<1> HIDE DEF chosen
<1>9. SumsUp(chosen, f, S)
  BY <1>7, Zenon DEF SumsUp
<1>10. chosen[S] = h[S]
  <2> DEFINE Same == { k \in Nat : \A s \in SUBSET S :
                                     Cardinality(s) = k => chosen[s] = h[s] }
  <2> HIDE DEF Folds
  <2>1. 0 \in Same
    BY <1>5, <1>9, OneLess DEF SumsUp
  <2>2. ASSUME NEW k \in Nat, k \in Same PROVE k + 1 \in Same
    <3> SUFFICES ASSUME NEW s \in SUBSET S, Cardinality(s) = k + 1
                 PROVE  chosen[s] = h[s]
      OBVIOUS
    <3>1. /\ s # {} /\ AnyOf(s) \in s /\ s \ {AnyOf(s)} \in SUBSET S
          /\ Cardinality(s \ {AnyOf(s)}) = k
      BY OneLess
    <3>2. chosen[s \ {AnyOf(s)}] = h[s \ {AnyOf(s)}]
      BY <2>2, <3>1
    <3> QED BY <1>5, <1>9, <3>1, <3>2 DEF SumsUp
  <2>3. Nat \subseteq Same
    <3> HIDE DEF Same
    <3> QED BY <2>1, <2>2, SetInduction
  <2> QED BY <2>3, FS_CardinalityType
<1> QED BY <1>5, <1>8, <1>10 DEF SumsOf

(* Any element can be taken out of a sum first.                            *)
LEMMA SumOfRest ==
  ASSUME NEW S, IsFiniteSet(S), NEW f \in [S -> Nat],
         NEW h, SumsOf(h, f, S), NEW s \in SUBSET S, NEW x \in s
  PROVE  h[s] = f[x] + h[s \ {x}]
<1> DEFINE Good == { k \in Nat : \A q \in SUBSET S : \A y \in q :
                                   Cardinality(q) = k => h[q] = f[y] + h[q \ {y}] }
<1>0. h \in [SUBSET S -> Nat] /\ SumsUp(h, f, S)
  BY DEF SumsOf
<1>1. 0 \in Good
  BY OneLess
<1>2. ASSUME NEW k \in Nat, k \in Good PROVE k + 1 \in Good
  <2> SUFFICES ASSUME NEW q \in SUBSET S, NEW y \in q, Cardinality(q) = k + 1
               PROVE  h[q] = f[y] + h[q \ {y}]
    OBVIOUS
  <2> DEFINE c == AnyOf(q)
             less == q \ {c}
  <2>1. /\ c \in q /\ less \in SUBSET S /\ q \ {y} \in SUBSET S
        /\ Cardinality(less) = k /\ Cardinality(q \ {y}) = k
    BY OneLess
  <2>2. h[q] = f[c] + h[less]
    BY <1>0, <2>1 DEF SumsUp
  <2>3. CASE y = c
    BY <2>2, <2>3
  <2>4. CASE y # c
    <3>1. y \in less /\ c \in q \ {y} /\ less \ {y} = (q \ {y}) \ {c}
      BY <2>1, <2>4
    <3>2. h[less] = f[y] + h[less \ {y}]
      <4> HIDE DEF less
      <4> QED BY <1>2, <2>1, <3>1
    <3>3. h[q \ {y}] = f[c] + h[(q \ {y}) \ {c}]
      <4> HIDE DEF less, c
      <4> QED BY <1>2, <2>1, <3>1
    <3>4. /\ f[c] \in Nat /\ f[y] \in Nat /\ h[less \ {y}] \in Nat
      <4>1. less \ {y} \in SUBSET S
        OBVIOUS
      <4> QED BY <1>0, <2>1, <4>1
    <3> HIDE DEF less, c
    <3>5. h[q \ {y}] = f[c] + h[less \ {y}]
      BY <3>1, <3>3
    <3>6. PICK v : v = h[less \ {y}]
      OBVIOUS
    <3>7. PICK u, w : u = h[less] /\ w = h[q \ {y}]
      OBVIOUS
    <3> QED BY <2>2, <3>2, <3>4, <3>5, <3>6, <3>7
  <2> QED BY <2>3, <2>4
<1>3. Nat \subseteq Good
  <2> HIDE DEF Good
  <2> QED BY <1>1, <1>2, SetInduction
<1>4. Cardinality(s) \in Nat
  BY OneLess
<1>5. Cardinality(s) \in Good
  BY <1>3, <1>4
<1> QED BY <1>5

(* Sums over the same elements are the same.                               *)
LEMMA SumsAgree ==
  ASSUME NEW S, IsFiniteSet(S), NEW f, NEW h, SumsUp(h, f, S),
         NEW T, S \subseteq T, NEW g, NEW j, SumsUp(j, g, T),
         \A x \in S : f[x] = g[x]
  PROVE  h[S] = j[S]
<1> DEFINE Good == { k \in Nat : \A s \in SUBSET S : Cardinality(s) = k => h[s] = j[s] }
<1>1. 0 \in Good
  <2> SUFFICES ASSUME NEW s \in SUBSET S, Cardinality(s) = 0 PROVE h[s] = j[s]
    OBVIOUS
  <2>1. s = {} /\ s \in SUBSET T
    BY OneLess
  <2> QED BY <2>1 DEF SumsUp
<1>2. ASSUME NEW k \in Nat, k \in Good PROVE k + 1 \in Good
  <2> SUFFICES ASSUME NEW s \in SUBSET S, Cardinality(s) = k + 1 PROVE h[s] = j[s]
    OBVIOUS
  <2>1. /\ s # {} /\ AnyOf(s) \in s /\ s \ {AnyOf(s)} \in SUBSET S
        /\ Cardinality(s \ {AnyOf(s)}) = k
    BY OneLess
  <2>2. h[s \ {AnyOf(s)}] = j[s \ {AnyOf(s)}] /\ f[AnyOf(s)] = g[AnyOf(s)]
    BY <1>2, <2>1
  <2>3. s \in SUBSET T
    OBVIOUS
  <2> QED BY <2>1, <2>2, <2>3 DEF SumsUp
<1>3. Nat \subseteq Good
  <2> HIDE DEF Good
  <2> QED BY <1>1, <1>2, SetInduction
<1>4. Cardinality(S) \in Nat
  BY FS_CardinalityType
<1> QED BY <1>3, <1>4

(* A sum over an interval, and one number more.                            *)
LEMMA SumGrows ==
  ASSUME NEW a \in Nat, NEW b \in Nat, a <= b + 1,
         NEW f \in [a .. b -> Nat], NEW g \in [a .. b + 1 -> Nat],
         \A k \in a .. b : f[k] = g[k]
  PROVE  /\ SumFunction(f) \in Nat
         /\ SumFunction(g) = SumFunction(f) + g[b + 1]
<1> DEFINE S == a .. b
           T == a .. b + 1
<1>0. IsFiniteSet(S) /\ IsFiniteSet(T)
  BY FS_Interval
<1>1. /\ S \subseteq T
      /\ b + 1 \in T /\ T \ {b + 1} = S /\ S \in SUBSET S /\ T \in SUBSET T /\ S \in SUBSET T
  OBVIOUS
<1>2. f \in [S -> Nat] /\ g \in [T -> Nat] /\ \A k \in S : f[k] = g[k]
  OBVIOUS
<1> HIDE DEF S, T
<1>3. PICK h : SumsOf(h, f, S)
  BY <1>0, <1>2, SumExists
<1>4. PICK j : SumsOf(j, g, T)
  BY <1>0, <1>2, SumExists
<1>5. j[T] = g[b + 1] + j[S]
  <2>1. j[T] = g[b + 1] + j[T \ {b + 1}]
    BY <1>0, <1>1, <1>2, <1>4, SumOfRest
  <2> QED BY <1>1, <2>1
<1>6. h[S] = j[S]
  BY <1>0, <1>1, <1>2, <1>3, <1>4, SumsAgree DEF SumsOf
<1>7. h[S] \in Nat /\ j[S] \in Nat /\ g[b + 1] \in Nat
  BY <1>1, <1>2, <1>3, <1>4 DEF SumsOf
<1> QED BY <1>3, <1>4, <1>5, <1>6, <1>7 DEF SumsOf

LEMMA SumOfNone ==
  ASSUME NEW a \in Nat, NEW b \in Int, b < a, NEW f \in [a .. b -> Nat]
  PROVE  SumFunction(f) = 0
<1>1. a .. b = {} /\ IsFiniteSet({}) /\ f \in [{} -> Nat]
  BY FS_EmptySet
<1>2. PICK h : SumsOf(h, f, {})
  BY <1>1, SumExists
<1> QED BY <1>2 DEF SumsOf, SumsUp

LEMMA SumIsNatural ==
  ASSUME NEW S, IsFiniteSet(S), NEW f \in [S -> Nat]
  PROVE  SumFunction(f) \in Nat
<1>1. PICK h : SumsOf(h, f, S)
  BY SumExists
<1> QED BY <1>1 DEF SumsOf

-----------------------------------------------------------------------------
(* What a message holds.                                                   *)

UpperWords == { str_toupper[word] : word \in DOMAIN str_toupper }

LEMMA SizesAreSmall ==
  /\ MsgSize \in Nat /\ MsgSize >= 128
  /\ \A P \in Arrays(UpperWords) : \A k \in DOMAIN P :
       PairSize(P[k]) \in Nat /\ PairSize(P[k]) <= 68
<1>1. MsgSize \in Nat /\ MsgSize >= 128
  BY CliAssumption DEF ValidMsgSizes
<1>2. ASSUME NEW P \in Arrays(UpperWords), NEW k \in DOMAIN P
      PROVE  PairSize(P[k]) \in Nat /\ PairSize(P[k]) <= 68
  <2>1. P[k].word \in UpperWords
    BY PairsAreTyped
  <2>2. WordLength[P[k].word] \in 1 .. 63
    BY <2>1, CliAssumption DEF UpperWords
  <2> QED BY <2>2 DEF PairSize, SizeOfInt
<1> QED BY <1>1, <1>2

(* The bytes of some pairs, and of one more.                               *)
LEMMA BytesGrow ==
  ASSUME NEW P \in Arrays(UpperWords), NEW a \in Nat \ {0}, NEW b \in Nat,
         a <= b + 1, b <= Len(P)
  PROVE  /\ BytesOf(P, a, b) \in Nat
         /\ b < a => BytesOf(P, a, b) = 0
         /\ b < Len(P) => BytesOf(P, a, b + 1) = BytesOf(P, a, b) + PairSize(P[b + 1])
<1>1. Len(P) \in Nat /\ DOMAIN P = 1 .. Len(P)
  BY PairsAreTyped
<1> DEFINE sizes(m) == [k \in a .. m |-> PairSize(P[k])]
<1>2. ASSUME NEW m \in Nat, m <= Len(P) PROVE sizes(m) \in [a .. m -> Nat]
  <2>1. \A k \in a .. m : k \in DOMAIN P
    BY <1>1, <1>2
  <2>2. \A k \in a .. m : PairSize(P[k]) \in Nat
    BY <2>1, SizesAreSmall
  <2> QED BY <2>2
<1>3. BytesOf(P, a, b) = SumFunction(sizes(b)) /\ BytesOf(P, a, b + 1) = SumFunction(sizes(b + 1))
  BY DEF BytesOf
<1>4. IsFiniteSet(a .. b)
  BY FS_Interval
<1>5. BytesOf(P, a, b) \in Nat
  <2>1. sizes(b) \in [a .. b -> Nat]
    BY <1>2
  <2> HIDE DEF sizes
  <2> QED BY <1>3, <1>4, <2>1, SumIsNatural
<1>6. ASSUME b < a PROVE BytesOf(P, a, b) = 0
  <2>1. sizes(b) \in [a .. b -> Nat]
    BY <1>2
  <2> HIDE DEF sizes
  <2> QED BY <1>3, <1>6, <2>1, SumOfNone
<1>7. ASSUME b < Len(P)
      PROVE  BytesOf(P, a, b + 1) = BytesOf(P, a, b) + PairSize(P[b + 1])
  <2>1. sizes(b) \in [a .. b -> Nat] /\ sizes(b + 1) \in [a .. b + 1 -> Nat]
    BY <1>1, <1>2, <1>7
  <2>2. /\ \A k \in a .. b : sizes(b)[k] = sizes(b + 1)[k]
        /\ sizes(b + 1)[b + 1] = PairSize(P[b + 1])
    OBVIOUS
  <2> HIDE DEF sizes
  <2>3. PICK f \in [a .. b -> Nat] : f = sizes(b)
    BY <2>1
  <2>4. PICK g \in [a .. b + 1 -> Nat] : g = sizes(b + 1)
    BY <2>1
  <2>5. SumFunction(g) = SumFunction(f) + g[b + 1]
    BY <2>2, <2>3, <2>4, SumGrows
  <2> QED BY <1>3, <2>2, <2>3, <2>4, <2>5
<1> QED BY <1>5, <1>6, <1>7

(* More pairs take more bytes.                                             *)
LEMMA BytesIncrease ==
  ASSUME NEW P \in Arrays(UpperWords), NEW a \in Nat \ {0}, NEW b \in Nat, NEW c \in Nat,
         a <= b + 1, b <= c, c <= Len(P)
  PROVE  BytesOf(P, a, b) <= BytesOf(P, a, c)
<1> DEFINE Good == { k \in Nat : b + k <= Len(P) => BytesOf(P, a, b) <= BytesOf(P, a, b + k) }
<1>0. Len(P) \in Nat /\ DOMAIN P = 1 .. Len(P)
  BY PairsAreTyped
<1>1. 0 \in Good
  BY BytesGrow
<1>2. ASSUME NEW k \in Nat, k \in Good PROVE k + 1 \in Good
  <2> SUFFICES ASSUME b + (k + 1) <= Len(P)
               PROVE  BytesOf(P, a, b) <= BytesOf(P, a, b + (k + 1))
    OBVIOUS
  <2>1. PICK m \in Nat : m = b + k
    OBVIOUS
  <2>2. m < Len(P) /\ a <= m + 1 /\ m + 1 \in DOMAIN P /\ b + (k + 1) = m + 1
    BY <1>0, <2>1
  <2>3. /\ BytesOf(P, a, m) \in Nat /\ BytesOf(P, a, b) \in Nat
        /\ BytesOf(P, a, m + 1) = BytesOf(P, a, m) + PairSize(P[m + 1])
        /\ PairSize(P[m + 1]) \in Nat
    <3>1. m <= Len(P) /\ b <= Len(P)
      BY <1>0, <2>1, <2>2
    <3>2. BytesOf(P, a, b) \in Nat
      BY <3>1, BytesGrow
    <3>3. /\ BytesOf(P, a, m) \in Nat
          /\ BytesOf(P, a, m + 1) = BytesOf(P, a, m) + PairSize(P[m + 1])
      <4>1. PICK n \in Nat : n = m /\ a <= n + 1 /\ n <= Len(P) /\ n < Len(P)
        BY <2>2, <3>1
      <4> QED BY <4>1, BytesGrow
    <3>4. PairSize(P[m + 1]) \in Nat
      BY <2>2, SizesAreSmall
    <3> QED BY <3>2, <3>3, <3>4
  <2>4. BytesOf(P, a, b) <= BytesOf(P, a, m)
    BY <1>2, <2>1, <2>2, <1>0
  <2> QED BY <2>2, <2>3, <2>4
<1>3. Nat \subseteq Good
  <2> HIDE DEF Good
  <2> QED BY <1>1, <1>2, SetInduction
<1>4. c - b \in Nat /\ b + (c - b) = c
  OBVIOUS
<1>5. c - b \in Good
  BY <1>3, <1>4
<1> QED BY <1>4, <1>5

(* A message that is left has room for one pair at least, and where it     *)
(* ends is determined by where it starts.                                  *)
LEMMA MessagesFill ==
  ASSUME NEW P \in Arrays(UpperWords), NEW n \in Nat, n <= Len(P)
  PROVE  /\ \A last \in n .. Len(P) : n # Len(P) /\ FillsMessage(P, n, last) => n < last
         /\ \A x, y \in n .. Len(P) :
              FillsMessage(P, n, x) /\ FillsMessage(P, n, y) => x = y
<1>0. Len(P) \in Nat /\ DOMAIN P = 1 .. Len(P)
  BY PairsAreTyped
<1>1. ASSUME n # Len(P), FillsMessage(P, n, n) PROVE FALSE
  <2>1. n + 1 \in DOMAIN P /\ n < Len(P)
    <3>1. n < Len(P)
      <4>1. PICK L \in Nat : L = Len(P)
        BY <1>0
      <4>2. n <= L /\ n # L
        BY <1>1, <4>1
      <4>3. n < L
        BY <4>2
      <4> QED BY <4>1, <4>3
    <3>2. n + 1 \in 1 .. Len(P)
      BY <1>0, <3>1
    <3> QED BY <1>0, <3>1, <3>2
  <2>2. /\ BytesOf(P, n + 1, n) = 0
        /\ BytesOf(P, n + 1, n + 1) = BytesOf(P, n + 1, n) + PairSize(P[n + 1])
    BY <2>1, <1>0, BytesGrow
  <2>3. PairSize(P[n + 1]) \in Nat /\ PairSize(P[n + 1]) <= 68 /\ MsgSize \in Nat /\ MsgSize >= 128
    BY <2>1, SizesAreSmall
  <2> QED BY <1>1, <2>1, <2>2, <2>3 DEF FillsMessage, SizeOfInt
<1>2. ASSUME NEW x \in n .. Len(P), NEW y \in n .. Len(P), x < y,
             FillsMessage(P, n, x), FillsMessage(P, n, y)
      PROVE  FALSE
  <2>1. x \in Nat /\ y \in Nat /\ x < Len(P) /\ x + 1 <= y /\ n + 1 \in Nat \ {0}
    BY <1>0, <1>2
  <2>2. BytesOf(P, n + 1, x + 1) <= BytesOf(P, n + 1, y)
    BY <2>1, BytesIncrease
  <2>3. BytesOf(P, n + 1, x + 1) \in Nat /\ BytesOf(P, n + 1, y) \in Nat /\ MsgSize \in Nat
    BY <1>0, <2>1, BytesGrow, SizesAreSmall
  <2>4. /\ SizeOfInt + BytesOf(P, n + 1, x + 1) > MsgSize
        /\ SizeOfInt + BytesOf(P, n + 1, y) <= MsgSize
    BY <1>2, <2>1 DEF FillsMessage
  <2> QED BY <2>2, <2>3, <2>4 DEF SizeOfInt
<1>3. ASSUME NEW x \in n .. Len(P), NEW y \in n .. Len(P),
             FillsMessage(P, n, x), FillsMessage(P, n, y)
      PROVE  x = y
  <2>1. x < y \/ y < x \/ x = y
    OBVIOUS
  <2> QED BY <1>2, <1>3, <2>1
<1>4. ASSUME NEW last \in n .. Len(P), n # Len(P), FillsMessage(P, n, last)
      PROVE  n < last
  <2>1. n = last \/ n < last
    OBVIOUS
  <2> QED BY <1>1, <1>4, <2>1
<1> QED BY <1>3, <1>4

-----------------------------------------------------------------------------
(* Types.                                                                  *)

QueuedMessage == [ pairs_count : {MQ_EOF_VAL} \cup Nat, pairs : Arrays(UpperWords) ]

QueueTyped ==
  /\ mq \in Seq(QueuedMessage) /\ Len(mq) <= MqMaxMsg
  /\ \A k \in DOMAIN mq : mq[k].pairs_count \in {MQ_EOF_VAL, Len(mq[k].pairs)} \ {0}

ChildrenTyped ==
  /\ child_pc \in [Files -> {"unborn", "parse", "send", "exited", "failed"}]
  /\ child_pairs \in [Files -> Arrays(UpperWords)]
  /\ next \in [Files -> Nat]
  /\ \A i \in Files : next[i] <= Len(child_pairs[i])

ParentTyped ==
  /\ linked \in BOOLEAN
  /\ parent_pc \in {"fork", "await", "write", "done", "failed"}
  /\ forked \in 0 .. InFileCount
  /\ completed_children_count \in 0 .. InFileCount
  /\ pair_array \in Arrays(UpperWords)
  /\ runs \in 1 .. MaxRuns /\ stale \in BOOLEAN

(* A child sends the words of its own file, from the first to the last.    *)
ChildrenFollowFiles ==
  \A i \in Files :
    /\ child_pc[i] \in {"send", "exited"} =>
         child_pairs[i] = parse_in_file(FileContents[i], str_toupper)
    /\ child_pc[i] \notin {"send", "exited"} => next[i] = 0
    /\ child_pc[i] = "exited" => next[i] = Len(child_pairs[i])

TypeInv == QueueTyped /\ ChildrenTyped /\ ParentTyped /\ ChildrenFollowFiles

(* What the child of a file finds in it.                                   *)
LEMMA FileCounts ==
  ASSUME NEW i \in Files
  PROVE  CountsText(parse_in_file(FileContents[i], str_toupper), UpperWords,
                    FileContents[i], str_toupper)
<1>1. \A x \in DOMAIN str_toupper : str_toupper[x] \in UpperWords
  BY DEF UpperWords
<1>2. FileContents[i] \in Seq(DOMAIN str_toupper)
  BY CliAssumption
<1> QED BY <1>1, <1>2, ParsedCounts

LEMMA TypeInvInit == Init => TypeInv
<1> SUFFICES ASSUME Init PROVE TypeInv
  OBVIOUS
<1>1. <<>> \in Arrays(UpperWords) /\ Len(<<>>) = 0
  BY EmptyArray
<1>2. QueueTyped
  BY CliAssumption, EmptySeq DEF Init, QueueTyped
<1>3. ChildrenTyped
  BY <1>1 DEF Init, ChildrenTyped
<1>4. ParentTyped
  <2>1. forked \in 0 .. InFileCount /\ completed_children_count \in 0 .. InFileCount
    BY FilesAreFinite DEF Init
  <2>2. runs \in 1 .. MaxRuns
    BY CliAssumption DEF Init
  <2> QED BY <1>1, <2>1, <2>2 DEF Init, ParentTyped
<1>5. ChildrenFollowFiles
  BY DEF Init, ChildrenFollowFiles
<1> QED BY <1>2, <1>3, <1>4, <1>5 DEF TypeInv

LEMMA TypeInvParse ==
  ASSUME TypeInv, NEW i \in Files, parse_file(i)
  PROVE  TypeInv'
<1>1. /\ child_pc[i] = "parse" /\ next[i] = 0
      /\ UNCHANGED <<mq, linked, parent_pc, forked, completed_children_count, pair_array,
                     next, runs, stale>>
  BY DEF parse_file, parentVars, runVars, TypeInv, ChildrenFollowFiles
<1>2. QueueTyped' /\ ParentTyped'
  BY <1>1 DEF TypeInv, QueueTyped, ParentTyped
<1>3. CASE /\ child_pairs' = [child_pairs EXCEPT ![i] =
                                parse_in_file(FileContents[i], str_toupper)]
           /\ child_pc' = [child_pc EXCEPT ![i] = "send"]
  <2>1. parse_in_file(FileContents[i], str_toupper) \in Arrays(UpperWords)
    BY FileCounts DEF CountsText
  <2>2. Len(parse_in_file(FileContents[i], str_toupper)) \in Nat
    BY <2>1, PairsAreTyped
  <2>3. ChildrenTyped'
    BY <1>1, <1>3, <2>1, <2>2 DEF TypeInv, ChildrenTyped
  <2>4. ChildrenFollowFiles'
    BY <1>1, <1>3 DEF TypeInv, ChildrenTyped, ChildrenFollowFiles
  <2> QED BY <1>2, <2>3, <2>4 DEF TypeInv
<1>4. CASE child_pc' = [child_pc EXCEPT ![i] = "failed"] /\ UNCHANGED child_pairs
  BY <1>1, <1>2, <1>4 DEF TypeInv, ChildrenTyped, ChildrenFollowFiles
<1> QED BY <1>3, <1>4 DEF parse_file

(* The message a child sends, and where it goes on.                        *)
LEMMA SentMessage ==
  ASSUME TypeInv, NEW i \in Files, send_pairs(i)
  PROVE  \E last \in Nat :
           /\ next[i] < last /\ last <= Len(child_pairs[i])
           /\ FillsMessage(child_pairs[i], next[i], last)
           /\ mq' = Append(mq, [ pairs_count |-> last - next[i],
                                 pairs |-> SubSeq(child_pairs[i], next[i] + 1, last) ])
           /\ next' = [next EXCEPT ![i] = NextAfter(child_pairs[i], last)]
           /\ SubSeq(child_pairs[i], next[i] + 1, last) \in Arrays(UpperWords)
           /\ Len(SubSeq(child_pairs[i], next[i] + 1, last)) = last - next[i]
<1>1. PICK last \in next[i] .. Len(child_pairs[i]) :
        /\ FillsMessage(child_pairs[i], next[i], last)
        /\ mq' = Append(mq, [ pairs_count |-> last - next[i],
                              pairs |-> SubSeq(child_pairs[i], next[i] + 1, last) ])
        /\ next' = [next EXCEPT ![i] = NextAfter(child_pairs[i], last)]
  BY DEF send_pairs
<1>2. /\ child_pairs[i] \in Arrays(UpperWords) /\ next[i] \in Nat
      /\ next[i] <= Len(child_pairs[i]) /\ next[i] # Len(child_pairs[i])
  BY DEF TypeInv, ChildrenTyped, send_pairs
<1>3. Len(child_pairs[i]) \in Nat
  BY <1>2, PairsAreTyped
<1>4. next[i] < last /\ last \in Nat /\ last <= Len(child_pairs[i])
  BY <1>1, <1>2, <1>3, MessagesFill
<1>5. /\ SubSeq(child_pairs[i], next[i] + 1, last) \in Arrays(UpperWords)
      /\ Len(SubSeq(child_pairs[i], next[i] + 1, last)) = last - next[i]
  BY <1>2, <1>4, PartOfArray
<1> QED BY <1>1, <1>4, <1>5

(* A message more is typed like the others.                                *)
LEMMA QueueGrows ==
  ASSUME QueueTyped, Len(mq) < MqMaxMsg, NEW m \in QueuedMessage, mq' = Append(mq, m),
         m.pairs_count \in {MQ_EOF_VAL, Len(m.pairs)} \ {0}
  PROVE  QueueTyped'
<1>1. /\ mq' \in Seq(QueuedMessage) /\ Len(mq') = Len(mq) + 1 /\ Len(mq) \in Nat
      /\ mq'[Len(mq')] = m
      /\ \A k \in 1 .. Len(mq) : mq'[k] = mq[k]
  BY AppendProperties DEF QueueTyped
<1>2. DOMAIN mq' = 1 .. Len(mq) + 1 /\ DOMAIN mq = 1 .. Len(mq)
  BY <1>1 DEF QueueTyped
<1>3. Len(mq') <= MqMaxMsg
  BY <1>1, CliAssumption
<1>4. ASSUME NEW k \in DOMAIN mq'
      PROVE  mq'[k].pairs_count \in {MQ_EOF_VAL, Len(mq'[k].pairs)} \ {0}
  <2>1. CASE k = Len(mq) + 1
    BY <1>1, <2>1
  <2>2. CASE k \in 1 .. Len(mq)
    BY <1>1, <1>2, <2>2 DEF QueueTyped
  <2> QED BY <1>1, <1>2, <2>1, <2>2
<1> QED BY <1>1, <1>3, <1>4 DEF QueueTyped

LEMMA TypeInvSend ==
  ASSUME TypeInv, NEW i \in Files, send_pairs(i)
  PROVE  TypeInv'
<1>1. PICK last \in Nat :
        /\ next[i] < last /\ last <= Len(child_pairs[i])
        /\ mq' = Append(mq, [ pairs_count |-> last - next[i],
                              pairs |-> SubSeq(child_pairs[i], next[i] + 1, last) ])
        /\ next' = [next EXCEPT ![i] = NextAfter(child_pairs[i], last)]
        /\ SubSeq(child_pairs[i], next[i] + 1, last) \in Arrays(UpperWords)
        /\ Len(SubSeq(child_pairs[i], next[i] + 1, last)) = last - next[i]
  BY SentMessage
<1>2. /\ child_pc[i] = "send" /\ Len(mq) < MqMaxMsg
      /\ UNCHANGED <<linked, parent_pc, forked, completed_children_count, pair_array,
                     child_pc, child_pairs, runs, stale>>
  BY DEF send_pairs, parentVars, runVars
<1>3. next[i] \in Nat /\ Len(child_pairs[i]) \in Nat
  <2>1. child_pairs[i] \in Arrays(UpperWords) /\ next[i] \in Nat
    BY DEF TypeInv, ChildrenTyped
  <2> QED BY <2>1, PairsAreTyped
<1>4. QueueTyped'
  <2> DEFINE m == [ pairs_count |-> last - next[i],
                    pairs |-> SubSeq(child_pairs[i], next[i] + 1, last) ]
  <2>1. m.pairs_count = Len(m.pairs) /\ m.pairs_count # 0 /\ m \in QueuedMessage
    BY <1>1, <1>3 DEF QueuedMessage
  <2>2. mq' = Append(mq, m)
    BY <1>1
  <2> HIDE DEF m
  <2> QED BY <1>2, <2>1, <2>2, QueueGrows DEF TypeInv
<1>5. NextAfter(child_pairs[i], last) \in Nat
        /\ NextAfter(child_pairs[i], last) <= Len(child_pairs[i])
  BY <1>1, <1>3 DEF NextAfter
<1>6. ChildrenTyped'
  BY <1>1, <1>2, <1>5 DEF TypeInv, ChildrenTyped
<1>7. ParentTyped' /\ ChildrenFollowFiles'
  BY <1>1, <1>2 DEF TypeInv, ParentTyped, ChildrenTyped, ChildrenFollowFiles
<1> QED BY <1>4, <1>6, <1>7 DEF TypeInv

LEMMA TypeInvMarker ==
  ASSUME TypeInv, NEW i \in Files, send_end_marker(i)
  PROVE  TypeInv'
<1> DEFINE m == [ pairs_count |-> MQ_EOF_VAL, pairs |-> <<>> ]
<1>1. /\ child_pc[i] = "send" /\ next[i] = Len(child_pairs[i])
      /\ Len(mq) < MqMaxMsg /\ mq' = Append(mq, m)
      /\ child_pc' = [child_pc EXCEPT ![i] = "exited"]
      /\ UNCHANGED <<linked, parent_pc, forked, completed_children_count, pair_array,
                     child_pairs, next, runs, stale>>
  BY DEF send_end_marker, parentVars, runVars
<1>2. m \in QueuedMessage /\ m.pairs_count = MQ_EOF_VAL /\ m.pairs_count # 0
  BY EmptyArray DEF QueuedMessage, MQ_EOF_VAL
<1> HIDE DEF m
<1>3. QueueTyped'
  BY <1>1, <1>2, QueueGrows DEF TypeInv
<1>4. ChildrenTyped' /\ ParentTyped' /\ ChildrenFollowFiles'
  BY <1>1 DEF TypeInv, ParentTyped, ChildrenTyped, ChildrenFollowFiles
<1> QED BY <1>3, <1>4 DEF TypeInv

LEMMA TypeInvSpawn ==
  ASSUME TypeInv, EndInv, spawn_child_processes
  PROVE  TypeInv'
<1>1. /\ parent_pc' \in {"fork", "await", "failed"}
      /\ UNCHANGED <<mq, linked, completed_children_count, pair_array, child_pairs, next,
                     runs, stale>>
      /\ \/ /\ forked < InFileCount /\ forked' = forked + 1
            /\ child_pc' = [child_pc EXCEPT ![forked + 1] = "parse"]
         \/ UNCHANGED <<forked, child_pc>>
  BY DEF spawn_child_processes, runVars
<1>2. /\ forked \in Nat /\ InFileCount \in Nat
      /\ forked < InFileCount => forked + 1 \in Files /\ child_pc[forked + 1] = "unborn"
  BY FilesAreFinite DEF EndInv, ControlOK, NotYetForked, Files
<1>3. QueueTyped'
  BY <1>1 DEF TypeInv, QueueTyped
<1>4. ChildrenTyped'
  BY <1>1 DEF TypeInv, ChildrenTyped
<1>5. ParentTyped'
  BY <1>1, <1>2 DEF TypeInv, ParentTyped
<1>6. ChildrenFollowFiles'
  BY <1>1, <1>2 DEF TypeInv, ChildrenTyped, ChildrenFollowFiles
<1> QED BY <1>3, <1>4, <1>5, <1>6 DEF TypeInv

LEMMA TypeInvReceive ==
  ASSUME TypeInv, receive
  PROVE  TypeInv'
<1>1. /\ completed_children_count < InFileCount /\ mq # <<>> /\ mq' = Tail(mq)
      /\ \/ /\ completed_children_count' = completed_children_count + 1
            /\ UNCHANGED pair_array
         \/ /\ pair_array' = add_array_to_array(pair_array, Head(mq).pairs)
            /\ UNCHANGED completed_children_count
      /\ UNCHANGED <<linked, parent_pc, forked, child_pc, child_pairs, next, runs, stale>>
  BY DEF receive, childVars, runVars
<1>2. /\ mq' \in Seq(QueuedMessage) /\ Len(mq') = Len(mq) - 1 /\ Len(mq) \in Nat \ {0}
      /\ Head(mq) = mq[1] /\ Head(mq) \in QueuedMessage
      /\ \A k \in 1 .. Len(mq') : mq'[k] = mq[k + 1]
  BY <1>1, HeadTailProperties DEF TypeInv, QueueTyped
<1>3. QueueTyped'
  <2>1. DOMAIN mq' = 1 .. Len(mq) - 1 /\ DOMAIN mq = 1 .. Len(mq)
    BY <1>2 DEF TypeInv, QueueTyped
  <2>2. \A k \in DOMAIN mq' : k + 1 \in DOMAIN mq /\ mq'[k] = mq[k + 1]
    BY <1>2, <2>1
  <2>3. Len(mq') <= MqMaxMsg
    BY <1>2, CliAssumption DEF TypeInv, QueueTyped
  <2> QED BY <1>2, <2>2, <2>3 DEF TypeInv, QueueTyped
<1>4. add_array_to_array(pair_array, Head(mq).pairs) \in Arrays(UpperWords)
  <2>1. Head(mq).pairs \in Arrays(UpperWords) /\ pair_array \in Arrays(UpperWords)
    BY <1>2 DEF QueuedMessage, TypeInv, ParentTyped
  <2> QED BY <2>1, AddedCounts
<1>5. ParentTyped'
  BY <1>1, <1>4, FilesAreFinite DEF TypeInv, ParentTyped
<1>6. ChildrenTyped' /\ ChildrenFollowFiles'
  BY <1>1 DEF TypeInv, ChildrenTyped, ChildrenFollowFiles
<1> QED BY <1>3, <1>5, <1>6 DEF TypeInv

LEMMA TypeInvElse ==
  ASSUME TypeInv, unlink \/ write_output_file \/ UNCHANGED vars
  PROVE  TypeInv'
<1>1. /\ linked' \in {linked, FALSE}
      /\ parent_pc' \in {parent_pc, "write", "done", "failed"}
      /\ UNCHANGED <<mq, forked, pair_array, completed_children_count, child_pc, child_pairs,
                     next, runs, stale>>
  BY DEF unlink, write_output_file, vars, parentVars, childVars, runVars
<1> QED BY <1>1
        DEF TypeInv, QueueTyped, ParentTyped, ChildrenTyped, ChildrenFollowFiles

LEMMA TypeInvAgain ==
  ASSUME TypeInv, run_again
  PROVE  TypeInv'
<1>1. /\ runs < MaxRuns /\ runs' = runs + 1
      /\ mq' = (IF linked THEN mq ELSE <<>>) /\ stale' = (mq' # <<>>) /\ linked' = TRUE
      /\ parent_pc' = "fork" /\ forked' = 0
      /\ pair_array' = <<>> /\ completed_children_count' = 0
      /\ child_pc' = [i \in Files |-> "unborn"]
      /\ child_pairs' = [i \in Files |-> <<>>] /\ next' = [i \in Files |-> 0]
  BY DEF run_again
<1>2. <<>> \in Arrays(UpperWords) /\ Len(<<>>) = 0
  BY EmptyArray
<1>3. QueueTyped'
  <2>1. CASE mq' = mq
    BY <2>1 DEF TypeInv, QueueTyped
  <2>2. CASE mq' = <<>>
    BY <2>2, CliAssumption, EmptySeq DEF QueueTyped
  <2> QED BY <1>1, <2>1, <2>2
<1>4. ChildrenTyped'
  BY <1>1, <1>2 DEF ChildrenTyped
<1>5. ParentTyped'
  BY <1>1, <1>2, CliAssumption, FilesAreFinite DEF TypeInv, ParentTyped
<1>6. ChildrenFollowFiles'
  BY <1>1 DEF ChildrenFollowFiles
<1> QED BY <1>3, <1>4, <1>5, <1>6 DEF TypeInv

THEOREM TypeInvariance == Spec => [](EndInv /\ TypeInv)
<1>1. EndInv /\ TypeInv /\ [Next]_vars => TypeInv'
  BY TypeInvParse, TypeInvSend, TypeInvMarker, TypeInvSpawn, TypeInvReceive, TypeInvElse,
     TypeInvAgain
     DEF Next, Parent, run_child_actions, Terminated
<1> QED BY <1>1, EndInvariance, TypeInvInit, PTL DEF Spec

(* The queue keeps to its limit, every message but an end marker carries a *)
(* pair, and no child reads behind its array.                              *)
THEOREM QueueKeepsLimit == Spec => []TypeOK
<1>1. QueuedMessage \subseteq Message
  <2>1. UpperWords \subseteq DOMAIN WordLength
    BY CliAssumption DEF UpperWords
  <2> DEFINE Pairs == [word : UpperWords, count : Nat \ {0}]
             All == [word : DOMAIN WordLength, count : Nat \ {0}]
  <2>2. Pairs \subseteq All
    BY <2>1
  <2>3. Arrays(UpperWords) \subseteq Seq(Pairs)
    BY DEF Arrays
  <2>4. Seq(Pairs) \subseteq Seq(All)
    <3> HIDE DEF Pairs, All
    <3> QED BY <2>2, SeqMonotonic
  <2> HIDE DEF Pairs
  <2> QED BY <2>3, <2>4 DEF QueuedMessage, Message
<1>2. TypeInv => TypeOK
  <2> SUFFICES ASSUME TypeInv PROVE TypeOK
    OBVIOUS
  <2>1. mq \in Seq(Message)
    BY <1>1, SeqMonotonic DEF TypeInv, QueueTyped
  <2>2. ASSUME NEW i \in Files PROVE next[i] \in 0 .. Len(child_pairs[i])
    <3>1. child_pairs[i] \in Arrays(UpperWords) /\ next[i] \in Nat
            /\ next[i] <= Len(child_pairs[i])
      BY DEF TypeInv, ChildrenTyped
    <3>2. Len(child_pairs[i]) \in Nat
      BY <3>1, PairsAreTyped
    <3> QED BY <3>1, <3>2
  <2> QED BY <2>1, <2>2 DEF TypeInv, QueueTyped, ChildrenTyped, ParentTyped, TypeOK
<1> QED BY <1>2, TypeInvariance, PTL

-----------------------------------------------------------------------------
(* The occurrences of a word: received, in the queue, and sent by each     *)
(* child.                                                                  *)

(* x is what a child may have sent of a word when the n-th pair is the     *)
(* last it is done with: once every pair up to there, again those a        *)
(* message ended with, and perhaps the next one for the first time.        *)
(* Nothing is said of a child whose message has room for one pair alone:   *)
(* it sends that pair for ever.                                            *)
SentBounds(P, n, split, x, word) ==
  \/ n + 1 < Len(P) /\ FillsMessage(P, n, n + 1)
  \/ /\ word \notin Words(P) => x = 0
     /\ \A k \in DOMAIN P :
          P[k].word = word =>
            IF k <= n
            THEN P[k].count <= x /\ x <= P[k].count + (IF split THEN P[k].count ELSE 0)
            ELSE IF k = n + 1 /\ split THEN x <= P[k].count ELSE x = 0

SentOf(i, x, word) ==
  IF child_pc[i] \in {"send", "exited"}
  THEN SentBounds(child_pairs[i], next[i], i \in SplitFiles, x, word) ELSE x = 0

(* What the parent has of a word after every message of the queue, one by  *)
(* one, and what the children have sent of it, one by one.                 *)
QueueSums(q, word) ==
  /\ q \in [0 .. Len(mq) -> Nat]
  /\ q[0] = CountOf(pair_array, word)
  /\ \A k \in 1 .. Len(mq) : q[k] = q[k - 1] + CountOf(mq[k].pairs, word)

ChildSums(s, sent) ==
  /\ sent \in [Files -> Nat] /\ s \in [0 .. InFileCount -> Nat] /\ s[0] = 0
  /\ \A i \in Files : s[i] = s[i - 1] + sent[i]

Balance(q, s, sent, word) ==
  /\ QueueSums(q, word) /\ ChildSums(s, sent)
  /\ q[Len(mq)] = s[InFileCount]
  /\ \A i \in Files : SentOf(i, sent[i], word)

OccurrencesAddUp == ~ stale => \A word \in UpperWords : \E q, s, sent : Balance(q, s, sent, word)

(* An end marker brings no pairs, and a file that fits in a message is     *)
(* sent in one.                                                            *)
MarkersAreEmpty ==
  \A k \in DOMAIN mq : mq[k].pairs_count = MQ_EOF_VAL => mq[k].pairs = <<>>

SentInOne ==
  \A i \in Files :
    child_pc[i] \in {"send", "exited"} /\ i \notin SplitFiles =>
      next[i] \in {0, Len(child_pairs[i])}

CountingInv == OccurrencesAddUp /\ MarkersAreEmpty /\ SentInOne

(* What one more message does to the bounds of a word.                     *)
LEMMA SentMore ==
  ASSUME NEW P \in Arrays(UpperWords), NEW n \in Nat, NEW last \in Nat,
         n < last, last <= Len(P), FillsMessage(P, n, last),
         NEW split \in BOOLEAN, ~ split => n = 0 /\ last = Len(P),
         NEW x \in Nat, NEW word, SentBounds(P, n, split, x, word)
  PROVE  SentBounds(P, NextAfter(P, last), split,
                    x + CountOf(SubSeq(P, n + 1, last), word), word)
<1> DEFINE c == CountOf(SubSeq(P, n + 1, last), word)
           m == NextAfter(P, last)
<1>1. /\ Len(P) \in Nat /\ DOMAIN P = 1 .. Len(P)
      /\ \A k \in DOMAIN P : P[k].count \in Nat \ {0}
      /\ \A k, l \in DOMAIN P : P[k].word = P[l].word => k = l
  BY PairsAreTyped
<1> PICK L \in Nat : L = Len(P)
  BY <1>1
<1>2. n < last /\ last <= L /\ (~ split => n = 0 /\ last = L)
  OBVIOUS
<1>3. m = IF last = L THEN last ELSE last - 1
  BY DEF NextAfter
<1>4. CASE n + 1 < Len(P) /\ FillsMessage(P, n, n + 1)
  <2>0. n + 1 < L
    BY <1>4
  <2>1. last = n + 1
    <3>1. n <= L /\ n + 1 \in n .. L /\ last \in n .. L
      BY <1>2, <2>0
    <3>2. n <= Len(P) /\ n + 1 \in n .. Len(P) /\ last \in n .. Len(P)
      BY <3>1
    <3> QED BY <1>4, <3>2, MessagesFill
  <2>2. m = n
    BY <1>3, <2>0, <2>1
  <2> QED BY <1>4, <2>2 DEF SentBounds
<1>5. CASE ~ (n + 1 < Len(P) /\ FillsMessage(P, n, n + 1))
  <2>1. /\ word \notin Words(P) => x = 0
        /\ \A k \in DOMAIN P :
             P[k].word = word =>
               IF k <= n
               THEN P[k].count <= x /\ x <= P[k].count + (IF split THEN P[k].count ELSE 0)
               ELSE IF k = n + 1 /\ split THEN x <= P[k].count ELSE x = 0
    BY <1>5 DEF SentBounds
  <2>2. (last = L /\ m = L) \/ (split /\ n + 2 <= last /\ last < L /\ m = last - 1)
    <3>1. CASE last = L
      BY <1>3, <3>1
    <3>2. CASE last # L
      <4>1. ~ (n + 1 < L /\ last = n + 1)
        BY <1>5
      <4>2. last # n + 1 /\ last < L /\ split
        BY <1>2, <3>2, <4>1
      <4> QED BY <1>2, <1>3, <3>2, <4>2
    <3> QED BY <3>1, <3>2
  <2>3. word \notin Words(P) => c = 0
    BY PartOfArray
  <2>4. \A k \in DOMAIN P :
          P[k].word = word => c = IF k \in n + 1 .. last THEN P[k].count ELSE 0
    BY PartOfArray
  <2> HIDE DEF c, m
  <2>5. ASSUME NEW k \in DOMAIN P, P[k].word = word
        PROVE  IF k <= m
               THEN /\ P[k].count <= x + c
                    /\ x + c <= P[k].count + (IF split THEN P[k].count ELSE 0)
               ELSE IF k = m + 1 /\ split THEN x + c <= P[k].count ELSE x + c = 0
    <3>1. k \in 1 .. Len(P) /\ P[k].count \in Nat
      BY <1>1
    <3>2. PICK cnt \in Nat : cnt = P[k].count
      BY <3>1
    <3>3. c = IF k \in n + 1 .. last THEN cnt ELSE 0
      BY <2>4, <2>5, <3>2
    <3>4. IF k <= n THEN cnt <= x /\ x <= cnt + (IF split THEN cnt ELSE 0)
          ELSE IF k = n + 1 /\ split THEN x <= cnt ELSE x = 0
      BY <2>1, <2>5, <3>2
    <3>5. CASE last = L /\ m = L
      BY <1>1, <3>1, <3>2, <3>3, <3>4, <3>5
    <3>6. CASE split /\ n + 2 <= last /\ last < L /\ m = last - 1
      <4>1. SUFFICES IF k <= m THEN cnt <= x + c /\ x + c <= cnt + cnt
                     ELSE IF k = m + 1 THEN x + c <= cnt ELSE x + c = 0
        BY <3>2, <3>6
      <4>2. CASE k <= n
        <5>1. cnt <= x /\ x <= cnt + cnt /\ c = 0 /\ k <= m
          BY <3>1, <3>3, <3>4, <3>6, <4>2
        <5> QED BY <5>1
      <4>3. CASE k = n + 1
        <5>1. x <= cnt /\ c = cnt /\ k <= m
          BY <3>1, <3>3, <3>4, <3>6, <4>3
        <5> QED BY <5>1
      <4>4. CASE n + 1 < k
        <5>1. x = 0
          BY <3>1, <3>4, <4>4
        <5>2. c = IF k <= m + 1 THEN cnt ELSE 0
          BY <3>1, <3>3, <3>6, <4>4
        <5> QED BY <3>1, <3>6, <5>1, <5>2
      <4> QED BY <3>1, <4>2, <4>3, <4>4
    <3> QED BY <2>2, <3>5, <3>6
  <2> QED BY <2>1, <2>3, <2>5 DEF SentBounds, c, m
<1> QED BY <1>4, <1>5

(* A file that fits in a message is sent in one.                           *)
LEMMA WholeFile ==
  ASSUME NEW i \in Files, i \notin SplitFiles,
         NEW P \in Arrays(UpperWords), P = parse_in_file(FileContents[i], str_toupper),
         NEW last \in Nat, 0 < last, last <= Len(P), FillsMessage(P, 0, last)
  PROVE  last = Len(P)
<1> SUFFICES ASSUME last < Len(P) PROVE FALSE
  <2>1. PICK L \in Nat : L = Len(P)
    BY PairsAreTyped
  <2> QED BY <2>1
<1>1. Len(P) \in Nat
  BY PairsAreTyped
<1>2. SizeOfInt + BytesOf(P, 1, Len(P)) <= MsgSize
  <2>1. ~ (SizeOfInt + BytesOf(P, 1, Len(P)) > MsgSize)
    BY DEF SplitFiles
  <2>2. BytesOf(P, 1, Len(P)) \in Nat /\ MsgSize \in Nat
    BY <1>1, BytesGrow, SizesAreSmall
  <2> QED BY <2>1, <2>2 DEF SizeOfInt
<1>3. SizeOfInt + BytesOf(P, 1, last + 1) > MsgSize
  BY DEF FillsMessage
<1>4. PICK L \in Nat : L = Len(P)
  BY <1>1
<1>5. last + 1 <= L /\ last + 1 \in Nat /\ 1 <= (last + 1) + 1 /\ 1 \in Nat \ {0}
        /\ 1 <= L + 1
  BY <1>4
<1>6. BytesOf(P, 1, last + 1) <= BytesOf(P, 1, L)
  BY <1>4, <1>5, BytesIncrease
<1>7. BytesOf(P, 1, last + 1) \in Nat /\ BytesOf(P, 1, L) \in Nat /\ MsgSize \in Nat
  BY <1>4, <1>5, BytesGrow, SizesAreSmall
<1> QED BY <1>2, <1>3, <1>4, <1>6, <1>7 DEF SizeOfInt

(* A child that stays where it is keeps its bounds.                        *)
LEMMA SentStays ==
  ASSUME NEW i \in Files, child_pc'[i] = child_pc[i], child_pairs'[i] = child_pairs[i],
         next'[i] = next[i], NEW x, NEW word, SentOf(i, x, word)
  PROVE  SentOf(i, x, word)'
BY DEF SentOf

(* No message more or less, nothing sent: the balance is as it was.        *)
LEMMA NothingMoves ==
  ASSUME OccurrencesAddUp, UNCHANGED <<mq, pair_array, stale>>,
         \A word : \A i \in Files : \A x \in Nat : SentOf(i, x, word) => SentOf(i, x, word)'
  PROVE  OccurrencesAddUp'
<1> SUFFICES ASSUME ~ stale, NEW word \in UpperWords
             PROVE  \E q, s, sent : Balance(q, s, sent, word)'
  BY DEF OccurrencesAddUp
<1>1. PICK q, s, sent : Balance(q, s, sent, word)
  BY DEF OccurrencesAddUp
<1>2. \A i \in Files : SentOf(i, sent[i], word)'
  BY <1>1 DEF Balance, ChildSums
<1>3. QueueSums(q, word)' /\ ChildSums(s, sent)'
  BY <1>1 DEF Balance, QueueSums, ChildSums
<1> QED BY <1>1, <1>2, <1>3 DEF Balance

LEMMA CountingInvInit == Init => CountingInv
<1> SUFFICES ASSUME Init PROVE CountingInv
  OBVIOUS
<1>1. ASSUME NEW word \in UpperWords PROVE \E q, s, sent : Balance(q, s, sent, word)
  <2> DEFINE q == [k \in 0 .. 0 |-> 0]
             s == [k \in 0 .. InFileCount |-> 0]
             sent == [i \in Files |-> 0]
  <2>1. mq = <<>> /\ Len(mq) = 0 /\ CountOf(pair_array, word) = 0
    BY EmptyArray DEF Init
  <2>2. QueueSums(q, word)
    BY <2>1 DEF QueueSums
  <2>3. ChildSums(s, sent)
    BY FilesAreFinite DEF ChildSums, Files
  <2>4. \A i \in Files : SentOf(i, sent[i], word)
    BY DEF Init, SentOf
  <2>5. q[Len(mq)] = s[InFileCount]
    BY <2>1, FilesAreFinite
  <2> QED BY <2>2, <2>3, <2>4, <2>5 DEF Balance
<1>2. MarkersAreEmpty /\ SentInOne
  BY DEF Init, MarkersAreEmpty, SentInOne
<1> QED BY <1>1, <1>2 DEF CountingInv, OccurrencesAddUp

LEMMA CountingParse ==
  ASSUME TypeInv, CountingInv, NEW i \in Files, parse_file(i)
  PROVE  CountingInv'
<1>1. /\ child_pc[i] = "parse" /\ next[i] = 0
      /\ UNCHANGED <<mq, pair_array, next, stale>>
      /\ \/ /\ child_pairs' = [child_pairs EXCEPT ![i] =
                                 parse_in_file(FileContents[i], str_toupper)]
            /\ child_pc' = [child_pc EXCEPT ![i] = "send"]
         \/ child_pc' = [child_pc EXCEPT ![i] = "failed"] /\ UNCHANGED child_pairs
  BY DEF parse_file, parentVars, runVars, TypeInv, ChildrenFollowFiles
<1>2. \A j \in Files : j # i => child_pc'[j] = child_pc[j] /\ child_pairs'[j] = child_pairs[j]
  BY <1>1 DEF TypeInv, ChildrenTyped
<1>3. child_pairs'[i] \in Arrays(UpperWords) /\ child_pc'[i] \in {"send", "failed"}
  BY <1>1, TypeInvParse DEF TypeInv, ChildrenTyped
<1>4. ASSUME NEW word, NEW j \in Files, NEW x \in Nat, SentOf(j, x, word)
      PROVE  SentOf(j, x, word)'
  <2>1. CASE j # i
    BY <1>1, <1>2, <1>4, <2>1, SentStays
  <2>2. CASE j = i
    <3>1. x = 0
      BY <1>1, <1>4, <2>2 DEF SentOf
    <3>2. PICK P \in Arrays(UpperWords) : P = child_pairs'[i]
      BY <1>3
    <3>3. \A k \in DOMAIN P : k \in Nat \ {0} /\ P[k].count \in Nat
      <4>1. /\ DOMAIN P = 1 .. Len(P) /\ Len(P) \in Nat
            /\ \A k \in DOMAIN P : P[k].count \in Nat \ {0}
        BY PairsAreTyped
      <4> QED BY <4>1
    <3>4. SentBounds(P, 0, i \in SplitFiles, 0, word)
      BY <3>3 DEF SentBounds
    <3>5. SentBounds(child_pairs[i], next[i], i \in SplitFiles, x, word)'
      <4>1. next'[i] = 0
        BY <1>1
      <4> QED BY <3>1, <3>2, <3>4, <4>1 DEF SentBounds
    <3> QED BY <1>3, <2>2, <3>1, <3>5 DEF SentOf
  <2> QED BY <2>1, <2>2
<1>5. OccurrencesAddUp'
  BY <1>1, <1>4, NothingMoves DEF CountingInv
<1>6. MarkersAreEmpty' /\ SentInOne'
  BY <1>1, <1>2, <1>3 DEF CountingInv, MarkersAreEmpty, SentInOne
<1> QED BY <1>5, <1>6 DEF CountingInv

(* The balance when a message is sent: as much more in the queue as the    *)
(* child has sent.                                                         *)
LEMMA BalanceSent ==
  ASSUME TypeInv, NEW i \in Files, NEW m, mq' = Append(mq, m),
         m.pairs \in Arrays(UpperWords), UNCHANGED <<pair_array, stale>>,
         \A j \in Files : j # i => /\ child_pc'[j] = child_pc[j] /\ next'[j] = next[j]
                                   /\ child_pairs'[j] = child_pairs[j],
         NEW word, NEW q, NEW s, NEW sent, Balance(q, s, sent, word),
         SentOf(i, sent[i] + CountOf(m.pairs, word), word)'
  PROVE  \E r, t, more : Balance(r, t, more, word)'
<1>1. PICK c \in Nat : c = CountOf(m.pairs, word)
  BY CountIsNatural
<1>2. PICK L \in Nat : L = Len(mq)
  BY DEF TypeInv, QueueTyped
<1>3. PICK last \in Nat : last = L + 1
  OBVIOUS
<1>4. /\ Len(mq') = last /\ mq'[last] = m
      /\ \A k \in 1 .. L : mq'[k] = mq[k]
  <2>1. mq \in Seq(QueuedMessage \cup {m})
    BY SeqMonotonic DEF TypeInv, QueueTyped
  <2> QED BY <1>2, <1>3, <2>1, AppendProperties
<1> DEFINE r == [k \in 0 .. last |-> IF k = last THEN q[L] + c ELSE q[k]]
           t == [k \in 0 .. InFileCount |-> IF k >= i THEN s[k] + c ELSE s[k]]
           more == [j \in Files |-> IF j = i THEN sent[j] + c ELSE sent[j]]
<1>5. /\ q \in [0 .. L -> Nat] /\ q[0] = CountOf(pair_array, word)
      /\ \A k \in 1 .. L : q[k] = q[k - 1] + CountOf(mq[k].pairs, word)
      /\ q[L] = s[InFileCount]
  BY <1>2 DEF Balance, QueueSums
<1>6. /\ sent \in [Files -> Nat] /\ s \in [0 .. InFileCount -> Nat] /\ s[0] = 0
      /\ \A j \in Files : s[j] = s[j - 1] + sent[j]
      /\ InFileCount \in Nat /\ i \in 1 .. InFileCount /\ Files = 1 .. InFileCount
  BY FilesAreFinite DEF Balance, ChildSums, Files
<1>7. r \in [0 .. last -> Nat] /\ r[0] = q[0] /\ r[last] = q[L] + c
  BY <1>3, <1>5
<1>8. ASSUME NEW k \in 1 .. last PROVE r[k] = r[k - 1] + CountOf(mq'[k].pairs, word)
  <2>1. CASE k = last
    <3>1. r[k - 1] = q[L] /\ r[k] = q[L] + c
      BY <1>3, <2>1
    <3> QED BY <1>1, <1>4, <2>1, <3>1
  <2>2. CASE k # last
    <3>1. k \in 1 .. L /\ r[k] = q[k] /\ r[k - 1] = q[k - 1] /\ mq'[k] = mq[k]
      BY <1>3, <1>4, <2>2
    <3> QED BY <1>5, <3>1
  <2> QED BY <2>1, <2>2
<1>9. QueueSums(r, word)'
  <2> HIDE DEF r
  <2> QED BY <1>4, <1>5, <1>7, <1>8 DEF QueueSums
<1>10. t \in [0 .. InFileCount -> Nat] /\ t[0] = 0 /\ more \in [Files -> Nat]
  <2>1. \A k \in 0 .. InFileCount : s[k] \in Nat /\ s[k] + c \in Nat
    <3>1. s \in [0 .. InFileCount -> Nat]
      BY <1>6
    <3>2. \A k \in 0 .. InFileCount : s[k] \in Nat
      BY <3>1
    <3> QED BY <3>2
  <2>2. \A j \in Files : sent[j] \in Nat /\ sent[j] + c \in Nat
    <3>1. sent \in [Files -> Nat]
      BY <1>6
    <3>2. \A j \in Files : sent[j] \in Nat
      BY <3>1
    <3> QED BY <3>2
  <2>3. t[0] = 0
    BY <1>6
  <2>4. t \in [0 .. InFileCount -> Nat]
    BY <2>1
  <2>5. more \in [Files -> Nat]
    BY <2>2
  <2> QED BY <2>3, <2>4, <2>5
<1>11. ASSUME NEW j \in Files PROVE t[j] = t[j - 1] + more[j]
  <2>1. j \in 1 .. InFileCount /\ j \in 0 .. InFileCount /\ j - 1 \in 0 .. InFileCount
          /\ s[j] = s[j - 1] + sent[j]
    BY <1>6
  <2>2. s[j] \in Nat /\ s[j - 1] \in Nat /\ sent[j] \in Nat
    BY <1>6, <2>1
  <2>3. CASE j < i
    BY <1>6, <2>1, <2>3
  <2>4. CASE j = i
    <3>1. t[j] = s[j] + c /\ t[j - 1] = s[j - 1] /\ more[j] = sent[j] + c
      BY <1>6, <2>1, <2>4
    <3> HIDE DEF t, more
    <3> QED BY <2>1, <2>2, <3>1
  <2>5. CASE j > i
    <3>0. j \in Nat /\ i \in Nat /\ j >= i /\ j - 1 >= i /\ j # i
      BY <1>6, <2>1, <2>5
    <3>1. t[j] = s[j] + c /\ t[j - 1] = s[j - 1] + c /\ more[j] = sent[j]
      BY <2>1, <3>0
    <3> HIDE DEF t, more
    <3> QED BY <2>1, <2>2, <3>1
  <2> QED BY <1>6, <2>3, <2>4, <2>5
<1>12. ChildSums(t, more)'
  <2> HIDE DEF t, more
  <2> QED BY <1>10, <1>11 DEF ChildSums
<1>13. t[InFileCount] = s[InFileCount] + c
  BY <1>6
<1>14. ASSUME NEW j \in Files PROVE SentOf(j, more[j], word)'
  <2>1. CASE j = i
    <3>1. more[j] = sent[i] + CountOf(m.pairs, word)
      BY <1>1, <2>1
    <3> QED BY <2>1, <3>1 DEF SentOf
  <2>2. CASE j # i
    <3>1. more[j] = sent[j] /\ SentOf(j, sent[j], word)
      BY <2>2 DEF Balance
    <3>2. SentOf(j, sent[j], word)'
      BY <2>2, <3>1, SentStays
    <3> QED BY <3>1, <3>2 DEF SentOf
  <2> QED BY <2>1, <2>2
<1>15. r[Len(mq')] = t[InFileCount]
  BY <1>4, <1>5, <1>7, <1>13
<1> HIDE DEF r, t, more
<1>16. Balance(r, t, more, word)'
  BY <1>9, <1>12, <1>14, <1>15 DEF Balance
<1> QED BY <1>16

LEMMA CountingSend ==
  ASSUME TypeInv, CountingInv, NEW i \in Files, send_pairs(i)
  PROVE  CountingInv'
<1>1. PICK last \in Nat :
        /\ next[i] < last /\ last <= Len(child_pairs[i])
        /\ FillsMessage(child_pairs[i], next[i], last)
        /\ mq' = Append(mq, [ pairs_count |-> last - next[i],
                              pairs |-> SubSeq(child_pairs[i], next[i] + 1, last) ])
        /\ next' = [next EXCEPT ![i] = NextAfter(child_pairs[i], last)]
        /\ SubSeq(child_pairs[i], next[i] + 1, last) \in Arrays(UpperWords)
  BY SentMessage
<1>2. /\ child_pc[i] = "send"
      /\ UNCHANGED <<pair_array, child_pc, child_pairs, stale>>
  BY DEF send_pairs, parentVars, runVars
<1>3. /\ child_pairs[i] \in Arrays(UpperWords) /\ next[i] \in Nat
      /\ child_pairs[i] = parse_in_file(FileContents[i], str_toupper)
      /\ next[i] <= Len(child_pairs[i]) /\ next[i] # Len(child_pairs[i])
  BY <1>2 DEF TypeInv, ChildrenTyped, ChildrenFollowFiles, send_pairs
<1>4. next'[i] = NextAfter(child_pairs[i], last)
        /\ \A j \in Files : j # i => next'[j] = next[j]
  BY <1>1 DEF TypeInv, ChildrenTyped
<1>5. i \notin SplitFiles => next[i] = 0 /\ last = Len(child_pairs[i])
  <2> SUFFICES ASSUME i \notin SplitFiles PROVE next[i] = 0 /\ last = Len(child_pairs[i])
    OBVIOUS
  <2>1. next[i] = 0
    BY <1>2, <1>3 DEF CountingInv, SentInOne
  <2> QED BY <1>1, <1>3, <2>1, WholeFile
<1>6. PICK m :
        /\ mq' = Append(mq, m) /\ m.pairs \in Arrays(UpperWords)
        /\ m.pairs_count # MQ_EOF_VAL
        /\ m.pairs = SubSeq(child_pairs[i], next[i] + 1, last)
  <2> DEFINE msg == [ pairs_count |-> last - next[i],
                      pairs |-> SubSeq(child_pairs[i], next[i] + 1, last) ]
  <2>1. /\ mq' = Append(mq, msg) /\ msg.pairs \in Arrays(UpperWords)
        /\ msg.pairs_count # MQ_EOF_VAL
        /\ msg.pairs = SubSeq(child_pairs[i], next[i] + 1, last)
    <3>1. mq' = Append(mq, msg) /\ msg.pairs \in Arrays(UpperWords)
      BY <1>1
    <3>2. last - next[i] # MQ_EOF_VAL
      BY <1>1, <1>3 DEF MQ_EOF_VAL
    <3>3. msg.pairs_count = last - next[i]
      OBVIOUS
    <3> QED BY <3>1, <3>2, <3>3
  <2> QED BY <2>1
<1>7. ASSUME NEW word, NEW x \in Nat, SentOf(i, x, word)
      PROVE  SentOf(i, x + CountOf(m.pairs, word), word)'
  <2>1. PICK P \in Arrays(UpperWords) : P = child_pairs[i]
    BY <1>3
  <2>2. PICK n \in Nat : n = next[i]
    BY <1>3
  <2>3. PICK split \in BOOLEAN : split <=> i \in SplitFiles
    OBVIOUS
  <2>4. SentBounds(P, n, split, x, word)
    BY <1>2, <1>7, <2>1, <2>2, <2>3 DEF SentOf, SentBounds
  <2>5. SentBounds(P, NextAfter(P, last), split,
                   x + CountOf(SubSeq(P, n + 1, last), word), word)
    BY <1>1, <1>5, <2>1, <2>2, <2>3, <2>4, SentMore
  <2>6. PICK y : y = x + CountOf(SubSeq(P, n + 1, last), word)
    OBVIOUS
  <2>7. y = x + CountOf(m.pairs, word)
    BY <1>6, <2>1, <2>2, <2>6
  <2>8. PICK k : k = NextAfter(P, last)
    OBVIOUS
  <2>9. SentBounds(P, k, split, y, word)
    BY <2>5, <2>6, <2>8
  <2>10. child_pc'[i] = "send" /\ child_pairs'[i] = P /\ next'[i] = k
    BY <1>2, <1>4, <2>1, <2>8
  <2>11. SentOf(i, y, word)'
    BY <2>3, <2>9, <2>10 DEF SentOf, SentBounds
  <2> QED BY <2>7, <2>11 DEF SentOf
<1>8. OccurrencesAddUp'
  <2> SUFFICES ASSUME ~ stale', NEW word \in UpperWords
               PROVE  \E q, s, sent : Balance(q, s, sent, word)'
    BY DEF OccurrencesAddUp
  <2>1. PICK q, s, sent : Balance(q, s, sent, word)
    BY <1>2 DEF CountingInv, OccurrencesAddUp
  <2>2. PICK x \in Nat : x = sent[i]
    BY <2>1 DEF Balance, ChildSums
  <2>3. SentOf(i, x, word)
    BY <2>1, <2>2 DEF Balance
  <2>4. SentOf(i, x + CountOf(m.pairs, word), word)'
    BY <1>7, <2>3
  <2>5. SentOf(i, sent[i] + CountOf(m.pairs, word), word)'
    BY <2>2, <2>4 DEF SentOf
  <2> QED BY <1>2, <1>4, <1>6, <2>1, <2>5, BalanceSent
<1>9. MarkersAreEmpty'
  <2>1. mq \in Seq(QueuedMessage \cup {m})
    BY SeqMonotonic DEF TypeInv, QueueTyped
  <2>2. /\ Len(mq') = Len(mq) + 1 /\ mq'[Len(mq) + 1] = m
        /\ DOMAIN mq' = 1 .. Len(mq) + 1 /\ DOMAIN mq = 1 .. Len(mq) /\ Len(mq) \in Nat
        /\ \A k \in 1 .. Len(mq) : mq'[k] = mq[k]
    BY <1>6, <2>1, AppendProperties
  <2>3. \A k \in DOMAIN mq' : k = Len(mq) + 1 \/ k \in DOMAIN mq
    BY <2>2
  <2> QED BY <1>6, <2>2, <2>3 DEF CountingInv, MarkersAreEmpty
<1>10. SentInOne'
  <2>1. ASSUME i \notin SplitFiles PROVE next'[i] = Len(child_pairs[i])
    BY <1>4, <1>5, <2>1 DEF NextAfter
  <2> QED BY <1>2, <1>4, <2>1 DEF CountingInv, SentInOne
<1> QED BY <1>8, <1>9, <1>10 DEF CountingInv

LEMMA CountingMarker ==
  ASSUME TypeInv, CountingInv, NEW i \in Files, send_end_marker(i)
  PROVE  CountingInv'
<1> DEFINE m == [ pairs_count |-> MQ_EOF_VAL, pairs |-> <<>> ]
<1>1. /\ child_pc[i] = "send" /\ mq' = Append(mq, m)
      /\ child_pc' = [child_pc EXCEPT ![i] = "exited"]
      /\ UNCHANGED <<pair_array, child_pairs, next, stale>>
  BY DEF send_end_marker, parentVars, runVars
<1>2. m.pairs = <<>> /\ m.pairs \in Arrays(UpperWords) /\ \A word : CountOf(m.pairs, word) = 0
  BY EmptyArray
<1> HIDE DEF m
<1>3. \A j \in Files : child_pc'[j] = IF j = i THEN "exited" ELSE child_pc[j]
  BY <1>1 DEF TypeInv, ChildrenTyped
<1>4. OccurrencesAddUp'
  <2> SUFFICES ASSUME ~ stale', NEW word \in UpperWords
               PROVE  \E q, s, sent : Balance(q, s, sent, word)'
    BY DEF OccurrencesAddUp
  <2>1. PICK q, s, sent : Balance(q, s, sent, word)
    BY <1>1 DEF CountingInv, OccurrencesAddUp
  <2>2. PICK x \in Nat : x = sent[i]
    BY <2>1 DEF Balance, ChildSums
  <2>3. SentOf(i, x, word)
    BY <2>1, <2>2 DEF Balance
  <2>4. SentOf(i, x, word)'
    BY <1>1, <1>3, <2>3 DEF SentOf
  <2>5. sent[i] + CountOf(m.pairs, word) = x
    BY <1>2, <2>2
  <2>6. SentOf(i, sent[i] + CountOf(m.pairs, word), word)'
    BY <2>4, <2>5 DEF SentOf
  <2> QED BY <1>1, <1>2, <1>3, <2>1, <2>6, BalanceSent
<1>5. MarkersAreEmpty'
  <2>1. mq \in Seq(QueuedMessage \cup {m})
    BY SeqMonotonic DEF TypeInv, QueueTyped
  <2>2. /\ Len(mq') = Len(mq) + 1 /\ mq'[Len(mq) + 1] = m
        /\ DOMAIN mq' = 1 .. Len(mq) + 1 /\ DOMAIN mq = 1 .. Len(mq) /\ Len(mq) \in Nat
        /\ \A k \in 1 .. Len(mq) : mq'[k] = mq[k]
    BY <1>1, <2>1, AppendProperties
  <2>3. \A k \in DOMAIN mq' : k = Len(mq) + 1 \/ k \in DOMAIN mq
    BY <2>2
  <2> QED BY <1>2, <2>2, <2>3 DEF CountingInv, MarkersAreEmpty
<1>6. SentInOne'
  BY <1>1, <1>3 DEF CountingInv, SentInOne
<1> QED BY <1>4, <1>5, <1>6 DEF CountingInv

(* A message received moves from the queue to what the parent has.         *)
LEMMA CountingReceive ==
  ASSUME TypeInv, CountingInv, receive
  PROVE  CountingInv'
<1>1. /\ mq # <<>> /\ mq' = Tail(mq)
      /\ IF Head(mq).pairs_count = MQ_EOF_VAL
         THEN UNCHANGED pair_array
         ELSE pair_array' = add_array_to_array(pair_array, Head(mq).pairs)
      /\ UNCHANGED <<child_pc, child_pairs, next, stale>>
  BY DEF receive, childVars, runVars
<1>2. /\ mq \in Seq(QueuedMessage) /\ Len(mq') = Len(mq) - 1 /\ Len(mq) \in Nat \ {0}
      /\ Head(mq) = mq[1] /\ Head(mq) \in QueuedMessage /\ mq' \in Seq(QueuedMessage)
      /\ \A k \in 1 .. Len(mq') : mq'[k] = mq[k + 1]
  BY <1>1, HeadTailProperties DEF TypeInv, QueueTyped
<1>3. DOMAIN mq = 1 .. Len(mq) /\ DOMAIN mq' = 1 .. Len(mq) - 1
  BY <1>2
<1>4. ASSUME NEW word
      PROVE  CountOf(pair_array', word)
               = CountOf(pair_array, word) + CountOf(mq[1].pairs, word)
  <2>1. pair_array \in Arrays(UpperWords) /\ Head(mq).pairs \in Arrays(UpperWords)
    BY <1>2 DEF QueuedMessage, TypeInv, ParentTyped
  <2>2. CountOf(pair_array, word) \in Nat
    BY <2>1, CountIsNatural
  <2>3. CASE Head(mq).pairs_count = MQ_EOF_VAL
    <3>1. Head(mq).pairs = <<>>
      BY <1>2, <1>3, <2>3 DEF CountingInv, MarkersAreEmpty
    <3>2. CountOf(mq[1].pairs, word) = 0
      BY <1>2, <3>1, EmptyArray
    <3> QED BY <1>1, <2>2, <2>3, <3>2
  <2>4. CASE Head(mq).pairs_count # MQ_EOF_VAL
    <3>1. pair_array' = add_array_to_array(pair_array, Head(mq).pairs)
      BY <1>1, <2>4
    <3> QED BY <1>2, <2>1, <3>1, AddedCounts
  <2> QED BY <2>3, <2>4
<1>5. OccurrencesAddUp'
  <2> SUFFICES ASSUME ~ stale', NEW word \in UpperWords
               PROVE  \E q, s, sent : Balance(q, s, sent, word)'
    BY DEF OccurrencesAddUp
  <2>1. PICK q, s, sent : Balance(q, s, sent, word)
    BY <1>1 DEF CountingInv, OccurrencesAddUp
  <2>2. PICK L \in Nat : L = Len(mq) - 1
    BY <1>2
  <2>3. Len(mq) = L + 1 /\ Len(mq') = L
    BY <1>2, <2>2
  <2> DEFINE r == [k \in 0 .. L |-> q[k + 1]]
  <2>4. /\ q \in [0 .. L + 1 -> Nat] /\ q[0] = CountOf(pair_array, word)
        /\ \A k \in 1 .. L + 1 : q[k] = q[k - 1] + CountOf(mq[k].pairs, word)
        /\ q[L + 1] = s[InFileCount]
    BY <2>1, <2>3 DEF Balance, QueueSums
  <2>5. r \in [0 .. L -> Nat]
    BY <2>4
  <2>6. r[0] = CountOf(pair_array', word)
    <3>1. q[1] = q[0] + CountOf(mq[1].pairs, word)
      BY <2>4
    <3> QED BY <1>4, <2>4, <3>1
  <2>7. ASSUME NEW k \in 1 .. L PROVE r[k] = r[k - 1] + CountOf(mq'[k].pairs, word)
    <3>1. q[k + 1] = q[k] + CountOf(mq[k + 1].pairs, word)
      BY <2>4
    <3>2. mq'[k] = mq[k + 1]
      BY <1>2, <2>3
    <3> QED BY <3>1, <3>2
  <2>8. r[L] = s[InFileCount]
    BY <2>4
  <2> HIDE DEF r
  <2>9. QueueSums(r, word)'
    BY <2>3, <2>5, <2>6, <2>7 DEF QueueSums
  <2>10. ChildSums(s, sent)'
    BY <2>1 DEF Balance, ChildSums
  <2>11. \A i \in Files : SentOf(i, sent[i], word)'
    BY <1>1, <2>1 DEF Balance, SentOf
  <2>12. Balance(r, s, sent, word)'
    BY <2>3, <2>8, <2>9, <2>10, <2>11 DEF Balance
  <2> QED BY <2>12
<1>6. MarkersAreEmpty'
  <2>1. \A k \in DOMAIN mq' : k + 1 \in DOMAIN mq /\ mq'[k] = mq[k + 1]
    BY <1>2, <1>3
  <2> QED BY <2>1 DEF CountingInv, MarkersAreEmpty
<1>7. SentInOne'
  BY <1>1 DEF CountingInv, SentInOne
<1> QED BY <1>5, <1>6, <1>7 DEF CountingInv

LEMMA CountingSpawn ==
  ASSUME TypeInv, EndInv, CountingInv, spawn_child_processes
  PROVE  CountingInv'
<1>1. /\ UNCHANGED <<mq, pair_array, child_pairs, next, stale>>
      /\ \/ /\ forked < InFileCount
            /\ child_pc' = [child_pc EXCEPT ![forked + 1] = "parse"]
         \/ UNCHANGED child_pc
  BY DEF spawn_child_processes, runVars
<1>2. forked < InFileCount => forked + 1 \in Files /\ child_pc[forked + 1] = "unborn"
  BY FilesAreFinite DEF EndInv, ControlOK, NotYetForked, Files
<1>3. \A i \in Files : \/ child_pc'[i] = child_pc[i]
                       \/ child_pc[i] = "unborn" /\ child_pc'[i] = "parse"
  BY <1>1, <1>2 DEF TypeInv, ChildrenTyped
<1>4. ASSUME NEW word, NEW i \in Files, NEW x \in Nat, SentOf(i, x, word)
      PROVE  SentOf(i, x, word)'
  BY <1>1, <1>3, <1>4 DEF SentOf
<1>5. OccurrencesAddUp'
  BY <1>1, <1>4, NothingMoves DEF CountingInv
<1>6. MarkersAreEmpty' /\ SentInOne'
  BY <1>1, <1>3 DEF CountingInv, MarkersAreEmpty, SentInOne
<1> QED BY <1>5, <1>6 DEF CountingInv

LEMMA CountingElse ==
  ASSUME CountingInv, unlink \/ write_output_file \/ UNCHANGED vars
  PROVE  CountingInv'
<1>1. UNCHANGED <<mq, pair_array, child_pc, child_pairs, next, stale>>
  BY DEF unlink, write_output_file, vars, parentVars, childVars, runVars
<1>2. ASSUME NEW word, NEW i \in Files, NEW x \in Nat, SentOf(i, x, word)
      PROVE  SentOf(i, x, word)'
  BY <1>1, <1>2 DEF SentOf
<1>3. OccurrencesAddUp'
  BY <1>1, <1>2, NothingMoves DEF CountingInv
<1>4. MarkersAreEmpty' /\ SentInOne'
  BY <1>1 DEF CountingInv, MarkersAreEmpty, SentInOne
<1> QED BY <1>3, <1>4 DEF CountingInv

LEMMA CountingAgain ==
  ASSUME TypeInv, CountingInv, run_again
  PROVE  CountingInv'
<1>1. /\ mq' = (IF linked THEN mq ELSE <<>>) /\ stale' = (mq' # <<>>)
      /\ pair_array' = <<>>
      /\ child_pc' = [i \in Files |-> "unborn"] /\ next' = [i \in Files |-> 0]
  BY DEF run_again
<1>2. ASSUME ~ stale', NEW word \in UpperWords
      PROVE  \E q, s, sent : Balance(q, s, sent, word)'
  <2> DEFINE q == [k \in 0 .. 0 |-> 0]
             s == [k \in 0 .. InFileCount |-> 0]
             sent == [i \in Files |-> 0]
  <2>1. mq' = <<>> /\ Len(mq') = 0 /\ CountOf(pair_array', word) = 0
    <3>1. mq' = <<>>
      BY <1>1, <1>2, Zenon
    <3> QED BY <1>1, <3>1, EmptyArray
  <2>2. QueueSums(q, word)'
    BY <2>1 DEF QueueSums
  <2>3. ChildSums(s, sent)'
    BY FilesAreFinite DEF ChildSums, Files
  <2>4. \A i \in Files : SentOf(i, sent[i], word)'
    BY <1>1 DEF SentOf
  <2>5. q[Len(mq')] = s[InFileCount]
    BY <2>1, FilesAreFinite
  <2> HIDE DEF q, s, sent
  <2>6. Balance(q, s, sent, word)'
    BY <2>2, <2>3, <2>4, <2>5 DEF Balance
  <2> QED BY <2>6
<1>3. MarkersAreEmpty'
  <2>1. mq' = mq \/ mq' = <<>>
    BY <1>1
  <2> QED BY <2>1 DEF CountingInv, MarkersAreEmpty
<1>4. SentInOne'
  BY <1>1 DEF SentInOne
<1>5. OccurrencesAddUp'
  BY <1>2 DEF OccurrencesAddUp
<1> QED BY <1>3, <1>4, <1>5 DEF CountingInv

-----------------------------------------------------------------------------
(* What the children send, what is on its way and what the parent has      *)
(* balance in every run that found an empty queue.                         *)
THEOREM CountingInvariance == Spec => [](EndInv /\ TypeInv /\ CountingInv)
<1>1. EndInv /\ TypeInv /\ CountingInv /\ [Next]_vars => CountingInv'
  BY CountingParse, CountingSend, CountingMarker, CountingReceive, CountingSpawn,
     CountingElse, CountingAgain DEF Next, Parent, run_child_actions, Terminated
<1>2. Init => CountingInv
  BY CountingInvInit
<1> QED BY <1>1, <1>2, TypeInvariance, PTL DEF Spec

(* A child that has exited has sent every occurrence of its file, once if  *)
(* the file fits in a message and at most twice if not.                    *)
LEMMA SentInTheEnd ==
  ASSUME TypeInv, NEW i \in Files, child_pc[i] = "exited",
         NEW word, NEW x \in Nat, SentOf(i, x, word),
         NEW c \in Nat, c = Cardinality(Positions(FileContents[i], str_toupper, word))
  PROVE  c <= x /\ x <= c + (IF i \in SplitFiles THEN c ELSE 0)
<1>1. PICK P \in Arrays(UpperWords) :
        P = child_pairs[i] /\ P = parse_in_file(FileContents[i], str_toupper)
  BY DEF TypeInv, ChildrenTyped, ChildrenFollowFiles
<1>2. CountOf(P, word) = c
  BY <1>1, FileCounts DEF CountsText
<1>3. PICK L \in Nat : L = Len(P)
  BY PairsAreTyped
<1>4. next[i] = L
  BY <1>1, <1>3 DEF TypeInv, ChildrenFollowFiles
<1>5. PICK split \in BOOLEAN : split <=> i \in SplitFiles
  OBVIOUS
<1>6. /\ word \notin Words(P) => x = 0
      /\ \A k \in DOMAIN P :
           P[k].word = word =>
             IF k <= L
             THEN P[k].count <= x /\ x <= P[k].count + (IF split THEN P[k].count ELSE 0)
             ELSE IF k = L + 1 /\ split THEN x <= P[k].count ELSE x = 0
  <2>1. SentBounds(P, L, split, x, word)
    BY <1>1, <1>4, <1>5 DEF SentOf, SentBounds
  <2>2. ~ (L + 1 < L)
    BY <1>3
  <2> QED BY <1>3, <2>1, <2>2 DEF SentBounds
<1>7. CASE word \notin Words(P)
  BY <1>2, <1>6, <1>7, CountIsNatural
<1>8. CASE word \in Words(P)
  <2>1. PICK k \in DOMAIN P : P[k].word = word
    BY <1>8 DEF Words
  <2>2. P[k].count = c
    BY <1>2, <2>1, CountAt
  <2>3. k <= L
    BY <1>3, PairsAreTyped
  <2> QED BY <1>5, <1>6, <2>1, <2>2, <2>3
<1> QED BY <1>7, <1>8

(* The places of a word in the first n files, and in those that are split. *)
PlacesIn(n, word) == Places(1 .. n, FileContents, str_toupper, word)
PlacesSplit(n, word) == Places(SplitFiles \cap (1 .. n), FileContents, str_toupper, word)

PlacesAreFinite(n, word) ==
  /\ IsFiniteSet(PlacesIn(n, word)) /\ Cardinality(PlacesIn(n, word)) \in Nat
  /\ IsFiniteSet(PlacesSplit(n, word)) /\ Cardinality(PlacesSplit(n, word)) \in Nat

LEMMA OneMoreFile ==
  ASSUME NEW i \in Files, NEW word, NEW S, i \notin S,
         IsFiniteSet(Places(S, FileContents, str_toupper, word))
  PROVE  /\ IsFiniteSet(Places(S \cup {i}, FileContents, str_toupper, word))
         /\ Cardinality(Places(S \cup {i}, FileContents, str_toupper, word))
              = Cardinality(Places(S, FileContents, str_toupper, word))
                + Cardinality(Positions(FileContents[i], str_toupper, word))
<1>1. FileContents[i] \in Seq(DOMAIN str_toupper)
  BY CliAssumption
<1> DEFINE D == DOMAIN str_toupper
<1>2. FileContents[i] \in Seq(D)
  BY <1>1
<1> HIDE DEF D
<1> QED BY <1>2, AnotherFile

LEMMA PlacesGrow ==
  ASSUME NEW i \in Files, NEW word, PlacesAreFinite(i - 1, word),
         NEW c \in Nat, c = Cardinality(Positions(FileContents[i], str_toupper, word))
  PROVE  /\ PlacesAreFinite(i, word)
         /\ Cardinality(PlacesIn(i, word)) = Cardinality(PlacesIn(i - 1, word)) + c
         /\ Cardinality(PlacesSplit(i, word))
              = Cardinality(PlacesSplit(i - 1, word)) + (IF i \in SplitFiles THEN c ELSE 0)
<1>1. i \in Nat \ {0} /\ 1 .. i = (1 .. i - 1) \cup {i} /\ i \notin 1 .. i - 1
  BY DEF Files
<1>2. ASSUME NEW S, i \notin S, IsFiniteSet(Places(S, FileContents, str_toupper, word))
      PROVE  /\ IsFiniteSet(Places(S \cup {i}, FileContents, str_toupper, word))
             /\ Cardinality(Places(S \cup {i}, FileContents, str_toupper, word))
                  = Cardinality(Places(S, FileContents, str_toupper, word)) + c
  BY <1>2, OneMoreFile
<1>3. /\ IsFiniteSet(PlacesIn(i, word))
      /\ Cardinality(PlacesIn(i, word)) = Cardinality(PlacesIn(i - 1, word)) + c
  BY <1>1, <1>2 DEF PlacesAreFinite, PlacesIn
<1>4. CASE i \in SplitFiles
  <2>1. SplitFiles \cap (1 .. i) = (SplitFiles \cap (1 .. i - 1)) \cup {i}
    BY <1>1, <1>4
  <2>2. /\ IsFiniteSet(PlacesSplit(i, word))
        /\ Cardinality(PlacesSplit(i, word)) = Cardinality(PlacesSplit(i - 1, word)) + c
    BY <1>1, <1>2, <2>1 DEF PlacesAreFinite, PlacesSplit
  <2> QED BY <1>3, <1>4, <2>2 DEF PlacesAreFinite
<1>5. CASE i \notin SplitFiles
  <2>1. SplitFiles \cap (1 .. i) = SplitFiles \cap (1 .. i - 1)
    BY <1>1, <1>5
  <2>2. PlacesSplit(i, word) = PlacesSplit(i - 1, word)
    BY <2>1 DEF PlacesSplit
  <2>3. Cardinality(PlacesSplit(i - 1, word)) \in Nat
    BY DEF PlacesAreFinite
  <2> QED BY <1>3, <1>5, <2>2, <2>3 DEF PlacesAreFinite
<1> QED BY <1>4, <1>5

(* When all children have exited, what they have sent of a word is between *)
(* once and twice, where it can be twice, what their files have of it.     *)
LEMMA SumsInTheEnd ==
  ASSUME TypeInv, \A i \in Files : child_pc[i] = "exited",
         NEW word, NEW s, NEW sent, ChildSums(s, sent),
         \A i \in Files : SentOf(i, sent[i], word)
  PROVE  /\ PlacesAreFinite(InFileCount, word)
         /\ Cardinality(PlacesIn(InFileCount, word)) <= s[InFileCount]
         /\ s[InFileCount] <= Cardinality(PlacesIn(InFileCount, word))
                                + Cardinality(PlacesSplit(InFileCount, word))
<1> DEFINE Fits(n) ==
             /\ PlacesAreFinite(n, word)
             /\ Cardinality(PlacesIn(n, word)) <= s[n]
             /\ s[n] <= Cardinality(PlacesIn(n, word)) + Cardinality(PlacesSplit(n, word))
           Good == { n \in Nat : n <= InFileCount => Fits(n) }
<1>0. InFileCount \in Nat /\ Files = 1 .. InFileCount
  BY FilesAreFinite DEF Files
<1>1. 0 \in Good
  <2>1. 1 .. 0 = {} /\ SplitFiles \cap (1 .. 0) = {}
    OBVIOUS
  <2>2. PlacesIn(0, word) = Places({}, FileContents, str_toupper, word)
          /\ PlacesSplit(0, word) = Places({}, FileContents, str_toupper, word)
    BY <2>1 DEF PlacesIn, PlacesSplit
  <2>3. /\ PlacesAreFinite(0, word) /\ Cardinality(PlacesIn(0, word)) = 0
        /\ Cardinality(PlacesSplit(0, word)) = 0
    BY <2>2, NoFile DEF PlacesAreFinite
  <2> QED BY <2>3 DEF ChildSums
<1>2. ASSUME NEW n \in Nat, n \in Good PROVE n + 1 \in Good
  <2> SUFFICES ASSUME n + 1 <= InFileCount PROVE Fits(n + 1)
    OBVIOUS
  <2>1. Fits(n)
    BY <1>0, <1>2
  <2>2. PICK i \in Files : i = n + 1
    BY <1>0
  <2>3. i - 1 = n /\ s[i] = s[n] + sent[i] /\ s[n] \in Nat /\ sent[i] \in Nat
    BY <1>0, <2>2 DEF ChildSums
  <2>4. PICK c \in Nat : c = Cardinality(Positions(FileContents[i], str_toupper, word))
    BY FileCounts, CountIsNatural DEF CountsText
  <2>5. c <= sent[i] /\ sent[i] <= c + (IF i \in SplitFiles THEN c ELSE 0)
    <3>1. PICK x \in Nat : x = sent[i]
      BY <2>3
    <3>2. SentOf(i, x, word)
      BY <3>1
    <3>3. c <= x /\ x <= c + (IF i \in SplitFiles THEN c ELSE 0)
      BY <2>4, <3>2, SentInTheEnd
    <3> QED BY <3>1, <3>3
  <2>6. /\ PlacesAreFinite(i, word)
        /\ Cardinality(PlacesIn(i, word)) = Cardinality(PlacesIn(n, word)) + c
        /\ Cardinality(PlacesSplit(i, word))
             = Cardinality(PlacesSplit(n, word)) + (IF i \in SplitFiles THEN c ELSE 0)
    <3>1. PlacesAreFinite(i - 1, word)
      BY <2>1, <2>3
    <3> QED BY <2>3, <2>4, <3>1, PlacesGrow
  <2>7. Cardinality(PlacesIn(n, word)) \in Nat /\ Cardinality(PlacesSplit(n, word)) \in Nat
    BY <2>1 DEF PlacesAreFinite
  <2>8. Fits(i)
    BY <2>1, <2>3, <2>5, <2>6, <2>7
  <2> QED BY <2>2, <2>8
<1>3. Nat \subseteq Good
  <2> HIDE DEF Good
  <2> QED BY <1>1, <1>2, SetInduction
<1> QED BY <1>0, <1>3

(* No occurrence is lost, whatever the files, the sizes of the messages    *)
(* and of the queue, and the order in which the children send; and only    *)
(* what a file that is split holds can be counted again.                   *)
THEOREM CountsAreExactUnlessSplit == Spec => []CountsExactUnlessSplit
<1>1. ASSUME EndInv, TypeInv, CountingInv, parent_pc = "done", ~ stale,
             NEW word \in UpperWords
      PROVE  CountOf(pair_array, word)
               \in Occurrences(FileContents, str_toupper, word)
                   .. Occurrences(FileContents, str_toupper, word)
                      + Occurrences([i \in SplitFiles |-> FileContents[i]], str_toupper, word)
  <2>1. mq = <<>> /\ \A i \in Files : child_pc[i] = "exited"
    BY <1>1 DEF EndInv, NothingLeftBehind
  <2>2. PICK q, s, sent : Balance(q, s, sent, word)
    BY <1>1 DEF CountingInv, OccurrencesAddUp
  <2>3. CountOf(pair_array, word) = s[InFileCount]
    <3>1. Len(mq) = 0
      BY <2>1
    <3> QED BY <2>2, <3>1 DEF Balance, QueueSums
  <2>4. /\ PlacesAreFinite(InFileCount, word)
        /\ Cardinality(PlacesIn(InFileCount, word)) <= s[InFileCount]
        /\ s[InFileCount] <= Cardinality(PlacesIn(InFileCount, word))
                               + Cardinality(PlacesSplit(InFileCount, word))
    BY <1>1, <2>1, <2>2, SumsInTheEnd DEF Balance
  <2>5. Occurrences(FileContents, str_toupper, word)
          = Cardinality(PlacesIn(InFileCount, word))
    <3>1. DOMAIN FileContents = 1 .. InFileCount
      BY CliAssumption DEF Files
    <3> QED BY <3>1 DEF Occurrences, PlacesIn, Places
  <2>6. Occurrences([i \in SplitFiles |-> FileContents[i]], str_toupper, word)
          = Cardinality(PlacesSplit(InFileCount, word))
    <3> DEFINE parts == [i \in SplitFiles |-> FileContents[i]]
    <3>1. SplitFiles \cap (1 .. InFileCount) = SplitFiles
      BY DEF SplitFiles, Files
    <3>2. DOMAIN parts = SplitFiles /\ \A f \in SplitFiles : parts[f] = FileContents[f]
      OBVIOUS
    <3> HIDE DEF parts
    <3>3. { at \in UNION { {f} \X DOMAIN parts[f] : f \in DOMAIN parts } :
              str_toupper[parts[at[1]][at[2]]] = word }
            = Places(SplitFiles, FileContents, str_toupper, word)
      <4>1. UNION { {f} \X DOMAIN parts[f] : f \in DOMAIN parts }
              = UNION { {f} \X DOMAIN FileContents[f] : f \in SplitFiles }
        BY <3>2
      <4>2. \A at \in UNION { {f} \X DOMAIN FileContents[f] : f \in SplitFiles } :
              at[1] \in SplitFiles
        OBVIOUS
      <4> QED BY <3>2, <4>1, <4>2 DEF Places
    <3>4. Occurrences(parts, str_toupper, word)
            = Cardinality(Places(SplitFiles, FileContents, str_toupper, word))
      BY <3>3 DEF Occurrences
    <3> QED BY <3>1, <3>4 DEF PlacesSplit, parts
  <2>7. s[InFileCount] \in Nat
    BY <2>2, FilesAreFinite DEF Balance, ChildSums
  <2> QED BY <2>3, <2>4, <2>5, <2>6, <2>7 DEF PlacesAreFinite
<1>2. EndInv /\ TypeInv /\ CountingInv => CountsExactUnlessSplit
  BY <1>1 DEF CountsExactUnlessSplit, UpperWords
<1> QED BY <1>2, CountingInvariance, PTL
-----------------------------------------------------------------------------
(* A child that has come to a message with room for one pair only is there *)
(* as long as its run lasts, whatever the others do: it sends this pair    *)
(* and goes back to it, so that its end marker never comes.  It is one of  *)
(* the two cases ParentReturns names.                                      *)
LEMMA GoesBack ==
  ASSUME TypeInv, NEW i \in Files, SendsOnePairForEver(i), send_pairs(i)
  PROVE  next' = next
<1>1. /\ child_pairs[i] \in Arrays(UpperWords) /\ next[i] \in Nat
      /\ next \in [Files -> Nat] /\ next[i] <= Len(child_pairs[i])
  BY DEF TypeInv, ChildrenTyped
<1>2. PICK n \in Nat, P \in Arrays(UpperWords) : n = next[i] /\ P = child_pairs[i]
  BY <1>1
<1>3. PICK L \in Nat : L = Len(P)
  BY PairsAreTyped
<1>4. n + 1 < L /\ FillsMessage(P, n, n + 1)
  BY <1>2, <1>3 DEF SendsOnePairForEver
<1>5. PICK last \in Nat :
        /\ n < last /\ last <= L /\ FillsMessage(P, n, last)
        /\ next' = [next EXCEPT ![i] = NextAfter(P, last)]
  BY <1>2, <1>3, SentMessage
<1>6. last = n + 1
  <2>1. last \in n .. Len(P) /\ n + 1 \in n .. Len(P) /\ n <= Len(P)
    BY <1>3, <1>4, <1>5
  <2> QED BY <1>4, <1>5, <2>1, MessagesFill
<1>7. NextAfter(P, last) = n
  BY <1>3, <1>4, <1>6 DEF NextAfter
<1> QED BY <1>1, <1>2, <1>5, <1>7

(* The exemption in ParentReturns is no passing state: a child that has    *)
(* come to it stays in it until the program is started anew.               *)
THEOREM OnePairIsSentForEver ==
  Spec => [][\A i \in Files : SendsOnePairForEver(i) /\ runs' = runs
                                => SendsOnePairForEver(i)']_vars
<1>1. ASSUME EndInv, TypeInv, [Next]_vars, NEW i \in Files,
             SendsOnePairForEver(i), runs' = runs
      PROVE  SendsOnePairForEver(i)'
  <2>1. /\ child_pc[i] = "send" /\ next[i] + 1 < Len(child_pairs[i])
        /\ FillsMessage(child_pairs[i], next[i], next[i] + 1)
    BY <1>1 DEF SendsOnePairForEver
  <2>2. next[i] # Len(child_pairs[i])
    <3>1. PICK L \in Nat : L = Len(child_pairs[i])
      BY <1>1, PairsAreTyped DEF TypeInv, ChildrenTyped
    <3> QED BY <1>1, <2>1, <3>1 DEF TypeInv, ChildrenTyped
  <2>3. SUFFICES child_pc'[i] = child_pc[i] /\ child_pairs'[i] = child_pairs[i]
                   /\ next'[i] = next[i]
    BY <2>1 DEF SendsOnePairForEver, FillsMessage, BytesOf, PairSize
  <2>4. CASE spawn_child_processes
    <3>1. child_pc' # child_pc =>
            forked + 1 > forked /\ forked + 1 \in Files
              /\ child_pc' = [child_pc EXCEPT ![forked + 1] = "parse"]
      BY <1>1, <2>4, FilesAreFinite
         DEF spawn_child_processes, EndInv, ControlOK, Files
    <3>2. child_pc' # child_pc => forked + 1 # i
      BY <1>1, <2>1, <3>1 DEF EndInv, NotYetForked
    <3>3. child_pairs' = child_pairs /\ next' = next
      BY <2>4 DEF spawn_child_processes
    <3> QED BY <1>1, <3>1, <3>2, <3>3 DEF TypeInv, ChildrenTyped
  <2>5. CASE receive \/ unlink \/ write_output_file \/ UNCHANGED vars
    BY <2>5 DEF receive, unlink, write_output_file, vars, childVars
  <2>6. ASSUME NEW j \in Files, run_child_actions(j)
        PROVE  child_pc'[i] = child_pc[i] /\ child_pairs'[i] = child_pairs[i]
                 /\ next'[i] = next[i]
    <3>1. CASE j = i
      <4>1. send_pairs(i)
        BY <2>1, <2>2, <2>6, <3>1 DEF run_child_actions, parse_file, send_end_marker
      <4>2. next' = next
        BY <1>1, <4>1, GoesBack
      <4> QED BY <4>1, <4>2 DEF send_pairs
    <3>2. CASE j # i
      BY <1>1, <2>6, <3>2
         DEF run_child_actions, parse_file, send_pairs, send_end_marker,
             TypeInv, ChildrenTyped
    <3> QED BY <3>1, <3>2
  <2>7. ~ run_again
    BY <1>1 DEF run_again, TypeInv, ParentTyped
  <2> QED BY <1>1, <2>4, <2>5, <2>6, <2>7 DEF Next, Parent, Terminated
<1>2. EndInv /\ TypeInv /\ [Next]_vars =>
        [\A i \in Files : SendsOnePairForEver(i) /\ runs' = runs
                            => SendsOnePairForEver(i)']_vars
  BY <1>1
<1> QED BY <1>2, TypeInvariance, PTL DEF Spec
=============================================================================
