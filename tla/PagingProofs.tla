---------------------------- MODULE PagingProofs ----------------------------
(***************************************************************************)
(* Theorems about Paging, for every set of addresses and regions, every    *)
(* number of frames and both algorithms: its invariants first, then that   *)
(* it implements PageReplacement, then that it faults as defined.          *)
(***************************************************************************)
EXTENDS Paging, FiniteSetTheorems, FunctionTheorems, WellFoundedInduction, TLAPS

(* A nonempty set of naturals has a least element.                         *)
LEMMA LeastNatural ==
  ASSUME NEW S \in SUBSET Nat, S # {}
  PROVE  \E m \in S : \A n \in S : m <= n
<1> DEFINE Segments == { 0 .. n - 1 : n \in S }
<1>1. Segments \subseteq FiniteSubsetsOf(Nat) /\ Segments # {}
  <2>1. ASSUME NEW n \in S PROVE 0 .. n - 1 \in FiniteSubsetsOf(Nat)
    <3>1. IsFiniteSet(0 .. n - 1)
      BY FS_Interval
    <3> QED BY <3>1 DEF FiniteSubsetsOf
  <2> QED BY <2>1
<1>2. PICK segment \in Segments :
         \A other \in Segments : <<other, segment>> \notin StrictSubsetOrdering(Nat)
  <2> HIDE DEF Segments
  <2> QED BY <1>1, FS_StrictSubsetOrderingWellFounded, WFMin
<1>3. PICK m \in S : segment = 0 .. m - 1
  OBVIOUS
<1>4. ASSUME NEW n \in S, n < m PROVE FALSE
  <2>1. 0 .. n - 1 \subseteq 0 .. m - 1 /\ 0 .. n - 1 # 0 .. m - 1
    <3>1. m - 1 \in 0 .. m - 1 /\ m - 1 \notin 0 .. n - 1
      BY <1>4
    <3> QED BY <1>4, <3>1
  <2>2. 0 .. n - 1 \in SUBSET Nat /\ 0 .. m - 1 \in SUBSET Nat
    OBVIOUS
  <2>3. <<0 .. n - 1, 0 .. m - 1>> \in StrictSubsetOrdering(Nat)
    BY <2>1, <2>2 DEF StrictSubsetOrdering
  <2>4. 0 .. n - 1 \in Segments
    OBVIOUS
  <2> HIDE DEF Segments
  <2> QED BY <1>2, <1>3, <2>3, <2>4
<1> QED BY <1>4

(* When the search for a free frame fails, every frame is taken.           *)
LEMMA AllTaken ==
  ASSUME TypeOK, NoFreeFrame
  PROVE  taken = Frames
<1>1. SUFFICES ASSUME Frames \ taken # {} PROVE FALSE
  BY DEF TypeOK
<1>2. Frames \ taken \in SUBSET Nat
  BY ParamsAssumption DEF Frames
<1>3. PICK f \in Frames \ taken : \A g \in Frames \ taken : f <= g
  BY <1>1, <1>2, LeastNatural
<1>4. \A g \in 0 .. f - 1 : g \in Frames /\ ~ (f <= g)
  BY <1>3, ParamsAssumption DEF Frames
<1>5. find_first_free_frame(f)
  BY <1>3, <1>4 DEF find_first_free_frame
<1> QED BY <1>3, <1>5 DEF NoFreeFrame

(* A physical address tells the frame it lies in.                          *)
LEMMA ResultOfFrame ==
  ASSUME NEW a \in VirtualAddresses, NEW f \in Frames, NEW fault \in BOOLEAN
  PROVE  /\ Result(a, f, fault) \in ResultSet
         /\ Result(a, f, fault).physical_address \div PAGE_SIZE = f
         /\ Result(a, f, fault).virtual_address = a
         /\ Result(a, f, fault).caused_page_fault = fault
         /\ Result(a, f, fault).unused_memory_access_exception = FALSE
<1> DEFINE offset == get_logical_address(a).page_offset
           address == get_physical_address(f, offset)
<1>1. offset \in 0 .. PAGE_SIZE - 1
  <2>1. a \in Int
    BY ParamsAssumption, SMT DEF ParamsAssumption
  <2> QED BY <2>1, SMT DEF get_logical_address, PAGE_SIZE
<1>2. f \in Int /\ 0 <= f /\ f <= NumOfFrames - 1 /\ NumOfFrames \in Nat
  BY ParamsAssumption DEF Frames
<1>3. /\ address \in -1 .. NumOfFrames * PAGE_SIZE - 1
      /\ address \div PAGE_SIZE = f
  <2> HIDE DEF offset
  <2> QED BY <1>1, <1>2, SMT DEF get_physical_address, PAGE_SIZE
<1> QED BY <1>3, SMT DEF Result, ResultSet

(* The results of earlier rounds stay as they are.                         *)
LEMMA AppendKeeps ==
  ASSUME results \in Seq(ResultSet), NEW r \in ResultSet,
         results' = Append(results, r)
  PROVE  /\ results' \in Seq(ResultSet)
         /\ Len(results) \in Nat /\ Len(results') = Len(results) + 1
         /\ DOMAIN results = 1 .. Len(results)
         /\ DOMAIN results' = 1 .. Len(results) + 1
         /\ \A i \in 1 .. Len(results) : results'[i] = results[i]
         /\ results'[Len(results) + 1] = r
OBVIOUS

LEMMA InitInv == Init => TableInv
BY ParamsAssumption
   DEF Init, TableInv, TypeOK, FrameOwnership, OutputConsistent,
       TimesMatchResults, LoadTimesDiffer, ValidHasFrame, InTime

-----------------------------------------------------------------------------
(* What the rounds of the loop preserve.                                   *)

(* A round that adds a result r and keeps what the earlier results say     *)
(* keeps OutputConsistent, if r is no hit or is as consistent as the rest. *)
LEMMA OutputStep ==
  ASSUME TableInv, NEW r \in ResultSet, results' = Append(results, r),
         InTime' /\ ~ r.unused_memory_access_exception /\ ~ r.caused_page_fault =>
           \E i \in 1 .. Len(results) :
             /\ Mapped(i) /\ PageAt(i) = PageOf(r.virtual_address)
             /\ FrameAt(i) = r.physical_address \div PAGE_SIZE
             /\ \A k \in i + 1 .. Len(results) :
                  Mapped(k) => FrameAt(k) # FrameAt(i)
  PROVE  OutputConsistent'
<1>1. /\ results \in Seq(ResultSet) /\ OutputConsistent
  BY DEF TableInv, TypeOK
<1> DEFINE n == Len(results)
<1>2. /\ n \in Nat /\ Len(results') = n + 1
      /\ DOMAIN results = 1 .. n /\ DOMAIN results' = 1 .. n + 1
      /\ \A i \in 1 .. n : results'[i] = results[i]
      /\ results'[n + 1] = r
  BY <1>1, AppendKeeps
<1>3. SUFFICES ASSUME InTime', NEW j \in 1 .. n + 1, Mapped(j)', ~ Fault(j)'
               PROVE  \E i \in 1 .. j - 1 :
                        /\ Mapped(i)' /\ PageAt(i)' = PageAt(j)'
                        /\ FrameAt(i)' = FrameAt(j)'
                        /\ \A k \in i + 1 .. j - 1 :
                             Mapped(k)' /\ FrameAt(k)' = FrameAt(j)'
                               => PageAt(k)' = PageAt(j)'
  BY <1>2 DEF OutputConsistent
<1>4. InTime
  BY <1>2, <1>3, ParamsAssumption DEF InTime, ParamsAssumption
<1>5. \A i \in 1 .. n : /\ Mapped(i)' <=> Mapped(i)
                        /\ PageAt(i)' = PageAt(i)
                        /\ FrameAt(i)' = FrameAt(i)
                        /\ Fault(i)' = Fault(i)
  BY <1>2 DEF Mapped, PageAt, FrameAt, Fault
<1> HIDE DEF n
<1>6. CASE j \in 1 .. n
  <2>1. PICK i \in 1 .. j - 1 :
          /\ Mapped(i) /\ PageAt(i) = PageAt(j) /\ FrameAt(i) = FrameAt(j)
          /\ \A k \in i + 1 .. j - 1 :
               Mapped(k) /\ FrameAt(k) = FrameAt(j) => PageAt(k) = PageAt(j)
    BY <1>1, <1>2, <1>3, <1>4, <1>5, <1>6 DEF OutputConsistent
  <2>2. i \in 1 .. n /\ \A k \in i + 1 .. j - 1 : k \in 1 .. n
    BY <1>2, <1>6
  <2> QED BY <1>2, <1>6, <2>1, <2>2 DEF Mapped, PageAt, FrameAt
<1>7. CASE j = n + 1
  <2>1. /\ ~ r.unused_memory_access_exception /\ ~ r.caused_page_fault
        /\ PageAt(j)' = PageOf(r.virtual_address)
        /\ FrameAt(j)' = r.physical_address \div PAGE_SIZE
    BY <1>2, <1>3, <1>7 DEF Mapped, Fault, PageAt, FrameAt
  <2>2. PICK i \in 1 .. n :
          /\ Mapped(i) /\ PageAt(i) = PageOf(r.virtual_address)
          /\ FrameAt(i) = r.physical_address \div PAGE_SIZE
          /\ \A k \in i + 1 .. n : Mapped(k) => FrameAt(k) # FrameAt(i)
    BY <1>3, <2>1 DEF n
  <2>3. i \in 1 .. j - 1 /\ j - 1 = n /\ \A k \in i + 1 .. j - 1 : k \in 1 .. n
    BY <1>2, <1>7
  <2> QED BY <1>2, <2>1, <2>2, <2>3 DEF Mapped, PageAt, FrameAt
<1> QED BY <1>2, <1>6, <1>7

(* What a round leaves true of a page whose frame it does not use ...      *)
LEMMA OtherTimes ==
  ASSUME TypeOK, NEW p \in Pages, PageTimesMatch(p),
         NEW r \in ResultSet, results' = Append(results, r),
         frame'[p] = frame[p], page_in_time'[p] = page_in_time[p],
         last_used_time'[p] = last_used_time[p],
         r.unused_memory_access_exception \/ r.physical_address \div PAGE_SIZE # frame[p]
  PROVE  PageTimesMatch(p)'
<1>n. PICK n : n = Len(results)
  OBVIOUS
<1>u. PICK u : u = last_used_time[p]
  OBVIOUS
<1>1. /\ n \in Nat /\ Len(results') = n + 1
      /\ DOMAIN results = 1 .. n /\ DOMAIN results' = 1 .. n + 1
      /\ \A i \in 1 .. n : results'[i] = results[i]
      /\ results'[n + 1] = r
  BY <1>n, AppendKeeps DEF TypeOK
<1>2. u \in 1 .. n /\ last_used_time'[p] = u
  BY <1>1, <1>u DEF PageTimesMatch
<1>3. \A i \in 1 .. n : /\ Mapped(i)' <=> Mapped(i)
                        /\ PageAt(i)' = PageAt(i)
                        /\ FrameAt(i)' = FrameAt(i)
  BY <1>1 DEF Mapped, PageAt, FrameAt
<1>4. Mapped(n + 1)' => FrameAt(n + 1)' # frame[p]
  BY <1>1 DEF Mapped, FrameAt
<1>5. /\ Mapped(u) /\ PageAt(u) = p /\ FrameAt(u) = frame[p]
      /\ \A k \in u + 1 .. n : Mapped(k) => FrameAt(k) # frame[p]
      /\ page_in_time[p] \in 1 .. u
  BY <1>n, <1>u DEF PageTimesMatch
<1>6. /\ Mapped(u)' /\ PageAt(u)' = p /\ FrameAt(u)' = frame'[p]
      /\ u \in DOMAIN results' /\ page_in_time'[p] \in 1 .. u
  BY <1>1, <1>2, <1>3, <1>5 DEF Mapped, PageAt, FrameAt
<1>7. ASSUME NEW k \in u + 1 .. n + 1, Mapped(k)' PROVE FrameAt(k)' # frame'[p]
  <2>1. k \in u + 1 .. n \/ k = n + 1
    BY <1>1, <1>2
  <2>2. k \in u + 1 .. n => k \in 1 .. n
    BY <1>1, <1>2
  <2> QED BY <1>3, <1>4, <1>5, <1>7, <2>1, <2>2
<1> QED BY <1>1, <1>2, <1>6, <1>7 DEF PageTimesMatch

(* ... and what it makes true of the page it uses.                         *)
LEMMA OwnTimes ==
  ASSUME TypeOK, NEW p \in Pages, NEW r \in ResultSet,
         results' = Append(results, r),
         ~ r.unused_memory_access_exception, PageOf(r.virtual_address) = p,
         r.physical_address \div PAGE_SIZE = frame'[p],
         last_used_time'[p] = Now, page_in_time'[p] \in 1 .. Now
  PROVE  PageTimesMatch(p)'
<1>m. PICK m : m = Now
  OBVIOUS
<1>1. /\ Len(results) \in Nat /\ Len(results') = m
      /\ DOMAIN results' = 1 .. m
      /\ results'[m] = r /\ m \in Nat \ {0}
      /\ last_used_time'[p] = m /\ page_in_time'[p] \in 1 .. m
  BY <1>m, AppendKeeps DEF TypeOK, Now
<1>2. Mapped(m)' /\ PageAt(m)' = p /\ FrameAt(m)' = frame'[p]
  BY <1>1 DEF Mapped, PageAt, FrameAt
<1>3. m \in 1 .. m /\ ~ \E k \in m + 1 .. m : TRUE
  BY <1>1
<1> QED BY <1>1, <1>2, <1>3 DEF PageTimesMatch

LEMMA UnusedStep ==
  ASSUME TableInv, NEW a \in VirtualAddresses, access_unused(a)
  PROVE  TableInv'
<1> DEFINE r == [ virtual_address |-> a, physical_address |-> -1,
                  caused_page_fault |-> FALSE,
                  unused_memory_access_exception |-> TRUE ]
           n == Len(results)
<1>1. r \in ResultSet /\ r.unused_memory_access_exception
  <2>1. -1 \in -1 .. NumOfFrames * PAGE_SIZE - 1
    BY ParamsAssumption, SMT DEF ParamsAssumption, PAGE_SIZE
  <2> QED BY <2>1 DEF ResultSet
<1>2. results' = Append(results, r) /\ UNCHANGED <<tableVars, outcome>>
  BY DEF access_unused
<1> HIDE DEF r
<1>3. TypeOK /\ results \in Seq(ResultSet)
  BY DEF TableInv, TypeOK
<1>4. /\ results' \in Seq(ResultSet)
      /\ n \in Nat /\ Len(results') = n + 1
      /\ DOMAIN results = 1 .. n /\ DOMAIN results' = 1 .. n + 1
      /\ \A i \in 1 .. n : results'[i] = results[i]
      /\ results'[n + 1] = r
  BY <1>1, <1>2, <1>3, AppendKeeps
<1>5. InTime' => InTime
  BY <1>4, ParamsAssumption DEF InTime, ParamsAssumption
<1>6. TypeOK'
  BY <1>2, <1>3, <1>4 DEF TypeOK, tableVars
<1>7. FrameOwnership' /\ LoadTimesDiffer' /\ ValidHasFrame'
  BY <1>2, <1>5 DEF TableInv, FrameOwnership, LoadTimesDiffer, ValidHasFrame, tableVars
<1>8. OutputConsistent'
  BY <1>1, <1>2, OutputStep
<1>9. TimesMatchResults'
  <2>1. SUFFICES ASSUME InTime', NEW p \in Pages, valid'[p]
                 PROVE  PageTimesMatch(p)'
    BY DEF TimesMatchResults
  <2>2. PageTimesMatch(p)
    BY <1>2, <1>5, <2>1 DEF TableInv, TimesMatchResults, tableVars
  <2> QED BY <1>1, <1>2, <1>3, <2>2, OtherTimes DEF tableVars
<1> QED BY <1>6, <1>7, <1>8, <1>9 DEF TableInv

LEMMA HitStep ==
  ASSUME TableInv, NEW a \in VirtualAddresses, access_valid(a)
  PROVE  TableInv'
<1>p. PICK p \in Pages : p = PageOf(a)
  BY DEF Pages
<1>f. PICK f : f = frame[p]
  OBVIOUS
<1>r. PICK r : r = Result(a, f, FALSE)
  OBVIOUS
<1>1. /\ valid[p] /\ results' = Append(results, r)
      /\ last_used_time' = [last_used_time EXCEPT ![p] = Now]
      /\ UNCHANGED <<taken, frame, valid, page_in_time, outcome>>
  BY <1>p, <1>f, <1>r DEF access_valid
<1>2. TypeOK /\ results \in Seq(ResultSet)
  BY DEF TableInv, TypeOK
<1>t. /\ Len(results) \in Nat /\ Len(results') = Len(results) + 1
      /\ DOMAIN results = 1 .. Len(results)
  BY <1>1, <1>2 DEF TypeOK
<1>3. InTime' => InTime
  BY <1>t, ParamsAssumption DEF InTime, ParamsAssumption
<1>4. f \in Frames
  BY <1>1, <1>f DEF TableInv, ValidHasFrame
<1>5. /\ r \in ResultSet /\ r.physical_address \div PAGE_SIZE = f
      /\ PageOf(r.virtual_address) = p /\ r.virtual_address = a
      /\ ~ r.unused_memory_access_exception
  BY <1>4, <1>p, <1>r, ResultOfFrame
<1>6. TypeOK'
  <2>1. results' \in Seq(ResultSet)
    BY <1>1, <1>2, <1>5, AppendKeeps
  <2>2. Now \in Int
    BY <1>t DEF Now
  <2> QED BY <1>1, <1>2, <2>1, <2>2 DEF TypeOK
<1>7. FrameOwnership' /\ LoadTimesDiffer' /\ ValidHasFrame'
  BY <1>1, <1>3 DEF TableInv, FrameOwnership, LoadTimesDiffer, ValidHasFrame
<1>8. InTime => PageTimesMatch(p)
  BY <1>1 DEF TableInv, TimesMatchResults
<1>9. OutputConsistent'
  <2>1. ASSUME InTime'
        PROVE  \E i \in 1 .. Len(results) :
                 /\ Mapped(i) /\ PageAt(i) = PageOf(r.virtual_address)
                 /\ FrameAt(i) = r.physical_address \div PAGE_SIZE
                 /\ \A k \in i + 1 .. Len(results) :
                      Mapped(k) => FrameAt(k) # FrameAt(i)
    <3>1. last_used_time[p] \in 1 .. Len(results)
      BY <1>3, <1>8, <1>t, <2>1 DEF PageTimesMatch
    <3> WITNESS last_used_time[p] \in 1 .. Len(results)
    <3> QED BY <1>3, <1>5, <1>8, <1>f, <2>1 DEF PageTimesMatch
  <2> QED BY <1>1, <1>5, <2>1, OutputStep
<1>10. ASSUME InTime', NEW q \in Pages, valid'[q] PROVE PageTimesMatch(q)'
  <2>1. valid[q] /\ PageTimesMatch(q)
    BY <1>1, <1>3, <1>10 DEF TableInv, TimesMatchResults
  <2>2. CASE q = p
    <3>1. /\ frame'[p] = f /\ last_used_time'[p] = Now
          /\ page_in_time'[p] \in 1 .. Now
      BY <1>1, <1>2, <1>f, <1>t, <2>1, <2>2 DEF TypeOK, PageTimesMatch, Now
    <3> QED BY <1>1, <1>2, <1>5, <2>2, <3>1, OwnTimes
  <2>3. CASE q # p
    <3>1. frame[q] # f
      BY <1>1, <1>3, <1>10, <1>f, <2>1, <2>3 DEF TableInv, FrameOwnership
    <3>2. /\ frame'[q] = frame[q] /\ page_in_time'[q] = page_in_time[q]
          /\ last_used_time'[q] = last_used_time[q]
      BY <1>1, <1>2, <2>3 DEF TypeOK
    <3> QED BY <1>1, <1>2, <1>5, <2>1, <3>1, <3>2, OtherTimes
  <2> QED BY <2>2, <2>3
<1>11. TimesMatchResults'
  BY <1>10 DEF TimesMatchResults
<1> QED BY <1>6, <1>7, <1>9, <1>11 DEF TableInv

LEMMA PageInStep ==
  ASSUME TableInv, NEW a \in VirtualAddresses, NEW f \in Frames,
         ~ valid[PageOf(a)], page_in(a, f), valid' \in [Pages -> BOOLEAN],
         \A q \in Pages : valid'[q] => q = PageOf(a) \/ valid[q],
         InTime' => \A q \in Pages :
                      valid'[q] <=> q = PageOf(a) \/ (valid[q] /\ frame[q] # f)
  PROVE  TableInv'
<1>p. PICK p \in Pages : p = PageOf(a)
  BY DEF Pages
<1>r. PICK r : r = Result(a, f, TRUE)
  OBVIOUS
<1>1. /\ taken' = taken \cup {f}
      /\ frame' = [frame EXCEPT ![p] = f]
      /\ page_in_time' = [page_in_time EXCEPT ![p] = Now]
      /\ last_used_time' = [last_used_time EXCEPT ![p] = Now]
      /\ results' = Append(results, r)
      /\ outcome' = outcome
  BY <1>p, <1>r DEF page_in
<1>2. TypeOK /\ results \in Seq(ResultSet)
  BY DEF TableInv, TypeOK
<1>3. /\ r \in ResultSet /\ r.physical_address \div PAGE_SIZE = f
      /\ PageOf(r.virtual_address) = p /\ r.caused_page_fault
      /\ ~ r.unused_memory_access_exception
  BY <1>p, <1>r, ResultOfFrame
<1>4. /\ results' \in Seq(ResultSet)
      /\ Len(results) \in Nat /\ Len(results') = Len(results) + 1
      /\ DOMAIN results = 1 .. Len(results)
  BY <1>1, <1>2, <1>3, AppendKeeps
<1>5. InTime' => InTime
  BY <1>4, ParamsAssumption DEF InTime, ParamsAssumption
<1>6. Now \in Nat \ {0}
  BY <1>4 DEF Now
<1>7. TypeOK'
  BY <1>1, <1>2, <1>4, <1>6 DEF TypeOK
<1>8. OutputConsistent'
  BY <1>1, <1>3, OutputStep
<1>9. ASSUME InTime' PROVE FrameOwnership'
  <2>1. /\ taken = { frame[q] : q \in { s \in Pages : valid[s] } }
        /\ \A q, s \in Pages : valid[q] /\ valid[s] /\ frame[q] = frame[s] => q = s
    BY <1>5, <1>9 DEF TableInv, FrameOwnership
  <2>2. \A q \in Pages : valid'[q] <=> q = p \/ (valid[q] /\ frame[q] # f)
    BY <1>9, <1>p
  <2>3. ~ valid[p] /\ frame'[p] = f /\ \A q \in Pages \ {p} : frame'[q] = frame[q]
    BY <1>1, <1>2, <1>p DEF TypeOK
  <2>4. \A q, s \in Pages : valid'[q] /\ valid'[s] /\ frame'[q] = frame'[s] => q = s
    BY <2>1, <2>2, <2>3
  <2>5. ASSUME NEW g \in taken' PROVE \E q \in Pages : valid'[q] /\ frame'[q] = g
    BY <1>1, <2>1, <2>2, <2>3, <2>5
  <2>6. ASSUME NEW q \in Pages, valid'[q] PROVE frame'[q] \in taken'
    BY <1>1, <2>1, <2>2, <2>3, <2>6
  <2>7. taken' = { frame'[q] : q \in { s \in Pages : valid'[s] } }
    BY <2>5, <2>6
  <2> QED BY <2>4, <2>7 DEF FrameOwnership
<1>10. ASSUME InTime', NEW q \in Pages, valid'[q] PROVE PageTimesMatch(q)'
  <2>1. CASE q = p
    <3>1. /\ frame'[p] = f /\ last_used_time'[p] = Now
          /\ page_in_time'[p] \in 1 .. Now
      BY <1>1, <1>2, <1>6 DEF TypeOK
    <3> QED BY <1>1, <1>2, <1>3, <2>1, <3>1, OwnTimes
  <2>2. CASE q # p
    <3>1. valid[q] /\ frame[q] # f
      BY <1>10, <1>p, <2>2
    <3>2. PageTimesMatch(q)
      BY <1>5, <1>10, <3>1 DEF TableInv, TimesMatchResults
    <3>3. /\ frame'[q] = frame[q] /\ page_in_time'[q] = page_in_time[q]
          /\ last_used_time'[q] = last_used_time[q]
      BY <1>1, <1>2, <2>2 DEF TypeOK
    <3> QED BY <1>1, <1>2, <1>3, <3>1, <3>2, <3>3, OtherTimes
  <2> QED BY <2>1, <2>2
<1>11. ASSUME InTime', NEW q \in Pages, NEW s \in Pages, valid'[q], valid'[s],
              page_in_time'[q] = page_in_time'[s]
       PROVE  q = s
  <2>1. ASSUME NEW u \in Pages \ {p}, valid'[u]
        PROVE  valid[u] /\ page_in_time'[u] = page_in_time[u] /\ page_in_time'[u] # Now
    <3>1. valid[u] /\ page_in_time'[u] = page_in_time[u]
      BY <1>1, <1>2, <1>11, <1>p, <2>1 DEF TypeOK
    <3>2. PageTimesMatch(u)
      BY <1>5, <1>11, <3>1 DEF TableInv, TimesMatchResults
    <3>3. page_in_time[u] \in 1 .. Len(results)
      BY <1>4, <3>2 DEF PageTimesMatch
    <3> QED BY <1>4, <3>1, <3>3 DEF Now
  <2>2. page_in_time'[p] = Now
    BY <1>1, <1>2 DEF TypeOK
  <2>3. \A u, v \in Pages : valid[u] /\ valid[v] /\ page_in_time[u] = page_in_time[v]
                              => u = v
    BY <1>5, <1>11 DEF TableInv, LoadTimesDiffer
  <2> QED BY <1>11, <2>1, <2>2, <2>3
<1>12. TimesMatchResults'
  BY <1>10 DEF TimesMatchResults
<1>13. LoadTimesDiffer'
  BY <1>11 DEF LoadTimesDiffer
<1>14. FrameOwnership'
  BY <1>9 DEF FrameOwnership
<1>15. ValidHasFrame'
  BY <1>1, <1>2, <1>p DEF TableInv, TypeOK, ValidHasFrame
<1> QED BY <1>7, <1>8, <1>12, <1>13, <1>14, <1>15 DEF TableInv

(* While a valid page has a time before FarFuture, the searches for the    *)
(* earliest page find one.                                                 *)
LEMMA EarliestExists ==
  ASSUME NEW time, NEW p \in Pages, valid[p],
         \A q \in Pages : valid[q] => time[q] \in Nat /\ time[q] < FarFuture
  PROVE  \E q \in Pages : IsEarliest(q, time)
<1> DEFINE Times == { time[q] : q \in { s \in Pages : valid[s] } }
<1>1. Times \in SUBSET Nat /\ Times # {}
  OBVIOUS
<1>2. PICK m \in Times : \A n \in Times : m <= n
  <2> HIDE DEF Times
  <2> QED BY <1>1, LeastNatural
<1>3. PICK q \in Pages : valid[q] /\ time[q] = m
  BY <1>2
<1> QED BY <1>2, <1>3 DEF IsEarliest

(* Until FarFuture no round uses the uninitialised pointer.                *)
LEMMA VictimFound ==
  ASSUME TableInv, NoFreeFrame, Len(results) < FarFuture, NEW f \in Frames
  PROVE  /\ \E p \in Pages : get_fifo_page(p)
         /\ \E p \in Pages : get_lru_page(p)
         /\ \E p \in Pages : get_victim_page(p)
<1>1. TypeOK /\ InTime /\ Len(results) \in Nat /\ DOMAIN results = 1 .. Len(results)
  BY ParamsAssumption DEF TableInv, TypeOK, InTime, ParamsAssumption
<1>2. PICK p \in Pages : valid[p]
  <2>1. f \in taken
    BY <1>1, AllTaken
  <2> QED BY <1>1, <2>1 DEF TableInv, FrameOwnership
<1>3. ASSUME NEW q \in Pages, valid[q]
      PROVE  /\ page_in_time[q] \in Nat /\ page_in_time[q] < FarFuture
             /\ last_used_time[q] \in Nat /\ last_used_time[q] < FarFuture
  <2>1. PageTimesMatch(q)
    BY <1>1, <1>3 DEF TableInv, TimesMatchResults
  <2>2. last_used_time[q] \in 1 .. Len(results) /\ page_in_time[q] \in 1 .. last_used_time[q]
    BY <1>1, <2>1 DEF PageTimesMatch
  <2> QED BY <1>1, <2>2, ParamsAssumption DEF ParamsAssumption
<1>4. \E q \in Pages : IsEarliest(q, page_in_time)
  BY <1>2, <1>3, EarliestExists
<1>5. \E q \in Pages : IsEarliest(q, last_used_time)
  BY <1>2, <1>3, EarliestExists
<1> QED BY <1>4, <1>5 DEF get_fifo_page, get_lru_page, get_victim_page

LEMMA VictimIsValid ==
  ASSUME NEW p \in Pages, get_victim_page(p)
  PROVE  valid[p]
BY DEF get_victim_page, get_fifo_page, get_lru_page, IsEarliest

(* A round that loads a page adds one result.                              *)
LEMMA AppendRound ==
  ASSUME TypeOK, NEW a \in VirtualAddresses, NEW f \in Frames, page_in(a, f)
  PROVE  (InTime' => InTime) /\ (InTime' => Len(results) < FarFuture)
<1>1. Len(results') = Len(results) + 1 /\ Len(results) \in Nat
  BY ResultOfFrame, AppendKeeps DEF TypeOK, page_in
<1> QED BY <1>1, ParamsAssumption DEF InTime, ParamsAssumption

(* The invariant speaks of the table and the results only.                 *)
LEMMA Unchanged ==
  ASSUME TableInv, UNCHANGED <<tableVars, results>>,
         outcome' \in {"running", "segv", "printed", "failed"}
  PROVE  TableInv'
<1>1. TypeOK' /\ FrameOwnership' /\ LoadTimesDiffer' /\ ValidHasFrame'
  BY DEF TableInv, TypeOK, FrameOwnership, LoadTimesDiffer, ValidHasFrame, InTime,
         tableVars
<1>2. OutputConsistent'
  BY DEF TableInv, OutputConsistent, InTime, Mapped, PageAt, FrameAt, Fault
<1>3. TimesMatchResults'
  BY DEF TableInv, TimesMatchResults, PageTimesMatch, InTime, Mapped, PageAt,
         FrameAt, tableVars
<1> QED BY <1>1, <1>2, <1>3 DEF TableInv

LEMMA FreeFrameStep ==
  ASSUME TableInv, NEW a \in VirtualAddresses, fault_with_free_frame(a)
  PROVE  TableInv'
<1>1. PICK f \in Frames : find_first_free_frame(f) /\ page_in(a, f)
  BY DEF fault_with_free_frame
<1>2. PageOf(a) \in Pages /\ ~ valid[PageOf(a)] /\ f \notin taken
  BY <1>1 DEF Pages, fault_with_free_frame, Faults, find_first_free_frame
<1>3. valid' = [valid EXCEPT ![PageOf(a)] = TRUE] /\ valid \in [Pages -> BOOLEAN]
  BY DEF fault_with_free_frame, TableInv, TypeOK
<1>4. /\ valid' \in [Pages -> BOOLEAN]
      /\ \A q \in Pages : valid'[q] <=> q = PageOf(a) \/ valid[q]
  BY <1>2, <1>3
<1>5. InTime' => InTime
  BY <1>1, AppendRound DEF TableInv
<1>6. InTime' => \A q \in Pages : valid[q] => frame[q] # f
  BY <1>2, <1>5 DEF TableInv, FrameOwnership
<1> QED BY <1>1, <1>2, <1>4, <1>6, PageInStep

LEMMA VictimStep ==
  ASSUME TableInv, NEW a \in VirtualAddresses, Faults(a),
         NEW victim \in Pages, frame[victim] \in Frames, Evict(victim, a),
         InTime' => valid[victim]
  PROVE  TableInv'
<1>1. PICK f \in Frames : f = frame[victim]
  OBVIOUS
<1>2. PageOf(a) \in Pages /\ ~ valid[PageOf(a)] /\ page_in(a, f)
  BY <1>1 DEF Pages, Faults, Evict
<1>3. /\ valid' = [valid EXCEPT ![victim] = FALSE, ![PageOf(a)] = TRUE]
      /\ valid \in [Pages -> BOOLEAN]
  BY DEF Evict, TableInv, TypeOK
<1>4. /\ valid' \in [Pages -> BOOLEAN]
      /\ \A q \in Pages : valid'[q] <=> q = PageOf(a) \/ (valid[q] /\ q # victim)
  BY <1>2, <1>3
<1>5. InTime' => InTime
  BY <1>2, AppendRound DEF TableInv
<1>6. InTime' => \A q \in Pages : valid[q] => (q # victim <=> frame[q] # f)
  BY <1>1, <1>5 DEF TableInv, FrameOwnership
<1> QED BY <1>1, <1>2, <1>4, <1>6, PageInStep

LEMMA RoundStep ==
  ASSUME TableInv, NEW a \in VirtualAddresses, run_paging_simulation(a)
  PROVE  TableInv'
<1>1. CASE access_unused(a)
  BY <1>1, UnusedStep
<1>2. CASE access_valid(a)
  BY <1>2, HitStep
<1>3. CASE fault_with_free_frame(a)
  BY <1>3, FreeFrameStep
<1>4. CASE fault_with_victim(a)
  <2>1. PICK victim \in Pages : get_victim_page(victim) /\ Evict(victim, a)
    BY <1>4 DEF fault_with_victim
  <2>2. valid[victim] /\ frame[victim] \in Frames
    BY <2>1, VictimIsValid DEF TableInv, ValidHasFrame
  <2> QED BY <1>4, <2>1, <2>2, VictimStep DEF fault_with_victim
<1>5. CASE fault_with_wild_victim(a)
  <2>1. PICK victim \in Pages : frame[victim] # -1 /\ Evict(victim, a)
    BY <1>5 DEF fault_with_wild_victim
  <2>2. frame[victim] \in Frames
    BY <2>1 DEF TableInv, TypeOK
  <2>3. ~ (Len(results) < FarFuture)
    BY <1>5, <2>2, VictimFound DEF fault_with_wild_victim
  <2>4. page_in(a, frame[victim])
    BY <2>1 DEF Evict
  <2>5. ~ InTime'
    BY <2>2, <2>3, <2>4, AppendRound DEF TableInv
  <2> QED BY <1>5, <2>1, <2>2, <2>5, VictimStep DEF fault_with_wild_victim
<1>6. CASE fault_with_wild_pointer(a)
  <2>1. UNCHANGED <<tableVars, results>> /\ outcome' = "segv"
    BY <1>6 DEF fault_with_wild_pointer
  <2> QED BY <2>1, Unchanged
<1> QED BY <1>1, <1>2, <1>3, <1>4, <1>5, <1>6 DEF run_paging_simulation

LEMMA StepInv == TableInv /\ [Next]_vars => TableInv'
<1> SUFFICES ASSUME TableInv, [Next]_vars PROVE TableInv'
  OBVIOUS
<1>1. ASSUME NEW a \in VirtualAddresses, run_paging_simulation(a) PROVE TableInv'
  BY <1>1, RoundStep
<1>2. CASE print_paging_results
  BY <1>2, Unchanged DEF print_paging_results
<1>3. CASE Terminated
  <2>1. UNCHANGED <<tableVars, results>> /\ outcome' = outcome
    BY <1>3 DEF Terminated, vars
  <2> QED BY <2>1, Unchanged DEF TableInv, TypeOK
<1>4. CASE UNCHANGED vars
  <2>1. UNCHANGED <<tableVars, results>> /\ outcome' = outcome
    BY <1>4 DEF vars
  <2> QED BY <2>1, Unchanged DEF TableInv, TypeOK
<1> QED BY <1>1, <1>2, <1>3, <1>4 DEF Next

(* The table matches the results in every reachable state.                 *)
THEOREM TableInvariance == Spec => []TableInv
<1>1. Init => TableInv
  BY InitInv
<1>2. TableInv /\ [Next]_vars => TableInv'
  BY StepInv
<1> QED BY <1>1, <1>2, PTL DEF Spec

(* Frames are indices of the frame array, physical addresses lie in the    *)
(* memory, and every entry keeps to its range.                             *)
THEOREM TypeCorrect == Spec => []TypeOK
<1>1. TableInv => TypeOK
  BY DEF TableInv
<1> QED BY <1>1, TableInvariance, PTL

(* Before FarFuture no two valid pages share a frame, and the taken frames *)
(* are those of the valid pages: replacements neither alias nor lose one.  *)
THEOREM FramesAreOwned == Spec => []FrameOwnership
<1>1. TableInv => FrameOwnership
  BY DEF TableInv
<1> QED BY <1>1, TableInvariance, PTL

(* Before FarFuture an access without a fault always goes to the frame in  *)
(* which the page was last seen, unused by any other page since.           *)
THEOREM OutputIsConsistent == Spec => []OutputConsistent
<1>1. TableInv => OutputConsistent
  BY DEF TableInv
<1> QED BY <1>1, TableInvariance, PTL
-----------------------------------------------------------------------------
(***************************************************************************)
(* Paging implements PageReplacement in every round up to FarFuture.  The  *)
(* frames a full memory has taken are as many as the pages it holds, and   *)
(* the times order the pages as they will leave.                           *)
(***************************************************************************)

(* There are as many resident pages as taken frames.                       *)
LEMMA ResidentCardinality ==
  ASSUME TableInv, InTime
  PROVE  /\ IsFiniteSet(taken) /\ IsFiniteSet(Resident)
         /\ Cardinality(Resident) = Cardinality(taken)
<1> DEFINE owner == [p \in Resident |-> frame[p]]
<1>1. IsFiniteSet(taken)
  <2>1. IsFiniteSet(Frames)
    BY FS_Interval, ParamsAssumption DEF Frames, ParamsAssumption
  <2> QED BY <2>1, FS_Subset DEF TableInv, TypeOK
<1>2. /\ taken = { frame[p] : p \in Resident }
      /\ \A p, q \in Resident : frame[p] = frame[q] => p = q
  BY DEF TableInv, FrameOwnership, Resident
<1>3. owner \in Injection(Resident, taken) /\ owner \in Surjection(Resident, taken)
  <2>1. owner \in [Resident -> taken]
    BY <1>2
  <2>2. \A p, q \in Resident : owner[p] = owner[q] => p = q
    BY <1>2
  <2>3. \A f \in taken : \E p \in Resident : owner[p] = f
    BY <1>2
  <2> HIDE DEF owner
  <2> QED BY <2>1, <2>2, <2>3 DEF Injection, IsInjective, Surjection
<1> HIDE DEF owner
<1> QED BY <1>1, <1>3, FS_Injection

LEMMA FramesCardinality == IsFiniteSet(Frames) /\ Cardinality(Frames) = NumOfFrames
<1>1. 0 \in Int /\ NumOfFrames \in Nat /\ NumOfFrames - 1 \in Int
  BY ParamsAssumption DEF ParamsAssumption
<1>2. /\ IsFiniteSet(0 .. NumOfFrames - 1)
      /\ Cardinality(0 .. NumOfFrames - 1) =
           IF 0 > NumOfFrames - 1 THEN 0 ELSE NumOfFrames - 1 - 0 + 1
  BY <1>1, FS_Interval
<1> QED BY <1>1, <1>2 DEF Frames

(* What Cardinality says of the free frames.                               *)
LEMMA FreeFrameLeft ==
  ASSUME TableInv, InTime, NEW f \in Frames, f \notin taken
  PROVE  Cardinality(Resident) < NumOfFrames
<1>1. IsFiniteSet(Frames) /\ Cardinality(Frames) = NumOfFrames
  BY FramesCardinality
<1>2. /\ Cardinality(taken) <= NumOfFrames
      /\ Cardinality(taken) # NumOfFrames
  BY <1>1, FS_Subset DEF TableInv, TypeOK
<1>3. Cardinality(taken) \in Nat /\ NumOfFrames \in Nat
  BY ResidentCardinality, FS_CardinalityType, ParamsAssumption DEF ParamsAssumption
<1> QED BY <1>2, <1>3, ResidentCardinality

LEMMA MemoryFull ==
  ASSUME TableInv, InTime, NoFreeFrame
  PROVE  Cardinality(Resident) = NumOfFrames
<1>1. taken = Frames
  BY AllTaken DEF TableInv
<1>2. Cardinality(Frames) = NumOfFrames
  BY FramesCardinality
<1> QED BY <1>1, <1>2, ResidentCardinality

(* The times of the pages in memory are past and all different.            *)
LEMMA Times ==
  ASSUME TableInv, InTime
  PROVE  /\ Now \in Nat
         /\ \A p \in Resident :
              /\ page_in_time[p] \in Nat /\ page_in_time[p] < Now
              /\ last_used_time[p] \in Nat /\ last_used_time[p] < Now
         /\ \A p, q \in Resident :
              /\ page_in_time[p] = page_in_time[q] => p = q
              /\ last_used_time[p] = last_used_time[q] => p = q
<1>1. Len(results) \in Nat /\ DOMAIN results = 1 .. Len(results)
  BY DEF TableInv, TypeOK
<1>2. \A p \in Resident : PageTimesMatch(p)
  BY DEF TableInv, TimesMatchResults, Resident
<1>3. ASSUME NEW p \in Resident
      PROVE  /\ page_in_time[p] \in Nat /\ page_in_time[p] < Now
             /\ last_used_time[p] \in Nat /\ last_used_time[p] < Now
  <2>1. /\ last_used_time[p] \in 1 .. Len(results)
        /\ page_in_time[p] \in 1 .. last_used_time[p]
    BY <1>1, <1>2 DEF PageTimesMatch
  <2> QED BY <1>1, <2>1 DEF Now
<1>4. \A p, q \in Resident : last_used_time[p] = last_used_time[q] => p = q
  BY <1>2 DEF PageTimesMatch
<1>5. \A p, q \in Resident : page_in_time[p] = page_in_time[q] => p = q
  BY DEF TableInv, LoadTimesDiffer, Resident
<1> QED BY <1>1, <1>3, <1>4, <1>5 DEF Now

(* A page whose times become Now stands behind those that keep theirs.     *)
LEMMA GoesBehind ==
  ASSUME TableInv, InTime, NEW p \in Pages, NEW others \in SUBSET Resident,
         p \notin others, Resident' = others \cup {p},
         last_used_time' = [last_used_time EXCEPT ![p] = Now],
         \/ ReplacementAlgorithm = "LRU"
         \/ page_in_time' = [page_in_time EXCEPT ![p] = Now]
  PROVE  LeavingOrder' = Replacement!Behind(p, others)
<1>1. /\ p \in Pages /\ others \subseteq Pages
      /\ page_in_time \in [Pages -> Int] /\ last_used_time \in [Pages -> Int]
  BY DEF TableInv, TypeOK, Resident
<1>2. /\ Now \in Nat
      /\ \A q \in others :
           /\ page_in_time[q] \in Nat /\ page_in_time[q] < Now
           /\ last_used_time[q] \in Nat /\ last_used_time[q] < Now
  BY Times
<1>3. /\ last_used_time'[p] = Now
      /\ \A q \in others : last_used_time'[q] = last_used_time[q]
  BY <1>1
<1>4. ReplacementAlgorithm # "LRU" =>
        /\ page_in_time'[p] = Now
        /\ \A q \in others : page_in_time'[q] = page_in_time[q]
  BY <1>1
<1>5. /\ \A q, s \in others : LeavesBefore(q, s)' <=> LeavesBefore(q, s)
      /\ \A q \in others : LeavesBefore(q, p)' /\ ~ LeavesBefore(p, q)'
      /\ ~ LeavesBefore(p, p)'
  BY <1>2, <1>3, <1>4 DEF LeavesBefore, LeavingTime
<1>6. LeavingOrder' = { pair \in (others \cup {p}) \X (others \cup {p}) :
                          LeavesBefore(pair[1], pair[2])' }
  BY DEF LeavingOrder
<1>7. Replacement!Behind(p, others) =
        { pair \in LeavingOrder : pair[1] \in others /\ pair[2] \in others }
          \cup others \X {p}
  BY DEF Replacement!Behind
<1>8. ASSUME NEW q, NEW s
      PROVE  <<q, s>> \in LeavingOrder' <=> <<q, s>> \in Replacement!Behind(p, others)
  BY <1>5, <1>6, <1>7 DEF LeavingOrder
<1>9. \A pair \in LeavingOrder' : pair = <<pair[1], pair[2]>>
  BY <1>6
<1>10. \A pair \in Replacement!Behind(p, others) : pair = <<pair[1], pair[2]>>
  BY <1>7 DEF LeavingOrder
<1> QED BY <1>8, <1>9, <1>10

(* The instance counts as this module does.                                *)
LEMMA SameCardinality == Replacement!Cardinality(Resident) = Cardinality(Resident)
BY Zenon DEF Cardinality, Replacement!Cardinality

(* A round of the loop before FarFuture: InTime before and after.          *)
LEMMA HitRefines ==
  ASSUME TableInv, InTime, NEW a \in VirtualAddresses, access_valid(a)
  PROVE  Replacement!Hit(PageOf(a))
<1>p. PICK p \in Pages : p = PageOf(a)
  BY DEF Pages
<1>1. /\ valid[p] /\ last_used_time' = [last_used_time EXCEPT ![p] = Now]
      /\ UNCHANGED <<taken, frame, valid, page_in_time>>
  BY <1>p DEF access_valid
<1>2. p \in Resident /\ Resident' = Resident
  BY <1>1 DEF Resident
<1>3. CASE ReplacementAlgorithm = "LRU"
  <2>1. Resident' = (Resident \ {p}) \cup {p}
    BY <1>2
  <2>2. LeavingOrder' = Replacement!Behind(p, Resident \ {p})
    BY <1>1, <1>3, <2>1, GoesBehind
  <2> QED BY <1>2, <1>3, <1>p, <2>2 DEF Replacement!Hit
<1>4. CASE ReplacementAlgorithm # "LRU"
  <2>1. LeavingOrder' = LeavingOrder
    BY <1>1, <1>2, <1>4 DEF LeavingOrder, LeavesBefore, LeavingTime
  <2> QED BY <1>2, <1>4, <1>p, <2>1 DEF Replacement!Hit
<1> QED BY <1>3, <1>4

LEMMA LoadRefines ==
  ASSUME TableInv, InTime, NEW a \in VirtualAddresses, fault_with_free_frame(a)
  PROVE  Replacement!Load(PageOf(a))
<1>p. PICK p \in Pages : p = PageOf(a)
  BY DEF Pages
<1>1. PICK f \in Frames : find_first_free_frame(f) /\ page_in(a, f)
  BY DEF fault_with_free_frame
<1>2. /\ ~ valid[p] /\ valid' = [valid EXCEPT ![p] = TRUE]
      /\ page_in_time' = [page_in_time EXCEPT ![p] = Now]
      /\ last_used_time' = [last_used_time EXCEPT ![p] = Now]
  BY <1>1, <1>p DEF fault_with_free_frame, Faults, page_in
<1>3. p \notin Resident /\ Resident' = Resident \cup {p}
  BY <1>2 DEF Resident, TableInv, TypeOK
<1>4. Cardinality(Resident) < NumOfFrames
  BY <1>1, FreeFrameLeft DEF find_first_free_frame
<1>5. LeavingOrder' = Replacement!Behind(p, Resident)
  BY <1>2, <1>3, GoesBehind
<1> QED BY <1>3, <1>4, <1>5, <1>p, SameCardinality DEF Replacement!Load

LEMMA ReplaceRefines ==
  ASSUME TableInv, InTime, NEW a \in VirtualAddresses, fault_with_victim(a)
  PROVE  Replacement!Replace(PageOf(a))
<1>p. PICK p \in Pages : p = PageOf(a)
  BY DEF Pages
<1>1. PICK first \in Pages : get_victim_page(first) /\ Evict(first, a)
  BY DEF fault_with_victim
<1>2. /\ ~ valid[p] /\ valid' = [valid EXCEPT ![first] = FALSE, ![p] = TRUE]
      /\ page_in_time' = [page_in_time EXCEPT ![p] = Now]
      /\ last_used_time' = [last_used_time EXCEPT ![p] = Now]
  BY <1>1, <1>p DEF fault_with_victim, Faults, Evict, page_in
<1>3. valid[first]
  BY <1>1, VictimIsValid
<1>4. /\ p \notin Resident /\ first \in Resident
      /\ Resident' = (Resident \ {first}) \cup {p}
  BY <1>2, <1>3 DEF Resident, TableInv, TypeOK
<1>5. Cardinality(Resident) = NumOfFrames
  BY MemoryFull DEF fault_with_victim
<1>6. ASSUME NEW q \in Resident \ {first} PROVE <<first, q>> \in LeavingOrder
  <2>1. /\ ReplacementAlgorithm \in {"LRU", "FIFO"}
        /\ q \in Pages /\ valid[q]
    BY ParamsAssumption DEF ParamsAssumption, Resident
  <2>2. LeavesBefore(first, q)
    BY <1>1, <1>4, <1>6, <2>1, Times
       DEF get_victim_page, get_fifo_page, get_lru_page, IsEarliest, LeavesBefore, LeavingTime
  <2> QED BY <1>4, <2>2 DEF LeavingOrder
<1>7. LeavingOrder' = Replacement!Behind(p, Resident \ {first})
  BY <1>2, <1>4, GoesBehind
<1> QED BY <1>4, <1>5, <1>6, <1>7, <1>p, SameCardinality DEF Replacement!Replace

LEMMA RoundRefines ==
  ASSUME TableInv, InTime', NEW a \in VirtualAddresses, run_paging_simulation(a)
  PROVE  Replacement!Next \/ UNCHANGED Replacement!vars
<1>0. Len(results) \in Nat /\ FarFuture \in Nat
  BY ParamsAssumption DEF TableInv, TypeOK, ParamsAssumption
<1>1. ASSUME NEW r, results' = Append(results, r)
      PROVE  Len(results) < FarFuture /\ InTime
  BY <1>0, <1>1 DEF InTime, TableInv, TypeOK
<1>2. PageOf(a) \in Pages
  BY DEF Pages
<1>3. ASSUME UNCHANGED tableVars PROVE UNCHANGED Replacement!vars
  BY <1>3 DEF Replacement!vars, tableVars, LeavingOrder, Resident, LeavesBefore, LeavingTime
<1>4. CASE access_unused(a)
  BY <1>3, <1>4 DEF access_unused
<1>5. CASE access_valid(a)
  <2>1. InTime
    BY <1>1, <1>5 DEF access_valid
  <2> QED BY <1>2, <1>5, <2>1, HitRefines DEF Replacement!Next
<1>6. CASE fault_with_free_frame(a)
  <2>1. InTime
    BY <1>1, <1>6 DEF fault_with_free_frame, page_in
  <2> QED BY <1>2, <1>6, <2>1, LoadRefines DEF Replacement!Next
<1>7. CASE fault_with_victim(a)
  <2>1. InTime
    BY <1>1, <1>7 DEF fault_with_victim, Evict, page_in
  <2> QED BY <1>2, <1>7, <2>1, ReplaceRefines DEF Replacement!Next
<1>8. CASE fault_with_wild_victim(a)
  <2>1. PICK victim \in Pages : frame[victim] # -1
    BY <1>8 DEF fault_with_wild_victim
  <2>2. frame[victim] \in Frames
    BY <2>1 DEF TableInv, TypeOK
  <2>3. Len(results) < FarFuture /\ InTime
    BY <1>1, <1>8 DEF fault_with_wild_victim, Evict, page_in
  <2> QED BY <1>8, <2>2, <2>3, VictimFound DEF fault_with_wild_victim
<1>9. CASE fault_with_wild_pointer(a)
  BY <1>3, <1>9 DEF fault_with_wild_pointer
<1> QED BY <1>4, <1>5, <1>6, <1>7, <1>8, <1>9 DEF run_paging_simulation

(* On any input, the page table implements page replacement up to round    *)
(* FarFuture: FIFO evicts in order of loading, LRU in order of last use,   *)
(* and a page is evicted only when every frame holds one.                  *)
THEOREM Refinement == Spec => ImplementsReplacement
<1>1. Init => Replacement!Init
  BY DEF Init, Replacement!Init, LeavingOrder, Resident
<1>2. TableInv /\ [Next]_vars => [InTime' => Replacement!Next]_(Replacement!vars)
  <2> SUFFICES ASSUME TableInv, [Next]_vars, InTime'
               PROVE  Replacement!Next \/ UNCHANGED Replacement!vars
    OBVIOUS
  <2>1. ASSUME NEW a \in VirtualAddresses, run_paging_simulation(a)
        PROVE  Replacement!Next \/ UNCHANGED Replacement!vars
    BY <2>1, RoundRefines
  <2>2. ASSUME UNCHANGED tableVars PROVE UNCHANGED Replacement!vars
    BY <2>2 DEF Replacement!vars, tableVars, LeavingOrder, Resident, LeavesBefore, LeavingTime
  <2>3. CASE print_paging_results
    BY <2>2, <2>3 DEF print_paging_results
  <2>4. CASE UNCHANGED vars
    BY <2>2, <2>4 DEF vars
  <2> QED BY <2>1, <2>3, <2>4 DEF Next, Terminated
<1> QED BY <1>1, <1>2, TableInvariance, PTL DEF Spec, ImplementsReplacement

(* An input no longer than FarFuture implements it in every round.         *)
THEOREM RefinementInTime ==
  ASSUME InputLength <= FarFuture
  PROVE  Spec => Replacement!Spec
<1> DEFINE Within == Len(results) \in Nat /\ Len(results) <= InputLength
<1>1. Init => Within
  BY ParamsAssumption DEF Init, ParamsAssumption
<1>2. TableInv /\ Within /\ [Next]_vars => Within'
  <2> SUFFICES ASSUME TableInv, Within, [Next]_vars PROVE Within'
    OBVIOUS
  <2>1. CASE UNCHANGED results
    BY <2>1
  <2>2. CASE \E r : results' = Append(results, r) /\ Len(results) < InputLength
    BY <2>2, ParamsAssumption DEF TableInv, TypeOK, ParamsAssumption
  <2>3. ASSUME NEW a \in VirtualAddresses, run_paging_simulation(a)
        PROVE  \/ UNCHANGED results
               \/ \E r : results' = Append(results, r) /\ Len(results) < InputLength
    BY <2>3
       DEF run_paging_simulation, access_unused, access_valid, page_in, Evict,
           fault_with_free_frame, fault_with_victim, fault_with_wild_victim,
           fault_with_wild_pointer
  <2> QED BY <2>1, <2>2, <2>3 DEF Next, print_paging_results, Terminated, vars
<1>3. Within' => InTime'
  BY ParamsAssumption DEF InTime, ParamsAssumption
<1>4. Within' /\ [InTime' => Replacement!Next]_(Replacement!vars)
        => [Replacement!Next]_(Replacement!vars)
  BY <1>3
<1> QED
  BY <1>1, <1>2, <1>4, TableInvariance, Refinement, PTL
     DEF Spec, ImplementsReplacement, Replacement!Spec
-----------------------------------------------------------------------------
(***************************************************************************)
(* The program faults exactly where the definition of its algorithm does.  *)
(* MovesMatchTable ties the table to the rounds that move a page back in   *)
(* the leaving order; a page of a full memory has exactly NumOfFrames - 1  *)
(* others behind which it can stand.                                       *)
(***************************************************************************)

(* The leaving times of the pages in memory are past and all different.    *)
LEMMA LeavingTimes ==
  ASSUME TableInv, InTime
  PROVE  /\ \A p \in Resident : LeavingTime(p) \in 1 .. Len(results)
         /\ \A p, q \in Resident : LeavingTime(p) = LeavingTime(q) => p = q
<1>1. ASSUME NEW p \in Resident PROVE LeavingTime(p) \in 1 .. Len(results)
  <2>1. PageTimesMatch(p) /\ Len(results) \in Nat /\ DOMAIN results = 1 .. Len(results)
    BY DEF TableInv, TypeOK, TimesMatchResults, Resident
  <2> QED BY <2>1 DEF PageTimesMatch, LeavingTime
<1> QED BY <1>1, Times DEF LeavingTime

(* The rounds after k that move a page back, and the pages they move.      *)
MovesAfter(k)      == { m \in k + 1 .. Len(results) : MovesBack(m) }
PagesMovedAfter(k) == { PageAt(m) : m \in MovesAfter(k) }

LEMMA MovesAfterFinite ==
  ASSUME results \in Seq(ResultSet), NEW k \in Nat
  PROVE  IsFiniteSet(MovesAfter(k)) /\ IsFiniteSet(PagesMovedAfter(k))
<1>1. k + 1 \in Int /\ Len(results) \in Int
  OBVIOUS
<1>2. IsFiniteSet(k + 1 .. Len(results))
  BY <1>1, FS_Interval
<1>3. IsFiniteSet(MovesAfter(k))
  BY <1>2, FS_Subset DEF MovesAfter
<1>4. [m \in MovesAfter(k) |-> PageAt(m)] \in Surjection(MovesAfter(k), PagesMovedAfter(k))
  BY DEF Surjection, PagesMovedAfter
<1> QED BY <1>3, <1>4, FS_Surjection

(* At most NumOfFrames pages are in memory.                                *)
LEMMA ResidentBound ==
  ASSUME TableInv, InTime
  PROVE  /\ IsFiniteSet(Resident) /\ Cardinality(Resident) \in Nat
         /\ Cardinality(Resident) <= NumOfFrames
<1>1. Cardinality(taken) <= NumOfFrames
  BY FramesCardinality, FS_Subset DEF TableInv, TypeOK
<1> QED BY <1>1, ResidentCardinality, FS_CardinalityType

(* While a page is in memory, only pages that are there as well have moved *)
(* behind it, under FIFO each of them once: less than NumOfFrames.         *)
LEMMA FewMovesAfter ==
  ASSUME TableInv, MovesMatchTable, InTime, NEW p \in Resident
  PROVE  /\ Cardinality(PagesMovedAfter(LeavingTime(p))) < NumOfFrames
         /\ ReplacementAlgorithm = "FIFO" =>
              Cardinality(MovesAfter(LeavingTime(p))) < NumOfFrames
<1>i. PICK i : i = LeavingTime(p)
  OBVIOUS
<1> DEFINE others == Resident \ {p}
<1>1. /\ results \in Seq(ResultSet) /\ DOMAIN results = 1 .. Len(results)
      /\ Len(results) \in Nat /\ i \in 1 .. Len(results)
  BY <1>i, LeavingTimes DEF TableInv, TypeOK
<1>2. ASSUME NEW m \in MovesAfter(i)
      PROVE  /\ PageAt(m) \in others
             /\ ReplacementAlgorithm = "FIFO" => m = LeavingTime(PageAt(m))
  <2>1. MovesBack(m) /\ m \in DOMAIN results /\ i < m
    BY <1>1, <1>2 DEF MovesAfter
  <2>2. StaysFor(m)
    BY <1>1, <1>i, <2>1 DEF MovesMatchTable, LeftBefore
  <2>3. PageAt(m) # p
    BY <1>1, <1>i, <2>1 DEF MovesMatchTable, LastMove
  <2> QED BY <2>2, <2>3 DEF StaysFor
<1>3. /\ IsFiniteSet(others) /\ Cardinality(others) < NumOfFrames
      /\ Cardinality(others) \in Nat /\ NumOfFrames \in Nat
  <2>1. IsFiniteSet(others) /\ Cardinality(others) = Cardinality(Resident) - 1
    BY ResidentBound, FS_RemoveElement
  <2> QED BY <2>1, ResidentBound, FS_CardinalityType, ParamsAssumption
          DEF ParamsAssumption
<1>4. PagesMovedAfter(i) \subseteq others
  BY <1>2 DEF PagesMovedAfter
<1>5. Cardinality(PagesMovedAfter(i)) < NumOfFrames
  <2>1. /\ Cardinality(PagesMovedAfter(i)) <= Cardinality(others)
        /\ IsFiniteSet(PagesMovedAfter(i))
    BY <1>3, <1>4, FS_Subset
  <2> QED BY <1>3, <2>1, FS_CardinalityType
<1>6. ASSUME ReplacementAlgorithm = "FIFO"
      PROVE  Cardinality(MovesAfter(i)) < NumOfFrames
  <2> DEFINE page == [m \in MovesAfter(i) |-> PageAt(m)]
  <2>1. page \in [MovesAfter(i) -> others]
    BY <1>2
  <2>2. \A m, n \in MovesAfter(i) : page[m] = page[n] => m = n
    BY <1>2, <1>6
  <2>3. page \in Injection(MovesAfter(i), others)
    <3> HIDE DEF page, others
    <3> QED BY <2>1, <2>2 DEF Injection, IsInjective
  <2>4. /\ Cardinality(MovesAfter(i)) <= Cardinality(others)
        /\ IsFiniteSet(MovesAfter(i))
    <3> HIDE DEF page, others
    <3> QED BY <1>3, <2>3, FS_Injection
  <2> QED BY <1>3, <2>4, FS_CardinalityType
<1> QED BY <1>5, <1>6, <1>i

(* Once a page is gone, a full memory has moved behind its last move.      *)
LEMMA ManyMovesAfter ==
  ASSUME TableInv, MovesMatchTable, InTime, NEW i \in DOMAIN results,
         MovesBack(i), PageAt(i) \notin Resident
  PROVE  /\ ~ (Cardinality(PagesMovedAfter(i)) < NumOfFrames)
         /\ ~ (Cardinality(MovesAfter(i)) < NumOfFrames)
<1>1. /\ results \in Seq(ResultSet) /\ DOMAIN results = 1 .. Len(results)
      /\ Len(results) \in Nat /\ i \in Nat
  BY DEF TableInv, TypeOK
<1>2. LeftBefore(i)
  BY DEF MovesMatchTable, StaysFor
<1>3. Cardinality(Resident) = NumOfFrames /\ IsFiniteSet(Resident)
  <2>1. taken = Frames
    BY <1>2 DEF LeftBefore
  <2> QED BY <2>1, ResidentCardinality, FramesCardinality
<1>4. ASSUME NEW q \in Resident
      PROVE  LeavingTime(q) \in MovesAfter(i) /\ PageAt(LeavingTime(q)) = q
  <2>1. LastMove(q) /\ LeavingTime(q) \in 1 .. Len(results) /\ i < LeavingTime(q)
    BY <1>2, LeavingTimes DEF MovesMatchTable, LeftBefore
  <2> QED BY <1>1, <2>1 DEF LastMove, MovesAfter
<1>5. IsFiniteSet(MovesAfter(i)) /\ IsFiniteSet(PagesMovedAfter(i))
  BY <1>1, MovesAfterFinite
<1>6. Cardinality(Resident) <= Cardinality(PagesMovedAfter(i))
  <2>1. Resident \subseteq PagesMovedAfter(i)
    BY <1>4 DEF PagesMovedAfter
  <2> QED BY <1>5, <2>1, FS_Subset
<1>7. Cardinality(Resident) <= Cardinality(MovesAfter(i))
  <2> DEFINE time == [q \in Resident |-> LeavingTime(q)]
  <2>1. time \in [Resident -> MovesAfter(i)]
    BY <1>4
  <2>2. \A q, s \in Resident : time[q] = time[s] => q = s
    BY LeavingTimes
  <2>3. time \in Injection(Resident, MovesAfter(i))
    <3> HIDE DEF time
    <3> QED BY <2>1, <2>2 DEF Injection, IsInjective
  <2> HIDE DEF time
  <2> QED BY <1>5, <2>3, FS_Injection
<1> QED
  BY <1>3, <1>5, <1>6, <1>7, FS_CardinalityType, ParamsAssumption
     DEF ParamsAssumption

(* Before a round, the definition looks for a page exactly where the page  *)
(* table has it.                                                           *)
StillThereNow(p) ==
  \E i \in 1 .. Len(results) :
    /\ Mapped(i) /\ PageAt(i) = p
    /\ \/ /\ ReplacementAlgorithm = "FIFO" /\ Fault(i)
          /\ Cardinality(MovesAfter(i)) < NumOfFrames
       \/ /\ ReplacementAlgorithm = "LRU"
          /\ Cardinality(PagesMovedAfter(i)) < NumOfFrames

LEMMA ThereIfResident ==
  ASSUME TableInv, MovesMatchTable, InTime, NEW p \in Pages
  PROVE  StillThereNow(p) <=> valid[p]
<1>1. DOMAIN results = 1 .. Len(results)
  BY DEF TableInv, TypeOK
<1>2. ReplacementAlgorithm \in {"LRU", "FIFO"}
  BY ParamsAssumption DEF ParamsAssumption
<1>3. ASSUME valid[p] PROVE StillThereNow(p)
  <2>1. p \in Resident /\ LastMove(p)
    BY <1>3 DEF Resident, MovesMatchTable
  <2>2. LeavingTime(p) \in 1 .. Len(results)
    BY <2>1, LeavingTimes
  <2>3. /\ Cardinality(PagesMovedAfter(LeavingTime(p))) < NumOfFrames
        /\ ReplacementAlgorithm = "FIFO" =>
             Cardinality(MovesAfter(LeavingTime(p))) < NumOfFrames
    BY <2>1, FewMovesAfter
  <2> QED BY <1>2, <2>1, <2>2, <2>3 DEF StillThereNow, LastMove, MovesBack
<1>4. ASSUME ~ valid[p] PROVE ~ StillThereNow(p)
  <2>1. SUFFICES ASSUME NEW i \in 1 .. Len(results), Mapped(i), PageAt(i) = p,
                        ReplacementAlgorithm = "FIFO" => Fault(i)
                 PROVE  /\ ~ (Cardinality(PagesMovedAfter(i)) < NumOfFrames)
                        /\ ~ (Cardinality(MovesAfter(i)) < NumOfFrames)
    BY DEF StillThereNow
  <2>2. MovesBack(i) /\ PageAt(i) \notin Resident
    BY <1>2, <1>4, <2>1 DEF MovesBack, Resident
  <2> QED BY <1>1, <2>2, ManyMovesAfter
<1> QED BY <1>3, <1>4

(* A round changes nothing of what the earlier results say ...             *)
LEMMA EarlierRounds ==
  ASSUME results \in Seq(ResultSet), NEW r \in ResultSet,
         results' = Append(results, r), NEW i \in 1 .. Len(results)
  PROVE  /\ Mapped(i)' <=> Mapped(i)
         /\ Fault(i)' <=> Fault(i)
         /\ MovesBack(i)' <=> MovesBack(i)
         /\ PageAt(i)' = PageAt(i)
BY AppendKeeps DEF Mapped, Fault, PageAt, MovesBack

(* ... not even where the definition has the page of an earlier round ...  *)
LEMMA EarlierStillThere ==
  ASSUME results \in Seq(ResultSet), NEW r \in ResultSet,
         results' = Append(results, r), NEW j \in 1 .. Len(results)
  PROVE  StillThere(j)' <=> StillThere(j)
<1>1. Len(results) \in Nat
  OBVIOUS
<1>2. ASSUME NEW k \in 1 .. j
      PROVE  /\ Mapped(k)' <=> Mapped(k)
             /\ Fault(k)' <=> Fault(k)
             /\ PageAt(k)' = PageAt(k)
  <2>1. k \in 1 .. Len(results)
    BY <1>1
  <2> QED BY <2>1, EarlierRounds
<1>3. ASSUME NEW i \in 1 .. j - 1
      PROVE  /\ { k \in i + 1 .. j - 1 : Fault(k)' } = { k \in i + 1 .. j - 1 : Fault(k) }
             /\ { PageAt(k)' : k \in { l \in i + 1 .. j - 1 : Mapped(l)' } }
                  = { PageAt(k) : k \in { l \in i + 1 .. j - 1 : Mapped(l) } }
  <2>1. \A k \in i + 1 .. j - 1 : k \in 1 .. j
    BY <1>1
  <2> QED BY <1>2, <2>1
<1>4. /\ j \in 1 .. j /\ \A i \in 1 .. j - 1 : i \in 1 .. j
  BY <1>1
<1>5. StillThere(j)' <=>
        \E i \in 1 .. j - 1 :
          /\ Mapped(i)' /\ PageAt(i)' = PageAt(j)'
          /\ \/ /\ ReplacementAlgorithm = "FIFO" /\ Fault(i)'
                /\ Cardinality({ k \in i + 1 .. j - 1 : Fault(k)' }) < NumOfFrames
             \/ /\ ReplacementAlgorithm = "LRU"
                /\ Cardinality({ PageAt(k)' : k \in { l \in i + 1 .. j - 1 : Mapped(l)' } })
                     < NumOfFrames
  BY DEF StillThere
<1> QED BY <1>2, <1>3, <1>4, <1>5 DEF StillThere

(* ... and the definition has the page of the new one where it had it      *)
(* before.                                                                 *)
LEMMA NewStillThere ==
  ASSUME results \in Seq(ResultSet), NEW r \in ResultSet,
         results' = Append(results, r), NEW j, j = Len(results) + 1
  PROVE  StillThere(j)' <=> StillThereNow(PageOf(r.virtual_address))
<1>n. PICK n : n = Len(results)
  OBVIOUS
<1>1. n \in Nat /\ Len(results') = n + 1 /\ results'[n + 1] = r
  BY <1>n, AppendKeeps
<1>2. \A k \in 1 .. n : /\ Mapped(k)' <=> Mapped(k)
                        /\ Fault(k)' <=> Fault(k)
                        /\ PageAt(k)' = PageAt(k)
  BY <1>n, EarlierRounds
<1>3. PageAt(n + 1)' = PageOf(r.virtual_address)
  BY <1>1 DEF PageAt
<1>4. ASSUME NEW i \in 1 .. n
      PROVE  /\ { k \in i + 1 .. n : Fault(k)' } = { k \in i + 1 .. n : Fault(k) }
             /\ { PageAt(k)' : k \in { l \in i + 1 .. n : Mapped(l)' } }
                  = { PageAt(k) : k \in { l \in i + 1 .. n : Mapped(l) } }
  <2>1. \A k \in i + 1 .. n : k \in 1 .. n
    BY <1>1
  <2> QED BY <1>2, <2>1
<1>5. j = n + 1
  BY <1>n
<1>6. StillThere(j)' <=>
        \E i \in 1 .. n :
          /\ Mapped(i)' /\ PageAt(i)' = PageOf(r.virtual_address)
          /\ \/ /\ ReplacementAlgorithm = "FIFO" /\ Fault(i)'
                /\ Cardinality({ k \in i + 1 .. n : Fault(k)' }) < NumOfFrames
             \/ /\ ReplacementAlgorithm = "LRU"
                /\ Cardinality({ PageAt(k)' : k \in { l \in i + 1 .. n : Mapped(l)' } })
                     < NumOfFrames
  <2>1. StillThere(j)' <=>
        \E i \in 1 .. j - 1 :
          /\ Mapped(i)' /\ PageAt(i)' = PageAt(j)'
          /\ \/ /\ ReplacementAlgorithm = "FIFO" /\ Fault(i)'
                /\ Cardinality({ k \in i + 1 .. j - 1 : Fault(k)' }) < NumOfFrames
             \/ /\ ReplacementAlgorithm = "LRU"
                /\ Cardinality({ PageAt(k)' : k \in { l \in i + 1 .. j - 1 : Mapped(l)' } })
                     < NumOfFrames
    BY DEF StillThere
  <2>2. j - 1 = n
    BY <1>1, <1>5
  <2> QED BY <1>3, <1>5, <2>1, <2>2
<1>7. \A i \in 1 .. n :
        /\ ReplacementAlgorithm = "FIFO" =>
             MovesAfter(i) = { k \in i + 1 .. n : Fault(k) }
        /\ ReplacementAlgorithm = "LRU" =>
             PagesMovedAfter(i) = { PageAt(k) : k \in { l \in i + 1 .. n : Mapped(l) } }
  BY <1>n DEF MovesAfter, PagesMovedAfter, MovesBack
<1>8. StillThereNow(PageOf(r.virtual_address)) <=>
        \E i \in 1 .. n :
          /\ Mapped(i) /\ PageAt(i) = PageOf(r.virtual_address)
          /\ \/ /\ ReplacementAlgorithm = "FIFO" /\ Fault(i)
                /\ Cardinality({ k \in i + 1 .. n : Fault(k) }) < NumOfFrames
             \/ /\ ReplacementAlgorithm = "LRU"
                /\ Cardinality({ PageAt(k) : k \in { l \in i + 1 .. n : Mapped(l) } })
                     < NumOfFrames
  BY <1>7, <1>n DEF StillThereNow
<1> QED BY <1>2, <1>4, <1>5, <1>6, <1>8, <1>n

(* A round that faults exactly when its page is not valid faults as        *)
(* defined.                                                                *)
LEMMA FaultsStep ==
  ASSUME TableInv, MovesMatchTable, FaultsAsDefined, NEW r \in ResultSet,
         results' = Append(results, r), PageOf(r.virtual_address) \in Pages,
         ~ r.unused_memory_access_exception =>
           (r.caused_page_fault <=> ~ valid[PageOf(r.virtual_address)])
  PROVE  FaultsAsDefined'
<1>n. PICK n : n = Len(results)
  OBVIOUS
<1>1. /\ results \in Seq(ResultSet) /\ n \in Nat /\ Len(results') = n + 1
      /\ DOMAIN results = 1 .. n /\ DOMAIN results' = 1 .. n + 1
      /\ results'[n + 1] = r
  BY <1>n, AppendKeeps DEF TableInv, TypeOK
<1>2. SUFFICES ASSUME InTime', NEW j \in 1 .. n + 1, Mapped(j)'
               PROVE  Fault(j)' <=> ~ StillThere(j)'
  BY <1>1 DEF FaultsAsDefined
<1>3. InTime
  BY <1>1, <1>2, <1>n, ParamsAssumption DEF InTime, ParamsAssumption
<1>4. CASE j \in 1 .. n
  <2>1. Mapped(j) /\ (Fault(j)' <=> Fault(j)) /\ (StillThere(j)' <=> StillThere(j))
    BY <1>1, <1>2, <1>4, <1>n, EarlierRounds, EarlierStillThere
  <2>2. Fault(j) <=> ~ StillThere(j)
    BY <1>1, <1>3, <1>4, <2>1 DEF FaultsAsDefined
  <2> QED BY <2>1, <2>2
<1>5. CASE j = n + 1
  <2>1. ~ r.unused_memory_access_exception /\ (Fault(j)' <=> r.caused_page_fault)
    BY <1>1, <1>2, <1>5 DEF Mapped, Fault
  <2>2. StillThere(j)' <=> StillThereNow(PageOf(r.virtual_address))
    BY <1>1, <1>5, <1>n, NewStillThere
  <2>3. StillThereNow(PageOf(r.virtual_address)) <=> valid[PageOf(r.virtual_address)]
    BY <1>3, ThereIfResident
  <2> QED BY <2>1, <2>2, <2>3
<1> QED BY <1>1, <1>4, <1>5

(* The result of a round that moves its page back.                         *)
Moves(r) ==
  IF ReplacementAlgorithm = "LRU" THEN ~ r.unused_memory_access_exception
                                  ELSE r.caused_page_fault

(* What a state says of the moves, with the results taken apart.           *)
LEMMA MovesNext ==
  ASSUME NEW n \in Nat, DOMAIN results' = 1 .. n + 1,
         InTime' =>
           /\ \A q \in Resident' : LastMove(q)'
           /\ \A k \in 1 .. n + 1 : MovesBack(k)' => StaysFor(k)' \/ LeftBefore(k)'
  PROVE  MovesMatchTable'
BY DEF MovesMatchTable

(* The last move of a page stays its last until the page moves again.      *)
LEMMA LastMoveStays ==
  ASSUME TableInv, InTime, NEW q \in Resident, LastMove(q), NEW r \in ResultSet,
         results' = Append(results, r), LeavingTime(q)' = LeavingTime(q),
         Moves(r) => PageOf(r.virtual_address) # q
  PROVE  LastMove(q)'
<1>n. PICK n : n = Len(results)
  OBVIOUS
<1>t. PICK t : t = LeavingTime(q)
  OBVIOUS
<1>1. /\ results \in Seq(ResultSet) /\ n \in Nat
      /\ DOMAIN results = 1 .. n /\ DOMAIN results' = 1 .. n + 1
      /\ results'[n + 1] = r
  BY <1>n, AppendKeeps DEF TableInv, TypeOK
<1>2. \A k \in 1 .. n : /\ Mapped(k)' <=> Mapped(k)
                        /\ MovesBack(k)' <=> MovesBack(k)
                        /\ PageAt(k)' = PageAt(k)
  BY <1>1, <1>n, EarlierRounds
<1>3. /\ t \in 1 .. n /\ MovesBack(t) /\ Mapped(t) /\ PageAt(t) = q
      /\ \A k \in 1 .. n : MovesBack(k) /\ PageAt(k) = q => k <= t
  BY <1>1, <1>t DEF LastMove
<1>m. PICK m : m = n + 1
  OBVIOUS
<1>4. MovesBack(m)' => PageAt(m)' # q
  BY <1>1, <1>m DEF PageAt, MovesBack, Moves, Mapped, Fault
<1>5. ASSUME NEW k \in 1 .. m, MovesBack(k)', PageAt(k)' = q PROVE k <= t
  <2>1. k \in 1 .. n \/ k = m
    BY <1>1, <1>m
  <2> QED BY <1>2, <1>3, <1>4, <1>5, <2>1
<1>6. t \in 1 .. m /\ MovesBack(t)' /\ Mapped(t)' /\ PageAt(t)' = q
  BY <1>1, <1>2, <1>3, <1>m
<1>7. LeavingTime(q)' = t /\ DOMAIN results' = 1 .. m
  BY <1>1, <1>m, <1>t
<1>8. LastMove(q)' <=>
        /\ t \in 1 .. m /\ MovesBack(t)' /\ Mapped(t)' /\ PageAt(t)' = q
        /\ \A k \in 1 .. m : MovesBack(k)' /\ PageAt(k)' = q => k <= t
  BY <1>7 DEF LastMove, MovesBack, Mapped, PageAt, Fault
<1> QED BY <1>5, <1>6, <1>8

(* A round that leaves the table as it is and moves no page.               *)
LEMMA NoMoveStep ==
  ASSUME TableInv, MovesMatchTable, NEW r \in ResultSet,
         results' = Append(results, r), ~ Moves(r),
         UNCHANGED <<taken, valid>>,
         \A q \in Resident : LeavingTime(q)' = LeavingTime(q)
  PROVE  MovesMatchTable'
<1>n. PICK n : n = Len(results)
  OBVIOUS
<1>1. /\ results \in Seq(ResultSet) /\ n \in Nat /\ Len(results') = n + 1
      /\ DOMAIN results = 1 .. n /\ DOMAIN results' = 1 .. n + 1
      /\ results'[n + 1] = r
  BY <1>n, AppendKeeps DEF TableInv, TypeOK
<1>2. Resident' = Resident
  BY DEF Resident
<1>3. ASSUME InTime' PROVE InTime
  BY <1>1, <1>3, <1>n, ParamsAssumption DEF InTime, ParamsAssumption
<1>4. ASSUME InTime', NEW q \in Resident' PROVE LastMove(q)'
  BY <1>2, <1>3, <1>4, LastMoveStays DEF MovesMatchTable
<1>m. PICK m : m = n + 1
  OBVIOUS
<1>5. ASSUME InTime', NEW k \in 1 .. n + 1, MovesBack(k)'
      PROVE  StaysFor(k)' \/ LeftBefore(k)'
  <2>1. ~ MovesBack(m)'
    BY <1>1, <1>m DEF Moves, MovesBack, Mapped, Fault
  <2>2. k \in 1 .. n
    BY <1>1, <1>5, <1>m, <2>1
  <2>3. MovesBack(k) /\ PageAt(k)' = PageAt(k)
    BY <1>1, <1>5, <1>n, <2>2, EarlierRounds
  <2>4. StaysFor(k) \/ LeftBefore(k)
    BY <1>1, <1>3, <1>5, <2>2, <2>3 DEF MovesMatchTable
  <2>s. PICK s : s = PageAt(k)
    OBVIOUS
  <2>5. CASE StaysFor(k)
    <3>1. s \in Resident' /\ (ReplacementAlgorithm = "LRU" \/ k = LeavingTime(s)')
      BY <1>2, <2>5, <2>s DEF StaysFor
    <3>2. PageAt(k)' = s
      BY <2>3, <2>s
    <3> QED BY <3>1, <3>2 DEF StaysFor, LeavingTime
  <2>6. CASE LeftBefore(k)
    BY <1>2, <2>6 DEF LeftBefore
  <2> QED BY <2>4, <2>5, <2>6
<1> QED BY <1>1, <1>4, <1>5, MovesNext

(* A round that moves page p behind the others that stay, of which the one *)
(* that leaves, if any, is the first of a full memory.                     *)
LEMMA MoveStep ==
  ASSUME TableInv, MovesMatchTable, NEW r \in ResultSet, NEW p \in Pages,
         results' = Append(results, r), Moves(r),
         ~ r.unused_memory_access_exception, PageOf(r.virtual_address) = p,
         LeavingTime(p)' = Now,
         NEW others \in SUBSET Resident, p \notin others, Resident' = others \cup {p},
         \A q \in others : LeavingTime(q)' = LeavingTime(q),
         taken = Frames => taken' = Frames,
         p \in Resident => ReplacementAlgorithm = "LRU",
         \A first \in Resident \ others : first = p \/
            /\ taken = Frames
            /\ \A q \in others : LeavesBefore(first, q)
  PROVE  MovesMatchTable'
<1>m. PICK m : m = Now
  OBVIOUS
<1>n. PICK n : n = Len(results)
  OBVIOUS
<1>1. /\ results \in Seq(ResultSet) /\ n \in Nat /\ Len(results') = n + 1 /\ m = n + 1
      /\ DOMAIN results = 1 .. n /\ DOMAIN results' = 1 .. n + 1
      /\ results'[m] = r /\ LeavingTime(p)' = m
  BY <1>m, <1>n, AppendKeeps DEF TableInv, TypeOK, Now
<1>3. ASSUME InTime' PROVE InTime
  BY <1>1, <1>3, <1>n, ParamsAssumption DEF InTime, ParamsAssumption
<1>4. MovesBack(m)' /\ Mapped(m)' /\ PageAt(m)' = p
  BY <1>1 DEF Moves, MovesBack, Mapped, Fault, PageAt
<1>5. LastMove(p)'
  <2>1. LastMove(p)' <=>
          /\ m \in 1 .. m /\ MovesBack(m)' /\ Mapped(m)' /\ PageAt(m)' = p
          /\ \A k \in 1 .. m : MovesBack(k)' /\ PageAt(k)' = p => k <= m
    BY <1>1 DEF LastMove, MovesBack, Mapped, PageAt, Fault
  <2> QED BY <1>1, <1>4, <2>1
<1>6. ASSUME InTime', NEW q \in Resident' PROVE LastMove(q)'
  BY <1>3, <1>5, <1>6, LastMoveStays DEF MovesMatchTable
<1>7. ASSUME InTime', NEW k \in 1 .. n, MovesBack(k)'
      PROVE  StaysFor(k)' \/ LeftBefore(k)'
  <2>1. MovesBack(k) /\ PageAt(k)' = PageAt(k)
    BY <1>1, <1>7, <1>n, EarlierRounds
  <2>s. PICK s : s = PageAt(k)
    OBVIOUS
  <2>2. PageAt(k)' = s
    BY <2>1, <2>s
  <2>3. ASSUME taken = Frames, \A q \in others : k < LeavingTime(q)
        PROVE  LeftBefore(k)'
    <3>1. ASSUME NEW q \in Resident' PROVE k < LeavingTime(q)'
      BY <1>1, <2>3
    <3>2. taken' = Frames
      BY <2>3
    <3> QED BY <3>1, <3>2 DEF LeftBefore, Frames
  <2>4. CASE LeftBefore(k)
    BY <2>3, <2>4 DEF LeftBefore
  <2>5. CASE StaysFor(k) /\ s \in Resident'
    <3>1. ReplacementAlgorithm = "LRU" \/ k = LeavingTime(s)'
      BY <2>5, <2>s DEF StaysFor
    <3> QED BY <2>2, <2>5, <3>1 DEF StaysFor, LeavingTime
  <2>6. CASE StaysFor(k) /\ s \notin Resident'
    <3>1. s \in Resident \ others /\ s # p
      BY <2>6, <2>s DEF StaysFor
    <3>2. k <= LeavingTime(s) /\ LeavingTime(s) \in 1 .. n
      BY <1>1, <1>3, <1>7, <1>n, <2>1, <2>s, <3>1, LeavingTimes
         DEF MovesMatchTable, LastMove
    <3>3. \A q \in others : LeavingTime(q) \in 1 .. n /\ LeavingTime(s) < LeavingTime(q)
      BY <1>3, <1>7, <1>n, <3>1, LeavingTimes DEF LeavesBefore
    <3>4. \A q \in others : k < LeavingTime(q)
      BY <1>1, <3>2, <3>3
    <3> QED BY <2>3, <3>1, <3>4
  <2> QED BY <1>1, <1>3, <1>7, <2>1, <2>4, <2>5, <2>6 DEF MovesMatchTable
<1>8. StaysFor(m)'
  <2>1. p \in Resident' /\ m = LeavingTime(p)' /\ PageAt(m)' = p
    BY <1>1, <1>4
  <2> QED BY <2>1 DEF StaysFor, LeavingTime
<1>9. ASSUME InTime', NEW k \in 1 .. n + 1, MovesBack(k)'
      PROVE  StaysFor(k)' \/ LeftBefore(k)'
  <2>1. k \in 1 .. n \/ k = m
    BY <1>1
  <2> QED BY <1>7, <1>8, <1>9, <2>1
<1> QED BY <1>1, <1>6, <1>9, MovesNext

LEMMA UnchangedFaults ==
  ASSUME IInv, UNCHANGED <<tableVars, results>>
  PROVE  MovesMatchTable' /\ FaultsAsDefined'
<1>1. MovesMatchTable'
  BY DEF IInv, MovesMatchTable, InTime, Resident, LastMove, StaysFor, LeftBefore,
         LeavingTime, MovesBack, Mapped, Fault, PageAt, tableVars
<1>2. \A j : StillThere(j)' <=> StillThere(j)
  BY DEF StillThere, Mapped, Fault, PageAt
<1>3. FaultsAsDefined'
  BY <1>2 DEF IInv, FaultsAsDefined, InTime, Mapped, Fault
<1> QED BY <1>1, <1>3

LEMMA UnusedFaults ==
  ASSUME IInv, NEW a \in VirtualAddresses, access_unused(a)
  PROVE  MovesMatchTable' /\ FaultsAsDefined'
<1>r. PICK r : r = [ virtual_address |-> a, physical_address |-> -1,
                     caused_page_fault |-> FALSE,
                     unused_memory_access_exception |-> TRUE ]
  OBVIOUS
<1>1. /\ r \in ResultSet /\ results' = Append(results, r)
      /\ r.virtual_address = a
      /\ r.unused_memory_access_exception /\ ~ r.caused_page_fault
  <2>1. -1 \in -1 .. NumOfFrames * PAGE_SIZE - 1
    BY ParamsAssumption, SMT DEF ParamsAssumption, PAGE_SIZE
  <2> QED BY <1>r, <2>1 DEF access_unused, ResultSet
<1>2. UNCHANGED tableVars /\ ~ Moves(r)
  BY <1>1 DEF access_unused, Moves
<1>3. MovesMatchTable'
  BY <1>1, <1>2, NoMoveStep DEF IInv, tableVars, LeavingTime
<1>4. FaultsAsDefined'
  BY <1>1, FaultsStep DEF IInv, Pages
<1> QED BY <1>3, <1>4

LEMMA HitFaults ==
  ASSUME IInv, NEW a \in VirtualAddresses, access_valid(a)
  PROVE  MovesMatchTable' /\ FaultsAsDefined'
<1>p. PICK p \in Pages : p = PageOf(a)
  BY DEF Pages
<1>r. PICK r : r = Result(a, frame[p], FALSE)
  OBVIOUS
<1>1. /\ valid[p] /\ results' = Append(results, r)
      /\ last_used_time' = [last_used_time EXCEPT ![p] = Now]
      /\ UNCHANGED <<taken, frame, valid, page_in_time>>
  BY <1>p, <1>r DEF access_valid
<1>2. last_used_time \in [Pages -> Int] /\ frame[p] \in Frames
  BY <1>1 DEF IInv, TableInv, TypeOK, ValidHasFrame
<1>3. /\ r \in ResultSet /\ PageOf(r.virtual_address) = p
      /\ ~ r.unused_memory_access_exception /\ ~ r.caused_page_fault
  BY <1>2, <1>p, <1>r, ResultOfFrame
<1>4. p \in Resident /\ Resident' = Resident
  BY <1>1 DEF Resident
<1>5. ASSUME ReplacementAlgorithm = "LRU" PROVE MovesMatchTable'
  <2> DEFINE others == Resident \ {p}
  <2>1. /\ LeavingTime(p)' = Now
        /\ \A q \in others : LeavingTime(q)' = LeavingTime(q)
    BY <1>1, <1>2, <1>5 DEF LeavingTime, Resident
  <2>2. /\ others \in SUBSET Resident /\ p \notin others
        /\ Resident' = others \cup {p} /\ Moves(r)
        /\ \A first \in Resident \ others : first = p
    BY <1>3, <1>4, <1>5 DEF Moves
  <2> HIDE DEF others
  <2> QED BY <1>1, <1>3, <1>5, <2>1, <2>2, MoveStep DEF IInv, Frames
<1>6. ASSUME ReplacementAlgorithm # "LRU" PROVE MovesMatchTable'
  <2>1. ~ Moves(r) /\ \A q \in Resident : LeavingTime(q)' = LeavingTime(q)
    BY <1>1, <1>3, <1>6 DEF Moves, LeavingTime
  <2> QED BY <1>1, <1>3, <2>1, NoMoveStep DEF IInv
<1>7. FaultsAsDefined'
  BY <1>1, <1>3, FaultsStep DEF IInv
<1> QED BY <1>5, <1>6, <1>7

(* A load that keeps the pages others in memory.                           *)
LEMMA LoadFaults ==
  ASSUME IInv, NEW a \in VirtualAddresses, NEW f \in Frames,
         ~ valid[PageOf(a)], page_in(a, f), taken = Frames => taken' = Frames,
         NEW others \in SUBSET Resident, Resident' = others \cup {PageOf(a)},
         \A first \in Resident \ others :
            /\ taken = Frames
            /\ \A q \in others : LeavesBefore(first, q)
  PROVE  MovesMatchTable' /\ FaultsAsDefined'
<1>p. PICK p \in Pages : p = PageOf(a)
  BY DEF Pages
<1>r. PICK r : r = Result(a, f, TRUE)
  OBVIOUS
<1>1. /\ results' = Append(results, r)
      /\ last_used_time' = [last_used_time EXCEPT ![p] = Now]
      /\ page_in_time' = [page_in_time EXCEPT ![p] = Now]
  BY <1>p, <1>r DEF page_in
<1>2. last_used_time \in [Pages -> Int] /\ page_in_time \in [Pages -> Int]
  BY DEF IInv, TableInv, TypeOK
<1>3. /\ r \in ResultSet /\ PageOf(r.virtual_address) = p
      /\ ~ r.unused_memory_access_exception /\ r.caused_page_fault
      /\ Moves(r)
  BY <1>p, <1>r, ResultOfFrame DEF Moves
<1>4. p \notin Resident /\ p \notin others
  BY <1>p DEF Resident
<1>5. /\ LeavingTime(p)' = Now
      /\ \A q \in others : LeavingTime(q)' = LeavingTime(q)
  BY <1>1, <1>2, <1>4 DEF LeavingTime, Resident
<1>6. MovesMatchTable'
  BY <1>1, <1>3, <1>4, <1>5, <1>p, MoveStep DEF IInv
<1>7. FaultsAsDefined'
  BY <1>1, <1>3, <1>p, FaultsStep DEF IInv
<1> QED BY <1>6, <1>7

LEMMA FreeFrameFaults ==
  ASSUME IInv, NEW a \in VirtualAddresses, fault_with_free_frame(a)
  PROVE  MovesMatchTable' /\ FaultsAsDefined'
<1>1. PICK f \in Frames : find_first_free_frame(f) /\ page_in(a, f)
  BY DEF fault_with_free_frame
<1>2. /\ ~ valid[PageOf(a)] /\ taken # Frames
      /\ Resident' = Resident \cup {PageOf(a)}
  BY <1>1 DEF fault_with_free_frame, Faults, find_first_free_frame, Resident,
              Pages, IInv, TableInv, TypeOK
<1> QED BY <1>1, <1>2, LoadFaults

LEMMA VictimFaults ==
  ASSUME IInv, InTime, NEW a \in VirtualAddresses, fault_with_victim(a)
  PROVE  MovesMatchTable' /\ FaultsAsDefined'
<1>1. PICK first \in Pages : get_victim_page(first) /\ Evict(first, a)
  BY DEF fault_with_victim
<1>2. valid[first] /\ first \in Resident /\ TableInv
  BY <1>1, VictimIsValid DEF Resident, IInv
<1>f. PICK f \in Frames : f = frame[first]
  BY <1>2 DEF TableInv, ValidHasFrame
<1>3. /\ ~ valid[PageOf(a)] /\ page_in(a, f)
      /\ taken = Frames /\ taken' = Frames
  BY <1>1, <1>2, <1>f, AllTaken
     DEF fault_with_victim, Faults, Evict, page_in, TableInv
<1> DEFINE others == Resident \ {first}
<1>4. Resident' = others \cup {PageOf(a)}
  BY <1>1, <1>2, <1>3 DEF Evict, Resident, Pages, TableInv, TypeOK
<1>5. ASSUME NEW q \in others PROVE LeavesBefore(first, q)
  <2>1. ReplacementAlgorithm \in {"LRU", "FIFO"} /\ q \in Pages /\ valid[q]
    BY ParamsAssumption DEF ParamsAssumption, Resident
  <2> QED
    BY <1>1, <1>2, <2>1, Times
       DEF get_victim_page, get_fifo_page, get_lru_page, IsEarliest, LeavesBefore,
           LeavingTime
<1> QED BY <1>3, <1>4, <1>5, LoadFaults

LEMMA RoundFaults ==
  ASSUME IInv, NEW a \in VirtualAddresses, run_paging_simulation(a)
  PROVE  MovesMatchTable' /\ FaultsAsDefined'
<1>1. SUFFICES ASSUME InTime' PROVE MovesMatchTable' /\ FaultsAsDefined'
  BY DEF MovesMatchTable, FaultsAsDefined
<1>2. TableInv /\ TypeOK /\ ValidHasFrame
  BY DEF IInv, TableInv
<1>3. CASE access_unused(a)
  BY <1>3, UnusedFaults
<1>4. CASE access_valid(a)
  BY <1>4, HitFaults
<1>5. CASE fault_with_free_frame(a)
  BY <1>5, FreeFrameFaults
<1>6. CASE fault_with_victim(a)
  <2>1. PICK victim \in Pages : get_victim_page(victim) /\ Evict(victim, a)
    BY <1>6 DEF fault_with_victim
  <2>2. frame[victim] \in Frames
    BY <1>2, <2>1, VictimIsValid DEF ValidHasFrame
  <2>3. InTime
    BY <1>1, <1>2, <2>1, <2>2, AppendRound DEF Evict
  <2> QED BY <1>6, <2>3, VictimFaults
<1>7. CASE fault_with_wild_victim(a)
  <2>1. PICK victim \in Pages : frame[victim] # -1 /\ Evict(victim, a)
    BY <1>7 DEF fault_with_wild_victim
  <2>2. frame[victim] \in Frames
    BY <1>2, <2>1 DEF TypeOK
  <2>3. Len(results) < FarFuture
    BY <1>1, <1>2, <2>1, <2>2, AppendRound DEF Evict
  <2> QED BY <1>2, <1>7, <2>2, <2>3, VictimFound DEF fault_with_wild_victim
<1>8. CASE fault_with_wild_pointer(a)
  BY <1>8, UnchangedFaults DEF fault_with_wild_pointer
<1> QED
  BY <1>3, <1>4, <1>5, <1>6, <1>7, <1>8 DEF run_paging_simulation

(* The inductive invariant holds in every reachable state.                 *)
THEOREM Invariance == Spec => []IInv
<1>1. Init => MovesMatchTable /\ FaultsAsDefined
  BY DEF Init, MovesMatchTable, FaultsAsDefined, Resident
<1>2. IInv /\ [Next]_vars => MovesMatchTable' /\ FaultsAsDefined'
  <2> SUFFICES ASSUME IInv, [Next]_vars PROVE MovesMatchTable' /\ FaultsAsDefined'
    OBVIOUS
  <2>1. ASSUME NEW a \in VirtualAddresses, run_paging_simulation(a)
        PROVE  MovesMatchTable' /\ FaultsAsDefined'
    BY <2>1, RoundFaults
  <2>2. CASE UNCHANGED <<tableVars, results>>
    BY <2>2, UnchangedFaults
  <2> QED BY <2>1, <2>2 DEF Next, print_paging_results, Terminated, vars
<1>3. IInv <=> TableInv /\ MovesMatchTable /\ FaultsAsDefined
  BY DEF IInv
<1> QED BY <1>1, <1>2, <1>3, TableInvariance, PTL DEF Spec

(* On any input, FIFO and LRU fault exactly where their definitions do,    *)
(* until round FarFuture.                                                  *)
THEOREM FaultsAreDefined == Spec => []FaultsAsDefined
<1>1. IInv => FaultsAsDefined
  BY DEF IInv
<1> QED BY <1>1, Invariance, PTL
=============================================================================
