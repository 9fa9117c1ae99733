-------------------------- MODULE WordCountsProofs --------------------------
(***************************************************************************)
(* Theorems about the word counts of proj01/src/common.c: what they add up *)
(* to, for texts and arrays of any length.  The loops over an array are    *)
(* folds; a set of naturals that holds 0 and every successor stands in for *)
(* the induction over their length.                                        *)
(***************************************************************************)
EXTENDS WordCounts, FiniteSetTheorems, SequenceTheorems, WellFoundedInduction, TLAPS

(* A set with 0 and the successor of every natural in it holds them all.   *)
LEMMA SetInduction ==
  ASSUME NEW S, 0 \in S, \A n \in Nat : n \in S => n + 1 \in S
  PROVE  Nat \subseteq S
<1> DEFINE Missing == Nat \ S
           Before == { pair \in Nat \X Nat : pair[1] < pair[2] }
<1>1. IsWellFoundedOn(Before, Nat)
  BY NatLessThanWellFounded DEF OpToRel
<1>2. SUFFICES ASSUME Missing # {} PROVE FALSE
  OBVIOUS
<1>3. PICK m \in Missing : \A n \in Missing : <<n, m>> \notin Before
  <2>1. Missing \subseteq Nat
    OBVIOUS
  <2> HIDE DEF Missing, Before
  <2> QED BY <1>1, <1>2, <2>1, WFMin
<1>4. m # 0 /\ m - 1 \in Nat /\ <<m - 1, m>> \in Before
  BY <1>3
<1>5. m - 1 \in S
  BY <1>3, <1>4
<1> QED BY <1>3, <1>4, <1>5

-----------------------------------------------------------------------------
(* Folds over a sequence.                                                  *)

(* g takes every set of positions to the fold of Step over them in order.  *)
FoldOf(g, Step, base, seq, Positions) ==
  \A s \in SUBSET Positions :
    g[s] = IF s = {} THEN base ELSE Step[<<g[s \ {Max(s)}], seq[Max(s)]>>]

(* A fold exists for every sequence.                                       *)
LEMMA FoldExists ==
  ASSUME NEW V, NEW base \in V, NEW E, NEW seq \in Seq(E), NEW Step \in [V \X E -> V]
  PROVE  \E g \in [SUBSET DOMAIN seq -> V] : FoldOf(g, Step, base, seq, DOMAIN seq)
<1> DEFINE Has(n) == \E g \in [SUBSET (1 .. n) -> V] : FoldOf(g, Step, base, seq, 1 .. n)
           Good   == { n \in Nat : n <= Len(seq) => Has(n) }
<1>1. Has(0)
  <2> DEFINE g == [s \in SUBSET (1 .. 0) |-> base]
  <2>1. 1 .. 0 = {}
    OBVIOUS
  <2>2. g \in [SUBSET (1 .. 0) -> V] /\ FoldOf(g, Step, base, seq, 1 .. 0)
    BY <2>1 DEF FoldOf
  <2> QED BY <2>2
<1>2. ASSUME NEW n \in Nat, Has(n), n + 1 <= Len(seq) PROVE Has(n + 1)
  <2>1. PICK g \in [SUBSET (1 .. n) -> V] : FoldOf(g, Step, base, seq, 1 .. n)
    BY <1>2
  <2>2. PICK last \in Nat : last = n + 1
    OBVIOUS
  <2> DEFINE longer == [s \in SUBSET (1 .. last) |->
                          IF last \in s THEN Step[<<g[s \ {last}], seq[last]>>] ELSE g[s]]
  <2>3. /\ seq[last] \in E
        /\ \A s \in SUBSET (1 .. last) : s \ {last} \in SUBSET (1 .. n)
        /\ \A s \in SUBSET (1 .. last) : last \notin s => s \in SUBSET (1 .. n)
    BY <1>2, <2>2
  <2>4. longer \in [SUBSET (1 .. last) -> V]
    BY <2>1, <2>3
  <2>5. ASSUME NEW s \in SUBSET (1 .. last), last \in s
        PROVE  Max(s) = last
    <3>1. \A y \in s : last >= y
      BY <2>2
    <3>2. Max(s) \in s /\ \A y \in s : Max(s) >= y
      BY <2>5, <3>1, Zenon DEF Max
    <3>3. PICK m : m = Max(s)
      OBVIOUS
    <3>4. m \in 1 .. last /\ last >= m /\ m >= last
      BY <2>5, <3>1, <3>2, <3>3
    <3> QED BY <2>2, <3>3, <3>4
  <2>6. ASSUME NEW s \in SUBSET (1 .. last)
        PROVE  longer[s] = IF s = {} THEN base
                           ELSE Step[<<longer[s \ {Max(s)}], seq[Max(s)]>>]
    <3>1. CASE last \in s
      <4>1. s \ {last} \in SUBSET (1 .. last) /\ longer[s \ {last}] = g[s \ {last}]
        BY <2>3
      <4> QED BY <2>5, <3>1, <4>1
    <3>2. CASE last \notin s
      <4>1. /\ s \in SUBSET (1 .. n) /\ s \ {Max(s)} \in SUBSET (1 .. n)
            /\ s \ {Max(s)} \in SUBSET (1 .. last)
        BY <2>3, <3>2
      <4>2. longer[s] = g[s] /\ longer[s \ {Max(s)}] = g[s \ {Max(s)}]
        BY <3>2, <4>1
      <4> QED BY <2>1, <4>1, <4>2 DEF FoldOf
    <3> QED BY <3>1, <3>2
  <2> HIDE DEF longer
  <2> QED BY <2>2, <2>4, <2>6 DEF FoldOf
<1> HIDE DEF Has
<1>3. 0 \in Good /\ \A n \in Nat : n \in Good => n + 1 \in Good
  BY <1>1, <1>2
<1>4. Nat \subseteq Good
  <2> HIDE DEF Good
  <2> QED BY <1>3, SetInduction
<1>5. Has(Len(seq)) /\ DOMAIN seq = 1 .. Len(seq)
  BY <1>4
<1> QED BY <1>5 DEF Has

(* The prefixes of a sequence are folded one after the other.              *)
LEMMA FoldPrefix ==
  ASSUME NEW n \in Nat
  PROVE  /\ 1 .. 0 = {}
         /\ \A k \in 1 .. n : /\ 1 .. k # {} /\ 1 .. k \in SUBSET (1 .. n)
                              /\ Max(1 .. k) = k /\ (1 .. k) \ {k} = 1 .. k - 1
<1>1. 1 .. 0 = {}
  OBVIOUS
<1>2. ASSUME NEW k \in 1 .. n
      PROVE  /\ 1 .. k # {} /\ 1 .. k \in SUBSET (1 .. n)
             /\ Max(1 .. k) = k /\ (1 .. k) \ {k} = 1 .. k - 1
  <2>1. k \in 1 .. k /\ \A y \in 1 .. k : k >= y
    OBVIOUS
  <2>2. Max(1 .. k) \in 1 .. k /\ \A y \in 1 .. k : Max(1 .. k) >= y
    BY <2>1 DEF Max
  <2>3. Max(1 .. k) = k
    BY <2>1, <2>2
  <2> QED BY <2>1, <2>3
<1> QED BY <1>1, <1>2

-----------------------------------------------------------------------------
(* Arrays with one pair for each word.                                     *)

Arrays(W) ==
  { a \in Seq([word : W, count : Nat \ {0}]) :
      \A i, j \in DOMAIN a : a[i].word = a[j].word => i = j }

(* The pairs of an array, and no word twice.                               *)
LEMMA PairsAreTyped ==
  ASSUME NEW W, NEW a \in Arrays(W)
  PROVE  /\ a \in Seq([word : W, count : Nat \ {0}]) /\ Len(a) \in Nat
         /\ DOMAIN a = 1 .. Len(a)
         /\ \A i \in DOMAIN a : /\ a[i] \in [word : W, count : Nat \ {0}]
                                /\ a[i].word \in W /\ a[i].count \in Nat \ {0}
         /\ \A i, j \in DOMAIN a : a[i].word = a[j].word => i = j
<1>1. /\ a \in Seq([word : W, count : Nat \ {0}])
      /\ \A i, j \in DOMAIN a : a[i].word = a[j].word => i = j
  BY DEF Arrays
<1>2. Len(a) \in Nat /\ DOMAIN a = 1 .. Len(a)
  BY <1>1
<1>3. \A i \in DOMAIN a : a[i] \in [word : W, count : Nat \ {0}]
  <2> DEFINE Pairs == [word : W, count : Nat \ {0}]
  <2>1. a \in Seq(Pairs)
    BY <1>1
  <2> HIDE DEF Pairs
  <2>2. \A i \in DOMAIN a : a[i] \in Pairs
    BY <2>1
  <2> QED BY <2>2 DEF Pairs
<1>4. \A i \in DOMAIN a : a[i].word \in W /\ a[i].count \in Nat \ {0}
  BY <1>3
<1> QED BY <1>1, <1>2, <1>3, <1>4

(* The count of a word is that of its only pair.                           *)
LEMMA CountAt ==
  ASSUME NEW W, NEW a \in Arrays(W), NEW i \in DOMAIN a
  PROVE  CountOf(a, a[i].word) = a[i].count
<1>1. a[i].word \in Words(a)
  BY DEF Words
<1> DEFINE chosen == CHOOSE k \in DOMAIN a : a[k].word = a[i].word
<1>2. chosen \in DOMAIN a /\ a[chosen].word = a[i].word
  OBVIOUS
<1>3. chosen = i
  BY <1>2 DEF Arrays
<1> QED BY <1>1, <1>3 DEF CountOf

LEMMA CountIsNatural ==
  ASSUME NEW W, NEW a \in Arrays(W), NEW w
  PROVE  CountOf(a, w) \in Nat /\ (CountOf(a, w) = 0 <=> w \notin Words(a))
<1>1. CASE w \in Words(a)
  <2>1. PICK i \in DOMAIN a : a[i].word = w
    BY <1>1 DEF Words
  <2>2. CountOf(a, w) = a[i].count
    BY <2>1, CountAt
  <2>3. a[i].count \in Nat \ {0}
    BY PairsAreTyped
  <2> QED BY <1>1, <2>2, <2>3
<1>2. CASE w \notin Words(a)
  BY <1>2 DEF CountOf
<1> QED BY <1>1, <1>2

LEMMA EmptyArray ==
  ASSUME NEW W
  PROVE  <<>> \in Arrays(W) /\ \A w : CountOf(<<>>, w) = 0
BY DEF Arrays, CountOf, Words

(* What increment_word adds to an array: count to word, nothing else, and  *)
(* no second pair for a word.                                              *)
LEMMA IncrementWord ==
  ASSUME NEW W, NEW a \in Arrays(W), NEW word \in W, NEW count \in Nat \ {0}
  PROVE  /\ increment_word(a, word, count) \in Arrays(W)
         /\ \A w : CountOf(increment_word(a, word, count), w)
                     = IF w = word THEN CountOf(a, w) + count ELSE CountOf(a, w)
<1> DEFINE b == increment_word(a, word, count)
<1>0. /\ a \in Seq([word : W, count : Nat \ {0}]) /\ Len(a) \in Nat
      /\ DOMAIN a = 1 .. Len(a)
      /\ \A i \in DOMAIN a : /\ a[i] \in [word : W, count : Nat \ {0}]
                             /\ a[i].word \in W /\ a[i].count \in Nat \ {0}
      /\ \A i, j \in DOMAIN a : a[i].word = a[j].word => i = j
  BY PairsAreTyped
<1>1. CASE word \in Words(a)
  <2>1. b = [ i \in DOMAIN a |->
                IF a[i].word = word THEN Pair(word, a[i].count + count) ELSE a[i] ]
    BY <1>1 DEF increment_word
  <2>2. /\ DOMAIN b = DOMAIN a
        /\ \A i \in DOMAIN a :
             /\ b[i].word = a[i].word
             /\ b[i].count = IF a[i].word = word THEN a[i].count + count ELSE a[i].count
             /\ b[i] \in [word : W, count : Nat \ {0}]
    BY <1>0, <2>1 DEF Pair
  <2>3. b \in Arrays(W)
    <3>1. b \in Seq([word : W, count : Nat \ {0}])
      BY <1>0, <2>1, <2>2
    <3> QED BY <1>0, <2>2, <3>1 DEF Arrays
  <2>4. Words(b) = Words(a)
    BY <2>2 DEF Words
  <2>5. ASSUME NEW w
        PROVE  CountOf(b, w) = IF w = word THEN CountOf(a, w) + count ELSE CountOf(a, w)
    <3>1. CASE w \in Words(a)
      <4>1. PICK i \in DOMAIN a : a[i].word = w
        BY <3>1 DEF Words
      <4>2. CountOf(a, w) = a[i].count /\ CountOf(b, w) = b[i].count
        <5> HIDE DEF b
        <5> QED BY <2>2, <2>3, <4>1, CountAt
      <4> QED BY <2>2, <4>1, <4>2
    <3>2. CASE w \notin Words(a)
      BY <1>1, <2>4, <3>2 DEF CountOf
    <3> QED BY <3>1, <3>2
  <2> QED BY <2>3, <2>5
<1>2. CASE word \notin Words(a)
  <2>1. b = Append(a, Pair(word, count))
    BY <1>2 DEF increment_word
  <2>2. PICK last \in Nat : last = Len(a) + 1
    BY <1>0
  <2>3. /\ DOMAIN b = 1 .. last /\ b \in Seq([word : W, count : Nat \ {0}])
        /\ b[last].word = word /\ b[last].count = count
        /\ \A i \in DOMAIN a : b[i] = a[i]
        /\ \A i \in DOMAIN b : i = last \/ i \in DOMAIN a
        /\ last \in DOMAIN b
    BY <1>0, <2>1, <2>2 DEF Pair
  <2>4. \A i \in DOMAIN a : a[i].word # word
    BY <1>2 DEF Words
  <2>5. b \in Arrays(W)
    BY <1>0, <2>3, <2>4 DEF Arrays
  <2>6. Words(b) = Words(a) \cup {word}
    <3>1. DOMAIN a \subseteq DOMAIN b
      BY <1>0, <2>2, <2>3
    <3> QED BY <2>3, <3>1 DEF Words
  <2>7. ASSUME NEW w
        PROVE  CountOf(b, w) = IF w = word THEN CountOf(a, w) + count ELSE CountOf(a, w)
    <3>1. CASE w = word
      <4>1. CountOf(b, w) = count /\ CountOf(a, w) = 0
        <5>1. CountOf(a, w) = 0
          BY <1>2, <3>1 DEF CountOf
        <5>2. CountOf(b, b[last].word) = b[last].count
          <6> HIDE DEF b
          <6> QED BY <2>3, <2>5, CountAt
        <5> QED BY <2>3, <3>1, <5>1, <5>2
      <4> QED BY <3>1, <4>1
    <3>2. CASE w \in Words(a)
      <4>1. PICK i \in DOMAIN a : a[i].word = w
        BY <3>2 DEF Words
      <4>2. i \in DOMAIN b /\ b[i] = a[i]
        BY <1>0, <2>2, <2>3
      <4>3. CountOf(a, w) = a[i].count /\ CountOf(b, w) = b[i].count
        <5> HIDE DEF b
        <5> QED BY <2>5, <4>1, <4>2, CountAt
      <4> QED BY <1>2, <3>2, <4>2, <4>3
    <3>3. CASE w # word /\ w \notin Words(a)
      BY <2>6, <3>3 DEF CountOf
    <3> QED BY <3>1, <3>2, <3>3
  <2> QED BY <2>5, <2>7
<1> QED BY <1>1, <1>2

-----------------------------------------------------------------------------
(* The loops over an array.                                                *)

(* A set of positions that is not empty has a last one.                    *)
LEMMA LastPosition ==
  ASSUME NEW n \in Nat, NEW s \in SUBSET (1 .. n), s # {}
  PROVE  Max(s) \in s
<1> DEFINE HasLast(k) == \A q \in SUBSET (1 .. k) :
                           q # {} => \E m \in q : \A y \in q : m >= y
           Good == { k \in Nat : HasLast(k) }
<1>1. HasLast(0)
  <2>1. 1 .. 0 = {}
    OBVIOUS
  <2> QED BY <2>1
<1>2. ASSUME NEW k \in Nat, HasLast(k) PROVE HasLast(k + 1)
  <2>1. SUFFICES ASSUME NEW q \in SUBSET (1 .. k + 1), q # {}
                 PROVE  \E m \in q : \A y \in q : m >= y
    OBVIOUS
  <2>2. CASE k + 1 \in q
    BY <2>2
  <2>3. CASE k + 1 \notin q
    <3>1. q \in SUBSET (1 .. k)
      BY <2>3
    <3> QED BY <1>2, <2>1, <3>1
  <2> QED BY <2>2, <2>3
<1>3. n \in Good
  <2> HIDE DEF HasLast
  <2>1. 0 \in Good /\ \A k \in Nat : k \in Good => k + 1 \in Good
    BY <1>1, <1>2
  <2>2. Nat \subseteq Good
    <3> HIDE DEF Good
    <3> QED BY <2>1, SetInduction
  <2> QED BY <2>2
<1>4. \E m \in s : \A y \in s : m >= y
  BY <1>3
<1> QED BY <1>4, Zenon DEF Max

(* add_array_to_array adds the pairs of the other array one by one.        *)
LEMMA AddUnfolds ==
  ASSUME NEW W, NEW total \in Arrays(W), NEW other \in Arrays(W)
  PROVE  \E h : /\ add_array_to_array(total, other) = h[1 .. Len(other)]
                /\ h[1 .. 0] = total
                /\ \A k \in 1 .. Len(other) :
                     h[1 .. k] = increment_word(h[1 .. k - 1], other[k].word, other[k].count)
<1> DEFINE P == [word : W, count : Nat \ {0}]
           Folds(k) == k = [s \in SUBSET DOMAIN other |->
                              IF s = {} THEN total
                              ELSE increment_word(k[s \ {Max(s)}], other[Max(s)].word,
                                                  other[Max(s)].count)]
           Step == [at \in Arrays(W) \X P |-> increment_word(at[1], at[2].word, at[2].count)]
<1>1. /\ other \in Seq(P) /\ Len(other) \in Nat /\ DOMAIN other = 1 .. Len(other)
      /\ \A i \in DOMAIN other : other[i] \in P
  BY PairsAreTyped
<1>2. Step \in [Arrays(W) \X P -> Arrays(W)]
  BY IncrementWord
<1>3. PICK g \in [SUBSET DOMAIN other -> Arrays(W)] :
        FoldOf(g, Step, total, other, DOMAIN other)
  <2> HIDE DEF P, Step
  <2> QED BY <1>1, <1>2, FoldExists
<1>4. ASSUME NEW s \in SUBSET DOMAIN other, s # {}
      PROVE  g[s] = increment_word(g[s \ {Max(s)}], other[Max(s)].word, other[Max(s)].count)
  <2>1. other[Max(s)] \in P
    BY <1>1, <1>4, LastPosition
  <2>2. g[s \ {Max(s)}] \in Arrays(W)
    <3>1. s \ {Max(s)} \in SUBSET DOMAIN other
      OBVIOUS
    <3> QED BY <1>3, <3>1
  <2>3. g[s] = Step[<<g[s \ {Max(s)}], other[Max(s)]>>]
    BY <1>3, <1>4 DEF FoldOf
  <2> HIDE DEF P
  <2>4. Step[<<g[s \ {Max(s)}], other[Max(s)]>>]
          = increment_word(g[s \ {Max(s)}], other[Max(s)].word, other[Max(s)].count)
    BY <2>1, <2>2
  <2> QED BY <2>3, <2>4
<1>5. g[{}] = total
  BY <1>3 DEF FoldOf
<1>6. Folds(g)
  <2> DEFINE body(s) == IF s = {} THEN total
                        ELSE increment_word(g[s \ {Max(s)}], other[Max(s)].word,
                                            other[Max(s)].count)
  <2>1. \A s \in SUBSET DOMAIN other : g[s] = body(s)
    BY <1>4, <1>5
  <2> HIDE DEF body
  <2>2. g = [s \in SUBSET DOMAIN other |-> body(s)]
    BY <1>3, <2>1
  <2> QED BY <2>2 DEF body
<1> DEFINE h == CHOOSE k : Folds(k)
<1>7. Folds(h)
  <2> HIDE DEF Folds
  <2> QED BY <1>6
<1>8. add_array_to_array(total, other) = h[DOMAIN other]
  BY DEF add_array_to_array, FoldLeft, MapThenFoldSet
<1> HIDE DEF h
<1>9. \A s \in SUBSET DOMAIN other :
        h[s] = IF s = {} THEN total
               ELSE increment_word(h[s \ {Max(s)}], other[Max(s)].word, other[Max(s)].count)
  BY <1>7, Zenon
<1>10. /\ 1 .. 0 = {} /\ {} \in SUBSET DOMAIN other
       /\ \A k \in 1 .. Len(other) :
            /\ 1 .. k # {} /\ 1 .. k \in SUBSET DOMAIN other
            /\ Max(1 .. k) = k /\ (1 .. k) \ {k} = 1 .. k - 1
  BY <1>1, FoldPrefix
<1> HIDE DEF Folds
<1>11. h[1 .. 0] = total
  BY <1>9, <1>10
<1>12. ASSUME NEW k \in 1 .. Len(other)
       PROVE  h[1 .. k] = increment_word(h[1 .. k - 1], other[k].word, other[k].count)
  BY <1>9, <1>10, Zenon
<1> QED BY <1>1, <1>8, <1>11, <1>12

(* Adding two arrays adds the counts of every word.                        *)
THEOREM AddedCounts ==
  ASSUME NEW W, NEW total \in Arrays(W), NEW other \in Arrays(W)
  PROVE  /\ add_array_to_array(total, other) \in Arrays(W)
         /\ \A w : CountOf(add_array_to_array(total, other), w)
                     = CountOf(total, w) + CountOf(other, w)
<1>1. PICK h : /\ add_array_to_array(total, other) = h[1 .. Len(other)]
               /\ h[1 .. 0] = total
               /\ \A k \in 1 .. Len(other) :
                    h[1 .. k] = increment_word(h[1 .. k - 1], other[k].word, other[k].count)
  BY AddUnfolds
<1>2. /\ Len(other) \in Nat /\ DOMAIN other = 1 .. Len(other)
      /\ \A i \in DOMAIN other : other[i].word \in W /\ other[i].count \in Nat \ {0}
      /\ \A i, j \in DOMAIN other : other[i].word = other[j].word => i = j
  BY PairsAreTyped
<1> DEFINE AddedUpTo(k) ==
             /\ h[1 .. k] \in Arrays(W)
             /\ \A w : CountOf(h[1 .. k], w)
                         = IF \E i \in 1 .. k : other[i].word = w
                           THEN CountOf(total, w) + CountOf(other, w)
                           ELSE CountOf(total, w)
           Good == { k \in Nat : k <= Len(other) => AddedUpTo(k) }
<1>3. AddedUpTo(0)
  BY <1>1
<1>4. ASSUME NEW k \in Nat, AddedUpTo(k), k + 1 <= Len(other)
      PROVE  AddedUpTo(k + 1)
  <2>1. PICK n : n = k + 1
    OBVIOUS
  <2> DEFINE a == h[1 .. k]
             word == other[n].word
  <2>2. n \in 1 .. Len(other) /\ n \in DOMAIN other /\ n - 1 = k
    BY <1>2, <1>4, <2>1
  <2>3. h[1 .. n] = increment_word(a, word, other[n].count)
    BY <1>1, <2>2
  <2>4. /\ h[1 .. n] \in Arrays(W)
        /\ \A w : CountOf(h[1 .. n], w)
                    = IF w = word THEN CountOf(a, w) + other[n].count ELSE CountOf(a, w)
    BY <1>2, <1>4, <2>2, <2>3, IncrementWord
  <2>5. ASSUME NEW w
        PROVE  CountOf(h[1 .. n], w)
                 = IF \E i \in 1 .. n : other[i].word = w
                   THEN CountOf(total, w) + CountOf(other, w)
                   ELSE CountOf(total, w)
    <3>1. CASE w = word
      <4>1. ~ \E i \in 1 .. k : other[i].word = w
        BY <1>2, <2>1, <2>2, <3>1
      <4>2. CountOf(a, w) = CountOf(total, w)
        BY <1>4, <4>1
      <4>3. CountOf(other, w) = other[n].count
        BY <2>2, <3>1, CountAt
      <4>4. n \in 1 .. n
        BY <2>2
      <4> QED BY <2>4, <3>1, <4>2, <4>3, <4>4
    <3>2. CASE w # word
      <4>1. (\E i \in 1 .. n : other[i].word = w) <=> \E i \in 1 .. k : other[i].word = w
        BY <2>1, <2>2, <3>2
      <4>2. CountOf(h[1 .. n], w) = CountOf(a, w)
        BY <2>4, <3>2
      <4> QED BY <1>4, <4>1, <4>2
    <3> QED BY <3>1, <3>2
  <2> QED BY <2>1, <2>4, <2>5
<1>5. AddedUpTo(Len(other))
  <2> HIDE DEF AddedUpTo
  <2>1. 0 \in Good /\ \A k \in Nat : k \in Good => k + 1 \in Good
    BY <1>2, <1>3, <1>4
  <2>2. Nat \subseteq Good
    <3> HIDE DEF Good
    <3> QED BY <2>1, SetInduction
  <2> QED BY <1>2, <2>2
<1>6. ASSUME NEW w
      PROVE  CountOf(h[1 .. Len(other)], w) = CountOf(total, w) + CountOf(other, w)
  <2>1. CASE w \in Words(other)
    <3>1. \E i \in 1 .. Len(other) : other[i].word = w
      BY <1>2, <2>1 DEF Words
    <3> QED BY <1>5, <3>1
  <2>2. CASE w \notin Words(other)
    <3>1. ~ \E i \in 1 .. Len(other) : other[i].word = w
      BY <1>2, <2>2 DEF Words
    <3>2. CountOf(other, w) = 0 /\ CountOf(total, w) \in Nat
      BY <2>2, CountIsNatural
    <3> QED BY <1>5, <3>1, <3>2
  <2> QED BY <2>1, <2>2
<1> QED BY <1>1, <1>5, <1>6

(* parse_in_file counts the words of a file one by one.                    *)
ParsesBy(h, content, up) ==
  /\ parse_in_file(content, up) = h[1 .. Len(content)]
  /\ h[1 .. 0] = <<>>
  /\ \A k \in 1 .. Len(content) :
       h[1 .. k] = increment_word(h[1 .. k - 1], up[content[k]], 1)

LEMMA ParseUnfolds ==
  ASSUME NEW W, NEW D, NEW up, NEW content \in Seq(D), \A x \in D : up[x] \in W
  PROVE  \E h : ParsesBy(h, content, up)
<1> DEFINE Folds(k) == k = [s \in SUBSET DOMAIN content |->
                              IF s = {} THEN <<>>
                              ELSE increment_word(k[s \ {Max(s)}], up[content[Max(s)]], 1)]
           Step == [at \in Arrays(W) \X D |-> increment_word(at[1], up[at[2]], 1)]
<1>1. /\ Len(content) \in Nat /\ DOMAIN content = 1 .. Len(content)
      /\ \A i \in DOMAIN content : content[i] \in D
      /\ <<>> \in Arrays(W)
  BY EmptyArray
<1>2. Step \in [Arrays(W) \X D -> Arrays(W)]
  BY IncrementWord
<1>3. PICK g \in [SUBSET DOMAIN content -> Arrays(W)] :
        FoldOf(g, Step, <<>>, content, DOMAIN content)
  <2> HIDE DEF Step
  <2> QED BY <1>1, <1>2, FoldExists
<1>4. ASSUME NEW s \in SUBSET DOMAIN content, s # {}
      PROVE  g[s] = increment_word(g[s \ {Max(s)}], up[content[Max(s)]], 1)
  <2>1. content[Max(s)] \in D
    BY <1>1, <1>4, LastPosition
  <2>2. g[s \ {Max(s)}] \in Arrays(W)
    <3>1. s \ {Max(s)} \in SUBSET DOMAIN content
      OBVIOUS
    <3> QED BY <1>3, <3>1
  <2>3. g[s] = Step[<<g[s \ {Max(s)}], content[Max(s)]>>]
    BY <1>3, <1>4 DEF FoldOf
  <2>4. Step[<<g[s \ {Max(s)}], content[Max(s)]>>]
          = increment_word(g[s \ {Max(s)}], up[content[Max(s)]], 1)
    BY <2>1, <2>2
  <2> QED BY <2>3, <2>4
<1>5. g[{}] = <<>>
  BY <1>3 DEF FoldOf
<1>6. Folds(g)
  <2> DEFINE body(s) == IF s = {} THEN <<>>
                        ELSE increment_word(g[s \ {Max(s)}], up[content[Max(s)]], 1)
  <2>1. \A s \in SUBSET DOMAIN content : g[s] = body(s)
    BY <1>4, <1>5
  <2> HIDE DEF body
  <2>2. g = [s \in SUBSET DOMAIN content |-> body(s)]
    BY <1>3, <2>1
  <2> QED BY <2>2 DEF body
<1> DEFINE h == CHOOSE k : Folds(k)
<1>7. Folds(h)
  <2> HIDE DEF Folds
  <2> QED BY <1>6
<1>8. parse_in_file(content, up) = h[DOMAIN content]
  BY DEF parse_in_file, FoldLeft, MapThenFoldSet
<1> HIDE DEF h
<1>9. \A s \in SUBSET DOMAIN content :
        h[s] = IF s = {} THEN <<>>
               ELSE increment_word(h[s \ {Max(s)}], up[content[Max(s)]], 1)
  BY <1>7, Zenon
<1>10. /\ 1 .. 0 = {} /\ {} \in SUBSET DOMAIN content
       /\ \A k \in 1 .. Len(content) :
            /\ 1 .. k # {} /\ 1 .. k \in SUBSET DOMAIN content
            /\ Max(1 .. k) = k /\ (1 .. k) \ {k} = 1 .. k - 1
  BY <1>1, FoldPrefix
<1> HIDE DEF Folds
<1>11. h[1 .. 0] = <<>>
  BY <1>9, <1>10
<1>12. ASSUME NEW k \in 1 .. Len(content)
       PROVE  h[1 .. k] = increment_word(h[1 .. k - 1], up[content[k]], 1)
  BY <1>9, <1>10, Zenon
<1> QED BY <1>1, <1>8, <1>11, <1>12 DEF ParsesBy

(* Where a word is in a text.                                              *)
Positions(content, up, word) == { j \in DOMAIN content : up[content[j]] = word }

(* The array has its pairs from W, and for every word its occurrences.     *)
CountsText(pair_array, W, content, up) ==
  /\ pair_array \in Arrays(W)
  /\ \A w : CountOf(pair_array, w) = Cardinality(Positions(content, up, w))

(* The array of a file says of every word at how many positions it is.     *)
THEOREM ParsedCounts ==
  ASSUME NEW W, NEW D, NEW up, NEW content \in Seq(D), \A x \in D : up[x] \in W
  PROVE  CountsText(parse_in_file(content, up), W, content, up)
<1>0. PICK h : ParsesBy(h, content, up)
  BY ParseUnfolds
<1>1. /\ parse_in_file(content, up) = h[1 .. Len(content)]
      /\ h[1 .. 0] = <<>>
      /\ \A k \in 1 .. Len(content) :
           h[1 .. k] = increment_word(h[1 .. k - 1], up[content[k]], 1)
  BY <1>0 DEF ParsesBy
<1>2. /\ Len(content) \in Nat /\ DOMAIN content = 1 .. Len(content)
      /\ \A i \in DOMAIN content : up[content[i]] \in W
  OBVIOUS
<1> DEFINE At(k, w) == { j \in 1 .. k : up[content[j]] = w }
           CountedUpTo(k) == /\ h[1 .. k] \in Arrays(W)
                             /\ \A w : CountOf(h[1 .. k], w) = Cardinality(At(k, w))
           Good == { k \in Nat : k <= Len(content) => CountedUpTo(k) }
<1>3. CountedUpTo(0)
  <2>1. \A w : At(0, w) = {}
    OBVIOUS
  <2> HIDE DEF At
  <2> QED BY <1>1, <2>1, EmptyArray, FS_EmptySet
<1>4. ASSUME NEW k \in Nat, CountedUpTo(k), k + 1 <= Len(content)
      PROVE  CountedUpTo(k + 1)
  <2>1. PICK n : n = k + 1
    OBVIOUS
  <2> DEFINE word == up[content[n]]
  <2>2. n \in 1 .. Len(content) /\ n - 1 = k /\ word \in W /\ 1 \in Nat \ {0}
    BY <1>2, <1>4, <2>1
  <2>3. h[1 .. n] = increment_word(h[1 .. k], word, 1)
    BY <1>1, <2>2
  <2>4. /\ h[1 .. n] \in Arrays(W)
        /\ \A w : CountOf(h[1 .. n], w)
                    = IF w = word THEN CountOf(h[1 .. k], w) + 1 ELSE CountOf(h[1 .. k], w)
    <3> HIDE DEF word
    <3> QED BY <1>4, <2>2, <2>3, IncrementWord
  <2>5. ASSUME NEW w
        PROVE  CountOf(h[1 .. n], w) = Cardinality(At(n, w))
    <3>1. IsFiniteSet(At(k, w)) /\ n \notin At(k, w)
      <4>1. IsFiniteSet(1 .. k)
        BY FS_Interval
      <4>2. At(k, w) \subseteq 1 .. k
        OBVIOUS
      <4>3. n \notin 1 .. k
        BY <2>1
      <4> HIDE DEF At
      <4> QED BY <4>1, <4>2, <4>3, FS_Subset
    <3>2. CASE w = word
      <4>1. At(n, w) = At(k, w) \cup {n}
        BY <2>1, <2>2, <3>2
      <4> HIDE DEF At
      <4>2. Cardinality(At(n, w)) = Cardinality(At(k, w)) + 1
        BY <3>1, <4>1, FS_AddElement
      <4> QED BY <1>4, <2>4, <3>2, <4>2
    <3>3. CASE w # word
      <4>1. At(n, w) = At(k, w)
        BY <2>1, <2>2, <3>3
      <4> QED BY <1>4, <2>4, <3>3, <4>1
    <3> QED BY <3>2, <3>3
  <2> QED BY <2>1, <2>4, <2>5
<1>5. CountedUpTo(Len(content))
  <2> HIDE DEF CountedUpTo
  <2>1. 0 \in Good /\ \A k \in Nat : k \in Good => k + 1 \in Good
    BY <1>2, <1>3, <1>4
  <2>2. Nat \subseteq Good
    <3> HIDE DEF Good
    <3> QED BY <2>1, SetInduction
  <2> QED BY <1>2, <2>2
<1>6. \A w : At(Len(content), w) = Positions(content, up, w)
  BY <1>2 DEF Positions
<1> QED BY <1>1, <1>5, <1>6 DEF CountsText

-----------------------------------------------------------------------------
(* Where a word is in some of the files.                                   *)

Places(files, contents, up, word) ==
  { at \in UNION { {f} \X DOMAIN contents[f] : f \in files } :
      up[contents[at[1]][at[2]]] = word }

(* A file more adds as many places as the word has positions in it.        *)
LEMMA AnotherFile ==
  ASSUME NEW files, NEW contents, NEW up, NEW word, NEW D, NEW f, f \notin files,
         contents[f] \in Seq(D), IsFiniteSet(Places(files, contents, up, word))
  PROVE  /\ IsFiniteSet(Places(files \cup {f}, contents, up, word))
         /\ Cardinality(Places(files \cup {f}, contents, up, word))
              = Cardinality(Places(files, contents, up, word))
                + Cardinality(Positions(contents[f], up, word))
<1> DEFINE J == Positions(contents[f], up, word)
           New == { <<f, j>> : j \in J }
           Old == Places(files, contents, up, word)
           pair == [j \in J |-> <<f, j>>]
<1>1. IsFiniteSet(J)
  <2>1. Len(contents[f]) \in Nat /\ DOMAIN contents[f] = 1 .. Len(contents[f])
    OBVIOUS
  <2>2. IsFiniteSet(1 .. Len(contents[f]))
    BY <2>1, FS_Interval
  <2>3. J \subseteq 1 .. Len(contents[f])
    BY <2>1 DEF Positions
  <2> QED BY <2>2, <2>3, FS_Subset
<1>2. ExistsBijection(J, New)
  <2> HIDE DEF J
  <2>1. pair \in [J -> New]
    OBVIOUS
  <2>2. \A j, k \in J : pair[j] = pair[k] => j = k
    OBVIOUS
  <2>3. \A x \in New : \E j \in J : pair[j] = x
    OBVIOUS
  <2> HIDE DEF pair, New
  <2>4. pair \in Bijection(J, New)
    BY <2>1, <2>2, <2>3 DEF Bijection, Injection, Surjection, IsInjective
  <2> QED BY <2>4 DEF ExistsBijection
<1>3. IsFiniteSet(New) /\ Cardinality(New) = Cardinality(J)
  <2> HIDE DEF J, New
  <2> QED BY <1>1, <1>2, FS_Bijection
<1>4. Places(files \cup {f}, contents, up, word) = Old \cup New
  <2>1. ASSUME NEW at \in Places(files \cup {f}, contents, up, word)
        PROVE  at \in Old \cup New
    BY DEF Places, Positions
  <2>2. ASSUME NEW at \in Old \cup New
        PROVE  at \in Places(files \cup {f}, contents, up, word)
    BY DEF Places, Positions
  <2> HIDE DEF Old, New
  <2> QED BY <2>1, <2>2
<1>5. Old \cap New = {}
  BY DEF Places
<1>6. IsFiniteSet(Old) /\ Cardinality(Old) \in Nat /\ Cardinality(New) \in Nat
  BY <1>3, FS_CardinalityType
<1> HIDE DEF J, New, Old
<1>7. Cardinality(Old \cup New) = Cardinality(Old) + Cardinality(New) - Cardinality(Old \cap New)
  BY <1>3, <1>6, FS_Union
<1>8. Cardinality(Old \cap New) = 0 /\ IsFiniteSet(Old \cup New)
  BY <1>3, <1>5, <1>6, FS_EmptySet, FS_Union
<1>9. Cardinality(Old \cup New) = Cardinality(Old) + Cardinality(J)
  BY <1>3, <1>6, <1>7, <1>8
<1>10. /\ IsFiniteSet(Places(files \cup {f}, contents, up, word))
       /\ Cardinality(Places(files \cup {f}, contents, up, word))
            = Cardinality(Old) + Cardinality(J)
  BY <1>4, <1>8, <1>9
<1> QED BY <1>10 DEF J, Old

LEMMA NoFile ==
  ASSUME NEW contents, NEW up, NEW word
  PROVE  /\ IsFiniteSet(Places({}, contents, up, word))
         /\ Cardinality(Places({}, contents, up, word)) = 0
<1>1. Places({}, contents, up, word) = {}
  BY DEF Places
<1> QED BY <1>1, FS_EmptySet

-----------------------------------------------------------------------------
(* A part of an array has the counts of the words in that part.            *)
LEMMA PartOfArray ==
  ASSUME NEW W, NEW a \in Arrays(W), NEW n \in Nat, NEW m \in Nat, n <= m, m <= Len(a)
  PROVE  /\ SubSeq(a, n + 1, m) \in Arrays(W)
         /\ Len(SubSeq(a, n + 1, m)) = m - n
         /\ \A k \in DOMAIN a :
              CountOf(SubSeq(a, n + 1, m), a[k].word)
                = IF k \in n + 1 .. m THEN a[k].count ELSE 0
         /\ \A w : w \notin Words(a) => CountOf(SubSeq(a, n + 1, m), w) = 0
<1> DEFINE P == [word : W, count : Nat \ {0}]
           b == SubSeq(a, n + 1, m)
<1>1. /\ a \in Seq(P) /\ Len(a) \in Nat /\ DOMAIN a = 1 .. Len(a)
      /\ \A i, j \in DOMAIN a : a[i].word = a[j].word => i = j
  BY PairsAreTyped
<1>2. /\ b \in Seq(P) /\ Len(b) = m - n /\ DOMAIN b = 1 .. m - n
      /\ \A i \in 1 .. m - n : b[i] = a[n + i]
  <2> HIDE DEF P
  <2>1. \A i \in n + 1 .. m : a[i] \in P
    BY <1>1
  <2>2. b = [i \in 1 .. m - n |-> a[n + i]]
    BY DEF SubSeq
  <2>3. b \in Seq(P)
    BY <1>1, <2>1, SubSeqProperties
  <2>4. Len(b) = m - n /\ DOMAIN b = 1 .. m - n
    BY <1>1, SubSeqProperties
  <2> QED BY <2>2, <2>3, <2>4
<1> HIDE DEF b
<1>3. ASSUME NEW i \in DOMAIN b
       PROVE  /\ i \in Nat /\ n + i \in DOMAIN a /\ n + i \in n + 1 .. m
              /\ b[i] = a[n + i]
  <2>1. i \in 1 .. m - n
    BY <1>2
  <2>2. n + i \in 1 .. Len(a)
    BY <1>1, <2>1
  <2> QED BY <1>1, <1>2, <2>1, <2>2
<1>4. b \in Arrays(W)
  <2>1. ASSUME NEW i \in DOMAIN b, NEW j \in DOMAIN b, b[i].word = b[j].word
        PROVE  i = j
    <3>1. n + i \in DOMAIN a /\ n + j \in DOMAIN a /\ i \in Nat /\ j \in Nat
      BY <1>3
    <3>2. a[n + i].word = a[n + j].word
      BY <1>3, <2>1
    <3>3. n + i = n + j
      BY <1>1, <3>1, <3>2
    <3> QED BY <3>1, <3>3
  <2> QED BY <1>2, <2>1 DEF Arrays
<1>5. ASSUME NEW k \in DOMAIN a
      PROVE  CountOf(b, a[k].word) = IF k \in n + 1 .. m THEN a[k].count ELSE 0
  <2>1. CASE k \in n + 1 .. m
    <3>1. PICK i : i = k - n
      OBVIOUS
    <3>2. i \in DOMAIN b /\ b[i] = a[k]
      BY <1>1, <1>2, <2>1, <3>1
    <3>3. CountOf(b, b[i].word) = b[i].count
      BY <1>4, <3>2, CountAt
    <3> QED BY <2>1, <3>2, <3>3
  <2>2. CASE k \notin n + 1 .. m
    <3>1. ASSUME NEW i \in DOMAIN b PROVE b[i].word # a[k].word
      <4>1. n + i \in DOMAIN a /\ n + i \in n + 1 .. m /\ b[i] = a[n + i]
        BY <1>3
      <4> QED BY <1>1, <2>2, <4>1
    <3>2. a[k].word \notin Words(b)
      BY <3>1 DEF Words
    <3> QED BY <2>2, <3>2 DEF CountOf
  <2> QED BY <2>1, <2>2
<1>6. ASSUME NEW w, w \notin Words(a) PROVE CountOf(b, w) = 0
  <2>1. ASSUME NEW i \in DOMAIN b PROVE b[i].word # w
    <3>1. n + i \in DOMAIN a /\ b[i] = a[n + i]
      BY <1>3
    <3> QED BY <1>6, <3>1 DEF Words
  <2>2. w \notin Words(b)
    BY <2>1 DEF Words
  <2> QED BY <2>2 DEF CountOf
<1> QED BY <1>2, <1>4, <1>5, <1>6 DEF b
=============================================================================
