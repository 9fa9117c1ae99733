--------------------------- MODULE ListingProofs ---------------------------
(***************************************************************************)
(* What the two programs that list things list.  The tree of hw01 prints   *)
(* every number inserted so far in ascending order, for trees of any size. *)
(* `diskprint' lists of every image that is not cut off and has inodes of  *)
(* the size of its structure the entries of the first block of the root    *)
(* directory up to the first unused one, and for each of them the inode it *)
(* names, although one buffer holds the directory and the inode table in   *)
(* turns.                                                                  *)
(***************************************************************************)
EXTENDS Bst, Ext2Dir, SequenceTheorems, WellFoundedInduction, TLAPS

(* A set with 0 and the successor of every natural in it holds them all.   *)
LEMMA SetInduction ==
  ASSUME NEW S, 0 \in S, \A n \in Nat : n \in S => n + 1 \in S
  PROVE  Nat \subseteq S
<1> DEFINE Missing == Nat \ S
           Before == { pair \in Nat \X Nat : pair[1] < pair[2] }
<1>1. IsWellFoundedOn(Before, Nat)
  BY NatLessThanWellFounded DEF OpToRel
<1>2. SUFFICES ASSUME Missing # {} PROVE FALSE
  OBVIOUS
<1>3. PICK m \in Missing : \A n \in Missing : <<n, m>> \notin Before
  <2>1. Missing \subseteq Nat
    OBVIOUS
  <2> HIDE DEF Missing, Before
  <2> QED BY <1>1, <1>2, <2>1, WFMin
<1>4. m # 0 /\ m - 1 \in Nat /\ <<m - 1, m>> \in Before
  BY <1>3
<1>5. m - 1 \in S
  BY <1>3, <1>4
<1> QED BY <1>3, <1>4, <1>5

-----------------------------------------------------------------------------
(* The tree of hw01.                                                       *)

(* The numbers whose nodes hang in the tree: the one that is being         *)
(* inserted does not yet.                                                  *)
Linked == IF phase = "inserting" THEN table \ {val} ELSE table

BstTyped ==
  /\ phase \in {"drawing", "inserting", "printed", "freed"}
  /\ left \in [Values -> Values \cup {NULL}] /\ right \in [Values -> Values \cup {NULL}]
  /\ table \in SUBSET Values /\ NODE_MIDPOINT \in Linked
  /\ phase = "inserting" => val \in table /\ node \in Linked
  /\ \A v \in Values \ Linked : left[v] = NULL /\ right[v] = NULL

(* What lies below a node lies between two numbers, lo and hi: what a walk *)
(* from the root to the node has passed last on either side.               *)
Split(lo, hi) ==
  \A v \in Linked :
    /\ lo[v] < v /\ v < hi[v]
    /\ left[v] # NULL => left[v] \in Linked /\ lo[left[v]] = lo[v] /\ hi[left[v]] = v
    /\ right[v] # NULL => right[v] \in Linked /\ lo[right[v]] = v /\ hi[right[v]] = hi[v]

(* A node that has numbers on one side of it has a child there.            *)
Complete(lo, hi) ==
  \A v, t \in Linked : /\ lo[v] < t /\ t < v => left[v] # NULL
                       /\ v < t /\ t < hi[v] => right[v] # NULL

(* The ranges of two nodes are apart, or one of them is on one side of the *)
(* other node.                                                             *)
Nested(lo, hi) ==
  \A v, t \in Linked :
    \/ v = t \/ hi[v] <= lo[t] \/ hi[t] <= lo[v]
    \/ lo[v] <= lo[t] /\ hi[t] <= v
    \/ v <= lo[t] /\ hi[t] <= hi[v]
    \/ lo[t] <= lo[v] /\ hi[v] <= t
    \/ t <= lo[v] /\ hi[v] <= hi[t]

Bounds(lo, hi) ==
  /\ lo \in [Values -> Int] /\ hi \in [Values -> Int]
  /\ lo[NODE_MIDPOINT] = -1 /\ hi[NODE_MIDPOINT] = NODE_COUNT
  /\ Split(lo, hi) /\ Complete(lo, hi) /\ Nested(lo, hi)
  /\ phase = "inserting" => lo[node] < val /\ val < hi[node]

TreeInv ==
  /\ BstTyped
  /\ phase \in {"drawing", "inserting"} => \E lo, hi : Bounds(lo, hi)
  /\ phase \in {"printed", "freed"} => Ascending(output) /\ Elements(output) = Values

(* A node between the traversals of its subtrees.                          *)
LEMMA Joined ==
  ASSUME NEW a \in Seq(Values), NEW b \in Seq(Values), NEW v \in Values,
         Ascending(a), Ascending(b),
         \A x \in Elements(a) : x < v, \A x \in Elements(b) : v < x
  PROVE  /\ a \o <<v>> \o b \in Seq(Values) /\ Ascending(a \o <<v>> \o b)
         /\ Elements(a \o <<v>> \o b) = Elements(a) \cup {v} \cup Elements(b)
<1> DEFINE c == a \o <<v>> \o b
<1>1. Values \subseteq Int
  BY NodeCountAssumption DEF Values
<1>2. PICK m \in Nat, n \in Nat :
        /\ m = Len(a) /\ DOMAIN a = 1 .. m /\ n = Len(b) /\ DOMAIN b = 1 .. n
  OBVIOUS
<1> PICK p \in Nat : p = m + 1
  OBVIOUS
<1>3. /\ c \in Seq(Values) /\ Len(c) = p + n
      /\ \A k \in 1 .. p + n :
           c[k] = IF k <= m THEN a[k] ELSE IF k = p THEN v ELSE b[k - p]
  <2>1. PICK e \in Seq(Values) : e = <<v>> /\ Len(e) = 1 /\ e[1] = v
    <3>1. <<v>> \in Seq(Values) /\ Len(<<v>>) = 1 /\ <<v>>[1] = v
      OBVIOUS
    <3> QED BY <3>1
  <2>2. PICK d \in Seq(Values) :
          /\ d = a \o <<v>> /\ Len(d) = p
          /\ \A k \in 1 .. p : d[k] = IF k <= m THEN a[k] ELSE v
    <3>1. /\ a \o e \in Seq(Values) /\ Len(a \o e) = p
          /\ \A k \in 1 .. p : (a \o e)[k] = IF k <= m THEN a[k] ELSE e[k - m]
      BY <1>2, <2>1, ConcatProperties
    <3>2. \A k \in 1 .. p : ~ (k <= m) => k - m = 1
      OBVIOUS
    <3>3. PICK d : d = a \o e
      OBVIOUS
    <3>4. d \in Seq(Values) /\ Len(d) = p /\ d = a \o <<v>>
      BY <2>1, <3>1, <3>3
    <3>5. \A k \in 1 .. p : d[k] = IF k <= m THEN a[k] ELSE e[k - m]
      BY <3>1, <3>3
    <3>6. \A k \in 1 .. p : d[k] = IF k <= m THEN a[k] ELSE v
      BY <2>1, <3>2, <3>5
    <3> QED BY <3>4, <3>6
  <2>3. /\ d \o b \in Seq(Values) /\ Len(d \o b) = p + n
        /\ \A k \in 1 .. p + n : (d \o b)[k] = IF k <= p THEN d[k] ELSE b[k - p]
    BY <1>2, <2>2, ConcatProperties
  <2>4. c = d \o b
    BY <2>2
  <2> HIDE DEF c
  <2> QED BY <2>2, <2>3, <2>4
<1> HIDE DEF c
<1>4. DOMAIN c = 1 .. p + n
  BY <1>2, <1>3
<1>5. /\ \A k \in 1 .. m : c[k] = a[k] /\ a[k] \in Elements(a) /\ a[k] \in Values
      /\ c[p] = v
      /\ \A k \in 1 .. n : c[p + k] = b[k] /\ b[k] \in Elements(b) /\ b[k] \in Values
  <2>1. \A k \in 1 .. m : c[k] = a[k] /\ a[k] \in Elements(a) /\ a[k] \in Values
    BY <1>2, <1>3 DEF Elements
  <2>2. c[p] = v
    BY <1>2, <1>3
  <2>3. ASSUME NEW k \in 1 .. n
        PROVE  c[p + k] = b[k] /\ b[k] \in Elements(b) /\ b[k] \in Values
    <3>1. /\ p + k \in 1 .. p + n /\ ~ (p + k <= m) /\ p + k # p
          /\ (p + k) - p = k
      BY <1>2
    <3>2. c[p + k] = b[k]
      BY <1>3, <3>1
    <3> QED BY <1>2, <3>2 DEF Elements
  <2> QED BY <2>1, <2>2, <2>3
<1>6. \A k \in DOMAIN c : \/ k \in 1 .. m
                          \/ k = p
                          \/ \E l \in 1 .. n : k = p + l
  <2> SUFFICES ASSUME NEW k \in 1 .. p + n, k \notin 1 .. m, k # p
               PROVE  \E l \in 1 .. n : k = p + l
    BY <1>4
  <2>1. k - p \in 1 .. n /\ k = p + (k - p)
    BY <1>2
  <2> QED BY <2>1
<1>7. Elements(c) = Elements(a) \cup {v} \cup Elements(b)
  <2>1. ASSUME NEW x \in Elements(c) PROVE x \in Elements(a) \cup {v} \cup Elements(b)
    <3>1. PICK k \in DOMAIN c : x = c[k]
      BY DEF Elements
    <3> QED BY <1>5, <1>6, <3>1
  <2>2. ASSUME NEW x \in Elements(a) PROVE x \in Elements(c)
    <3>1. PICK k \in 1 .. m : x = a[k]
      BY <1>2 DEF Elements
    <3> QED BY <1>2, <1>4, <1>5, <3>1 DEF Elements
  <2>3. v \in Elements(c)
    <3>1. p \in DOMAIN c
      BY <1>2, <1>4
    <3> QED BY <1>5, <3>1 DEF Elements
  <2>4. ASSUME NEW x \in Elements(b) PROVE x \in Elements(c)
    <3>1. PICK k \in 1 .. n : x = b[k]
      BY <1>2 DEF Elements
    <3>2. p + k \in DOMAIN c
      BY <1>2, <1>4
    <3> QED BY <1>5, <3>1, <3>2 DEF Elements
  <2> QED BY <2>1, <2>2, <2>3, <2>4
<1>8. ASSUME NEW i \in DOMAIN c, NEW j \in DOMAIN c, i < j PROVE c[i] < c[j]
  <2>1. v \in Int
    BY <1>1
  <2>2. CASE i \in 1 .. m
    <3>1. c[i] = a[i] /\ a[i] < v /\ a[i] \in Int
      BY <1>1, <1>5, <2>2
    <3>2. CASE j \in 1 .. m
      BY <1>2, <1>5, <1>8, <2>2, <3>2 DEF Ascending
    <3>3. CASE j = p
      BY <1>5, <3>1, <3>3
    <3>4. CASE \E l \in 1 .. n : j = p + l
      <4>1. PICK l \in 1 .. n : j = p + l
        BY <3>4
      <4>2. c[j] = b[l] /\ v < b[l] /\ b[l] \in Int
        BY <1>1, <1>5, <4>1
      <4> QED BY <2>1, <3>1, <4>2
    <3> QED BY <1>6, <3>2, <3>3, <3>4
  <2>3. CASE i = p
    <3>1. PICK l \in 1 .. n : j = p + l
      BY <1>2, <1>6, <1>8, <2>3
    <3> QED BY <1>5, <2>3, <3>1
  <2>4. CASE \E l \in 1 .. n : i = p + l
    <3>1. PICK l \in 1 .. n : i = p + l
      BY <2>4
    <3>2. j \notin 1 .. m /\ j # p
      BY <1>2, <1>4, <1>8, <3>1
    <3>3. PICK k \in 1 .. n : j = p + k
      BY <1>6, <3>2
    <3>4. l < k
      BY <1>2, <1>8, <3>1, <3>3
    <3>5. b[l] < b[k]
      BY <1>2, <3>4 DEF Ascending
    <3> QED BY <1>5, <3>1, <3>3, <3>5
  <2> QED BY <1>6, <2>2, <2>3, <2>4
<1> QED BY <1>3, <1>7, <1>8 DEF Ascending, c

-----------------------------------------------------------------------------
(* The traversal.                                                          *)

Nodes == Values \cup {NULL}

(* The printed numbers of every tree, for so many levels.                  *)
Level(below) ==
  [ at \in Nodes |-> IF at = NULL THEN <<>>
                     ELSE below[left[at]] \o <<at>> \o below[right[at]] ]

Walks(w, n) ==
  w = [ levels \in 0 .. n |->
          [ at \in Nodes |->
              IF levels = 0 \/ at = NULL THEN <<>>
              ELSE w[levels - 1][left[at]] \o <<at>> \o w[levels - 1][right[at]] ] ]

LEMMA WalkExists ==
  ASSUME NEW n \in Nat
  PROVE  \E w : Walks(w, n)
<1> DEFINE Good == { k \in Nat : \E w : Walks(w, k) }
<1>1. 0 \in Good
  <2> DEFINE w == [ levels \in 0 .. 0 |-> [ at \in Nodes |-> <<>> ] ]
  <2>1. Walks(w, 0)
    BY DEF Walks
  <2> QED BY <2>1
<1>2. ASSUME NEW k \in Nat, k \in Good PROVE k + 1 \in Good
  <2>1. PICK w : Walks(w, k)
    BY <1>2
  <2> DEFINE u == [ levels \in 0 .. k + 1 |->
                      IF levels = k + 1 THEN Level(w[k]) ELSE w[levels] ]
  <2>2. /\ \A l \in 0 .. k :
             w[l] = [ at \in Nodes |->
                        IF l = 0 \/ at = NULL THEN <<>>
                        ELSE w[l - 1][left[at]] \o <<at>> \o w[l - 1][right[at]] ]
    BY <2>1 DEF Walks
  <2>3. /\ u[k + 1] = Level(w[k]) /\ \A l \in 0 .. k : u[l] = w[l]
    OBVIOUS
  <2> DEFINE f(l) == [ at \in Nodes |->
                         IF l = 0 \/ at = NULL THEN <<>>
                         ELSE u[l - 1][left[at]] \o <<at>> \o u[l - 1][right[at]] ]
  <2>4. u = [ l \in 0 .. k + 1 |-> u[l] ]
    OBVIOUS
  <2> HIDE DEF u
  <2>5. ASSUME NEW l \in 0 .. k + 1 PROVE u[l] = f(l)
    <3>1. CASE l = k + 1
      <4>1. u[l - 1] = w[k] /\ l # 0
        BY <2>3, <3>1
      <4> QED BY <2>3, <3>1, <4>1 DEF Level
    <3>2. CASE l = 0
      <4>1. w[0] = [ at \in Nodes |-> <<>> ]
        <5> DEFINE body(m, at) == w[m - 1][left[at]] \o <<at>> \o w[m - 1][right[at]]
        <5>1. \A m \in 0 .. k :
                w[m] = [ at \in Nodes |-> IF m = 0 \/ at = NULL THEN <<>> ELSE body(m, at) ]
          BY <2>2
        <5> HIDE DEF body
        <5>2. w[0] = [ at \in Nodes |-> IF 0 = 0 \/ at = NULL THEN <<>> ELSE body(0, at) ]
          BY <5>1
        <5> QED BY <5>2
      <4>2. f(0) = [ at \in Nodes |-> <<>> ]
        OBVIOUS
      <4> QED BY <2>3, <3>2, <4>1, <4>2
    <3>3. CASE l \in 1 .. k
      <4>1. u[l - 1] = w[l - 1] /\ u[l] = w[l] /\ l \in 0 .. k
        BY <2>3, <3>3
      <4> QED BY <2>2, <4>1
    <3> QED BY <3>1, <3>2, <3>3
  <2>6. u = [ l \in 0 .. k + 1 |-> f(l) ]
    <3> HIDE DEF f
    <3> QED BY <2>4, <2>5
  <2>7. Walks(u, k + 1)
    BY <2>6 DEF Walks
  <2> QED BY <2>7
<1>3. Nat \subseteq Good
  <2> HIDE DEF Good
  <2> QED BY <1>1, <1>2, SetInduction
<1> QED BY <1>3

LEMMA WalkUnfolds ==
  \E w : /\ \A root \in Nodes : traverse_inorder(root) = w[NODE_COUNT][root]
         /\ \A v \in Values, l \in 0 .. NODE_COUNT - 1 :
              w[l + 1][v] = w[l][left[v]] \o <<v>> \o w[l][right[v]]
         /\ \A l \in 0 .. NODE_COUNT : w[l][NULL] = <<>>
<1>1. PICK w : w = (CHOOSE u : Walks(u, NODE_COUNT))
  OBVIOUS
<1>2. Walks(w, NODE_COUNT)
  <2>1. NODE_COUNT \in Nat
    BY NodeCountAssumption
  <2> QED BY <1>1, <2>1, WalkExists
<1>3. ASSUME NEW root \in Nodes PROVE traverse_inorder(root) = w[NODE_COUNT][root]
  BY <1>1 DEF traverse_inorder, Walks, Nodes
<1>4. \A l \in 0 .. NODE_COUNT : \A at \in Nodes :
        w[l][at] = IF l = 0 \/ at = NULL THEN <<>>
                   ELSE w[l - 1][left[at]] \o <<at>> \o w[l - 1][right[at]]
  <2>1. \A l \in 0 .. NODE_COUNT :
          w[l] = [ at \in Nodes |->
                     IF l = 0 \/ at = NULL THEN <<>>
                     ELSE w[l - 1][left[at]] \o <<at>> \o w[l - 1][right[at]] ]
    BY <1>2 DEF Walks
  <2> QED BY <2>1
<1>5. ASSUME NEW v \in Values, NEW l \in 0 .. NODE_COUNT - 1
      PROVE  w[l + 1][v] = w[l][left[v]] \o <<v>> \o w[l][right[v]]
  <2>1. l + 1 \in 0 .. NODE_COUNT /\ l + 1 # 0 /\ (l + 1) - 1 = l
          /\ v \in Nodes /\ v # NULL
    BY NodeCountAssumption DEF Nodes, Values, NULL
  <2> QED BY <1>4, <2>1
<1>6. \A l \in 0 .. NODE_COUNT : w[l][NULL] = <<>>
  BY <1>4 DEF Nodes
<1> QED BY <1>3, <1>5, <1>6

(* In a tree with bounds the traversal from a node prints what is linked   *)
(* between the bounds of the node, in ascending order.                     *)
Prints(s, low, high) ==
  /\ s \in Seq(Values) /\ Ascending(s)
  /\ Elements(s) = { t \in Linked : low < t /\ t < high }

LEMMA TraversalPrints ==
  ASSUME BstTyped, NEW lo, NEW hi, Bounds(lo, hi)
  PROVE  Prints(traverse_inorder(NODE_MIDPOINT), -1, NODE_COUNT)
<1>1. PICK w :
        /\ \A root \in Nodes : traverse_inorder(root) = w[NODE_COUNT][root]
        /\ \A v \in Values, l \in 0 .. NODE_COUNT - 1 :
             w[l + 1][v] = w[l][left[v]] \o <<v>> \o w[l][right[v]]
        /\ \A l \in 0 .. NODE_COUNT : w[l][NULL] = <<>>
  BY WalkUnfolds
<1>2. /\ NODE_COUNT \in Nat \ {0} /\ Linked \subseteq Values /\ Values \subseteq Int
      /\ lo \in [Values -> Int] /\ hi \in [Values -> Int]
      /\ Split(lo, hi) /\ Complete(lo, hi)
  <2>1. NODE_COUNT \in Nat \ {0} /\ Values \subseteq Int
    BY NodeCountAssumption DEF Values
  <2>2. Linked \subseteq Values
    BY DEF BstTyped, Linked
  <2> QED BY <2>1, <2>2 DEF Bounds
<1> DEFINE Good == { k \in Nat : k <= NODE_COUNT =>
                       \A v \in Linked : hi[v] - lo[v] - 1 <= k =>
                         Prints(w[k][v], lo[v], hi[v]) }
<1>3. 0 \in Good
  <2>1. \A v \in Linked : lo[v] < v /\ v < hi[v] /\ v \in Int /\ lo[v] \in Int /\ hi[v] \in Int
    BY <1>2 DEF Split
  <2>2. \A v \in Linked : ~ (hi[v] - lo[v] - 1 <= 0)
    BY <2>1
  <2> QED BY <2>2
<1>4. ASSUME NEW k \in Nat, k \in Good PROVE k + 1 \in Good
  <2> SUFFICES ASSUME k + 1 <= NODE_COUNT, NEW v \in Linked, hi[v] - lo[v] - 1 <= k + 1
               PROVE  Prints(w[k + 1][v], lo[v], hi[v])
    OBVIOUS
  <2>1. k \in 0 .. NODE_COUNT - 1 /\ k \in 0 .. NODE_COUNT /\ v \in Values
          /\ v \in Int /\ lo[v] \in Int /\ hi[v] \in Int
    BY <1>2
  <2>2. /\ lo[v] < v /\ v < hi[v]
        /\ left[v] # NULL => left[v] \in Linked /\ lo[left[v]] = lo[v] /\ hi[left[v]] = v
        /\ right[v] # NULL => right[v] \in Linked /\ lo[right[v]] = v /\ hi[right[v]] = hi[v]
    BY <1>2 DEF Split
  <2>3. \A u \in Linked : hi[u] - lo[u] - 1 <= k => Prints(w[k][u], lo[u], hi[u])
    BY <1>2, <1>4, <2>1
  <2>4. w[k + 1][v] = w[k][left[v]] \o <<v>> \o w[k][right[v]]
    BY <1>1, <2>1
  <2>5. <<>> \in Seq(Values) /\ Ascending(<<>>) /\ Elements(<<>>) = {}
    BY DEF Ascending, Elements
  <2>6. Prints(w[k][left[v]], lo[v], v)
    <3>1. CASE left[v] = NULL
      <4>1. { t \in Linked : lo[v] < t /\ t < v } = {}
        BY <1>2, <3>1 DEF Complete
      <4>2. w[k][left[v]] = <<>>
        BY <1>1, <2>1, <3>1
      <4> QED BY <2>5, <4>1, <4>2 DEF Prints
    <3>2. CASE left[v] # NULL
      <4>1. v - lo[v] - 1 <= k
        BY <2>1, <2>2
      <4> QED BY <2>2, <2>3, <3>2, <4>1
    <3> QED BY <3>1, <3>2
  <2>7. Prints(w[k][right[v]], v, hi[v])
    <3>1. CASE right[v] = NULL
      <4>1. { t \in Linked : v < t /\ t < hi[v] } = {}
        BY <1>2, <3>1 DEF Complete
      <4>2. w[k][right[v]] = <<>>
        BY <1>1, <2>1, <3>1
      <4> QED BY <2>5, <4>1, <4>2 DEF Prints
    <3>2. CASE right[v] # NULL
      <4>1. hi[v] - v - 1 <= k
        BY <2>1, <2>2
      <4> QED BY <2>2, <2>3, <3>2, <4>1
    <3> QED BY <3>1, <3>2
  <2>8. PICK a, b : a = w[k][left[v]] /\ b = w[k][right[v]]
    OBVIOUS
  <2>9. /\ a \in Seq(Values) /\ Ascending(a) /\ b \in Seq(Values) /\ Ascending(b)
        /\ Elements(a) = { t \in Linked : lo[v] < t /\ t < v }
        /\ Elements(b) = { t \in Linked : v < t /\ t < hi[v] }
    BY <2>6, <2>7, <2>8 DEF Prints
  <2>10. /\ a \o <<v>> \o b \in Seq(Values) /\ Ascending(a \o <<v>> \o b)
         /\ Elements(a \o <<v>> \o b) = Elements(a) \cup {v} \cup Elements(b)
    <3>1. (\A x \in Elements(a) : x < v) /\ (\A x \in Elements(b) : v < x)
      BY <2>9
    <3> QED BY <2>1, <2>9, <3>1, Joined
  <2>11. Elements(a) \cup {v} \cup Elements(b) = { t \in Linked : lo[v] < t /\ t < hi[v] }
    <3>1. ASSUME NEW t \in Linked
          PROVE  (lo[v] < t /\ t < hi[v])
                   <=> (lo[v] < t /\ t < v) \/ t = v \/ (v < t /\ t < hi[v])
      <4>1. t \in Int
        BY <1>2
      <4> QED BY <2>1, <2>2, <4>1
    <3> QED BY <2>9, <3>1
  <2> QED BY <2>4, <2>8, <2>10, <2>11 DEF Prints
<1>5. Nat \subseteq Good
  <2> HIDE DEF Good
  <2> QED BY <1>3, <1>4, SetInduction
<1>6. /\ lo[NODE_MIDPOINT] = -1 /\ hi[NODE_MIDPOINT] = NODE_COUNT
      /\ NODE_MIDPOINT \in Linked /\ NODE_MIDPOINT \in Nodes
  BY <1>2 DEF Bounds, BstTyped, Nodes
<1>7. Prints(w[NODE_COUNT][NODE_MIDPOINT], -1, NODE_COUNT)
  BY <1>2, <1>5, <1>6
<1> QED BY <1>1, <1>6, <1>7

(* What the insertion relies on, at hand: numbers and pointers.            *)
LEMMA TreeNumbers ==
  ASSUME BstTyped
  PROVE  /\ NODE_COUNT \in Nat \ {0} /\ Values \subseteq Int /\ NULL \notin Values
         /\ \A v \in Values : 0 <= v /\ v < NODE_COUNT
         /\ Linked \subseteq Values /\ NODE_MIDPOINT \in Linked
<1>1. /\ NODE_COUNT \in Nat \ {0} /\ Values \subseteq Int /\ NULL \notin Values
      /\ \A v \in Values : 0 <= v /\ v < NODE_COUNT
  BY NodeCountAssumption DEF Values, NULL
<1>2. Linked \subseteq Values /\ NODE_MIDPOINT \in Linked
  BY DEF BstTyped, Linked
<1> QED BY <1>1, <1>2

LEMMA TreeInvInit == BstInit => TreeInv
<1> SUFFICES ASSUME BstInit PROVE TreeInv
  OBVIOUS
<1>1. NODE_COUNT \in Nat \ {0} /\ NODE_MIDPOINT \in Values /\ NODE_MIDPOINT \in Int
  BY NodeCountAssumption DEF NODE_MIDPOINT, Values
<1>2. /\ phase = "drawing" /\ table = {NODE_MIDPOINT} /\ Linked = {NODE_MIDPOINT}
      /\ left = [v \in Values |-> NULL] /\ right = [v \in Values |-> NULL]
  BY DEF BstInit, Linked
<1>3. BstTyped
  BY <1>1, <1>2 DEF BstTyped
<1> DEFINE lo == [v \in Values |-> -1]
           hi == [v \in Values |-> NODE_COUNT]
<1>4. /\ lo \in [Values -> Int] /\ hi \in [Values -> Int]
      /\ lo[NODE_MIDPOINT] = -1 /\ hi[NODE_MIDPOINT] = NODE_COUNT
  BY <1>1
<1>5. -1 < NODE_MIDPOINT /\ NODE_MIDPOINT < NODE_COUNT
  BY <1>1 DEF Values
<1> HIDE DEF lo, hi
<1>6. Split(lo, hi) /\ Complete(lo, hi) /\ Nested(lo, hi)
  BY <1>1, <1>2, <1>4, <1>5 DEF Split, Complete, Nested
<1>7. Bounds(lo, hi)
  BY <1>2, <1>4, <1>6 DEF Bounds
<1> QED BY <1>2, <1>3, <1>7 DEF TreeInv

(* The insertion starts at the root.                                       *)
LEMMA TreeInvDraw ==
  ASSUME TreeInv, draw_number
  PROVE  TreeInv'
<1>1. PICK v \in Values \ table : val' = v /\ table' = table \cup {v}
  BY DEF draw_number
<1>2. /\ phase = "drawing" /\ phase' = "inserting" /\ node' = NODE_MIDPOINT
      /\ UNCHANGED <<left, right>>
  BY DEF draw_number
<1>3. Linked' = Linked /\ Linked = table
  BY <1>1, <1>2 DEF Linked
<1>4. BstTyped'
  BY <1>1, <1>2, <1>3 DEF TreeInv, BstTyped
<1>5. PICK lo, hi : Bounds(lo, hi)
  BY <1>2 DEF TreeInv
<1>6. Bounds(lo, hi)'
  <2>1. (Split(lo, hi) /\ Complete(lo, hi) /\ Nested(lo, hi))'
    BY <1>2, <1>3, <1>5 DEF Bounds, Split, Complete, Nested
  <2>2. -1 < v /\ v < NODE_COUNT
    BY <1>1, NodeCountAssumption DEF Values
  <2>3. /\ lo \in [Values -> Int] /\ hi \in [Values -> Int]
        /\ lo[NODE_MIDPOINT] = -1 /\ hi[NODE_MIDPOINT] = NODE_COUNT
    BY <1>5 DEF Bounds
  <2>4. lo[node'] < val' /\ val' < hi[node']
    BY <1>1, <1>2, <2>2, <2>3
  <2> QED BY <2>1, <2>3, <2>4 DEF Bounds
<1> QED BY <1>2, <1>4, <1>6 DEF TreeInv

(* The number stays between the bounds of the node the walk has come to.   *)
LEMMA TreeInvDescend ==
  ASSUME TreeInv, descend
  PROVE  TreeInv'
<1>1. /\ phase = "inserting" /\ UNCHANGED <<phase, left, right, table, val, output>>
      /\ IF node < val THEN right[node] # NULL /\ node' = right[node]
         ELSE left[node] # NULL /\ node' = left[node]
  BY DEF descend, GoesRight
<1>2. PICK lo, hi : Bounds(lo, hi)
  BY <1>1 DEF TreeInv
<1>3. /\ node \in Linked /\ Linked = table \ {val} /\ val \in Int /\ node \in Int
      /\ lo[node] < val /\ val < hi[node] /\ Linked' = Linked
  <2>1. node \in Linked /\ val \in Values /\ Linked \subseteq Values /\ Values \subseteq Int
    BY <1>1, TreeNumbers DEF TreeInv, BstTyped
  <2> QED BY <1>1, <1>2, <2>1 DEF Linked, Bounds
<1>4. node' \in Linked /\ lo[node'] < val /\ val < hi[node']
  <2>1. val # node
    BY <1>3
  <2> QED BY <1>1, <1>2, <1>3, <2>1 DEF Bounds, Split
<1>5. BstTyped'
  BY <1>1, <1>3, <1>4 DEF TreeInv, BstTyped
<1>6. Bounds(lo, hi)'
  <2>1. (Split(lo, hi) /\ Complete(lo, hi) /\ Nested(lo, hi))'
    BY <1>1, <1>2, <1>3 DEF Bounds, Split, Complete, Nested
  <2>2. /\ lo \in [Values -> Int] /\ hi \in [Values -> Int]
        /\ lo[NODE_MIDPOINT] = -1 /\ hi[NODE_MIDPOINT] = NODE_COUNT
    BY <1>2 DEF Bounds
  <2>3. lo[node'] < val' /\ val' < hi[node']
    BY <1>1, <1>4
  <2> QED BY <2>1, <2>2, <2>3 DEF Bounds
<1> QED BY <1>1, <1>5, <1>6 DEF TreeInv

(* A new leaf takes its place between the node it hangs from and the bound *)
(* on its side.  No other node has the new number on a side that is empty: *)
(* its range and that of the node overlap, so one has the other on a side. *)
LEMMA TreeInvAttach ==
  ASSUME TreeInv, attach_left \/ attach_right
  PROVE  TreeInv'
<1>1. /\ phase = "inserting" /\ phase' = "drawing"
      /\ UNCHANGED <<table, val, node, output>>
      /\ \/ /\ ~ (node < val) /\ left[node] = NULL
            /\ left' = [left EXCEPT ![node] = val] /\ right' = right
         \/ /\ node < val /\ right[node] = NULL
            /\ right' = [right EXCEPT ![node] = val] /\ left' = left
  BY DEF attach_left, attach_right, GoesRight
<1>2. PICK lo, hi : Bounds(lo, hi)
  BY <1>1 DEF TreeInv
<1>3. /\ NODE_COUNT \in Nat \ {0} /\ Values \subseteq Int /\ NULL \notin Values
      /\ Linked \subseteq Values /\ node \in Linked /\ val \in Values /\ val \notin Linked
      /\ Linked' = Linked \cup {val} /\ NODE_MIDPOINT \in Linked
      /\ left \in [Values -> Values \cup {NULL}] /\ right \in [Values -> Values \cup {NULL}]
      /\ left[val] = NULL /\ right[val] = NULL /\ val # node /\ node \in Values
  BY <1>1, TreeNumbers DEF TreeInv, BstTyped, Linked
<1>4. /\ lo \in [Values -> Int] /\ hi \in [Values -> Int]
      /\ lo[NODE_MIDPOINT] = -1 /\ hi[NODE_MIDPOINT] = NODE_COUNT
      /\ Split(lo, hi) /\ Complete(lo, hi) /\ Nested(lo, hi)
      /\ lo[node] < val /\ val < hi[node]
  BY <1>1, <1>2 DEF Bounds
<1> DEFINE right_of == node < val
<1>5. PICK low \in Int, high \in Int :
        IF right_of THEN low = node /\ high = hi[node] ELSE low = lo[node] /\ high = node
  BY <1>3, <1>4
<1>6. PICK lo2, hi2 :
        /\ lo2 \in [Values -> Int] /\ hi2 \in [Values -> Int]
        /\ lo2[val] = low /\ hi2[val] = high
        /\ \A v \in Linked : lo2[v] = lo[v] /\ hi2[v] = hi[v]
  <2> DEFINE below == [lo EXCEPT ![val] = low]
             above == [hi EXCEPT ![val] = high]
  <2>1. /\ below \in [Values -> Int] /\ above \in [Values -> Int]
        /\ below[val] = low /\ above[val] = high
        /\ \A v \in Linked : below[v] = lo[v] /\ above[v] = hi[v]
    BY <1>3, <1>4
  <2> HIDE DEF below, above
  <2> QED BY <2>1
<1>7. low < val /\ val < high /\ lo[node] <= low /\ high <= hi[node]
  <2>1. lo[node] < node /\ node < hi[node] /\ lo[node] \in Int /\ hi[node] \in Int
          /\ node \in Int /\ val \in Int
    BY <1>3, <1>4 DEF Split
  <2> QED BY <1>3, <1>4, <1>5, <2>1
<1>8. BstTyped'
  BY <1>1, <1>3 DEF TreeInv, BstTyped
<1>9. Split(lo2, hi2)'
  <2> SUFFICES ASSUME NEW v \in Linked'
               PROVE  /\ lo2[v] < v /\ v < hi2[v]
                      /\ left'[v] # NULL => /\ left'[v] \in Linked' /\ lo2[left'[v]] = lo2[v]
                                            /\ hi2[left'[v]] = v
                      /\ right'[v] # NULL => /\ right'[v] \in Linked' /\ lo2[right'[v]] = v
                                             /\ hi2[right'[v]] = hi2[v]
    BY DEF Split
  <2>1. CASE v = val
    BY <1>1, <1>3, <1>6, <1>7, <2>1
  <2>2. ASSUME v \in Linked
        PROVE  /\ lo2[v] = lo[v] /\ hi2[v] = hi[v] /\ lo2[v] < v /\ v < hi2[v]
               /\ left[v] # NULL => /\ left[v] \in Linked' /\ lo2[left[v]] = lo2[v]
                                    /\ hi2[left[v]] = v
               /\ right[v] # NULL => /\ right[v] \in Linked' /\ lo2[right[v]] = v
                                     /\ hi2[right[v]] = hi2[v]
    <3>1. /\ lo[v] < v /\ v < hi[v]
          /\ left[v] # NULL => left[v] \in Linked /\ lo[left[v]] = lo[v] /\ hi[left[v]] = v
          /\ right[v] # NULL => right[v] \in Linked /\ lo[right[v]] = v /\ hi[right[v]] = hi[v]
      BY <1>4, <2>2 DEF Split
    <3> QED BY <1>3, <1>6, <2>2, <3>1
  <2>3. CASE v \in Linked /\ v # node
    <3>1. left'[v] = left[v] /\ right'[v] = right[v]
      BY <1>1, <1>3, <2>3
    <3> QED BY <2>2, <2>3, <3>1
  <2>4. CASE v = node /\ right_of
    <3>1. left'[v] = left[v] /\ right'[v] = val
      BY <1>1, <1>3, <2>4
    <3> QED BY <1>3, <1>5, <1>6, <2>2, <2>4, <3>1
  <2>5. CASE v = node /\ ~ right_of
    <3>1. right'[v] = right[v] /\ left'[v] = val
      BY <1>1, <1>3, <2>5
    <3> QED BY <1>3, <1>5, <1>6, <2>2, <2>5, <3>1
  <2> QED BY <1>3, <2>1, <2>3, <2>4, <2>5
(* The place where the new leaf hangs was empty.                           *)
<1>10. \A t \in Linked : ~ (low < t /\ t < high)
  BY <1>1, <1>3, <1>4, <1>5 DEF Complete
(* No other node has an empty side around the new number.                  *)
<1>11. ASSUME NEW v \in Linked, v # node
       PROVE  /\ \/ hi[v] <= low \/ high <= lo[v]
                 \/ lo[v] <= low /\ high <= v
                 \/ v <= low /\ high <= hi[v]
              /\ lo[v] < val /\ val < v => left[v] # NULL
              /\ v < val /\ val < hi[v] => right[v] # NULL
  <2>1. /\ lo[v] \in Int /\ hi[v] \in Int /\ v \in Int /\ lo[v] < v /\ v < hi[v]
        /\ lo[node] \in Int /\ hi[node] \in Int /\ node \in Int
        /\ lo[node] < node /\ node < hi[node] /\ val \in Int
    BY <1>3, <1>4, <1>11 DEF Split
  <2>2. \/ hi[v] <= lo[node] \/ hi[node] <= lo[v]
        \/ lo[v] <= lo[node] /\ hi[node] <= v
        \/ v <= lo[node] /\ hi[node] <= hi[v]
        \/ lo[node] <= lo[v] /\ hi[v] <= node
        \/ node <= lo[v] /\ hi[v] <= hi[node]
    BY <1>3, <1>4, <1>11 DEF Nested
  <2>3. ~ (low < v /\ v < high)
    BY <1>10, <1>11
  <2>4. /\ lo[v] < node /\ node < v => left[v] # NULL
        /\ v < node /\ node < hi[v] => right[v] # NULL
    BY <1>3, <1>4, <1>11 DEF Complete
  <2>5. \/ right_of /\ low = node /\ high = hi[node] /\ node < val
        \/ ~ right_of /\ low = lo[node] /\ high = node /\ val < node
    BY <1>3, <1>5, <2>1
  <2>6. \/ hi[v] <= low \/ high <= lo[v]
        \/ lo[v] <= low /\ high <= v
        \/ v <= low /\ high <= hi[v]
    BY <2>1, <2>2, <2>3, <2>5
  <2>7. lo[v] < val /\ val < v => left[v] # NULL
    BY <1>4, <1>7, <2>1, <2>2, <2>3, <2>4, <2>5
  <2>8. v < val /\ val < hi[v] => right[v] # NULL
    BY <1>4, <1>7, <2>1, <2>2, <2>3, <2>4, <2>5
  <2> QED BY <2>6, <2>7, <2>8
<1>12. Complete(lo2, hi2)'
  <2> SUFFICES ASSUME NEW v \in Linked', NEW t \in Linked'
               PROVE  /\ lo2[v] < t /\ t < v => left'[v] # NULL
                      /\ v < t /\ t < hi2[v] => right'[v] # NULL
    BY DEF Complete
  <2>1. \A u \in Linked : (left[u] # NULL => left'[u] # NULL)
                            /\ (right[u] # NULL => right'[u] # NULL)
    BY <1>1, <1>3
  <2>2. CASE v \in Linked /\ t \in Linked
    BY <1>4, <1>6, <2>1, <2>2 DEF Complete
  <2>3. CASE v = val /\ t \in Linked
    BY <1>3, <1>6, <1>7, <1>10, <2>3
  <2>4. CASE v = val /\ t = val
    BY <1>3, <2>4
  <2>5. CASE v \in Linked /\ v # node /\ t = val
    BY <1>6, <1>11, <2>1, <2>5
  <2>6. CASE v = node /\ t = val
    <3>1. CASE right_of
      <4>1. right'[node] = val
        BY <1>1, <1>3, <3>1
      <4>2. ~ (val < node)
        BY <1>3, <3>1
      <4> QED BY <1>3, <2>6, <4>1, <4>2
    <3>2. CASE ~ right_of
      <4>1. left'[node] = val
        BY <1>1, <1>3, <3>2
      <4> QED BY <1>3, <2>6, <3>2, <4>1
    <3> QED BY <3>1, <3>2
  <2> QED BY <1>3, <2>2, <2>3, <2>4, <2>5, <2>6
<1>13. Nested(lo2, hi2)'
  <2> DEFINE Apart(v, t) == \/ v = t \/ hi2[v] <= lo2[t] \/ hi2[t] <= lo2[v]
                            \/ lo2[v] <= lo2[t] /\ hi2[t] <= v
                            \/ v <= lo2[t] /\ hi2[t] <= hi2[v]
                            \/ lo2[t] <= lo2[v] /\ hi2[v] <= t
                            \/ t <= lo2[v] /\ hi2[v] <= hi2[t]
  <2>1. \A v, t \in Linked : Apart(v, t)
    BY <1>4, <1>6 DEF Nested
  <2>2. ASSUME NEW v \in Linked PROVE Apart(v, val) /\ Apart(val, v)
    <3>1. CASE v # node
      BY <1>6, <1>11, <3>1
    <3>2. CASE v = node
      <4>1. /\ lo2[node] = lo[node] /\ hi2[node] = hi[node] /\ lo2[val] = low /\ hi2[val] = high
            /\ lo[node] \in Int /\ hi[node] \in Int /\ node \in Int
        BY <1>3, <1>4, <1>6
      <4> QED BY <1>5, <1>7, <3>2, <4>1
    <3> QED BY <3>1, <3>2
  <2>3. \A v, t \in Linked' : Apart(v, t)
    BY <1>3, <2>1, <2>2
  <2> QED BY <2>3 DEF Nested
<1>14. lo2[NODE_MIDPOINT] = -1 /\ hi2[NODE_MIDPOINT] = NODE_COUNT
  BY <1>3, <1>4, <1>6
<1>15. Bounds(lo2, hi2)'
  BY <1>1, <1>6, <1>9, <1>12, <1>13, <1>14 DEF Bounds
<1> QED BY <1>1, <1>8, <1>15 DEF TreeInv

LEMMA TreeInvEnd ==
  ASSUME TreeInv, print_tree \/ free_tree \/ UNCHANGED bstVars
  PROVE  TreeInv'
<1>1. CASE print_tree
  <2>1. /\ phase = "drawing" /\ table = Values /\ phase' = "printed"
        /\ output' = traverse_inorder(NODE_MIDPOINT)
        /\ UNCHANGED <<left, right, table, val, node>>
    BY <1>1 DEF print_tree
  <2>2. PICK lo, hi : Bounds(lo, hi)
    BY <2>1 DEF TreeInv
  <2>3. Prints(output', -1, NODE_COUNT)
    BY <2>1, <2>2, TraversalPrints DEF TreeInv
  <2>4. Linked = Values /\ \A v \in Values : -1 < v /\ v < NODE_COUNT
    BY <2>1, NodeCountAssumption DEF Linked, Values
  <2>5. Ascending(output') /\ Elements(output') = Values
    BY <2>3, <2>4 DEF Prints
  <2>6. BstTyped'
    BY <2>1 DEF TreeInv, BstTyped, Linked
  <2> QED BY <2>1, <2>5, <2>6 DEF TreeInv
<1>2. CASE free_tree
  <2>1. /\ phase = "printed" /\ phase' = "freed" /\ UNCHANGED <<table, val, node, output>>
        /\ left' = [v \in Values |-> NULL] /\ right' = [v \in Values |-> NULL]
    BY <1>2 DEF free_tree
  <2>2. BstTyped'
    BY <2>1 DEF TreeInv, BstTyped, Linked
  <2> QED BY <2>1, <2>2 DEF TreeInv
<1>3. CASE UNCHANGED bstVars
  BY <1>3 DEF bstVars, TreeInv, BstTyped, Bounds, Split, Complete, Nested, Linked
<1> QED BY <1>1, <1>2, <1>3

(* The tree stays ordered and complete under every order of insertion.     *)
THEOREM TreeInvariance == BstSpec => []TreeInv
<1>1. TreeInv /\ [BstNext]_bstVars => TreeInv'
  BY TreeInvDraw, TreeInvDescend, TreeInvAttach, TreeInvEnd DEF BstNext, BstEnded
<1> QED BY <1>1, TreeInvInit, PTL DEF BstSpec

(* Each traversal shows the numbers inserted so far in ascending order, in *)
(* trees of any size, whatever the order the numbers are drawn in.         *)
THEOREM TraversalIsSorted == BstSpec => []TraversalSorted
<1>1. ASSUME TreeInv, phase = "drawing"
      PROVE  /\ Ascending(traverse_inorder(NODE_MIDPOINT))
             /\ Elements(traverse_inorder(NODE_MIDPOINT)) = table
  <2>1. PICK lo, hi : Bounds(lo, hi)
    BY <1>1 DEF TreeInv
  <2>2. Prints(traverse_inorder(NODE_MIDPOINT), -1, NODE_COUNT)
    BY <1>1, <2>1, TraversalPrints DEF TreeInv
  <2>3. Linked = table /\ \A v \in table : -1 < v /\ v < NODE_COUNT
    BY <1>1, NodeCountAssumption DEF Linked, Values, TreeInv, BstTyped
  <2> QED BY <2>2, <2>3 DEF Prints
<1>2. TreeInv => TraversalSorted
  BY <1>1 DEF TreeInv, TraversalSorted
<1> QED BY <1>2, TreeInvariance, PTL

-----------------------------------------------------------------------------
(* Disks.                                                                  *)

(* The entries of a block start one behind the other, all in the block.    *)
LEMMA OffsetsAscend ==
  ASSUME NEW entries, NonEmpty(entries), Fills(entries), BLOCK_SIZE \in Nat,
         \A i \in DOMAIN entries :
           entries[i].offset \in Nat /\ entries[i].rec_len \in Nat \ {0}
  PROVE  /\ \A i \in DOMAIN entries : entries[i].offset < BLOCK_SIZE
         /\ \A i, j \in DOMAIN entries : entries[i].offset = entries[j].offset => i = j
<1> DEFINE Wrong == { m \in Nat : \E i, j \in DOMAIN entries :
                        i < j /\ m = j - i /\ entries[i].offset >= entries[j].offset }
           Before == { pair \in Nat \X Nat : pair[1] < pair[2] }
<1>1. PICK L \in Nat \ {0} : L = Len(entries) /\ DOMAIN entries = 1 .. L
  BY DEF NonEmpty
<1>2. \A i \in 1 .. L : entries[i].offset \in Nat /\ entries[i].rec_len \in Nat \ {0}
  BY <1>1
<1>3. \A i \in 1 .. L :
        IF i = L THEN entries[i].offset + entries[i].rec_len = BLOCK_SIZE
        ELSE entries[i].offset + entries[i].rec_len = entries[i + 1].offset
  BY <1>1 DEF Fills
<1>4. \A i \in 1 .. L : i # L => entries[i].offset < entries[i + 1].offset
  BY <1>2, <1>3
<1>5. Wrong = {}
  <2> SUFFICES ASSUME Wrong # {} PROVE FALSE
    OBVIOUS
  <2>1. IsWellFoundedOn(Before, Nat)
    BY NatLessThanWellFounded DEF OpToRel
  <2>2. PICK m \in Wrong : \A n \in Wrong : <<n, m>> \notin Before
    <3>1. Wrong \subseteq Nat
      OBVIOUS
    <3> HIDE DEF Wrong, Before
    <3> QED BY <2>1, <3>1, WFMin
  <2>3. PICK i, j \in 1 .. L :
          i < j /\ m = j - i /\ entries[i].offset >= entries[j].offset
    BY <1>1, <2>2
  <2>4. j # i + 1 /\ i # L /\ i + 1 \in 1 .. L /\ i + 1 < j
    <3>1. i # L /\ i + 1 \in 1 .. L
      BY <2>3
    <3>2. entries[i].offset < entries[i + 1].offset
      BY <1>4, <3>1
    <3>3. j # i + 1
      BY <1>2, <2>3, <3>2
    <3> QED BY <2>3, <3>1, <3>3
  <2>5. entries[i + 1].offset >= entries[j].offset
    <3>1. entries[i].offset < entries[i + 1].offset
      BY <1>4, <2>4
    <3> QED BY <1>2, <2>3, <2>4, <3>1
  <2>6. m - 1 \in Wrong /\ <<m - 1, m>> \in Before
    <3>1. m \in Nat /\ m - 1 \in Nat /\ m - 1 < m /\ m - 1 = j - (i + 1)
      BY <2>3, <2>4
    <3>2. <<m - 1, m>> \in Before
      BY <3>1
    <3>3. i + 1 \in DOMAIN entries /\ j \in DOMAIN entries /\ i + 1 < j
      BY <1>1, <2>3, <2>4
    <3> HIDE DEF Before
    <3> QED BY <2>5, <3>1, <3>2, <3>3
  <2> QED BY <2>2, <2>6
<1>6. ASSUME NEW i \in 1 .. L, NEW j \in 1 .. L, i < j
      PROVE  entries[i].offset < entries[j].offset
  <2>1. j - i \in Nat /\ j - i \notin Wrong
    BY <1>5, <1>6
  <2>2. ~ (entries[i].offset >= entries[j].offset)
    BY <1>1, <1>6, <2>1
  <2> QED BY <1>2, <2>2
<1>7. \A i, j \in DOMAIN entries : entries[i].offset = entries[j].offset => i = j
  <2> SUFFICES ASSUME NEW i \in 1 .. L, NEW j \in 1 .. L,
                      entries[i].offset = entries[j].offset
               PROVE  i = j
    BY <1>1
  <2>1. i < j \/ j < i \/ i = j
    OBVIOUS
  <2> QED BY <1>2, <1>6, <2>1
<1>8. \A i \in 1 .. L : entries[i].offset < BLOCK_SIZE
  <2>1. L \in 1 .. L
    BY <1>1
  <2>2. entries[L].offset < BLOCK_SIZE
    BY <1>2, <1>3, <2>1
  <2>3. ASSUME NEW i \in 1 .. L, i # L PROVE entries[i].offset < entries[L].offset
    BY <1>6, <2>1, <2>3
  <2> QED BY <1>2, <2>1, <2>2, <2>3
<1> QED BY <1>1, <1>7, <1>8

(* Whole blocks compare like their numbers.                                *)
LEMMA BlocksCompare ==
  ASSUME NEW a \in Nat, NEW b \in Nat, NEW c \in Nat \ {0}
  PROVE  /\ a * c <= b * c => a <= b
         /\ \A k \in Nat \ {0} : a * c + k <= b * c => a < b
<1>1. ASSUME b < a PROVE b * c < a * c
  <2>1. PICK d \in Nat \ {0} : a = b + d
    <3>1. a - b \in Nat \ {0} /\ a = b + (a - b)
      BY <1>1
    <3> QED BY <3>1
  <2>2. (b + d) * c = b * c + d * c /\ d * c > 0
    OBVIOUS
  <2> QED BY <2>1, <2>2
<1>2. a * c \in Nat /\ b * c \in Nat
  OBVIOUS
<1>3. ASSUME NEW k \in Nat \ {0}, a * c + k <= b * c PROVE a < b
  <2>1. a # b
    BY <1>2, <1>3
  <2>2. ~ (b < a)
    BY <1>1, <1>2, <1>3
  <2> QED BY <2>1, <2>2
<1>4. ASSUME a * c <= b * c PROVE a <= b
  BY <1>1, <1>2, <1>4
<1> QED BY <1>3, <1>4

(* Where an index into the inode table of the first group leads.           *)
LEMMA IndexInBlock ==
  ASSUME NEW n \in Nat, NEW c \in Nat \ {0}
  PROVE  /\ n \div c \in Nat /\ n % c \in 0 .. c - 1
         /\ ((n \div c) * c) + (n % c) = n
BY SMT

LEMMA OpenedDisk ==
  ASSUME disk \in Disks
  PROVE  /\ BLOCK_SIZE \in Nat \ {0} /\ disk.size \in Nat
         /\ SeekLimit \in Nat /\ SeekLimit > 1
         /\ disk.inodes_per_group \in Nat /\ disk.inodes_per_group >= 2
         /\ disk.bg_inode_table \in Nat /\ disk.bg_inode_table > 1
         /\ 1 \in DOMAIN disk.directory
BY DisksAssumption DEF NonEmpty, EXT2_ROOT_INO

(* A directory block of a disk, and its entries.                           *)
LEMMA DirectoryBlock ==
  ASSUME disk \in Disks, NEW b \in DOMAIN disk.directory
  PROVE  /\ disk.directory[b].number \in Nat /\ disk.directory[b].number > 1
         /\ \A c \in DOMAIN disk.directory :
              disk.directory[b].number = disk.directory[c].number => b = c
         /\ NonEmpty(disk.directory[b].entries) /\ Fills(disk.directory[b].entries)
         /\ \A i \in DOMAIN disk.directory[b].entries :
              /\ disk.directory[b].entries[i].offset \in Nat
              /\ disk.directory[b].entries[i].rec_len \in Nat \ {0}
              /\ disk.directory[b].entries[i].inode \in Nat
<1>1. /\ disk.directory[b].number \in Nat
      /\ disk.bg_inode_table * BLOCK_SIZE + disk.inodes_per_group * disk.s_inode_size
           <= disk.directory[b].number * BLOCK_SIZE
      /\ disk.inodes_per_group \in Nat /\ disk.s_inode_size \in Nat
  BY DisksAssumption
<1>2. disk.bg_inode_table \in Nat /\ disk.bg_inode_table > 1 /\ BLOCK_SIZE \in Nat \ {0}
  BY OpenedDisk
<1>3. disk.directory[b].number > 1
  <2>1. PICK n \in Nat, t \in Nat, s \in Nat :
          /\ n = disk.directory[b].number /\ t = disk.bg_inode_table
          /\ s = disk.inodes_per_group * disk.s_inode_size
    BY <1>1, <1>2
  <2>2. t * BLOCK_SIZE + s <= n * BLOCK_SIZE
    BY <1>1, <2>1
  <2>3. t * BLOCK_SIZE \in Nat /\ n * BLOCK_SIZE \in Nat
    BY <1>2
  <2>4. t * BLOCK_SIZE <= n * BLOCK_SIZE
    BY <2>2, <2>3
  <2>5. t <= n
    BY <1>2, <2>4, BlocksCompare
  <2> QED BY <1>2, <2>1, <2>5
<1>4. /\ \A c \in DOMAIN disk.directory :
           disk.directory[b].number = disk.directory[c].number => b = c
      /\ NonEmpty(disk.directory[b].entries) /\ Fills(disk.directory[b].entries)
      /\ \A i \in DOMAIN disk.directory[b].entries :
           /\ disk.directory[b].entries[i].offset \in Nat
           /\ disk.directory[b].entries[i].rec_len \in Nat \ {0}
           /\ disk.directory[b].entries[i].inode \in Nat
  BY DisksAssumption
<1> QED BY <1>1, <1>3, <1>4

(* The entry the buffer shows at an offset is the one that starts there;   *)
(* block 0 has none.                                                       *)
LEMMA EntryAt ==
  ASSUME disk \in Disks, NEW b \in DOMAIN disk.directory,
         NEW k \in DOMAIN disk.directory[b].entries
  PROVE  EntryIn(disk.directory[b].number, disk.directory[b].entries[k].offset)
           = disk.directory[b].entries[k]
<1> DEFINE n == disk.directory[b].number
           E == disk.directory[b].entries
           All == UNION { { disk.directory[i].entries[l] :
                              l \in DOMAIN disk.directory[i].entries } :
                          i \in { m \in DOMAIN disk.directory : disk.directory[m].number = n } }
<1>1. { m \in DOMAIN disk.directory : disk.directory[m].number = n } = {b}
  BY DirectoryBlock
<1>2. All = { E[l] : l \in DOMAIN E }
  BY <1>1
<1>3. \A i, j \in DOMAIN E : E[i].offset = E[j].offset => i = j
  <2>1. /\ NonEmpty(E) /\ Fills(E) /\ BLOCK_SIZE \in Nat
        /\ \A i \in DOMAIN E : E[i].offset \in Nat /\ E[i].rec_len \in Nat \ {0}
    BY DirectoryBlock, OpenedDisk
  <2> HIDE DEF E
  <2> QED BY <2>1, OffsetsAscend
<1>4. EntryIn(n, E[k].offset) = CHOOSE e \in All : e.offset = E[k].offset
  BY DEF EntryIn
<1>5. E[k] \in All
  BY <1>2
<1>6. ASSUME NEW e \in All, e.offset = E[k].offset PROVE e = E[k]
  <2>1. PICK l \in DOMAIN E : e = E[l]
    BY <1>2
  <2> QED BY <1>3, <1>6, <2>1
<1> HIDE DEF All, E, n
<1>7. (CHOOSE e \in All : e.offset = E[k].offset) = E[k]
  BY <1>5, <1>6
<1> QED BY <1>4, <1>7 DEF E, n

LEMMA BlockZero ==
  ASSUME disk \in Disks, NEW offset
  PROVE  EntryIn(0, offset) = Unused
<1>1. \A b \in DOMAIN disk.directory : disk.directory[b].number # 0
  BY DirectoryBlock
<1> QED BY <1>1 DEF EntryIn

(* The inode that is looked up.                                            *)
LEMMA InodeFound ==
  ASSUME disk \in Disks, Covered, superblock = InodeUnits,
         bg_descriptor = disk.bg_inode_table,
         NEW k \in 1 .. disk.inodes_per_group, NEW inode, buffer_get_inode(k, inode)
  PROVE  inode = k
<1>1. PICK n \in Nat, t \in Nat, c \in Nat \ {0}, g \in Nat, z \in Nat :
        /\ n = k - 1 /\ t = disk.bg_inode_table /\ c = BLOCK_SIZE
        /\ g = disk.inodes_per_group /\ z = disk.size
  BY OpenedDisk
<1>2. n < g /\ t * c + g <= z * c
  BY <1>1 DEF Covered
<1>3. PICK d \in Nat, r \in 0 .. c - 1 : d = n \div c /\ r = n % c /\ d * c + r = n
  BY IndexInBlock
<1>4. InodesPerBlock = c
  BY <1>1 DEF InodesPerBlock, InodeUnits
<1>5. (t + d) * c + (g - (n - r)) <= z * c
  <2>1. (t + d) * c = t * c + d * c
    OBVIOUS
  <2>2. t * c \in Nat /\ d * c \in Nat /\ z * c \in Nat
    OBVIOUS
  <2> QED BY <1>2, <1>3, <2>1, <2>2
<1>6. t + d < z
  <2>1. g - (n - r) \in Nat \ {0}
    BY <1>2, <1>3
  <2> QED BY <1>5, <2>1, BlocksCompare
<1>7. buffer' = t + d /\ inode = InodeIn(t + d, r)
  <2>0. t + d < SeekLimit
    BY <1>1, <1>6, OpenedDisk DEF Covered
  <2>1. buffer_read_block(t + d) /\ inode = InodeIn(buffer', r * InodeUnits)
    BY <1>1, <1>3, <1>4 DEF buffer_get_inode
  <2> QED BY <1>1, <1>6, <2>0, <2>1 DEF buffer_read_block, InodeUnits
<1>8. ((t + d) - t) * c + r = n
  <2>1. (t + d) - t = d
    OBVIOUS
  <2> QED BY <1>3, <2>1
<1>9. disk.s_inode_size = 1 /\ t + d >= t /\ n % 1 = 0 /\ n \div 1 = n
  BY DEF Covered, InodeUnits
<1>10. InodeIn(t + d, r) = (IF n < g THEN n + 1 ELSE 0)
  <2> DEFINE behind == ((t + d) - disk.bg_inode_table) * BLOCK_SIZE + r
  <2>1. behind = n
    BY <1>1, <1>8
  <2>2. InodeIn(t + d, r)
          = IF /\ disk.s_inode_size > 0 /\ t + d >= disk.bg_inode_table
               /\ behind < disk.inodes_per_group * disk.s_inode_size
               /\ behind % disk.s_inode_size = 0
            THEN behind \div disk.s_inode_size + 1 ELSE 0
    BY DEF InodeIn
  <2> HIDE DEF behind
  <2>3. g * 1 = g
    OBVIOUS
  <2> QED BY <1>1, <1>9, <2>1, <2>2, <2>3
<1> QED BY <1>1, <1>2, <1>7, <1>10

-----------------------------------------------------------------------------
(* The invariant: what the buffer and the list hold at each place of main. *)

FirstNumber == disk.directory[1].number
Listed      == Len(dir_entry_list)

Walking == reading \in {"entries", "inodes", "done"}

(* main has what it reads first, unless a read has failed.                 *)
HeadersRead ==
  /\ disk \in Disks
  /\ reading \in {"superblock", "bg_descriptor", "root", "populate", "failed"} \/ Walking
  /\ reading \notin {"superblock", "failed"} => superblock = InodeUnits
  /\ reading \notin {"superblock", "bg_descriptor", "failed"} =>
       bg_descriptor = disk.bg_inode_table
  /\ reading = "populate" \/ Walking => root_first_block = FirstNumber
  /\ ~ Walking /\ reading # "failed" => dir_entry_list = <<>>
  /\ reading \notin {"inodes", "done", "failed"} => printed_inodes = <<>>

(* The list is the front of the first block.                               *)
ListIsFront ==
  /\ dir_entry_list \in Seq({ FirstBlock[i] : i \in DOMAIN FirstBlock })
  /\ Listed <= Len(FirstBlock)
  /\ \A i \in DOMAIN dir_entry_list :
       dir_entry_list[i] = FirstBlock[i] /\ FirstBlock[i].inode # 0

(* While it grows, the buffer holds the next entry, at dir_entry_offset;   *)
(* behind the last one it holds block 0.                                   *)
AtNextEntry ==
  reading = "entries" =>
    \/ /\ Listed < Len(FirstBlock) /\ buffer = FirstNumber /\ block_offset = 0
       /\ dir_entry_offset = FirstBlock[Listed + 1].offset
    \/ /\ Listed = Len(FirstBlock) /\ buffer = 0 /\ dir_entry_offset = BLOCK_SIZE

(* It ends at an unused entry or with the block.                           *)
StopsAtUnused ==
  reading \in {"inodes", "done"} /\ Listed < Len(FirstBlock) =>
    FirstBlock[Listed + 1].inode = 0

InodesPrinted ==
  /\ printed_inodes \in Seq(Nat) /\ Len(printed_inodes) <= Listed
  /\ \A i \in DOMAIN printed_inodes :
       dir_entry_list[i].inode \in 1 .. disk.inodes_per_group =>
         printed_inodes[i] = dir_entry_list[i].inode

ListInv ==
  /\ Covered => HeadersRead /\ ListIsFront /\ AtNextEntry /\ StopsAtUnused /\ InodesPrinted
  /\ reading = "start" => /\ disk = [size |-> 0]
                          /\ dir_entry_list = <<>> /\ printed_inodes = <<>>
  /\ reading \in {"start", "exited"} => disk.size = 0

(* The first block has at least one entry.                                 *)
LEMMA FirstEntry ==
  ASSUME disk \in Disks
  PROVE  /\ Len(FirstBlock) \in Nat \ {0} /\ DOMAIN FirstBlock = 1 .. Len(FirstBlock)
         /\ FirstBlock[1].offset = 0 /\ FirstNumber \in Nat /\ FirstNumber > 1
         /\ \A i \in DOMAIN FirstBlock :
              /\ FirstBlock[i].offset \in 0 .. BLOCK_SIZE - 1
              /\ FirstBlock[i].rec_len \in Nat \ {0} /\ FirstBlock[i].inode \in Nat
              /\ FirstBlock[i].offset + FirstBlock[i].rec_len
                   = IF i = Len(FirstBlock) THEN BLOCK_SIZE ELSE FirstBlock[i + 1].offset
              /\ EntryIn(FirstNumber, FirstBlock[i].offset) = FirstBlock[i]
<1>1. 1 \in DOMAIN disk.directory
  BY OpenedDisk
<1>2. /\ NonEmpty(FirstBlock) /\ Fills(FirstBlock) /\ BLOCK_SIZE \in Nat \ {0}
      /\ FirstNumber \in Nat /\ FirstNumber > 1
      /\ \A i \in DOMAIN FirstBlock :
           /\ FirstBlock[i].offset \in Nat
           /\ FirstBlock[i].rec_len \in Nat \ {0} /\ FirstBlock[i].inode \in Nat
  BY <1>1, OpenedDisk, DirectoryBlock DEF FirstBlock, FirstNumber
<1>3. \A i \in DOMAIN FirstBlock : EntryIn(FirstNumber, FirstBlock[i].offset) = FirstBlock[i]
  BY <1>1, EntryAt DEF FirstBlock, FirstNumber
<1>4. \A i \in DOMAIN FirstBlock : FirstBlock[i].offset < BLOCK_SIZE
  BY <1>2, OffsetsAscend
<1> QED BY <1>2, <1>3, <1>4 DEF NonEmpty, Fills

LEMMA ListInvInit == DiskInit => ListInv
<1> SUFFICES ASSUME DiskInit PROVE ListInv
  OBVIOUS
<1>1. disk.size = 0
  BY DEF DiskInit
<1>2. ~ Covered
  BY <1>1 DEF Covered
<1> QED BY <1>1, <1>2 DEF DiskInit, ListInv

LEMMA ListInvOpen ==
  ASSUME ListInv, DiskStart
  PROVE  ListInv'
<1>1. CASE cannot_open
  <2>1. disk' = disk /\ disk.size = 0 /\ reading' = "exited"
    BY <1>1 DEF cannot_open, ListInv, headerVars
  <2>2. ~ Covered'
    BY <2>1 DEF Covered
  <2> QED BY <2>1, <2>2 DEF ListInv
<1>2. ASSUME NEW d \in Disks, buffer_init(d) PROVE ListInv'
  <2>1. /\ disk' \in Disks /\ reading' = "superblock"
        /\ dir_entry_list' = <<>> /\ printed_inodes' = <<>>
    BY <1>2 DEF buffer_init, walkVars, ListInv
  <2>2. HeadersRead'
    BY <2>1 DEF HeadersRead, Walking
  <2>3. ListIsFront'
    <3>1. PICK L \in Nat : L = Len(FirstBlock')
      <4>1. (Len(FirstBlock) \in Nat)'
        BY <2>1, DisksAssumption DEF FirstBlock, NonEmpty
      <4> QED BY <4>1
    <3> QED BY <2>1, <3>1 DEF ListIsFront, Listed
  <2>4. AtNextEntry' /\ StopsAtUnused' /\ InodesPrinted'
    BY <2>1 DEF AtNextEntry, StopsAtUnused, InodesPrinted, Listed
  <2> QED BY <2>1, <2>2, <2>3, <2>4 DEF ListInv
<1> QED BY <1>1, <1>2 DEF DiskStart

(* A step that leaves the disk, the list and the inodes as they are.       *)
LEMMA ListStays ==
  ASSUME ListInv, UNCHANGED <<disk, dir_entry_list, printed_inodes>>,
         reading \notin {"start", "exited"}, reading' \notin {"start", "exited"},
         Covered => HeadersRead' /\ AtNextEntry' /\ StopsAtUnused'
  PROVE  ListInv'
<1>1. Covered' <=> Covered
  BY DEF Covered
<1>2. ASSUME Covered PROVE ListIsFront' /\ InodesPrinted'
  <2>1. FirstBlock' = FirstBlock
    BY DEF FirstBlock
  <2> QED BY <1>2, <2>1 DEF ListInv, ListIsFront, InodesPrinted, Listed
<1> QED BY <1>1, <1>2 DEF ListInv

(* The headers: an image that is covered has both of them.                 *)
LEMMA ListInvHeaders ==
  ASSUME ListInv, init_superblock \/ init_bg_descriptor
  PROVE  ListInv'
<1>1. CASE init_superblock
  <2>1. /\ reading = "superblock" /\ reading' = "bg_descriptor"
        /\ superblock' = IF disk.size > 0 THEN disk.s_inode_size ELSE 0
        /\ UNCHANGED <<disk, dir_entry_list, printed_inodes>>
    BY <1>1 DEF init_superblock, walkVars
  <2>2. ASSUME Covered PROVE HeadersRead' /\ AtNextEntry' /\ StopsAtUnused'
    BY <2>1, <2>2 DEF ListInv, HeadersRead, Walking, Covered, AtNextEntry, StopsAtUnused
  <2> QED BY <2>1, <2>2, ListStays
<1>2. CASE init_bg_descriptor
  <2>1. /\ reading = "bg_descriptor" /\ reading' = "root"
        /\ bg_descriptor' = IF disk.size > 1 THEN disk.bg_inode_table ELSE 0
        /\ UNCHANGED <<disk, superblock, dir_entry_list, printed_inodes>>
    BY <1>2 DEF init_bg_descriptor, walkVars
  <2>2. ASSUME Covered PROVE disk.size > 1
    <3>1. disk \in Disks
      BY <2>2 DEF ListInv, HeadersRead
    <3>2. FirstNumber < disk.size
      BY <2>2, <3>1, OpenedDisk DEF Covered, FirstNumber
    <3> QED BY <3>1, <3>2, FirstEntry, OpenedDisk
  <2>3. ASSUME Covered PROVE HeadersRead' /\ AtNextEntry' /\ StopsAtUnused'
    BY <2>1, <2>2, <2>3 DEF ListInv, HeadersRead, Walking, AtNextEntry, StopsAtUnused
  <2> QED BY <2>1, <2>3, ListStays
<1> QED BY <1>1, <1>2

(* The root inode is found in the buffer before its first block takes the  *)
(* buffer over.                                                            *)
LEMMA ListInvRoot ==
  ASSUME ListInv, read_root_inode \/ divide_by_inode_size \/ begin_populate
  PROVE  ListInv'
<1>1. CASE read_root_inode
  <2>1. PICK inode \in {0} \cup 1 .. disk.inodes_per_group :
          /\ buffer_get_inode(EXT2_ROOT_INO, inode)
          /\ root_first_block' = IF inode = EXT2_ROOT_INO
                                 THEN disk.directory[1].number ELSE 0
    BY <1>1 DEF read_root_inode
  <2>2. /\ reading = "root" /\ reading' = "populate"
        /\ UNCHANGED <<disk, superblock, bg_descriptor, dir_entry_list, printed_inodes>>
    BY <1>1 DEF read_root_inode, walkVars, headerVars
  <2>3. ASSUME Covered PROVE HeadersRead' /\ AtNextEntry' /\ StopsAtUnused'
    <3>1. HeadersRead
      BY <2>3 DEF ListInv
    <3>2. disk \in Disks /\ superblock = InodeUnits /\ bg_descriptor = disk.bg_inode_table
      BY <2>2, <3>1 DEF HeadersRead
    <3>3. EXT2_ROOT_INO \in 1 .. disk.inodes_per_group
      BY <3>2, OpenedDisk DEF EXT2_ROOT_INO
    <3>4. inode = EXT2_ROOT_INO
      BY <2>1, <2>3, <3>2, <3>3, InodeFound
    <3> QED BY <2>1, <2>2, <3>1, <3>4
            DEF HeadersRead, Walking, FirstNumber, AtNextEntry, StopsAtUnused
  <2> QED BY <2>2, <2>3, ListStays
<1>2. CASE divide_by_inode_size
  <2>1. /\ reading = "root" /\ superblock = 0 /\ reading' = "sigfpe"
        /\ UNCHANGED <<disk, dir_entry_list, printed_inodes>>
    BY <1>2 DEF divide_by_inode_size, walkVars, headerVars
  <2>2. ~ Covered
    BY <2>1 DEF ListInv, HeadersRead, InodeUnits
  <2> QED BY <2>1, <2>2, ListStays
<1>3. CASE begin_populate
  <2>1. /\ reading = "populate" /\ reading' = "entries"
        /\ block_offset' = 0 /\ dir_entry_offset' = 0 /\ buffer_read_block(root_first_block)
        /\ UNCHANGED <<disk, superblock, bg_descriptor, root_first_block,
                       dir_entry_list, printed_inodes>>
    BY <1>3 DEF begin_populate, headerVars
  <2>2. ASSUME Covered PROVE HeadersRead' /\ AtNextEntry' /\ StopsAtUnused'
    <3>1. HeadersRead
      BY <2>2 DEF ListInv
    <3>2. disk \in Disks /\ root_first_block = FirstNumber /\ dir_entry_list = <<>>
      BY <2>1, <3>1 DEF HeadersRead, Walking
    <3>3. buffer' = FirstNumber
      <4>1. FirstNumber < disk.size /\ disk.size <= SeekLimit
        BY <2>2, <3>2, OpenedDisk DEF Covered, FirstNumber
      <4>2. FirstNumber < SeekLimit
        BY <3>2, <4>1, OpenedDisk, FirstEntry
      <4> QED BY <2>1, <3>2, <4>1, <4>2 DEF buffer_read_block
    <3>4. AtNextEntry'
      <4>1. FirstBlock' = FirstBlock /\ FirstNumber' = FirstNumber /\ Listed' = 0
        BY <2>1, <3>2 DEF FirstBlock, FirstNumber, Listed
      <4>2. Len(FirstBlock) > 0 /\ FirstBlock[1].offset = 0
        BY <3>2, FirstEntry
      <4> QED BY <2>1, <3>3, <4>1, <4>2 DEF AtNextEntry
    <3> QED BY <2>1, <3>1, <3>4 DEF HeadersRead, Walking, FirstNumber, StopsAtUnused
  <2> QED BY <2>1, <2>2, ListStays
<1> QED BY <1>1, <1>2, <1>3

(* What the loop of populate_dir_entry_list looks at.                      *)
LEMMA NextEntryRead ==
  ASSUME ListInv, Covered, reading = "entries"
  PROVE  /\ Listed < Len(FirstBlock) => DirEntry = FirstBlock[Listed + 1]
         /\ Listed \in Nat /\ Len(FirstBlock) \in Nat
         /\ DirEntry.inode # 0 =>
              /\ Listed < Len(FirstBlock) /\ block_offset = 0
              /\ dir_entry_offset = FirstBlock[Listed + 1].offset
<1>1. disk \in Disks /\ ListIsFront /\ AtNextEntry
  BY DEF ListInv, HeadersRead
<1>2. Listed \in Nat /\ Len(FirstBlock) \in Nat /\ BLOCK_SIZE \in Nat \ {0}
  BY <1>1, FirstEntry, OpenedDisk DEF ListIsFront, Listed
<1>3. CASE /\ Listed < Len(FirstBlock) /\ buffer = FirstNumber /\ block_offset = 0
           /\ dir_entry_offset = FirstBlock[Listed + 1].offset
  <2>1. Listed + 1 \in DOMAIN FirstBlock
    BY <1>1, <1>2, <1>3, FirstEntry
  <2>2. dir_entry_offset \in 0 .. BLOCK_SIZE - 1
    BY <1>1, <1>3, <2>1, FirstEntry
  <2>3. dir_entry_offset % BLOCK_SIZE = dir_entry_offset
    BY <1>2, <2>2
  <2>4. DirEntry = FirstBlock[Listed + 1]
    BY <1>1, <1>3, <2>1, <2>3, FirstEntry DEF DirEntry
  <2> QED BY <1>2, <1>3, <2>4
<1>4. CASE Listed = Len(FirstBlock) /\ buffer = 0 /\ dir_entry_offset = BLOCK_SIZE
  <2>1. DirEntry = Unused
    BY <1>1, <1>4, BlockZero DEF DirEntry
  <2>2. DirEntry.inode = 0
    BY <2>1 DEF Unused
  <2> QED BY <1>2, <1>4, <2>2
<1> QED BY <1>1, <1>3, <1>4 DEF AtNextEntry

(* One entry more; behind the last one the buffer turns to block 0.        *)
LEMMA ListInvPopulate ==
  ASSUME ListInv, populate_dir_entry_list
  PROVE  ListInv'
<1>1. /\ reading = "entries" /\ reading' = "entries" /\ DirEntry.inode # 0
      /\ dir_entry_list' = Append(dir_entry_list, DirEntry)
      /\ dir_entry_offset' = dir_entry_offset + DirEntry.rec_len
      /\ IF dir_entry_offset' % BLOCK_SIZE = 0
         THEN buffer_read_block(block_offset) /\ block_offset' = block_offset + 1
         ELSE UNCHANGED <<buffer, block_offset>>
      /\ UNCHANGED <<disk, superblock, bg_descriptor, root_first_block, printed_inodes>>
  BY DEF populate_dir_entry_list, append_dir_entry_list, headerVars
<1>2. Covered' <=> Covered
  BY <1>1 DEF Covered
<1>3. ASSUME Covered
      PROVE  (HeadersRead /\ ListIsFront /\ AtNextEntry /\ StopsAtUnused /\ InodesPrinted)'
  <2>1. HeadersRead /\ ListIsFront /\ disk \in Disks /\ printed_inodes = <<>>
    BY <1>1, <1>3 DEF ListInv, HeadersRead
  <2>2. PICK n \in Nat, L \in Nat : n = Listed /\ L = Len(FirstBlock)
    BY <1>1, <1>3, NextEntryRead
  <2>3. /\ n < L /\ block_offset = 0 /\ dir_entry_offset = FirstBlock[n + 1].offset
        /\ DirEntry = FirstBlock[n + 1]
    BY <1>1, <1>3, <2>2, NextEntryRead
  <2>4. n + 1 \in DOMAIN FirstBlock /\ DOMAIN FirstBlock = 1 .. L
    BY <2>1, <2>2, <2>3, FirstEntry
  <2>5. FirstBlock' = FirstBlock /\ FirstNumber' = FirstNumber
    BY <1>1 DEF FirstBlock, FirstNumber
  <2>6. /\ Len(dir_entry_list') = n + 1 /\ DOMAIN dir_entry_list' = 1 .. n + 1
        /\ dir_entry_list' \in Seq({ FirstBlock[i] : i \in DOMAIN FirstBlock })
        /\ \A i \in 1 .. n : dir_entry_list'[i] = dir_entry_list[i]
        /\ dir_entry_list'[n + 1] = DirEntry /\ DOMAIN dir_entry_list = 1 .. n
    <3>1. PICK E : E = { FirstBlock[i] : i \in DOMAIN FirstBlock }
      OBVIOUS
    <3>2. dir_entry_list \in Seq(E) /\ DirEntry \in E /\ Len(dir_entry_list) = n
      BY <2>1, <2>2, <2>3, <2>4, <3>1 DEF ListIsFront, Listed
    <3> QED BY <1>1, <3>1, <3>2, AppendProperties
  <2>7. HeadersRead'
    BY <1>1, <2>1 DEF HeadersRead, Walking, FirstNumber
  <2>8. ListIsFront'
    <3>1. \A i \in DOMAIN dir_entry_list' :
            dir_entry_list'[i] = FirstBlock[i] /\ FirstBlock[i].inode # 0
      BY <1>1, <2>1, <2>3, <2>6 DEF ListIsFront
    <3> QED BY <2>2, <2>3, <2>5, <2>6, <3>1 DEF ListIsFront, Listed
  <2>9. AtNextEntry'
    <3>0. /\ BLOCK_SIZE \in Nat \ {0}
          /\ \A i \in DOMAIN FirstBlock :
               /\ FirstBlock[i].offset \in 0 .. BLOCK_SIZE - 1
               /\ FirstBlock[i].rec_len \in Nat \ {0}
               /\ FirstBlock[i].offset + FirstBlock[i].rec_len
                    = IF i = L THEN BLOCK_SIZE ELSE FirstBlock[i + 1].offset
      BY <2>1, <2>2, FirstEntry, OpenedDisk
    <3>1. dir_entry_offset' = IF n + 1 = L THEN BLOCK_SIZE ELSE FirstBlock[n + 2].offset
      <4>1. FirstBlock[n + 1].offset + FirstBlock[n + 1].rec_len
              = IF n + 1 = L THEN BLOCK_SIZE ELSE FirstBlock[(n + 1) + 1].offset
        BY <2>4, <3>0
      <4>2. (n + 1) + 1 = n + 2
        OBVIOUS
      <4> QED BY <1>1, <2>3, <4>1, <4>2
    <3>2. CASE n + 1 = L
      <4>1. dir_entry_offset' % BLOCK_SIZE = 0
        BY <3>0, <3>1, <3>2
      <4>2. buffer_read_block(0)
        BY <1>1, <2>3, <4>1
      <4>3. buffer' = 0
        <5>1. 0 < disk.size /\ 0 < SeekLimit
          BY <1>3, <2>1, OpenedDisk DEF Covered
        <5> QED BY <4>2, <5>1 DEF buffer_read_block
      <4> QED BY <2>2, <2>5, <2>6, <3>1, <3>2, <4>3 DEF AtNextEntry, Listed
    <3>3. CASE n + 1 # L
      <4>1. n + 2 \in DOMAIN FirstBlock /\ n + 1 < L
        BY <2>3, <2>4, <3>3
      <4>2. FirstBlock[n + 1].offset \in Nat /\ FirstBlock[n + 1].rec_len \in Nat \ {0}
              /\ FirstBlock[n + 2].offset \in 0 .. BLOCK_SIZE - 1
        BY <2>4, <3>0, <4>1
      <4>3. dir_entry_offset' = FirstBlock[n + 2].offset /\ dir_entry_offset' > 0
        BY <1>1, <2>3, <3>1, <3>3, <4>2
      <4>4. dir_entry_offset' % BLOCK_SIZE # 0
        BY <3>0, <4>2, <4>3
      <4>5. buffer' = buffer /\ block_offset' = 0
        BY <1>1, <2>3, <4>4
      <4>6. buffer = FirstNumber
        BY <1>1, <1>3, <2>2, <2>3 DEF ListInv, AtNextEntry
      <4>7. Listed' = n + 1 /\ n + 2 = (n + 1) + 1
        BY <2>6 DEF Listed
      <4> QED BY <2>2, <2>5, <4>1, <4>3, <4>5, <4>6, <4>7 DEF AtNextEntry
    <3> QED BY <3>2, <3>3
  <2>10. StopsAtUnused' /\ InodesPrinted'
    BY <1>1, <2>1, <2>6 DEF StopsAtUnused, InodesPrinted, Listed
  <2> QED BY <2>7, <2>8, <2>9, <2>10
<1> QED BY <1>1, <1>2, <1>3 DEF ListInv

LEMMA ListInvEnd ==
  ASSUME ListInv, end_populate \/ free_all \/ read_fails \/ UNCHANGED diskVars
  PROVE  ListInv'
<1>1. CASE end_populate
  <2>1. /\ reading = "entries" /\ DirEntry.inode = 0 /\ reading' = "inodes"
        /\ UNCHANGED <<disk, superblock, bg_descriptor, root_first_block,
                       dir_entry_list, printed_inodes>>
    BY <1>1 DEF end_populate, headerVars, walkVars
  <2>2. ASSUME Covered PROVE HeadersRead' /\ AtNextEntry' /\ StopsAtUnused'
    <3>1. HeadersRead' /\ AtNextEntry'
      BY <2>1, <2>2 DEF ListInv, HeadersRead, Walking, FirstNumber, AtNextEntry
    <3>2. Listed < Len(FirstBlock) => FirstBlock[Listed + 1].inode = 0
      BY <2>1, <2>2, NextEntryRead
    <3>3. FirstBlock' = FirstBlock /\ Listed' = Listed
      BY <2>1 DEF FirstBlock, Listed
    <3> QED BY <3>1, <3>2, <3>3 DEF StopsAtUnused
  <2> QED BY <2>1, <2>2, ListStays
<1>2. CASE free_all
  <2>1. /\ reading = "inodes" /\ reading' = "done"
        /\ UNCHANGED <<disk, superblock, bg_descriptor, root_first_block,
                       dir_entry_list, printed_inodes>>
    BY <1>2 DEF free_all, headerVars, walkVars
  <2>2. FirstBlock' = FirstBlock /\ Listed' = Listed
    BY <2>1 DEF FirstBlock, Listed
  <2>3. ASSUME Covered PROVE HeadersRead' /\ AtNextEntry' /\ StopsAtUnused'
    BY <2>1, <2>2, <2>3
       DEF ListInv, HeadersRead, Walking, FirstNumber, AtNextEntry, StopsAtUnused
  <2> QED BY <2>1, <2>3, ListStays
<1>3. CASE UNCHANGED diskVars
  BY <1>3 DEF ListInv, Covered, HeadersRead, Walking, FirstNumber, ListIsFront, Listed,
              AtNextEntry, StopsAtUnused, InodesPrinted, FirstBlock, diskVars,
              headerVars, walkVars
<1>4. CASE read_fails
  <2>1. /\ reading \notin {"start", "exited"} /\ reading' = "failed"
        /\ UNCHANGED <<disk, dir_entry_list, printed_inodes>>
    BY <1>4 DEF read_fails, Reads, headerVars, walkVars
  <2>2. ASSUME Covered PROVE HeadersRead' /\ AtNextEntry' /\ StopsAtUnused'
    BY <2>1, <2>2 DEF ListInv, HeadersRead, Walking, AtNextEntry, StopsAtUnused
  <2> QED BY <2>1, <2>2, ListStays
<1> QED BY <1>1, <1>2, <1>3, <1>4

(* The inode of an entry of the first group is found, whatever the buffer  *)
(* held before.                                                            *)
LEMMA ListInvPrint ==
  ASSUME ListInv, print_root_directory_inodes
  PROVE  ListInv'
<1>1. PICK n : n = Len(printed_inodes)
  OBVIOUS
<1>2. PICK inode \in {0} \cup 1 .. disk.inodes_per_group :
        /\ buffer_get_inode(dir_entry_list[n + 1].inode, inode)
        /\ printed_inodes' = Append(printed_inodes, inode)
  BY <1>1 DEF print_root_directory_inodes
<1>3. /\ reading = "inodes" /\ n + 1 \in DOMAIN dir_entry_list
      /\ UNCHANGED <<reading, disk, superblock, bg_descriptor, root_first_block,
                     dir_entry_list>>
  BY <1>1 DEF print_root_directory_inodes, headerVars, walkVars
<1>4. Covered' <=> Covered
  BY <1>3 DEF Covered
<1>5. ASSUME Covered
      PROVE  (HeadersRead /\ ListIsFront /\ AtNextEntry /\ StopsAtUnused /\ InodesPrinted)'
  <2>1. FirstBlock' = FirstBlock /\ Listed' = Listed
    BY <1>3 DEF FirstBlock, Listed
  <2>2. (HeadersRead /\ ListIsFront /\ AtNextEntry /\ StopsAtUnused)'
    BY <1>3, <1>5, <2>1 DEF ListInv, HeadersRead, Walking, FirstNumber, ListIsFront,
                            AtNextEntry, StopsAtUnused
  <2>3. disk \in Disks /\ superblock = InodeUnits /\ bg_descriptor = disk.bg_inode_table
    BY <1>3, <1>5 DEF ListInv, HeadersRead
  <2>4. dir_entry_list[n + 1].inode \in 1 .. disk.inodes_per_group =>
          inode = dir_entry_list[n + 1].inode
    BY <1>2, <1>5, <2>3, InodeFound
  <2>5. /\ printed_inodes \in Seq(Nat) /\ inode \in Nat /\ n \in Nat
        /\ DOMAIN dir_entry_list = 1 .. Listed /\ Listed \in Nat
    BY <1>1, <1>2, <1>5, <2>3, OpenedDisk DEF ListInv, InodesPrinted, ListIsFront, Listed
  <2>6. /\ Len(printed_inodes') = n + 1 /\ DOMAIN printed_inodes' = 1 .. n + 1
        /\ printed_inodes' \in Seq(Nat) /\ printed_inodes'[n + 1] = inode
        /\ \A i \in 1 .. n : printed_inodes'[i] = printed_inodes[i]
        /\ DOMAIN printed_inodes = 1 .. n
    BY <1>1, <1>2, <2>5, AppendProperties
  <2>7. \A i \in DOMAIN printed_inodes' :
          dir_entry_list[i].inode \in 1 .. disk.inodes_per_group =>
            printed_inodes'[i] = dir_entry_list[i].inode
    BY <1>5, <2>4, <2>5, <2>6 DEF ListInv, InodesPrinted
  <2>8. n + 1 <= Listed
    BY <1>3, <2>5
  <2> QED BY <1>3, <2>1, <2>2, <2>6, <2>7, <2>8 DEF InodesPrinted
<1> QED BY <1>3, <1>4, <1>5 DEF ListInv

-----------------------------------------------------------------------------
(* The invariant holds for every image: what the buffer and the list hold  *)
(* at each place of main, where the image is covered.                      *)
THEOREM ListingInvariance == DiskSpec => []ListInv
<1>1. ListInv /\ [DiskNext]_diskVars => ListInv'
  BY ListInvOpen, ListInvHeaders, ListInvRoot, ListInvPopulate, ListInvEnd, ListInvPrint
     DEF DiskNext, DiskEnded
<1> QED BY <1>1, ListInvInit, PTL DEF DiskSpec

(* The listing is the front of the first block of the root directory, in   *)
(* order, each entry once, up to the first unused one, for directories of  *)
(* any size and entries of any length in an image of up to 2 GiB.          *)
THEOREM ListsTheDirectory == DiskSpec => []ListsDirectory
<1>1. ListInv => ListsDirectory
  BY DEF ListInv, ListIsFront, StopsAtUnused, Listed, ListsDirectory
<1> QED BY <1>1, ListingInvariance, PTL

(* The inode printed for an entry is the one it names, if it is one of the *)
(* first group, wherever the table lies and however many inodes it has.    *)
THEOREM InodesAreThoseNamed == DiskSpec => []InodesMatch
<1>1. ListInv => InodesMatch
  BY DEF ListInv, InodesPrinted, InodesMatch
<1> QED BY <1>1, ListingInvariance, PTL
=============================================================================
