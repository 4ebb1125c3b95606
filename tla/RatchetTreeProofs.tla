-------------------------- MODULE RatchetTreeProofs --------------------------
(***************************************************************************)
(* Proofs about RatchetTree, for trees of every height, every limit on the *)
(* members and on the changes of a Commit.                                 *)
(*                                                                         *)
(* First the arithmetic: that 2^n is a number and doubles with n (by       *)
(* counting the subsets of 1 .. n), and that subtrees are disjoint or      *)
(* nested.  Then resolutions, by induction over the levels of the tree:    *)
(* what is in them, and that every member below a node holds exactly one   *)
(* key of its resolution (HeldExists, HeldOnce).                           *)
(*                                                                         *)
(* HoldersExact is not inductive.  That a member finds one key needs the   *)
(* unmerged leaves of a parent to be members below it; that merge_commit   *)
(* keeps all keys needs both children of a parent to be inhabited (else    *)
(* it is not on its holders' filtered paths); that blanked nodes never     *)
(* come back when a tree is trimmed and grows again needs the tree that is *)
(* stored to have none beyond its size.  These are Good and Sound, and     *)
(* TreeInv.                                                                *)
(*                                                                         *)
(* The external builder leaves Sound for a moment: it trims, grows again,  *)
(* and may find a stale root.  That root is on the author's path, which    *)
(* replaces it (GoodOff, ReplacingIs).                                     *)
(***************************************************************************)
EXTENDS RatchetTree, FiniteSetTheorems, WellFoundedInduction, TLAPS

-----------------------------------------------------------------------------
(* Natural numbers *)

LEMMA LeastNumber ==
    ASSUME NEW T \in SUBSET Nat, T # {}
    PROVE  \E x \in T : \A y \in T : x <= y
<1>1. PICK x \in T : \A y \in T : ~(<<y, x>> \in OpToRel(<, Nat))
    BY NatLessThanWellFounded, WFMin
<1>2. \A y \in T : ~(y < x)
    BY <1>1 DEF OpToRel
<1> QED
    BY <1>2

\* Induction over a set of numbers.
LEMMA Induction ==
    ASSUME NEW S, 0 \in S, \A n \in Nat : n \in S => n + 1 \in S
    PROVE  Nat \subseteq S
<1> DEFINE T == Nat \ S
<1> SUFFICES ASSUME T # {} PROVE FALSE
    OBVIOUS
<1>1. PICK x \in T : \A y \in T : x <= y
    BY LeastNumber
<1>2. x # 0 /\ x \in Nat
    OBVIOUS
<1>3. x - 1 \in Nat /\ x - 1 \notin T
    BY <1>1, <1>2
<1>4. x - 1 + 1 \in S
    BY <1>3
<1> QED
    BY <1>2, <1>4

\* A set of n elements has 2^n subsets: so 2^n is a number ...
LEMMA PowType ==
    ASSUME NEW n \in Nat
    PROVE  2 ^ n \in Nat /\ 2 ^ n >= 1
<1>1. IsFiniteSet(1 .. n) /\ Cardinality(1 .. n) = n
    BY FS_Interval
<1>2. IsFiniteSet(SUBSET (1 .. n)) /\ Cardinality(SUBSET (1 .. n)) = 2 ^ n
    BY <1>1, FS_SUBSET
<1>3. Cardinality(SUBSET (1 .. n)) # 0
    BY <1>2, FS_EmptySet
<1> QED
    BY <1>2, <1>3, FS_CardinalityType

\* ... and doubles with n, as each subset may also have the element n + 1.
LEMMA PowNext ==
    ASSUME NEW n \in Nat
    PROVE  2 ^ (n + 1) = 2 * 2 ^ n
<1> DEFINE A == SUBSET (1 .. n)
           B == {S \in SUBSET (1 .. n + 1) : n + 1 \in S}
           f == [S \in A |-> S \cup {n + 1}]
<1>1. IsFiniteSet(1 .. n) /\ Cardinality(1 .. n) = n
    BY FS_Interval
<1>2. IsFiniteSet(1 .. n + 1) /\ Cardinality(1 .. n + 1) = n + 1
    BY FS_Interval
<1>3. IsFiniteSet(A) /\ Cardinality(A) = 2 ^ n
    BY <1>1, FS_SUBSET
<1>4. Cardinality(SUBSET (1 .. n + 1)) = 2 ^ (n + 1)
    BY <1>2, FS_SUBSET
<1>5. f \in Bijection(A, B)
  <2>1. f \in [A -> B]
    <3> SUFFICES ASSUME NEW S \in A PROVE S \cup {n + 1} \in B
        OBVIOUS
    <3>1. 1 .. n \subseteq 1 .. n + 1 /\ n + 1 \in 1 .. n + 1
        OBVIOUS
    <3> QED
        BY <3>1
  <2>2. ASSUME NEW S \in A, NEW T \in A, f[S] = f[T] PROVE S = T
    <3>1. n + 1 \notin 1 .. n
        OBVIOUS
    <3>2. S \cup {n + 1} = T \cup {n + 1}
        BY <2>2
    <3> QED
        BY <3>1, <3>2
  <2>3. ASSUME NEW T \in B PROVE \E S \in A : f[S] = T
    <3>1. 1 .. n + 1 = (1 .. n) \cup {n + 1}
        OBVIOUS
    <3>2. T \ {n + 1} \in A
        BY <3>1
    <3>3. (T \ {n + 1}) \cup {n + 1} = T
        OBVIOUS
    <3> QED
        BY <3>2, <3>3
  <2>4. f \in Injection(A, B)
    BY <2>1, <2>2, Zenon DEF Injection, IsInjective
  <2> QED
    BY <2>1, <2>3, <2>4 DEF Bijection, Surjection
<1>6. IsFiniteSet(B) /\ Cardinality(B) = 2 ^ n
    BY <1>3, <1>5, FS_Bijection DEF ExistsBijection
<1>7. SUBSET (1 .. n + 1) = A \cup B /\ A \cap B = {}
  <2>1. 1 .. n + 1 = (1 .. n) \cup {n + 1} /\ n + 1 \notin 1 .. n
    OBVIOUS
  <2> QED
    BY <2>1
<1>8. Cardinality(A \cup B) = 2 ^ n + 2 ^ n - Cardinality({})
  <2> HIDE DEF A, B
  <2> QED
    BY <1>3, <1>6, <1>7, FS_Union
<1>9. 2 ^ (n + 1) = 2 ^ n + 2 ^ n - 0
    BY <1>4, <1>7, <1>8, FS_EmptySet
<1> QED
    BY <1>9, PowType

LEMMA PowZero == 2 ^ 0 = 1
  BY SMT

\* A larger power is a multiple of a smaller one.
LEMMA PowMultiple ==
    ASSUME NEW a \in Nat, NEW b \in Nat, a <= b
    PROVE  \E c \in Nat : c >= 1 /\ 2 ^ b = c * 2 ^ a
<1> DEFINE S == {k \in Nat : \E c \in Nat : c >= 1 /\ 2 ^ (a + k) = c * 2 ^ a}
<1>1. 0 \in S
  <2>1. 1 \in Nat /\ 1 >= 1 /\ 2 ^ (a + 0) = 1 * 2 ^ a
    BY PowType
  <2> QED
    BY <2>1
<1>2. ASSUME NEW k \in Nat, k \in S PROVE k + 1 \in S
  <2>1. PICK c \in Nat : c >= 1 /\ 2 ^ (a + k) = c * 2 ^ a
    BY <1>2
  <2>2. 2 ^ (a + k + 1) = 2 * 2 ^ (a + k)
    BY PowNext
  <2>3. a + k + 1 = a + (k + 1)
    OBVIOUS
  <2>4. 2 ^ a \in Nat
    BY PowType
  <2>5. 2 * (c * 2 ^ a) = (2 * c) * 2 ^ a
    BY <2>4
  <2>6. 2 ^ (a + (k + 1)) = (2 * c) * 2 ^ a
    BY <2>1, <2>2, <2>3, <2>5
  <2>7. PICK e \in Nat : e = 2 * c /\ e >= 1
    BY <2>1
  <2>8. 2 ^ (a + (k + 1)) = e * 2 ^ a
    BY <2>6, <2>7
  <2>9. \E x \in Nat : x >= 1 /\ 2 ^ (a + (k + 1)) = x * 2 ^ a
    BY <2>7, <2>8, Zenon
  <2> QED
    BY <2>9
<1>3. Nat \subseteq S
  <2> HIDE DEF S
  <2> QED
    BY <1>1, <1>2, Induction
<1>4. b - a \in Nat /\ a + (b - a) = b
    OBVIOUS
<1> QED
    BY <1>3, <1>4

LEMMA PowMono ==
    ASSUME NEW a \in Nat, NEW b \in Nat
    PROVE  /\ a <= b => 2 ^ a <= 2 ^ b
           /\ a < b => 2 * 2 ^ a <= 2 ^ b
           /\ 2 ^ a = 2 ^ b => a = b
<1>0. \A m, k \in Nat : m <= k => 2 ^ m <= 2 ^ k
  <2> TAKE m, k \in Nat
  <2> HAVE m <= k
  <2>1. PICK c \in Nat : c >= 1 /\ 2 ^ k = c * 2 ^ m
    BY PowMultiple
  <2>2. 2 ^ m \in Nat
    BY PowType
  <2> QED
    BY <2>1, <2>2
<1>1. \A m, k \in Nat : m < k => 2 * 2 ^ m <= 2 ^ k
  <2> TAKE m, k \in Nat
  <2> HAVE m < k
  <2>1. m + 1 \in Nat /\ m + 1 <= k
    OBVIOUS
  <2> QED
    BY <1>0, <2>1, PowNext
<1>2. 2 ^ a \in Nat /\ 2 ^ b \in Nat /\ 2 ^ a >= 1 /\ 2 ^ b >= 1
    BY PowType
<1>3. ~(a < b /\ 2 ^ a = 2 ^ b) /\ ~(b < a /\ 2 ^ a = 2 ^ b)
    BY <1>1, <1>2
<1> QED
    BY <1>0, <1>1, <1>3

LEMMA DivFacts ==
    ASSUME NEW i \in Nat, NEW p \in Nat, p >= 1
    PROVE  /\ i \div p \in Nat
           /\ (i \div p) * p <= i /\ i < (i \div p + 1) * p
           /\ \A j \in Nat : j * p <= i /\ i < (j + 1) * p => i \div p = j
  OBVIOUS

-----------------------------------------------------------------------------
(* The geometry of the tree *)

\* The leaves under a node are those of which the node is the ancestor at its level.
LEMMA UnderIs ==
    ASSUME NEW l \in Nat, NEW j \in Nat
    PROVE  \A i : i \in Under(<<l, j>>) <=> i \in Nat /\ i \div 2 ^ l = j
<1> DEFINE p == 2 ^ l
<1>1. p \in Nat /\ p >= 1
    BY PowType
<1>2. Under(<<l, j>>) = (j * p) .. ((j + 1) * p - 1)
    BY DEF Under
<1> HIDE DEF p
<1>3. PICK a \in Nat, b \in Nat : a = j * p /\ b = (j + 1) * p
    BY <1>1
<1> TAKE i
<1>4. ASSUME i \in a .. b - 1 PROVE i \in Nat /\ i \div p = j
  <2>1. i \in Nat /\ a <= i /\ i < b
    BY <1>4
  <2> QED
    BY <1>1, <1>3, <2>1, DivFacts
<1>5. ASSUME i \in Nat, i \div p = j PROVE i \in a .. b - 1
  <2>1. a <= i /\ i < b
    BY <1>1, <1>3, <1>5, DivFacts
  <2> QED
    BY <1>5, <2>1
<1>6. Under(<<l, j>>) = a .. b - 1
    BY <1>2, <1>3
<1> QED
    BY <1>4, <1>5, <1>6 DEF p

LEMMA DivNext ==
    ASSUME NEW i \in Nat, NEW l \in Nat
    PROVE  i \div 2 ^ (l + 1) = (i \div 2 ^ l) \div 2
<1> DEFINE p == 2 ^ l
<1>1. p \in Nat /\ p >= 1 /\ 2 ^ (l + 1) = 2 * p
    BY PowType, PowNext
<1> HIDE DEF p
<1>2. PICK q \in Nat : q = i \div p
    BY <1>1, DivFacts
<1>3. q * p <= i /\ i < (q + 1) * p
    BY <1>1, <1>2, DivFacts
<1>4. PICK h \in Nat : h = q \div 2
    OBVIOUS
<1>5. 2 * h <= q /\ q + 1 <= 2 * h + 2
    BY <1>4
<1>6. (2 * h) * p <= q * p /\ (q + 1) * p <= (2 * h + 2) * p
    BY <1>1, <1>5
<1>7. (2 * h) * p = h * (2 * p) /\ (2 * h + 2) * p = (h + 1) * (2 * p)
    BY <1>1
<1>8. PICK r \in Nat : r = 2 * p /\ r >= 1
    BY <1>1
<1>9. h * r <= i /\ i < (h + 1) * r
  <2>1. h * r \in Nat /\ (h + 1) * r \in Nat /\ q * p \in Nat /\ (q + 1) * p \in Nat
    BY <1>1, <1>8
  <2>2. h * r <= q * p /\ (q + 1) * p <= (h + 1) * r
    BY <1>6, <1>7, <1>8
  <2> QED
    BY <1>3, <2>1, <2>2
<1>10. i \div r = h
    BY <1>8, <1>9, DivFacts
<1> QED
    BY <1>1, <1>2, <1>4, <1>8, <1>10 DEF p

LEMMA DivZero ==
    ASSUME NEW i \in Nat
    PROVE  i \div 2 ^ 0 = i
  BY PowZero

LEMMA DivType ==
    ASSUME NEW i \in Nat, NEW l \in Nat
    PROVE  i \div 2 ^ l \in Nat
  BY PowType, DivFacts

\* Leaves that meet below a level have the same ancestors from there on.
LEMMA KinAbove ==
    ASSUME NEW i \in Nat, NEW j \in Nat, NEW l \in Nat, i \div 2 ^ l = j \div 2 ^ l,
           NEW k \in Nat, l <= k
    PROVE  i \div 2 ^ k = j \div 2 ^ k
<1> DEFINE S == {m \in Nat : i \div 2 ^ (l + m) = j \div 2 ^ (l + m)}
<1>1. 0 \in S
    OBVIOUS
<1>2. ASSUME NEW m \in Nat, m \in S PROVE m + 1 \in S
  <2>1. PICK e \in Nat : e = l + m /\ l + (m + 1) = e + 1
    OBVIOUS
  <2>2. i \div 2 ^ e = j \div 2 ^ e
    BY <1>2, <2>1
  <2>3. i \div 2 ^ (e + 1) = (i \div 2 ^ e) \div 2 /\ j \div 2 ^ (e + 1) = (j \div 2 ^ e) \div 2
    BY DivNext
  <2>4. i \div 2 ^ (l + (m + 1)) = j \div 2 ^ (l + (m + 1))
    BY <2>1, <2>2, <2>3
  <2> QED
    BY <2>4
<1>3. Nat \subseteq S
  <2> HIDE DEF S
  <2> QED
    BY <1>1, <1>2, Induction
<1>4. k - l \in Nat /\ l + (k - l) = k
    OBVIOUS
<1> QED
    BY <1>3, <1>4

\* All of a subtree lies within the first 2^d leaves if one of its leaves does.
LEMMA Within ==
    ASSUME NEW d \in Nat, NEW l \in Nat, l <= d, NEW i \in Nat, i < 2 ^ d
    PROVE  (i \div 2 ^ l + 1) * 2 ^ l <= 2 ^ d
<1> DEFINE p == 2 ^ l
<1>1. PICK c \in Nat : c >= 1 /\ 2 ^ d = c * p
    BY PowMultiple
<1>2. p \in Nat /\ p >= 1
    BY PowType
<1>3. PICK q \in Nat : q = i \div p
    BY <1>2, DivFacts
<1> HIDE DEF p
<1>4. q * p <= i /\ i < c * p
    BY <1>1, <1>2, <1>3, DivFacts
<1>5. q < c
  <2> SUFFICES ASSUME c <= q PROVE FALSE
    OBVIOUS
  <2>1. c * p <= q * p
    BY <1>2
  <2>2. c * p \in Nat /\ q * p \in Nat
    BY <1>2
  <2> QED
    BY <1>4, <2>1, <2>2
<1>6. (q + 1) * p <= c * p
    BY <1>2, <1>5
<1> QED
    BY <1>1, <1>3, <1>6 DEF p

LEMMA LeavesAre == Height \in Nat /\ MaxLeaves \in Nat /\ MaxLeaves >= 1 /\
                   Leaves \subseteq Nat /\ \A i \in Nat : i \in Leaves <=> i < 2 ^ (Height + 1)
<1>1. Height \in Nat
    BY TreeConstants
<1>2. MaxLeaves \in Nat /\ MaxLeaves >= 1 /\ 2 ^ (Height + 1) = 2 * MaxLeaves
    BY <1>1, PowType, PowNext DEF MaxLeaves
<1> QED
    BY <1>1, <1>2 DEF Leaves

LEMMA NodeFacts ==
    ASSUME NEW n \in Nodes
    PROVE  /\ n = <<n[1], n[2]>>
           /\ n[1] \in 0 .. Height + 1 /\ n[2] \in Nat
           /\ n \in Parents <=> n[1] >= 1
           /\ \E i \in Leaves : n[2] = i \div 2 ^ n[1]
           /\ \A i : i \in Under(n) <=> i \in Nat /\ i \div 2 ^ n[1] = n[2]
<1>0. Height \in Nat /\ Leaves \subseteq Nat
    BY LeavesAre
<1>1. /\ n = <<n[1], n[2]>> /\ n[1] \in 0 .. Height + 1
      /\ n \in Parents <=> n[1] >= 1
      /\ \E i \in Leaves : n[2] = i \div 2 ^ n[1]
  <2>1. CASE n \in Parents
    <3>1. PICK l \in 1 .. Height + 1, i \in Leaves : n = <<l, i \div 2 ^ l>>
        BY <2>1 DEF Parents
    <3>2. n[1] = l /\ n[2] = i \div 2 ^ l
        BY <3>1
    <3> QED
        BY <1>0, <2>1, <3>1, <3>2
  <2>2. CASE n \notin Parents
    <3>1. PICK i \in Leaves : n = <<0, i>>
        BY <2>2 DEF Nodes
    <3>2. n[1] = 0 /\ n[2] = i \div 2 ^ 0
        BY <1>0, <3>1, DivZero
    <3> QED
        BY <1>0, <2>2, <3>1, <3>2
  <2> QED
    BY <2>1, <2>2
<1>2. n[1] \in Nat /\ n[2] \in Nat
    BY <1>0, <1>1, DivType
<1>3. \A i : i \in Under(<<n[1], n[2]>>) <=> i \in Nat /\ i \div 2 ^ n[1] = n[2]
    BY <1>2, UnderIs
<1> QED
    BY <1>1, <1>2, <1>3

LEMMA Ancestor ==
    ASSUME NEW i \in Leaves, NEW l \in 1 .. Height + 1
    PROVE  /\ <<l, i \div 2 ^ l>> \in Parents
           /\ i \in Under(<<l, i \div 2 ^ l>>)
<1>1. i \in Nat /\ l \in Nat
    BY LeavesAre
<1>2. i \in Under(<<l, i \div 2 ^ l>>)
    BY <1>1, UnderIs, DivType
<1> QED
    BY <1>2 DEF Parents

LEMMA LeafNode ==
    ASSUME NEW i \in Leaves
    PROVE  <<0, i>> \in Nodes /\ <<0, i>> \notin Parents /\ Under(<<0, i>>) = {i}
<1>1. <<0, i>> \in Nodes
    BY DEF Nodes
<1>2. \A k : k \in Under(<<0, i>>) <=> k \in Nat /\ k \div 2 ^ 0 = i
    BY LeavesAre, UnderIs
<1>3. i \in Nat
    BY LeavesAre
<1> QED
    BY <1>1, <1>2, <1>3, DivZero, NodeFacts

\* The subtrees of two nodes are disjoint or nested.
LEMMA Nested ==
    ASSUME NEW n \in Nodes, NEW k \in Nodes, k[1] <= n[1],
           NEW i \in Under(k), i \in Under(n)
    PROVE  Under(k) \subseteq Under(n)
<1>1. k[1] \in Nat /\ n[1] \in Nat /\ i \in Nat
    BY NodeFacts, LeavesAre
<1> SUFFICES ASSUME NEW j \in Under(k) PROVE j \in Under(n)
    OBVIOUS
<1>2. j \in Nat /\ j \div 2 ^ k[1] = i \div 2 ^ k[1]
    BY NodeFacts
<1>3. j \div 2 ^ n[1] = i \div 2 ^ n[1]
    BY <1>1, <1>2, KinAbove
<1> QED
    BY <1>2, <1>3, NodeFacts

LEMMA SameNode ==
    ASSUME NEW n \in Nodes, NEW k \in Nodes, k[1] = n[1],
           NEW i \in Under(k), i \in Under(n)
    PROVE  k = n
  BY NodeFacts

LEMMA UnderLeaves ==
    ASSUME NEW n \in Nodes
    PROVE  Under(n) \subseteq Leaves
<1>1. PICK i \in Leaves : n[2] = i \div 2 ^ n[1]
    BY NodeFacts
<1>2. n[1] \in Nat /\ n[1] <= Height + 1 /\ n[2] \in Nat /\ Height + 1 \in Nat
    BY NodeFacts, LeavesAre
<1>3. (n[2] + 1) * 2 ^ n[1] <= 2 ^ (Height + 1)
    BY <1>1, <1>2, Within, LeavesAre
<1>4. 2 ^ n[1] \in Nat /\ 2 ^ (Height + 1) \in Nat
    BY <1>2, PowType
<1> SUFFICES ASSUME NEW j \in Under(n) PROVE j \in Leaves
    OBVIOUS
<1>5. j \in Nat /\ j < (n[2] + 1) * 2 ^ n[1]
  <2>1. j \in Nat /\ j \div 2 ^ n[1] = n[2]
    BY NodeFacts
  <2> QED
    BY <1>4, <2>1, DivFacts, <1>2, PowType
<1>6. j < 2 ^ (Height + 1)
  <2>1. (n[2] + 1) * 2 ^ n[1] \in Nat
    BY <1>2, <1>4
  <2> QED
    BY <1>3, <1>4, <1>5, <2>1
<1> QED
    BY <1>5, <1>6, LeavesAre

LEMMA NodeFrom ==
    ASSUME NEW l \in 0 .. Height + 1, NEW i \in Leaves
    PROVE  <<l, i \div 2 ^ l>> \in Nodes
<1>1. CASE l = 0
  <2>1. i \div 2 ^ l = i
    BY <1>1, LeavesAre, DivZero
  <2> QED
    BY <1>1, <2>1, LeafNode
<1>2. CASE l >= 1
    BY <1>2, LeavesAre, Ancestor DEF Nodes
<1> QED
    BY <1>1, <1>2, LeavesAre

LEMMA ChildNode ==
    ASSUME NEW n \in Parents, NEW q \in Nat, q \div 2 = n[2]
    PROVE  /\ <<n[1] - 1, q>> \in Nodes
           /\ \A m : m \in Under(<<n[1] - 1, q>>) <=> m \in Nat /\ m \div 2 ^ (n[1] - 1) = q
<1>1. n \in Nodes
    BY DEF Nodes
<1>2. n[1] \in 1 .. Height + 1 /\ n[1] - 1 \in 0 .. Height + 1 /\ Height \in Nat
    BY <1>1, NodeFacts, LeavesAre
<1>3. PICK k \in 0 .. Height + 1 : k = n[1] - 1 /\ k + 1 = n[1] /\ k \in Nat
    BY <1>2
<1>4. PICK p \in Nat : p = 2 ^ k /\ p >= 1
    BY <1>3, PowType
<1>5. PICK m \in Nat : m = q * p
    BY <1>4
<1>6. m \div p = q
  <2>1. q * p <= m /\ m < (q + 1) * p
    BY <1>4, <1>5
  <2> QED
    BY <1>4, <2>1, DivFacts
<1>7. m \div 2 ^ n[1] = n[2]
  <2>1. m \div 2 ^ (k + 1) = (m \div 2 ^ k) \div 2
    BY <1>3, DivNext
  <2> QED
    BY <1>3, <1>4, <1>6, <2>1
<1>8. m \in Leaves
    BY <1>1, <1>7, NodeFacts, UnderLeaves
<1>9. <<k, m \div 2 ^ k>> \in Nodes
    BY <1>8, NodeFrom
<1>10. \A x : x \in Under(<<k, q>>) <=> x \in Nat /\ x \div 2 ^ k = q
    BY <1>3, UnderIs
<1> QED
    BY <1>3, <1>4, <1>6, <1>9, <1>10

\* A parent's leaves are those of its two children.
LEMMA Children ==
    ASSUME NEW n \in Parents
    PROVE  /\ Left(n) \in Nodes /\ Right(n) \in Nodes
           /\ Left(n)[1] = n[1] - 1 /\ Right(n)[1] = n[1] - 1
           /\ Under(n) = Under(Left(n)) \cup Under(Right(n))
           /\ Under(Left(n)) \cap Under(Right(n)) = {}
<1>1. n \in Nodes
    BY DEF Nodes
<1>2. n[1] \in 1 .. Height + 1 /\ n[2] \in Nat /\ Height \in Nat
    BY <1>1, NodeFacts, LeavesAre
<1>3. PICK k \in Nat : k = n[1] - 1 /\ k + 1 = n[1]
    BY <1>2
<1>4. PICK e \in Nat, o \in Nat : e = 2 * n[2] /\ o = 2 * n[2] + 1 /\ e \div 2 = n[2] /\ o \div 2 = n[2]
    BY <1>2
<1>5. Left(n) = <<k, e>> /\ Right(n) = <<k, o>>
    BY <1>3, <1>4 DEF Left, Right
<1>6. /\ <<k, e>> \in Nodes
      /\ \A m : m \in Under(<<k, e>>) <=> m \in Nat /\ m \div 2 ^ k = e
    BY <1>3, <1>4, ChildNode
<1>7. /\ <<k, o>> \in Nodes
      /\ \A m : m \in Under(<<k, o>>) <=> m \in Nat /\ m \div 2 ^ k = o
    BY <1>3, <1>4, ChildNode
<1>8. ASSUME NEW m \in Nat
      PROVE  m \div 2 ^ n[1] = n[2] <=> m \div 2 ^ k = e \/ m \div 2 ^ k = o
  <2>1. PICK q \in Nat : q = m \div 2 ^ k
    BY DivType
  <2>2. m \div 2 ^ n[1] = q \div 2
    BY <1>3, <2>1, DivNext
  <2>3. q \div 2 = n[2] <=> q = 2 * n[2] \/ q = 2 * n[2] + 1
    BY <1>2
  <2> QED
    BY <1>4, <2>1, <2>2, <2>3
<1>9. \A m : m \in Under(n) <=> m \in Nat /\ m \div 2 ^ n[1] = n[2]
    BY <1>1, NodeFacts
<1>10. e # o
    BY <1>2, <1>4
<1>11. Under(n) = Under(<<k, e>>) \cup Under(<<k, o>>)
    BY <1>6, <1>7, <1>8, <1>9
<1>12. Under(<<k, e>>) \cap Under(<<k, o>>) = {}
    BY <1>6, <1>7, <1>10
<1> QED
    BY <1>3, <1>5, <1>6, <1>7, <1>11, <1>12

LEMMA DepthIs ==
    ASSUME NEW t, NEW d \in 0 .. Height + 1, t.size = 2 ^ d
    PROVE  Depth(t) = d
<1>1. \A e \in 0 .. Height + 1 : 2 ^ e = t.size => e = d
    BY PowMono, LeavesAre
<1> QED
    BY <1>1 DEF Depth

\* The nodes within the first 2^d leaves.
LEMMA Inside ==
    ASSUME NEW d \in 0 .. Height + 1, NEW n \in Nodes
    PROVE  /\ \A i \in Under(n) : i < 2 ^ d => (~Beyond(2 ^ d, n) <=> n[1] <= d)
           /\ ~Beyond(2 ^ d, n) => n[1] <= d /\ \A i \in Under(n) : i < 2 ^ d
<1>1. Height \in Nat /\ d \in Nat /\ n[1] \in Nat /\ n[2] \in Nat
    BY NodeFacts, LeavesAre
<1>2. PICK p \in Nat : p = 2 ^ n[1] /\ p >= 1
    BY <1>1, PowType
<1>3. PICK s \in Nat : s = 2 ^ d
    BY <1>1, PowType
<1>4. PICK b \in Nat : b = (n[2] + 1) * p
    BY <1>1, <1>2
<1>5. Beyond(2 ^ d, n) <=> b > s
    BY <1>2, <1>3, <1>4 DEF Beyond
<1>6. p <= b
  <2>1. n[2] + 1 >= 1
    BY <1>1
  <2> QED
    BY <1>1, <1>2, <1>4, <2>1
<1>7. b <= s => n[1] <= d
  <2> SUFFICES ASSUME b <= s, d < n[1] PROVE FALSE
    BY <1>1
  <2>1. 2 * s <= p
    BY <1>1, <1>2, <1>3, PowMono
  <2>2. s >= 1
    BY <1>1, <1>3, PowType
  <2> QED
    BY <1>6, <2>1, <2>2
<1>8. \A i \in Under(n) : i \in Nat /\ i < b
  <2> TAKE i \in Under(n)
  <2>1. i \in Nat /\ i \div p = n[2]
    BY <1>2, NodeFacts
  <2> QED
    BY <1>2, <1>4, <2>1, DivFacts
<1>9. ASSUME NEW i \in Under(n), i < 2 ^ d, n[1] <= d PROVE b <= s
  <2>1. i \in Nat /\ i \div 2 ^ n[1] = n[2]
    BY NodeFacts
  <2>2. (i \div 2 ^ n[1] + 1) * 2 ^ n[1] <= 2 ^ d
    BY <1>1, <1>9, <2>1, Within
  <2> QED
    BY <1>2, <1>3, <1>4, <2>1, <2>2
<1>10. ~(b > s) <=> b <= s
    OBVIOUS
<1>11. b <= s => \A i \in Under(n) : i < 2 ^ d
    BY <1>3, <1>8
<1> QED
    BY <1>5, <1>7, <1>9, <1>10, <1>11

\* The direct path of a leaf: its ancestors.
LEMMA OnPathIs ==
    ASSUME NEW t, NEW d \in 0 .. Height + 1, t.size = 2 ^ d, NEW i \in Leaves
    PROVE  /\ OnPath(t, i) \subseteq Parents
           /\ \A n \in Parents : n \in OnPath(t, i) <=> i \in Under(n) /\ n[1] <= d
           /\ DirectPath(t, i) = [l \in 1 .. d |-> <<l, i \div 2 ^ l>>]
           /\ \A l \in 1 .. d : /\ DirectPath(t, i)[l] = <<l, i \div 2 ^ l>>
                                /\ DirectPath(t, i)[l] \in Parents
<1>1. Depth(t) = d /\ Height \in Nat /\ d \in Nat
    BY DepthIs, LeavesAre
<1>2. DirectPath(t, i) = [l \in 1 .. d |-> <<l, i \div 2 ^ l>>]
    BY <1>1 DEF DirectPath
<1>3. \A l \in 1 .. d : l \in 1 .. Height + 1
    BY <1>1
<1>4. \A l \in 1 .. d : <<l, i \div 2 ^ l>> \in Parents
    BY <1>3, Ancestor
<1>5. OnPath(t, i) = {<<l, i \div 2 ^ l>> : l \in 1 .. d}
    BY <1>1, <1>2 DEF OnPath
<1>6. ASSUME NEW n \in Parents PROVE n \in OnPath(t, i) <=> i \in Under(n) /\ n[1] <= d
  <2>1. n \in Nodes
    BY DEF Nodes
  <2>2. n = <<n[1], n[2]>> /\ n[1] >= 1 /\ n[1] \in Nat /\ i \in Nat
    BY <2>1, NodeFacts, LeavesAre
  <2>3. i \in Under(n) <=> i \div 2 ^ n[1] = n[2]
    BY <2>1, <2>2, NodeFacts
  <2>4. n[1] <= d <=> n[1] \in 1 .. d
    BY <1>1, <2>2
  <2>5. ASSUME NEW l \in 1 .. d, n = <<l, i \div 2 ^ l>> PROVE n[1] = l /\ n[2] = i \div 2 ^ l
    BY <2>5
  <2> QED
    BY <1>5, <2>2, <2>3, <2>4, <2>5
<1> QED
    BY <1>2, <1>4, <1>5, <1>6

\* The copath of a leaf: at each level, the child of its ancestor it is not under.
LEMMA CopathIs ==
    ASSUME NEW t, NEW d \in 0 .. Height + 1, t.size = 2 ^ d, NEW i \in Leaves,
           NEW l \in 1 .. d
    PROVE  /\ Copath(t, i)[l] \in Nodes
           /\ Copath(t, i)[l][1] = l - 1
           /\ \A m : m \in Under(Copath(t, i)[l]) <=>
                m \in Nat /\ m \div 2 ^ l = i \div 2 ^ l /\ m \div 2 ^ (l - 1) # i \div 2 ^ (l - 1)
<1>1. Depth(t) = d /\ Height \in Nat /\ d \in Nat /\ i \in Nat
    BY DepthIs, LeavesAre
<1>2. PICK k \in Nat : k = l - 1 /\ k + 1 = l
    BY <1>1
<1>3. PICK q \in Nat : q = i \div 2 ^ k
    BY <1>1, DivType
<1>4. i \div 2 ^ l = q \div 2
  <2>1. i \div 2 ^ (k + 1) = (i \div 2 ^ k) \div 2
    BY <1>1, <1>2, DivNext
  <2> QED
    BY <1>2, <1>3, <2>1
<1>5. PICK h \in Nat : h = q \div 2
    BY <1>3
<1>6. PICK s \in Nat : s = IF q % 2 = 0 THEN q + 1 ELSE q - 1
    BY <1>3
<1>7. s \div 2 = h /\ s # q /\ \A r \in Nat : r \div 2 = h /\ r # q => r = s
    BY <1>3, <1>5, <1>6
<1>8. Copath(t, i)[l] = <<k, s>>
    BY <1>1, <1>2, <1>3, <1>6 DEF Copath, Sibling
<1>9. <<l, h>> \in Parents
    BY <1>1, <1>4, <1>5, Ancestor
<1>10. /\ <<k, s>> \in Nodes
       /\ \A m : m \in Under(<<k, s>>) <=> m \in Nat /\ m \div 2 ^ k = s
    BY <1>2, <1>7, <1>9, ChildNode
<1>11. ASSUME NEW m \in Nat
       PROVE  m \div 2 ^ k = s <=> m \div 2 ^ l = h /\ m \div 2 ^ k # q
  <2>1. PICK r \in Nat : r = m \div 2 ^ k
    BY DivType
  <2>2. m \div 2 ^ (k + 1) = (m \div 2 ^ k) \div 2
    BY <1>2, DivNext
  <2>3. m \div 2 ^ l = r \div 2
    BY <1>2, <2>1, <2>2
  <2> QED
    BY <1>7, <2>1, <2>3
<1>12. \A m : m \in Under(<<k, s>>) <=> m \in Nat /\ m \div 2 ^ l = h /\ m \div 2 ^ k # q
    BY <1>10, <1>11
<1>16. <<k, s>>[1] = k
    OBVIOUS
<1> QED
    BY <1>2, <1>3, <1>4, <1>5, <1>8, <1>10, <1>12, <1>16

LEMMA CopathUnder ==
    ASSUME NEW t, NEW d \in 0 .. Height + 1, t.size = 2 ^ d, NEW i \in Leaves,
           NEW l \in 1 .. d, NEW m
    PROVE  m \in Under(Copath(t, i)[l]) <=>
                m \in Nat /\ m \div 2 ^ l = i \div 2 ^ l /\ m \div 2 ^ (l - 1) # i \div 2 ^ (l - 1)
  BY CopathIs

LEMMA CopathNode ==
    ASSUME NEW t, NEW d \in 0 .. Height + 1, t.size = 2 ^ d, NEW i \in Leaves,
           NEW l \in 1 .. d
    PROVE  Copath(t, i)[l] \in Nodes /\ Copath(t, i)[l][1] = l - 1
<1>1. Copath(t, i)[l] \in Nodes
    BY CopathIs
<1>2. Copath(t, i)[l][1] = l - 1
    BY CopathIs
<1> QED
    BY <1>1, <1>2

-----------------------------------------------------------------------------
(* Resolutions.  The recursion of the code ends at the leaves, so a        *)
(* function of all nodes satisfies it, and Resolution is that function.    *)

Listed(t, excluded, S) == {<<0, i>> : i \in (S \cap Members(t)) \ excluded}

LEMMA ResolutionAtIs ==
    ASSUME NEW t, NEW e, NEW r, NEW n
    PROVE  ResolutionAt(t, e, r, n) =
             IF n[1] = 0 THEN Listed(t, e, {n[2]})
             ELSE IF t.parent[n] # Blank THEN {n} \cup Listed(t, e, t.parent[n].unmerged)
             ELSE r[Left(n)] \cup r[Right(n)]
  BY DEF ResolutionAt, Listed

\* Only the values at the two children are read.
LEMMA ResolutionAtSame ==
    ASSUME NEW t, NEW e, NEW r, NEW s, NEW n \in Nodes,
           n \in Parents => r[Left(n)] = s[Left(n)] /\ r[Right(n)] = s[Right(n)]
    PROVE  ResolutionAt(t, e, r, n) = ResolutionAt(t, e, s, n)
<1>1. n[1] = 0 \/ n \in Parents
    BY NodeFacts
<1> QED
    BY <1>1, ResolutionAtIs

LEMMA ResolvedExists ==
    ASSUME NEW t, NEW e
    PROVE  \E r : r = [n \in Nodes |-> ResolutionAt(t, e, r, n)]
<1> DEFINE Up(r, k) == \A n \in Nodes : n[1] <= k => r[n] = ResolutionAt(t, e, r, n)
           S == {k \in Nat : \E r : Up(r, k)}
<1>1. 0 \in S
  <2> DEFINE g == [n \in Nodes |-> Listed(t, e, {n[2]})]
  <2>1. ASSUME NEW n \in Nodes, n[1] <= 0 PROVE g[n] = ResolutionAt(t, e, g, n)
    <3>1. n[1] = 0
        BY <2>1, NodeFacts
    <3> QED
        BY <3>1, ResolutionAtIs
  <2>2. Up(g, 0)
    BY <2>1
  <2> QED
    BY <2>2
<1>2. ASSUME NEW k \in Nat, k \in S PROVE k + 1 \in S
  <2>1. PICK g : Up(g, k)
    BY <1>2
  <2> DEFINE h == [n \in Nodes |-> IF n[1] <= k THEN g[n] ELSE ResolutionAt(t, e, g, n)]
  <2>2. ASSUME NEW n \in Nodes, n[1] <= k + 1 PROVE h[n] = ResolutionAt(t, e, h, n)
    <3>1. ASSUME n \in Parents PROVE h[Left(n)] = g[Left(n)] /\ h[Right(n)] = g[Right(n)]
      <4>1. /\ Left(n) \in Nodes /\ Right(n) \in Nodes
            /\ Left(n)[1] = n[1] - 1 /\ Right(n)[1] = n[1] - 1
        BY <3>1, Children
      <4>2. n[1] \in Nat /\ n[1] - 1 <= k
        BY <2>2, NodeFacts, LeavesAre
      <4> QED
        BY <4>1, <4>2
    <3>2. ResolutionAt(t, e, h, n) = ResolutionAt(t, e, g, n)
      <4> HIDE DEF h
      <4> QED
        BY <3>1, ResolutionAtSame
    <3>3. h[n] = ResolutionAt(t, e, g, n)
        BY <2>1
    <3> QED
        BY <3>2, <3>3
  <2>3. Up(h, k + 1)
    <3> HIDE DEF h
    <3> QED
        BY <2>2
  <2>4. \E r : Up(r, k + 1)
    <3> HIDE DEF Up
    <3> QED
        BY <2>3
  <2> QED
    BY <2>4
<1>3. Nat \subseteq S
  <2> HIDE DEF S
  <2> QED
    BY <1>1, <1>2, Induction
<1>4. Height + 1 \in Nat
    BY LeavesAre
<1>5. PICK g : Up(g, Height + 1)
    BY <1>3, <1>4
<1> DEFINE r == [n \in Nodes |-> g[n]]
<1>6. ASSUME NEW n \in Nodes PROVE r[n] = ResolutionAt(t, e, r, n)
  <2>1. n[1] <= Height + 1
    BY NodeFacts, LeavesAre
  <2>2. g[n] = ResolutionAt(t, e, g, n)
    BY <1>5, <2>1
  <2>3. n \in Parents => Left(n) \in Nodes /\ Right(n) \in Nodes
    BY Children
  <2>4. ResolutionAt(t, e, r, n) = ResolutionAt(t, e, g, n)
    BY <2>3, ResolutionAtSame
  <2> QED
    BY <2>2, <2>4
<1>7. r = [n \in Nodes |-> ResolutionAt(t, e, r, n)]
  <2>1. r = [n \in Nodes |-> r[n]]
    OBVIOUS
  <2> HIDE DEF r
  <2> QED
    BY <1>6, <2>1
<1> QED
    BY <1>7

LEMMA ResolutionIs ==
    ASSUME NEW t, NEW e, NEW n \in Nodes
    PROVE  \E r : /\ \A k : Resolution(t, k, e) = r[k]
                  /\ r[n] = ResolutionAt(t, e, r, n)
<1> DEFINE r == CHOOSE f : f = [k \in Nodes |-> ResolutionAt(t, e, f, k)]
<1>1. r = [k \in Nodes |-> ResolutionAt(t, e, r, k)]
    BY ResolvedExists
<1>2. \A k : Resolution(t, k, e) = r[k]
    BY DEF Resolution
<1> HIDE DEF r
<1>3. r[n] = ResolutionAt(t, e, r, n)
    BY <1>1
<1> QED
    BY <1>2, <1>3

LEMMA ResolutionLeaf ==
    ASSUME NEW t, NEW e, NEW n \in Nodes, n \notin Parents
    PROVE  Resolution(t, n, e) = Listed(t, e, {n[2]})
<1>1. n[1] = 0
    BY NodeFacts
<1>2. PICK r : (\A k : Resolution(t, k, e) = r[k]) /\ r[n] = ResolutionAt(t, e, r, n)
    BY ResolutionIs
<1> QED
    BY <1>1, <1>2 DEF ResolutionAt, Listed

LEMMA ResolutionKept ==
    ASSUME NEW t, NEW e, NEW n \in Nodes, n \in Parents, t.parent[n] # Blank
    PROVE  Resolution(t, n, e) = {n} \cup Listed(t, e, t.parent[n].unmerged)
<1>1. n[1] # 0
    BY NodeFacts
<1>2. PICK r : (\A k : Resolution(t, k, e) = r[k]) /\ r[n] = ResolutionAt(t, e, r, n)
    BY ResolutionIs
<1> QED
    BY <1>1, <1>2 DEF ResolutionAt, Listed

LEMMA ResolutionBlank ==
    ASSUME NEW t, NEW e, NEW n \in Nodes, n \in Parents, t.parent[n] = Blank
    PROVE  Resolution(t, n, e) = Resolution(t, Left(n), e) \cup Resolution(t, Right(n), e)
<1>1. n[1] # 0
    BY NodeFacts
<1>2. PICK r : (\A k : Resolution(t, k, e) = r[k]) /\ r[n] = ResolutionAt(t, e, r, n)
    BY ResolutionIs
<1> QED
    BY <1>1, <1>2 DEF ResolutionAt, Listed

-----------------------------------------------------------------------------
(* What is kept of every parent *)

NodeType == [holders : SUBSET (Leaves \cup {Former}), unmerged : SUBSET Leaves]
TreeType == [size : Nat, leaves : SUBSET Leaves, parent : [Parents -> NodeType \cup {Blank}]]

\* A parent that is not blank: who holds its key; that somebody does; and that the
\* subtrees of both its children are inhabited.
Good(t, n) ==
    t.parent[n] # Blank =>
        /\ t.parent[n].holders = (Under(n) \cap Members(t)) \ t.parent[n].unmerged
        /\ t.parent[n].unmerged \subseteq Under(n) \cap Members(t)
        /\ t.parent[n].holders # {}
        /\ Under(Left(n)) \cap Members(t) # {}
        /\ Under(Right(n)) \cap Members(t) # {}

GoodUnder(t, n) == \A k \in Parents : Under(k) \subseteq Under(n) => Good(t, k)

LEMMA GoodBelow ==
    ASSUME NEW t, NEW n \in Parents, GoodUnder(t, n)
    PROVE  GoodUnder(t, Left(n)) /\ GoodUnder(t, Right(n)) /\ Good(t, n)
  BY Children DEF GoodUnder

\* An element of a resolution is a parent that is not blank or an occupied leaf.
LEMMA ResolutionElements ==
    ASSUME NEW t \in TreeType, NEW e, NEW n \in Nodes, GoodUnder(t, n),
           NEW x \in Resolution(t, n, e)
    PROVE  /\ x \in Nodes /\ Under(x) \subseteq Under(n)
           /\ \/ x \in Parents /\ t.parent[x] # Blank
              \/ /\ x[1] = 0 /\ x = <<0, x[2]>>
                 /\ x[2] \in Members(t) \ e /\ Under(x) = {x[2]}
<1> DEFINE Fits(k, y) ==
             /\ y \in Nodes /\ Under(y) \subseteq Under(k)
             /\ \/ y \in Parents /\ t.parent[y] # Blank
                \/ /\ y[1] = 0 /\ y = <<0, y[2]>>
                   /\ y[2] \in Members(t) \ e /\ Under(y) = {y[2]}
           S == {l \in Nat : \A k \in Nodes : k[1] = l /\ GoodUnder(t, k) =>
                                \A y \in Resolution(t, k, e) : Fits(k, y)}
<1>0. Members(t) \subseteq Leaves
    BY DEF TreeType, Members
<1>1. ASSUME NEW k \in Nodes, NEW A, A \subseteq Under(k), NEW y \in Listed(t, e, A)
      PROVE  Fits(k, y)
  <2>1. PICK i \in (A \cap Members(t)) \ e : y = <<0, i>>
    BY <1>1 DEF Listed
  <2>2. i \in Leaves
    BY <1>0
  <2>3. y \in Nodes /\ Under(y) = {i} /\ y[1] = 0 /\ y[2] = i
    BY <2>1, <2>2, LeafNode
  <2> QED
    BY <1>1, <2>1, <2>3
<1>2. 0 \in S
  <2> SUFFICES ASSUME NEW k \in Nodes, k[1] = 0, NEW y \in Resolution(t, k, e)
               PROVE  Fits(k, y)
    OBVIOUS
  <2>1. y \in Listed(t, e, {k[2]})
    BY ResolutionLeaf, NodeFacts
  <2>2. {k[2]} \subseteq Under(k)
    BY NodeFacts, DivZero
  <2> HIDE DEF Fits
  <2> QED
    BY <1>1, <2>1, <2>2
<1>3. ASSUME NEW l \in Nat, l \in S PROVE l + 1 \in S
  <2> SUFFICES ASSUME NEW k \in Nodes, k[1] = l + 1, GoodUnder(t, k), NEW y \in Resolution(t, k, e)
               PROVE  Fits(k, y)
    OBVIOUS
  <2>1. k \in Parents /\ k[1] # 0
    BY NodeFacts
  <2>2. GoodUnder(t, Left(k)) /\ GoodUnder(t, Right(k)) /\ Good(t, k)
    BY <2>1, GoodBelow
  <2>3. CASE t.parent[k] # Blank
    <3>0. Resolution(t, k, e) = {k} \cup Listed(t, e, t.parent[k].unmerged)
        BY <2>1, <2>3, ResolutionKept
    <3>1. y = k \/ y \in Listed(t, e, t.parent[k].unmerged)
        BY <3>0
    <3>2. t.parent[k].unmerged \subseteq Under(k)
        BY <2>2, <2>3 DEF Good
    <3>3. Fits(k, k)
        BY <2>1, <2>3
    <3> HIDE DEF Fits
    <3> QED
        BY <1>1, <3>1, <3>2, <3>3
  <2>4. CASE t.parent[k] = Blank
    <3>0. Resolution(t, k, e) = Resolution(t, Left(k), e) \cup Resolution(t, Right(k), e)
        BY <2>1, <2>4, ResolutionBlank
    <3>1. y \in Resolution(t, Left(k), e) \/ y \in Resolution(t, Right(k), e)
        BY <3>0
    <3>2. /\ Left(k) \in Nodes /\ Right(k) \in Nodes
          /\ Left(k)[1] = l /\ Right(k)[1] = l
          /\ Under(k) = Under(Left(k)) \cup Under(Right(k))
        BY <2>1, Children
    <3>3. Fits(Left(k), y) \/ Fits(Right(k), y)
      <4> HIDE DEF Fits
      <4> QED
        BY <1>3, <2>2, <3>1, <3>2
    <3> QED
        BY <3>2, <3>3
  <2> QED
    BY <2>3, <2>4
<1>4. Nat \subseteq S
  <2> HIDE DEF S
  <2> QED
    BY <1>2, <1>3, Induction
<1>5. n[1] \in Nat
    BY NodeFacts, LeavesAre
<1>6. Fits(n, x)
  <2> HIDE DEF Fits
  <2> QED
    BY <1>4, <1>5
<1> QED
    BY <1>6

\* Who holds the key of an element is a member below it, and somebody does.
LEMMA HeldUnder ==
    ASSUME NEW t \in TreeType, NEW e, NEW n \in Nodes, GoodUnder(t, n),
           NEW x \in Resolution(t, n, e)
    PROVE  /\ \A m : Holds(t, m, x) => m \in Under(x) /\ m \in Members(t)
           /\ \E m \in Members(t) : Holds(t, m, x)
<1>1. x \in Nodes /\ Under(x) \subseteq Under(n)
    BY ResolutionElements
<1>2. CASE x \in Parents /\ t.parent[x] # Blank
  <2>1. Good(t, x)
    BY <1>1, <1>2 DEF GoodUnder
  <2>2. /\ t.parent[x].holders = (Under(x) \cap Members(t)) \ t.parent[x].unmerged
        /\ t.parent[x].holders # {}
    BY <1>2, <2>1 DEF Good
  <2>3. x[1] # 0
    BY <1>1, <1>2, NodeFacts
  <2>4. \A m : Holds(t, m, x) <=> m \in t.parent[x].holders
    BY <2>3 DEF Holds
  <2> QED
    BY <2>2, <2>4
<1>3. CASE x[1] = 0 /\ x[2] \in Members(t) \ e /\ Under(x) = {x[2]}
    BY <1>3 DEF Holds
<1> QED
    BY <1>2, <1>3, ResolutionElements

\* Every member below a node that is not excluded holds the key of an element ...
LEMMA HeldExists ==
    ASSUME NEW t \in TreeType, NEW e, NEW n \in Nodes, GoodUnder(t, n),
           NEW m \in (Under(n) \cap Members(t)) \ e
    PROVE  \E x \in Resolution(t, n, e) : Holds(t, m, x)
<1> DEFINE Read(k) == \A i \in (Under(k) \cap Members(t)) \ e :
                          \E x \in Resolution(t, k, e) : Holds(t, i, x)
           S == {l \in Nat : \A k \in Nodes : k[1] = l /\ GoodUnder(t, k) => Read(k)}
<1>1. ASSUME NEW A, NEW i \in (A \cap Members(t)) \ e
      PROVE  <<0, i>> \in Listed(t, e, A) /\ Holds(t, i, <<0, i>>)
    BY DEF Listed, Holds
<1>2. 0 \in S
  <2> SUFFICES ASSUME NEW k \in Nodes, k[1] = 0, NEW i \in (Under(k) \cap Members(t)) \ e
               PROVE  \E x \in Resolution(t, k, e) : Holds(t, i, x)
    OBVIOUS
  <2>a. k \notin Parents
    BY NodeFacts
  <2>b. i \in Under(k) /\ i \in Nat
    BY NodeFacts
  <2>c. i \div 2 ^ k[1] = k[2]
    BY <2>b, NodeFacts
  <2>1. k \notin Parents /\ i = k[2]
    BY <2>a, <2>b, <2>c, DivZero
  <2>2. Resolution(t, k, e) = Listed(t, e, {k[2]})
    BY <2>1, ResolutionLeaf
  <2>3. i \in ({k[2]} \cap Members(t)) \ e
    BY <2>1
  <2> QED
    BY <1>1, <2>2, <2>3
<1>3. ASSUME NEW l \in Nat, l \in S PROVE l + 1 \in S
  <2> SUFFICES ASSUME NEW k \in Nodes, k[1] = l + 1, GoodUnder(t, k),
                      NEW i \in (Under(k) \cap Members(t)) \ e
               PROVE  \E x \in Resolution(t, k, e) : Holds(t, i, x)
    OBVIOUS
  <2>1. k \in Parents /\ k[1] # 0
    BY NodeFacts
  <2>2. GoodUnder(t, Left(k)) /\ GoodUnder(t, Right(k)) /\ Good(t, k)
    BY <2>1, GoodBelow
  <2>3. CASE t.parent[k] # Blank
    <3>1. Resolution(t, k, e) = {k} \cup Listed(t, e, t.parent[k].unmerged)
        BY <2>1, <2>3, ResolutionKept
    <3>2. t.parent[k].holders = (Under(k) \cap Members(t)) \ t.parent[k].unmerged
        BY <2>2, <2>3 DEF Good
    <3>3. CASE i \in t.parent[k].unmerged
        BY <1>1, <3>1, <3>3
    <3>4. CASE i \notin t.parent[k].unmerged
      <4>1. Holds(t, i, k)
        BY <2>1, <3>2, <3>4 DEF Holds
      <4> QED
        BY <3>1, <4>1
    <3> QED
        BY <3>3, <3>4
  <2>4. CASE t.parent[k] = Blank
    <3>1. Resolution(t, k, e) = Resolution(t, Left(k), e) \cup Resolution(t, Right(k), e)
        BY <2>1, <2>4, ResolutionBlank
    <3>2. /\ Left(k) \in Nodes /\ Right(k) \in Nodes
          /\ Left(k)[1] = l /\ Right(k)[1] = l
          /\ Under(k) = Under(Left(k)) \cup Under(Right(k))
        BY <2>1, Children
    <3>3. Read(Left(k)) /\ Read(Right(k))
      <4> HIDE DEF Read
      <4> QED
        BY <1>3, <2>2, <3>2
    <3> QED
        BY <3>1, <3>2, <3>3
  <2> QED
    BY <2>3, <2>4
<1>4. Nat \subseteq S
  <2> HIDE DEF S
  <2> QED
    BY <1>2, <1>3, Induction
<1>5. n[1] \in Nat
    BY NodeFacts, LeavesAre
<1>6. Read(n)
  <2> HIDE DEF Read
  <2> QED
    BY <1>4, <1>5
<1> QED
    BY <1>6

\* ... and of no other.
LEMMA HeldOnce ==
    ASSUME NEW t \in TreeType, NEW e, NEW n \in Nodes, GoodUnder(t, n),
           NEW x \in Resolution(t, n, e), NEW y \in Resolution(t, n, e),
           NEW m, Holds(t, m, x), Holds(t, m, y)
    PROVE  x = y
<1> DEFINE Once(k) == \A v, w \in Resolution(t, k, e) : Holds(t, m, v) /\ Holds(t, m, w) => v = w
           S == {l \in Nat : \A k \in Nodes : k[1] = l /\ GoodUnder(t, k) => Once(k)}
<1>1. ASSUME NEW A, NEW v \in Listed(t, e, A), Holds(t, m, v)
      PROVE  v = <<0, m>> /\ m \in A
  <2>1. PICK i \in (A \cap Members(t)) \ e : v = <<0, i>>
    BY DEF Listed
  <2>2. i = m
    BY <1>1, <2>1 DEF Holds
  <2> QED
    BY <2>1, <2>2
<1>2. 0 \in S
  <2> SUFFICES ASSUME NEW k \in Nodes, k[1] = 0 PROVE Once(k)
    OBVIOUS
  <2>1. k \notin Parents
    BY NodeFacts
  <2>2. Resolution(t, k, e) = Listed(t, e, {k[2]})
    BY <2>1, ResolutionLeaf
  <2> QED
    BY <1>1, <2>2
<1>3. ASSUME NEW l \in Nat, l \in S PROVE l + 1 \in S
  <2> SUFFICES ASSUME NEW k \in Nodes, k[1] = l + 1, GoodUnder(t, k),
                      NEW v \in Resolution(t, k, e), NEW w \in Resolution(t, k, e),
                      Holds(t, m, v), Holds(t, m, w)
               PROVE  v = w
    OBVIOUS
  <2>1. k \in Parents /\ k[1] # 0
    BY NodeFacts
  <2>2. GoodUnder(t, Left(k)) /\ GoodUnder(t, Right(k)) /\ Good(t, k)
    BY <2>1, GoodBelow
  <2>3. CASE t.parent[k] # Blank
    <3>1. Resolution(t, k, e) = {k} \cup Listed(t, e, t.parent[k].unmerged)
        BY <2>1, <2>3, ResolutionKept
    <3>2. t.parent[k].holders \cap t.parent[k].unmerged = {}
        BY <2>2, <2>3 DEF Good
    <3>3. Holds(t, m, k) => m \in t.parent[k].holders
        BY <2>1 DEF Holds
    <3>4. v \in Listed(t, e, t.parent[k].unmerged) => v = <<0, m>> /\ m \in t.parent[k].unmerged
        BY <1>1
    <3>5. w \in Listed(t, e, t.parent[k].unmerged) => w = <<0, m>> /\ m \in t.parent[k].unmerged
        BY <1>1
    <3> QED
        BY <3>1, <3>2, <3>3, <3>4, <3>5
  <2>4. CASE t.parent[k] = Blank
    <3>1. Resolution(t, k, e) = Resolution(t, Left(k), e) \cup Resolution(t, Right(k), e)
        BY <2>1, <2>4, ResolutionBlank
    <3>2. /\ Left(k) \in Nodes /\ Right(k) \in Nodes
          /\ Left(k)[1] = l /\ Right(k)[1] = l
          /\ Under(Left(k)) \cap Under(Right(k)) = {}
        BY <2>1, Children
    <3>3. Once(Left(k)) /\ Once(Right(k))
      <4> HIDE DEF Once
      <4> QED
        BY <1>3, <2>2, <3>2
    <3>4. ASSUME NEW c \in {Left(k), Right(k)}, NEW z \in Resolution(t, c, e), Holds(t, m, z)
          PROVE  m \in Under(c)
      <4>1. c \in Nodes /\ GoodUnder(t, c)
        BY <2>2, <3>2
      <4>2. m \in Under(z) /\ Under(z) \subseteq Under(c)
        BY <3>4, <4>1, HeldUnder, ResolutionElements
      <4> QED
        BY <4>2
    <3>5. \/ v \in Resolution(t, Left(k), e) /\ w \in Resolution(t, Left(k), e)
          \/ v \in Resolution(t, Right(k), e) /\ w \in Resolution(t, Right(k), e)
        BY <3>1, <3>2, <3>4
    <3> QED
        BY <3>3, <3>5
  <2> QED
    BY <2>3, <2>4
<1>4. Nat \subseteq S
  <2> HIDE DEF S
  <2> QED
    BY <1>2, <1>3, Induction
<1>5. n[1] \in Nat
    BY NodeFacts, LeavesAre
<1>6. Once(n)
  <2> HIDE DEF Once
  <2> QED
    BY <1>4, <1>5
<1> QED
    BY <1>6

\* A resolution is empty where nobody is.
LEMMA ResolutionEmpty ==
    ASSUME NEW t \in TreeType, NEW n \in Nodes, GoodUnder(t, n)
    PROVE  Resolution(t, n, {}) # {} <=> Under(n) \cap Members(t) # {}
<1>1. ASSUME NEW x \in Resolution(t, n, {}) PROVE Under(n) \cap Members(t) # {}
  <2>1. Under(x) \subseteq Under(n)
    BY ResolutionElements
  <2>2. PICK m \in Members(t) : Holds(t, m, x)
    BY HeldUnder
  <2>3. m \in Under(x)
    BY <2>2, HeldUnder
  <2> QED
    BY <2>1, <2>3
<1>2. ASSUME NEW m \in Under(n) \cap Members(t) PROVE Resolution(t, n, {}) # {}
  <2>1. m \in (Under(n) \cap Members(t)) \ {}
    OBVIOUS
  <2> QED
    BY <2>1, HeldExists
<1> QED
    BY <1>1, <1>2

\* The sender leaves the added leaves out of a resolution after it is computed, the
\* receiver while it is: the result is the same.
THEOREM FilteredResolution ==
    ASSUME NEW t, NEW e, NEW n \in Nodes
    PROVE  {x \in Resolution(t, n, {}) : x[1] # 0 \/ x[2] \notin e} = Resolution(t, n, e)
<1> DEFINE Sent(k) == {x \in Resolution(t, k, {}) : x[1] # 0 \/ x[2] \notin e}
           S == {l \in Nat : \A k \in Nodes : k[1] = l => Sent(k) = Resolution(t, k, e)}
<1>1. ASSUME NEW A
      PROVE  {x \in Listed(t, {}, A) : x[1] # 0 \/ x[2] \notin e} = Listed(t, e, A)
    BY DEF Listed
<1>2. 0 \in S
  <2> SUFFICES ASSUME NEW k \in Nodes, k[1] = 0 PROVE Sent(k) = Resolution(t, k, e)
    OBVIOUS
  <2>1. k \notin Parents
    BY NodeFacts
  <2>2. Resolution(t, k, e) = Listed(t, e, {k[2]}) /\ Resolution(t, k, {}) = Listed(t, {}, {k[2]})
    BY <2>1, ResolutionLeaf
  <2> QED
    BY <1>1, <2>2
<1>3. ASSUME NEW l \in Nat, l \in S PROVE l + 1 \in S
  <2> SUFFICES ASSUME NEW k \in Nodes, k[1] = l + 1 PROVE Sent(k) = Resolution(t, k, e)
    OBVIOUS
  <2>1. k \in Parents /\ k[1] # 0
    BY NodeFacts
  <2>2. CASE t.parent[k] # Blank
    <3>1. /\ Resolution(t, k, e) = {k} \cup Listed(t, e, t.parent[k].unmerged)
          /\ Resolution(t, k, {}) = {k} \cup Listed(t, {}, t.parent[k].unmerged)
        BY <2>1, <2>2, ResolutionKept
    <3>2. {x \in Listed(t, {}, t.parent[k].unmerged) : x[1] # 0 \/ x[2] \notin e}
            = Listed(t, e, t.parent[k].unmerged)
        BY <1>1
    <3> QED
        BY <2>1, <3>1, <3>2
  <2>3. CASE t.parent[k] = Blank
    <3>1. /\ Resolution(t, k, e) = Resolution(t, Left(k), e) \cup Resolution(t, Right(k), e)
          /\ Resolution(t, k, {}) = Resolution(t, Left(k), {}) \cup Resolution(t, Right(k), {})
        BY <2>1, <2>3, ResolutionBlank
    <3>2. /\ Left(k) \in Nodes /\ Right(k) \in Nodes /\ Left(k)[1] = l /\ Right(k)[1] = l
        BY <2>1, Children
    <3>3. Sent(Left(k)) = Resolution(t, Left(k), e) /\ Sent(Right(k)) = Resolution(t, Right(k), e)
      <4> HIDE DEF Sent
      <4> QED
        BY <1>3, <3>2
    <3> QED
        BY <3>1, <3>3
  <2> QED
    BY <2>2, <2>3
<1>4. Nat \subseteq S
  <2> HIDE DEF S
  <2> QED
    BY <1>2, <1>3, Induction
<1>5. n[1] \in Nat
    BY NodeFacts, LeavesAre
<1>6. Sent(n) = Resolution(t, n, e)
  <2> HIDE DEF Sent
  <2> QED
    BY <1>4, <1>5
<1> QED
    BY <1>6

\* A resolution has at most one element for each member.
LEMMA ResolutionSize ==
    ASSUME NEW t \in TreeType, NEW e, NEW n \in Nodes, GoodUnder(t, n), IsFiniteSet(Members(t))
    PROVE  /\ IsFiniteSet(Resolution(t, n, e))
           /\ Cardinality(Resolution(t, n, e)) <= Cardinality(Members(t))
<1> DEFINE R == Resolution(t, n, e)
           f == [x \in R |-> CHOOSE m \in Members(t) : Holds(t, m, x)]
<1>1. ASSUME NEW x \in R PROVE f[x] \in Members(t) /\ Holds(t, f[x], x)
    BY HeldUnder
<1>2. f \in [R -> Members(t)]
  <2>1. f = [x \in R |-> f[x]]
    OBVIOUS
  <2> HIDE DEF f
  <2> QED
    BY <1>1, <2>1
<1>3. ASSUME NEW x \in R, NEW y \in R, f[x] = f[y] PROVE x = y
  <2> HIDE DEF f
  <2> QED
    BY <1>1, <1>3, HeldOnce
<1>4. f \in Injection(R, Members(t))
  <2> HIDE DEF f
  <2> QED
    BY <1>2, <1>3, Zenon DEF Injection, IsInjective
<1> QED
    BY <1>4, FS_Injection

-----------------------------------------------------------------------------
(* Update paths *)

GoodTree(t) == \A n \in Parents : ~Beyond(t.size, n) => Good(t, n)

\* Good off the path of `a`: what a tree that was trimmed and has grown again is.
GoodOff(t, a) == \A n \in Parents : ~Beyond(t.size, n) /\ n \notin OnPath(t, a) => Good(t, n)

LEMMA BelowPower ==
    ASSUME NEW i \in Nat, NEW d \in Nat
    PROVE  i < 2 ^ d <=> i \div 2 ^ d = 0
<1>1. PICK p \in Nat : p = 2 ^ d /\ p >= 1
    BY PowType
<1>2. i < p => i \div p = 0
  <2> SUFFICES ASSUME i < p PROVE i \div p = 0
    OBVIOUS
  <2>1. 0 * p <= i /\ i < (0 + 1) * p
    BY <1>1
  <2> QED
    BY <1>1, <2>1, DivFacts
<1>3. i \div p = 0 => i < p
  <2>1. i < (i \div p + 1) * p
    BY <1>1, DivFacts
  <2>2. i \div p = 0 => (i \div p + 1) * p = p
    BY <1>1
  <2> QED
    BY <2>1, <2>2
<1> QED
    BY <1>1, <1>2, <1>3

\* Above one leaf of the tree, two leaves with a common ancestor are both in the tree.
LEMMA KinInTree ==
    ASSUME NEW d \in Nat, NEW i \in Nat, NEW a \in Nat, a < 2 ^ d,
           NEW l \in 0 .. d, i \div 2 ^ l = a \div 2 ^ l
    PROVE  i < 2 ^ d
<1>1. l \in Nat /\ l <= d
    OBVIOUS
<1>2. i \div 2 ^ d = a \div 2 ^ d
    BY <1>1, KinAbove
<1> QED
    BY <1>2, BelowPower

LEMMA NodeInhabited ==
    ASSUME NEW n \in Nodes
    PROVE  \E i \in Leaves : i \in Nat /\ i \in Under(n)
<1>1. PICK i \in Leaves : n[2] = i \div 2 ^ n[1]
    BY NodeFacts
<1>2. i \in Nat
    BY LeavesAre
<1> QED
    BY <1>1, <1>2, NodeFacts

\* The subtrees beside the path of a leaf are off its path.
LEMMA CopathGood ==
    ASSUME NEW t, NEW d \in 0 .. Height + 1, t.size = 2 ^ d, NEW a \in Leaves, a < 2 ^ d,
           GoodOff(t, a), NEW l \in 1 .. d
    PROVE  /\ Copath(t, a)[l] \in Nodes
           /\ GoodUnder(t, Copath(t, a)[l])
<1> DEFINE c == Copath(t, a)[l]
<1>0. c \in Nodes
    BY CopathNode
<1>1. \A m : m \in Under(c) <=>
            m \in Nat /\ m \div 2 ^ l = a \div 2 ^ l /\ m \div 2 ^ (l - 1) # a \div 2 ^ (l - 1)
    BY CopathUnder
<1>2. d \in Nat /\ a \in Nat /\ l \in 0 .. d /\ l \in Nat
    BY LeavesAre
<1> HIDE DEF c
<1>3. ASSUME NEW k \in Parents, Under(k) \subseteq Under(c)
      PROVE  Good(t, k)
  <2>1. k \in Nodes
    BY DEF Nodes
  <2>2. PICK i \in Leaves : i \in Nat /\ i \in Under(k)
    BY <2>1, NodeInhabited
  <2>3. i \div 2 ^ l = a \div 2 ^ l
    BY <1>1, <1>3, <2>2
  <2>4. i < 2 ^ d
    BY <1>2, <2>2, <2>3, KinInTree
  <2>5. a \notin Under(k)
    BY <1>1, <1>3
  <2>6. k \notin OnPath(t, a)
    BY <2>5, OnPathIs
  <2>7. k[1] <= d
    <3> SUFFICES ASSUME d < k[1] PROVE FALSE
        BY <1>2, <2>1, NodeFacts, LeavesAre
    <3>1. k[1] \in Nat /\ l <= k[1]
        BY <1>2, <2>1, NodeFacts, LeavesAre
    <3>2. i \div 2 ^ k[1] = a \div 2 ^ k[1]
        BY <1>2, <2>2, <2>3, <3>1, KinAbove
    <3> QED
        BY <1>2, <2>1, <2>2, <2>5, <3>2, NodeFacts
  <2>8. ~Beyond(t.size, k)
    BY <2>1, <2>2, <2>4, <2>7, Inside
  <2> QED
    BY <2>6, <2>8 DEF GoodOff
<1> QED
    BY <1>0, <1>3 DEF GoodUnder, c

\* The filtered direct path: the levels at which somebody is below the other child.
LEMMA FilteredIs ==
    ASSUME NEW t \in TreeType, NEW d \in 0 .. Height + 1, t.size = 2 ^ d,
           NEW a \in Leaves, a < 2 ^ d, GoodOff(t, a)
    PROVE  /\ Filtered(t, a) \subseteq 1 .. d
           /\ \A l \in 1 .. d : l \in Filtered(t, a) <=>
                \E m \in Members(t) : /\ m \div 2 ^ l = a \div 2 ^ l
                                      /\ m \div 2 ^ (l - 1) # a \div 2 ^ (l - 1)
<1>1. Depth(t) = d
    BY DepthIs
<1>2. Members(t) \subseteq Nat
    BY LeavesAre DEF Members, TreeType
<1>3. ASSUME NEW l \in 1 .. d
      PROVE  l \in Filtered(t, a) <=>
                \E m \in Members(t) : /\ m \div 2 ^ l = a \div 2 ^ l
                                      /\ m \div 2 ^ (l - 1) # a \div 2 ^ (l - 1)
  <2>1. Resolution(t, Copath(t, a)[l], {}) # {} <=> Under(Copath(t, a)[l]) \cap Members(t) # {}
    BY CopathGood, ResolutionEmpty
  <2>2. \A m : m \in Under(Copath(t, a)[l]) <=>
          m \in Nat /\ m \div 2 ^ l = a \div 2 ^ l /\ m \div 2 ^ (l - 1) # a \div 2 ^ (l - 1)
    BY CopathUnder
  <2>3. l \in Filtered(t, a) <=> Under(Copath(t, a)[l]) \cap Members(t) # {}
    BY <1>1, <2>1 DEF Filtered
  <2> QED
    BY <1>2, <2>2, <2>3
<1>4. Filtered(t, a) \subseteq 1 .. d
    BY <1>1 DEF Filtered
<1> QED
    BY <1>3, <1>4

LEMMA MeetIs ==
    ASSUME NEW t, NEW d \in 0 .. Height + 1, t.size = 2 ^ d,
           NEW i \in Leaves, NEW j \in Leaves, i # j, i < 2 ^ d, j < 2 ^ d
    PROVE  LET l == Meet(t, i, j) IN
           /\ l \in 1 .. d
           /\ i \div 2 ^ l = j \div 2 ^ l
           /\ i \div 2 ^ (l - 1) # j \div 2 ^ (l - 1)
           /\ \A k \in 0 .. d : i \div 2 ^ k = j \div 2 ^ k <=> l <= k
<1> DEFINE T == {k \in 0 .. d : i \div 2 ^ k = j \div 2 ^ k}
           Meets(l) == /\ i \div 2 ^ l = j \div 2 ^ l
                       /\ i \div 2 ^ (l - 1) # j \div 2 ^ (l - 1)
<1>1. i \in Nat /\ j \in Nat /\ d \in Nat /\ Depth(t) = d
    BY LeavesAre, DepthIs
<1>2. i \div 2 ^ d = 0 /\ j \div 2 ^ d = 0
    BY <1>1, BelowPower
<1>3. T \in SUBSET Nat /\ d \in T
    BY <1>1, <1>2
<1>4. PICK l \in T : \A k \in T : l <= k
  <2> HIDE DEF T
  <2> QED
    BY <1>3, LeastNumber
<1>5. l # 0
    BY <1>1, DivZero
<1>6. l \in 1 .. d /\ l - 1 \in 0 .. d /\ l \in Nat
    BY <1>1, <1>5
<1>7. Meets(l)
  <2>1. l - 1 \notin T
    BY <1>4, <1>6
  <2> QED
    BY <1>6, <2>1
<1>8. Meet(t, i, j) = CHOOSE k \in 1 .. d : Meets(k)
    BY <1>1 DEF Meet
<1>9. PICK m : m = Meet(t, i, j)
    OBVIOUS
<1>10. m \in 1 .. d /\ Meets(m)
  <2> HIDE DEF Meets
  <2> QED
    BY <1>6, <1>7, <1>8, <1>9
<1>11. \A k \in 0 .. d : i \div 2 ^ k = j \div 2 ^ k <=> m <= k
  <2> TAKE k \in 0 .. d
  <2>1. k \in Nat /\ m \in Nat /\ m - 1 \in Nat
    BY <1>1, <1>10
  <2>2. CASE m <= k
    BY <1>1, <1>10, <2>1, <2>2, KinAbove
  <2>3. CASE k <= m - 1
    <3>1. i \div 2 ^ k = j \div 2 ^ k => i \div 2 ^ (m - 1) = j \div 2 ^ (m - 1)
        BY <1>1, <2>1, <2>3, KinAbove
    <3> QED
        BY <1>10, <2>1, <2>3, <3>1
  <2> QED
    BY <2>1, <2>2, <2>3
<1> QED
    BY <1>9, <1>10, <1>11

\* Two leaves that part at a parent are under different children of it.
LEMMA TwoSides ==
    ASSUME NEW n \in Parents, NEW a \in Under(n), NEW m \in Under(n),
           a \div 2 ^ (n[1] - 1) # m \div 2 ^ (n[1] - 1)
    PROVE  \/ a \in Under(Left(n)) /\ m \in Under(Right(n))
           \/ m \in Under(Left(n)) /\ a \in Under(Right(n))
<1>1. /\ Left(n) \in Nodes /\ Right(n) \in Nodes
      /\ Left(n)[1] = n[1] - 1 /\ Right(n)[1] = n[1] - 1
      /\ Under(n) = Under(Left(n)) \cup Under(Right(n))
    BY Children
<1>2. ~(a \in Under(Left(n)) /\ m \in Under(Left(n)))
  <2>1. \A i : i \in Under(Left(n)) => i \div 2 ^ Left(n)[1] = Left(n)[2]
    BY <1>1, NodeFacts
  <2> QED
    BY <1>1, <2>1
<1>3. ~(a \in Under(Right(n)) /\ m \in Under(Right(n)))
  <2>1. \A i : i \in Under(Right(n)) => i \div 2 ^ Right(n)[1] = Right(n)[2]
    BY <1>1, NodeFacts
  <2> QED
    BY <1>1, <2>1
<1> QED
    BY <1>1, <1>2, <1>3

LEMMA MembersAre ==
    ASSUME NEW t \in TreeType, NEW m \in Members(t)
    PROVE  m \in Leaves /\ m \in Nat /\ m < t.size /\ m # Former
<1>1. m \in Leaves /\ m < t.size
    BY DEF Members, TreeType
<1> QED
    BY <1>1, LeavesAre, TreeConstants DEF Leaves

\* What the author sends at a level is what a receiver sees there.
LEMMA SentIsSeen ==
    ASSUME NEW t, NEW d \in 0 .. Height + 1, t.size = 2 ^ d, NEW a \in Leaves,
           NEW l \in 1 .. d, NEW e
    PROVE  Recipients(t, a, l, e) = Resolution(t, Copath(t, a)[l], e)
<1>1. Copath(t, a)[l] \in Nodes
    BY CopathNode
<1> QED
    BY <1>1, FilteredResolution DEF Recipients

\* Who can read a ciphertext is a member below the copath node of its level.
LEMMA ReadersAre ==
    ASSUME NEW t \in TreeType, NEW d \in 0 .. Height + 1, t.size = 2 ^ d, NEW a \in Leaves,
           a < 2 ^ d, GoodOff(t, a), NEW l \in 1 .. d, NEW e,
           NEW x \in Recipients(t, a, l, e), NEW m, Holds(t, m, x)
    PROVE  /\ m \in Members(t)
           /\ m \div 2 ^ l = a \div 2 ^ l /\ m \div 2 ^ (l - 1) # a \div 2 ^ (l - 1)
           /\ m \in e => x \in Parents /\ t.parent[x] # Blank /\ ~Beyond(t.size, x) /\ m \in t.parent[x].holders
<1> DEFINE c == Copath(t, a)[l]
<1>1. c \in Nodes /\ GoodUnder(t, c)
    BY CopathGood
<1>2. x \in Resolution(t, c, e)
    BY SentIsSeen
<1> HIDE DEF c
<1>3. m \in Under(x) /\ m \in Members(t)
    BY <1>1, <1>2, HeldUnder
<1>4. x \in Nodes /\ Under(x) \subseteq Under(c)
    BY <1>1, <1>2, ResolutionElements
<1>5. m \in Under(c)
    BY <1>3, <1>4
<1>6. m \div 2 ^ l = a \div 2 ^ l /\ m \div 2 ^ (l - 1) # a \div 2 ^ (l - 1)
    BY <1>5, CopathUnder DEF c
<1>7. ASSUME m \in e
      PROVE  x \in Parents /\ t.parent[x] # Blank /\ ~Beyond(t.size, x) /\ m \in t.parent[x].holders
  <2>1. ~(x[1] = 0 /\ x[2] \in Members(t) \ e)
    BY <1>7 DEF Holds
  <2>2. x \in Parents /\ t.parent[x] # Blank
    BY <1>1, <1>2, <2>1, ResolutionElements
  <2>3. x[1] # 0
    BY <1>4, <2>2, NodeFacts
  <2>4. m \in t.parent[x].holders
    BY <2>3 DEF Holds
  <2>5. ~Beyond(t.size, x)
    <3>1. m < 2 ^ d
        BY <1>3, MembersAre
    <3>2. x[1] <= l
      <4>1. x[1] \in Nat /\ l \in Nat /\ m \in Nat /\ a \in Nat
        BY <1>3, <1>4, NodeFacts, LeavesAre, MembersAre
      <4> SUFFICES ASSUME l < x[1] PROVE FALSE
        BY <4>1
      <4>2. a \div 2 ^ x[1] = m \div 2 ^ x[1]
        BY <1>6, <4>1, KinAbove
      <4>3. m \div 2 ^ x[1] = x[2]
        BY <1>3, <1>4, NodeFacts
      <4>4. a \in Under(x)
        BY <1>4, <4>1, <4>2, <4>3, NodeFacts
      <4>5. a \in Under(c)
        BY <1>4, <4>4
      <4> QED
        BY <4>5, CopathUnder DEF c
    <3>3. x[1] <= d /\ d \in Nat
        BY <1>4, <3>2, NodeFacts, LeavesAre
    <3> QED
        BY <1>3, <1>4, <3>1, <3>3, Inside
  <2> QED
    BY <2>2, <2>4, <2>5
<1> QED
    BY <1>3, <1>6, <1>7

\* A member that stays finds one key it holds, and the ciphertext at its place is for it.
LEMMA StaysReads ==
    ASSUME NEW t \in TreeType, NEW d \in 0 .. Height + 1, t.size = 2 ^ d,
           NEW a \in Members(t), GoodOff(t, a), NEW e, NEW m \in Members(t) \ (e \cup {a})
    PROVE  /\ Decrypts(t, a, m, e)
           /\ \E x \in Recipients(t, a, Meet(t, a, m), e) :
                /\ Holds(t, m, x)
                /\ \A y \in Recipients(t, a, Meet(t, a, m), e) : Holds(t, m, y) => y = x
<1>1. a \in Leaves /\ m \in Leaves /\ a # m /\ a < 2 ^ d /\ m < 2 ^ d /\ m \in Nat
    BY MembersAre
<1>2. PICK l : l = Meet(t, a, m)
    OBVIOUS
<1>3. l \in 1 .. d /\ a \div 2 ^ l = m \div 2 ^ l /\ a \div 2 ^ (l - 1) # m \div 2 ^ (l - 1)
    BY <1>1, <1>2, MeetIs
<1>4. PICK c : c = Copath(t, a)[l]
    OBVIOUS
<1>5. c \in Nodes /\ GoodUnder(t, c)
    BY <1>1, <1>3, <1>4, CopathGood
<1>6. m \in (Under(c) \cap Members(t)) \ e
    BY <1>1, <1>3, <1>4, CopathUnder
<1>7. PICK R : R = Resolution(t, c, e)
    OBVIOUS
<1>8. PICK x \in R : Holds(t, m, x)
    BY <1>5, <1>6, <1>7, HeldExists
<1>9. \A y \in R : Holds(t, m, y) => y = x
    BY <1>5, <1>7, <1>8, HeldOnce
<1>10. ~Precedes(x, x)
  <2>1. x \in Nodes
    BY <1>5, <1>7, ResolutionElements
  <2>2. x[1] \in Nat /\ x[2] \in Nat
    BY <2>1, NodeFacts, LeavesAre
  <2>3. PICK p \in Nat : p = 2 ^ x[1]
    BY <2>2, PowType
  <2>4. PICK f \in Nat : f = x[2] * p
    BY <2>2
  <2> QED
    BY <2>2, <2>3, <2>4 DEF Precedes
<1>11. Seen(t, a, m, e) = R
    BY <1>2, <1>4, <1>7 DEF Seen
<1>12. Recipients(t, a, l, e) = R
    BY <1>1, <1>3, <1>4, <1>7, SentIsSeen
<1>13. FirstHeld(t, m, R) \in R /\ Holds(t, m, FirstHeld(t, m, R))
  <2> DEFINE First(z) == Holds(t, m, z) /\ \A y \in R : Precedes(y, z) => ~Holds(t, m, y)
  <2>1. First(x)
    BY <1>8, <1>9, <1>10
  <2>2. FirstHeld(t, m, R) = CHOOSE z \in R : First(z)
    BY DEF FirstHeld
  <2>3. FirstHeld(t, m, R) \in R /\ First(FirstHeld(t, m, R))
    <3> HIDE DEF First
    <3> QED
        BY <1>8, <2>1, <2>2
  <2> QED
    BY <2>3
<1>14. Decrypts(t, a, m, e)
    BY <1>2, <1>8, <1>11, <1>12, <1>13 DEF Decrypts
<1> QED
    BY <1>2, <1>8, <1>9, <1>12, <1>14

\* No new leaf holds the key of a parent.
Fresh(t, e) ==
    \A n \in Parents : ~Beyond(t.size, n) /\ t.parent[n] # Blank => t.parent[n].holders \cap e = {}

\* One ciphertext for each member that stays, and none for anybody else.
LEMMA PathReadOnce ==
    ASSUME NEW t \in TreeType, NEW d \in 0 .. Height + 1, t.size = 2 ^ d,
           NEW a \in Members(t), GoodOff(t, a), NEW e, Fresh(t, e)
    PROVE  ReadOnce(t, a, e)
<1> DEFINE sent == [l \in Filtered(t, a) |-> Recipients(t, a, l, e)]
           readable(m) == {r \in UNION {{l} \X sent[l] : l \in DOMAIN sent} : Holds(t, m, r[2])}
<1>1. a \in Leaves /\ a < 2 ^ d /\ a \in Nat /\ Former \notin Members(t)
    BY MembersAre
<1>2. \A m, r : r \in readable(m) <=>
         \E l \in Filtered(t, a) : \E x \in Recipients(t, a, l, e) : r = <<l, x>> /\ Holds(t, m, x)
    OBVIOUS
<1>3. Filtered(t, a) \subseteq 1 .. d
    BY <1>1, FilteredIs
<1> HIDE DEF readable
<1>4. ASSUME NEW m \in Members(t) \ (e \cup {a})
      PROVE  Decrypts(t, a, m, e) /\ Cardinality(readable(m)) = 1
  <2>1. m \in Leaves /\ m # a /\ m < 2 ^ d /\ m \in Nat
    BY MembersAre
  <2>2. PICK l : l = Meet(t, a, m)
    OBVIOUS
  <2>3. /\ l \in 1 .. d /\ a \div 2 ^ l = m \div 2 ^ l /\ a \div 2 ^ (l - 1) # m \div 2 ^ (l - 1)
        /\ \A k \in 0 .. d : a \div 2 ^ k = m \div 2 ^ k <=> l <= k
    BY <1>1, <2>1, <2>2, MeetIs
  <2>4. PICK x \in Recipients(t, a, l, e) :
          /\ Holds(t, m, x)
          /\ \A y \in Recipients(t, a, l, e) : Holds(t, m, y) => y = x
    BY <2>2, StaysReads
  <2>5. l \in Filtered(t, a)
    BY <1>1, <2>3, FilteredIs
  <2>6. ASSUME NEW k \in Filtered(t, a), NEW y \in Recipients(t, a, k, e), Holds(t, m, y)
        PROVE  k = l /\ y = x
    <3>1. k \in 1 .. d
        BY <1>3
    <3>2. m \div 2 ^ k = a \div 2 ^ k /\ m \div 2 ^ (k - 1) # a \div 2 ^ (k - 1)
        BY <1>1, <2>6, <3>1, ReadersAre
    <3>3. k \in 0 .. d /\ k - 1 \in 0 .. d /\ k \in Int /\ l \in Int
        BY <2>3, <3>1, LeavesAre
    <3>4. l <= k /\ ~(l <= k - 1)
        BY <2>3, <3>2, <3>3
    <3>5. k = l
        BY <3>3, <3>4
    <3> QED
        BY <2>4, <2>6, <3>5
  <2>7. readable(m) = {<<l, x>>}
    BY <1>2, <2>4, <2>5, <2>6
  <2> QED
    BY <2>7, FS_Singleton, StaysReads
<1>5. ASSUME NEW m \in e \cup {Former} PROVE readable(m) = {}
  <2> SUFFICES ASSUME NEW l \in Filtered(t, a), NEW x \in Recipients(t, a, l, e), Holds(t, m, x)
               PROVE  FALSE
    BY <1>2
  <2>1. l \in 1 .. d
    BY <1>3
  <2>2. m \in Members(t)
    BY <1>1, <2>1, ReadersAre
  <2>3. m \in e
    BY <1>1, <2>2
  <2>4. x \in Parents /\ t.parent[x] # Blank /\ ~Beyond(t.size, x) /\ m \in t.parent[x].holders
    BY <1>1, <2>1, <2>3, ReadersAre
  <2> QED
    BY <2>3, <2>4 DEF Fresh
<1> QED
    BY <1>4, <1>5 DEF ReadOnce, readable

\* A path gives each of its parents to the members below it, and to nobody else.
LEMMA PathSetIs ==
    ASSUME NEW t \in TreeType, NEW d \in 0 .. Height + 1, t.size = 2 ^ d,
           NEW a \in Members(t), GoodOff(t, a), NEW e, NEW n \in Parents
    PROVE  PathSet(t, a, e).parent[n] =
             IF n \notin OnPath(t, a) THEN t.parent[n]
             ELSE IF n[1] \in Filtered(t, a)
                  THEN [holders |-> Under(n) \cap Members(t), unmerged |-> {}]
                  ELSE Blank
<1> DEFINE levels == Filtered(t, a)
           readers == {m \in Members(t) \ {a} : m \in e \/ Decrypts(t, a, m, e)}
           exposed == {l \in levels : \E x \in Recipients(t, a, l, e) : Holds(t, Former, x)}
           learners(l) == {a} \cup {m \in readers : Meet(t, a, m) <= l}
                          \cup {f \in {Former} : \E k \in exposed : k <= l}
<1>1. a \in Leaves /\ a < 2 ^ d /\ a \in Nat /\ Former \notin Members(t)
    BY MembersAre
<1>2. levels \subseteq 1 .. d
    BY <1>1, FilteredIs
<1>3. readers = Members(t) \ {a}
    BY StaysReads
<1>4. exposed = {}
  <2> SUFFICES ASSUME NEW l \in levels, NEW x \in Recipients(t, a, l, e), Holds(t, Former, x)
               PROVE  FALSE
    OBVIOUS
  <2>1. l \in 1 .. d
    BY <1>2
  <2>2. Former \in Members(t)
    BY <1>1, <2>1, ReadersAre
  <2> QED
    BY <1>1, <2>2
<1>5. ASSUME n \in OnPath(t, a) PROVE learners(n[1]) = Under(n) \cap Members(t)
  <2>1. a \in Under(n) /\ n[1] <= d
    BY <1>1, <1>5, OnPathIs
  <2>2. n \in Nodes
    BY DEF Nodes
  <2>3. n[1] \in 0 .. d /\ a \div 2 ^ n[1] = n[2]
    BY <2>1, <2>2, NodeFacts, LeavesAre
  <2>4. learners(n[1]) = {a} \cup {m \in Members(t) \ {a} : Meet(t, a, m) <= n[1]}
    BY <1>3, <1>4
  <2>5. ASSUME NEW m \in Members(t) \ {a} PROVE Meet(t, a, m) <= n[1] <=> m \in Under(n)
    <3>1. m \in Leaves /\ m < 2 ^ d /\ m \in Nat /\ m # a
        BY MembersAre
    <3>2. a \div 2 ^ n[1] = m \div 2 ^ n[1] <=> Meet(t, a, m) <= n[1]
        BY <1>1, <2>3, <3>1, MeetIs
    <3>3. m \in Under(n) <=> m \div 2 ^ n[1] = n[2]
        BY <2>2, <3>1, NodeFacts
    <3> QED
        BY <2>3, <3>2, <3>3
  <2> QED
    BY <2>1, <2>4, <2>5
<1>6. PathSet(t, a, e).parent[n] =
        IF n \notin OnPath(t, a) THEN t.parent[n]
        ELSE IF n[1] \in levels THEN [holders |-> learners(n[1]), unmerged |-> {}]
        ELSE Blank
    BY DEF PathSet, TreeType
<1> HIDE DEF learners
<1> QED
    BY <1>5, <1>6

LEMMA PathSetGood ==
    ASSUME NEW t \in TreeType, NEW d \in 0 .. Height + 1, t.size = 2 ^ d,
           NEW a \in Members(t), GoodOff(t, a), NEW e
    PROVE  /\ PathSet(t, a, e) \in TreeType
           /\ PathSet(t, a, e).size = t.size
           /\ Members(PathSet(t, a, e)) = Members(t)
           /\ GoodTree(PathSet(t, a, e))
<1>1. PICK p : p = PathSet(t, a, e)
    OBVIOUS
<1>2. p.size = t.size /\ p.leaves = t.leaves
    BY <1>1 DEF PathSet, TreeType
<1>3. Members(p) = Members(t)
    BY <1>2 DEF Members
<1>4. a \in Leaves /\ a < 2 ^ d /\ a \in Nat /\ Members(t) \subseteq Leaves
    BY MembersAre
<1>5. \A n \in Parents :
        p.parent[n] = IF n \notin OnPath(t, a) THEN t.parent[n]
                      ELSE IF n[1] \in Filtered(t, a)
                           THEN [holders |-> Under(n) \cap Members(t), unmerged |-> {}]
                           ELSE Blank
    BY <1>1, PathSetIs
<1>6. \A n \in Parents : t.parent[n] \in NodeType \cup {Blank}
    BY DEF TreeType
<1>7. \A n \in Parents : [holders |-> Under(n) \cap Members(t), unmerged |-> {}] \in NodeType
    BY <1>4 DEF NodeType
<1>8. \A n \in Parents : p.parent[n] \in NodeType \cup {Blank}
    BY <1>5, <1>6, <1>7
<1>9. p = [size |-> p.size, leaves |-> p.leaves, parent |-> [n \in Parents |-> p.parent[n]]]
    BY <1>1 DEF PathSet, TreeType
<1>10. p \in TreeType
  <2>1. [n \in Parents |-> p.parent[n]] \in [Parents -> NodeType \cup {Blank}]
    BY <1>8
  <2>2. p.size \in Nat /\ p.leaves \in SUBSET Leaves
    BY <1>2 DEF TreeType
  <2> QED
    BY <1>9, <2>1, <2>2 DEF TreeType
<1>11. ASSUME NEW n \in Parents, ~Beyond(p.size, n) PROVE Good(p, n)
  <2>1. CASE n \notin OnPath(t, a)
    <3>1. Good(t, n) /\ p.parent[n] = t.parent[n]
        BY <1>2, <1>5, <1>11, <2>1 DEF GoodOff
    <3> QED
        BY <1>3, <3>1 DEF Good
  <2>2. CASE n \in OnPath(t, a) /\ n[1] \in Filtered(t, a)
    <3>1. p.parent[n] = [holders |-> Under(n) \cap Members(t), unmerged |-> {}]
        BY <1>5, <2>2
    <3>2. a \in Under(n) /\ n[1] <= d
        BY <1>4, <2>2, OnPathIs
    <3>3. n \in Nodes
        BY DEF Nodes
    <3>4. n[1] \in 1 .. d
        BY <3>2, <3>3, NodeFacts, LeavesAre
    <3>5. PICK m \in Members(t) : /\ m \div 2 ^ n[1] = a \div 2 ^ n[1]
                                  /\ m \div 2 ^ (n[1] - 1) # a \div 2 ^ (n[1] - 1)
        BY <1>4, <2>2, <3>4, FilteredIs
    <3>6. m \in Under(n)
      <4>1. a \div 2 ^ n[1] = n[2]
        BY <3>2, <3>3, NodeFacts
      <4>2. m \in Nat
        BY MembersAre
      <4> QED
        BY <3>3, <3>5, <4>1, <4>2, NodeFacts
    <3>7. \/ a \in Under(Left(n)) /\ m \in Under(Right(n))
          \/ m \in Under(Left(n)) /\ a \in Under(Right(n))
        BY <3>2, <3>5, <3>6, TwoSides
    <3>8. /\ Under(Left(n)) \cap Members(t) # {}
          /\ Under(Right(n)) \cap Members(t) # {}
          /\ Under(n) \cap Members(t) # {}
        BY <3>2, <3>5, <3>7
    <3> QED
        BY <1>3, <3>1, <3>8 DEF Good
  <2>3. CASE n \in OnPath(t, a) /\ n[1] \notin Filtered(t, a)
    BY <1>5, <2>3 DEF Good
  <2> QED
    BY <2>1, <2>2, <2>3
<1>12. GoodTree(p)
    BY <1>11 DEF GoodTree
<1> QED
    BY <1>1, <1>2, <1>3, <1>10, <1>12

-----------------------------------------------------------------------------
(* A tree between two Commits, and the changes of a diff *)

Sound(t) ==
    /\ t \in TreeType
    /\ t.leaves = Members(t)
    /\ \A n \in Parents : Good(t, n)
    /\ \A n \in Parents : Beyond(t.size, n) => t.parent[n] = Blank

LEMMA GoodOffAny ==
    ASSUME NEW t, GoodTree(t), NEW a
    PROVE  GoodOff(t, a)
  BY DEF GoodTree, GoodOff

\* merge_commit finds every key of a member: the parent is on its filtered path.
LEMMA OwnedIs ==
    ASSUME NEW t \in TreeType, NEW d \in 0 .. Height + 1, t.size = 2 ^ d, GoodTree(t),
           NEW n \in Parents, ~Beyond(t.size, n), t.parent[n] # Blank,
           NEW m \in t.parent[n].holders
    PROVE  m \in Members(t) /\ n \in Owned(t, m)
<1>1. Good(t, n)
    BY DEF GoodTree
<1>2. m \in Under(n) /\ m \in Members(t) /\ m \notin t.parent[n].unmerged
    BY <1>1 DEF Good
<1>3. m \in Leaves /\ m < 2 ^ d /\ m \in Nat
    BY <1>2, MembersAre
<1>4. n \in Nodes
    BY DEF Nodes
<1>5. n[1] <= d
    BY <1>4, Inside
<1>6. n[1] \in 1 .. d /\ n = <<n[1], n[2]>> /\ m \div 2 ^ n[1] = n[2]
  <2>1. n[1] \in Nat /\ n[1] >= 1 /\ d \in Nat
    BY <1>4, NodeFacts, LeavesAre
  <2>2. n = <<n[1], n[2]>> /\ m \div 2 ^ n[1] = n[2]
    BY <1>2, <1>4, NodeFacts
  <2> QED
    BY <1>5, <2>1, <2>2
<1>7. DirectPath(t, m)[n[1]] = n
    BY <1>3, <1>6, OnPathIs
<1>8. \E j \in Members(t) : /\ j \div 2 ^ n[1] = m \div 2 ^ n[1]
                            /\ j \div 2 ^ (n[1] - 1) # m \div 2 ^ (n[1] - 1)
  <2>1. /\ Left(n) \in Nodes /\ Right(n) \in Nodes
        /\ Left(n)[1] = n[1] - 1 /\ Right(n)[1] = n[1] - 1
        /\ Under(n) = Under(Left(n)) \cup Under(Right(n))
        /\ Under(Left(n)) \cap Under(Right(n)) = {}
    BY Children
  <2>2. PICK i \in Members(t), j \in Members(t) : i \in Under(Left(n)) /\ j \in Under(Right(n))
    BY <1>1 DEF Good
  <2>3. \A k \in Under(n) : k \div 2 ^ n[1] = m \div 2 ^ n[1]
    BY <1>4, <1>6, NodeFacts
  <2>4. PICK k \in {i, j} : k \div 2 ^ (n[1] - 1) # m \div 2 ^ (n[1] - 1)
    <3> SUFFICES ASSUME i \div 2 ^ (n[1] - 1) = m \div 2 ^ (n[1] - 1),
                        j \div 2 ^ (n[1] - 1) = m \div 2 ^ (n[1] - 1)
                 PROVE  FALSE
        OBVIOUS
    <3>1. i \div 2 ^ Left(n)[1] = Left(n)[2] /\ i \in Nat /\ j \in Nat
        BY <2>1, <2>2, NodeFacts, MembersAre
    <3>2. j \div 2 ^ Left(n)[1] = Left(n)[2]
        BY <2>1, <3>1
    <3>3. j \in Under(Left(n))
        BY <2>1, <3>1, <3>2, NodeFacts
    <3> QED
        BY <2>1, <2>2, <3>3
  <2>5. k \in Under(n) /\ k \in Members(t)
    BY <2>1, <2>2
  <2> QED
    BY <2>3, <2>4, <2>5
<1>9. GoodOff(t, m)
    BY GoodOffAny
<1>10. n[1] \in Filtered(t, m)
    BY <1>3, <1>6, <1>8, <1>9, FilteredIs
<1> QED
    BY <1>2, <1>7, <1>10 DEF Owned

LEMMA MergedIs ==
    ASSUME NEW t \in TreeType, NEW d \in 0 .. Height + 1, t.size = 2 ^ d, GoodTree(t)
    PROVE  /\ Sound(Merged(t))
           /\ Merged(t).size = t.size
           /\ Members(Merged(t)) = Members(t)
<1>1. PICK g : g = Merged(t)
    OBVIOUS
<1>2. g.size = t.size /\ g.leaves = Members(t)
    BY <1>1 DEF Merged
<1>3. Members(g) = Members(t)
    BY <1>2 DEF Members
<1>4. ASSUME NEW n \in Parents, Beyond(t.size, n) \/ t.parent[n] = Blank
      PROVE  g.parent[n] = Blank
    BY <1>1, <1>4 DEF Merged
<1>5. ASSUME NEW n \in Parents, ~Beyond(t.size, n), t.parent[n] # Blank
      PROVE  g.parent[n] = t.parent[n]
  <2>1. t.parent[n] \in NodeType
    BY <1>5 DEF TreeType
  <2>2. \A m \in t.parent[n].holders : m \in Members(t) /\ n \in Owned(t, m)
    BY <1>5, OwnedIs
  <2>3. {m \in t.parent[n].holders : m = Former \/ (m \in Members(t) /\ n \in Owned(t, m))}
            = t.parent[n].holders
    BY <2>2
  <2>4. g.parent[n] = [t.parent[n] EXCEPT !.holders =
            {m \in t.parent[n].holders : m = Former \/ (m \in Members(t) /\ n \in Owned(t, m))}]
    BY <1>1, <1>5 DEF Merged
  <2>5. [t.parent[n] EXCEPT !.holders = t.parent[n].holders] = t.parent[n]
    BY <2>1 DEF NodeType
  <2> QED
    BY <2>3, <2>4, <2>5
<1>6. \A n \in Parents : g.parent[n] = Blank \/ (~Beyond(t.size, n) /\ g.parent[n] = t.parent[n])
    BY <1>4, <1>5
<1>7. g \in TreeType
  <2>1. \A n \in Parents : g.parent[n] \in NodeType \cup {Blank}
    BY <1>6 DEF TreeType
  <2>2. g = [size |-> g.size, leaves |-> g.leaves, parent |-> [n \in Parents |-> g.parent[n]]]
    BY <1>1 DEF Merged
  <2>3. [n \in Parents |-> g.parent[n]] \in [Parents -> NodeType \cup {Blank}]
    BY <2>1
  <2>4. g.size \in Nat /\ g.leaves \in SUBSET Leaves
    BY <1>2, MembersAre DEF TreeType
  <2> QED
    BY <2>2, <2>3, <2>4 DEF TreeType
<1>8. ASSUME NEW n \in Parents PROVE Good(g, n)
    BY <1>3, <1>6 DEF Good, GoodTree
<1>9. \A n \in Parents : Beyond(g.size, n) => g.parent[n] = Blank
    BY <1>2, <1>4
<1> QED
    BY <1>1, <1>2, <1>3, <1>7, <1>8, <1>9 DEF Sound

\* The free leaf is no member's; it is a new one only if the tree is full.
LEMMA FreeLeafIs ==
    ASSUME NEW t \in TreeType
    PROVE  /\ FreeLeaf(t) \in Nat /\ FreeLeaf(t) <= t.size /\ FreeLeaf(t) \notin Members(t)
           /\ FreeLeaf(t) = t.size => Members(t) = 0 .. t.size - 1
<1>1. t.size \in Nat /\ Members(t) \subseteq 0 .. t.size - 1
  <2>1. t.size \in Nat
    BY DEF TreeType
  <2>2. \A m \in Members(t) : m \in Nat /\ m < t.size
    BY MembersAre
  <2> QED
    BY <2>1, <2>2
<1>2. CASE Members(t) = 0 .. t.size - 1
    BY <1>1, <1>2 DEF FreeLeaf
<1>3. CASE Members(t) # 0 .. t.size - 1
  <2> DEFINE T == (0 .. t.size - 1) \ Members(t)
             Free(i) == i \notin Members(t) /\ 0 .. i - 1 \subseteq Members(t)
  <2>0. 0 .. t.size - 1 \subseteq Nat
    BY <1>1
  <2>1. T # {} /\ T \in SUBSET Nat
    BY <1>1, <1>3, <2>0
  <2>2. PICK x \in T : \A y \in T : x <= y
    <3> HIDE DEF T
    <3> QED
        BY <2>1, LeastNumber
  <2>3. Free(x) /\ x \in 0 .. t.size - 1
    BY <1>1, <2>2
  <2>4. FreeLeaf(t) = CHOOSE i \in 0 .. t.size - 1 : Free(i)
    BY <1>3 DEF FreeLeaf
  <2>5. FreeLeaf(t) \in 0 .. t.size - 1 /\ Free(FreeLeaf(t))
    <3> HIDE DEF Free
    <3> QED
        BY <2>3, <2>4
  <2> QED
    BY <1>1, <2>5
<1> QED
    BY <1>2, <1>3

LEMMA MembersFinite ==
    ASSUME NEW t \in TreeType
    PROVE  IsFiniteSet(Members(t)) /\ Cardinality(Members(t)) \in Nat
<1>1. IsFiniteSet(Leaves)
  <2>1. 2 * MaxLeaves - 1 \in Int
    BY LeavesAre
  <2> QED
    BY <2>1, FS_Interval DEF Leaves
<1>2. Members(t) \subseteq Leaves
    BY MembersAre
<1> QED
    BY <1>1, <1>2, FS_Subset, FS_CardinalityType

LEMMA AddLeafIs ==
    ASSUME NEW t \in TreeType, NEW d \in 0 .. Height + 1, t.size = 2 ^ d,
           NEW i \in Leaves, i = FreeLeaf(t), i = t.size => d <= Height
    PROVE  /\ AddLeaf(t) \in TreeType
           /\ AddLeaf(t).leaves = t.leaves \cup {i}
           /\ i = t.size => AddLeaf(t).size = 2 * t.size
           /\ i # t.size => AddLeaf(t).size = t.size
           /\ \E e \in 0 .. Height + 1 : d <= e /\ AddLeaf(t).size = 2 ^ e
           /\ i < AddLeaf(t).size
           /\ \A n \in Parents : t.parent[n] = Blank => AddLeaf(t).parent[n] = Blank
           /\ \A n \in Parents : t.parent[n] # Blank =>
                /\ AddLeaf(t).parent[n] \in NodeType
                /\ AddLeaf(t).parent[n].holders = t.parent[n].holders
                /\ i \notin Under(n) => AddLeaf(t).parent[n] = t.parent[n]
                /\ i \in Under(n) /\ ~Beyond(AddLeaf(t).size, n) =>
                     AddLeaf(t).parent[n].unmerged = t.parent[n].unmerged \cup {i}
                /\ AddLeaf(t).parent[n].unmerged \subseteq t.parent[n].unmerged \cup {i}
<1> DEFINE grown == [t EXCEPT !.size = IF i < t.size THEN t.size ELSE 2 * t.size]
<1>1. PICK r : r = AddLeaf(t)
    OBVIOUS
<1>2. t.size \in Nat /\ i \in Nat /\ i <= t.size /\ t.size >= 1 /\ d \in Nat /\ Height \in Nat
    BY FreeLeafIs, LeavesAre, PowType DEF TreeType
<1>3. PICK g : g = grown
    OBVIOUS
<1>4. /\ g.size = (IF i < t.size THEN t.size ELSE 2 * t.size)
      /\ g.leaves = t.leaves /\ g.parent = t.parent
    BY <1>3 DEF TreeType
<1>5. /\ r.size = g.size /\ r.leaves = t.leaves \cup {i}
      /\ r = [size |-> r.size, leaves |-> r.leaves, parent |-> r.parent]
      /\ r.parent = [n \in Parents |->
                IF n \in OnPath(g, i) /\ t.parent[n] # Blank
                THEN [t.parent[n] EXCEPT !.unmerged = @ \cup {i}]
                ELSE t.parent[n]]
    BY <1>1, <1>3 DEF AddLeaf, TreeType
<1>6. PICK e \in 0 .. Height + 1 : d <= e /\ g.size = 2 ^ e
  <2>1. CASE i < t.size
    BY <1>2, <1>4, <2>1
  <2>2. CASE ~(i < t.size)
    <3>1. i = t.size /\ d <= Height
        BY <1>2, <2>2
    <3>2. g.size = 2 ^ (d + 1)
        BY <1>2, <1>4, <2>2, PowNext
    <3>3. d + 1 \in 0 .. Height + 1 /\ d <= d + 1
        BY <1>2, <3>1
    <3> QED
        BY <3>2, <3>3
  <2> QED
    BY <2>1, <2>2
<1>7. i < r.size
    BY <1>2, <1>4, <1>5
<1>8. \A n \in Parents : n \in OnPath(g, i) <=> i \in Under(n) /\ n[1] <= e
    BY <1>6, OnPathIs
<1>9. ASSUME NEW n \in Parents, i \in Under(n), ~Beyond(r.size, n) PROVE n \in OnPath(g, i)
  <2>1. n \in Nodes
    BY DEF Nodes
  <2>2. n[1] <= e
    BY <1>5, <1>6, <1>9, <2>1, Inside
  <2> QED
    BY <1>8, <1>9, <2>2
<1>10. ASSUME NEW n \in Parents, t.parent[n] = Blank PROVE r.parent[n] = Blank
    BY <1>5, <1>10
<1>11. ASSUME NEW n \in Parents, t.parent[n] # Blank
       PROVE  /\ r.parent[n] \in NodeType
              /\ r.parent[n].holders = t.parent[n].holders
              /\ i \notin Under(n) => r.parent[n] = t.parent[n]
              /\ i \in Under(n) /\ ~Beyond(r.size, n) =>
                    r.parent[n].unmerged = t.parent[n].unmerged \cup {i}
              /\ r.parent[n].unmerged \subseteq t.parent[n].unmerged \cup {i}
  <2>1. t.parent[n] \in NodeType
    BY <1>11 DEF TreeType
  <2>2. CASE n \in OnPath(g, i)
    <3>1. r.parent[n] = [t.parent[n] EXCEPT !.unmerged = @ \cup {i}]
        BY <1>5, <1>11, <2>2
    <3>2. /\ r.parent[n] \in NodeType
          /\ r.parent[n].holders = t.parent[n].holders
          /\ r.parent[n].unmerged = t.parent[n].unmerged \cup {i}
        BY <2>1, <3>1 DEF NodeType
    <3>3. i \in Under(n)
        BY <1>8, <2>2
    <3> QED
        BY <3>2, <3>3
  <2>3. CASE n \notin OnPath(g, i)
    <3>1. r.parent[n] = t.parent[n]
        BY <1>5, <2>3
    <3>2. ~(i \in Under(n) /\ ~Beyond(r.size, n))
        BY <1>9, <2>3
    <3> QED
        BY <2>1, <3>1, <3>2
  <2> QED
    BY <2>2, <2>3
<1>12. r \in TreeType
  <2>1. \A n \in Parents : r.parent[n] \in NodeType \cup {Blank}
    BY <1>10, <1>11
  <2>2. r.parent = [n \in Parents |-> r.parent[n]]
    BY <1>5
  <2>3. r.parent \in [Parents -> NodeType \cup {Blank}]
    BY <2>1, <2>2
  <2>4. r.size \in Nat /\ r.leaves \in SUBSET Leaves
    BY <1>2, <1>4, <1>5 DEF TreeType
  <2> QED
    BY <1>5, <2>3, <2>4 DEF TreeType
<1>13. (i = t.size => r.size = 2 * t.size) /\ (i # t.size => r.size = t.size)
    BY <1>2, <1>4, <1>5
<1>14. \E x \in 0 .. Height + 1 : d <= x /\ r.size = 2 ^ x
    BY <1>5, <1>6
<1>15. r.leaves = t.leaves \cup {i}
    BY <1>5
<1> QED
    BY <1>1, <1>7, <1>10, <1>11, <1>12, <1>13, <1>14, <1>15

\* A parent stays good when a leaf is added, if no other leaf appears below it.
LEMMA AddLeafGood ==
    ASSUME NEW t \in TreeType, NEW d \in 0 .. Height + 1, t.size = 2 ^ d,
           NEW i \in Leaves, i = FreeLeaf(t), i = t.size => d <= Height,
           NEW n \in Parents, Good(t, n), ~Beyond(AddLeaf(t).size, n),
           Under(n) \cap Members(AddLeaf(t)) = Under(n) \cap (Members(t) \cup {i})
    PROVE  Good(AddLeaf(t), n)
<1>1. PICK r : r = AddLeaf(t)
    OBVIOUS
<1>2. i \notin Members(t)
    BY FreeLeafIs
<1>3. CASE t.parent[n] = Blank
    BY <1>3, AddLeafIs DEF Good
<1>4. CASE t.parent[n] # Blank
  <2>1. r.parent[n].holders = t.parent[n].holders
    BY <1>1, <1>4, AddLeafIs
  <2>2. i \notin Under(n) => r.parent[n] = t.parent[n]
    BY <1>1, <1>4, AddLeafIs
  <2>3. i \in Under(n) => r.parent[n].unmerged = t.parent[n].unmerged \cup {i}
    BY <1>1, <1>4, AddLeafIs
  <2>4. /\ t.parent[n].holders = (Under(n) \cap Members(t)) \ t.parent[n].unmerged
        /\ t.parent[n].unmerged \subseteq Under(n) \cap Members(t)
        /\ t.parent[n].holders # {}
        /\ Under(Left(n)) \cap Members(t) # {}
        /\ Under(Right(n)) \cap Members(t) # {}
    BY <1>4 DEF Good
  <2>5. Under(n) = Under(Left(n)) \cup Under(Right(n))
    BY Children
  <2>6. Under(n) \cap Members(r) = Under(n) \cap (Members(t) \cup {i})
    BY <1>1
  <2>7. /\ Under(Left(n)) \cap Members(r) # {}
        /\ Under(Right(n)) \cap Members(r) # {}
    BY <2>4, <2>5, <2>6
  <2>8. /\ r.parent[n].holders = (Under(n) \cap Members(r)) \ r.parent[n].unmerged
        /\ r.parent[n].unmerged \subseteq Under(n) \cap Members(r)
    <3>1. CASE i \in Under(n)
        BY <1>2, <2>1, <2>3, <2>4, <2>6, <3>1
    <3>2. CASE i \notin Under(n)
        BY <2>1, <2>2, <2>4, <2>6, <3>2
    <3> QED
        BY <3>1, <3>2
  <2> QED
    BY <1>1, <2>1, <2>4, <2>7, <2>8 DEF Good
<1> QED
    BY <1>3, <1>4

LEMMA BeyondLess ==
    ASSUME NEW n \in Parents, NEW s \in Nat, NEW w \in Nat, s <= w, Beyond(w, n)
    PROVE  Beyond(s, n)
<1>1. n \in Nodes
    BY DEF Nodes
<1>2. n[1] \in Nat /\ n[2] \in Nat
    BY <1>1, NodeFacts, LeavesAre
<1>3. PICK p \in Nat : p = 2 ^ n[1]
    BY <1>2, PowType
<1>4. PICK b \in Nat : b = (n[2] + 1) * p
    BY <1>2
<1> QED
    BY <1>3, <1>4 DEF Beyond

\* Within the limit there is a leaf to add, and the tree stays sound.
LEMMA SoundAdd ==
    ASSUME NEW t, Sound(t), NEW d \in 0 .. Height, t.size = 2 ^ d,
           Cardinality(Members(t)) < MaxLeaves
    PROVE  /\ Sound(AddLeaf(t))
           /\ \E e \in 0 .. Height : AddLeaf(t).size = 2 ^ e
           /\ FreeLeaf(t) \notin Members(t)
           /\ Members(AddLeaf(t)) = Members(t) \cup {FreeLeaf(t)}
           /\ \A n \in Parents : AddLeaf(t).parent[n] # Blank =>
                t.parent[n] # Blank /\ AddLeaf(t).parent[n].holders = t.parent[n].holders
<1>1. PICK i : i = FreeLeaf(t)
    OBVIOUS
<1>2. PICK r : r = AddLeaf(t)
    OBVIOUS
<1>3. t \in TreeType /\ t.leaves = Members(t) /\ t.size \in Nat
    BY DEF Sound, TreeType
<1>4. d \in Nat /\ d \in 0 .. Height + 1 /\ Height \in Nat
    BY LeavesAre
<1>5. i \in Nat /\ i <= t.size /\ i \notin Members(t)
    BY <1>1, <1>3, FreeLeafIs
<1>6. i = t.size => d < Height
  <2> SUFFICES ASSUME i = t.size PROVE d < Height
    OBVIOUS
  <2>1. Members(t) = 0 .. t.size - 1
    BY <1>1, <1>3, FreeLeafIs
  <2>2. t.size >= 1 /\ 0 \in Int /\ t.size - 1 \in Int
    BY <1>3, <1>4, PowType
  <2>3. Cardinality(0 .. t.size - 1) = IF 0 > t.size - 1 THEN 0 ELSE (t.size - 1) - 0 + 1
    BY <2>2, FS_Interval
  <2>4. Cardinality(Members(t)) = t.size
    BY <2>1, <2>2, <2>3
  <2>5. t.size < 2 ^ Height
    BY <2>4 DEF MaxLeaves
  <2>6. Height <= d => 2 ^ Height <= 2 ^ d
    BY <1>4, PowMono
  <2>7. 2 ^ Height \in Nat
    BY <1>4, PowType
  <2> QED
    BY <1>3, <1>4, <2>5, <2>6, <2>7
<1>7. i \in Leaves
  <2>1. 2 ^ d <= 2 ^ Height /\ 2 * 2 ^ Height = 2 ^ (Height + 1)
    BY <1>4, PowMono, PowNext
  <2>2. 2 ^ Height \in Nat /\ 2 ^ Height >= 1
    BY <1>4, PowType
  <2>3. i < 2 ^ (Height + 1)
    BY <1>3, <1>5, <2>1, <2>2
  <2> QED
    BY <1>5, <2>3, LeavesAre
<1>8. r \in TreeType /\ r.leaves = t.leaves \cup {i} /\ i < r.size
    BY <1>1, <1>2, <1>3, <1>4, <1>6, <1>7, AddLeafIs
<1>9. (i = t.size => r.size = 2 * t.size) /\ (i # t.size => r.size = t.size)
    BY <1>1, <1>2, <1>3, <1>4, <1>6, <1>7, AddLeafIs
<1>10. t.size <= r.size
    BY <1>3, <1>9
<1>11. Members(r) = Members(t) \cup {i}
  <2>1. \A m \in Members(t) : m \in Nat /\ m < t.size
    BY <1>3, MembersAre
  <2>2. \A m \in Members(t) : m < r.size
    BY <1>3, <1>8, <1>10, <2>1 DEF TreeType
  <2> QED
    BY <1>3, <1>8, <2>2 DEF Members
<1>12. \E e \in 0 .. Height : r.size = 2 ^ e
  <2>1. CASE i = t.size
    <3>1. r.size = 2 ^ (d + 1)
        BY <1>4, <1>9, <2>1, PowNext
    <3>2. d + 1 \in 0 .. Height
        BY <1>4, <1>6, <2>1
    <3> QED
        BY <3>1, <3>2
  <2>2. CASE i # t.size
    BY <1>9, <2>2
  <2> QED
    BY <2>1, <2>2
<1>13. ASSUME NEW n \in Parents, Beyond(r.size, n) PROVE r.parent[n] = Blank
  <2>1. Beyond(t.size, n)
    BY <1>3, <1>8, <1>10, <1>13, BeyondLess DEF TreeType
  <2>2. t.parent[n] = Blank
    BY <2>1 DEF Sound
  <2> QED
    BY <1>1, <1>2, <1>3, <1>4, <1>6, <1>7, <2>2, AddLeafIs
<1>14. ASSUME NEW n \in Parents PROVE Good(r, n)
  <2>1. CASE Beyond(r.size, n)
    BY <1>13, <2>1 DEF Good
  <2>2. CASE ~Beyond(r.size, n)
    <3>1. Good(t, n)
        BY DEF Sound
    <3> QED
        BY <1>1, <1>2, <1>3, <1>4, <1>6, <1>7, <1>11, <2>2, <3>1, AddLeafGood
  <2> QED
    BY <2>1, <2>2
<1>15. ASSUME NEW n \in Parents, r.parent[n] # Blank
       PROVE  t.parent[n] # Blank /\ r.parent[n].holders = t.parent[n].holders
  <2>1. t.parent[n] # Blank
    BY <1>1, <1>2, <1>3, <1>4, <1>6, <1>7, <1>15, AddLeafIs
  <2> QED
    BY <1>1, <1>2, <1>3, <1>4, <1>6, <1>7, <2>1, AddLeafIs
<1>16. Sound(r)
    BY <1>3, <1>8, <1>11, <1>13, <1>14 DEF Sound
<1> QED
    BY <1>1, <1>2, <1>5, <1>11, <1>12, <1>15, <1>16

LEMMA AddedExists ==
    ASSUME NEW t, NEW count \in Nat
    PROVE  \E f : f = [k \in 0 .. count |-> IF k = 0 THEN t ELSE AddLeaf(f[k - 1])]
<1> DEFINE Up(f, j) == \A k \in 0 .. j : f[k] = IF k = 0 THEN t ELSE AddLeaf(f[k - 1])
           S == {j \in Nat : \E f : Up(f, j)}
<1>1. 0 \in S
  <2> DEFINE f == [k \in {0} |-> t]
  <2>1. Up(f, 0)
    OBVIOUS
  <2> HIDE DEF Up, f
  <2> QED
    BY <2>1
<1>2. ASSUME NEW j \in Nat, j \in S PROVE j + 1 \in S
  <2>1. PICK f : Up(f, j)
    BY <1>2
  <2> DEFINE g == [k \in 0 .. j + 1 |-> IF k <= j THEN f[k] ELSE AddLeaf(f[j])]
  <2>2. ASSUME NEW k \in 0 .. j + 1 PROVE g[k] = IF k = 0 THEN t ELSE AddLeaf(g[k - 1])
    <3>1. CASE k = 0
        BY <2>1, <3>1
    <3>2. CASE k \in 1 .. j
      <4>1. k - 1 \in 0 .. j + 1 /\ k - 1 <= j /\ k \in 0 .. j + 1 /\ k \in 0 .. j
        BY <3>2
      <4>2. g[k] = f[k] /\ g[k - 1] = f[k - 1]
        BY <3>2, <4>1
      <4>3. f[k] = AddLeaf(f[k - 1])
        BY <2>1, <3>2, <4>1
      <4> QED
        BY <3>2, <4>2, <4>3
    <3>3. CASE k = j + 1
      <4>1. k - 1 = j /\ j \in 0 .. j + 1 /\ ~(k <= j)
        BY <3>3
      <4>2. g[k] = AddLeaf(f[j]) /\ g[j] = f[j]
        BY <3>3, <4>1
      <4> QED
        BY <3>3, <4>1, <4>2
    <3> QED
        BY <3>1, <3>2, <3>3
  <2>3. Up(g, j + 1)
    <3> HIDE DEF g
    <3> QED
        BY <2>2
  <2>4. \E h : Up(h, j + 1)
    <3> HIDE DEF Up, g
    <3> QED
        BY <2>3
  <2> QED
    BY <2>4
<1>3. Nat \subseteq S
  <2> HIDE DEF S
  <2> QED
    BY <1>1, <1>2, Induction
<1>4. PICK f : Up(f, count)
    BY <1>3
<1> DEFINE h == [k \in 0 .. count |-> f[k]]
<1>5. ASSUME NEW k \in 0 .. count PROVE h[k] = IF k = 0 THEN t ELSE AddLeaf(h[k - 1])
  <2>1. k # 0 => k - 1 \in 0 .. count
    OBVIOUS
  <2> QED
    BY <1>4, <2>1
<1>6. h = [k \in 0 .. count |-> IF k = 0 THEN t ELSE AddLeaf(h[k - 1])]
  <2>1. h = [k \in 0 .. count |-> h[k]]
    OBVIOUS
  <2> HIDE DEF h
  <2> QED
    BY <1>5, <2>1
<1> QED
    BY <1>6

LEMMA AddLeavesAre ==
    ASSUME NEW t, Sound(t), \E d \in 0 .. Height : t.size = 2 ^ d, NEW count \in Nat,
           Cardinality(Members(t)) + count <= MaxLeaves
    PROVE  /\ Sound(AddLeaves(t, count))
           /\ \E e \in 0 .. Height : AddLeaves(t, count).size = 2 ^ e
           /\ Members(t) \subseteq Members(AddLeaves(t, count))
           /\ Cardinality(Members(AddLeaves(t, count))) = Cardinality(Members(t)) + count
           /\ \A n \in Parents : AddLeaves(t, count).parent[n] # Blank =>
                /\ t.parent[n] # Blank
                /\ AddLeaves(t, count).parent[n].holders = t.parent[n].holders
<1> DEFINE f == CHOOSE g : g = [k \in 0 .. count |-> IF k = 0 THEN t ELSE AddLeaf(g[k - 1])]
<1>1. f = [k \in 0 .. count |-> IF k = 0 THEN t ELSE AddLeaf(f[k - 1])]
    BY AddedExists
<1>2. AddLeaves(t, count) = f[count]
    BY DEF AddLeaves
<1> HIDE DEF f
<1> DEFINE Kept(r, k) ==
             /\ Sound(r)
             /\ \E e \in 0 .. Height : r.size = 2 ^ e
             /\ Members(t) \subseteq Members(r)
             /\ Cardinality(Members(r)) = Cardinality(Members(t)) + k
             /\ \A n \in Parents : r.parent[n] # Blank =>
                  t.parent[n] # Blank /\ r.parent[n].holders = t.parent[n].holders
           S == {k \in Nat : k <= count => Kept(f[k], k)}
<1>3. Cardinality(Members(t)) \in Nat
    BY MembersFinite DEF Sound
<1>4. 0 \in S
  <2>1. f[0] = t
    BY <1>1
  <2>2. Kept(t, 0)
    BY <1>3
  <2> HIDE DEF Kept
  <2> QED
    BY <2>1, <2>2
<1>5. ASSUME NEW k \in Nat, k \in S PROVE k + 1 \in S
  <2> SUFFICES ASSUME k + 1 <= count PROVE Kept(f[k + 1], k + 1)
    OBVIOUS
  <2>1. f[k + 1] = AddLeaf(f[k])
    <3>1. k + 1 \in 0 .. count /\ k + 1 # 0 /\ (k + 1) - 1 = k
        OBVIOUS
    <3> QED
        BY <1>1, <3>1
  <2>2. PICK r : r = f[k]
    OBVIOUS
  <2>3. Kept(r, k)
    BY <1>5, <2>2
  <2>4. PICK e \in 0 .. Height : r.size = 2 ^ e
    BY <2>3
  <2>5. Cardinality(Members(r)) < MaxLeaves
    BY <1>3, <2>3, LeavesAre
  <2>6. Sound(r)
    BY <2>3
  <2>7. /\ Sound(AddLeaf(r))
        /\ \E x \in 0 .. Height : AddLeaf(r).size = 2 ^ x
        /\ FreeLeaf(r) \notin Members(r)
        /\ Members(AddLeaf(r)) = Members(r) \cup {FreeLeaf(r)}
        /\ \A n \in Parents : AddLeaf(r).parent[n] # Blank =>
                r.parent[n] # Blank /\ AddLeaf(r).parent[n].holders = r.parent[n].holders
    BY <2>4, <2>5, <2>6, SoundAdd
  <2>8. Cardinality(Members(AddLeaf(r))) = Cardinality(Members(r)) + 1
    <3>1. IsFiniteSet(Members(r))
        BY <2>6, MembersFinite DEF Sound
    <3> QED
        BY <2>7, <3>1, FS_AddElement
  <2>9. Kept(AddLeaf(r), k + 1)
    BY <1>3, <2>3, <2>7, <2>8
  <2> HIDE DEF Kept
  <2> QED
    BY <2>1, <2>2, <2>9
<1>6. Nat \subseteq S
  <2> HIDE DEF S
  <2> QED
    BY <1>4, <1>5, Induction
<1>7. Kept(f[count], count)
  <2> HIDE DEF Kept
  <2> QED
    BY <1>6
<1> QED
    BY <1>2, <1>7

LEMMA DepartedIs ==
    ASSUME NEW t \in TreeType, NEW R
    PROVE  /\ Departed(t, R) \in TreeType
           /\ Departed(t, R).size = t.size /\ Departed(t, R).leaves = t.leaves
           /\ \A n \in Parents : t.parent[n] = Blank => Departed(t, R).parent[n] = Blank
           /\ \A n \in Parents : t.parent[n] # Blank =>
                /\ Departed(t, R).parent[n].unmerged = t.parent[n].unmerged
                /\ t.parent[n].holders \cap R = {} => Departed(t, R).parent[n] = t.parent[n]
<1> DEFINE renamed(S) == IF S \cap R = {} THEN S ELSE (S \ R) \cup {Former}
<1>1. PICK o : o = Departed(t, R)
    OBVIOUS
<1>2. /\ o.size = t.size /\ o.leaves = t.leaves
      /\ o = [size |-> o.size, leaves |-> o.leaves, parent |-> o.parent]
      /\ o.parent = [n \in Parents |->
            IF t.parent[n] = Blank THEN Blank
            ELSE [t.parent[n] EXCEPT !.holders = renamed(@)]]
    BY <1>1 DEF Departed, TreeType
<1>3. \A n \in Parents : t.parent[n] = Blank => o.parent[n] = Blank
    BY <1>2
<1>4. ASSUME NEW n \in Parents, t.parent[n] # Blank
      PROVE  /\ o.parent[n] \in NodeType
             /\ o.parent[n].unmerged = t.parent[n].unmerged
             /\ t.parent[n].holders \cap R = {} => o.parent[n] = t.parent[n]
  <2>1. t.parent[n] \in NodeType
    BY <1>4 DEF TreeType
  <2>2. o.parent[n] = [t.parent[n] EXCEPT !.holders = renamed(t.parent[n].holders)]
    BY <1>2, <1>4
  <2>3. renamed(t.parent[n].holders) \subseteq Leaves \cup {Former}
    BY <2>1 DEF NodeType
  <2>4. t.parent[n].holders \cap R = {} => renamed(t.parent[n].holders) = t.parent[n].holders
    OBVIOUS
  <2> HIDE DEF renamed
  <2> QED
    BY <2>1, <2>2, <2>3, <2>4 DEF NodeType
<1>5. o \in TreeType
  <2>1. \A n \in Parents : o.parent[n] \in NodeType \cup {Blank}
    BY <1>3, <1>4
  <2>2. o.parent = [n \in Parents |-> o.parent[n]]
    BY <1>2
  <2>3. o.parent \in [Parents -> NodeType \cup {Blank}]
    BY <2>1, <2>2
  <2>4. o.size \in Nat /\ o.leaves \in SUBSET Leaves
    BY <1>2 DEF TreeType
  <2> QED
    BY <1>2, <2>3, <2>4 DEF TreeType
<1>6. o.size = t.size /\ o.leaves = t.leaves
    BY <1>2
<1> QED
    BY <1>1, <1>3, <1>4, <1>5, <1>6

\* What is left of a tree when leaves are removed is as it was: no parent that is left
\* has a removed leaf below it, so no removed installation holds its key.
LEMMA BlankedIs ==
    ASSUME NEW t, Sound(t), NEW d \in 0 .. Height, t.size = 2 ^ d, NEW R \in SUBSET Members(t)
    PROVE  LET b == BlankLeaves(Departed(t, R), R) IN
           /\ Sound(b) /\ b.size = t.size /\ Members(b) = Members(t) \ R
<1>1. PICK o : o = Departed(t, R)
    OBVIOUS
<1>2. PICK b : b = BlankLeaves(o, R)
    OBVIOUS
<1>3. t \in TreeType /\ t.leaves = Members(t)
    BY DEF Sound
<1>4. o \in TreeType /\ o.size = t.size /\ o.leaves = t.leaves
    BY <1>1, <1>3, DepartedIs
<1>5. /\ b.size = t.size /\ b.leaves = t.leaves \ R
      /\ b = [size |-> b.size, leaves |-> b.leaves, parent |-> b.parent]
      /\ b.parent = [n \in Parents |->
            IF \E i \in R : n \in OnPath(o, i) THEN Blank ELSE o.parent[n]]
    BY <1>2, <1>4 DEF BlankLeaves, TreeType
<1>6. Members(b) = Members(t) \ R /\ b.leaves = Members(b)
    BY <1>3, <1>5 DEF Members
<1>7. d \in 0 .. Height + 1 /\ o.size = 2 ^ d
    BY <1>4, LeavesAre
<1>8. ASSUME NEW n \in Parents, b.parent[n] # Blank
      PROVE  t.parent[n] # Blank /\ b.parent[n] = t.parent[n] /\ Under(n) \cap R = {}
  <2>1. ~(\E i \in R : n \in OnPath(o, i)) /\ b.parent[n] = o.parent[n]
    BY <1>5, <1>8
  <2>2. t.parent[n] # Blank
    BY <1>1, <1>3, <1>8, <2>1, DepartedIs
  <2>3. ~Beyond(2 ^ d, n)
    BY <2>2 DEF Sound
  <2>4. n \in Nodes
    BY DEF Nodes
  <2>5. n[1] <= d
    BY <1>7, <2>3, <2>4, Inside
  <2>6. ASSUME NEW i \in R, i \in Under(n) PROVE FALSE
    <3>1. i \in Leaves
        BY <1>3, MembersAre
    <3>2. n \in OnPath(o, i)
        BY <1>7, <2>5, <2>6, <3>1, OnPathIs
    <3> QED
        BY <2>1, <3>2
  <2>7. t.parent[n].holders \subseteq Under(n)
    BY <2>2 DEF Sound, Good
  <2>8. o.parent[n] = t.parent[n]
    BY <1>1, <1>3, <2>2, <2>6, <2>7, DepartedIs
  <2> QED
    BY <2>1, <2>2, <2>6, <2>8
<1>9. b \in TreeType
  <2>1. \A n \in Parents : b.parent[n] \in NodeType \cup {Blank}
    BY <1>3, <1>8 DEF TreeType
  <2>2. b.parent = [n \in Parents |-> b.parent[n]]
    BY <1>5
  <2>3. b.parent \in [Parents -> NodeType \cup {Blank}]
    BY <2>1, <2>2
  <2>4. b.size \in Nat /\ b.leaves \in SUBSET Leaves
    BY <1>3, <1>5 DEF TreeType
  <2> QED
    BY <1>5, <2>3, <2>4 DEF TreeType
<1>10. ASSUME NEW n \in Parents PROVE Good(b, n)
  <2> SUFFICES ASSUME b.parent[n] # Blank PROVE Good(b, n)
    BY DEF Good
  <2>1. Good(t, n)
    BY DEF Sound
  <2>2. t.parent[n] # Blank /\ b.parent[n] = t.parent[n] /\ Under(n) \cap R = {}
    BY <1>8
  <2>3. Under(n) = Under(Left(n)) \cup Under(Right(n))
    BY Children
  <2>4. /\ Under(n) \cap Members(b) = Under(n) \cap Members(t)
        /\ Under(Left(n)) \cap Members(b) = Under(Left(n)) \cap Members(t)
        /\ Under(Right(n)) \cap Members(b) = Under(Right(n)) \cap Members(t)
    BY <1>6, <2>2, <2>3
  <2> QED
    BY <2>1, <2>2, <2>4 DEF Good
<1>11. \A n \in Parents : Beyond(b.size, n) => b.parent[n] = Blank
    BY <1>5, <1>8 DEF Sound
<1>12. Sound(b)
    BY <1>6, <1>9, <1>10, <1>11 DEF Sound
<1> QED
    BY <1>1, <1>2, <1>5, <1>6, <1>12

LEMMA WidthIs ==
    ASSUME NEW d \in 0 .. Height + 1, NEW M \in SUBSET Nat, \A i \in M : i < 2 ^ d
    PROVE  /\ \E e \in 0 .. Height + 1 : Width(M) = 2 ^ e
           /\ \A i \in M : i < Width(M)
<1> DEFINE T == {e \in 0 .. d : \A i \in M : i < 2 ^ e}
           Fits(s) == (\A i \in M : i < s) /\ (s > 1 => \E i \in M : 2 * i >= s)
<1>1. d \in Nat /\ Height \in Nat
    BY LeavesAre
<1>a. d \in T
    BY <1>1
<1>b. 0 .. d \subseteq Nat
    BY <1>1
<1>2. T # {} /\ T \in SUBSET Nat
    BY <1>a, <1>b
<1>3. PICK e \in T : \A x \in T : e <= x
  <2> HIDE DEF T
  <2> QED
    BY <1>2, LeastNumber
<1>4. e \in 0 .. d /\ e \in Nat /\ \A i \in M : i < 2 ^ e
    BY <1>3
<1>5. Fits(2 ^ e)
  <2> SUFFICES ASSUME 2 ^ e > 1 PROVE \E i \in M : 2 * i >= 2 ^ e
    BY <1>4
  <2>0. e = 0 => 2 ^ e = 1
    BY PowZero
  <2>1. e # 0
    BY <2>0
  <2>2. PICK k \in Nat : k = e - 1 /\ e = k + 1
    BY <1>4, <2>1
  <2>3. k \in 0 .. d /\ ~(e <= k)
    BY <1>1, <1>4, <2>2
  <2>4. k \notin T
    BY <1>3, <2>3
  <2>5. PICK i \in M : ~(i < 2 ^ k)
    BY <2>3, <2>4
  <2>6. 2 ^ e = 2 * 2 ^ k /\ 2 ^ k \in Nat
    BY <2>2, PowNext, PowType
  <2>7. 2 * i >= 2 ^ e
    BY <2>5, <2>6
  <2> QED
    BY <2>7
<1>6. 2 ^ e \in {2 ^ x : x \in 0 .. Height + 1}
    BY <1>1, <1>4
<1>7. Width(M) = CHOOSE s \in {2 ^ x : x \in 0 .. Height + 1} : Fits(s)
    BY DEF Width
<1>8. Width(M) \in {2 ^ x : x \in 0 .. Height + 1} /\ Fits(Width(M))
  <2> HIDE DEF Fits
  <2> QED
    BY <1>5, <1>6, <1>7
<1> QED
    BY <1>8

\* trim_tree drops no member; what is beyond the new size comes from the original tree.
LEMMA TrimIs ==
    ASSUME NEW o \in TreeType, NEW b, Sound(b), NEW d \in 0 .. Height, b.size = 2 ^ d
    PROVE  /\ Trim(o, b) \in TreeType
           /\ \E e \in 0 .. Height : e <= d /\ Trim(o, b).size = 2 ^ e
           /\ Members(Trim(o, b)) = Members(b)
           /\ GoodTree(Trim(o, b))
           /\ \A n \in Parents : ~Beyond(Trim(o, b).size, n) => Trim(o, b).parent[n] = b.parent[n]
           /\ \A n \in Parents : Trim(o, b).parent[n] \in {b.parent[n], o.parent[n]}
           /\ Trim(o, b).leaves \subseteq Members(b) \cup o.leaves
           /\ Trim(o, b).size < b.size \/ Trim(o, b) = b
<1>1. PICK r : r = Trim(o, b)
    OBVIOUS
<1>2. PICK w : w = Width(Members(b))
    OBVIOUS
<1>3. b \in TreeType /\ b.leaves = Members(b) /\ b.size \in Nat /\ d \in Nat /\ Height \in Nat
    BY LeavesAre DEF Sound, TreeType
<1>4. Members(b) \in SUBSET Nat /\ \A i \in Members(b) : i < 2 ^ d
    BY <1>3, MembersAre
<1>5. d \in 0 .. Height + 1
    BY <1>3
<1>6. PICK e \in 0 .. Height + 1 : w = 2 ^ e
    BY <1>2, <1>4, <1>5, WidthIs
<1>7. \A i \in Members(b) : i < w
    BY <1>2, <1>4, <1>5, WidthIs
<1>8. e \in Nat /\ w \in Nat
    BY <1>3, <1>6, PowType
<1>9. CASE w < b.size
  <2>1. r = Shrink(o, b, w)
    BY <1>1, <1>2, <1>9 DEF Trim
  <2>2. /\ r.size = w
        /\ r.leaves = {i \in b.leaves : i < w} \cup {i \in o.leaves : i >= w}
        /\ r = [size |-> r.size, leaves |-> r.leaves, parent |-> r.parent]
        /\ r.parent = [n \in Parents |-> IF Beyond(w, n) THEN o.parent[n] ELSE b.parent[n]]
    BY <2>1 DEF Shrink
  <2>3. r.leaves = Members(b) \cup {i \in o.leaves : i >= w}
    BY <1>3, <1>7, <2>2
  <2>4. Members(r) = Members(b)
    <3>1. \A i \in o.leaves : i >= w => ~(i < w)
      <4>1. o.leaves \subseteq Nat
        BY LeavesAre DEF TreeType
      <4> QED
        BY <1>8, <4>1
    <3> QED
        BY <1>7, <2>2, <2>3, <3>1 DEF Members
  <2>5. e <= d
    <3> SUFFICES ASSUME d < e PROVE FALSE
        BY <1>3, <1>8
    <3>1. 2 ^ d <= 2 ^ e
        BY <1>3, <1>8, PowMono
    <3> QED
        BY <1>3, <1>6, <1>8, <1>9, <3>1
  <2>6. \A n \in Parents : ~Beyond(r.size, n) => r.parent[n] = b.parent[n]
    BY <2>2
  <2>7. \A n \in Parents : r.parent[n] \in {b.parent[n], o.parent[n]}
    BY <2>2
  <2>8. r \in TreeType
    <3>1. \A n \in Parents : r.parent[n] \in NodeType \cup {Blank}
        BY <1>3, <2>7 DEF TreeType
    <3>2. r.parent = [n \in Parents |-> r.parent[n]]
        BY <2>2
    <3>3. r.parent \in [Parents -> NodeType \cup {Blank}]
        BY <3>1, <3>2
    <3>4. r.size \in Nat /\ r.leaves \in SUBSET Leaves
        BY <1>3, <1>8, <2>2 DEF TreeType
    <3> QED
        BY <2>2, <3>3, <3>4 DEF TreeType
  <2>9. GoodTree(r)
    BY <2>4, <2>6 DEF Sound, Good, GoodTree
  <2>10. e \in 0 .. Height /\ r.size = 2 ^ e
    BY <1>3, <1>6, <1>8, <2>2, <2>5
  <2>11. r.leaves \subseteq Members(b) \cup o.leaves
    BY <2>3
  <2> QED
    BY <1>1, <1>9, <2>2, <2>4, <2>5, <2>6, <2>7, <2>8, <2>9, <2>10, <2>11
<1>10. CASE ~(w < b.size)
  <2>1. r = b
    BY <1>1, <1>2, <1>10 DEF Trim
  <2>2. GoodTree(b)
    BY DEF Sound, GoodTree
  <2>3. d <= d
    BY <1>3
  <2> QED
    BY <1>1, <1>3, <2>1, <2>2, <2>3
<1> QED
    BY <1>9, <1>10

\* A Commit's changes: the members asked for, sound parents, and new leaves that hold nothing.
LEMMA AppliedIs ==
    ASSUME NEW t, Sound(t), \E d \in 0 .. Height : t.size = 2 ^ d,
           NEW R \in SUBSET Members(t), NEW count \in Nat,
           Cardinality(Members(t) \ R) + count <= MaxLeaves
    PROVE  /\ Applied(t, R, count) \in TreeType
           /\ \E e \in 0 .. Height : Applied(t, R, count).size = 2 ^ e
           /\ Members(t) \ R \subseteq Members(Applied(t, R, count))
           /\ Cardinality(Members(Applied(t, R, count))) = Cardinality(Members(t) \ R) + count
           /\ GoodTree(Applied(t, R, count))
           /\ Fresh(Applied(t, R, count), Members(Applied(t, R, count)) \ (Members(t) \ R))
<1>1. PICK d \in 0 .. Height : t.size = 2 ^ d
    OBVIOUS
<1>2. PICK o : o = Departed(t, R)
    OBVIOUS
<1>3. PICK b : b = BlankLeaves(o, R)
    OBVIOUS
<1>4. o \in TreeType
    BY <1>2, DepartedIs DEF Sound
<1>5. Sound(b) /\ b.size = 2 ^ d /\ Members(b) = Members(t) \ R
    BY <1>1, <1>2, <1>3, BlankedIs
<1>6. PICK g : g = AddLeaves(b, count)
    OBVIOUS
<1>7. /\ Sound(g)
      /\ \E e \in 0 .. Height : g.size = 2 ^ e
      /\ Members(b) \subseteq Members(g)
      /\ Cardinality(Members(g)) = Cardinality(Members(b)) + count
      /\ \A n \in Parents : g.parent[n] # Blank =>
            b.parent[n] # Blank /\ g.parent[n].holders = b.parent[n].holders
    BY <1>5, <1>6, AddLeavesAre
<1>8. PICK r : r = Trim(o, g)
    OBVIOUS
<1>9. /\ r \in TreeType
      /\ \E e \in 0 .. Height : r.size = 2 ^ e
      /\ Members(r) = Members(g)
      /\ GoodTree(r)
      /\ \A n \in Parents : ~Beyond(r.size, n) => r.parent[n] = g.parent[n]
    BY <1>4, <1>7, <1>8, TrimIs
<1>10. r = Applied(t, R, count)
    BY <1>2, <1>3, <1>6, <1>8 DEF Applied
<1>11. Fresh(r, Members(r) \ (Members(t) \ R))
  <2> SUFFICES ASSUME NEW n \in Parents, ~Beyond(r.size, n), r.parent[n] # Blank
               PROVE  r.parent[n].holders \cap (Members(r) \ (Members(t) \ R)) = {}
    BY DEF Fresh
  <2>1. b.parent[n] # Blank /\ r.parent[n].holders = b.parent[n].holders
    BY <1>7, <1>9
  <2>2. b.parent[n].holders \subseteq Members(b)
    BY <1>5, <2>1 DEF Sound, Good
  <2> QED
    BY <1>5, <2>1, <2>2
<1> QED
    BY <1>5, <1>7, <1>9, <1>10, <1>11

LEMMA AddNone ==
    ASSUME NEW t
    PROVE  AddLeaves(t, 0) = t
<1> DEFINE f == CHOOSE g : g = [k \in 0 .. 0 |-> IF k = 0 THEN t ELSE AddLeaf(g[k - 1])]
<1>1. f = [k \in 0 .. 0 |-> IF k = 0 THEN t ELSE AddLeaf(f[k - 1])]
    BY AddedExists
<1>2. AddLeaves(t, 0) = f[0]
    BY DEF AddLeaves
<1> HIDE DEF f
<1> QED
    BY <1>1, <1>2

\* The tree of an external Commit that is not refused.  If it was trimmed to a full tree
\* and has grown again, what it finds beyond is from before; but there was only the
\* replaced leaf there, so only the new root can be a parent that is not blank, and the
\* author's path covers it.
LEMMA ReplacingIs ==
    ASSUME Sound(tree), \E d \in 0 .. Height : tree.size = 2 ^ d,
           NEW old \in Members(tree), Replaced(old)
    PROVE  /\ Replacing(old) \in TreeType
           /\ \E e \in 0 .. Height : Replacing(old).size = 2 ^ e
           /\ AuthorLeaf(old) \in Members(Replacing(old))
           /\ GoodOff(Replacing(old), AuthorLeaf(old))
           /\ \A n \in Parents : Replacing(old).parent[n] # Blank =>
                \A j \in Replacing(old).parent[n].unmerged : j \in Nat /\ j < MaxLeaves
<1> DEFINE M == Members(tree)
<1>1. PICK d \in 0 .. Height : tree.size = 2 ^ d
    OBVIOUS
<1>2. PICK o : o = Departed(tree, {old})
    OBVIOUS
<1>3. PICK b : b = BlankLeaves(o, {old})
    OBVIOUS
<1>4. PICK t : t = Trim(o, b)
    OBVIOUS
<1>5. PICK r : r = AddLeaf(t)
    OBVIOUS
<1>6. PICK i : i = FreeLeaf(t)
    OBVIOUS
<1>7. PICK a : a = AuthorLeaf(old)
    OBVIOUS
<1>8. r = Replacing(old)
    BY <1>2, <1>3, <1>4, <1>5, AddNone DEF Replacing, Applied
<1>9. d \in Nat /\ Height \in Nat /\ tree \in TreeType /\ tree.size \in Nat /\ tree.size <= MaxLeaves
  <2>1. 2 ^ d <= 2 ^ Height
    BY LeavesAre, PowMono
  <2> QED
    BY <1>1, <2>1, LeavesAre DEF MaxLeaves, Sound, TreeType
<1>10. o \in TreeType
    BY <1>2, <1>9, DepartedIs
<1>11. Sound(b) /\ b.size = 2 ^ d /\ Members(b) = M \ {old}
  <2>1. {old} \in SUBSET Members(tree)
    OBVIOUS
  <2> QED
    BY <1>1, <1>2, <1>3, <2>1, BlankedIs
<1>12. /\ t \in TreeType /\ Members(t) = M \ {old} /\ GoodTree(t)
       /\ \A n \in Parents : t.parent[n] \in {b.parent[n], o.parent[n]}
       /\ t.size < b.size \/ t = b
    BY <1>4, <1>10, <1>11, TrimIs
<1>13. PICK e \in 0 .. Height : e <= d /\ t.size = 2 ^ e
    BY <1>4, <1>10, <1>11, TrimIs
<1>14. e \in Nat /\ e \in 0 .. Height + 1 /\ t.size \in Nat
    BY <1>9, <1>13, PowType
<1>15. i \in Nat /\ i <= t.size /\ i \notin Members(t) /\ (i = t.size => Members(t) = 0 .. t.size - 1)
    BY <1>6, <1>12, FreeLeafIs
<1>16. i \in Leaves
  <2>1. 2 ^ e <= 2 ^ Height /\ 2 * 2 ^ Height = 2 ^ (Height + 1)
    BY <1>9, <1>13, <1>14, PowMono, PowNext
  <2>2. 2 ^ Height \in Nat /\ 2 ^ Height >= 1
    BY <1>9, PowType
  <2>3. i < 2 ^ (Height + 1)
    BY <1>13, <1>14, <1>15, <2>1, <2>2
  <2> QED
    BY <1>15, <2>3, LeavesAre
<1>17. i = t.size => e <= Height
    BY <1>13
<1>18. r \in TreeType /\ r.leaves = t.leaves \cup {i} /\ i < r.size
    BY <1>5, <1>6, <1>12, <1>13, <1>14, <1>16, <1>17, AddLeafIs
<1>19. (i = t.size => r.size = 2 * t.size) /\ (i # t.size => r.size = t.size)
    BY <1>5, <1>6, <1>12, <1>13, <1>14, <1>16, <1>17, AddLeafIs
<1>20. i = t.size => e < d
  <2> SUFFICES ASSUME i = t.size PROVE e < d
    OBVIOUS
  <2>1. t.size < b.size
    <3> SUFFICES ASSUME t = b PROVE FALSE
        BY <1>12
    <3>1. M \ {old} = 0 .. tree.size - 1
        BY <1>1, <1>11, <1>12, <1>15
    <3>2. old \in Nat /\ old < tree.size
        BY <1>9, MembersAre
    <3> QED
        BY <1>9, <3>1, <3>2
  <2> QED
    BY <1>9, <1>11, <1>13, <1>14, <2>1
<1>21. PICK f \in 0 .. Height : /\ r.size = 2 ^ f
                                /\ i = t.size => f = e + 1
                                /\ i # t.size => r.size = t.size
  <2>1. CASE i = t.size
    <3>1. r.size = 2 ^ (e + 1)
        BY <1>13, <1>14, <1>19, <2>1, PowNext
    <3>2. e + 1 \in 0 .. Height
        BY <1>9, <1>14, <1>20, <2>1
    <3> QED
        BY <2>1, <3>1, <3>2
  <2>2. CASE i # t.size
    BY <1>13, <1>19, <2>2
  <2> QED
    BY <2>1, <2>2
<1>22. f \in 0 .. Height + 1 /\ f \in Nat
    BY <1>9, <1>21
<1>23. Members(r) = (M \ {old}) \cup {a}
    BY <1>7, <1>8 DEF Replaced
<1>24. i \in Members(r)
    BY <1>18 DEF Members
<1>25. a = i
    BY <1>12, <1>15, <1>23, <1>24
<1>26. Members(r) = Members(t) \cup {i}
    BY <1>12, <1>23, <1>25
<1>27. ASSUME NEW n \in Parents, ~Beyond(r.size, n), n \notin OnPath(r, a) PROVE Good(r, n)
  <2>1. CASE ~Beyond(t.size, n)
    <3>1. Good(t, n)
        BY <1>12, <2>1 DEF GoodTree
    <3> QED
        BY <1>5, <1>6, <1>12, <1>13, <1>14, <1>16, <1>17, <1>26, <1>27, <3>1, AddLeafGood
  <2>2. CASE Beyond(t.size, n)
    <3>0. n \in Nodes
        BY DEF Nodes
    <3>1. i = t.size /\ f = e + 1
        BY <1>21, <1>27, <2>2
    <3>2. M \ {old} = 0 .. t.size - 1
        BY <1>12, <1>15, <3>1
    <3>3. ASSUME t.parent[n] # Blank PROVE FALSE
      <4>1. Under(Left(n)) \cap M # {} /\ Under(Right(n)) \cap M # {}
        <5>1. CASE t.parent[n] = b.parent[n]
            BY <1>11, <3>3, <5>1 DEF Sound, Good
        <5>2. CASE t.parent[n] = o.parent[n]
          <6>1. tree.parent[n] # Blank
            BY <1>2, <1>9, <3>3, <5>2, DepartedIs
          <6> QED
            BY <6>1 DEF Sound, Good
        <5> QED
            BY <1>12, <5>1, <5>2
      <4>2. /\ Under(n) = Under(Left(n)) \cup Under(Right(n))
            /\ Under(Left(n)) \cap Under(Right(n)) = {}
        BY Children
      <4>3. PICK z \in Under(n) : z \in M \ {old}
        BY <4>1, <4>2
      <4>4. z \in Nat /\ z < 2 ^ e /\ z \div 2 ^ n[1] = n[2]
        <5>1. z \in Nat /\ z < t.size
            BY <1>14, <3>2, <4>3
        <5> QED
            BY <1>13, <3>0, <4>3, <5>1, NodeFacts
      <4>5. ~(n[1] <= e)
        BY <1>13, <1>14, <2>2, <3>0, <4>3, <4>4, Inside
      <4>6. n[1] <= f
        BY <1>21, <1>22, <1>27, <3>0, Inside
      <4>7. n[1] = f
        BY <1>14, <3>0, <3>1, <4>5, <4>6, NodeFacts, LeavesAre
      <4>8. z < 2 ^ f
        <5>1. 2 ^ e <= 2 ^ f /\ 2 ^ e \in Nat /\ 2 ^ f \in Nat
          <6>1. e <= f
            BY <1>14, <1>22, <3>1
          <6> QED
            BY <1>14, <1>22, <6>1, PowMono, PowType
        <5> QED
            BY <4>4, <5>1
      <4>9. z \div 2 ^ f = 0 /\ i \div 2 ^ f = 0
        BY <1>15, <1>18, <1>21, <1>22, <4>4, <4>8, BelowPower
      <4>10. i \in Under(n)
        BY <1>15, <3>0, <4>4, <4>7, <4>9, NodeFacts
      <4>11. n \in OnPath(r, i)
        BY <1>16, <1>21, <1>22, <4>6, <4>10, OnPathIs
      <4> QED
        BY <1>25, <1>27, <4>11
    <3>4. r.parent[n] = Blank
        BY <1>5, <1>6, <1>12, <1>13, <1>14, <1>16, <1>17, <3>3, AddLeafIs
    <3> QED
        BY <3>4 DEF Good
  <2> QED
    BY <2>1, <2>2
<1>28. ASSUME NEW n \in Parents, r.parent[n] # Blank, NEW j \in r.parent[n].unmerged
       PROVE  j \in Nat /\ j < MaxLeaves
  <2>1. t.parent[n] # Blank
    BY <1>5, <1>6, <1>12, <1>13, <1>14, <1>16, <1>17, <1>28, AddLeafIs
  <2>2. r.parent[n].unmerged \subseteq t.parent[n].unmerged \cup {i}
    BY <1>5, <1>6, <1>12, <1>13, <1>14, <1>16, <1>17, <2>1, AddLeafIs
  <2>3. t.parent[n].unmerged \subseteq M
    <3>1. CASE t.parent[n] = b.parent[n]
        BY <1>11, <2>1, <3>1 DEF Sound, Good
    <3>2. CASE t.parent[n] = o.parent[n]
      <4>1. tree.parent[n] # Blank
        BY <1>2, <1>9, <2>1, <3>2, DepartedIs
      <4>2. o.parent[n].unmerged = tree.parent[n].unmerged
        BY <1>2, <1>9, <4>1, DepartedIs
      <4> QED
        BY <3>2, <4>1, <4>2 DEF Sound, Good
    <3> QED
        BY <1>12, <3>1, <3>2
  <2>4. CASE j \in M
    <3>1. j \in Nat /\ j < tree.size
        BY <1>9, <2>4, MembersAre
    <3> QED
        BY <1>9, <3>1, LeavesAre
  <2>5. CASE j = i
    <3>1. 2 ^ f <= 2 ^ Height
        BY <1>9, <1>21, <1>22, PowMono
    <3>2. 2 ^ f \in Nat /\ 2 ^ Height \in Nat
        BY <1>9, <1>22, PowType
    <3> QED
        BY <1>15, <1>18, <1>21, <2>5, <3>1, <3>2 DEF MaxLeaves
  <2> QED
    BY <2>2, <2>3, <2>4, <2>5
<1>29. GoodOff(r, a)
    BY <1>27 DEF GoodOff
<1> QED
    BY <1>7, <1>8, <1>18, <1>21, <1>24, <1>25, <1>28, <1>29

-----------------------------------------------------------------------------
(* The invariant of the tree, and what follows from it *)

TreeInv ==
    /\ Sound(tree)
    /\ \E d \in 0 .. Height : tree.size = 2 ^ d
    /\ Members(tree) # {}
    /\ Cardinality(Members(tree)) <= MaxMembers

\* What a Commit of a member applies, before its path is set.
LEMMA ChangedIs ==
    ASSUME TreeInv, NEW c \in Changes
    PROVE  LET t == Applied(tree, c.removed, c.count) IN
           /\ c.removed \in SUBSET Members(tree) /\ t \in TreeType
           /\ \E e \in 0 .. Height : t.size = 2 ^ e
           /\ Members(tree) \ c.removed \subseteq Members(t)
           /\ Cardinality(Members(t)) <= MaxMembers
           /\ GoodTree(t)
           /\ Fresh(t, AddedBy(t, c))
<1>1. PICK t : t = Applied(tree, c.removed, c.count)
    OBVIOUS
<1>2. /\ c.removed \in SUBSET Members(tree) /\ c.count \in Nat
      /\ Cardinality(Members(tree)) - Cardinality(c.removed) + c.count <= MaxMembers
    BY TreeConstants DEF Changes
<1>3. Sound(tree) /\ tree \in TreeType /\ (\E d \in 0 .. Height : tree.size = 2 ^ d)
    BY DEF TreeInv, Sound
<1>4. Cardinality(Members(tree) \ c.removed) = Cardinality(Members(tree)) - Cardinality(c.removed)
  <2>1. IsFiniteSet(Members(tree)) /\ Cardinality(Members(tree)) \in Nat
    BY <1>3, MembersFinite
  <2>2. IsFiniteSet(c.removed) /\ Members(tree) \cap c.removed = c.removed
    BY <1>2, <2>1, FS_Subset
  <2>3. Cardinality(Members(tree) \ c.removed)
            = Cardinality(Members(tree)) - Cardinality(Members(tree) \cap c.removed)
    BY <2>1, FS_Difference
  <2> QED
    BY <2>2, <2>3
<1>5. Cardinality(Members(tree) \ c.removed) + c.count <= MaxMembers /\ MaxMembers <= MaxLeaves
      /\ MaxMembers \in Nat
    BY <1>2, <1>4, TreeConstants, LeavesAre
<1>6. Cardinality(Members(tree) \ c.removed) \in Nat
  <2>1. IsFiniteSet(Members(tree))
    BY <1>3, MembersFinite
  <2> QED
    BY <2>1, FS_Subset, FS_CardinalityType
<1>7. Cardinality(Members(tree) \ c.removed) + c.count <= MaxLeaves
    BY <1>2, <1>5, <1>6, LeavesAre
<1>8. /\ t \in TreeType
      /\ \E e \in 0 .. Height : t.size = 2 ^ e
      /\ Members(tree) \ c.removed \subseteq Members(t)
      /\ Cardinality(Members(t)) = Cardinality(Members(tree) \ c.removed) + c.count
      /\ GoodTree(t)
      /\ Fresh(t, Members(t) \ (Members(tree) \ c.removed))
  <2>1. PICK R \in SUBSET Members(tree), k \in Nat : R = c.removed /\ k = c.count
    BY <1>2
  <2>2. Cardinality(Members(tree) \ R) + k <= MaxLeaves
    BY <1>7, <2>1
  <2>3. PICK u : u = Applied(tree, R, k)
    OBVIOUS
  <2>4. /\ u \in TreeType
        /\ \E e \in 0 .. Height : u.size = 2 ^ e
        /\ Members(tree) \ R \subseteq Members(u)
        /\ Cardinality(Members(u)) = Cardinality(Members(tree) \ R) + k
        /\ GoodTree(u)
        /\ Fresh(u, Members(u) \ (Members(tree) \ R))
    BY <1>3, <2>2, <2>3, AppliedIs
  <2>5. u = t
    BY <1>1, <2>1, <2>3
  <2> QED
    BY <2>1, <2>4, <2>5
<1> QED
    BY <1>1, <1>2, <1>5, <1>8 DEF AddedBy

LEMMA InitInv ==
    ASSUME Init
    PROVE  TreeInv
<1>1. tree.size = 1 /\ tree.leaves = {0} /\ \A n \in Parents : tree.parent[n] = Blank
    BY DEF Init
<1>2. 0 \in Leaves /\ Height \in Nat
    BY LeavesAre DEF Leaves
<1>3. tree \in TreeType
    BY <1>2 DEF Init, TreeType
<1>4. Members(tree) = {0}
    BY <1>1 DEF Members
<1>5. \E d \in 0 .. Height : tree.size = 2 ^ d
  <2>1. 0 \in 0 .. Height /\ tree.size = 2 ^ 0
    BY <1>1, <1>2, PowZero
  <2> QED
    BY <2>1
<1>6. Cardinality(Members(tree)) = 1
    BY <1>4, FS_Singleton
<1>7. Sound(tree)
    BY <1>1, <1>3, <1>4 DEF Sound, Good
<1> QED
    BY <1>4, <1>5, <1>6, <1>7, TreeConstants DEF TreeInv

LEMMA CommitInv ==
    ASSUME TreeInv, NEW c \in Changes, Commit(c)
    PROVE  TreeInv'
<1>1. PICK t : t = Applied(tree, c.removed, c.count)
    OBVIOUS
<1>2. /\ t \in TreeType
      /\ Members(tree) \ c.removed \subseteq Members(t)
      /\ Cardinality(Members(t)) <= MaxMembers
      /\ GoodTree(t)
    BY <1>1, ChangedIs
<1>3. PICK e \in 0 .. Height : t.size = 2 ^ e
    BY <1>1, ChangedIs
<1>4. PICK author \in Members(tree) \ c.removed :
        tree' = Merged(IF WithPath(c) THEN PathSet(t, author, AddedBy(t, c)) ELSE t)
    BY <1>1 DEF Commit
<1>5. PICK p : p = IF WithPath(c) THEN PathSet(t, author, AddedBy(t, c)) ELSE t
    OBVIOUS
<1>6. author \in Members(t) /\ e \in 0 .. Height + 1
    BY <1>2, <1>3, LeavesAre
<1>7. p \in TreeType /\ p.size = t.size /\ Members(p) = Members(t) /\ GoodTree(p)
  <2>1. CASE WithPath(c)
    <3>1. GoodOff(t, author)
        BY <1>2, GoodOffAny
    <3> QED
        BY <1>2, <1>3, <1>5, <1>6, <2>1, <3>1, PathSetGood
  <2>2. CASE ~WithPath(c)
    BY <1>2, <1>5, <2>2
  <2> QED
    BY <2>1, <2>2
<1>8. Sound(tree') /\ tree'.size = t.size /\ Members(tree') = Members(t)
    BY <1>3, <1>4, <1>5, <1>6, <1>7, MergedIs
<1> QED
    BY <1>2, <1>3, <1>6, <1>8 DEF TreeInv

LEMMA ExternalCommitInv ==
    ASSUME TreeInv, NEW old \in Members(tree), ExternalCommit(old)
    PROVE  TreeInv'
<1>1. PICK t, a : t = Replacing(old) /\ a = AuthorLeaf(old)
    OBVIOUS
<1>2. Sound(tree) /\ tree \in TreeType /\ (\E d \in 0 .. Height : tree.size = 2 ^ d)
    BY DEF TreeInv, Sound
<1>3. Replaced(old) /\ tree' = Merged(PathSet(t, a, {}))
    BY <1>1 DEF ExternalCommit
<1>4. t \in TreeType /\ a \in Members(t) /\ GoodOff(t, a)
    BY <1>1, <1>2, <1>3, ReplacingIs
<1>5. PICK e \in 0 .. Height : t.size = 2 ^ e
    BY <1>1, <1>2, <1>3, ReplacingIs
<1>6. e \in 0 .. Height + 1
    BY LeavesAre
<1>7. PICK p : p = PathSet(t, a, {})
    OBVIOUS
<1>8. p \in TreeType /\ p.size = t.size /\ Members(p) = Members(t) /\ GoodTree(p)
    BY <1>4, <1>5, <1>6, <1>7, PathSetGood
<1>9. Sound(tree') /\ tree'.size = t.size /\ Members(tree') = Members(t)
    BY <1>3, <1>5, <1>6, <1>7, <1>8, MergedIs
<1>10. Cardinality(Members(t)) <= MaxMembers
  <2>1. IsFiniteSet(Members(tree)) /\ Cardinality(Members(tree)) \in Nat
    BY <1>2, MembersFinite
  <2>2. PICK K : K = Members(tree) \ {old}
    OBVIOUS
  <2>3. IsFiniteSet(K) /\ Cardinality(K) = Cardinality(Members(tree)) - 1
    BY <2>1, <2>2, FS_RemoveElement
  <2>4. Members(t) = K \cup {a}
    BY <1>1, <1>3, <2>2 DEF Replaced
  <2>5. Cardinality(K \cup {a}) <= Cardinality(K) + 1
    <3>1. Cardinality(K) \in Nat
        BY <2>3, FS_CardinalityType
    <3>2. CASE a \in K
      <4>1. K \cup {a} = K
        BY <3>2
      <4> QED
        BY <3>1, <4>1
    <3>3. CASE a \notin K
      <4>1. Cardinality(K \cup {a}) = Cardinality(K) + 1
        BY <2>3, <3>3, FS_AddElement
      <4> QED
        BY <3>1, <4>1
    <3> QED
        BY <3>2, <3>3
  <2>6. Cardinality(Members(t)) \in Nat /\ Cardinality(Members(tree)) <= MaxMembers /\ MaxMembers \in Nat
    BY <1>4, MembersFinite, TreeConstants DEF TreeInv
  <2> QED
    BY <2>1, <2>3, <2>4, <2>5, <2>6
<1> QED
    BY <1>4, <1>5, <1>9, <1>10 DEF TreeInv

\* No history of Commits, of members or from outside, leads out of the invariant.
THEOREM TreeAlwaysSound == Spec => []TreeInv
<1>1. Init => TreeInv
    BY InitInv
<1>2. TreeInv /\ [Next]_tree => TreeInv'
  <2> SUFFICES ASSUME TreeInv, [Next]_tree PROVE TreeInv'
    OBVIOUS
  <2>1. ASSUME NEW c \in Changes, Commit(c) PROVE TreeInv'
    BY <2>1, CommitInv
  <2>2. ASSUME NEW old \in Members(tree), ExternalCommit(old) PROVE TreeInv'
    BY <2>2, ExternalCommitInv
  <2>3. CASE UNCHANGED tree
    BY <2>3 DEF TreeInv, Sound, TreeType, Good, Beyond, Members
  <2> QED
    BY <2>1, <2>2, <2>3 DEF Next
<1> QED
    BY <1>1, <1>2, PTL DEF Spec

\* HoldersExact: exactly the members below a parent that are not listed as unmerged hold
\* its private key, after any history of Commits.
THEOREM HoldersAlwaysExact == Spec => []HoldersExact
<1>1. TreeInv => HoldersExact
    BY DEF TreeInv, Sound, Good, HoldersExact
<1> QED
    BY <1>1, TreeAlwaysSound, PTL

LEMMA InvReadsOnce ==
    ASSUME TreeInv
    PROVE  PathsReadOnce
<1>0. Sound(tree) /\ (\E d \in 0 .. Height : tree.size = 2 ^ d)
    BY DEF TreeInv
<1>1. ASSUME NEW c \in Changes, NEW author \in Members(tree) \ c.removed
      PROVE  ReadOnce(Applied(tree, c.removed, c.count), author,
                      AddedBy(Applied(tree, c.removed, c.count), c))
  <2>1. PICK t : t = Applied(tree, c.removed, c.count)
    OBVIOUS
  <2>2. /\ t \in TreeType
        /\ Members(tree) \ c.removed \subseteq Members(t)
        /\ GoodTree(t)
        /\ Fresh(t, AddedBy(t, c))
    BY <2>1, ChangedIs
  <2>3. PICK e \in 0 .. Height : t.size = 2 ^ e
    BY <2>1, ChangedIs
  <2>4. author \in Members(t) /\ e \in 0 .. Height + 1 /\ GoodOff(t, author)
    BY <2>2, LeavesAre, GoodOffAny
  <2>5. ReadOnce(t, author, AddedBy(t, c))
    BY <2>2, <2>3, <2>4, PathReadOnce
  <2> QED
    BY <2>1, <2>5
<1>2. ASSUME NEW old \in Members(tree), Replaced(old)
      PROVE  ReadOnce(Replacing(old), AuthorLeaf(old), {})
  <2>1. PICK t, a : t = Replacing(old) /\ a = AuthorLeaf(old)
    OBVIOUS
  <2>2. t \in TreeType /\ a \in Members(t) /\ GoodOff(t, a)
    BY <1>0, <1>2, <2>1, ReplacingIs
  <2>3. PICK e \in 0 .. Height : t.size = 2 ^ e
    BY <1>0, <1>2, <2>1, ReplacingIs
  <2>4. e \in 0 .. Height + 1 /\ Fresh(t, {})
    BY LeavesAre DEF Fresh
  <2>5. ReadOnce(t, a, {})
    BY <2>2, <2>3, <2>4, PathReadOnce
  <2> QED
    BY <2>1, <2>5
<1> QED
    BY <1>1, <1>2 DEF PathsReadOnce

\* PathsReadOnce: whatever Commits came before, every update path that may come next can
\* be read once by each member that stays, and by nobody removed or just added.
THEOREM PathsAlwaysReadOnce == Spec => []PathsReadOnce
  BY InvReadsOnce, TreeAlwaysSound, PTL

\* The rightmost of some leaves.
LEMMA LastLeaf ==
    ASSUME NEW s \in Nat, NEW M \in SUBSET (0 .. s - 1), M # {}
    PROVE  \E x \in M : \A y \in M : y <= x
<1> DEFINE T == {s - y : y \in M}
<1>1. T \in SUBSET Nat /\ T # {}
    OBVIOUS
<1>2. PICK z \in T : \A w \in T : z <= w
  <2> HIDE DEF T
  <2> QED
    BY <1>1, LeastNumber
<1>3. PICK x \in M : z = s - x
    OBVIOUS
<1>4. \A y \in M : s - x <= s - y
    BY <1>2, <1>3
<1>5. \A y \in M : y <= x
    BY <1>3, <1>4
<1> QED
    BY <1>5

\* A tree of at most MaxLeaves leaves is within the bounds of tree().
LEMMA TreeWithinBounds ==
    ASSUME NEW t \in TreeType, NEW e \in 0 .. Height, t.size = 2 ^ e, Members(t) # {},
           \A n \in Parents : t.parent[n] # Blank =>
                \A i \in t.parent[n].unmerged : i \in Nat /\ i < MaxLeaves
    PROVE  PreflightTree(t)
<1>1. e \in Nat /\ Height \in Nat /\ MaxLeaves \in Nat
    BY LeavesAre
<1>2. t.size <= MaxLeaves /\ t.size \in Nat
    BY <1>1, PowMono DEF MaxLeaves, TreeType
<1>3. Members(t) \in SUBSET (0 .. t.size - 1)
    BY <1>2, MembersAre
<1>4. PICK last : last = CHOOSE i \in Members(t) : \A j \in Members(t) : j <= i
    OBVIOUS
<1>5. last \in Members(t)
    BY <1>2, <1>3, <1>4, LastLeaf
<1>6. last \in Nat /\ last < t.size
    BY <1>5, MembersAre
<1>7. 2 * last + 1 <= MaxTreeNodes
    BY <1>1, <1>2, <1>6 DEF MaxTreeNodes
<1>8. Cardinality(Members(t)) \in 1 .. MaxLeaves
  <2>1. IsFiniteSet(0 .. t.size - 1) /\ Cardinality(0 .. t.size - 1) = t.size
    <3>1. t.size >= 1 /\ t.size - 1 \in Int /\ 0 \in Int
        BY <1>2, <1>6
    <3> QED
        BY <3>1, FS_Interval
  <2>2. IsFiniteSet(Members(t)) /\ Cardinality(Members(t)) <= t.size
    BY <1>3, <2>1, FS_Subset
  <2>3. Cardinality(Members(t)) \in Nat /\ Cardinality(Members(t)) # 0
    BY <2>2, FS_CardinalityType, FS_EmptySet
  <2> QED
    BY <1>1, <1>2, <2>2, <2>3
<1>9. \A n \in Parents : t.parent[n] # Blank => \A i \in t.parent[n].unmerged : i < MaxLeaves
    OBVIOUS
<1> QED
    BY <1>4, <1>7, <1>8, <1>9 DEF PreflightTree

LEMMA InvPassesPreflight ==
    ASSUME TreeInv
    PROVE  PassesPreflight
<1>0. Sound(tree) /\ tree \in TreeType /\ (\E d \in 0 .. Height : tree.size = 2 ^ d)
    BY DEF TreeInv, Sound
<1>1. PreflightTree(tree)
  <2>1. PICK d \in 0 .. Height : tree.size = 2 ^ d
    BY <1>0
  <2>2. 2 ^ d <= 2 ^ Height /\ 2 ^ d \in Nat /\ 2 ^ Height \in Nat
    BY LeavesAre, PowMono, PowType
  <2>3. ASSUME NEW n \in Parents, tree.parent[n] # Blank, NEW i \in tree.parent[n].unmerged
        PROVE  i \in Nat /\ i < MaxLeaves
    <3>1. i \in Members(tree)
        BY <1>0, <2>3 DEF Sound, Good
    <3>2. i \in Nat /\ i < tree.size
        BY <1>0, <3>1, MembersAre
    <3> QED
        BY <2>1, <2>2, <3>2 DEF MaxLeaves
  <2> QED
    BY <1>0, <2>1, <2>3, TreeWithinBounds DEF TreeInv
<1>2. ASSUME NEW old \in Members(tree), Replaced(old)
      PROVE  PreflightTree(Replacing(old)) /\ PreflightPath(Replacing(old), AuthorLeaf(old))
  <2>1. PICK t, a : t = Replacing(old) /\ a = AuthorLeaf(old)
    OBVIOUS
  <2>2. t \in TreeType /\ a \in Members(t) /\ GoodOff(t, a)
    BY <1>0, <1>2, <2>1, ReplacingIs
  <2>3. PICK e \in 0 .. Height : t.size = 2 ^ e
    BY <1>0, <1>2, <2>1, ReplacingIs
  <2>4. \A n \in Parents : t.parent[n] # Blank =>
            \A i \in t.parent[n].unmerged : i \in Nat /\ i < MaxLeaves
    BY <1>0, <1>2, <2>1, ReplacingIs
  <2>5. PreflightTree(t)
    BY <2>2, <2>3, <2>4, TreeWithinBounds
  <2>6. e \in 0 .. Height + 1 /\ e \in Nat /\ Height \in Nat
    BY LeavesAre
  <2>7. a \in Leaves /\ a < 2 ^ e
    BY <2>2, <2>3, MembersAre
  <2>8. Filtered(t, a) \subseteq 1 .. e
    BY <2>2, <2>3, <2>6, <2>7, FilteredIs
  <2>9. Cardinality(Filtered(t, a)) <= Height
    <3>1. IsFiniteSet(1 .. e) /\ Cardinality(1 .. e) = e
        BY <2>6, FS_Interval
    <3>2. IsFiniteSet(Filtered(t, a)) /\ Cardinality(Filtered(t, a)) <= e
        BY <2>8, <3>1, FS_Subset
    <3>3. Cardinality(Filtered(t, a)) \in Nat /\ e <= Height
        BY <2>6, <3>2, FS_CardinalityType
    <3> QED
        BY <2>6, <3>2, <3>3
  <2>10. ASSUME NEW l \in Filtered(t, a) PROVE Cardinality(Recipients(t, a, l, {})) <= MaxLeaves
    <3>1. l \in 1 .. e
        BY <2>8
    <3>2. PICK c : c = Copath(t, a)[l]
        OBVIOUS
    <3>3. c \in Nodes /\ GoodUnder(t, c)
        BY <2>2, <2>3, <2>6, <2>7, <3>1, <3>2, CopathGood
    <3>4. IsFiniteSet(Members(t)) /\ Cardinality(Members(t)) \in Nat
        BY <2>2, MembersFinite
    <3>5. /\ IsFiniteSet(Resolution(t, c, {}))
          /\ Cardinality(Resolution(t, c, {})) <= Cardinality(Members(t))
        BY <2>2, <3>3, <3>4, ResolutionSize
    <3>6. Recipients(t, a, l, {}) = Resolution(t, c, {})
        BY <2>3, <2>6, <2>7, <3>1, <3>2, SentIsSeen
    <3>7. Cardinality(Members(t)) <= MaxLeaves
        BY <2>5, LeavesAre DEF PreflightTree
    <3>8. Cardinality(Resolution(t, c, {})) \in Nat
        BY <3>5, FS_CardinalityType
    <3> QED
        BY <3>4, <3>5, <3>6, <3>7, <3>8, LeavesAre
  <2>11. PreflightPath(t, a)
    BY <2>9, <2>10 DEF PreflightPath
  <2> QED
    BY <2>1, <2>5, <2>11
<1> QED
    BY <1>1, <1>2 DEF PassesPreflight

\* PassesPreflight: no history of a group within the limits is refused by the bounds.
THEOREM PreflightAlwaysPasses == Spec => []PassesPreflight
  BY InvPassesPreflight, TreeAlwaysSound, PTL
=============================================================================
