-------------------------- MODULE GroupSystemProofs --------------------------
(***************************************************************************)
(* Proofs about GroupSystem for any installations, any number of epochs    *)
(* and any number of external candidates.                                  *)
(***************************************************************************)
EXTENDS GroupSystem, FiniteSetTheorems, TLAPS

-----------------------------------------------------------------------------
(* The inductive invariant *)

Candidate == [commit : CommitType, lifecycle : Nat]

RowType ==
    [epoch : Nat, leaf : Leaf, leaves : SUBSET Leaf, origin : SUBSET CommitType,
     active : BOOLEAN, pending : SUBSET CommitType, proposals : BOOLEAN]

TypeOK ==
    /\ log \in Seq(CommitType)
    /\ rows \in [Installation -> SUBSET RowType]
    /\ keyPackage \in [Installation -> BOOLEAN]
    /\ candidate \in [Installation -> SUBSET Candidate]
    /\ lifecycle \in [Installation -> Nat]
    /\ entered \in [Leaf -> Nat]

\* The service orders one Commit per epoch, in the order of the epochs.
LogInOrder == \A e \in 1 .. Len(log) : log[e].epoch = e - 1

\* A pending Commit is one of the epoch its rows are in.
PendingCurrent ==
    \A i \in Installation : \A r \in rows[i] : \A c \in r.pending : c.epoch = r.epoch

\* An installation's candidates have leaves of their own, numbered as they are
\* prepared, and lifecycle contexts no later than the current one.
CandidatesNumbered ==
    \A i \in Installation :
        /\ IsFiniteSet(candidate[i])
        /\ \A x \in candidate[i] :
            /\ x.lifecycle <= lifecycle[i]
            /\ \E k \in 2 .. Cardinality(candidate[i]) + 1 : x.commit.author = <<i, k>>

\* The leaves an installation has yet to enter: those of candidates not prepared
\* so far, that of its KeyPackage, and those of candidates of its present lifecycle.
NotYetEntered ==
    \A i \in Installation :
        /\ \A k \in Cardinality(candidate[i]) + 2 .. MaxCandidate + 1 : entered[<<i, k>>] = 0
        /\ keyPackage[i] => entered[<<i, 1>>] = 0
        /\ \A x \in candidate[i] :
            x.lifecycle = lifecycle[i] => entered[x.commit.author] = 0

\* No leaf is entered twice.
EnteredOnce == \A leaf \in Leaf : entered[leaf] <= 1

IInv == TypeOK /\ LogInOrder /\ PendingCurrent /\ Agreement
        /\ CandidatesNumbered /\ NotYetEntered /\ EnteredOnce

-----------------------------------------------------------------------------
(* Commits and rows *)

\* The roster and the origin of an epoch the service ordered.
LEMMA EpochFacts ==
    ASSUME TypeOK, NEW e \in Nat, e <= Len(log)
    PROVE  /\ RosterAt(e) \subseteq Leaf
           /\ OriginOf(e) \subseteq CommitType
           /\ e > 0 => RosterAt(e) = log[e].leaves /\ OriginOf(e) = {log[e]}
<1>1. FoundingLeaves \subseteq Leaf
  BY FounderAssumption, BoundAssumption DEF FoundingLeaves, Leaf
<1>2. CASE e = 0
  BY <1>1, <1>2 DEF RosterAt, OriginOf
<1>3. CASE e > 0
  <2>1. log[e] \in CommitType
    BY <1>3 DEF TypeOK
  <2> QED
    BY <1>3, <2>1 DEF RosterAt, OriginOf, CommitType
<1> QED
  BY <1>2, <1>3

\* The rows an accepted Commit leads to agree with the service.
LEMMA RowsAfterAgree ==
    ASSUME TypeOK, LogInOrder, NEW e \in 1 .. Len(log), NEW leaf \in Leaf
    PROVE  LET r == RowsAfter(log[e], leaf)
           IN  /\ r \in RowType /\ r.epoch = e /\ r.leaf = leaf /\ r.pending = {}
               /\ r.leaves = RosterAt(e) /\ r.origin = OriginOf(e)
<1>1. log[e] \in CommitType /\ log[e].epoch = e - 1
  BY DEF TypeOK, LogInOrder
<1>2. log[e].epoch + 1 = e /\ e # 0 /\ log[e].leaves \in SUBSET Leaf
  BY <1>1 DEF CommitType
<1> QED
  BY <1>1, <1>2 DEF RowsAfter, RowType, RosterAt, OriginOf

\* The Commit that follows the epoch of some rows.
LEMMA FollowingFacts ==
    ASSUME IInv, NEW i \in Installation, NEW r \in rows[i], NEW c \in Following(r)
    PROVE  /\ r \in RowType /\ r.leaf \in Leaf
           /\ r.epoch + 1 \in 1 .. Len(log) /\ c = log[r.epoch + 1]
<1>1. r \in RowType /\ r.epoch <= Len(log) /\ Len(log) \in Nat
  BY DEF IInv, TypeOK, Agreement
<1>2. r.epoch < Len(log) /\ c = log[r.epoch + 1]
  BY DEF Following
<1> QED
  BY <1>1, <1>2 DEF RowType

-----------------------------------------------------------------------------
(* The kinds of step preserve the invariant *)

\* The service orders a Commit: every epoch's roster and origin stay.
LEMMA AppendKeepsInvariant ==
    ASSUME IInv, NEW c \in CommitType, Append1(c),
           UNCHANGED <<rows, keyPackage, candidate, lifecycle, entered>>
    PROVE  IInv'
<1> USE DEF IInv
<1>1. /\ log' \in Seq(CommitType) /\ Len(log') = Len(log) + 1
      /\ \A e \in 1 .. Len(log) : log'[e] = log[e]
      /\ log'[Len(log) + 1] = c /\ Len(log) = c.epoch /\ Len(log) \in Nat
  BY DEF Append1, TypeOK
<1>2. TypeOK'
  BY <1>1 DEF TypeOK
<1>3. LogInOrder'
  <2> SUFFICES ASSUME NEW e \in 1 .. Len(log')
               PROVE  log'[e].epoch = e - 1
    BY DEF LogInOrder
  <2>1. CASE e \in 1 .. Len(log)
    BY <1>1, <2>1 DEF LogInOrder
  <2>2. CASE e = Len(log) + 1
    BY <1>1, <2>2
  <2> QED
    BY <1>1, <2>1, <2>2
<1>4. Agreement'
  <2> SUFFICES ASSUME NEW i \in Installation, NEW r \in rows[i]
               PROVE  /\ r.epoch <= Len(log')
                      /\ r.leaves = RosterAt(r.epoch)'
                      /\ r.origin = OriginOf(r.epoch)'
    BY DEF Agreement
  <2>1. r.epoch \in Nat /\ r.epoch <= Len(log)
    BY DEF TypeOK, RowType, Agreement
  <2>2. r.epoch # 0 => log'[r.epoch] = log[r.epoch]
    BY <1>1, <2>1
  <2>3. RosterAt(r.epoch)' = RosterAt(r.epoch) /\ OriginOf(r.epoch)' = OriginOf(r.epoch)
    BY <2>2 DEF RosterAt, OriginOf
  <2> QED
    BY <1>1, <2>1, <2>3 DEF Agreement
<1> QED
  BY <1>2, <1>3, <1>4 DEF PendingCurrent, CandidatesNumbered, NotYetEntered, EnteredOnce

\* An installation's rows give way to rows that agree with the service.
LEMMA ChangeKeepsInvariant ==
    ASSUME IInv, NEW i \in Installation, NEW q \in RowType, Change(i, q),
           q.epoch <= Len(log), q.leaves = RosterAt(q.epoch), q.origin = OriginOf(q.epoch),
           \A c \in q.pending : c.epoch = q.epoch
    PROVE  IInv'
<1> USE DEF IInv
<1>1. rows' \in [Installation -> SUBSET RowType] /\ rows'[i] = {q}
      /\ \A j \in Installation : j # i => rows'[j] = rows[j]
  BY DEF Change, TypeOK
<1>2. UNCHANGED <<log, keyPackage, candidate, lifecycle, entered>>
  BY DEF Change
<1>3. TypeOK'
  BY <1>1, <1>2 DEF TypeOK
<1>4. PendingCurrent'
  BY <1>1 DEF PendingCurrent
<1>5. Agreement'
  BY <1>1, <1>2 DEF Agreement, RosterAt, OriginOf
<1> QED
  BY <1>2, <1>3, <1>4, <1>5 DEF LogInOrder, CandidatesNumbered, NotYetEntered, EnteredOnce

\* Rows enter at a leaf of the installation's that was never entered.
LEMMA EnterKeepsInvariant ==
    ASSUME IInv, NEW i \in Installation, NEW e \in 1 .. Len(log),
           NEW k \in 1 .. MaxCandidate + 1, Enter(i, RowsAfter(log[e], <<i, k>>)),
           entered[<<i, k>>] = 0, k <= Cardinality(candidate[i]) + 1,
           keyPackage' = [keyPackage EXCEPT ![i] = IF k = 1 THEN FALSE ELSE @],
           UNCHANGED <<log, candidate>>
    PROVE  IInv'
<1> USE DEF IInv
<1> DEFINE q == RowsAfter(log[e], <<i, k>>)
<1>1. <<i, k>> \in Leaf
  BY BoundAssumption DEF Leaf
<1>2. /\ q \in RowType /\ q.epoch = e /\ q.leaf = <<i, k>> /\ q.pending = {}
      /\ q.leaves = RosterAt(e) /\ q.origin = OriginOf(e)
  BY <1>1, RowsAfterAgree
<1> HIDE DEF q
<1>3. /\ rows' = [rows EXCEPT ![i] = {q}]
      /\ lifecycle' = [lifecycle EXCEPT ![i] = @ + 1]
      /\ entered' = [entered EXCEPT ![<<i, k>>] = @ + 1]
  BY <1>2 DEF Enter, q
<1>4. TypeOK'
  <2>1. rows' \in [Installation -> SUBSET RowType]
    BY <1>2, <1>3 DEF TypeOK
  <2>2. keyPackage' \in [Installation -> BOOLEAN]
    BY DEF TypeOK
  <2>3. lifecycle' \in [Installation -> Nat]
    BY <1>3 DEF TypeOK
  <2>4. entered' \in [Leaf -> Nat]
    BY <1>1, <1>3 DEF TypeOK
  <2> QED
    BY <2>1, <2>2, <2>3, <2>4 DEF TypeOK
<1>5. LogInOrder'
  BY DEF LogInOrder
<1>6. PendingCurrent'
  BY <1>2, <1>3 DEF PendingCurrent, TypeOK
<1>7. Agreement'
  <2> SUFFICES ASSUME NEW j \in Installation, NEW r \in rows'[j]
               PROVE  r.epoch <= Len(log) /\ r.leaves = RosterAt(r.epoch)
                      /\ r.origin = OriginOf(r.epoch)
    BY DEF Agreement, RosterAt, OriginOf
  <2>1. CASE j = i
    <3>1. r = q
      BY <2>1, <1>3 DEF TypeOK
    <3> QED
      BY <3>1, <1>2 DEF TypeOK
  <2>2. CASE j # i
    BY <2>2, <1>3 DEF Agreement, TypeOK
  <2> QED
    BY <2>1, <2>2
<1>8. /\ entered'[<<i, k>>] = 1
      /\ \A leaf \in Leaf : leaf # <<i, k>> => entered'[leaf] = entered[leaf]
      /\ lifecycle'[i] = lifecycle[i] + 1 /\ lifecycle[i] \in Nat
      /\ \A j \in Installation : j # i => lifecycle'[j] = lifecycle[j]
      /\ keyPackage'[i] => keyPackage[i] /\ k # 1
      /\ \A j \in Installation : j # i => keyPackage'[j] = keyPackage[j]
  BY <1>1, <1>3 DEF TypeOK
<1>9. CandidatesNumbered'
  <2> SUFFICES ASSUME NEW j \in Installation, NEW x \in candidate[j]
               PROVE  x.lifecycle <= lifecycle'[j]
    BY DEF CandidatesNumbered
  <2>1. x.lifecycle <= lifecycle[j] /\ x.lifecycle \in Nat
    BY DEF CandidatesNumbered, TypeOK, Candidate
  <2> QED
    BY <2>1, <1>8
<1>10. NotYetEntered'
  <2> SUFFICES ASSUME NEW j \in Installation
               PROVE  /\ \A m \in Cardinality(candidate[j]) + 2 .. MaxCandidate + 1 :
                            entered'[<<j, m>>] = 0
                      /\ keyPackage'[j] => entered'[<<j, 1>>] = 0
                      /\ \A x \in candidate[j] :
                            x.lifecycle = lifecycle'[j] => entered'[x.commit.author] = 0
    BY DEF NotYetEntered
  <2>0. /\ IsFiniteSet(candidate[j]) /\ Cardinality(candidate[j]) \in Nat
    BY FS_CardinalityType DEF CandidatesNumbered
  <2>1. \A m \in 1 .. MaxCandidate + 1 : <<j, m>> \in Leaf
    BY BoundAssumption DEF Leaf
  <2>2. ASSUME NEW m \in Cardinality(candidate[j]) + 2 .. MaxCandidate + 1
        PROVE  entered'[<<j, m>>] = 0
    <3>1. m \in 1 .. MaxCandidate + 1
      BY <2>0
    <3>3. entered[<<j, m>>] = 0
      BY DEF NotYetEntered
    <3>2. <<j, m>> # <<i, k>>
      BY <2>0
    <3> QED
      BY <2>1, <3>1, <3>2, <3>3, <1>8
  <2>3. ASSUME keyPackage'[j]
        PROVE  entered'[<<j, 1>>] = 0
    <3>1. keyPackage[j] /\ <<j, 1>> # <<i, k>>
      BY <1>8, <2>3
    <3>2. <<j, 1>> \in Leaf
      BY <2>1, BoundAssumption
    <3> QED
      BY <3>1, <3>2, <1>8 DEF NotYetEntered
  <2>4. ASSUME NEW x \in candidate[j], x.lifecycle = lifecycle'[j]
        PROVE  entered'[x.commit.author] = 0
    <3>1. x.lifecycle <= lifecycle[j] /\ x.lifecycle \in Nat
      BY DEF CandidatesNumbered, TypeOK, Candidate
    <3>2. j # i
      BY <3>1, <2>4, <1>8
    <3>3. x.commit.author \in Leaf /\ \E m : x.commit.author = <<j, m>>
      BY DEF CandidatesNumbered, TypeOK, Candidate, CommitType
    <3>4. entered[x.commit.author] = 0
      <4>1. x.lifecycle = lifecycle[j]
        BY <2>4, <3>2, <1>8
      <4> QED
        BY <4>1 DEF NotYetEntered
    <3> QED
      BY <3>2, <3>3, <3>4, <1>8
  <2> QED
    BY <2>2, <2>3, <2>4
<1>11. EnteredOnce'
  BY <1>8, <1>1 DEF EnteredOnce
<1> QED
  BY <1>4, <1>5, <1>6, <1>7, <1>9, <1>10, <1>11

\* A candidate is added, with a leaf that none had before.
LEMMA PrepareExternalKeepsInvariant ==
    ASSUME IInv, NEW i \in Installation, PrepareExternal(i)
    PROVE  IInv'
<1> USE DEF IInv
<1> DEFINE n == Cardinality(candidate[i])
<1>0. n \in Nat /\ n < MaxCandidate /\ IsFiniteSet(candidate[i]) /\ Len(log) \in Nat
  BY FS_CardinalityType DEF CandidatesNumbered, PrepareExternal, TypeOK
<1>1. PICK x : /\ candidate' = [candidate EXCEPT ![i] = @ \cup {x}]
               /\ x \in Candidate /\ x.lifecycle = lifecycle[i]
               /\ x.commit.author = <<i, n + 2>>
  <2>1. PICK old \in {leaf \in RosterAt(Len(log)) : Owner(leaf) = i} :
          LET new == <<i, Cardinality(candidate[i]) + 2>>
              c   == [epoch |-> Len(log), author |-> new, replaced |-> {old},
                      leaves |-> (RosterAt(Len(log)) \ {old}) \cup {new}]
          IN  candidate' = [candidate EXCEPT ![i] =
                              @ \cup {[commit |-> c, lifecycle |-> lifecycle[i]]}]
    BY DEF PrepareExternal
  <2> DEFINE new == <<i, n + 2>>
             c == [epoch |-> Len(log), author |-> new, replaced |-> {old},
                   leaves |-> (RosterAt(Len(log)) \ {old}) \cup {new}]
  <2>2. new \in Leaf
    BY <1>0, BoundAssumption DEF Leaf
  <2>3. RosterAt(Len(log)) \subseteq Leaf
    BY <1>0, EpochFacts
  <2>4. Len(log) \in 0 .. MaxEpoch - 1
    BY <1>0, BoundAssumption DEF PrepareExternal
  <2>5. c \in CommitType
    BY <2>2, <2>3, <2>4 DEF CommitType
  <2> DEFINE y == [commit |-> c, lifecycle |-> lifecycle[i]]
  <2>6. y \in Candidate
    BY <2>5 DEF Candidate, TypeOK
  <2>7. y.lifecycle = lifecycle[i] /\ y.commit.author = new
    OBVIOUS
  <2>8. candidate' = [candidate EXCEPT ![i] = @ \cup {y}]
    BY <2>1
  <2> HIDE DEF y
  <2> QED
    BY <2>6, <2>7, <2>8
<1>2. UNCHANGED <<log, rows, keyPackage, lifecycle, entered>>
  BY DEF PrepareExternal
<1>3. /\ candidate' \in [Installation -> SUBSET Candidate]
      /\ candidate'[i] = candidate[i] \cup {x}
      /\ \A j \in Installation : j # i => candidate'[j] = candidate[j]
  BY <1>1 DEF TypeOK
<1>4. x \notin candidate[i]
  <2> SUFFICES ASSUME x \in candidate[i] PROVE FALSE
    OBVIOUS
  <2>1. PICK k \in 2 .. n + 1 : x.commit.author = <<i, k>>
    BY DEF CandidatesNumbered
  <2> QED
    BY <1>0, <1>1, <2>1
<1>5. IsFiniteSet(candidate'[i]) /\ Cardinality(candidate'[i]) = n + 1
  <2>1. IsFiniteSet(candidate[i] \cup {x})
        /\ Cardinality(candidate[i] \cup {x}) = Cardinality(candidate[i]) + 1
    BY <1>0, <1>4, FS_AddElement
  <2> QED
    BY <2>1, <1>3
<1>6. TypeOK'
  BY <1>2, <1>3 DEF TypeOK
<1>7. CandidatesNumbered'
  <2> SUFFICES ASSUME NEW j \in Installation
               PROVE  /\ IsFiniteSet(candidate'[j])
                      /\ \A y \in candidate'[j] :
                          /\ y.lifecycle <= lifecycle[j]
                          /\ \E k \in 2 .. Cardinality(candidate'[j]) + 1 :
                                y.commit.author = <<j, k>>
    BY <1>2 DEF CandidatesNumbered
  <2>1. CASE j # i
    BY <2>1, <1>3 DEF CandidatesNumbered
  <2>2. CASE j = i
    <3>1. ASSUME NEW y \in candidate'[i]
          PROVE  /\ y.lifecycle <= lifecycle[i]
                 /\ \E k \in 2 .. n + 2 : y.commit.author = <<i, k>>
      <4>1. CASE y = x
        <5>1. x.lifecycle <= lifecycle[i]
          BY <1>1 DEF TypeOK
        <5>2. n + 2 \in 2 .. n + 2
          BY <1>0
        <5> QED
          BY <4>1, <1>1, <5>1, <5>2
      <4>2. CASE y \in candidate[i]
        <5>1. PICK k \in 2 .. n + 1 : y.commit.author = <<i, k>>
          BY <4>2 DEF CandidatesNumbered
        <5>2. k \in 2 .. n + 2
          BY <1>0, <5>1
        <5> QED
          BY <4>2, <5>1, <5>2 DEF CandidatesNumbered
      <4> QED
        BY <1>3, <4>1, <4>2
    <3>2. Cardinality(candidate'[i]) + 1 = n + 2
      BY <1>0, <1>5
    <3> QED
      BY <2>2, <1>5, <3>1, <3>2
  <2> QED
    BY <2>1, <2>2
<1>8. NotYetEntered'
  <2> SUFFICES ASSUME NEW j \in Installation
               PROVE  /\ \A k \in Cardinality(candidate'[j]) + 2 .. MaxCandidate + 1 :
                            entered[<<j, k>>] = 0
                      /\ \A y \in candidate'[j] :
                            y.lifecycle = lifecycle[j] => entered[y.commit.author] = 0
    BY <1>2 DEF NotYetEntered
  <2>1. CASE j # i
    BY <2>1, <1>3 DEF NotYetEntered
  <2>2. CASE j = i
    <3>1. ASSUME NEW k \in n + 3 .. MaxCandidate + 1
          PROVE  entered[<<i, k>>] = 0
      <4>1. k \in n + 2 .. MaxCandidate + 1
        BY <1>0
      <4> QED
        BY <4>1 DEF NotYetEntered
    <3>2. entered[<<i, n + 2>>] = 0
      <4>1. n + 2 \in n + 2 .. MaxCandidate + 1
        BY <1>0, BoundAssumption
      <4> QED
        BY <4>1 DEF NotYetEntered
    <3>3. Cardinality(candidate'[i]) + 2 = n + 3
      BY <1>0, <1>5
    <3>4. ASSUME NEW y \in candidate'[i], y.lifecycle = lifecycle[i]
          PROVE  entered[y.commit.author] = 0
      BY <1>1, <1>3, <3>2, <3>4 DEF NotYetEntered
    <3> QED
      BY <2>2, <3>1, <3>3, <3>4
  <2> QED
    BY <2>1, <2>2
<1> QED
  BY <1>2, <1>6, <1>7, <1>8 DEF LogInOrder, PendingCurrent, Agreement, RosterAt, OriginOf, EnteredOnce

-----------------------------------------------------------------------------
(* The actions *)

\* The rows an operation changes, and what it leaves in their place.
LEMMA PrepareChanges ==
    ASSUME IInv, NEW i \in Installation, NEW r \in rows[i], MayPrepare(r),
           NEW leaves \in SUBSET Leaf,
           Change(i, [r EXCEPT !.pending =
                {[epoch |-> r.epoch, author |-> r.leaf, leaves |-> leaves, replaced |-> {}]}])
    PROVE  IInv'
<1> DEFINE c == [epoch |-> r.epoch, author |-> r.leaf, leaves |-> leaves, replaced |-> {}]
           q == [r EXCEPT !.pending = {c}]
<1>1. r \in RowType /\ r.epoch <= Len(log) /\ r.leaves = RosterAt(r.epoch)
      /\ r.origin = OriginOf(r.epoch)
  BY DEF IInv, TypeOK, Agreement
<1>2. c \in CommitType
  BY <1>1, BoundAssumption DEF MayPrepare, RowType, CommitType
<1>3. q \in RowType /\ q.epoch = r.epoch /\ q.leaves = r.leaves /\ q.origin = r.origin
      /\ q.pending = {c}
  BY <1>1, <1>2 DEF RowType
<1> HIDE DEF q
<1>4. Change(i, q)
  BY DEF q
<1> QED
  BY <1>1, <1>3, <1>4, ChangeKeepsInvariant

LEMMA PrepareStep ==
    ASSUME IInv, NEW i \in Installation, Prepare(i) \/ PrepareUpdate(i)
    PROVE  IInv'
<1>1. ASSUME NEW r \in rows[i]
      PROVE  r.leaves \subseteq Leaf
  BY DEF IInv, TypeOK, RowType
<1>2. CASE PrepareUpdate(i)
  BY <1>1, <1>2, PrepareChanges DEF PrepareUpdate
<1>3. CASE Prepare(i)
  <2>1. PICK r \in rows[i] : /\ MayPrepare(r)
          /\ \E added \in Additions(r), removed \in Removals(r) :
                Change(i, [r EXCEPT !.pending =
                    {[epoch |-> r.epoch, author |-> r.leaf,
                      leaves |-> (r.leaves \ removed) \cup added, replaced |-> {}]}])
    BY <1>3 DEF Prepare
  <2>2. PICK added \in Additions(r), removed \in Removals(r) :
          Change(i, [r EXCEPT !.pending =
                    {[epoch |-> r.epoch, author |-> r.leaf,
                      leaves |-> (r.leaves \ removed) \cup added, replaced |-> {}]}])
    BY <2>1
  <2>3. added \subseteq Leaf
    <3>1. \A j \in Installation : <<j, 1>> \in Leaf
      BY BoundAssumption DEF Leaf
    <3>2. added = {} \/ \E j \in Installation : added = {<<j, 1>>}
      BY DEF Additions
    <3> QED
      BY <3>1, <3>2
  <2>4. (r.leaves \ removed) \cup added \in SUBSET Leaf
    BY <1>1, <2>3
  <2> QED
    BY <2>1, <2>2, <2>4, PrepareChanges
<1> QED
  BY <1>2, <1>3

\* The Commit that follows is merged, and the queued proposals are kept or not.
LEMMA MergedAgrees ==
    ASSUME IInv, NEW i \in Installation, NEW r \in rows[i], NEW c \in Following(r),
           NEW proposals \in BOOLEAN,
           Change(i, [RowsAfter(c, r.leaf) EXCEPT !.proposals = proposals])
    PROVE  IInv'
<1> DEFINE q0 == RowsAfter(c, r.leaf)
           q  == [q0 EXCEPT !.proposals = proposals]
<1>1. r.leaf \in Leaf /\ r.epoch + 1 \in 1 .. Len(log) /\ c = log[r.epoch + 1]
  BY FollowingFacts
<1>2. /\ q0 \in RowType /\ q0.epoch = r.epoch + 1 /\ q0.pending = {}
      /\ q0.leaves = RosterAt(r.epoch + 1) /\ q0.origin = OriginOf(r.epoch + 1)
  BY <1>1, RowsAfterAgree DEF IInv
<1> HIDE DEF q0
<1>3. q \in RowType /\ q.epoch = q0.epoch /\ q.pending = q0.pending
      /\ q.leaves = q0.leaves /\ q.origin = q0.origin
  BY <1>2 DEF RowType
<1>4. Change(i, q)
  BY DEF q0
<1> HIDE DEF q
<1> QED
  BY <1>1, <1>2, <1>3, <1>4, ChangeKeepsInvariant

LEMMA MergeStep ==
    ASSUME IInv, NEW i \in Installation, Merge(i)
    PROVE  IInv'
<1>1. PICK r \in rows[i] : \E c \in r.pending : \E accepted \in Following(r) :
        AcceptanceMatches(c, accepted) /\ Change(i, AfterMerge(r, c))
  BY DEF Merge
<1>2. PICK c \in Following(r) : Change(i, RowsAfter(c, r.leaf))
  BY <1>1 DEF AcceptanceMatches, AfterMerge
<1>3. r.leaf \in Leaf /\ r.epoch + 1 \in 1 .. Len(log) /\ c = log[r.epoch + 1]
  BY FollowingFacts
<1> DEFINE q == RowsAfter(c, r.leaf)
<1>4. /\ q \in RowType /\ q.epoch = r.epoch + 1 /\ q.pending = {}
      /\ q.leaves = RosterAt(r.epoch + 1) /\ q.origin = OriginOf(r.epoch + 1)
  BY <1>3, RowsAfterAgree DEF IInv
<1>5. Change(i, q)
  BY <1>2
<1> HIDE DEF q
<1> QED
  BY <1>3, <1>4, <1>5, ChangeKeepsInvariant

LEMMA DiscardStep ==
    ASSUME IInv, NEW i \in Installation, Discard(i)
    PROVE  IInv'
<1>1. PICK r \in rows[i] : Change(i, AfterDiscard(r))
  BY DEF Discard
<1> DEFINE q == AfterDiscard(r)
<1>2. r \in RowType /\ r.epoch <= Len(log) /\ r.leaves = RosterAt(r.epoch)
      /\ r.origin = OriginOf(r.epoch)
  BY DEF IInv, TypeOK, Agreement
<1>3. q \in RowType /\ q.epoch = r.epoch /\ q.leaves = r.leaves /\ q.origin = r.origin
      /\ q.pending = {}
  BY <1>2 DEF RowType, AfterDiscard
<1> HIDE DEF q
<1>4. Change(i, q)
  BY <1>1 DEF q
<1> QED
  BY <1>2, <1>3, <1>4, ChangeKeepsInvariant

LEMMA ReceiveStep ==
    ASSUME IInv, NEW i \in Installation, ReceiveCommit(i) \/ ReceiveExternal(i)
    PROVE  IInv'
<1>1. PICK r \in rows[i] : \E c \in Following(r) : Change(i, AfterReceive(r, c))
  BY DEF ReceiveCommit, ReceiveExternal
<1>2. PICK c \in Following(r) : Change(i, AfterReceive(r, c))
  BY <1>1
<1>3. (r.leaf \notin c.leaves /\ r.proposals) \in BOOLEAN
  OBVIOUS
<1> QED
  BY <1>2, <1>3, MergedAgrees DEF AfterReceive

LEMMA ProposalStep ==
    ASSUME IInv, NEW i \in Installation, ReceiveProposal(i)
    PROVE  IInv'
<1>1. PICK r \in rows[i] : Change(i, [r EXCEPT !.proposals = TRUE])
  BY DEF ReceiveProposal
<1> DEFINE q == [r EXCEPT !.proposals = TRUE]
<1>2. r \in RowType /\ r.epoch <= Len(log) /\ r.leaves = RosterAt(r.epoch)
      /\ r.origin = OriginOf(r.epoch) /\ \A c \in r.pending : c.epoch = r.epoch
  BY DEF IInv, TypeOK, Agreement, PendingCurrent
<1>3. q \in RowType /\ q.epoch = r.epoch /\ q.leaves = r.leaves /\ q.origin = r.origin
      /\ q.pending = r.pending
  BY <1>2 DEF RowType
<1> HIDE DEF q
<1>4. Change(i, q)
  BY <1>1 DEF q
<1> QED
  BY <1>2, <1>3, <1>4, ChangeKeepsInvariant

\* Rows that enter by a Welcome or by a candidate.
LEMMA JoinStep ==
    ASSUME IInv, NEW i \in Installation, Join(i)
    PROVE  IInv' /\ entered[<<i, 1>>] = 0 /\ \A q \in rows'[i] : q.leaf = <<i, 1>>
<1>1. PICK e \in 1 .. Len(log) : Enter(i, RowsAfter(log[e], <<i, 1>>))
  BY DEF Join
<1>2. rows[i] = {} /\ keyPackage[i] /\ UNCHANGED <<log, candidate>>
      /\ keyPackage' = [keyPackage EXCEPT ![i] = FALSE]
  BY DEF Join
<1>3. entered[<<i, 1>>] = 0
  BY <1>2 DEF IInv, NotYetEntered
<1>4. 1 \in 1 .. MaxCandidate + 1 /\ 1 <= Cardinality(candidate[i]) + 1
  BY FS_CardinalityType, BoundAssumption DEF IInv, CandidatesNumbered
<1>5. IInv'
  BY <1>1, <1>2, <1>3, <1>4, EnterKeepsInvariant
<1>6. rows'[i] = {RowsAfter(log[e], <<i, 1>>)}
  BY <1>1 DEF Enter, IInv, TypeOK
<1> QED
  BY <1>3, <1>5, <1>6 DEF RowsAfter

LEMMA AcceptExternalStep ==
    ASSUME IInv, NEW i \in Installation, AcceptExternal(i)
    PROVE  IInv' /\ \A q \in rows'[i] : entered[q.leaf] = 0
<1>1. PICK x \in candidate[i] : /\ Accepted(x.commit) /\ MayPromote(i, x)
                                /\ Enter(i, RowsAfter(x.commit, x.commit.author))
  BY DEF AcceptExternal
<1> DEFINE n == Cardinality(candidate[i])
<1>2. n \in Nat
  BY FS_CardinalityType DEF IInv, CandidatesNumbered
<1>3. PICK k \in 2 .. n + 1 : x.commit.author = <<i, k>>
  BY DEF IInv, CandidatesNumbered
<1>4. x.commit \in CommitType /\ <<i, k>> \in Leaf
  <2>1. x.commit \in CommitType
    BY DEF IInv, TypeOK, Candidate
  <2> QED
    BY <1>3, <2>1 DEF CommitType
<1>5. k \in 1 .. MaxCandidate + 1 /\ k <= n + 1 /\ k # 1
  BY <1>2, <1>4, BoundAssumption DEF Leaf
<1>6. x.commit.epoch + 1 \in 1 .. Len(log) /\ x.commit = log[x.commit.epoch + 1]
  <2>1. x.commit.epoch \in Nat /\ Len(log) \in Nat
    BY <1>4 DEF CommitType, IInv, TypeOK
  <2> QED
    BY <1>1, <2>1 DEF Accepted
<1>7. entered[<<i, k>>] = 0
  BY <1>1, <1>3 DEF MayPromote, IInv, NotYetEntered
<1>8. UNCHANGED <<log, keyPackage, candidate>>
  BY DEF AcceptExternal
<1>9. keyPackage' = [keyPackage EXCEPT ![i] = IF k = 1 THEN FALSE ELSE @]
  BY <1>5, <1>8 DEF IInv, TypeOK
<1> DEFINE e == x.commit.epoch + 1
<1>10. e \in 1 .. Len(log) /\ Enter(i, RowsAfter(log[e], <<i, k>>))
  BY <1>1, <1>3, <1>6
<1>11. rows'[i] = {RowsAfter(log[e], <<i, k>>)}
  BY <1>10 DEF Enter, IInv, TypeOK
<1> HIDE DEF e, n
<1>12. IInv'
  BY <1>5, <1>7, <1>8, <1>9, <1>10, EnterKeepsInvariant DEF n
<1> QED
  BY <1>7, <1>11, <1>12 DEF RowsAfter

LEMMA DeleteStep ==
    ASSUME IInv, NEW i \in Installation, Delete(i)
    PROVE  IInv'
<1> USE DEF IInv
<1>1. /\ rows' = [rows EXCEPT ![i] = {}]
      /\ lifecycle' = [lifecycle EXCEPT ![i] = @ + 1]
      /\ UNCHANGED <<log, keyPackage, candidate, entered>>
  BY DEF Delete
<1>2. TypeOK'
  BY <1>1 DEF TypeOK
<1>3. \A j \in Installation : lifecycle[j] \in Nat
        /\ lifecycle'[j] = IF j = i THEN lifecycle[j] + 1 ELSE lifecycle[j]
  BY <1>1 DEF TypeOK
<1>4. \A j \in Installation : \A x \in candidate[j] :
        x.lifecycle \in Nat /\ x.lifecycle <= lifecycle[j]
  BY DEF TypeOK, Candidate, CandidatesNumbered
<1>5. CandidatesNumbered'
  BY <1>1, <1>3, <1>4 DEF CandidatesNumbered
<1>6. NotYetEntered'
  <2>1. \A j \in Installation : \A x \in candidate[j] :
          x.lifecycle = lifecycle'[j] => x.lifecycle = lifecycle[j]
    BY <1>3, <1>4
  <2> QED
    BY <1>1, <2>1 DEF NotYetEntered
<1>7. PendingCurrent' /\ Agreement'
  BY <1>1 DEF PendingCurrent, Agreement, RosterAt, OriginOf, TypeOK
<1> QED
  BY <1>1, <1>2, <1>5, <1>6, <1>7 DEF LogInOrder, EnteredOnce

LEMMA SubmitStep ==
    ASSUME IInv, NEW i \in Installation, Submit(i) \/ SubmitExternal(i)
    PROVE  IInv'
<1>1. CASE Submit(i)
  <2>1. PICK r \in rows[i] : \E c \in r.pending : Append1(c)
    BY <1>1 DEF Submit
  <2>2. PICK c \in r.pending : Append1(c)
    BY <2>1
  <2>3. c \in CommitType
    BY DEF IInv, TypeOK, RowType
  <2>4. UNCHANGED <<rows, keyPackage, candidate, lifecycle, entered>>
    BY <1>1 DEF Submit
  <2> QED
    BY <2>2, <2>3, <2>4, AppendKeepsInvariant
<1>2. CASE SubmitExternal(i)
  <2>1. PICK x \in candidate[i] : Append1(x.commit)
    BY <1>2 DEF SubmitExternal
  <2>2. x.commit \in CommitType
    BY DEF IInv, TypeOK, Candidate
  <2>3. UNCHANGED <<rows, keyPackage, candidate, lifecycle, entered>>
    BY <1>2 DEF SubmitExternal
  <2> QED
    BY <2>1, <2>2, <2>3, AppendKeepsInvariant
<1> QED
  BY <1>1, <1>2

LEMMA InitInvariant == Init => IInv
<1> SUFFICES ASSUME Init PROVE IInv
  OBVIOUS
<1> USE BoundAssumption, FounderAssumption DEF Init
<1>1. /\ \A i \in Installation : <<i, 0>> \in Leaf
      /\ FoundingLeaves \subseteq Leaf
      /\ \A i \in Installation : \A k \in Nat \ {0} : <<i, k>> \notin FoundingLeaves
      /\ \A i \in Installation : \A k \in 0 .. MaxCandidate + 1 : <<i, k>> \in Leaf
  BY DEF FoundingLeaves, Leaf
<1>2. Len(log) = 0 /\ RosterAt(0) = FoundingLeaves /\ OriginOf(0) = {}
  BY DEF RosterAt, OriginOf
<1>3. ASSUME NEW i \in Installation, NEW r \in rows[i]
      PROVE  /\ r \in RowType /\ r.epoch = 0 /\ r.leaves = FoundingLeaves
             /\ r.origin = {} /\ r.pending = {}
  <2>1. i \in Founder
    BY <1>3
  <2>2. r = [epoch |-> 0, leaf |-> <<i, 0>>, leaves |-> FoundingLeaves, origin |-> {},
             active |-> TRUE, pending |-> {}, proposals |-> FALSE]
    BY <1>3, <2>1
  <2> QED
    BY <1>1, <2>2 DEF RowType
<1>4. TypeOK
  <2>1. rows \in [Installation -> SUBSET RowType]
    BY <1>3
  <2>2. log \in Seq(CommitType) /\ candidate \in [Installation -> SUBSET Candidate]
        /\ keyPackage \in [Installation -> BOOLEAN] /\ lifecycle \in [Installation -> Nat]
        /\ entered \in [Leaf -> Nat]
    OBVIOUS
  <2> QED
    BY <2>1, <2>2 DEF TypeOK
<1>5. LogInOrder /\ PendingCurrent /\ Agreement
  <2>1. LogInOrder
    BY <1>2 DEF LogInOrder
  <2>2. PendingCurrent
    BY <1>3 DEF PendingCurrent
  <2>3. Agreement
    <3> SUFFICES ASSUME NEW i \in Installation, NEW r \in rows[i]
                 PROVE  r.epoch <= Len(log) /\ r.leaves = RosterAt(r.epoch)
                        /\ r.origin = OriginOf(r.epoch)
      BY DEF Agreement
    <3>1. r.epoch = 0 /\ r.leaves = FoundingLeaves /\ r.origin = {}
      BY <1>3
    <3> QED
      BY <1>2, <3>1
  <2> QED
    BY <2>1, <2>2, <2>3
<1>6. CandidatesNumbered
  BY FS_EmptySet DEF CandidatesNumbered
<1>7. NotYetEntered
  <2> SUFFICES ASSUME NEW i \in Installation
               PROVE  /\ \A k \in 2 .. MaxCandidate + 1 : entered[<<i, k>>] = 0
                      /\ entered[<<i, 1>>] = 0
    <3>1. \A i \in Installation : candidate[i] = {} /\ Cardinality(candidate[i]) + 2 = 2
      BY FS_EmptySet
    <3> QED
      BY <3>1 DEF NotYetEntered
  <2>1. ASSUME NEW k \in 1 .. MaxCandidate + 1
        PROVE  entered[<<i, k>>] = 0
    BY <1>1
  <2> QED
    BY <2>1
<1>8. EnteredOnce
  BY DEF EnteredOnce
<1> QED
  BY <1>4, <1>5, <1>6, <1>7, <1>8 DEF IInv

LEMMA StepInvariant == IInv /\ [Next]_vars => IInv'
<1> SUFFICES ASSUME IInv, [Next]_vars PROVE IInv'
  OBVIOUS
<1>1. ASSUME NEW i \in Installation, Prepare(i) \/ PrepareUpdate(i)
      PROVE  IInv'
  BY <1>1, PrepareStep
<1>2. ASSUME NEW i \in Installation, Submit(i) \/ SubmitExternal(i)
      PROVE  IInv'
  BY <1>2, SubmitStep
<1>3. ASSUME NEW i \in Installation, Merge(i) \/ Discard(i)
      PROVE  IInv'
  BY <1>3, MergeStep, DiscardStep
<1>4. ASSUME NEW i \in Installation, ReceiveCommit(i) \/ ReceiveExternal(i)
      PROVE  IInv'
  BY <1>4, ReceiveStep
<1>5. ASSUME NEW i \in Installation, ReceiveProposal(i)
      PROVE  IInv'
  BY <1>5, ProposalStep
<1>6. ASSUME NEW i \in Installation, Join(i) \/ AcceptExternal(i)
      PROVE  IInv'
  BY <1>6, JoinStep, AcceptExternalStep
<1>7. ASSUME NEW i \in Installation, Delete(i)
      PROVE  IInv'
  BY <1>7, DeleteStep
<1>8. ASSUME NEW i \in Installation, PrepareExternal(i)
      PROVE  IInv'
  BY <1>8, PrepareExternalKeepsInvariant
<1>9. CASE UNCHANGED vars
  BY <1>9 DEF vars, IInv, TypeOK, LogInOrder, PendingCurrent, Agreement, RosterAt, OriginOf,
     CandidatesNumbered, NotYetEntered, EnteredOnce
<1> QED
  BY <1>1, <1>2, <1>3, <1>4, <1>5, <1>6, <1>7, <1>8, <1>9 DEF Next

-----------------------------------------------------------------------------
(* The theorems *)

\* However Commits, Welcomes and candidates race, the service orders Commits epoch
\* by epoch, installations agree with it, candidates' leaves are their own, and no
\* leaf is entered twice.
THEOREM SystemInvariance == Spec => []IInv
BY InitInvariant, StepInvariant, PTL DEF Spec

\* merge, receive, join and accept leave an installation with the roster, and with
\* the very Commit, that the service ordered for its epoch.
THEOREM InstallationsAgree == Spec => []Agreement
<1>1. IInv => Agreement
  BY DEF IInv
<1> QED
  BY <1>1, SystemInvariance, PTL

\* A leaf's ratchets are started once: neither a Welcome delivered again nor a
\* candidate promoted again enters the group where it was entered before.
THEOREM LeavesEnteredOnce == Spec => [](\A leaf \in Leaf : entered[leaf] <= 1)
<1>1. IInv => \A leaf \in Leaf : entered[leaf] <= 1
  BY DEF IInv, EnteredOnce
<1> QED
  BY <1>1, SystemInvariance, PTL

\* What one step may do to an installation's rows.
LEMMA RowsStep ==
    ASSUME IInv, Next, NEW j \in Installation, NEW q \in rows'[j]
    PROVE  \/ \E r \in rows[j] : q.leaf = r.leaf /\ q.epoch - r.epoch \in {0, 1}
           \/ rows[j] = {} /\ entered[q.leaf] = 0
<1> USE DEF IInv
<1>1. \A i \in Installation : \A r \in rows[i] : r \in RowType /\ r.epoch \in Nat
  BY DEF TypeOK, RowType
<1>2. CASE q \in rows[j]
  BY <1>1, <1>2
<1>3. CASE q \notin rows[j]
  <2>1. ASSUME NEW i \in Installation, NEW p, rows' = [rows EXCEPT ![i] = p]
        PROVE  j = i /\ q \in p
    BY <1>3, <2>1 DEF TypeOK
  <2>2. ASSUME NEW i \in Installation, NEW r \in rows[i], NEW p, Change(i, p),
               p.leaf = r.leaf, p.epoch \in {r.epoch, r.epoch + 1}
        PROVE  \E r1 \in rows[j] : q.leaf = r1.leaf /\ q.epoch - r1.epoch \in {0, 1}
    <3>1. j = i /\ q = p
      BY <2>1, <2>2 DEF Change
    <3> QED
      BY <1>1, <2>2, <3>1
  <2>3. ASSUME NEW i \in Installation, Prepare(i) \/ PrepareUpdate(i)
        PROVE  \E r1 \in rows[j] : q.leaf = r1.leaf /\ q.epoch - r1.epoch \in {0, 1}
    <3>1. PICK r \in rows[i] : \E c : Change(i, [r EXCEPT !.pending = c])
      BY <2>3 DEF Prepare, PrepareUpdate
    <3>2. PICK c : Change(i, [r EXCEPT !.pending = c])
      BY <3>1
    <3>3. [r EXCEPT !.pending = c].leaf = r.leaf /\ [r EXCEPT !.pending = c].epoch = r.epoch
      BY <1>1 DEF RowType
    <3> QED
      BY <2>2, <3>2, <3>3
  <2>4. ASSUME NEW i \in Installation, Discard(i) \/ ReceiveProposal(i)
        PROVE  \E r1 \in rows[j] : q.leaf = r1.leaf /\ q.epoch - r1.epoch \in {0, 1}
    <3>1. PICK r \in rows[i] : \/ Change(i, [r EXCEPT !.pending = {}])
                               \/ Change(i, [r EXCEPT !.proposals = TRUE])
      BY <2>4 DEF Discard, AfterDiscard, ReceiveProposal
    <3>2. /\ [r EXCEPT !.pending = {}].leaf = r.leaf
          /\ [r EXCEPT !.pending = {}].epoch = r.epoch
          /\ [r EXCEPT !.proposals = TRUE].leaf = r.leaf
          /\ [r EXCEPT !.proposals = TRUE].epoch = r.epoch
      BY <1>1 DEF RowType
    <3> QED
      BY <2>2, <3>1, <3>2
  <2>5. ASSUME NEW i \in Installation, Merge(i) \/ ReceiveCommit(i) \/ ReceiveExternal(i)
        PROVE  \E r1 \in rows[j] : q.leaf = r1.leaf /\ q.epoch - r1.epoch \in {0, 1}
    <3>1. PICK r \in rows[i] : \E c \in Following(r) :
            Change(i, AfterMerge(r, c)) \/ Change(i, AfterReceive(r, c))
      BY <2>5 DEF Merge, AcceptanceMatches, ReceiveCommit, ReceiveExternal
    <3>2. PICK c \in Following(r) :
            Change(i, AfterMerge(r, c)) \/ Change(i, AfterReceive(r, c))
      BY <3>1
    <3>3. c.epoch = r.epoch
      <4>1. r.epoch + 1 \in 1 .. Len(log) /\ c = log[r.epoch + 1] /\ r.epoch \in Nat
        BY <1>1, FollowingFacts
      <4> QED
        BY <4>1 DEF LogInOrder
    <3>4. /\ AfterMerge(r, c).leaf = r.leaf /\ AfterMerge(r, c).epoch = r.epoch + 1
          /\ AfterReceive(r, c).leaf = r.leaf /\ AfterReceive(r, c).epoch = r.epoch + 1
      BY <3>3 DEF AfterMerge, AfterReceive, RowsAfter
    <3> QED
      BY <2>2, <3>2, <3>4
  <2>6. ASSUME NEW i \in Installation, Join(i)
        PROVE  rows[j] = {} /\ entered[q.leaf] = 0
    <3>1. \E p : rows' = [rows EXCEPT ![i] = p]
      BY <2>6 DEF Join, Enter
    <3>2. j = i
      BY <2>1, <3>1
    <3> QED
      BY <2>6, <3>2, JoinStep DEF Join
  <2>7. ASSUME NEW i \in Installation, AcceptExternal(i)
        PROVE  rows[j] = {} /\ entered[q.leaf] = 0
    <3>1. \E p : rows' = [rows EXCEPT ![i] = p]
      BY <2>7 DEF AcceptExternal, Enter
    <3>2. j = i
      BY <2>1, <3>1
    <3> QED
      BY <2>7, <3>2, AcceptExternalStep DEF AcceptExternal, MayPromote
  <2>8. ASSUME NEW i \in Installation,
               \/ Submit(i) \/ SubmitExternal(i) \/ PrepareExternal(i) \/ Delete(i)
        PROVE  FALSE
    <3>1. CASE Delete(i)
      <4>1. rows' = [rows EXCEPT ![i] = {}]
        BY <3>1 DEF Delete
      <4> QED
        BY <2>1, <4>1
    <3>2. CASE UNCHANGED rows
      BY <1>3, <3>2
    <3> QED
      BY <2>8, <3>1, <3>2 DEF Submit, SubmitExternal, PrepareExternal
  <2> QED
    BY <2>3, <2>4, <2>5, <2>6, <2>7, <2>8 DEF Next
<1> QED
  BY <1>2, <1>3

\* No step replaces live rows but by those of the same leaf in the same or the next
\* epoch, and rows enter only at a leaf never entered: what merge, receive, discard,
\* join, delete and accept do to each other's rows.
THEOREM LiveRowsKept == Spec => RowsNeverReplaced
<1>1. IInv /\ [Next]_vars =>
        [\A i \in Installation : \A q \in rows'[i] :
            \/ \E r \in rows[i] : q.leaf = r.leaf /\ q.epoch - r.epoch \in {0, 1}
            \/ rows[i] = {} /\ entered[q.leaf] = 0]_vars
  BY RowsStep
<1> QED
  BY <1>1, SystemInvariance, PTL DEF Spec, RowsNeverReplaced

=============================================================================
