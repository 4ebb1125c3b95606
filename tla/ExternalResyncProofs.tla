------------------------- MODULE ExternalResyncProofs -------------------------
(***************************************************************************)
(* Theorems of ExternalResync: a Commit the service ordered on the word of *)
(* the public validator is accepted by the private receiver, and the       *)
(* candidate behind it is promoted, whenever that happens, to the very     *)
(* state that was ordered.                                                 *)
(*                                                                         *)
(* The invariant says of a candidate what its own check (SelfChecked)      *)
(* found when it was prepared: none of it depends on the time.  That the   *)
(* member's state is the one the Commit was made for follows from the      *)
(* length of `ctx`, the number of Commits so far.                          *)
(***************************************************************************)
EXTENDS ExternalResync, FiniteSetTheorems, WellFoundedInduction, TLAPS

OnLine(state) == \E i \in DOMAIN line : line[i] = state

(* The states of the line are records; each is one Commit further on. *)
LineInv ==
    /\ \E S : line \in Seq(S)
    /\ Len(line) >= 1
    /\ \A i \in DOMAIN line :
          /\ line[i] = StateOf(line[i])
          /\ \E S : line[i].ctx \in Seq(S)
          /\ Len(line[i].ctx) = i - 1

(* What SelfChecked found of a candidate, without the clock. *)
Checked(c) ==
    /\ c.rows = Process(StateOf(c.info), c.commit)
    /\ StateOf(c.next) = c.rows
    /\ ShapeAccepted(c.commit)
    /\ Processes(StateOf(c.info), c.commit)
    /\ c.commit.leaf = c.bind
    /\ ProposalsExact(c.commit, c.old)
    /\ Delta(c.info, c.rows, c.old, Author(c))
    /\ Bind(Author(c)) = c.bind

CandidateInv == \A c \in candidate : Checked(c) /\ OnLine(StateOf(c.info))

PublishedInv == \A info \in published : OnLine(StateOf(info))

ResyncInv ==
    /\ LineInv
    /\ at \in 1 .. Len(line)
    /\ PublishedInv
    /\ CandidateInv
    /\ PromotedOnLine

-----------------------------------------------------------------------------
(* StateOf forgets only the signer. *)
LEMMA StatesOfStates ==
    /\ \A state, i : StateOf(SignedBy(state, i)) = StateOf(state)
    /\ \A state : StateOf(StateOf(state)) = StateOf(state)
    /\ \A state, commit : StateOf(Process(state, commit)) = Process(state, commit)
<1>1. \A state, i : StateOf(SignedBy(state, i)) = StateOf(state)
    BY DEF StateOf, SignedBy, States
<1>2. \A state : StateOf(StateOf(state)) = StateOf(state)
    BY DEF StateOf, States
<1>3. ASSUME NEW state, NEW commit
      PROVE  StateOf(Process(state, commit)) = Process(state, commit)
    BY DEF StateOf, States, Process
<1> QED BY <1>1, <1>2, <1>3

(* The line grows at its end: what is on it stays, and stays in place. *)
LEMMA LineGrows ==
    ASSUME LineInv, NEW state, state = StateOf(state),
           \E S : state.ctx \in Seq(S), Len(state.ctx) = Len(line),
           line' = Append(line, state)
    PROVE  /\ LineInv'
           /\ Len(line') = Len(line) + 1
           /\ \A s : OnLine(s) => OnLine(s)'
           /\ OnLine(state)'
<1>1. PICK S : line \in Seq(S)
    BY DEF LineInv
<1>2. line \in Seq(S \cup {state})
    BY <1>1
<1>3. /\ line' \in Seq(S \cup {state})
      /\ Len(line') = Len(line) + 1
      /\ DOMAIN line' = 1 .. Len(line) + 1
      /\ DOMAIN line = 1 .. Len(line)
      /\ Len(line) \in Nat
      /\ \A i \in DOMAIN line : line'[i] = line[i]
      /\ line'[Len(line) + 1] = state
    BY <1>2
<1>4. \A s : OnLine(s) => OnLine(s)'
  <2>1. ASSUME NEW s, NEW i \in DOMAIN line, line[i] = s
        PROVE  i \in DOMAIN line' /\ line'[i] = s
    BY <2>1, <1>3
  <2> QED BY <2>1 DEF OnLine
<1>5. OnLine(state)'
    BY <1>3 DEF OnLine
<1>6. ASSUME NEW i \in DOMAIN line'
      PROVE  /\ line'[i] = StateOf(line'[i])
             /\ \E T : line'[i].ctx \in Seq(T)
             /\ Len(line'[i].ctx) = i - 1
  <2>1. CASE i \in DOMAIN line
    <3>1. line'[i] = line[i]
        BY <2>1, <1>3
    <3> QED BY <2>1, <3>1 DEF LineInv
  <2>2. CASE i = Len(line) + 1
    <3>1. line'[i] = state
        BY <2>2, <1>3
    <3>2. Len(state.ctx) = i - 1
        BY <2>2, <1>3
    <3> QED BY <3>1, <3>2
  <2> QED BY <2>1, <2>2, <1>3
<1>7. Len(line') >= 1
    BY <1>3
<1>8. LineInv'
    BY <1>3, <1>6, <1>7 DEF LineInv
<1> QED BY <1>3, <1>4, <1>5, <1>8

(* A Commit's state is one Commit further on than its base. *)
LEMMA OneFurther ==
    ASSUME LineInv, NEW c, Checked(c), NEW i \in DOMAIN line, line[i] = StateOf(c.info)
    PROVE  /\ \E S : c.rows.ctx \in Seq(S)
           /\ Len(c.rows.ctx) = i
<1>1. c.rows.ctx = Append(line[i].ctx, c.commit)
    BY DEF Checked, Process
<1>2. PICK S : line[i].ctx \in Seq(S)
    BY DEF LineInv
<1>3. line[i].ctx \in Seq(S \cup {c.commit}) /\ Len(line[i].ctx) = i - 1
    BY <1>2 DEF LineInv
<1>4. i \in Int
    BY DEF LineInv
<1> QED BY <1>1, <1>3, <1>4

(* The candidate of an ordered state was made for the state before it. *)
LEMMA MadeForPrevious ==
    ASSUME LineInv, NEW c, Checked(c), OnLine(StateOf(c.info)),
           NEW i \in DOMAIN line, line[i] = StateOf(c.next)
    PROVE  /\ i - 1 \in DOMAIN line
           /\ line[i - 1] = StateOf(c.info)
<1>1. PICK j \in DOMAIN line : line[j] = StateOf(c.info)
    BY DEF OnLine
<1>2. Len(c.rows.ctx) = j
    BY <1>1, OneFurther
<1>3. line[i] = c.rows
    BY DEF Checked
<1>4. Len(c.rows.ctx) = i - 1
    BY <1>3 DEF LineInv
<1>5. i \in Int /\ j \in Int
    BY DEF LineInv
<1>6. j = i - 1
    BY <1>2, <1>4, <1>5
<1> QED BY <1>1, <1>6

-----------------------------------------------------------------------------
LEMMA InitInv == Init => ResyncInv
<1> SUFFICES ASSUME Init PROVE ResyncInv
    OBVIOUS
<1> DEFINE state == States("g", 0, Founders, Lifetimes, <<>>)
<1>1. line = <<state>> /\ at = 1 /\ published = {} /\ candidate = {} /\ target = {}
    BY DEF Init
<1>2. state = StateOf(state) /\ state.ctx = <<>>
    BY DEF States, StateOf
<1> HIDE DEF state
<1>3. Len(line) = 1 /\ DOMAIN line = {1} /\ line[1] = state /\ line \in Seq({state})
    BY <1>1
<1>4. <<>> \in Seq({state}) /\ Len(<<>>) = 0
    OBVIOUS
<1>5. LineInv
  <2>1. \E S : line \in Seq(S)
    BY <1>3
  <2>2. \E S : state.ctx \in Seq(S)
    BY <1>2, <1>4
  <2>3. Len(state.ctx) = 1 - 1
    BY <1>2, <1>4
  <2>4. ASSUME NEW i \in DOMAIN line PROVE i = 1 /\ line[i] = state
    BY <1>3
  <2>5. ASSUME NEW i \in DOMAIN line
        PROVE  /\ line[i] = StateOf(line[i])
               /\ \E S : line[i].ctx \in Seq(S)
               /\ Len(line[i].ctx) = i - 1
    BY <1>2, <2>2, <2>3, <2>4
  <2> QED BY <1>3, <2>1, <2>5 DEF LineInv
<1> QED BY <1>1, <1>3, <1>5 DEF ResyncInv, PublishedInv, CandidateInv, PromotedOnLine

(* A step that appends to the line keeps what is said of the rest. *)
LEMMA OrderedKeeps ==
    ASSUME ResyncInv, NEW state, state = StateOf(state),
           \E S : state.ctx \in Seq(S), Len(state.ctx) = Len(line),
           line' = Append(line, state),
           UNCHANGED <<published, candidate, at, target>>
    PROVE  ResyncInv'
<1>1. /\ LineInv'
      /\ Len(line') = Len(line) + 1
      /\ \A s : OnLine(s) => OnLine(s)'
    BY LineGrows DEF ResyncInv
<1>2. Len(line) \in Nat
    BY DEF ResyncInv, LineInv
<1>3. at' \in 1 .. Len(line')
    BY <1>1, <1>2 DEF ResyncInv
<1>4. PublishedInv'
    BY <1>1 DEF ResyncInv, PublishedInv
<1>5. CandidateInv'
  <2>1. ASSUME NEW c \in candidate' PROVE Checked(c)' /\ OnLine(StateOf(c.info))'
    <3>1. c \in candidate /\ Checked(c) /\ OnLine(StateOf(c.info))
        BY DEF ResyncInv, CandidateInv
    <3>2. Checked(c)'
        BY <3>1 DEF Checked
    <3> QED BY <3>1, <3>2, <1>1
  <2> QED BY <2>1 DEF CandidateInv
<1>6. PromotedOnLine'
  <2>1. \A rows \in target : OnLine(rows)
    BY DEF ResyncInv, PromotedOnLine, OnLine
  <2>2. \A rows \in target' : OnLine(rows)'
    BY <2>1, <1>1
  <2> QED BY <2>2 DEF PromotedOnLine, OnLine
<1> QED BY <1>1, <1>3, <1>4, <1>5, <1>6 DEF ResyncInv

(* A prepared candidate has passed its own check. *)
LEMMA PreparedChecked ==
    ASSUME NEW info, NEW old, NEW bind,
           SelfChecked(Candidate(Attempt, info, old, bind))
    PROVE  LET c == Candidate(Attempt, info, old, bind)
           IN  Checked(c) /\ c.info = info
<1> DEFINE c == Candidate(Attempt, info, old, bind)
           r == Proof(c)
<1>1. /\ c.info = info
      /\ c.rows = Process(StateOf(c.info), c.commit)
      /\ c.bind = bind
      /\ \E i : c.next = SignedBy(c.rows, i)
    BY Zenon DEF Candidate
<1>2. /\ r.base.info = c.info /\ r.commit = c.commit /\ r.old = c.old /\ r.bind = c.bind
    BY DEF Proof, SnapshotRequest
<1> HIDE DEF c
<1>3. SuccessorVerified(r, now) /\ Delta(c.info, c.rows, c.old, Author(c))
    BY DEF SelfChecked, c
<1> HIDE DEF r
<1>4. StateOf(c.next) = c.rows
    BY <1>1, StatesOfStates
<1>5. /\ ShapeAccepted(c.commit)
      /\ Processes(StateOf(c.info), c.commit)
      /\ c.commit.leaf = c.bind
      /\ ProposalsExact(c.commit, c.old)
      /\ DeltaVerified(c.info, c.rows, c.old, c.bind)
    BY <1>1, <1>2, <1>3 DEF SuccessorVerified, CommitVerified, ResultVerified
<1>6. Bind(Author(c)) = c.bind
    BY <1>5 DEF DeltaVerified, Author
<1> QED BY <1>1, <1>3, <1>4, <1>5, <1>6 DEF Checked, c

LEMMA StepInv == ResyncInv /\ [Next]_vars => ResyncInv'
<1> SUFFICES ASSUME ResyncInv, [Next]_vars PROVE ResyncInv'
    OBVIOUS
<1>1. Len(line) \in Nat /\ DOMAIN line = 1 .. Len(line) /\ Len(line) >= 1
    BY DEF ResyncInv, LineInv
<1>2. ASSUME UNCHANGED <<line, published, candidate, target>>, at' \in 1 .. Len(line)
      PROVE  ResyncInv'
    BY <1>2 DEF ResyncInv, LineInv, PublishedInv, CandidateInv, Checked, OnLine, PromotedOnLine
<1>3. CASE UNCHANGED vars
    BY <1>2, <1>3 DEF vars, ResyncInv
<1>4. CASE Tick \/ Pend
    BY <1>2, <1>4 DEF Tick, Pend, ResyncInv
<1>5. CASE ReceiveExternal \/ ReceiveInternal
    BY <1>1, <1>2, <1>5 DEF ReceiveExternal, ReceiveInternal, ResyncInv
<1>6. CASE Export
  <2>1. at \in DOMAIN line
    BY <1>1 DEF ResyncInv
  <2>2. StateOf(SignedBy(line[at], Member)) = line[at]
    BY <2>1, StatesOfStates DEF ResyncInv, LineInv
  <2>3. OnLine(StateOf(SignedBy(line[at], Member)))
    BY <2>1, <2>2 DEF OnLine
  <2>4. PublishedInv'
    BY <1>6, <2>3 DEF Export, ResyncInv, PublishedInv, OnLine
  <2> QED BY <1>6, <2>4
        DEF Export, ResyncInv, LineInv, CandidateInv, Checked, OnLine, PromotedOnLine
<1>7. CASE Prepare
  <2>1. PICK info \in published, bind \in Bindings : \E old \in info.leaves :
            /\ SelfChecked(Candidate(Attempt, info, old, bind))
            /\ candidate' = candidate \cup {Candidate(Attempt, info, old, bind)}
    BY <1>7 DEF Prepare
  <2>2. PICK old \in info.leaves :
            /\ SelfChecked(Candidate(Attempt, info, old, bind))
            /\ candidate' = candidate \cup {Candidate(Attempt, info, old, bind)}
    BY <2>1
  <2> DEFINE new == Candidate(Attempt, info, old, bind)
  <2>3. Checked(new) /\ new.info = info
    BY <2>2, PreparedChecked
  <2> HIDE DEF new
  <2>4. OnLine(StateOf(info))
    BY DEF ResyncInv, PublishedInv
  <2>5. candidate' = candidate \cup {new} /\ UNCHANGED <<line, published, at, target>>
    BY <1>7, <2>2 DEF Prepare, new
  <2>6. \A c \in candidate' : Checked(c) /\ OnLine(StateOf(c.info))
    BY <2>3, <2>4, <2>5 DEF ResyncInv, CandidateInv
  <2>7. CandidateInv'
    BY <2>5, <2>6 DEF CandidateInv, Checked, OnLine
  <2> QED BY <2>5, <2>7 DEF ResyncInv, LineInv, PublishedInv, OnLine, PromotedOnLine
<1>8. CASE Order
  <2>1. PICK c \in candidate : StateOf(c.info) = Current /\ line' = Append(line, StateOf(c.next))
    BY <1>8 DEF Order
  <2>2. Checked(c)
    BY DEF ResyncInv, CandidateInv
  <2>3. Len(line) \in DOMAIN line /\ line[Len(line)] = StateOf(c.info)
    BY <1>1, <2>1 DEF Current
  <2>4. LineInv
    BY DEF ResyncInv
  <2>5. (\E S : c.rows.ctx \in Seq(S)) /\ Len(c.rows.ctx) = Len(line)
    BY <2>2, <2>3, <2>4, OneFurther
  <2>6. StateOf(c.next) = c.rows /\ StateOf(c.next) = StateOf(StateOf(c.next))
    BY <2>2, StatesOfStates DEF Checked
  <2> QED BY <1>8, <2>1, <2>5, <2>6, OrderedKeeps DEF Order
<1>9. CASE OtherCommits
  <2>1. PICK leaves, index : Ordinary(leaves, index)
    BY <1>9 DEF OtherCommits
  <2> DEFINE next == States(Current.group, Current.epoch + 1, leaves,
                            [Current.until EXCEPT ![index] = Forever],
                            Append(Current.ctx, Internal))
  <2>2. line' = Append(line, next)
    BY <2>1 DEF Ordinary
  <2>3. Len(line) \in DOMAIN line
    BY <1>1
  <2>4. Len(Current.ctx) = Len(line) - 1
    BY <2>3 DEF ResyncInv, LineInv, Current
  <2>5. PICK S : Current.ctx \in Seq(S)
    BY <2>3 DEF ResyncInv, LineInv, Current
  <2>6. next = StateOf(next) /\ next.ctx = Append(Current.ctx, Internal)
    BY Zenon DEF StateOf, States
  <2> HIDE DEF next
  <2>7. Current.ctx \in Seq(S \cup {Internal})
    BY <2>5
  <2>8. next.ctx \in Seq(S \cup {Internal}) /\ Len(next.ctx) = Len(line)
    <3> DEFINE ctx == Current.ctx
               T == S \cup {Internal}
    <3>1. ctx \in Seq(T) /\ Internal \in T /\ next.ctx = Append(ctx, Internal)
          /\ Len(ctx) = Len(line) - 1
        BY <2>4, <2>6, <2>7
    <3> HIDE DEF ctx, T
    <3>2. Append(ctx, Internal) \in Seq(T) /\ Len(Append(ctx, Internal)) = Len(ctx) + 1
        BY <3>1
    <3> QED BY <3>1, <3>2, <1>1 DEF T
  <2>9. \E T : next.ctx \in Seq(T)
    BY <2>8
  <2> QED BY <1>9, <2>2, <2>6, <2>8, <2>9, OrderedKeeps DEF OtherCommits
<1>10. CASE Accept
  <2>1. PICK c \in candidate, accepted \in Accepted :
            Promotes(c, accepted) /\ target' = {c.rows}
    BY <1>10 DEF Accept
  <2>2. accepted.next = c.next
    BY <2>1 DEF Promotes, Binding
  <2>3. OnLine(StateOf(accepted.next))
    BY DEF Accepted, OnLine
  <2>4. StateOf(c.next) = c.rows
    BY DEF ResyncInv, CandidateInv, Checked
  <2>5. PromotedOnLine'
    BY <1>10, <2>1, <2>2, <2>3, <2>4 DEF Accept, PromotedOnLine, OnLine
  <2> QED BY <1>10, <2>5
        DEF Accept, ResyncInv, LineInv, PublishedInv, CandidateInv, Checked, OnLine
<1>11. CASE Renew
    BY <1>11 DEF Renew, ResyncInv, LineInv, PublishedInv, CandidateInv, Checked, OnLine,
                 PromotedOnLine
<1> QED BY <1>3, <1>4, <1>5, <1>6, <1>7, <1>8, <1>9, <1>10, <1>11 DEF Next

LEMMA Invariant == Spec => []ResyncInv
<1> QED BY InitInv, StepInv, PTL DEF Spec

(* Every checked candidate can be read and promoted at any time. *)
LEMMA InvPromotes == ResyncInv => AcceptedPromotes
<1> SUFFICES ASSUME ResyncInv, NEW c \in Accepted, c.life = life, target = {}
             PROVE  Promotes(c, c)
    BY DEF AcceptedPromotes
<1>1. Checked(c)
    BY DEF Accepted, ResyncInv, CandidateInv
<1>2. RosterState(c.info) = Proof(c).base.expected
    BY DEF Proof, SnapshotRequest
<1>3. Delta(c.info, c.rows, c.old, Author(c)) /\ c.rows.epoch = c.info.epoch + 1
    BY <1>1 DEF Checked, Delta
<1>4. RosterState(c.next) = RosterState(c.rows)
  <2>1. \A x : RosterState(StateOf(x)) = RosterState(x)
    BY DEF RosterState, StateOf, States
  <2>2. StateOf(c.next) = c.rows
    BY <1>1 DEF Checked
  <2> QED BY <2>1, <2>2
<1>5. Acceptance(c).resulting = RosterState(c.next)
    BY DEF Acceptance
<1> QED BY <1>2, <1>3, <1>4, <1>5 DEF Promotes, Readable

(* The receiver's checks are those the validator and validate_delta made,  *)
(* on the state the member is in.                                          *)
LEMMA InvReceives == ResyncInv => OrderedReceivable
<1> SUFFICES ASSUME ResyncInv, NEW c \in Accepted, at < Len(line),
                    line[at + 1] = StateOf(c.next),
                    LeavesAt(line[at].leaves, Member) # {}, c.old.index # Member
             PROVE  Receives(line[at], c)
    BY DEF OrderedReceivable
<1>1. LineInv /\ Checked(c) /\ OnLine(StateOf(c.info)) /\ at \in 1 .. Len(line)
    BY DEF Accepted, ResyncInv, CandidateInv
<1>2. at \in Int /\ at + 1 \in DOMAIN line /\ (at + 1) - 1 = at
    BY <1>1 DEF LineInv
<1>3. line[at] = StateOf(c.info)
    BY <1>1, <1>2, MadeForPrevious
<1>4. /\ Acceptance(c).binding = Binding(c)
      /\ Acceptance(c).resulting = RosterState(c.next)
    BY DEF Acceptance
<1>5. /\ Binding(c).previous = RosterState(c.info)
      /\ Binding(c).old = c.old
      /\ Binding(c).author = Author(c)
      /\ Binding(c).aad = c.commit.aad
    BY DEF Binding
<1>6. \A x : RosterState(StateOf(x)) = RosterState(x)
    BY DEF RosterState, StateOf, States
<1>7. RosterState(line[at]) = Binding(c).previous
    BY <1>3, <1>5, <1>6
<1>8. Process(line[at], c.commit) = c.rows /\ StateOf(c.next) = c.rows
    BY <1>1, <1>3 DEF Checked
<1>9. RosterState(c.rows) = Acceptance(c).resulting
    BY <1>4, <1>6, <1>8
<1>10. Delta(line[at], c.rows, c.old, Author(c))
  <2>1. Delta(c.info, c.rows, c.old, Author(c))
    BY <1>1 DEF Checked
  <2>2. /\ line[at].leaves = c.info.leaves
        /\ line[at].group = c.info.group
        /\ line[at].epoch = c.info.epoch
    BY <1>3 DEF StateOf, States
  <2> QED BY <2>1, <2>2 DEF Delta
<1>11. /\ ShapeAccepted(c.commit)
       /\ Processes(line[at], c.commit)
       /\ c.commit.leaf = Bind(Author(c))
       /\ ProposalsExact(c.commit, c.old)
    BY <1>1, <1>3 DEF Checked
<1> QED BY <1>4, <1>5, <1>7, <1>8, <1>9, <1>10, <1>11 DEF Receives

-----------------------------------------------------------------------------
(* Every set of numbers that is not empty has a least member. *)
LEMMA LeastNumber ==
    ASSUME NEW T \in SUBSET Nat, T # {}
    PROVE  \E x \in T : \A y \in T : x <= y
<1>1. PICK x \in T : \A y \in T : ~(<<y, x>> \in OpToRel(<, Nat))
    BY NatLessThanWellFounded, WFMin
<1>2. \A y \in T : ~(y < x)
    BY <1>1 DEF OpToRel
<1> QED BY <1>2

(* A roster leaves one of the first |roster| + 1 indices free; the tree    *)
(* takes the first of them.                                                *)
LEMMA LeftmostExists ==
    ASSUME NEW leaves, IsFiniteSet(leaves)
    PROVE  LET own == LeftmostBlank(leaves)
           IN  own \in Blank(leaves) /\ \A j \in Blank(leaves) : own <= j
<1> DEFINE n == Cardinality(leaves)
           index == [leaf \in leaves |-> leaf.index]
           taken == {leaf.index : leaf \in leaves}
<1>1. n \in Nat
    BY FS_CardinalityType
<1>2. index \in Surjection(leaves, taken)
    BY DEF Surjection
<1>3. IsFiniteSet(taken) /\ Cardinality(taken) <= n
    BY <1>2, FS_Surjection
<1>4. IsFiniteSet(0 .. n) /\ Cardinality(0 .. n) = n + 1
    BY <1>1, FS_Interval
<1>5. ~(0 .. n \subseteq taken)
  <2>1. 0 .. n \subseteq taken => Cardinality(0 .. n) <= Cardinality(taken)
    BY <1>3, FS_Subset
  <2>2. Cardinality(taken) \in Nat
    BY <1>3, FS_CardinalityType
  <2> QED BY <1>1, <1>3, <1>4, <2>1, <2>2
<1>6. Blank(leaves) # {} /\ Blank(leaves) \in SUBSET Nat
    BY <1>1, <1>5 DEF Blank
<1>7. \E i \in Blank(leaves) : \A j \in Blank(leaves) : i <= j
    BY <1>6, LeastNumber
<1> QED BY <1>7 DEF LeftmostBlank

(* What is left of a roster without the leaf `old` has a blank index no    *)
(* greater than that of `old`, at or below which no index is blank.        *)
LEMMA OwnIndex ==
    ASSUME NEW leaves, IsFiniteSet(leaves), NEW index \in Nat,
           \A leaf \in leaves : leaf.index # index
    PROVE  LET own == LeftmostBlank(leaves)
           IN  /\ own \in 0 .. index
               /\ own <= Cardinality(leaves)
               /\ \A leaf \in leaves : leaf.index # own
               /\ \A j \in 0 .. own - 1 : \E leaf \in leaves : leaf.index = j
<1> DEFINE own == LeftmostBlank(leaves)
<1>1. own \in Blank(leaves) /\ \A j \in Blank(leaves) : own <= j
    BY LeftmostExists
<1> HIDE DEF own
<1>2. Cardinality(leaves) \in Nat
    BY FS_CardinalityType
<1>3. own \in 0 .. Cardinality(leaves) /\ \A leaf \in leaves : leaf.index # own
    BY <1>1 DEF Blank
<1>4. own <= index
    BY <1>1, <1>2, <1>3 DEF Blank
<1>5. ASSUME NEW j \in 0 .. own - 1 PROVE \E leaf \in leaves : leaf.index = j
  <2>1. j \in 0 .. Cardinality(leaves) /\ ~(own <= j)
    BY <1>2, <1>3
  <2> QED BY <1>1, <2>1 DEF Blank
<1> QED BY <1>2, <1>3, <1>4, <1>5 DEF own

(* Leaves within MAX_LEAVES have a least full tree. *)
LEMMA WidthExists ==
    ASSUME NEW leaves, \A leaf \in leaves : leaf.index \in 0 .. 255
    PROVE  TreeWidth(leaves) \in TreeWidths /\ \A leaf \in leaves : leaf.index < TreeWidth(leaves)
<1> DEFINE Fits(s) == \A leaf \in leaves : leaf.index < s
           Least(s) == Fits(s) /\ (s > 1 => \E leaf \in leaves : 2 * leaf.index >= s)
<1>1. Fits(256)
    OBVIOUS
<1>2. ASSUME NEW s \in Nat, ~Fits(s), Fits(2 * s) PROVE Least(2 * s)
    BY <1>2
<1>3. Fits(1) => Least(1)
    OBVIOUS
<1>4. /\ ~Fits(1) /\ Fits(2) => Least(2)
      /\ ~Fits(2) /\ Fits(4) => Least(4)
      /\ ~Fits(4) /\ Fits(8) => Least(8)
      /\ ~Fits(8) /\ Fits(16) => Least(16)
      /\ ~Fits(16) /\ Fits(32) => Least(32)
      /\ ~Fits(32) /\ Fits(64) => Least(64)
      /\ ~Fits(64) /\ Fits(128) => Least(128)
      /\ ~Fits(128) /\ Fits(256) => Least(256)
    BY <1>2
<1>5. \E s \in TreeWidths : Least(s)
  <2> HIDE DEF Fits, Least
  <2> QED BY <1>1, <1>3, <1>4 DEF TreeWidths
<1> QED BY <1>5 DEF TreeWidth

-----------------------------------------------------------------------------
(* The leaves of a state are of the tree that `Lifetimes` covers. *)
Shaped(state) ==
    /\ IsFiniteSet(state.leaves)
    /\ \A leaf \in state.leaves : IsLeaf(leaf) /\ leaf.index \in Indices0
    /\ DOMAIN state.until = Indices0

ShapeInv ==
    /\ now \in 0 .. MaxTime
    /\ \A i \in DOMAIN line : Shaped(line[i])

LEMMA IndicesAreOfTheTree ==
    /\ Indices0 \subseteq 0 .. 255
    /\ \A i \in Indices0 : 0 .. i \subseteq Indices0
BY FoundersAssumption DEF Indices0

(* The new leaf takes a blank index of the tree, and what a Commit leaves  *)
(* of the roster keeps its place.                                          *)
LEMMA ProcessShaped ==
    ASSUME NEW state, Shaped(state), NEW commit, NEW index \in Indices0,
           RemovedBy(commit) = {index}
    PROVE  LET own == LeftmostBlank(Retained(state.leaves, RemovedBy(commit)))
           IN  /\ Shaped(Process(state, commit))
               /\ own \in Indices0 /\ own \in 0 .. 255
               /\ Process(state, commit).leaves
                    \subseteq state.leaves \cup {Leaf(own, commit.leaf)}
<1> DEFINE kept == Retained(state.leaves, RemovedBy(commit))
           own == LeftmostBlank(kept)
           next == Process(state, commit)
<1>1. IsFiniteSet(kept) /\ kept \subseteq state.leaves
  <2>1. kept \subseteq state.leaves
    BY DEF Retained
  <2> QED BY <2>1, FS_Subset DEF Shaped
<1>2. \A leaf \in kept : leaf.index # index
    BY DEF Retained
<1>3. index \in Nat
    BY IndicesAreOfTheTree
<1> HIDE DEF kept
<1>4. own \in 0 .. index
    BY <1>1, <1>2, <1>3, OwnIndex
<1>5. own \in Indices0 /\ own \in 0 .. 255
    BY <1>4, IndicesAreOfTheTree
<1>6. next.leaves \subseteq state.leaves \cup {Leaf(own, commit.leaf)}
    BY <1>1 DEF Process, kept
<1>7. next.until = [state.until EXCEPT ![own] = Forever]
    BY DEF Process, kept
<1> HIDE DEF own, next
<1>8. IsFiniteSet(next.leaves)
  <2>1. IsFiniteSet(state.leaves \cup {Leaf(own, commit.leaf)})
    BY FS_AddElement DEF Shaped
  <2> QED BY <1>6, <2>1, FS_Subset
<1>9. IsLeaf(Leaf(own, commit.leaf)) /\ Leaf(own, commit.leaf).index = own
    BY DEF IsLeaf, Leaf, Bind
<1>10. \A leaf \in next.leaves : IsLeaf(leaf) /\ leaf.index \in Indices0
    BY <1>5, <1>6, <1>9 DEF Shaped
<1>11. DOMAIN next.until = Indices0
    BY <1>7 DEF Shaped
<1>12. Shaped(next)
    BY <1>8, <1>10, <1>11 DEF Shaped
<1> QED BY <1>5, <1>6, <1>12 DEF own, next, kept

(* A Commit of the accepted proposals removes the authorized leaf alone. *)
LEMMA RemovesOld ==
    ASSUME NEW commit, NEW old, ProposalsExact(commit, old)
    PROVE  RemovedBy(commit) = {old.index}
<1>1. OfKind(commit, "remove") # {}
  <2>1. Cardinality(OfKind(commit, "remove")) = 1
    BY DEF ProposalsExact
  <2>2. Cardinality({}) = 0
    BY FS_EmptySet
  <2> QED BY <2>1, <2>2
<1>2. ASSUME NEW i \in OfKind(commit, "remove")
      PROVE  commit.proposals[i].index = old.index
  <2>1. commit.proposals[i] = Removing(old.index)
    BY DEF OfKind, ProposalsExact
  <2> QED BY <2>1 DEF Removing
<1> QED BY <1>1, <1>2 DEF RemovedBy

LEMMA InitShaped == Init => ShapeInv
<1> SUFFICES ASSUME Init PROVE ShapeInv
    OBVIOUS
<1> DEFINE state == States("g", 0, Founders, Lifetimes, <<>>)
<1>1. line = <<state>> /\ now = 0
    BY DEF Init
<1>2. state.leaves = Founders /\ state.until = Lifetimes
    BY DEF States
<1> HIDE DEF state
<1>3. Shaped(state)
    BY <1>2, FoundersAssumption DEF Shaped, Indices0
<1>4. \A i \in DOMAIN line : line[i] = state
    BY <1>1
<1> QED BY <1>1, <1>3, <1>4, TimeAssumption DEF ShapeInv

(* A step that appends a state of the tree keeps the line within it. *)
LEMMA AppendedShaped ==
    ASSUME LineInv, ShapeInv, NEW state, Shaped(state), line' = Append(line, state),
           now' = now
    PROVE  ShapeInv'
<1>1. PICK S : line \in Seq(S)
    BY DEF LineInv
<1>2. ASSUME NEW i \in DOMAIN line' 
      PROVE  line'[i] = state \/ (i \in DOMAIN line /\ line'[i] = line[i])
  <2>1. line \in Seq(S \cup {state})
    BY <1>1
  <2>2. /\ DOMAIN line' = 1 .. Len(line) + 1
        /\ DOMAIN line = 1 .. Len(line) /\ Len(line) \in Nat
        /\ \A j \in DOMAIN line : line'[j] = line[j]
        /\ line'[Len(line) + 1] = state
    BY <2>1
  <2>3. i \in DOMAIN line \/ i = Len(line) + 1
    BY <2>2
  <2> QED BY <2>2, <2>3
<1>3. \A i \in DOMAIN line' : Shaped(line'[i])
    BY <1>2 DEF ShapeInv
<1> QED BY <1>3 DEF ShapeInv, Shaped

LEMMA StepShaped == ResyncInv /\ ShapeInv /\ [Next]_vars => ShapeInv'
<1> SUFFICES ASSUME ResyncInv, ShapeInv, [Next]_vars PROVE ShapeInv'
    OBVIOUS
<1>1. LineInv /\ Len(line) \in DOMAIN line
    BY DEF ResyncInv, LineInv
<1>2. ASSUME line' = line, now' \in 0 .. MaxTime PROVE ShapeInv'
    BY <1>2 DEF ShapeInv, Shaped
<1>3. CASE Tick
  <2>1. now' \in 0 .. MaxTime
    BY <1>3, TimeAssumption DEF Tick, ShapeInv
  <2> QED BY <1>2, <1>3, <2>1 DEF Tick
<1>4. CASE OtherCommits
  <2>1. PICK own \in Current.leaves, leaves \in SUBSET Current.leaves :
            Ordinary(leaves, own.index)
    BY <1>4 DEF OtherCommits
  <2> DEFINE next == States(Current.group, Current.epoch + 1, leaves,
                            [Current.until EXCEPT ![own.index] = Forever],
                            Append(Current.ctx, Internal))
  <2>2. line' = Append(line, next)
    BY <2>1 DEF Ordinary
  <2>3. Shaped(Current)
    BY <1>1 DEF ShapeInv, Current
  <2>4. next.leaves = leaves /\ next.until = [Current.until EXCEPT ![own.index] = Forever]
    BY Zenon DEF States
  <2> HIDE DEF next
  <2>5. IsFiniteSet(leaves)
    BY <2>3, FS_Subset DEF Shaped
  <2>6. Shaped(next)
    BY <2>1, <2>3, <2>4, <2>5 DEF Shaped
  <2> QED BY <1>1, <1>4, <2>2, <2>6, AppendedShaped DEF OtherCommits
<1>5. CASE Order
  <2>1. PICK c \in candidate : StateOf(c.info) = Current /\ line' = Append(line, StateOf(c.next))
    BY <1>5 DEF Order
  <2>2. Checked(c) /\ Shaped(Current)
    BY <1>1 DEF ResyncInv, CandidateInv, ShapeInv, Current
  <2>3. StateOf(c.next) = Process(Current, c.commit) /\ RemovedBy(c.commit) = {c.old.index}
    BY <2>1, <2>2, RemovesOld DEF Checked
  <2>4. c.old.index \in Indices0
    BY <2>1, <2>2 DEF Checked, Delta, Shaped, StateOf, States
  <2>5. Shaped(StateOf(c.next))
    BY <2>2, <2>3, <2>4, ProcessShaped
  <2> QED BY <1>1, <1>5, <2>1, <2>5, AppendedShaped DEF Order
<1>6. CASE Export \/ Pend \/ Prepare \/ ReceiveExternal \/ ReceiveInternal \/ Accept \/ Renew
           \/ UNCHANGED vars
  <2>1. line' = line /\ now' = now
    BY <1>6 DEF Export, Pend, Prepare, ReceiveExternal, ReceiveInternal, Accept, Renew, vars
  <2> QED BY <1>2, <2>1 DEF ShapeInv
<1> QED BY <1>3, <1>4, <1>5, <1>6 DEF Next

LEMMA ShapeInvariant == Spec => []ShapeInv
<1> QED BY InitShaped, StepShaped, Invariant, PTL DEF Spec

-----------------------------------------------------------------------------
(* The verified change of roster leaves no room for another: as many       *)
(* leaves as before, all but the authorized one kept, one with the key no  *)
(* leaf had.                                                               *)
LEMMA DeltaReplaces ==
    ASSUME NEW previous, IsFiniteSet(previous.leaves), NEW derived, IsFiniteSet(derived.leaves),
           NEW old \in previous.leaves, NEW bind, FreshBinding(previous.leaves, old, bind),
           DeltaVerified(previous, derived, old, bind),
           NEW leaf \in derived.leaves, Bind(leaf) = bind
    PROVE  /\ derived.leaves = (previous.leaves \ {old}) \cup {leaf}
           /\ leaf \notin previous.leaves
<1> DEFINE others == previous.leaves \ {old}
<1>1. leaf \notin previous.leaves
  <2>1. bind.key = leaf.key
    BY DEF Bind
  <2> QED BY <2>1 DEF FreshBinding
<1>2. /\ IsFiniteSet(others)
      /\ Cardinality(others) = Cardinality(previous.leaves) - 1
    BY FS_RemoveElement
<1>3. /\ IsFiniteSet(others \cup {leaf})
      /\ Cardinality(others \cup {leaf}) = Cardinality(others) + 1
    BY <1>1, <1>2, FS_AddElement
<1>4. Cardinality(previous.leaves) \in Nat
    BY FS_CardinalityType
<1>5. Cardinality(others \cup {leaf}) = Cardinality(derived.leaves)
    BY <1>2, <1>3, <1>4 DEF DeltaVerified
<1>6. others \cup {leaf} \subseteq derived.leaves
    BY DEF DeltaVerified
<1>7. others \cup {leaf} = derived.leaves
    BY <1>5, <1>6, FS_Subset
<1> QED BY <1>1, <1>7

(* What is published is of the tree, and the clock within its bound. *)
LEMMA PublishedShaped ==
    ASSUME PublishedInv, ShapeInv, NEW info \in published
    PROVE  Shaped(StateOf(info)) /\ Shaped(info)
<1>1. PICK i \in DOMAIN line : line[i] = StateOf(info)
    BY DEF PublishedInv, OnLine
<1>2. Shaped(StateOf(info))
    BY <1>1 DEF ShapeInv
<1> QED BY <1>2 DEF Shaped, StateOf, States

LEMMA InvVerified == PublishedInv /\ ShapeInv => VerifiedIsExact
<1> SUFFICES ASSUME PublishedInv, ShapeInv,
                    NEW info \in published, NEW commit, NEW d, NEW next,
                    SuccessorVerified(Assembled(info, commit, d, next), now)
             PROVE  /\ Processes(StateOf(info), commit)
                    /\ StateOf(next) = Process(StateOf(info), commit)
                    /\ Replaced(info, next, d.old, d.bind)
    BY DEF VerifiedIsExact
<1> DEFINE r == Assembled(info, commit, d, next)
           state == StateOf(info)
           derived == Process(state, commit)
<1>1. /\ r.base.info = info /\ r.commit = commit /\ r.old = d.old /\ r.bind = d.bind
      /\ r.next = next
    BY DEF Assembled, SnapshotRequest
<1> HIDE DEF r
<1>2. /\ CommitVerified(r)
      /\ ResultVerified(r, now)
    BY DEF SuccessorVerified, r
<1>3. /\ d.old \in info.leaves
      /\ FreshBinding(info.leaves, d.old, d.bind)
      /\ Processes(state, commit)
      /\ ProposalsExact(commit, d.old)
    BY <1>1, <1>2 DEF CommitVerified
<1>4. DeltaVerified(info, derived, d.old, d.bind) /\ ReportMatches(derived, next, d.bind)
    BY <1>1, <1>2 DEF ResultVerified
<1>5. Shaped(state) /\ Shaped(info)
    BY PublishedShaped
<1>6. RemovedBy(commit) = {d.old.index} /\ d.old.index \in Indices0
    BY <1>3, <1>5, RemovesOld DEF Shaped
<1> HIDE DEF state
<1>7. Shaped(derived)
    BY <1>5, <1>6, ProcessShaped
<1> HIDE DEF derived
<1>8. PICK leaf \in derived.leaves :
          Bind(leaf) = d.bind /\ LeavesAt(next.leaves, next.signer) = {leaf}
    BY <1>4 DEF ReportMatches
<1>9. /\ derived.leaves = (info.leaves \ {d.old}) \cup {leaf}
      /\ leaf \notin info.leaves
    BY <1>3, <1>4, <1>5, <1>7, <1>8, DeltaReplaces DEF Shaped
<1>10. StateOf(next) = derived
    BY <1>4 DEF ReportMatches
<1>11. next.leaves = derived.leaves
    BY <1>10 DEF StateOf, States
<1>12. leaf.index = next.signer
    BY <1>8 DEF LeavesAt
<1>13. leaf = Leaf(next.signer, d.bind)
    BY <1>7, <1>8, <1>12 DEF Shaped, IsLeaf
<1>14. \A other \in info.leaves \ {d.old} : other.index # next.signer
    BY <1>8, <1>9, <1>11 DEF LeavesAt
<1>15. Replaced(info, next, d.old, d.bind)
    BY <1>9, <1>11, <1>13, <1>14 DEF Replaced
<1> QED BY <1>3, <1>10, <1>15 DEF state, derived

-----------------------------------------------------------------------------
(* What the builder makes has the shape the validator asks for. *)
LEMMA BuiltShape ==
    ASSUME NEW name, NEW info, NEW old, NEW bind
    PROVE  LET commit == BuiltCommit(name, info, old, bind, "aad")
           IN  /\ commit.aad = "aad" /\ commit.leaf = bind
               /\ ShapeAccepted(commit)
               /\ ProposalsExact(commit, old)
<1> DEFINE commit == BuiltCommit(name, info, old, bind, "aad")
           proposals == <<Init0, Removing(old.index)>>
<1>1. /\ commit.sender = "new_member" /\ commit.aad = "aad" /\ commit.leaf = bind
      /\ commit.proposals = proposals
    BY DEF BuiltCommit
<1>2. /\ DOMAIN proposals = {1, 2}
      /\ proposals[1] = Init0 /\ proposals[2] = Removing(old.index)
    OBVIOUS
<1> HIDE DEF commit, proposals
<1>3. /\ Init0.kind = "init" /\ Init0.inline = TRUE
      /\ Removing(old.index).kind = "remove" /\ Removing(old.index).inline = TRUE
    BY DEF Init0, Removing
<1>4. OfKind(commit, "init") = {1} /\ OfKind(commit, "remove") = {2}
    BY <1>1, <1>2, <1>3 DEF OfKind
<1>5. Cardinality({1}) = 1 /\ Cardinality({2}) = 1
    BY FS_Singleton
<1>6. ShapeAccepted(commit)
    BY <1>1, <1>2, <1>3, <1>4, <1>5 DEF ShapeAccepted
<1>7. ProposalsExact(commit, old)
    BY <1>1, <1>2, <1>3, <1>4, <1>5 DEF ProposalsExact
<1> QED BY <1>1, <1>6, <1>7 DEF commit

(* The removed leaf comes back only if the others fill the left half of    *)
(* the tree and it was beyond the first leaf of the right half.            *)
LEMMA ReturnsOnlyAlone ==
    ASSUME NEW leaves, IsFiniteSet(leaves), Canonical(leaves),
           \A leaf \in leaves : leaf.index \in 0 .. 255,
           NEW old \in leaves,
           LeftmostBlank(leaves \ {old}) = TreeWidth(leaves \ {old}),
           LeftmostBlank(leaves \ {old}) < old.index,
           old.index < 2 * LeftmostBlank(leaves \ {old})
    PROVE  AloneBeyondFullHalf(leaves, old)
<1> DEFINE others == leaves \ {old}
           own == LeftmostBlank(others)
           index == [leaf \in others |-> leaf.index]
<1>1. /\ IsFiniteSet(others)
      /\ Cardinality(others) = Cardinality(leaves) - 1
    BY FS_RemoveElement
<1>2. own \in TreeWidths /\ \A leaf \in others : leaf.index < own
    BY WidthExists
<1>3. old.index \in Nat /\ \A leaf \in others : leaf.index # old.index
    BY DEF Canonical
<1> HIDE DEF others
<1>4. /\ own \in 0 .. old.index
      /\ own <= Cardinality(others)
      /\ \A j \in 0 .. own - 1 : \E leaf \in others : leaf.index = j
    BY <1>1, <1>3, OwnIndex
<1> HIDE DEF own
<1>5. own \in Nat
    BY <1>3, <1>4
<1>6. \A leaf \in others : leaf \in leaves /\ leaf.index \in 0 .. own - 1
    BY <1>2, <1>5 DEF others
<1>7. Cardinality(others) <= own
  <2>1. index \in Injection(others, 0 .. own - 1)
    <3>1. index \in [others -> 0 .. own - 1]
        BY <1>6
    <3>2. \A a, b \in others : index[a] = index[b] => a = b
        BY <1>6 DEF Canonical
    <3> QED BY <3>1, <3>2 DEF Injection, IsInjective
  <2>2. IsFiniteSet(0 .. own - 1) /\ Cardinality(0 .. own - 1) = own
    <3>1. 0 \in Int /\ own - 1 \in Int /\ (0 > own - 1 <=> own = 0)
        BY <1>5
    <3>2. IsFiniteSet(0 .. own - 1)
          /\ Cardinality(0 .. own - 1) = IF 0 > own - 1 THEN 0 ELSE (own - 1) - 0 + 1
        BY <3>1, FS_Interval
    <3> QED BY <1>5, <3>1, <3>2
  <2> QED BY <2>1, <2>2, FS_Injection
<1>8. Cardinality(others) = own
  <2>1. Cardinality(others) \in Nat
    BY <1>1, FS_CardinalityType
  <2> QED BY <1>4, <1>7, <1>5, <2>1
<1> QED BY <1>1, <1>2, <1>8 DEF AloneBeyondFullHalf, others, own

(* The rows a candidate derives, when the replaced leaf does not return.   *)
LEMMA DerivedRows ==
    ASSUME NEW info, Shaped(info), Canonical(info.leaves), NEW old \in info.leaves,
           ~AloneBeyondFullHalf(info.leaves, old),
           NEW commit, ProposalsExact(commit, old)
    PROVE  LET others == info.leaves \ {old}
               own == LeftmostBlank(others)
               rows == Process(StateOf(info), commit)
           IN  /\ own \in Indices0
               /\ \A leaf \in others : leaf.index # own
               /\ rows = States(info.group, info.epoch + 1, others \cup {Leaf(own, commit.leaf)},
                                [info.until EXCEPT ![own] = Forever], Append(info.ctx, commit))
<1> DEFINE others == info.leaves \ {old}
           own == LeftmostBlank(others)
           returning == {leaf \in info.leaves \ others :
                            own = TreeWidth(others) /\ leaf.index \in own + 1 .. 2 * own - 1}
<1>1. RemovedBy(commit) = {old.index}
    BY RemovesOld
<1>2. Retained(info.leaves, {old.index}) = others
    BY DEF Retained, Canonical
<1>3. IsFiniteSet(others) /\ \A leaf \in others : leaf.index # old.index
    BY FS_RemoveElement DEF Shaped, Canonical
<1>4. old.index \in Indices0 /\ old.index \in 0 .. 255
      /\ \A leaf \in info.leaves : leaf.index \in 0 .. 255
    BY IndicesAreOfTheTree DEF Shaped
<1>5. own \in 0 .. old.index /\ \A leaf \in others : leaf.index # own
  <2> HIDE DEF others
  <2>1. old.index \in Nat
    BY <1>4
  <2> QED BY <1>3, <2>1, OwnIndex
<1>6. own \in Indices0
    BY <1>4, <1>5, IndicesAreOfTheTree
<1>7. returning = {}
  <2> SUFFICES ASSUME NEW leaf \in returning PROVE FALSE
    OBVIOUS
  <2>1. leaf = old /\ own = TreeWidth(others) /\ own < old.index /\ old.index < 2 * own
    BY <1>4, <1>5
  <2> QED BY <1>4, <2>1, ReturnsOnlyAlone DEF Shaped
<1>8. /\ StateOf(info).group = info.group /\ StateOf(info).epoch = info.epoch
      /\ StateOf(info).leaves = info.leaves /\ StateOf(info).until = info.until
      /\ StateOf(info).ctx = info.ctx
    BY DEF StateOf, States
<1>9. Process(StateOf(info), commit)
        = States(info.group, info.epoch + 1, others \cup returning \cup {Leaf(own, commit.leaf)},
                 [info.until EXCEPT ![own] = Forever], Append(info.ctx, commit))
    BY <1>1, <1>2, <1>8, Zenon DEF Process, States
<1> QED BY <1>5, <1>6, <1>7, <1>9

(* The roster with one leaf replaced at a free index by a fresh binding.   *)
LEMMA ReplacedRoster ==
    ASSUME NEW leaves, IsFiniteSet(leaves), Canonical(leaves), NEW old \in leaves,
           NEW bind, bind = [identity |-> bind.identity, key |-> bind.key],
           FreshBinding(leaves, old, bind),
           NEW own, \A leaf \in leaves \ {old} : leaf.index # own
    PROVE  LET new == Leaf(own, bind)
               result == (leaves \ {old}) \cup {new}
           IN  /\ new.index = own
               /\ \A leaf \in result : Bind(leaf) = bind <=> leaf = new
               /\ LeavesAt(result, own) = {new}
               /\ Canonical(result)
               /\ Cardinality(result) = Cardinality(leaves)
               /\ old \notin result
<1> DEFINE new == Leaf(own, bind)
           others == leaves \ {old}
           result == others \cup {new}
<1>1. /\ new.index = own /\ new.identity = bind.identity /\ new.key = bind.key
      /\ Bind(new) = bind
    BY DEF Leaf, Bind
<1> HIDE DEF new
<1>2. \A leaf \in leaves : Bind(leaf) # bind
  <2>1. \A leaf : Bind(leaf).key = leaf.key
    BY DEF Bind
  <2> QED BY <2>1 DEF FreshBinding
<1>3. new \notin leaves
    BY <1>1, <1>2
<1>4. \A leaf \in result : Bind(leaf) = bind <=> leaf = new
    BY <1>1, <1>2
<1>5. LeavesAt(result, own) = {new}
    BY <1>1 DEF LeavesAt
<1>6. \A leaf \in others : leaf.index # own /\ leaf.identity # bind.identity /\ leaf.key # bind.key
    BY DEF FreshBinding
<1>7. Canonical(result)
    BY <1>1, <1>6 DEF Canonical
<1>8. IsFiniteSet(others) /\ Cardinality(others) = Cardinality(leaves) - 1
    BY FS_RemoveElement
<1>9. Cardinality(result) = Cardinality(leaves)
  <2>1. Cardinality(result) = Cardinality(others) + 1
    BY <1>3, <1>8, FS_AddElement
  <2>2. Cardinality(leaves) \in Nat
    BY FS_CardinalityType
  <2> QED BY <1>8, <2>1, <2>2
<1> QED BY <1>1, <1>3, <1>4, <1>5, <1>7, <1>9 DEF new

(* A candidate that may be prepared passes every check on its result.      *)
LEMMA PreparedPasses ==
    ASSUME now \in 0 .. MaxTime, NEW info, Shaped(info), NEW bind \in Bindings,
           NEW old \in info.leaves, NEW name, MayPrepare(name, info, old, bind),
           ~AloneBeyondFullHalf(info.leaves, old)
    PROVE  SelfChecked(Candidate(name, info, old, bind))
<1> DEFINE commit == BuiltCommit(name, info, old, bind, "aad")
           others == info.leaves \ {old}
           own == LeftmostBlank(others)
           new == Leaf(own, bind)
           rows == Process(StateOf(info), commit)
           next == SignedBy(rows, own)
           c == Candidate(name, info, old, bind)
           r == Proof(c)
<1>1. /\ SnapshotVerified(SnapshotRequest(info), now)
      /\ FreshBinding(info.leaves, old, bind)
      /\ Processes(StateOf(info), commit)
    BY DEF MayPrepare
<1>2. /\ Canonical(info.leaves)
      /\ \A leaf \in info.leaves : info.until[leaf.index] >= now
    BY <1>1 DEF SnapshotVerified, Loads, SnapshotRequest
<1>3. /\ commit.aad = "aad" /\ commit.leaf = bind
      /\ ShapeAccepted(commit) /\ ProposalsExact(commit, old)
    BY BuiltShape
<1> HIDE DEF commit
<1>4. /\ own \in Indices0
      /\ \A leaf \in others : leaf.index # own
      /\ rows = States(info.group, info.epoch + 1, others \cup {new},
                       [info.until EXCEPT ![own] = Forever], Append(info.ctx, commit))
    BY <1>2, <1>3, DerivedRows
<1>5. /\ rows.group = info.group /\ rows.epoch = info.epoch + 1
      /\ rows.leaves = others \cup {new}
      /\ rows.until = [info.until EXCEPT ![own] = Forever]
  <2> HIDE DEF rows, new, others, own
  <2> QED BY <1>4 DEF States
<1> HIDE DEF own
<1>6. /\ new.index = own
      /\ \A leaf \in rows.leaves : Bind(leaf) = bind <=> leaf = new
      /\ LeavesAt(rows.leaves, own) = {new}
      /\ Canonical(rows.leaves)
      /\ Cardinality(rows.leaves) = Cardinality(info.leaves)
      /\ old \notin rows.leaves
  <2>1. bind = [identity |-> bind.identity, key |-> bind.key]
    BY BindingsAssumption
  <2>2. rows.leaves = (info.leaves \ {old}) \cup {Leaf(own, bind)}
    BY <1>5
  <2>3. \A leaf \in info.leaves \ {old} : leaf.index # own
    BY <1>4
  <2> HIDE DEF rows
  <2> QED BY <1>1, <1>2, <2>1, <2>2, <2>3, ReplacedRoster DEF Shaped
<1> HIDE DEF rows, new
<1>7. new \in rows.leaves /\ others \subseteq rows.leaves
    BY <1>5
<1>8. (CHOOSE leaf \in rows.leaves : Bind(leaf) = bind) = new
    BY <1>6, <1>7
<1>9. /\ c.info = info /\ c.old = old /\ c.bind = bind /\ c.commit = commit
      /\ c.rows = rows /\ c.next = next
    BY <1>6, <1>8, Zenon DEF Candidate, commit, rows
<1> HIDE DEF c
<1>10. /\ next.group = rows.group /\ next.epoch = rows.epoch /\ next.leaves = rows.leaves
       /\ next.until = rows.until /\ next.ctx = rows.ctx /\ next.signer = own
       /\ StateOf(next) = StateOf(rows) /\ StateOf(rows) = rows
    BY Zenon, StatesOfStates DEF SignedBy, rows
<1> HIDE DEF next
<1>11. Author(c) = new
    BY <1>8, <1>9 DEF Author
<1>12. /\ r.base = SnapshotRequest(info) /\ r.commit = commit /\ r.commitHash = commit
       /\ r.aad = "aad" /\ r.old = old /\ r.bind = bind
       /\ r.next = next /\ r.nextHash = next /\ r.base.info = info
    BY <1>9 DEF Proof, SnapshotRequest
<1> HIDE DEF r
<1>13. CommitVerified(r)
    BY <1>1, <1>3, <1>12 DEF CommitVerified
<1>14. DeltaVerified(info, rows, old, bind)
    BY <1>5, <1>6, <1>7 DEF DeltaVerified
<1>15. Loads(next, next, now)
  <2>1. LeavesAt(next.leaves, next.signer) # {}
    BY <1>6, <1>10
  <2>2. ASSUME NEW leaf \in next.leaves PROVE next.until[leaf.index] >= now
    <3>1. DOMAIN info.until = Indices0
        BY DEF Shaped
    <3>2. CASE leaf = new
        BY <1>4, <1>5, <1>6, <1>10, <3>1, <3>2, TimeAssumption
    <3>3. CASE leaf \in others
      <4>1. leaf.index \in Indices0 /\ leaf.index # own
        BY <1>4, <3>3 DEF Shaped
      <4>2. next.until[leaf.index] = info.until[leaf.index]
        BY <1>5, <1>10, <3>1, <4>1
      <4> QED BY <1>2, <3>3, <4>2
    <3> QED BY <1>5, <1>10, <3>2, <3>3
  <2> QED BY <1>6, <1>10, <2>1, <2>2 DEF Loads
<1>16. ReportMatches(rows, next, bind)
    BY <1>6, <1>7, <1>10 DEF ReportMatches
<1>17. SuccessorVerified(r, now)
  <2>1. ResultVerified(r, now)
    BY <1>6, <1>12, <1>14, <1>15, <1>16 DEF ResultVerified, rows
  <2> QED BY <1>1, <1>12, <1>13, <2>1 DEF SuccessorVerified
<1>18. Bind(new) = bind
    BY <1>6, <1>7
<1>19. Delta(info, rows, old, new)
    BY <1>1, <1>5, <1>6, <1>7, <1>18 DEF Delta
<1> QED BY <1>9, <1>11, <1>17, <1>19 DEF SelfChecked, c, r

LEMMA InvPossible == PublishedInv /\ ShapeInv => ResyncPossible
<1> SUFFICES ASSUME PublishedInv, ShapeInv, NEW info \in published, NEW bind \in Bindings,
                    NEW old \in info.leaves, MayPrepare(Attempt, info, old, bind),
                    ~AloneBeyondFullHalf(info.leaves, old)
             PROVE  SelfChecked(Candidate(Attempt, info, old, bind))
    BY DEF ResyncPossible
<1>1. Shaped(info) /\ now \in 0 .. MaxTime
    BY PublishedShaped DEF ShapeInv
<1> QED BY <1>1, PreparedPasses

-----------------------------------------------------------------------------
(* Rows promoted from a candidate are those of a state the service ordered *)
(* (external::accept, MlsExternalCommitBindingV1).                         *)
THEOREM PromotedWereOrdered == Spec => []PromotedOnLine
<1>1. ResyncInv => PromotedOnLine
    BY DEF ResyncInv
<1> QED BY <1>1, Invariant, PTL

(* An accepted candidate is promoted however late, over any restart, as    *)
(* long as the target has no rows of the group and its lifecycle context   *)
(* (candidate::read, external::accept).                                    *)
THEOREM AcceptedArePromoted == Spec => []AcceptedPromotes
<1> QED BY InvPromotes, Invariant, PTL

(* A Commit ordered on the public validator's word passes every check of   *)
(* the private receiver (external::receive).                               *)
THEOREM OrderedAreReceived == Spec => []OrderedReceivable
<1> QED BY InvReceives, Invariant, PTL

(* However its inputs are put together, the validator verifies only the    *)
(* state every member derives from that Commit, in which the authorized    *)
(* leaf alone was replaced (public::successor_inner).                      *)
THEOREM VerifiedAreExact == Spec => []VerifiedIsExact
<1>1. ResyncInv => PublishedInv
    BY DEF ResyncInv
<1> QED BY <1>1, InvVerified, Invariant, ShapeInvariant, PTL

(* An installation that may prepare a candidate is refused by no check on  *)
(* its own result, unless the replaced leaf comes back (external::prepare, *)
(* public::successor_inner, validate_delta).                               *)
THEOREM ResyncIsPossible == Spec => []ResyncPossible
<1>1. ResyncInv => PublishedInv
    BY DEF ResyncInv
<1> QED BY <1>1, InvPossible, Invariant, ShapeInvariant, PTL
=============================================================================
