------------------------- MODULE GroupLifecycleProofs -------------------------
(***************************************************************************)
(* Proofs about GroupLifecycle, and about Installation, which implements   *)
(* it: for every retention, set of peers, KeyPackages, Welcomes, messages  *)
(* and workers, every window and every bound.                              *)
(*                                                                         *)
(* First the types of what each operation returns; then what an operation  *)
(* may do to this installation's encryption counters (Stays, Advances),    *)
(* from which SealOnce follows by the inductive invariant SealInv.         *)
(*                                                                         *)
(* Then no sequence of legal calls locks an installation out, and none     *)
(* hands a plaintext out twice: every durable state reached passes the     *)
(* checks of runtime::load, the metadata's rosters and OpenMLS's past      *)
(* epochs stay in step, and the key of a message handed out is gone.       *)
(*                                                                         *)
(* None of that is inductive alone: a merge of a pending Commit leads to   *)
(* loadable rows only because a Commit was never prepared for an empty     *)
(* roster, the two lists stay in step only because the metadata they are   *)
(* compared with is valid (LoadInv), and a key stays gone in an epoch that *)
(* is filed away only because no other epoch is filed under its number     *)
(* (HandedInv).                                                            *)
(*                                                                         *)
(* Last, any number of workers with stale reads, races and crashes do      *)
(* nothing that the atomic operations could not do: InstSpec implements    *)
(* Spec, and so inherits every theorem about it.                           *)
(***************************************************************************)
EXTENDS Installation, SequenceTheorems, TLAPS

PastEpoch == [epoch : Nat, tree : EpochSecrets]

-----------------------------------------------------------------------------
(* Types of the parts *)

\* The place of a key a message names.
LEMMA MessageFacts ==
    ASSUME NEW m \in Message
    PROVE  /\ m.ratchet \in RatchetKind
           /\ m.epoch \in Nat
           /\ m.from \in Peer
           /\ m.gen \in Nat
  BY MessageAssumption DEF MessageType

\* validate_retention admits no retention below 2.
LEMMA RetentionFacts == Retention \in Nat /\ Retention >= 2
  BY RetentionAssumption

\* Some(x) is an Option.
LEMMA SomeTyped ==
    ASSUME NEW S, NEW x \in S
    PROVE  {x} \in Option(S) /\ The({x}) = x
  BY DEF Option, The

\* None is an Option.
LEMMA NoneTyped ==
    ASSUME NEW S
    PROVE  {} \in Option(S)
  BY DEF Option

\* What an Option holds.
LEMMA OptionFacts ==
    ASSUME NEW S, NEW T \in Option(S)
    PROVE  T \subseteq S /\ \A x, y \in T : x = y
  BY DEF Option

\* A window stays a window when a key is taken.
LEMMA TakeKeyTyped ==
    ASSUME NEW w \in Window, NEW g \in Nat
    PROVE  TakeKey(w, g) \in Window
<1>1. w.head \in Nat /\ w.keys \subseteq Nat
  BY DEF Window
<1>2. w.head .. g - 1 \subseteq Nat /\ g + 1 \in Nat
  BY <1>1
<1>3. CASE g >= w.head
  <2> DEFINE kept == {k \in w.keys \cup (w.head .. g - 1) : g + 1 - k <= Tolerance}
  <2>1. TakeKey(w, g) = [head |-> g + 1, keys |-> kept]
    BY <1>3 DEF TakeKey
  <2>2. kept \subseteq Nat
    BY <1>1, <1>2
  <2> HIDE DEF kept
  <2> QED  BY <1>2, <2>1, <2>2 DEF Window
<1>4. CASE ~(g >= w.head)
  BY <1>1, <1>4 DEF TakeKey, Window
<1> QED
  BY <1>3, <1>4

\* The secrets of an epoch stay well typed, and taking a peer's key leaves this
\* installation's counters alone.
LEMMA TakeFromTyped ==
    ASSUME NEW tree \in EpochSecrets, NEW m \in Message
    PROVE  TakeFrom(tree, m) \in EpochSecrets /\ TakeFrom(tree, m).sent = tree.sent
<1> DEFINE old == tree.window[m.ratchet][m.from]
           new == TakeKey(old, m.gen)
           window == [tree.window EXCEPT ![m.ratchet] = [@ EXCEPT ![m.from] = new]]
<1>1. /\ tree.sent \in [RatchetKind -> Nat]
      /\ tree.window \in [RatchetKind -> [Peer -> Window]]
      /\ tree = [sent |-> tree.sent, window |-> tree.window]
  BY DEF EpochSecrets
<1>2. old \in Window
  BY <1>1, MessageFacts
<1>3. new \in Window
  BY <1>2, TakeKeyTyped, MessageFacts
<1>4. TakeFrom(tree, m) = [tree EXCEPT !.window = window]
  BY <1>1, MessageFacts DEF TakeFrom
<1> HIDE DEF new
<1>5. window \in [RatchetKind -> [Peer -> Window]]
  BY <1>1, <1>3, MessageFacts
<1> HIDE DEF window
<1> QED
  BY <1>1, <1>4, <1>5 DEF EpochSecrets

\* FreshSecrets are secrets nothing was encrypted under.
LEMMA FreshTyped == FreshSecrets \in EpochSecrets
<1>1. NewWindow \in Window
  BY DEF NewWindow, Window
<1> QED
  BY <1>1 DEF FreshSecrets, EpochSecrets

\* MessageSecretsStore::add keeps a well-typed list.
LEMMA AddEpochTyped ==
    ASSUME NEW past \in Seq(PastEpoch), NEW epoch \in Nat, NEW tree \in EpochSecrets
    PROVE  AddEpoch(past, epoch, tree) \in Seq(PastEpoch)
<1>1. [epoch |-> epoch, tree |-> tree] \in PastEpoch
  BY DEF PastEpoch
<1>2. CASE Len(past) >= Retention
  <2>1. past # <<>>
    BY <1>2, RetentionFacts
  <2>2. Tail(past) \in Seq(PastEpoch)
    BY <2>1
  <2> QED  BY <1>1, <1>2, <2>2 DEF AddEpoch
<1>3. CASE ~(Len(past) >= Retention)
  BY <1>1, <1>3 DEF AddEpoch
<1> QED
  BY <1>2, <1>3

\* The parts of well-typed rows.
LEMMA RowsFacts ==
    ASSUME NEW r \in Rows
    PROVE  /\ r = [group |-> r.group, secrets |-> r.secrets,
                   local |-> r.local, retry |-> r.retry]
           /\ r.group \in GroupState
           /\ r.group.active \in BOOLEAN
           /\ r.group.current \in Roster
           /\ r.group.current.epoch \in Nat
           /\ r.group.current.leaves \subseteq Leaf
           /\ r.secrets \in SecretsStore
           /\ r.secrets.current \in EpochSecrets
           /\ r.secrets.past \in Seq(PastEpoch)
           /\ r.local \in LocalState
           /\ r.retry \subseteq RetryRow
  BY DEF Rows, GroupState, SecretsStore, Roster, PastEpoch

\* The message secrets after a peer's key was taken; own counters are untouched.
LEMMA UnprotectTyped ==
    ASSUME NEW r \in Rows, NEW m \in Message
    PROVE  /\ Unprotect(r, m) \in SecretsStore
           /\ Unprotect(r, m).current.sent = r.secrets.current.sent
<1>1. /\ r.secrets.current \in EpochSecrets
      /\ r.secrets.past \in Seq(PastEpoch)
  BY RowsFacts
<1>2. CASE m.epoch < r.group.current.epoch
  <2> DEFINE Taken(i) == IF r.secrets.past[i].epoch = m.epoch
                         THEN [epoch |-> m.epoch, tree |-> TakeFrom(r.secrets.past[i].tree, m)]
                         ELSE r.secrets.past[i]
             past == [i \in 1 .. Len(r.secrets.past) |-> Taken(i)]
  <2>1. ASSUME NEW i \in 1 .. Len(r.secrets.past)
        PROVE  Taken(i) \in PastEpoch
    <3>1. r.secrets.past[i] \in PastEpoch
      BY <1>1
    <3>2. r.secrets.past[i].tree \in EpochSecrets
      BY <3>1 DEF PastEpoch
    <3>3. TakeFrom(r.secrets.past[i].tree, m) \in EpochSecrets
      BY <3>2, TakeFromTyped
    <3> QED  BY <3>1, <3>3, MessageFacts DEF PastEpoch
  <2>2. Unprotect(r, m) = [current |-> r.secrets.current, past |-> past]
    BY <1>2 DEF Unprotect
  <2> HIDE DEF Taken
  <2>3. Len(r.secrets.past) \in Nat
    BY <1>1
  <2>4. past \in Seq(PastEpoch)
    BY <2>1, <2>3
  <2> HIDE DEF past
  <2> QED  BY <1>1, <2>2, <2>4 DEF SecretsStore, PastEpoch
<1>3. CASE ~(m.epoch < r.group.current.epoch)
  <2>1. /\ TakeFrom(r.secrets.current, m) \in EpochSecrets
        /\ TakeFrom(r.secrets.current, m).sent = r.secrets.current.sent
    BY <1>1, TakeFromTyped
  <2>2. Unprotect(r, m) = [current |-> TakeFrom(r.secrets.current, m), past |-> r.secrets.past]
    BY <1>3 DEF Unprotect
  <2> QED  BY <1>1, <2>1, <2>2 DEF SecretsStore, PastEpoch
<1> QED
  BY <1>2, <1>3

\* The roster a Commit leads to is one epoch on.
LEMMA NextRosterTyped ==
    ASSUME NEW r \in Rows, NEW leaves \in SUBSET Leaf
    PROVE  /\ NextRoster(r, leaves) \in Roster
           /\ NextRoster(r, leaves).epoch = r.group.current.epoch + 1
  BY RowsFacts DEF NextRoster, Roster

\* LocalGroupState::advance keeps well-typed metadata.
LEMMA AdvanceTyped ==
    ASSUME NEW l \in LocalState, NEW resulting \in Roster
    PROVE  Advance(l, resulting) \in LocalState
<1>1. /\ l.join \in Nat /\ l.current \in Roster /\ l.history \in Seq(Roster)
  BY DEF LocalState
<1>2. Append(l.history, l.current) \in Seq(Roster) /\ Append(l.history, l.current) # <<>>
  BY <1>1, AppendProperties
<1>3. Tail(Append(l.history, l.current)) \in Seq(Roster)
  BY <1>2
<1>4. {} \in Option(Pending)
  BY NoneTyped
<1> QED
  BY <1>1, <1>2, <1>3, <1>4 DEF Advance, LocalState

\* Merging leads to well-typed rows one epoch on.
LEMMA MergeCommitTyped ==
    ASSUME NEW r \in Rows, NEW s \in SecretsStore, NEW leaves \in SUBSET Leaf
    PROVE  /\ MergeCommit(r, s, leaves) \in Rows
           /\ MergeCommit(r, s, leaves).group.current.epoch = r.group.current.epoch + 1
<1>1. s.current \in EpochSecrets /\ s.past \in Seq(PastEpoch)
  BY DEF SecretsStore, PastEpoch
<1>2. AddEpoch(s.past, r.group.current.epoch, s.current) \in Seq(PastEpoch)
  BY <1>1, AddEpochTyped, RowsFacts
<1>3. [current |-> FreshSecrets,
       past |-> AddEpoch(s.past, r.group.current.epoch, s.current)] \in SecretsStore
  BY <1>2, FreshTyped DEF SecretsStore, PastEpoch
<1>4. [active |-> TRUE, current |-> NextRoster(r, leaves),
       pending |-> {}, proposals |-> FALSE] \in GroupState
  BY NextRosterTyped, NoneTyped DEF GroupState
<1>5. Advance(r.local, NextRoster(r, leaves)) \in LocalState
  BY RowsFacts, NextRosterTyped, AdvanceTyped
<1> QED
  BY <1>3, <1>4, <1>5, RowsFacts, NextRosterTyped DEF MergeCommit, Rows

\* So does the merge of a Commit that removes this installation.
LEMMA MergeOwnRemovalTyped ==
    ASSUME NEW r \in Rows, NEW s \in SecretsStore, NEW leaves \in SUBSET Leaf
    PROVE  /\ MergeOwnRemoval(r, s, leaves) \in Rows
           /\ MergeOwnRemoval(r, s, leaves).group.current.epoch = r.group.current.epoch + 1
<1>1. r.group.proposals \in BOOLEAN
  BY RowsFacts DEF GroupState
<1>2. [active |-> FALSE, current |-> NextRoster(r, leaves),
       pending |-> {}, proposals |-> r.group.proposals] \in GroupState
  BY <1>1, NextRosterTyped, NoneTyped DEF GroupState
<1>3. Advance(r.local, NextRoster(r, leaves)) \in LocalState
  BY RowsFacts, NextRosterTyped, AdvanceTyped
<1> QED
  BY <1>2, <1>3, RowsFacts, NextRosterTyped DEF MergeOwnRemoval, Rows

\* Dropping the pending Commit changes neither epoch nor secrets.
LEMMA WithoutPendingTyped ==
    ASSUME NEW r \in Rows
    PROVE  /\ WithoutPending(r) \in Rows
           /\ WithoutPending(r).group.active = r.group.active
           /\ WithoutPending(r).group.current = r.group.current
           /\ WithoutPending(r).secrets = r.secrets
<1>1. /\ [r.group EXCEPT !.pending = {}] \in GroupState
      /\ [r.group EXCEPT !.pending = {}].active = r.group.active
      /\ [r.group EXCEPT !.pending = {}].current = r.group.current
  BY RowsFacts, NoneTyped DEF GroupState
<1>2. [r.local EXCEPT !.pending = {}] \in LocalState
  BY RowsFacts, NoneTyped DEF LocalState
<1> QED
  BY <1>1, <1>2, RowsFacts DEF WithoutPending, Rows

\* One more ciphertext of this installation's own.
CountUp(secrets, kind) == [secrets EXCEPT !.current.sent[kind] = @ + 1]

\* Counting up changes that counter only.
LEMMA CountUpTyped ==
    ASSUME NEW r \in Rows, NEW kind \in RatchetKind
    PROVE  /\ CountUp(r.secrets, kind) \in SecretsStore
           /\ CountUp(r.secrets, kind).current.sent =
                [r.secrets.current.sent EXCEPT ![kind] = @ + 1]
<1>1. /\ r.secrets.current.sent \in [RatchetKind -> Nat]
      /\ r.secrets.current.window \in [RatchetKind -> [Peer -> Window]]
      /\ r.secrets.past \in Seq(PastEpoch)
      /\ r.secrets = [current |-> r.secrets.current, past |-> r.secrets.past]
  BY RowsFacts DEF EpochSecrets, SecretsStore
<1> DEFINE sent == [r.secrets.current.sent EXCEPT ![kind] = @ + 1]
           current == [r.secrets.current EXCEPT !.sent = sent]
<1>2. sent \in [RatchetKind -> Nat]
  BY <1>1
<1>3. CountUp(r.secrets, kind) = [r.secrets EXCEPT !.current = current]
  BY Zenon DEF CountUp
<1> HIDE DEF sent
<1>4. current \in EpochSecrets /\ current.sent = sent
  BY <1>1, <1>2, RowsFacts DEF EpochSecrets
<1> HIDE DEF current
<1>5. CountUp(r.secrets, kind) = [current |-> current, past |-> r.secrets.past]
  BY <1>1, <1>3
<1>6. CountUp(r.secrets, kind) \in SecretsStore /\ CountUp(r.secrets, kind).current.sent = sent
  BY <1>1, <1>4, <1>5 DEF SecretsStore, PastEpoch
<1> QED
  BY <1>6 DEF sent

\* Preparing counts the handshake ratchet up and changes nothing else of the epoch.
LEMMA WithPendingTyped ==
    ASSUME NEW r \in Rows, NEW leaves \in SUBSET Leaf
    PROVE  LET q == WithPending(r, StagedCommit(r, leaves))
           IN  /\ q \in Rows
               /\ q.group.active = r.group.active
               /\ q.group.current = r.group.current
               /\ q.secrets.current.sent =
                    [r.secrets.current.sent EXCEPT !["handshake"] = @ + 1]
<1> DEFINE c == StagedCommit(r, leaves)
           record == [binding |-> c, previous |-> r.local.current,
                      proposed |-> NextRoster(r, leaves), upstream |-> c]
           s == CountUp(r.secrets, "handshake")
           group == [r.group EXCEPT !.pending = {c}]
           local == [r.local EXCEPT !.pending = {record}]
<1>1. c \in Commit /\ c.leaves = leaves
  <2>1. r.secrets.current.sent["handshake"] \in Nat
    BY RowsFacts DEF EpochSecrets, RatchetKind
  <2> QED  BY <2>1, RowsFacts DEF StagedCommit, Commit
<1>2. s \in SecretsStore
      /\ s.current.sent = [r.secrets.current.sent EXCEPT !["handshake"] = @ + 1]
  BY CountUpTyped DEF RatchetKind
<1> HIDE DEF c, s
<1>3. record \in Pending
  BY <1>1, RowsFacts, NextRosterTyped DEF Pending, LocalState
<1>4. {record} \in Option(Pending) /\ {c} \in Option(Commit)
  BY <1>1, <1>3, SomeTyped
<1>5. RetryRows(c) \subseteq RetryRow
  BY <1>1 DEF RetryRows, RetryRow
<1> HIDE DEF record
<1>6. group \in GroupState /\ group.active = r.group.active /\ group.current = r.group.current
  BY <1>4, RowsFacts DEF GroupState
<1>7. local \in LocalState
  BY <1>4, RowsFacts DEF LocalState
<1>8. WithPending(r, c) = [group |-> group, secrets |-> s, local |-> local,
                           retry |-> RetryRows(c)]
  BY <1>1 DEF WithPending, CountUp, record, s
<1> HIDE DEF group, local
<1>9. /\ WithPending(r, c) \in Rows
      /\ WithPending(r, c).group.active = r.group.active
      /\ WithPending(r, c).group.current = r.group.current
      /\ WithPending(r, c).secrets = s
  BY <1>2, <1>5, <1>6, <1>7, <1>8 DEF Rows
<1> QED
  BY <1>2, <1>9 DEF c

\* A group is entered with rows of the right type in the roster's epoch.
LEMMA NewRowsTyped ==
    ASSUME NEW current \in Roster
    PROVE  /\ NewRows(current) \in Rows
           /\ NewRows(current).group.current = current
<1>1. [active |-> TRUE, current |-> current, pending |-> {}, proposals |-> FALSE] \in GroupState
  BY NoneTyped DEF GroupState
<1>2. [current |-> FreshSecrets, past |-> <<>>] \in SecretsStore
  BY FreshTyped DEF SecretsStore
<1>3. NewLocal(current) \in LocalState
  BY NoneTyped DEF NewLocal, LocalState, Roster
<1> QED
  BY <1>1, <1>2, <1>3 DEF NewRows, Rows

-----------------------------------------------------------------------------
(* What each operation returns *)

\* This installation's counters went from old to new, and the keys of S are among
\* those they passed in that epoch.
CountersPass(old, new, epoch, S) ==
    /\ \A kind \in RatchetKind : old[kind] <= new[kind]
    /\ \A k \in S :
        /\ k.epoch = epoch
        /\ old[k.ratchet] <= k.gen
        /\ k.gen < new[k.ratchet]

\* Outcome o of an operation on active rows r stays in their epoch, and seals
\* only under keys its counters pass.
StaysIn(r, o, q) ==
    /\ o.rows = {q}
    /\ o.joined = {}
    /\ q.group.current.epoch = r.group.current.epoch
    /\ CountersPass(r.secrets.current.sent, q.secrets.current.sent,
                    r.group.current.epoch, o.sealed)

Stays(r, o) == r.group.active /\ \E q \in Rows : StaysIn(r, o, q)

\* Outcome o of an operation on rows r leads to the next epoch.
Advances(r, o) ==
    /\ o.joined = {}
    /\ o.sealed = {}
    /\ \E q \in Rows :
        /\ o.rows = {q}
        /\ q.group.current.epoch = r.group.current.epoch + 1

\* Outcome o enters the group, by Welcome w where it joins one.
Enters(epoch, o) ==
    /\ o.sealed = {}
    /\ \E q \in Rows : o.rows = {q} /\ q.group.current.epoch = epoch

\* Counting up passes the key the counter stood at.
LEMMA CountUpPasses ==
    ASSUME NEW old \in [RatchetKind -> Nat], NEW kind \in RatchetKind, NEW epoch
    PROVE  CountersPass(old, [old EXCEPT ![kind] = @ + 1], epoch,
                        {[ratchet |-> kind, epoch |-> epoch, gen |-> old[kind]]})
<1>1. \A x \in RatchetKind : old[x] \in Nat
  OBVIOUS
<1> QED
  BY <1>1 DEF CountersPass

\* Untouched counters pass no key.
LEMMA NothingPasses ==
    ASSUME NEW old \in [RatchetKind -> Nat], NEW epoch
    PROVE  CountersPass(old, old, epoch, {})
<1>1. \A x \in RatchetKind : old[x] \in Nat
  OBVIOUS
<1> QED
  BY <1>1 DEF CountersPass

\* The counters of the current epoch are numbers.
LEMMA CounterFacts ==
    ASSUME NEW r \in Rows
    PROVE  r.secrets.current.sent \in [RatchetKind -> Nat]
  BY RowsFacts DEF EpochSecrets

\* send seals under one key of the application ratchet.
LEMMA SendStays ==
    ASSUME NEW snapshot \in Option(Rows), NEW o \in Send(snapshot)
    PROVE  \E r \in snapshot : Stays(r, o)
<1>1. PICK r \in snapshot :
        /\ r.group.active
        /\ o = Outcome({[r EXCEPT !.secrets = CountUp(r.secrets, "application")]}, {},
                       {[ratchet |-> "application", epoch |-> r.group.current.epoch,
                         gen |-> r.secrets.current.sent["application"]]}, {})
  BY DEF Send, Load, CountUp
<1> DEFINE s == CountUp(r.secrets, "application")
           q == [r EXCEPT !.secrets = s]
           k == [ratchet |-> "application", epoch |-> r.group.current.epoch,
                 gen |-> r.secrets.current.sent["application"]]
<1>2. r \in Rows
  BY <1>1, OptionFacts
<1>3. /\ s \in SecretsStore
      /\ s.current.sent = [r.secrets.current.sent EXCEPT !["application"] = @ + 1]
  BY <1>2, CountUpTyped DEF RatchetKind
<1>4. CountersPass(r.secrets.current.sent, s.current.sent, r.group.current.epoch, {k})
  <2>1. r.secrets.current.sent \in [RatchetKind -> Nat] /\ "application" \in RatchetKind
    BY <1>2, CounterFacts DEF RatchetKind
  <2> HIDE DEF s
  <2> QED  BY <1>3, <2>1, CountUpPasses
<1> HIDE DEF s
<1>5. q \in Rows /\ q.group = r.group /\ q.secrets = s
  BY <1>2, <1>3, RowsFacts DEF Rows
<1>6. o.rows = {q} /\ o.sealed = {k} /\ o.joined = {}
  BY <1>1 DEF Outcome, s
<1> HIDE DEF q, k
<1>7. StaysIn(r, o, q)
  BY <1>4, <1>5, <1>6 DEF StaysIn
<1> QED
  BY <1>1, <1>5, <1>7 DEF Stays

\* prepare seals under one key of the handshake ratchet.
LEMMA PrepareStays ==
    ASSUME NEW snapshot \in Option(Rows), NEW o \in Prepare(snapshot)
    PROVE  \E r \in snapshot : Stays(r, o)
<1>1. PICK r \in snapshot, leaves \in LeafSets :
        /\ r.group.active
        /\ o = Outcome({WithPending(r, StagedCommit(r, leaves))}, {},
                       {[ratchet |-> "handshake", epoch |-> r.group.current.epoch,
                         gen |-> r.secrets.current.sent["handshake"]]}, {})
  BY DEF Prepare, Load
<1> DEFINE q == WithPending(r, StagedCommit(r, leaves))
           k == [ratchet |-> "handshake", epoch |-> r.group.current.epoch,
                 gen |-> r.secrets.current.sent["handshake"]]
<1>2. r \in Rows /\ leaves \in SUBSET Leaf
  BY <1>1, OptionFacts, LeafSetsAssumption
<1>3. /\ q \in Rows
      /\ q.group.current = r.group.current
      /\ q.secrets.current.sent = [r.secrets.current.sent EXCEPT !["handshake"] = @ + 1]
  BY <1>2, WithPendingTyped
<1>4. CountersPass(r.secrets.current.sent, q.secrets.current.sent,
                   r.group.current.epoch, {k})
  BY <1>2, <1>3, CounterFacts, CountUpPasses DEF RatchetKind
<1>5. o.rows = {q} /\ o.sealed = {k} /\ o.joined = {}
  BY <1>1 DEF Outcome
<1> HIDE DEF q, k
<1>6. StaysIn(r, o, q)
  BY <1>3, <1>4, <1>5 DEF StaysIn
<1> QED
  BY <1>1, <1>3, <1>6 DEF Stays

\* discard keeps the epoch and its counters.
LEMMA DiscardStays ==
    ASSUME NEW snapshot \in Option(Rows), NEW o \in Discard(snapshot)
    PROVE  \E r \in snapshot : Stays(r, o)
<1>1. PICK r \in snapshot : r.group.active /\ o = Outcome({WithoutPending(r)}, {}, {}, {})
  BY DEF Discard, Load
<1>2. r \in Rows
  BY <1>1, OptionFacts
<1>3. o.rows = {WithoutPending(r)} /\ o.sealed = {} /\ o.joined = {}
  BY <1>1 DEF Outcome
<1>4. WithoutPending(r) \in Rows /\ StaysIn(r, o, WithoutPending(r))
  BY <1>2, <1>3, WithoutPendingTyped, CounterFacts, NothingPasses DEF StaysIn
<1> QED
  BY <1>1, <1>4 DEF Stays

\* merge leads to the next epoch.
LEMMA MergeAdvances ==
    ASSUME NEW snapshot \in Option(Rows), NEW o \in Merge(snapshot)
    PROVE  \E r \in snapshot : Advances(r, o)
<1>1. PICK r \in snapshot : \E p \in r.local.pending :
        o = Outcome({[MergeCommit(r, r.secrets, p.upstream.leaves) EXCEPT !.retry = {}]},
                    {}, {}, {})
  BY DEF Merge, Load
<1>0. PICK p \in r.local.pending :
        o = Outcome({[MergeCommit(r, r.secrets, p.upstream.leaves) EXCEPT !.retry = {}]},
                    {}, {}, {})
  BY <1>1
<1> DEFINE merged == MergeCommit(r, r.secrets, p.upstream.leaves)
           q == [merged EXCEPT !.retry = {}]
<1>2. r \in Rows
  BY <1>1, OptionFacts
<1>3. p.upstream.leaves \in SUBSET Leaf
  <2>1. r.local.pending \in Option(Pending)
    BY <1>2, RowsFacts DEF LocalState
  <2>2. p \in Pending
    BY <2>1, OptionFacts
  <2> QED  BY <2>2 DEF Pending, Commit
<1>4. merged \in Rows /\ merged.group.current.epoch = r.group.current.epoch + 1
  BY <1>2, <1>3, RowsFacts, MergeCommitTyped
<1> HIDE DEF merged
<1>5. q \in Rows /\ q.group = merged.group
  BY <1>4, RowsFacts DEF Rows
<1>6. o.rows = {q} /\ o.sealed = {} /\ o.joined = {}
  BY <1>0 DEF Outcome, merged
<1> HIDE DEF q
<1> QED
  BY <1>4, <1>5, <1>6 DEF Advances

\* Opening an application message touches no counter.
LEMMA ReceiveApplicationStays ==
    ASSUME NEW snapshot \in Option(Rows), NEW o \in ReceiveApplication(snapshot)
    PROVE  \E r \in snapshot : Stays(r, o)
<1>1. PICK r \in snapshot : \E m \in Openable(r, "application") :
        o = Outcome({[r EXCEPT !.secrets = Unprotect(r, m)]}, {m}, {}, {})
  BY DEF ReceiveApplication, Load
<1>2. PICK m \in Message :
        /\ ReceiveError(r, m) = "Ok"
        /\ o = Outcome({[r EXCEPT !.secrets = Unprotect(r, m)]}, {m}, {}, {})
  BY <1>1 DEF Openable
<1> DEFINE q == [r EXCEPT !.secrets = Unprotect(r, m)]
<1>3. r \in Rows /\ r.group.active
  BY <1>1, <1>2, OptionFacts DEF ReceiveError
<1>4. q \in Rows /\ q.group = r.group /\ q.secrets = Unprotect(r, m)
  BY <1>3, UnprotectTyped, RowsFacts DEF Rows
<1>5. o.rows = {q} /\ o.sealed = {} /\ o.joined = {}
  BY <1>2 DEF Outcome
<1> HIDE DEF q
<1>6. StaysIn(r, o, q)
  BY <1>3, <1>4, <1>5, UnprotectTyped, CounterFacts, NothingPasses DEF StaysIn
<1> QED
  BY <1>3, <1>4, <1>6 DEF Stays

\* Opening a Proposal touches no counter.
LEMMA ReceiveProposalStays ==
    ASSUME NEW snapshot \in Option(Rows), NEW o \in ReceiveProposal(snapshot)
    PROVE  \E r \in snapshot : Stays(r, o)
<1>1. PICK r \in snapshot : \E m \in Openable(r, "handshake") :
        o = Outcome({[r EXCEPT !.secrets = Unprotect(r, m), !.group.proposals = TRUE]},
                    {m}, {}, {})
  BY DEF ReceiveProposal, Load
<1>2. PICK m \in Message :
        /\ ReceiveError(r, m) = "Ok"
        /\ o = Outcome({[r EXCEPT !.secrets = Unprotect(r, m), !.group.proposals = TRUE]},
                       {m}, {}, {})
  BY <1>1 DEF Openable
<1> DEFINE group == [r.group EXCEPT !.proposals = TRUE]
           q == [r EXCEPT !.secrets = Unprotect(r, m), !.group = group]
<1>3. r \in Rows /\ r.group.active
  BY <1>1, <1>2, OptionFacts DEF ReceiveError
<1>4. group \in GroupState /\ group.current = r.group.current
  BY <1>3, RowsFacts DEF GroupState
<1>5. q = [r EXCEPT !.secrets = Unprotect(r, m), !.group.proposals = TRUE]
  BY Zenon
<1>6. o.rows = {q} /\ o.sealed = {} /\ o.joined = {}
  <2> HIDE DEF q
  <2> QED  BY <1>2, <1>5 DEF Outcome
<1> HIDE DEF group
<1>7. q \in Rows /\ q.group = group /\ q.secrets = Unprotect(r, m)
  BY <1>3, <1>4, UnprotectTyped, RowsFacts DEF Rows
<1> HIDE DEF q
<1>8. StaysIn(r, o, q)
  BY <1>3, <1>4, <1>6, <1>7, UnprotectTyped, CounterFacts, NothingPasses DEF StaysIn
<1> QED
  BY <1>3, <1>7, <1>8 DEF Stays

\* A Commit leads to the next epoch, a removal of this installation too.
LEMMA ReceiveCommitAdvances ==
    ASSUME NEW snapshot \in Option(Rows), NEW o \in ReceiveCommit(snapshot)
    PROVE  \E r \in snapshot : Advances(r, o)
<1> DEFINE After(r, m, leaves) == IF Self \in leaves
                                  THEN MergeCommit(r, Unprotect(r, m), leaves)
                                  ELSE MergeOwnRemoval(r, Unprotect(r, m), leaves)
<1> DEFINE OfMessage(r, m) == {Outcome({After(r, m, leaves)}, {m}, {}, {}) :
                                   leaves \in {l \in LeafSets : m.from \in l}}
           OfRows(r) == UNION {OfMessage(r, m) : m \in Openable(r, "handshake")}
<1>1. PICK r \in Load(snapshot) : o \in OfRows(r)
  <2>1. o \in UNION {OfRows(r) : r \in {q \in Load(snapshot) :
                                        q.group.current.epoch < MaxEpoch}}
    BY Zenon DEF ReceiveCommit
  <2> HIDE DEF OfRows
  <2> QED  BY <2>1
<1>2. PICK m \in Message, leaves \in LeafSets :
        o = Outcome({After(r, m, leaves)}, {m}, {}, {})
  <2>1. PICK m \in Openable(r, "handshake") : o \in OfMessage(r, m)
    <3> HIDE DEF OfMessage
    <3> QED  BY <1>1
  <2> HIDE DEF After
  <2> QED  BY <2>1 DEF Openable
<1>3. r \in Rows /\ leaves \in SUBSET Leaf
  BY <1>1, OptionFacts, LeafSetsAssumption DEF Load
<1>4. Unprotect(r, m) \in SecretsStore
  BY <1>3, UnprotectTyped
<1>5. /\ After(r, m, leaves) \in Rows
      /\ After(r, m, leaves).group.current.epoch = r.group.current.epoch + 1
  BY <1>3, <1>4, MergeCommitTyped, MergeOwnRemovalTyped
<1>6. o.rows = {After(r, m, leaves)} /\ o.sealed = {} /\ o.joined = {}
  BY <1>2 DEF Outcome
<1> HIDE DEF After
<1> QED
  BY <1>1, <1>5, <1>6 DEF Advances, Load

\* An external Commit leads to the next epoch.
LEMMA ReceiveExternalAdvances ==
    ASSUME NEW snapshot \in Option(Rows), NEW o \in ReceiveExternal(snapshot)
    PROVE  \E r \in snapshot : Advances(r, o)
<1> DEFINE Leaves(r, d) == (r.group.current.leaves \ {d[1]}) \cup {d[2]}
<1> DEFINE OfRows(r) ==
        {Outcome({MergeCommit(WithoutPending(r), r.secrets, Leaves(r, d))}, {}, {}, {}) :
            d \in {x \in (r.group.current.leaves \ {Self}) \X Peer :
                        x[2] \notin r.group.current.leaves}}
<1>1. PICK r \in Load(snapshot) : o \in OfRows(r)
  <2>1. o \in UNION {OfRows(r) : r \in {q \in Load(snapshot) :
                            q.group.active /\ q.group.current.epoch < MaxEpoch}}
    BY Zenon DEF ReceiveExternal
  <2> HIDE DEF OfRows
  <2> QED  BY <2>1
<1>3. PICK d \in (r.group.current.leaves \ {Self}) \X Peer :
        o = Outcome({MergeCommit(WithoutPending(r), r.secrets, Leaves(r, d))}, {}, {}, {})
  <2> HIDE DEF Leaves
  <2> QED  BY <1>1
<1>4. r \in Rows
  BY <1>1, OptionFacts DEF Load
<1>5. Leaves(r, d) \in SUBSET Leaf
  BY <1>3, <1>4, RowsFacts DEF Leaf
<1> HIDE DEF Leaves
<1> DEFINE q == MergeCommit(WithoutPending(r), r.secrets, Leaves(r, d))
<1>6. q \in Rows /\ q.group.current.epoch = r.group.current.epoch + 1
  BY <1>4, <1>5, RowsFacts, WithoutPendingTyped, MergeCommitTyped
<1>7. o.rows = {q} /\ o.sealed = {} /\ o.joined = {}
  BY <1>3 DEF Outcome
<1> HIDE DEF q
<1> QED
  BY <1>1, <1>6, <1>7 DEF Advances, Load

\* create enters epoch 0.
LEMMA CreateEnters ==
    ASSUME NEW o \in Create
    PROVE  Enters(0, o) /\ o.joined = {}
<1> DEFINE current == [epoch |-> 0, leaves |-> {Self}]
<1>1. current \in Roster
  BY DEF Roster, Leaf
<1>2. o.rows = {NewRows(current)} /\ o.sealed = {} /\ o.joined = {}
  BY DEF Create, Outcome
<1>3. NewRows(current) \in Rows /\ NewRows(current).group.current.epoch = 0
  BY <1>1, NewRowsTyped
<1> QED
  BY <1>2, <1>3 DEF Enters

\* join enters the Welcome's epoch, at the cost of a stored KeyPackage.
LEMMA JoinEnters ==
    ASSUME NEW o \in Join(keyPackages)
    PROVE  \E w \in Welcome :
              /\ keyPackages[w.keyPackage] = "stored"
              /\ o.joined = {w}
              /\ Enters(w.epoch, o)
<1>1. PICK w \in Welcome :
        /\ keyPackages[w.keyPackage] = "stored"
        /\ o = Outcome({NewRows([epoch |-> w.epoch, leaves |-> w.leaves])}, {}, {}, {w})
  BY DEF Join
<1> DEFINE current == [epoch |-> w.epoch, leaves |-> w.leaves]
<1>2. current \in Roster
  BY WelcomeAssumption, BoundAssumption DEF Roster, WelcomeType
<1>3. o.rows = {NewRows(current)} /\ o.sealed = {} /\ o.joined = {w}
  BY <1>1 DEF Outcome
<1>4. NewRows(current) \in Rows /\ NewRows(current).group.current.epoch = w.epoch
  BY <1>2, NewRowsTyped
<1>5. Enters(w.epoch, o)
  BY <1>3, <1>4 DEF Enters
<1> QED
  BY <1>1, <1>3, <1>5

\* delete_group_with_storage leaves no rows.
LEMMA DeleteLeaves ==
    ASSUME NEW snapshot, NEW o \in Delete(snapshot)
    PROVE  o.rows = {} /\ o.sealed = {} /\ o.joined = {}
  BY DEF Delete, Outcome

-----------------------------------------------------------------------------
(* Applying what an operation returned *)

\* Counting the members of S once.
LEMMA CountTyped ==
    ASSUME NEW T, NEW history \in [T -> Nat], NEW S
    PROVE  /\ Count(history, S) \in [T -> Nat]
           /\ \A x \in T : Count(history, S)[x] =
                                IF x \in S THEN history[x] + 1 ELSE history[x]
  BY DEF Count

\* Every outcome of an operation leads to well-typed variables.
LEMMA AppliedTyped ==
    ASSUME TypeOK, NEW o, o.rows \in Option(Rows), o.joined \subseteq Welcome, Apply(o)
    PROVE  TypeOK'
<1>1. db' \in Option(Rows) /\ joined' \subseteq Welcome
  BY DEF TypeOK, Apply
<1>2. keyPackages' \in [KeyPackage -> {"absent", "stored", "consumed"}]
  BY DEF TypeOK, Apply
<1>3. reached' \in Nat
  <2>1. CASE \E r \in o.rows : r.group.current.epoch >= reached
    <3>1. PICK r \in o.rows : TRUE
      BY <2>1
    <3>2. o.rows = {r} /\ r \in Rows
      BY <3>1, OptionFacts
    <3>3. The(o.rows) = r
      BY <3>2, SomeTyped
    <3> QED  BY <2>1, <3>2, <3>3, RowsFacts DEF Apply
  <2>2. CASE ~ \E r \in o.rows : r.group.current.epoch >= reached
    BY <2>2 DEF Apply, TypeOK
  <2> QED  BY <2>1, <2>2
<1>4. handed' \in [Message -> Nat] /\ sealed' \in [SealKey -> Nat]
  BY CountTyped DEF TypeOK, Apply
<1> QED
  BY <1>1, <1>2, <1>3, <1>4 DEF TypeOK

\* The epoch history after an outcome with rows.
LEMMA ReachedAfter ==
    ASSUME TypeOK, NEW o, NEW q \in Rows, o.rows = {q}, Apply(o)
    PROVE  /\ db' = {q}
           /\ reached' = IF q.group.current.epoch >= reached
                         THEN q.group.current.epoch + 1 ELSE reached
<1>1. The(o.rows) = q
  BY SomeTyped
<1>2. (\E r \in o.rows : r.group.current.epoch >= reached)
            <=> q.group.current.epoch >= reached
  OBVIOUS
<1> QED
  BY <1>1, <1>2 DEF Apply

\* An outcome without rows leaves the epoch history alone.
LEMMA ReachedAfterNone ==
    ASSUME NEW o, o.rows = {}, Apply(o)
    PROVE  db' = {} /\ reached' = reached
  BY DEF Apply

-----------------------------------------------------------------------------
(* No key is sealed under twice *)

\* Keys of epochs not reached yet are unused.
LaterUnsealed == \A k \in SealKey : k.epoch >= reached => sealed[k] = 0

\* The group, when there is one, is in the last epoch reached.
InLastEpoch == \A r \in db : r.group.current.epoch + 1 = reached

\* In the current epoch keys are unused from the encryption counter on.
CounterUnsealed ==
    \A r \in db : r.group.active =>
        \A k \in SealKey :
            (/\ k.epoch = r.group.current.epoch
             /\ k.gen >= r.secrets.current.sent[k.ratchet]) => sealed[k] = 0

\* A Welcome joined has cost its KeyPackage.
JoinedConsumed == \A w \in joined : keyPackages[w.keyPackage] = "consumed"

SealInv ==
    /\ TypeOK
    /\ LaterUnsealed
    /\ InLastEpoch
    /\ CounterUnsealed
    /\ JoinedConsumed
    /\ SealOnce

\* The parts of an own key.
LEMMA SealKeyFacts ==
    ASSUME NEW k \in SealKey
    PROVE  k.ratchet \in RatchetKind /\ k.epoch \in Nat /\ k.gen \in Nat
  BY BoundAssumption DEF SealKey

\* Consumed KeyPackages stay consumed.
LEMMA ConsumedStays ==
    ASSUME TypeOK, JoinedConsumed, NEW o, o.joined \subseteq Welcome, Apply(o)
    PROVE  JoinedConsumed'
<1>1. \A w \in Welcome : w.keyPackage \in KeyPackage
  BY WelcomeAssumption DEF WelcomeType
<1> QED
  BY <1>1 DEF JoinedConsumed, TypeOK, Apply

\* Where nothing is sealed the history of sealing stays.
LEMMA UnsealedStays ==
    ASSUME TypeOK, NEW o, o.sealed = {}, Apply(o)
    PROVE  sealed' = sealed
<1>1. sealed' \in [SealKey -> Nat] /\ \A k \in SealKey : sealed'[k] = sealed[k]
  BY CountTyped DEF TypeOK, Apply
<1> QED
  BY <1>1 DEF TypeOK

\* Operations that stay in the epoch keep the invariant.
LEMMA StaysKeepsSealInv ==
    ASSUME SealInv, NEW r \in db, NEW o, Stays(r, o), Apply(o)
    PROVE  SealInv'
<1>1. PICK q \in Rows : StaysIn(r, o, q)
  BY DEF Stays
<1>2. /\ o.rows = {q}
      /\ o.joined = {}
      /\ q.group.current.epoch = r.group.current.epoch
      /\ CountersPass(r.secrets.current.sent, q.secrets.current.sent,
                      r.group.current.epoch, o.sealed)
  BY <1>1 DEF StaysIn
<1>3. r \in Rows /\ r.group.active
  BY OptionFacts DEF SealInv, TypeOK, Stays
<1>4. r.group.current.epoch \in Nat /\ reached \in Nat /\ r.group.current.epoch + 1 = reached
  BY <1>3, RowsFacts DEF SealInv, TypeOK, InLastEpoch
<1>5. db' = {q} /\ reached' = reached
  BY <1>2, <1>4, ReachedAfter DEF SealInv
<1>6. TypeOK'
  BY <1>2, SomeTyped, AppliedTyped DEF SealInv
<1>7. JoinedConsumed'
  BY <1>2, ConsumedStays DEF SealInv
<1>8. /\ sealed \in [SealKey -> Nat]
      /\ \A k \in SealKey : sealed'[k] = IF k \in o.sealed THEN sealed[k] + 1 ELSE sealed[k]
  BY CountTyped DEF SealInv, TypeOK, Apply
<1>9. ASSUME NEW k \in SealKey, k \in o.sealed
      PROVE  /\ k.epoch = r.group.current.epoch
             /\ k.gen < q.secrets.current.sent[k.ratchet]
             /\ sealed[k] = 0
  BY <1>2, <1>3, <1>9, SealKeyFacts, CounterFacts DEF CountersPass, SealInv, CounterUnsealed
<1>10. LaterUnsealed'
  BY <1>4, <1>5, <1>8, <1>9 DEF SealInv, LaterUnsealed
<1>11. InLastEpoch'
  BY <1>2, <1>4, <1>5 DEF InLastEpoch
<1>12. CounterUnsealed'
  <2>1. ASSUME NEW k \in SealKey,
               k.epoch = r.group.current.epoch,
               k.gen >= q.secrets.current.sent[k.ratchet]
        PROVE  sealed'[k] = 0
    <3>1. /\ r.secrets.current.sent[k.ratchet] \in Nat
          /\ q.secrets.current.sent[k.ratchet] \in Nat
          /\ k.gen \in Nat
      BY <1>3, SealKeyFacts, CounterFacts
    <3>2. r.secrets.current.sent[k.ratchet] <= q.secrets.current.sent[k.ratchet]
      BY <1>2, SealKeyFacts DEF CountersPass
    <3>3. k.gen >= r.secrets.current.sent[k.ratchet]
      BY <2>1, <3>1, <3>2
    <3>4. sealed[k] = 0
      BY <1>3, <2>1, <3>3 DEF SealInv, CounterUnsealed
    <3>5. k \notin o.sealed
      BY <1>9, <2>1, <3>1
    <3> QED  BY <1>8, <3>4, <3>5
  <2> QED  BY <1>2, <1>5, <2>1 DEF CounterUnsealed
<1>13. SealOnce'
  BY <1>8, <1>9 DEF SealInv, SealOnce
<1> QED
  BY <1>6, <1>7, <1>10, <1>11, <1>12, <1>13 DEF SealInv

\* A new epoch, reached by a Commit or entered by a Welcome, starts unsealed.
LEMMA NewEpochKeepsSealInv ==
    ASSUME SealInv, NEW o, NEW q \in Rows, Apply(o),
           o.rows = {q}, o.sealed = {}, o.joined \subseteq Welcome,
           q.group.current.epoch >= reached
    PROVE  SealInv'
<1>1. q.group.current.epoch \in Nat /\ reached \in Nat
  BY RowsFacts DEF SealInv, TypeOK
<1>2. db' = {q} /\ reached' = q.group.current.epoch + 1
  BY ReachedAfter DEF SealInv
<1>3. TypeOK' /\ JoinedConsumed'
  BY SomeTyped, AppliedTyped, ConsumedStays DEF SealInv
<1>4. sealed' = sealed
  BY UnsealedStays DEF SealInv
<1>5. LaterUnsealed' /\ CounterUnsealed'
  BY <1>1, <1>2, <1>4, SealKeyFacts DEF SealInv, LaterUnsealed, CounterUnsealed
<1>6. InLastEpoch'
  BY <1>2 DEF InLastEpoch
<1>7. SealOnce'
  BY <1>4 DEF SealInv, SealOnce
<1> QED
  BY <1>3, <1>5, <1>6, <1>7 DEF SealInv

\* Operations that lead to the next epoch keep the invariant.
LEMMA AdvancesKeepsSealInv ==
    ASSUME SealInv, NEW r \in db, NEW o, Advances(r, o), Apply(o)
    PROVE  SealInv'
<1>1. PICK q \in Rows : o.rows = {q} /\ q.group.current.epoch = r.group.current.epoch + 1
  BY DEF Advances
<1>2. r.group.current.epoch + 1 = reached /\ reached \in Nat
  BY DEF SealInv, InLastEpoch, TypeOK
<1> QED
  BY <1>1, <1>2, NewEpochKeepsSealInv DEF Advances

\* Deletion keeps the invariant.
LEMMA DeleteKeepsSealInv ==
    ASSUME SealInv, NEW o \in Delete(db), Apply(o)
    PROVE  SealInv'
<1>1. o.rows = {} /\ o.sealed = {} /\ o.joined = {}
  BY DeleteLeaves
<1>2. db' = {} /\ reached' = reached /\ sealed' = sealed
  BY <1>1, ReachedAfterNone, UnsealedStays DEF SealInv
<1>3. TypeOK' /\ JoinedConsumed'
  BY <1>1, NoneTyped, AppliedTyped, ConsumedStays DEF SealInv
<1> QED
  BY <1>2, <1>3 DEF SealInv, LaterUnsealed, InLastEpoch, CounterUnsealed, SealOnce

\* The invariant holds at the start.
LEMMA SealInvInit == Init => SealInv
<1> SUFFICES ASSUME Init PROVE SealInv
  OBVIOUS
<1>1. TypeOK
  BY NoneTyped DEF Init, TypeOK
<1> QED
  BY <1>1 DEF Init, SealInv, LaterUnsealed, InLastEpoch, CounterUnsealed,
              JoinedConsumed, SealOnce

\* Every step keeps the invariant.
LEMMA SealInvStep == SealInv /\ [Next]_vars => SealInv'
<1> SUFFICES ASSUME SealInv, [Next]_vars PROVE SealInv'
  OBVIOUS
<1>0. db \in Option(Rows)
  BY DEF SealInv, TypeOK
<1>1. ASSUME NEW k \in KeyPackage, CreateKeyPackage(k) PROVE SealInv'
  <2>1. \A w \in joined : keyPackages'[w.keyPackage] = "consumed"
    <3>1. \A w \in Welcome : w.keyPackage \in KeyPackage
      BY WelcomeAssumption DEF WelcomeType
    <3> QED  BY <1>1, <3>1 DEF SealInv, TypeOK, JoinedConsumed, CreateKeyPackage
  <2>2. TypeOK'
    BY <1>1 DEF SealInv, TypeOK, CreateKeyPackage
  <2>3. JoinedConsumed'
    BY <1>1, <2>1 DEF JoinedConsumed, CreateKeyPackage
  <2> QED  BY <1>1, <2>2, <2>3 DEF SealInv, LaterUnsealed, InLastEpoch, CounterUnsealed,
                                   SealOnce, CreateKeyPackage
<1>2. CASE CreateGroup
  <2>1. PICK o \in Create : Apply(o)
    BY <1>2 DEF CreateGroup
  <2>2. o.joined = {} /\ Enters(0, o)
    BY CreateEnters
  <2>3. PICK q \in Rows : o.rows = {q} /\ q.group.current.epoch = 0
    BY <2>2 DEF Enters
  <2>4. reached = 0 /\ o.sealed = {}
    BY <1>2, <2>2 DEF CreateGroup, Enters
  <2>5. q.group.current.epoch >= reached
    BY <2>3, <2>4
  <2> QED  BY <2>1, <2>2, <2>3, <2>4, <2>5, NewEpochKeepsSealInv
<1>3. CASE JoinGroup
  <2>1. PICK o \in Join(keyPackages) :
            /\ \A w \in o.joined : w.epoch >= reached \/ w \in joined
            /\ Apply(o)
    BY <1>3 DEF JoinGroup
  <2>2. PICK w \in Welcome :
            /\ keyPackages[w.keyPackage] = "stored"
            /\ o.joined = {w}
            /\ Enters(w.epoch, o)
    BY JoinEnters
  <2>3. w \notin joined
    BY <2>2 DEF SealInv, JoinedConsumed
  <2>4. w.epoch >= reached
    BY <2>1, <2>2, <2>3
  <2>5. PICK q \in Rows : o.rows = {q} /\ q.group.current.epoch = w.epoch
    BY <2>2 DEF Enters
  <2>6. o.sealed = {} /\ o.joined \subseteq Welcome
    BY <2>2 DEF Enters
  <2> QED  BY <2>1, <2>4, <2>5, <2>6, NewEpochKeepsSealInv
<1>4. CASE SendMessage
  BY <1>0, <1>4, SendStays, StaysKeepsSealInv DEF SendMessage
<1>5. CASE PrepareCommit
  BY <1>0, <1>5, PrepareStays, StaysKeepsSealInv DEF PrepareCommit
<1>6. CASE MergePending
  BY <1>0, <1>6, MergeAdvances, AdvancesKeepsSealInv DEF MergePending
<1>7. CASE DiscardPending
  BY <1>0, <1>7, DiscardStays, StaysKeepsSealInv DEF DiscardPending
<1>8. CASE ProcessApplication
  BY <1>0, <1>8, ReceiveApplicationStays, StaysKeepsSealInv DEF ProcessApplication
<1>9. CASE ProcessProposal
  BY <1>0, <1>9, ReceiveProposalStays, StaysKeepsSealInv DEF ProcessProposal
<1>10. CASE ProcessCommit
  BY <1>0, <1>10, ReceiveCommitAdvances, AdvancesKeepsSealInv DEF ProcessCommit
<1>11. CASE ProcessExternal
  BY <1>0, <1>11, ReceiveExternalAdvances, AdvancesKeepsSealInv DEF ProcessExternal
<1>12. CASE DeleteGroup
  BY <1>12, DeleteKeepsSealInv DEF DeleteGroup
<1>13. CASE UNCHANGED vars
  BY <1>13 DEF vars, SealInv, TypeOK, LaterUnsealed, InLastEpoch, CounterUnsealed,
               JoinedConsumed, SealOnce
<1> QED
  BY <1>1, <1>2, <1>3, <1>4, <1>5, <1>6, <1>7, <1>8, <1>9, <1>10, <1>11, <1>12, <1>13
     DEF Next

\* The inductive invariant holds for every operation of runtime.rs, external.rs
\* and storage.rs, in any order.
THEOREM SealInvariance == Spec => []SealInv
<1> QED
  BY SealInvInit, SealInvStep, PTL DEF Spec

\* Whatever batches the operations return, the rows a caller applies them to and
\* the histories are well typed.
THEOREM LifecycleTypeCorrect == Spec => []TypeOK
<1>1. SealInv => TypeOK
  BY DEF SealInv
<1> QED
  BY <1>1, SealInvariance, PTL

\* No key of this installation encrypts two ciphertexts: runtime::discard and an
\* external Commit leave the counters where prepare put them, and runtime::join
\* consumes the KeyPackage that could lead back into an old epoch.
THEOREM NoKeySealsTwice == Spec => []SealOnce
<1>1. SealInv => SealOnce
  BY DEF SealInv
<1> QED
  BY <1>1, SealInvariance, PTL

-----------------------------------------------------------------------------
(* The rows always load, and what is retained stays in step *)

\* The past epochs of OpenMLS and the metadata's past rosters are the same.
SameEpochs(past, history) ==
    /\ Len(past) = Len(history)
    /\ \A i \in 1 .. Len(history) : past[i].epoch = history[i].epoch

\* What every operation needs of the rows it is given and gives back.
Sound(r) ==
    /\ Loadable(r)
    /\ \A p \in r.local.pending : p.proposed.leaves # {}
    /\ r.group.active => SameEpochs(r.secrets.past, r.local.history)

LoadInv == \A r \in db : Sound(r)

-----------------------------------------------------------------------------
(* The two lists *)

\* LocalGroupState::advance keeps valid metadata: the roster it appends is the
\* one of the epoch left, and the one it evicts is the oldest of a full history.
LEMMA AdvanceValid ==
    ASSUME NEW l \in LocalState, ValidLocal(l), NEW resulting \in Roster,
           resulting.epoch = l.current.epoch + 1, resulting.leaves # {}
    PROVE  ValidLocal(Advance(l, resulting))
<1> DEFINE n == Len(l.history)
           e == l.current.epoch
           appended == Append(l.history, l.current)
           after == Advance(l, resulting)
<1>1. /\ l.join \in Nat /\ e \in Nat /\ n \in Nat /\ Retention \in Nat
      /\ l.history \in Seq(Roster) /\ l.current \in Roster
  BY RetentionFacts DEF LocalState, Roster
<1>2. l.join <= e /\ n = IF e - l.join <= Retention THEN e - l.join ELSE Retention
  BY DEF ValidLocal, HistoryLength
<1>3. \A i \in 1 .. n : l.history[i].epoch = e - n + i - 1
  BY DEF ValidLocal
<1>4. /\ appended \in Seq(Roster) /\ Len(appended) = n + 1
      /\ \A i \in 1 .. n : appended[i] = l.history[i]
      /\ appended[n + 1] = l.current
  BY <1>1, AppendProperties
<1>5. \A i \in 1 .. n + 1 : appended[i].epoch = e - n + i - 1
  <2>1. ASSUME NEW i \in 1 .. n + 1 PROVE appended[i].epoch = e - n + i - 1
    <3>1. CASE i \in 1 .. n
      BY <1>3, <1>4, <3>1
    <3>2. CASE i = n + 1
      BY <1>1, <1>4, <3>2
    <3> QED  BY <1>1, <3>1, <3>2
  <2> QED  BY <2>1
<1>6. /\ after.join = l.join /\ after.current = resulting /\ after.pending = {}
      /\ after.history = IF n + 1 > Retention THEN Tail(appended) ELSE appended
  BY DEF Advance
<1>a. resulting.epoch = e + 1 /\ after.current.epoch = e + 1
  BY <1>6
<1> HIDE DEF appended, after
<1>7. /\ Len(after.history) = HistoryLength(after)
      /\ \A i \in 1 .. Len(after.history) :
            after.history[i].epoch = resulting.epoch - HistoryLength(after) + i - 1
  <2>1. HistoryLength(after) = IF e + 1 - l.join <= Retention
                               THEN e + 1 - l.join ELSE Retention
    BY <1>1, <1>6, <1>a DEF HistoryLength
  <2> HIDE DEF n, e
  <2>2. CASE n + 1 > Retention
    <3>1. n = Retention /\ HistoryLength(after) = n
      BY <1>1, <1>2, <2>1, <2>2
    <3>2. after.history = Tail(appended)
      BY <1>6, <2>2
    <3>3. /\ Len(after.history) = n
          /\ \A i \in 1 .. n : after.history[i] = appended[i + 1]
      BY <1>1, <1>4, <3>2
    <3>4. ASSUME NEW i \in 1 .. n PROVE after.history[i].epoch = e + 1 - n + i - 1
      <4>1. i + 1 \in 1 .. n + 1
        BY <1>1
      <4>2. appended[i + 1].epoch = e - n + (i + 1) - 1
        BY <1>5, <4>1
      <4> QED  BY <1>1, <3>3, <4>2
    <3>5. n \in Nat /\ resulting.epoch = e + 1 /\ e \in Nat
      BY <1>1, <1>a
    <3>6. ASSUME NEW i \in 1 .. n
          PROVE  after.history[i].epoch = resulting.epoch - n + i - 1
      BY <3>4, <3>5
    <3> QED  BY <3>1, <3>3, <3>6
  <2>3. CASE ~(n + 1 > Retention)
    <3>1. HistoryLength(after) = n + 1
      BY <1>1, <1>2, <2>1, <2>3
    <3>2. after.history = appended
      BY <1>6, <2>3
    <3>3. ASSUME NEW i \in 1 .. n + 1 PROVE appended[i].epoch = e + 1 - (n + 1) + i - 1
      BY <1>1, <1>5
    <3> QED  BY <1>1, <1>4, <1>a, <3>1, <3>2, <3>3
  <2> QED  BY <2>2, <2>3
<1>8. after.join <= after.current.epoch
  BY <1>1, <1>2, <1>6
<1>9. /\ after.current.leaves # {}
      /\ \A i \in 1 .. Len(after.history) :
            after.history[i].epoch = after.current.epoch - HistoryLength(after) + i - 1
      /\ \A p \in after.pending : p.previous = after.current /\ Self \in after.current.leaves
                                  /\ p.proposed.epoch = after.current.epoch + 1
  BY <1>6, <1>7
<1>10. ValidLocal(after)
  BY <1>7, <1>8, <1>9 DEF ValidLocal
<1> QED
  BY <1>10 DEF after

\* MessageSecretsStore::add and LocalGroupState::advance evict together.
LEMMA EvictTogether ==
    ASSUME NEW past \in Seq(PastEpoch), NEW l \in LocalState, SameEpochs(past, l.history),
           NEW tree \in EpochSecrets, NEW resulting
    PROVE  SameEpochs(AddEpoch(past, l.current.epoch, tree), Advance(l, resulting).history)
<1> DEFINE n == Len(l.history)
           x == [epoch |-> l.current.epoch, tree |-> tree]
           h == Append(l.history, l.current)
<1>1. /\ l.history \in Seq(Roster) /\ l.current \in Roster /\ x \in PastEpoch
      /\ x.epoch = l.current.epoch /\ n \in Nat /\ Len(past) = n /\ Retention \in Nat
      /\ Retention >= 2
  BY RetentionFacts DEF LocalState, Roster, PastEpoch, SameEpochs
<1>2. \A i \in 1 .. n : past[i].epoch = l.history[i].epoch
  BY DEF SameEpochs
<1>3. AddEpoch(past, l.current.epoch, tree) =
        Append(IF Len(past) >= Retention THEN Tail(past) ELSE past, x)
  BY DEF AddEpoch
<1>4. Advance(l, resulting).history = IF n + 1 > Retention THEN Tail(h) ELSE h
  BY DEF Advance
<1>5. /\ h \in Seq(Roster) /\ Len(h) = n + 1 /\ h[n + 1] = l.current
      /\ \A i \in 1 .. n : h[i] = l.history[i]
  BY <1>1, AppendProperties
<1> HIDE DEF x, h, n
<1>6. CASE Len(past) >= Retention
  <2> DEFINE rest == Tail(past)
             kept == Tail(h)
  <2>1. /\ rest \in Seq(PastEpoch) /\ Len(rest) = n - 1
        /\ \A i \in 1 .. n - 1 : rest[i] = past[i + 1]
    BY <1>1, <1>6
  <2>2. /\ Len(kept) = n /\ \A i \in 1 .. n : kept[i] = h[i + 1]
    BY <1>1, <1>5
  <2> HIDE DEF rest, kept
  <2>3. /\ Len(Append(rest, x)) = n /\ Append(rest, x)[n] = x
        /\ \A i \in 1 .. n - 1 : Append(rest, x)[i] = rest[i]
    BY <1>1, <2>1, <1>6, AppendProperties
  <2>4. ASSUME NEW i \in 1 .. n PROVE Append(rest, x)[i].epoch = kept[i].epoch
    <3>1. CASE i = n
      BY <1>1, <1>5, <2>2, <2>3, <3>1
    <3>2. CASE i \in 1 .. n - 1
      <4>1. i + 1 \in 1 .. n
        BY <1>1, <3>2
      <4>2. past[i + 1].epoch = h[i + 1].epoch
        BY <1>2, <1>5, <4>1
      <4> QED  BY <2>1, <2>2, <2>3, <3>2, <4>2
    <3>3. i = n \/ i \in 1 .. n - 1
      BY <1>1
    <3> QED  BY <3>1, <3>2, <3>3
  <2>5. SameEpochs(Append(rest, x), kept)
    BY <2>2, <2>3, <2>4 DEF SameEpochs
  <2>6. n + 1 > Retention
    BY <1>1, <1>6
  <2>7. /\ AddEpoch(past, l.current.epoch, tree) = Append(rest, x)
        /\ Advance(l, resulting).history = kept
    BY <1>3, <1>4, <1>6, <2>6 DEF rest, kept
  <2> QED  BY <2>5, <2>7
<1>7. CASE ~(Len(past) >= Retention)
  <2>1. /\ Len(Append(past, x)) = n + 1 /\ Append(past, x)[n + 1] = x
        /\ \A i \in 1 .. n : Append(past, x)[i] = past[i]
    BY <1>1, AppendProperties
  <2>2. ASSUME NEW i \in 1 .. n + 1 PROVE Append(past, x)[i].epoch = h[i].epoch
    <3>1. CASE i = n + 1
      BY <1>1, <1>5, <2>1, <3>1
    <3>2. CASE i \in 1 .. n
      BY <1>2, <1>5, <2>1, <3>2
    <3> QED  BY <1>1, <3>1, <3>2
  <2>3. SameEpochs(Append(past, x), h)
    BY <1>5, <2>1, <2>2 DEF SameEpochs
  <2>4. ~(n + 1 > Retention)
    BY <1>1, <1>7
  <2>5. /\ AddEpoch(past, l.current.epoch, tree) = Append(past, x)
        /\ Advance(l, resulting).history = h
    BY <1>3, <1>4, <1>7, <2>4
  <2> QED  BY <2>3, <2>5
<1> QED
  BY <1>6, <1>7

\* Taking a key of a past epoch drops no epoch and renames none.
LEMMA UnprotectKeepsEpochs ==
    ASSUME NEW r \in Rows, NEW m \in Message, NEW history,
           SameEpochs(r.secrets.past, history)
    PROVE  SameEpochs(Unprotect(r, m).past, history)
<1>1. r.secrets.past \in Seq(PastEpoch) /\ Len(r.secrets.past) \in Nat
  BY RowsFacts
<1>2. CASE m.epoch < r.group.current.epoch
  <2> DEFINE Taken(i) == IF r.secrets.past[i].epoch = m.epoch
                         THEN [epoch |-> m.epoch, tree |-> TakeFrom(r.secrets.past[i].tree, m)]
                         ELSE r.secrets.past[i]
             past == [i \in 1 .. Len(r.secrets.past) |-> Taken(i)]
  <2>1. Unprotect(r, m).past = past
    BY <1>2 DEF Unprotect
  <2>2. \A i \in 1 .. Len(r.secrets.past) : Taken(i).epoch = r.secrets.past[i].epoch
    OBVIOUS
  <2> HIDE DEF Taken
  <2>3. Len(past) = Len(r.secrets.past)
    BY <1>1
  <2>4. \A i \in 1 .. Len(r.secrets.past) : past[i].epoch = r.secrets.past[i].epoch
    BY <2>2
  <2> HIDE DEF past
  <2> QED  BY <2>1, <2>3, <2>4 DEF SameEpochs
<1>3. CASE ~(m.epoch < r.group.current.epoch)
  <2>1. Unprotect(r, m).past = r.secrets.past
    BY <1>3 DEF Unprotect
  <2> QED  BY <2>1
<1> QED
  BY <1>2, <1>3

-----------------------------------------------------------------------------
(* The rows operations return *)

\* Rows that share metadata, retry rows and pending Commit with sound ones.
LEMMA SameLocalSound ==
    ASSUME NEW r, NEW q, Sound(r),
           q.local = r.local, q.retry = r.retry,
           q.group.current = r.group.current, q.group.pending = r.group.pending,
           q.group.active => r.group.active,
           r.group.active => SameEpochs(q.secrets.past, r.local.history)
    PROVE  Sound(q)
  BY DEF Sound, Loadable

\* Metadata stays valid when its pending Commit is dropped.
LEMMA WithoutPendingValid ==
    ASSUME NEW l \in LocalState, ValidLocal(l)
    PROVE  LET k == [l EXCEPT !.pending = {}]
           IN  ValidLocal(k) /\ k.current = l.current /\ k.history = l.history /\ k.pending = {}
<1> DEFINE k == [l EXCEPT !.pending = {}]
<1>1. /\ k.join = l.join /\ k.current = l.current /\ k.history = l.history
      /\ k.pending = {}
  BY DEF LocalState
<1> HIDE DEF k
<1>2. HistoryLength(k) = HistoryLength(l)
  BY <1>1 DEF HistoryLength
<1>3. ValidLocal(k)
  BY <1>1, <1>2 DEF ValidLocal
<1> QED
  BY <1>1, <1>3 DEF k

\* discard and a superseding external Commit leave sound rows, nothing pending.
LEMMA WithoutPendingSound ==
    ASSUME NEW r \in Rows, Sound(r)
    PROVE  /\ Sound(WithoutPending(r))
           /\ WithoutPending(r).retry = {}
<1> DEFINE q == WithoutPending(r)
           k == [r.local EXCEPT !.pending = {}]
<1>1. /\ q.group.current = r.group.current /\ q.group.active = r.group.active
      /\ q.secrets = r.secrets
  BY WithoutPendingTyped
<1>2. q.local = k /\ q.retry = {} /\ q.group.pending = {}
  BY RowsFacts DEF WithoutPending, GroupState
<1>3. r.local \in LocalState /\ ValidLocal(r.local) /\ r.local.current = r.group.current
  BY RowsFacts DEF Sound, Loadable
<1>4. /\ ValidLocal(k) /\ k.current = r.local.current /\ k.history = r.local.history
      /\ k.pending = {}
  BY <1>3, WithoutPendingValid
<1> HIDE DEF q, k
<1>5. Loadable(q)
  BY <1>1, <1>2, <1>3, <1>4 DEF Loadable
<1>6. q.group.active => SameEpochs(q.secrets.past, q.local.history)
  BY <1>1, <1>2, <1>4 DEF Sound
<1>7. Sound(q)
  BY <1>2, <1>4, <1>5, <1>6 DEF Sound
<1> QED
  BY <1>2, <1>7 DEF q

\* A Commit this installation stays in: whatever keys processing it took, the
\* rows of the next epoch load, and both lists gain and lose the same epoch.
LEMMA MergedSound ==
    ASSUME NEW r \in Rows, Sound(r), NEW s \in SecretsStore,
           r.group.active, SameEpochs(s.past, r.local.history),
           NEW leaves \in SUBSET Leaf, leaves # {},
           NEW q, q.retry = {},
           q.group = MergeCommit(r, s, leaves).group,
           q.secrets = MergeCommit(r, s, leaves).secrets,
           q.local = MergeCommit(r, s, leaves).local
    PROVE  Sound(q)
<1> DEFINE next == NextRoster(r, leaves)
<1>1. /\ r.local \in LocalState /\ ValidLocal(r.local) /\ r.local.current = r.group.current
      /\ s.past \in Seq(PastEpoch) /\ s.current \in EpochSecrets
  BY RowsFacts DEF Sound, Loadable, SecretsStore, PastEpoch
<1>2. next \in Roster /\ next.epoch = r.local.current.epoch + 1 /\ next.leaves = leaves
  BY <1>1, NextRosterTyped DEF NextRoster
<1>3. /\ q.group.current = next /\ q.group.pending = {} /\ q.local = Advance(r.local, next)
      /\ q.secrets.past = AddEpoch(s.past, r.local.current.epoch, s.current)
  BY <1>1 DEF MergeCommit
<1> HIDE DEF next
<1>4. ValidLocal(q.local)
  BY <1>1, <1>2, <1>3, AdvanceValid
<1>5. q.local.current = next /\ q.local.pending = {}
  BY <1>3 DEF Advance
<1>6. SameEpochs(q.secrets.past, q.local.history)
  BY <1>1, <1>3, EvictTogether
<1>7. Loadable(q)
  BY <1>3, <1>4, <1>5 DEF Loadable
<1> QED
  BY <1>5, <1>6, <1>7 DEF Sound

\* A Commit that removes this installation: the metadata moves on, the group ends.
LEMMA OwnRemovalSound ==
    ASSUME NEW r \in Rows, Sound(r), r.retry = {}, NEW s,
           NEW leaves \in SUBSET Leaf, leaves # {}
    PROVE  Sound(MergeOwnRemoval(r, s, leaves))
<1> DEFINE next == NextRoster(r, leaves)
           q == MergeOwnRemoval(r, s, leaves)
<1>1. r.local \in LocalState /\ ValidLocal(r.local) /\ r.local.current = r.group.current
  BY RowsFacts DEF Sound, Loadable
<1>2. next \in Roster /\ next.epoch = r.local.current.epoch + 1 /\ next.leaves = leaves
  BY <1>1, NextRosterTyped DEF NextRoster
<1>3. /\ q.group.current = next /\ q.group.pending = {} /\ q.local = Advance(r.local, next)
      /\ ~q.group.active /\ q.retry = {}
  BY DEF MergeOwnRemoval
<1> HIDE DEF next, q
<1>4. ValidLocal(q.local)
  BY <1>1, <1>2, <1>3, AdvanceValid
<1>5. q.local.current = next /\ q.local.pending = {}
  BY <1>3 DEF Advance
<1>6. Loadable(q)
  BY <1>3, <1>4, <1>5 DEF Loadable
<1>7. Sound(q)
  BY <1>3, <1>5, <1>6 DEF Sound
<1> QED
  BY <1>7 DEF q

\* The rows of a group entered: no history to disagree about.
LEMMA NewRowsSound ==
    ASSUME NEW current \in Roster, current.leaves # {}
    PROVE  Sound(NewRows(current))
<1> DEFINE q == NewRows(current)
<1>1. /\ q.local.join = current.epoch /\ q.local.current = current
      /\ q.local.history = <<>> /\ q.local.pending = {}
      /\ q.group.current = current /\ q.group.pending = {} /\ q.retry = {}
      /\ q.secrets.past = <<>>
  BY DEF NewRows, NewLocal
<1>2. current.epoch \in Nat /\ Retention \in Nat
  BY RetentionFacts DEF Roster
<1> HIDE DEF q
<1>3. HistoryLength(q.local) = 0
  BY <1>1, <1>2 DEF HistoryLength
<1>4. ValidLocal(q.local)
  BY <1>1, <1>2, <1>3 DEF ValidLocal
<1>5. Loadable(q)
  BY <1>1, <1>4 DEF Loadable
<1>6. SameEpochs(q.secrets.past, q.local.history)
  BY <1>1 DEF SameEpochs
<1>7. Sound(q)
  BY <1>1, <1>5, <1>6 DEF Sound
<1> QED
  BY <1>7 DEF q

-----------------------------------------------------------------------------
(* The operations *)

\* Outcome o of an operation leaves sound rows, or none.
Leaves(o) == \A q \in o.rows : Sound(q)

\* An outcome with one installation left behind.
LEMMA LeavesOne ==
    ASSUME NEW q, Sound(q), NEW opened, NEW seals, NEW welcomes
    PROVE  Leaves(Outcome({q}, opened, seals, welcomes))
  BY DEF Leaves, Outcome

\* send touches a counter only.
LEMMA SendSound ==
    ASSUME NEW snapshot \in Option(Rows), \A r \in snapshot : Sound(r),
           NEW o \in Send(snapshot)
    PROVE  Leaves(o)
<1>1. PICK r \in snapshot :
        o = Outcome({[r EXCEPT !.secrets = CountUp(r.secrets, "application")]}, {},
                    {[ratchet |-> "application", epoch |-> r.group.current.epoch,
                      gen |-> r.secrets.current.sent["application"]]}, {})
  BY DEF Send, Load, CountUp
<1> DEFINE s == CountUp(r.secrets, "application")
           q == [r EXCEPT !.secrets = s]
<1>2. r \in Rows /\ Sound(r)
  BY <1>1, OptionFacts
<1>3. s.past = r.secrets.past
  BY <1>2, RowsFacts DEF CountUp, SecretsStore
<1> HIDE DEF s
<1>4. q.group = r.group /\ q.local = r.local /\ q.retry = r.retry /\ q.secrets = s
  BY <1>2 DEF Rows
<1> HIDE DEF q
<1>5. Sound(q)
  BY <1>2, <1>3, <1>4, SameLocalSound DEF Sound
<1> QED
  BY <1>1, <1>5, LeavesOne DEF q, s

\* prepare writes four row families that agree: the record, the staged commit
\* and the retry rows are of one Commit, whose roster this installation stays in.
LEMMA PrepareSound ==
    ASSUME NEW snapshot \in Option(Rows), \A r \in snapshot : Sound(r),
           NEW o \in Prepare(snapshot)
    PROVE  Leaves(o)
<1>1. PICK r \in snapshot, leaves \in LeafSets :
        /\ Loadable(r) /\ Self \in r.group.current.leaves /\ Self \in leaves
        /\ o = Outcome({WithPending(r, StagedCommit(r, leaves))}, {},
                       {[ratchet |-> "handshake", epoch |-> r.group.current.epoch,
                         gen |-> r.secrets.current.sent["handshake"]]}, {})
  BY DEF Prepare, Load
<1> DEFINE c == StagedCommit(r, leaves)
           record == [binding |-> c, previous |-> r.local.current,
                      proposed |-> NextRoster(r, leaves), upstream |-> c]
           l == [r.local EXCEPT !.pending = {record}]
           q == WithPending(r, c)
<1>2. r \in Rows /\ Sound(r)
  BY <1>1, OptionFacts
<1>3. r.local \in LocalState /\ ValidLocal(r.local) /\ r.local.current = r.group.current
  BY <1>2, RowsFacts DEF Sound, Loadable
<1>4. c.leaves = leaves
  BY DEF StagedCommit
<1>5. /\ record.binding = c /\ record.upstream = c /\ record.previous = r.local.current
      /\ record.proposed.epoch = r.local.current.epoch + 1
      /\ record.proposed.leaves = leaves
  BY <1>3 DEF NextRoster
<1> HIDE DEF c
<1>6. /\ q.group.current = r.group.current /\ q.group.active = r.group.active
      /\ q.group.pending = {c} /\ q.secrets.past = r.secrets.past
      /\ q.local = l /\ q.retry = RetryRows(c)
  BY <1>2, <1>4, RowsFacts DEF WithPending, GroupState, SecretsStore
<1> HIDE DEF record, q
<1>7. /\ l.join = r.local.join /\ l.current = r.local.current
      /\ l.history = r.local.history /\ l.pending = {record}
  BY <1>3 DEF LocalState
<1> HIDE DEF l
<1>8. HistoryLength(l) = HistoryLength(r.local)
  BY <1>7 DEF HistoryLength
<1>9. ValidLocal(l)
  BY <1>1, <1>3, <1>5, <1>7, <1>8 DEF ValidLocal
<1>10. q.retry = UNION {RetryRows(p.binding) : p \in q.local.pending}
  BY <1>5, <1>6, <1>7
<1>11. q.group.pending = {p.upstream : p \in q.local.pending}
  BY <1>5, <1>6, <1>7
<1>12. Loadable(q)
  BY <1>3, <1>6, <1>7, <1>9, <1>10, <1>11 DEF Loadable
<1>13. Sound(q)
  BY <1>1, <1>2, <1>5, <1>6, <1>7, <1>12 DEF Sound
<1> QED
  BY <1>1, <1>13, LeavesOne DEF q, c

\* discard.
LEMMA DiscardSound ==
    ASSUME NEW snapshot \in Option(Rows), \A r \in snapshot : Sound(r),
           NEW o \in Discard(snapshot)
    PROVE  Leaves(o)
<1>1. PICK r \in snapshot : o = Outcome({WithoutPending(r)}, {}, {}, {})
  BY DEF Discard, Load
<1>2. r \in Rows /\ Sound(r)
  BY <1>1, OptionFacts
<1> QED
  BY <1>1, <1>2, WithoutPendingSound, LeavesOne

\* merge of the Commit the metadata and OpenMLS agree on.
LEMMA MergeSound ==
    ASSUME NEW snapshot \in Option(Rows), \A r \in snapshot : Sound(r),
           NEW o \in Merge(snapshot)
    PROVE  Leaves(o)
<1>1. PICK r \in snapshot : r.group.active /\ \E p \in r.local.pending :
        /\ NextRoster(r, p.upstream.leaves) = p.proposed
        /\ o = Outcome({[MergeCommit(r, r.secrets, p.upstream.leaves) EXCEPT !.retry = {}]},
                       {}, {}, {})
  BY DEF Merge, Load
<1>2. PICK p \in r.local.pending :
        /\ NextRoster(r, p.upstream.leaves) = p.proposed
        /\ o = Outcome({[MergeCommit(r, r.secrets, p.upstream.leaves) EXCEPT !.retry = {}]},
                       {}, {}, {})
  BY <1>1
<1> DEFINE merged == MergeCommit(r, r.secrets, p.upstream.leaves)
           q == [merged EXCEPT !.retry = {}]
<1>3. r \in Rows /\ Sound(r)
  BY <1>1, OptionFacts
<1>4. p.upstream.leaves \in SUBSET Leaf
  <2>1. r.local.pending \in Option(Pending)
    BY <1>3, RowsFacts DEF LocalState
  <2>2. p \in Pending
    BY <2>1, OptionFacts
  <2> QED  BY <2>2 DEF Pending, Commit
<1>5. p.upstream.leaves # {}
  <2>1. p.proposed.leaves # {}
    BY <1>3 DEF Sound
  <2> QED  BY <1>2, <2>1 DEF NextRoster
<1>6. merged \in Rows
  BY <1>3, <1>4, RowsFacts, MergeCommitTyped
<1>7. SameEpochs(r.secrets.past, r.local.history) /\ r.secrets \in SecretsStore
  BY <1>1, <1>3, RowsFacts DEF Sound
<1> HIDE DEF merged
<1>8. /\ q.retry = {} /\ q.group = merged.group /\ q.secrets = merged.secrets
      /\ q.local = merged.local
  BY <1>6 DEF Rows
<1> HIDE DEF q
<1>9. Sound(q)
  BY <1>1, <1>3, <1>4, <1>5, <1>7, <1>8, MergedSound DEF merged
<1> QED
  BY <1>2, <1>9, LeavesOne DEF q, merged

\* An application message moves a window only.
LEMMA ReceiveApplicationSound ==
    ASSUME NEW snapshot \in Option(Rows), \A r \in snapshot : Sound(r),
           NEW o \in ReceiveApplication(snapshot)
    PROVE  Leaves(o)
<1>1. PICK r \in snapshot : \E m \in Openable(r, "application") :
        o = Outcome({[r EXCEPT !.secrets = Unprotect(r, m)]}, {m}, {}, {})
  BY DEF ReceiveApplication, Load
<1>2. PICK m \in Message : o = Outcome({[r EXCEPT !.secrets = Unprotect(r, m)]}, {m}, {}, {})
  BY <1>1 DEF Openable
<1> DEFINE q == [r EXCEPT !.secrets = Unprotect(r, m)]
<1>3. r \in Rows /\ Sound(r)
  BY <1>1, OptionFacts
<1>4. /\ q.group = r.group /\ q.local = r.local /\ q.retry = r.retry
      /\ q.secrets = Unprotect(r, m)
  BY <1>3 DEF Rows
<1> HIDE DEF q
<1>5. r.group.active => SameEpochs(q.secrets.past, r.local.history)
  BY <1>3, <1>4, UnprotectKeepsEpochs DEF Sound
<1>6. Sound(q)
  BY <1>3, <1>4, <1>5, SameLocalSound
<1> QED
  BY <1>2, <1>6, LeavesOne DEF q

\* A Proposal also sets the queue's flag.
LEMMA ReceiveProposalSound ==
    ASSUME NEW snapshot \in Option(Rows), \A r \in snapshot : Sound(r),
           NEW o \in ReceiveProposal(snapshot)
    PROVE  Leaves(o)
<1>1. PICK r \in snapshot : \E m \in Openable(r, "handshake") :
        o = Outcome({[r EXCEPT !.secrets = Unprotect(r, m), !.group.proposals = TRUE]},
                    {m}, {}, {})
  BY DEF ReceiveProposal, Load
<1>2. PICK m \in Message :
        o = Outcome({[r EXCEPT !.secrets = Unprotect(r, m), !.group.proposals = TRUE]},
                    {m}, {}, {})
  BY <1>1 DEF Openable
<1> DEFINE group == [r.group EXCEPT !.proposals = TRUE]
           q == [r EXCEPT !.secrets = Unprotect(r, m), !.group = group]
<1>3. r \in Rows /\ Sound(r)
  BY <1>1, OptionFacts
<1>4. /\ group.current = r.group.current /\ group.active = r.group.active
      /\ group.pending = r.group.pending
  BY <1>3, RowsFacts DEF GroupState
<1>5. q = [r EXCEPT !.secrets = Unprotect(r, m), !.group.proposals = TRUE]
  BY Zenon
<1> HIDE DEF group
<1>6. /\ q.group = group /\ q.local = r.local /\ q.retry = r.retry
      /\ q.secrets = Unprotect(r, m)
  BY <1>3 DEF Rows
<1> HIDE DEF q
<1>7. r.group.active => SameEpochs(q.secrets.past, r.local.history)
  BY <1>3, <1>6, UnprotectKeepsEpochs DEF Sound
<1>8. Sound(q)
  BY <1>3, <1>4, <1>6, <1>7, SameLocalSound
<1>9. o = Outcome({q}, {m}, {}, {})
  BY <1>2, <1>5
<1> QED
  BY <1>8, <1>9, LeavesOne

\* A Commit is only processed while nothing is pending, so no retry row outlives
\* its Commit on either branch.
LEMMA ReceiveCommitSound ==
    ASSUME NEW snapshot \in Option(Rows), \A r \in snapshot : Sound(r),
           NEW o \in ReceiveCommit(snapshot)
    PROVE  Leaves(o)
<1> DEFINE After(r, m, leaves) == IF Self \in leaves
                                  THEN MergeCommit(r, Unprotect(r, m), leaves)
                                  ELSE MergeOwnRemoval(r, Unprotect(r, m), leaves)
<1> DEFINE OfMessage(r, m) == {Outcome({After(r, m, leaves)}, {m}, {}, {}) :
                                   leaves \in {l \in LeafSets : m.from \in l}}
           OfRows(r) == UNION {OfMessage(r, m) : m \in Openable(r, "handshake")}
<1>1. PICK r \in Load(snapshot) : o \in OfRows(r)
  <2>1. o \in UNION {OfRows(r) : r \in {q \in Load(snapshot) :
                                        q.group.current.epoch < MaxEpoch}}
    BY Zenon DEF ReceiveCommit
  <2> HIDE DEF OfRows
  <2> QED  BY <2>1
<1>2. PICK m \in Openable(r, "handshake"), leaves \in LeafSets :
        o = Outcome({After(r, m, leaves)}, {m}, {}, {})
  <2>1. PICK m \in Openable(r, "handshake") : o \in OfMessage(r, m)
    <3> HIDE DEF OfMessage
    <3> QED  BY <1>1
  <2> HIDE DEF After
  <2> QED  BY <2>1
<1> HIDE DEF OfRows, OfMessage
<1>3. r \in Rows /\ Sound(r) /\ Loadable(r)
  BY <1>1, OptionFacts DEF Load
<1>4. m \in Message /\ m.ratchet = "handshake" /\ ReceiveError(r, m) = "Ok"
  BY <1>2 DEF Openable
<1>5. r.group.active /\ r.local.pending = {}
  BY <1>4 DEF ReceiveError
<1>6. r.retry = {}
  BY <1>3, <1>5 DEF Loadable
<1>7. leaves \in SUBSET Leaf /\ leaves # {}
  BY <1>2, LeafSetsAssumption
<1>8. Unprotect(r, m) \in SecretsStore
  BY <1>3, <1>4, UnprotectTyped
<1>9. SameEpochs(Unprotect(r, m).past, r.local.history)
  BY <1>3, <1>4, <1>5, UnprotectKeepsEpochs DEF Sound
<1>10. MergeCommit(r, Unprotect(r, m), leaves).retry = {}
  BY <1>6 DEF MergeCommit
<1>11. Sound(MergeCommit(r, Unprotect(r, m), leaves))
  BY <1>3, <1>5, <1>7, <1>8, <1>9, <1>10, MergedSound
<1>12. Sound(MergeOwnRemoval(r, Unprotect(r, m), leaves))
  BY <1>3, <1>6, <1>7, OwnRemovalSound
<1>13. Sound(After(r, m, leaves))
  BY <1>11, <1>12
<1> HIDE DEF After
<1> QED
  BY <1>2, <1>13, LeavesOne

\* An external Commit is merged on the rows without the Commit it supersedes.
LEMMA ReceiveExternalSound ==
    ASSUME NEW snapshot \in Option(Rows), \A r \in snapshot : Sound(r),
           NEW o \in ReceiveExternal(snapshot)
    PROVE  Leaves(o)
<1> DEFINE Replaced(r, d) == (r.group.current.leaves \ {d[1]}) \cup {d[2]}
<1> DEFINE OfRows(r) ==
        {Outcome({MergeCommit(WithoutPending(r), r.secrets, Replaced(r, d))}, {}, {}, {}) :
            d \in {x \in (r.group.current.leaves \ {Self}) \X Peer :
                        x[2] \notin r.group.current.leaves}}
<1>1. PICK r \in Load(snapshot) : r.group.active /\ o \in OfRows(r)
  <2>1. o \in UNION {OfRows(r) : r \in {q \in Load(snapshot) :
                            q.group.active /\ q.group.current.epoch < MaxEpoch}}
    BY Zenon DEF ReceiveExternal
  <2> HIDE DEF OfRows
  <2> QED  BY <2>1
<1>2. PICK d \in (r.group.current.leaves \ {Self}) \X Peer :
        o = Outcome({MergeCommit(WithoutPending(r), r.secrets, Replaced(r, d))}, {}, {}, {})
  <2> HIDE DEF Replaced
  <2> QED  BY <1>1
<1>3. r \in Rows /\ Sound(r)
  BY <1>1, OptionFacts DEF Load
<1>4. Replaced(r, d) \in SUBSET Leaf /\ Replaced(r, d) # {}
  BY <1>2, <1>3, RowsFacts DEF Leaf
<1> HIDE DEF Replaced
<1> DEFINE w == WithoutPending(r)
           q == MergeCommit(w, r.secrets, Replaced(r, d))
<1>5. /\ w \in Rows /\ Sound(w) /\ w.retry = {} /\ w.group.active
      /\ w.secrets = r.secrets
  BY <1>1, <1>3, WithoutPendingTyped, WithoutPendingSound
<1>6. SameEpochs(r.secrets.past, w.local.history) /\ r.secrets \in SecretsStore
  BY <1>3, <1>5, RowsFacts DEF Sound
<1> HIDE DEF w
<1>7. q.retry = {}
  BY <1>5 DEF MergeCommit
<1>8. Sound(q)
  BY <1>4, <1>5, <1>6, <1>7, MergedSound
<1> HIDE DEF q
<1> QED
  BY <1>2, <1>8, LeavesOne DEF q, w

\* create and join.
LEMMA EnteredSound ==
    ASSUME NEW o \in Create \cup Join(keyPackages)
    PROVE  Leaves(o)
<1>1. CASE o \in Create
  <2> DEFINE current == [epoch |-> 0, leaves |-> {Self}]
  <2>1. current \in Roster /\ current.leaves # {}
    BY DEF Roster, Leaf
  <2>2. o = Outcome({NewRows(current)}, {}, {}, {})
    BY <1>1 DEF Create
  <2> HIDE DEF current
  <2> QED  BY <2>1, <2>2, NewRowsSound, LeavesOne
<1>2. CASE o \in Join(keyPackages)
  <2>1. PICK w \in Welcome :
            o = Outcome({NewRows([epoch |-> w.epoch, leaves |-> w.leaves])}, {}, {}, {w})
    BY <1>2 DEF Join
  <2> DEFINE current == [epoch |-> w.epoch, leaves |-> w.leaves]
  <2>2. current \in Roster /\ current.leaves # {}
    BY WelcomeAssumption, BoundAssumption DEF Roster, WelcomeType
  <2>3. o = Outcome({NewRows(current)}, {}, {}, {w})
    BY <2>1
  <2> HIDE DEF current
  <2> QED  BY <2>2, <2>3, NewRowsSound, LeavesOne
<1> QED
  BY <1>1, <1>2

-----------------------------------------------------------------------------
(* The invariant *)

\* Applying an outcome makes its rows the durable ones.
LEMMA AppliedSound ==
    ASSUME NEW o, Leaves(o), Apply(o)
    PROVE  LoadInv'
  BY DEF Leaves, Apply, LoadInv

\* There are no rows at first.
LEMMA LoadInvInit == Init => LoadInv
  BY DEF Init, LoadInv

\* Every operation leaves sound rows or none.
LEMMA LoadInvStep == TypeOK /\ LoadInv /\ [Next]_vars => LoadInv'
<1> SUFFICES ASSUME TypeOK, LoadInv, [Next]_vars PROVE LoadInv'
  OBVIOUS
<1>0. db \in Option(Rows) /\ \A r \in db : Sound(r)
  BY DEF TypeOK, LoadInv
<1>1. ASSUME NEW k \in KeyPackage, CreateKeyPackage(k) PROVE LoadInv'
  BY <1>1 DEF CreateKeyPackage, LoadInv
<1>2. CASE CreateGroup
  BY <1>2, EnteredSound, AppliedSound DEF CreateGroup
<1>3. CASE JoinGroup
  BY <1>3, EnteredSound, AppliedSound DEF JoinGroup
<1>4. CASE SendMessage
  BY <1>0, <1>4, SendSound, AppliedSound DEF SendMessage
<1>5. CASE PrepareCommit
  BY <1>0, <1>5, PrepareSound, AppliedSound DEF PrepareCommit
<1>6. CASE MergePending
  BY <1>0, <1>6, MergeSound, AppliedSound DEF MergePending
<1>7. CASE DiscardPending
  BY <1>0, <1>7, DiscardSound, AppliedSound DEF DiscardPending
<1>8. CASE ProcessApplication
  BY <1>0, <1>8, ReceiveApplicationSound, AppliedSound DEF ProcessApplication
<1>9. CASE ProcessProposal
  BY <1>0, <1>9, ReceiveProposalSound, AppliedSound DEF ProcessProposal
<1>10. CASE ProcessCommit
  BY <1>0, <1>10, ReceiveCommitSound, AppliedSound DEF ProcessCommit
<1>11. CASE ProcessExternal
  BY <1>0, <1>11, ReceiveExternalSound, AppliedSound DEF ProcessExternal
<1>12. CASE DeleteGroup
  BY <1>12, AppliedSound, DeleteLeaves DEF DeleteGroup, Leaves
<1>13. CASE UNCHANGED vars
  BY <1>13 DEF vars, LoadInv
<1> QED
  BY <1>1, <1>2, <1>3, <1>4, <1>5, <1>6, <1>7, <1>8, <1>9, <1>10, <1>11, <1>12, <1>13
     DEF Next

\* Loadable rows of active groups with both lists in step: the inductive
\* invariant, relative to the types.
THEOREM LoadInvariance == Spec => []LoadInv
<1> QED
  BY LifecycleTypeCorrect, LoadInvInit, LoadInvStep, PTL DEF Spec

\* Whatever runtime.rs, external.rs and storage.rs return, runtime::load accepts
\* it the next time.
THEOREM AlwaysLoadable == Spec => []AlwaysLoads
<1>1. LoadInv => AlwaysLoads
  BY DEF LoadInv, Sound, AlwaysLoads
<1> QED
  BY <1>1, LoadInvariance, PTL

\* The roster history of local_group_state.rs and OpenMLS's MessageSecretsStore
\* retain the same epochs, for every retention and history of Commits.
THEOREM RetainsInStep == Spec => []RetainedInStep
<1>1. LoadInv => RetainedInStep
  BY DEF LoadInv, Sound, SameEpochs, RetainedInStep
<1> QED
  BY <1>1, LoadInvariance, PTL

-----------------------------------------------------------------------------
(* Keys that are gone *)

\* A window holds keys below its head only.
ProperWindow(w) == \A g \in w.keys : g < w.head

ProperTree(tree) ==
    \A kind \in RatchetKind : \A p \in Peer : ProperWindow(tree.window[kind][p])

ProperSecrets(s) ==
    ProperTree(s.current) /\ \A i \in 1 .. Len(s.past) : ProperTree(s.past[i].tree)

\* The key of generation g was taken, or fell behind.
Spent(w, g) == g < w.head /\ g \notin w.keys

SpentIn(tree, m) == Spent(tree.window[m.ratchet][m.from], m.gen)

\* The key of generation g was taken while it was still in the window.
Taken(w, g) == Spent(w, g) /\ ~BehindWindow(w, g)

TakenIn(tree, m) == Taken(tree.window[m.ratchet][m.from], m.gen)

\* A window that only moved forward.
Forwards(old, new) ==
    old.head <= new.head /\ \A g \in new.keys : g < old.head => g \in old.keys

\* What the secret tree answers Ok to is not gone.
LEMMA SpentRefused ==
    ASSUME NEW w \in Window, NEW g \in Nat, WindowError(w, g) = "Ok"
    PROVE  ~Spent(w, g)
  BY DEF WindowError, Spent

\* Taking a key spends it and revives none.
LEMMA TakeKeySpends ==
    ASSUME NEW w \in Window, ProperWindow(w), NEW g \in Nat
    PROVE  /\ ProperWindow(TakeKey(w, g))
           /\ Spent(TakeKey(w, g), g)
           /\ \A k \in Nat : Spent(w, k) => Spent(TakeKey(w, g), k)
           /\ \A k \in Nat : Taken(TakeKey(w, g), k) => k = g \/ Taken(w, k)
           /\ Forwards(w, TakeKey(w, g))
<1>1. w.head \in Nat /\ w.keys \subseteq Nat /\ \A k \in w.keys : k < w.head
  BY DEF Window, ProperWindow
<1>2. CASE g >= w.head
  <2> DEFINE kept == {k \in w.keys \cup (w.head .. g - 1) : g + 1 - k <= Tolerance}
  <2>1. TakeKey(w, g).head = g + 1 /\ TakeKey(w, g).keys = kept
    BY <1>2 DEF TakeKey
  <2>2. \A k \in kept : k < g + 1 /\ k # g
    BY <1>1, <1>2
  <2>3. \A k \in Nat : Spent(w, k) => k < g + 1 /\ k \notin kept
    BY <1>1, <1>2 DEF Spent
  <2>4. ASSUME NEW k \in Nat, k < g + 1, k \notin kept, g + 1 - k <= Tolerance, k # g
        PROVE  k < w.head /\ k \notin w.keys /\ w.head - k <= Tolerance
    BY <1>1, <1>2, <2>4, ToleranceAssumption
  <2>5. \A k \in kept : k < w.head => k \in w.keys
    BY <1>1
  <2> HIDE DEF kept
  <2>6. ASSUME NEW k \in Nat, Taken(TakeKey(w, g), k), k # g
        PROVE  Taken(w, k)
    <3>1. k < g + 1 /\ k \notin kept /\ g + 1 - k <= Tolerance
      BY <1>1, <2>1, <2>6, ToleranceAssumption DEF Taken, Spent, BehindWindow
    <3>2. k < w.head /\ k \notin w.keys /\ w.head - k <= Tolerance
      BY <2>4, <2>6, <3>1
    <3> QED  BY <1>1, <3>2, ToleranceAssumption DEF Taken, Spent, BehindWindow
  <2>7. Forwards(w, TakeKey(w, g))
    BY <1>1, <1>2, <2>1, <2>5 DEF Forwards
  <2> QED  BY <2>1, <2>2, <2>3, <2>6, <2>7 DEF Spent, ProperWindow
<1>3. CASE ~(g >= w.head)
  <2>1. TakeKey(w, g).head = w.head /\ TakeKey(w, g).keys = w.keys \ {g}
    BY <1>3 DEF TakeKey
  <2>2. \A k \in Nat : Taken(TakeKey(w, g), k) => k = g \/ Taken(w, k)
    BY <1>1, <2>1 DEF Taken, Spent, BehindWindow
  <2>3. Forwards(w, TakeKey(w, g))
    BY <1>1, <2>1 DEF Forwards
  <2> QED  BY <1>1, <1>3, <2>1, <2>2, <2>3 DEF Spent, ProperWindow
<1> QED
  BY <1>2, <1>3

\* The same for the tree of an epoch, handshake or application.
LEMMA TakeFromSpends ==
    ASSUME NEW tree \in EpochSecrets, ProperTree(tree), NEW m \in Message
    PROVE  /\ ProperTree(TakeFrom(tree, m))
           /\ SpentIn(TakeFrom(tree, m), m)
           /\ \A x \in Message : SpentIn(tree, x) => SpentIn(TakeFrom(tree, m), x)
           /\ \A x \in Message :
                x.epoch = m.epoch /\ TakenIn(TakeFrom(tree, m), x) => x = m \/ TakenIn(tree, x)
           /\ NotRewound(tree, TakeFrom(tree, m))
<1> DEFINE old == tree.window[m.ratchet][m.from]
           new == TakeKey(old, m.gen)
           after == TakeFrom(tree, m)
<1>1. tree.window \in [RatchetKind -> [Peer -> Window]]
  BY DEF EpochSecrets
<1>2. old \in Window /\ ProperWindow(old) /\ m.gen \in Nat
      /\ m.ratchet \in RatchetKind /\ m.from \in Peer
  BY <1>1, MessageFacts DEF ProperTree
<1>3. /\ ProperWindow(new) /\ Spent(new, m.gen)
      /\ \A k \in Nat : Spent(old, k) => Spent(new, k)
      /\ \A k \in Nat : Taken(new, k) => k = m.gen \/ Taken(old, k)
      /\ Forwards(old, new)
  BY <1>2, TakeKeySpends
<1>4. \A kind \in RatchetKind : \A p \in Peer :
        after.window[kind][p] = IF kind = m.ratchet /\ p = m.from THEN new
                                ELSE tree.window[kind][p]
  BY <1>1, <1>2 DEF TakeFrom, EpochSecrets
<1>a. after.sent = tree.sent /\ tree.sent \in [RatchetKind -> Nat]
  BY TakeFromTyped DEF EpochSecrets
<1>b. \A kind \in RatchetKind : \A p \in Peer : tree.window[kind][p].head \in Nat
  BY <1>1 DEF Window
<1> HIDE DEF new, after
<1>5. ProperTree(after)
  BY <1>3, <1>4 DEF ProperTree
<1>6. SpentIn(after, m)
  BY <1>2, <1>3, <1>4 DEF SpentIn
<1>7. ASSUME NEW x \in Message, SpentIn(tree, x) PROVE SpentIn(after, x)
  <2>1. x.ratchet \in RatchetKind /\ x.from \in Peer /\ x.gen \in Nat
    BY MessageFacts
  <2> QED  BY <1>3, <1>4, <1>7, <2>1 DEF SpentIn
<1>8. ASSUME NEW x \in Message, x.epoch = m.epoch, TakenIn(after, x), x # m
      PROVE  TakenIn(tree, x)
  <2>1. x.ratchet \in RatchetKind /\ x.from \in Peer /\ x.gen \in Nat
    BY MessageFacts
  <2>2. CASE x.ratchet = m.ratchet /\ x.from = m.from
    <3>1. x.gen # m.gen
      BY <1>8, <2>2, MessageAssumption DEF MessageType
    <3> QED  BY <1>3, <1>4, <1>8, <2>1, <2>2, <3>1 DEF TakenIn
  <2>3. CASE ~(x.ratchet = m.ratchet /\ x.from = m.from)
    BY <1>4, <1>8, <2>1, <2>3 DEF TakenIn
  <2> QED  BY <2>2, <2>3
<1>9. NotRewound(tree, after)
  BY <1>3, <1>4, <1>a, <1>b DEF NotRewound, Forwards
<1> QED
  BY <1>5, <1>6, <1>7, <1>8, <1>9 DEF after

\* Secrets left alone are not rewound.
LEMMA NotRewoundSame ==
    ASSUME NEW tree \in EpochSecrets, NEW other, other.window = tree.window,
           \A k \in RatchetKind : tree.sent[k] <= other.sent[k]
    PROVE  NotRewound(tree, other)
<1>1. \A kind \in RatchetKind : \A p \in Peer : tree.window[kind][p].head \in Nat
  BY DEF EpochSecrets, Window
<1> QED
  BY <1>1 DEF NotRewound

\* Fresh secrets hold no key at all.
LEMMA FreshProper == ProperTree(FreshSecrets)
  BY DEF ProperTree, ProperWindow, FreshSecrets, NewWindow

\* No key of fresh secrets was taken.
LEMMA FreshUntaken == \A m \in Message : ~TakenIn(FreshSecrets, m)
  BY MessageFacts DEF TakenIn, Taken, Spent, FreshSecrets, NewWindow

\* The secrets found for an epoch are of the right type and hold proper windows.
LEMMA SecretsForTyped ==
    ASSUME NEW r \in Rows, ProperSecrets(r.secrets), NEW epoch,
           NEW t \in SecretsFor(r, epoch)
    PROVE  t \in EpochSecrets /\ ProperTree(t)
<1>1. r.secrets.past \in Seq(PastEpoch) /\ r.secrets.current \in EpochSecrets
  BY RowsFacts
<1>2. \A i \in 1 .. Len(r.secrets.past) : r.secrets.past[i].tree \in EpochSecrets
  <2>1. \A i \in 1 .. Len(r.secrets.past) : r.secrets.past[i] \in PastEpoch
    BY <1>1
  <2> QED  BY <2>1 DEF PastEpoch
<1> QED
  BY <1>1, <1>2 DEF SecretsFor, ProperSecrets

\* unprotect_message takes the key in the secrets of the message's epoch only.
LEMMA UnprotectSecrets ==
    ASSUME NEW r \in Rows, ProperSecrets(r.secrets),
           NEW m \in Message, m.epoch <= r.group.current.epoch,
           NEW q, q.group.current = r.group.current, q.secrets = Unprotect(r, m)
    PROVE  /\ ProperSecrets(q.secrets)
           /\ \A k \in Nat : k <= r.group.current.epoch =>
                \A t \in SecretsFor(q, k) : \E old \in SecretsFor(r, k) :
                    t = IF k = m.epoch THEN TakeFrom(old, m) ELSE old
<1>1. /\ r.secrets.past \in Seq(PastEpoch) /\ r.secrets.current \in EpochSecrets
      /\ r.group.current.epoch \in Nat /\ m.epoch \in Nat
  BY RowsFacts, MessageFacts
<1>2. \A i \in 1 .. Len(r.secrets.past) : r.secrets.past[i].tree \in EpochSecrets
  <2>1. \A i \in 1 .. Len(r.secrets.past) : r.secrets.past[i] \in PastEpoch
    BY <1>1
  <2> QED  BY <2>1 DEF PastEpoch
<1>3. CASE m.epoch < r.group.current.epoch
  <2> DEFINE AfterTake(i) == IF r.secrets.past[i].epoch = m.epoch
                         THEN [epoch |-> m.epoch, tree |-> TakeFrom(r.secrets.past[i].tree, m)]
                         ELSE r.secrets.past[i]
             past == [i \in 1 .. Len(r.secrets.past) |-> AfterTake(i)]
  <2>1. q.secrets.current = r.secrets.current /\ q.secrets.past = past
    BY <1>3 DEF Unprotect
  <2>2. Len(past) = Len(r.secrets.past)
    BY <1>1
  <2>3. \A i \in 1 .. Len(r.secrets.past) :
            /\ past[i].epoch = r.secrets.past[i].epoch
            /\ past[i].tree = IF r.secrets.past[i].epoch = m.epoch
                              THEN TakeFrom(r.secrets.past[i].tree, m)
                              ELSE r.secrets.past[i].tree
    OBVIOUS
  <2> HIDE DEF past
  <2>4. ProperSecrets(q.secrets)
    BY <1>2, <2>1, <2>2, <2>3, TakeFromSpends DEF ProperSecrets
  <2>5. ASSUME NEW k \in Nat, k <= r.group.current.epoch, NEW t \in SecretsFor(q, k)
        PROVE  \E old \in SecretsFor(r, k) :
                    t = IF k = m.epoch THEN TakeFrom(old, m) ELSE old
    <3>1. CASE k < r.group.current.epoch
      <4>1. PICK i \in 1 .. Len(r.secrets.past) : past[i].epoch = k /\ t = past[i].tree
        BY <2>1, <2>2, <2>5, <3>1 DEF SecretsFor
      <4>2. r.secrets.past[i].tree \in SecretsFor(r, k)
        BY <2>3, <3>1, <4>1 DEF SecretsFor
      <4> QED  BY <2>3, <4>1, <4>2
    <3>2. CASE ~(k < r.group.current.epoch)
      BY <1>1, <1>3, <2>1, <2>5, <3>2 DEF SecretsFor
    <3> QED  BY <3>1, <3>2
  <2> QED  BY <2>4, <2>5
<1>4. CASE ~(m.epoch < r.group.current.epoch)
  <2>1. /\ q.secrets.current = TakeFrom(r.secrets.current, m)
        /\ q.secrets.past = r.secrets.past
    BY <1>4 DEF Unprotect
  <2>2. ProperSecrets(q.secrets)
    BY <1>1, <2>1, TakeFromSpends DEF ProperSecrets
  <2>3. ASSUME NEW k \in Nat, k <= r.group.current.epoch, NEW t \in SecretsFor(q, k)
        PROVE  \E old \in SecretsFor(r, k) :
                    t = IF k = m.epoch THEN TakeFrom(old, m) ELSE old
    BY <1>1, <1>4, <2>1, <2>3 DEF SecretsFor
  <2> QED  BY <2>2, <2>3
<1> QED
  BY <1>3, <1>4

\* A merge files the secrets of the epoch it ends under that epoch, and finds
\* no others there.
LEMMA MergedSecrets ==
    ASSUME NEW r \in Rows, Sound(r), r.group.active, NEW s \in SecretsStore,
           ProperSecrets(s), SameEpochs(s.past, r.local.history),
           NEW b, b.group.current = r.group.current, b.secrets = s,
           NEW q, q.group.current.epoch = r.group.current.epoch + 1,
           q.secrets.current = FreshSecrets,
           q.secrets.past = AddEpoch(s.past, r.group.current.epoch, s.current)
    PROVE  /\ ProperSecrets(q.secrets)
           /\ \A k \in Nat : k <= r.group.current.epoch =>
                SecretsFor(q, k) \subseteq SecretsFor(b, k)
<1> DEFINE e == r.group.current.epoch
           x == [epoch |-> e, tree |-> s.current]
           rest == IF Len(s.past) >= Retention THEN Tail(s.past) ELSE s.past
<1>1. /\ s.past \in Seq(PastEpoch) /\ s.current \in EpochSecrets /\ e \in Nat
      /\ x \in PastEpoch /\ Len(s.past) \in Nat /\ Retention \in Nat /\ Retention >= 2
  BY RowsFacts, RetentionFacts DEF SecretsStore, PastEpoch
<1>2. \A i \in 1 .. Len(s.past) : s.past[i].epoch < e
  <2>1. /\ ValidLocal(r.local) /\ r.local.current.epoch = e /\ r.local \in LocalState
    BY RowsFacts DEF Sound, Loadable
  <2>2. Len(r.local.history) = HistoryLength(r.local) /\ Len(r.local.history) \in Nat
    BY <2>1 DEF ValidLocal, LocalState
  <2>3. \A i \in 1 .. Len(r.local.history) :
            r.local.history[i].epoch = e - Len(r.local.history) + i - 1
    BY <2>1, <2>2 DEF ValidLocal
  <2> QED  BY <1>1, <2>2, <2>3 DEF SameEpochs
<1>3. /\ rest \in Seq(PastEpoch)
      /\ \A i \in 1 .. Len(rest) : \E j \in 1 .. Len(s.past) : rest[i] = s.past[j]
  <2>1. CASE Len(s.past) >= Retention
    <3>1. /\ Tail(s.past) \in Seq(PastEpoch) /\ Len(Tail(s.past)) = Len(s.past) - 1
          /\ \A i \in 1 .. Len(s.past) - 1 : Tail(s.past)[i] = s.past[i + 1]
      BY <1>1, <2>1
    <3>2. \A i \in 1 .. Len(s.past) - 1 : i + 1 \in 1 .. Len(s.past)
      BY <1>1
    <3> QED  BY <2>1, <3>1, <3>2
  <2>2. CASE ~(Len(s.past) >= Retention)
    BY <1>1, <2>2
  <2> QED  BY <2>1, <2>2
<1>4. q.secrets.past = Append(rest, x)
  BY DEF AddEpoch
<1>5. x.epoch = e /\ x.tree = s.current
  OBVIOUS
<1> HIDE DEF rest, x
<1>6. /\ Len(Append(rest, x)) = Len(rest) + 1 /\ Len(rest) \in Nat
      /\ Append(rest, x)[Len(rest) + 1] = x
      /\ \A i \in 1 .. Len(rest) : Append(rest, x)[i] = rest[i]
  BY <1>1, <1>3, AppendProperties
<1>7. \A i \in 1 .. Len(q.secrets.past) :
        \/ q.secrets.past[i] = x
        \/ \E j \in 1 .. Len(s.past) : q.secrets.past[i] = s.past[j]
  <2>1. ASSUME NEW i \in 1 .. Len(rest) + 1
        PROVE  \/ Append(rest, x)[i] = x
               \/ \E j \in 1 .. Len(s.past) : Append(rest, x)[i] = s.past[j]
    <3>1. i \in 1 .. Len(rest) \/ i = Len(rest) + 1
      BY <1>6
    <3> QED  BY <1>3, <1>6, <3>1
  <2> QED  BY <1>4, <1>6, <2>1
<1>8. ProperSecrets(q.secrets)
  BY <1>5, <1>7, FreshProper DEF ProperSecrets
<1>9. ASSUME NEW k \in Nat, k <= e, NEW t \in SecretsFor(q, k)
      PROVE  t \in SecretsFor(b, k)
  <2>1. PICK i \in 1 .. Len(q.secrets.past) :
            q.secrets.past[i].epoch = k /\ t = q.secrets.past[i].tree
    BY <1>1, <1>9 DEF SecretsFor
  <2>2. CASE q.secrets.past[i] = x
    BY <1>1, <1>5, <2>1, <2>2 DEF SecretsFor
  <2>3. CASE \E j \in 1 .. Len(s.past) : q.secrets.past[i] = s.past[j]
    <3>1. PICK j \in 1 .. Len(s.past) : q.secrets.past[i] = s.past[j]
      BY <2>3
    <3>2. s.past[j].epoch = k /\ t = s.past[j].tree /\ k < e
      BY <1>2, <2>1, <3>1
    <3> QED  BY <3>2 DEF SecretsFor
  <2> QED  BY <1>7, <2>2, <2>3
<1> QED
  BY <1>8, <1>9

-----------------------------------------------------------------------------
(* What an operation opens and spends *)

\* Outcome o of an operation on rows r opens only messages whose keys r still
\* has; in the rows it leaves those and all keys spent before are spent, no other
\* key is taken, and no ratchet went back.
DeliversIn(r, o, q) ==
    /\ o.rows = {q}
    /\ ProperSecrets(q.secrets)
    /\ q.group.current.epoch \in {r.group.current.epoch, r.group.current.epoch + 1}
    /\ q.group.current.epoch # r.group.current.epoch /\ q.group.active =>
        q.secrets.current = FreshSecrets
    /\ \A m \in o.opened :
        /\ r.group.active
        /\ m.epoch <= r.group.current.epoch
        /\ \E t \in SecretsFor(r, m.epoch) : ~SpentIn(t, m)
    /\ q.group.active =>
        /\ r.group.active
        /\ \A m \in Message : m.epoch <= r.group.current.epoch =>
            \A t \in SecretsFor(q, m.epoch) : \E old \in SecretsFor(r, m.epoch) :
                /\ m \in o.opened \/ SpentIn(old, m) => SpentIn(t, m)
                /\ TakenIn(t, m) => m \in o.opened \/ TakenIn(old, m)
        /\ \A k \in Nat : k <= r.group.current.epoch =>
            \A t \in SecretsFor(q, k) : \E old \in SecretsFor(r, k) : NotRewound(old, t)

Delivers(r, o) == \E q \in Rows : DeliversIn(r, o, q)

Readable(snapshot) == \A r \in snapshot : Sound(r) /\ ProperSecrets(r.secrets)

\* receive_inner accepts a message only if its key is there.
LEMMA OpenableFacts ==
    ASSUME NEW r \in Rows, Loadable(r), ProperSecrets(r.secrets),
           NEW m \in Message, ReceiveError(r, m) = "Ok"
    PROVE  /\ r.group.active
           /\ m.epoch <= r.group.current.epoch
           /\ \E t \in SecretsFor(r, m.epoch) : ~SpentIn(t, m)
           /\ m.ratchet = "handshake" => r.local.pending = {}
<1>1. /\ r.local.current = r.group.current /\ r.group.current.epoch \in Nat
      /\ m.epoch \in Nat /\ m.ratchet \in RatchetKind /\ m.from \in Peer /\ m.gen \in Nat
  BY RowsFacts, MessageFacts DEF Loadable
<1>2. /\ r.group.active /\ m.epoch <= r.group.current.epoch /\ RatchetError(r, m) = "Ok"
      /\ m.ratchet = "handshake" => r.local.pending = {}
  BY <1>1 DEF ReceiveError
<1>3. SecretsFor(r, m.epoch) # {}
  BY <1>2 DEF RatchetError
<1> DEFINE t == The(SecretsFor(r, m.epoch))
           w == t.window[m.ratchet][m.from]
<1>4. t \in SecretsFor(r, m.epoch)
  BY <1>3 DEF The
<1>5. WindowError(w, m.gen) = "Ok"
  <2>1. WindowError(w, m.gen) \in {"TooDistantInTheFuture", "TooDistantInThePast",
                                   "SecretReuseError", "Ok"}
    BY DEF WindowError
  <2> QED  BY <1>2, <1>3, <2>1 DEF RatchetError
<1>6. w \in Window
  <2>1. t \in EpochSecrets
    BY <1>4, SecretsForTyped
  <2> QED  BY <1>1, <2>1 DEF EpochSecrets
<1>7. ~SpentIn(t, m)
  BY <1>1, <1>5, <1>6, SpentRefused DEF SpentIn
<1> QED
  BY <1>2, <1>4, <1>7

\* Counters only count up.
LEMMA CountersGrow ==
    ASSUME NEW old \in [RatchetKind -> Nat]
    PROVE  /\ \A k \in RatchetKind : old[k] <= old[k]
           /\ \A kind \in RatchetKind : \A k \in RatchetKind :
                old[k] <= [old EXCEPT ![kind] = @ + 1][k]
  OBVIOUS

\* Rows with the same windows.
LEMMA WindowsKept ==
    ASSUME NEW r \in Rows, ProperSecrets(r.secrets), NEW q \in Rows,
           q.group.current = r.group.current, q.group.active = r.group.active,
           q.secrets.past = r.secrets.past,
           q.secrets.current.window = r.secrets.current.window,
           \A k \in RatchetKind : r.secrets.current.sent[k] <= q.secrets.current.sent[k],
           NEW o, o.rows = {q}, o.opened = {}
    PROVE  Delivers(r, o)
<1>1. ProperSecrets(q.secrets)
  BY DEF ProperSecrets, ProperTree
<1>2. ASSUME NEW m \in Message, NEW t \in SecretsFor(q, m.epoch)
      PROVE  \E old \in SecretsFor(r, m.epoch) :
                (SpentIn(old, m) <=> SpentIn(t, m)) /\ (TakenIn(old, m) <=> TakenIn(t, m))
  <2>1. CASE m.epoch < r.group.current.epoch
    BY <1>2, <2>1 DEF SecretsFor
  <2>2. CASE ~(m.epoch < r.group.current.epoch)
    <3>1. t = q.secrets.current /\ r.secrets.current \in SecretsFor(r, m.epoch)
      BY <1>2, <2>2 DEF SecretsFor
    <3> QED  BY <3>1 DEF SpentIn, TakenIn
  <2> QED  BY <2>1, <2>2
<1>3. ASSUME NEW k \in Nat, NEW t \in SecretsFor(q, k)
      PROVE  \E old \in SecretsFor(r, k) : NotRewound(old, t)
  <2>1. CASE k < r.group.current.epoch
    <3>1. t \in SecretsFor(r, k)
      BY <1>3, <2>1 DEF SecretsFor
    <3>2. t \in EpochSecrets
      BY <3>1, SecretsForTyped
    <3>3. \A kind \in RatchetKind : t.sent[kind] <= t.sent[kind]
      BY <3>2 DEF EpochSecrets
    <3> QED  BY <3>1, <3>2, <3>3, NotRewoundSame
  <2>2. CASE ~(k < r.group.current.epoch)
    <3>1. t = q.secrets.current /\ r.secrets.current \in SecretsFor(r, k)
      BY <1>3, <2>2 DEF SecretsFor
    <3> QED  BY <3>1, RowsFacts, NotRewoundSame
  <2> QED  BY <2>1, <2>2
<1>4. DeliversIn(r, o, q)
  BY <1>1, <1>2, <1>3 DEF DeliversIn
<1> QED
  BY <1>4 DEF Delivers

\* A message opened in the epoch's rows.
LEMMA OpenedDelivers ==
    ASSUME NEW r \in Rows, Loadable(r), ProperSecrets(r.secrets),
           NEW m \in Message, ReceiveError(r, m) = "Ok",
           NEW q \in Rows, q.group.current = r.group.current,
           q.secrets = Unprotect(r, m), NEW o, o.rows = {q}, o.opened = {m}
    PROVE  Delivers(r, o)
<1>1. /\ r.group.active /\ m.epoch <= r.group.current.epoch
      /\ \E t \in SecretsFor(r, m.epoch) : ~SpentIn(t, m)
  BY OpenableFacts
<1>2. /\ ProperSecrets(q.secrets)
      /\ \A k \in Nat : k <= r.group.current.epoch =>
            \A t \in SecretsFor(q, k) : \E old \in SecretsFor(r, k) :
                t = IF k = m.epoch THEN TakeFrom(old, m) ELSE old
  BY <1>1, UnprotectSecrets
<1>3. ASSUME NEW x \in Message, x.epoch <= r.group.current.epoch,
             NEW t \in SecretsFor(q, x.epoch)
      PROVE  \E old \in SecretsFor(r, x.epoch) :
                /\ x \in o.opened \/ SpentIn(old, x) => SpentIn(t, x)
                /\ TakenIn(t, x) => x \in o.opened \/ TakenIn(old, x)
  <2>1. PICK old \in SecretsFor(r, x.epoch) :
            t = IF x.epoch = m.epoch THEN TakeFrom(old, m) ELSE old
    BY <1>2, <1>3, MessageFacts
  <2>2. old \in EpochSecrets /\ ProperTree(old)
    BY SecretsForTyped
  <2>3. CASE x.epoch = m.epoch
    BY <2>1, <2>2, <2>3, TakeFromSpends
  <2>4. CASE x.epoch # m.epoch
    BY <2>1, <2>4
  <2> QED  BY <2>3, <2>4
<1>4. ASSUME NEW k \in Nat, k <= r.group.current.epoch, NEW t \in SecretsFor(q, k)
      PROVE  \E old \in SecretsFor(r, k) : NotRewound(old, t)
  <2>1. PICK old \in SecretsFor(r, k) :
            t = IF k = m.epoch THEN TakeFrom(old, m) ELSE old
    BY <1>2, <1>4
  <2>2. old \in EpochSecrets /\ ProperTree(old)
    BY SecretsForTyped
  <2>3. NotRewound(old, TakeFrom(old, m))
    BY <2>2, TakeFromSpends
  <2>4. NotRewound(old, old)
    <3>1. \A kind \in RatchetKind : old.sent[kind] <= old.sent[kind]
      BY <2>2 DEF EpochSecrets
    <3> QED  BY <2>2, <3>1, NotRewoundSame
  <2> QED  BY <2>1, <2>3, <2>4
<1>5. DeliversIn(r, o, q)
  BY <1>1, <1>2, <1>3, <1>4 DEF DeliversIn
<1> QED
  BY <1>5 DEF Delivers

\* Rows of the next epoch, made from those of this one after the secrets became
\* s, in which the messages of `opened' are spent.
LEMMA MergedDelivers ==
    ASSUME NEW r \in Rows, Sound(r), ProperSecrets(r.secrets), r.group.active,
           NEW b \in Rows, b.group.current = r.group.current, NEW o0, DeliversIn(r, o0, b),
           b.group.active, SameEpochs(b.secrets.past, r.local.history),
           NEW q \in Rows, q.group.current.epoch = r.group.current.epoch + 1,
           q.secrets.current = FreshSecrets,
           q.secrets.past = AddEpoch(b.secrets.past, r.group.current.epoch, b.secrets.current),
           NEW o, o.rows = {q}, o.opened = o0.opened
    PROVE  Delivers(r, o)
<1>1. b.secrets \in SecretsStore /\ ProperSecrets(b.secrets)
  BY RowsFacts DEF DeliversIn
<1>2. /\ ProperSecrets(q.secrets)
      /\ \A k \in Nat : k <= r.group.current.epoch =>
            SecretsFor(q, k) \subseteq SecretsFor(b, k)
  BY <1>1, MergedSecrets
<1>3. ASSUME NEW m \in Message, m.epoch <= r.group.current.epoch,
             NEW t \in SecretsFor(q, m.epoch)
      PROVE  \E old \in SecretsFor(r, m.epoch) :
                /\ m \in o.opened \/ SpentIn(old, m) => SpentIn(t, m)
                /\ TakenIn(t, m) => m \in o.opened \/ TakenIn(old, m)
  <2>1. t \in SecretsFor(b, m.epoch)
    BY <1>2, <1>3, MessageFacts
  <2> QED  BY <1>3, <2>1 DEF DeliversIn
<1>4. ASSUME NEW k \in Nat, k <= r.group.current.epoch, NEW t \in SecretsFor(q, k)
      PROVE  \E old \in SecretsFor(r, k) : NotRewound(old, t)
  <2>1. t \in SecretsFor(b, k)
    BY <1>2, <1>4
  <2> QED  BY <1>4, <2>1 DEF DeliversIn
<1>5. DeliversIn(r, o, q)
  BY <1>2, <1>3, <1>4 DEF DeliversIn
<1> QED
  BY <1>5 DEF Delivers

-----------------------------------------------------------------------------
(* The operations deliver what they may *)

\* send opens nothing and leaves the windows as they are.
LEMMA SendDelivers ==
    ASSUME NEW snapshot \in Option(Rows), Readable(snapshot), NEW o \in Send(snapshot)
    PROVE  \E r \in snapshot : Delivers(r, o)
<1>1. PICK r \in snapshot :
        o = Outcome({[r EXCEPT !.secrets = CountUp(r.secrets, "application")]}, {},
                    {[ratchet |-> "application", epoch |-> r.group.current.epoch,
                      gen |-> r.secrets.current.sent["application"]]}, {})
  BY DEF Send, Load, CountUp
<1> DEFINE s == CountUp(r.secrets, "application")
           q == [r EXCEPT !.secrets = s]
<1>2. r \in Rows /\ ProperSecrets(r.secrets)
  BY <1>1, OptionFacts DEF Readable
<1>3. s \in SecretsStore
  BY <1>2, CountUpTyped DEF RatchetKind
<1>4. s.past = r.secrets.past /\ s.current.window = r.secrets.current.window
  BY <1>2, RowsFacts DEF CountUp, SecretsStore, EpochSecrets
<1>a. \A k \in RatchetKind : r.secrets.current.sent[k] <= s.current.sent[k]
  BY <1>2, CountUpTyped, CounterFacts, CountersGrow DEF RatchetKind
<1> HIDE DEF s
<1>5. q \in Rows /\ q.group = r.group /\ q.secrets = s
  BY <1>2, <1>3, RowsFacts DEF Rows
<1>6. o.rows = {q} /\ o.opened = {}
  BY <1>1 DEF Outcome, s
<1> HIDE DEF q
<1> QED
  BY <1>2, <1>4, <1>a, <1>5, <1>6, WindowsKept

\* prepare opens nothing and leaves the windows as they are.
LEMMA PrepareDelivers ==
    ASSUME NEW snapshot \in Option(Rows), Readable(snapshot), NEW o \in Prepare(snapshot)
    PROVE  \E r \in snapshot : Delivers(r, o)
<1>1. PICK r \in snapshot, leaves \in LeafSets :
        o = Outcome({WithPending(r, StagedCommit(r, leaves))}, {},
                    {[ratchet |-> "handshake", epoch |-> r.group.current.epoch,
                      gen |-> r.secrets.current.sent["handshake"]]}, {})
  BY DEF Prepare, Load
<1> DEFINE q == WithPending(r, StagedCommit(r, leaves))
<1>2. r \in Rows /\ ProperSecrets(r.secrets) /\ leaves \in SUBSET Leaf
  BY <1>1, OptionFacts, LeafSetsAssumption DEF Readable
<1>3. q \in Rows /\ q.group.current = r.group.current /\ q.group.active = r.group.active
  BY <1>2, WithPendingTyped
<1>4. /\ q.secrets.past = r.secrets.past
      /\ q.secrets.current.window = r.secrets.current.window
  BY <1>2, RowsFacts DEF WithPending, SecretsStore, EpochSecrets
<1>a. \A k \in RatchetKind : r.secrets.current.sent[k] <= q.secrets.current.sent[k]
  BY <1>2, WithPendingTyped, CounterFacts, CountersGrow DEF RatchetKind
<1>5. o.rows = {q} /\ o.opened = {}
  BY <1>1 DEF Outcome
<1> HIDE DEF q
<1> QED
  BY <1>2, <1>3, <1>4, <1>a, <1>5, WindowsKept

\* discard opens nothing and keeps whatever was received since the Commit.
LEMMA DiscardDelivers ==
    ASSUME NEW snapshot \in Option(Rows), Readable(snapshot), NEW o \in Discard(snapshot)
    PROVE  \E r \in snapshot : Delivers(r, o)
<1>1. PICK r \in snapshot : o = Outcome({WithoutPending(r)}, {}, {}, {})
  BY DEF Discard, Load
<1>2. r \in Rows /\ ProperSecrets(r.secrets)
  BY <1>1, OptionFacts DEF Readable
<1>3. o.rows = {WithoutPending(r)} /\ o.opened = {}
  BY <1>1 DEF Outcome
<1>4. \A k \in RatchetKind : r.secrets.current.sent[k] <= r.secrets.current.sent[k]
  BY <1>2, CounterFacts, CountersGrow
<1> QED
  BY <1>2, <1>3, <1>4, WithoutPendingTyped, WindowsKept

\* A merge of rows in which nothing was opened.
LEMMA QuietMergeDelivers ==
    ASSUME NEW r \in Rows, Sound(r), ProperSecrets(r.secrets), r.group.active,
           NEW q \in Rows, q.group.current.epoch = r.group.current.epoch + 1,
           q.secrets.current = FreshSecrets,
           q.secrets.past = AddEpoch(r.secrets.past, r.group.current.epoch, r.secrets.current),
           NEW o, o.rows = {q}, o.opened = {}
    PROVE  Delivers(r, o)
<1> DEFINE o0 == [rows |-> {r}, opened |-> {}]
<1>1. o0.rows = {r} /\ o0.opened = {}
  OBVIOUS
<1> HIDE DEF o0
<1>a. \A k \in RatchetKind : r.secrets.current.sent[k] <= r.secrets.current.sent[k]
  BY CounterFacts, CountersGrow
<1>2. DeliversIn(r, o0, r)
  <2>1. PICK x \in Rows : DeliversIn(r, o0, x)
    BY <1>1, <1>a, WindowsKept DEF Delivers
  <2>2. x = r
    BY <1>1, <2>1 DEF DeliversIn
  <2> QED  BY <2>1, <2>2
<1>3. SameEpochs(r.secrets.past, r.local.history)
  BY DEF Sound
<1> QED
  BY <1>1, <1>2, <1>3, MergedDelivers

\* merge opens nothing; the epoch it ends becomes a past epoch as it is.
LEMMA MergeDelivers ==
    ASSUME NEW snapshot \in Option(Rows), Readable(snapshot), NEW o \in Merge(snapshot)
    PROVE  \E r \in snapshot : Delivers(r, o)
<1>1. PICK r \in snapshot : r.group.active /\ \E p \in r.local.pending :
        o = Outcome({[MergeCommit(r, r.secrets, p.upstream.leaves) EXCEPT !.retry = {}]},
                    {}, {}, {})
  BY DEF Merge, Load
<1>2. PICK p \in r.local.pending :
        o = Outcome({[MergeCommit(r, r.secrets, p.upstream.leaves) EXCEPT !.retry = {}]},
                    {}, {}, {})
  BY <1>1
<1> DEFINE merged == MergeCommit(r, r.secrets, p.upstream.leaves)
           q == [merged EXCEPT !.retry = {}]
<1>3. r \in Rows /\ Sound(r) /\ ProperSecrets(r.secrets)
  BY <1>1, OptionFacts DEF Readable
<1>4. p.upstream.leaves \in SUBSET Leaf
  <2>1. r.local.pending \in Option(Pending)
    BY <1>3, RowsFacts DEF LocalState
  <2>2. p \in Pending
    BY <2>1, OptionFacts
  <2> QED  BY <2>2 DEF Pending, Commit
<1>5. merged \in Rows /\ merged.group.current.epoch = r.group.current.epoch + 1
  BY <1>3, <1>4, RowsFacts, MergeCommitTyped
<1>6. /\ merged.secrets.current = FreshSecrets
      /\ merged.secrets.past =
            AddEpoch(r.secrets.past, r.group.current.epoch, r.secrets.current)
  BY DEF MergeCommit
<1> HIDE DEF merged
<1>7. q \in Rows /\ q.group = merged.group /\ q.secrets = merged.secrets
  BY <1>5, RowsFacts DEF Rows
<1>8. o.rows = {q} /\ o.opened = {}
  BY <1>2 DEF Outcome, merged
<1> HIDE DEF q
<1> QED
  BY <1>1, <1>3, <1>5, <1>6, <1>7, <1>8, QuietMergeDelivers

\* external::receive opens no ratchet message; it ends the epoch as merge does.
LEMMA ReceiveExternalDelivers ==
    ASSUME NEW snapshot \in Option(Rows), Readable(snapshot),
           NEW o \in ReceiveExternal(snapshot)
    PROVE  \E r \in snapshot : Delivers(r, o)
<1> DEFINE Replaced(r, d) == (r.group.current.leaves \ {d[1]}) \cup {d[2]}
<1> DEFINE OfRows(r) ==
        {Outcome({MergeCommit(WithoutPending(r), r.secrets, Replaced(r, d))}, {}, {}, {}) :
            d \in {x \in (r.group.current.leaves \ {Self}) \X Peer :
                        x[2] \notin r.group.current.leaves}}
<1>1. PICK r \in Load(snapshot) : r.group.active /\ o \in OfRows(r)
  <2>1. o \in UNION {OfRows(r) : r \in {q \in Load(snapshot) :
                            q.group.active /\ q.group.current.epoch < MaxEpoch}}
    BY Zenon DEF ReceiveExternal
  <2> HIDE DEF OfRows
  <2> QED  BY <2>1
<1>2. PICK d \in (r.group.current.leaves \ {Self}) \X Peer :
        o = Outcome({MergeCommit(WithoutPending(r), r.secrets, Replaced(r, d))}, {}, {}, {})
  <2> HIDE DEF Replaced
  <2> QED  BY <1>1
<1>3. r \in snapshot /\ r \in Rows /\ Sound(r) /\ ProperSecrets(r.secrets)
  BY <1>1, OptionFacts DEF Load, Readable
<1>4. Replaced(r, d) \in SUBSET Leaf
  BY <1>2, <1>3, RowsFacts DEF Leaf
<1> HIDE DEF Replaced
<1> DEFINE w == WithoutPending(r)
           q == MergeCommit(w, r.secrets, Replaced(r, d))
<1>5. w \in Rows /\ w.group.current = r.group.current
  BY <1>3, WithoutPendingTyped
<1> HIDE DEF w
<1>6. q \in Rows /\ q.group.current.epoch = r.group.current.epoch + 1
  BY <1>3, <1>4, <1>5, RowsFacts, MergeCommitTyped
<1>7. /\ q.secrets.current = FreshSecrets
      /\ q.secrets.past = AddEpoch(r.secrets.past, r.group.current.epoch, r.secrets.current)
  BY <1>5 DEF MergeCommit
<1>8. o.rows = {q} /\ o.opened = {}
  BY <1>2 DEF Outcome, w
<1> HIDE DEF q
<1> QED
  BY <1>1, <1>3, <1>6, <1>7, <1>8, QuietMergeDelivers

\* An application message opens one message with a key that was there.
LEMMA ReceiveApplicationDelivers ==
    ASSUME NEW snapshot \in Option(Rows), Readable(snapshot),
           NEW o \in ReceiveApplication(snapshot)
    PROVE  \E r \in snapshot : Delivers(r, o)
<1>1. PICK r \in snapshot : Loadable(r) /\ \E m \in Openable(r, "application") :
        o = Outcome({[r EXCEPT !.secrets = Unprotect(r, m)]}, {m}, {}, {})
  BY DEF ReceiveApplication, Load
<1>2. PICK m \in Message :
        /\ ReceiveError(r, m) = "Ok"
        /\ o = Outcome({[r EXCEPT !.secrets = Unprotect(r, m)]}, {m}, {}, {})
  BY <1>1 DEF Openable
<1> DEFINE q == [r EXCEPT !.secrets = Unprotect(r, m)]
<1>3. r \in Rows /\ ProperSecrets(r.secrets)
  BY <1>1, OptionFacts DEF Readable
<1>4. q \in Rows /\ q.group = r.group /\ q.secrets = Unprotect(r, m)
  BY <1>3, UnprotectTyped, RowsFacts DEF Rows
<1>5. o.rows = {q} /\ o.opened = {m}
  BY <1>2 DEF Outcome
<1> HIDE DEF q
<1> QED
  BY <1>1, <1>2, <1>3, <1>4, <1>5, OpenedDelivers

\* A Proposal opens one message with a key that was there.
LEMMA ReceiveProposalDelivers ==
    ASSUME NEW snapshot \in Option(Rows), Readable(snapshot),
           NEW o \in ReceiveProposal(snapshot)
    PROVE  \E r \in snapshot : Delivers(r, o)
<1>1. PICK r \in snapshot : Loadable(r) /\ \E m \in Openable(r, "handshake") :
        o = Outcome({[r EXCEPT !.secrets = Unprotect(r, m), !.group.proposals = TRUE]},
                    {m}, {}, {})
  BY DEF ReceiveProposal, Load
<1>2. PICK m \in Message :
        /\ ReceiveError(r, m) = "Ok"
        /\ o = Outcome({[r EXCEPT !.secrets = Unprotect(r, m), !.group.proposals = TRUE]},
                       {m}, {}, {})
  BY <1>1 DEF Openable
<1> DEFINE group == [r.group EXCEPT !.proposals = TRUE]
           q == [r EXCEPT !.secrets = Unprotect(r, m), !.group = group]
<1>3. r \in Rows /\ ProperSecrets(r.secrets)
  BY <1>1, OptionFacts DEF Readable
<1>4. group \in GroupState /\ group.current = r.group.current
  BY <1>3, RowsFacts DEF GroupState
<1>5. q = [r EXCEPT !.secrets = Unprotect(r, m), !.group.proposals = TRUE]
  BY Zenon
<1> HIDE DEF group
<1>6. q \in Rows /\ q.group = group /\ q.secrets = Unprotect(r, m)
  BY <1>3, <1>4, UnprotectTyped, RowsFacts DEF Rows
<1> HIDE DEF q
<1>7. o.rows = {q} /\ o.opened = {m}
  BY <1>2, <1>5 DEF Outcome
<1> QED
  BY <1>1, <1>2, <1>3, <1>4, <1>6, <1>7, OpenedDelivers

\* A Commit opens one message with a key that was there, then ends the epoch.
LEMMA ReceiveCommitDelivers ==
    ASSUME NEW snapshot \in Option(Rows), Readable(snapshot),
           NEW o \in ReceiveCommit(snapshot)
    PROVE  \E r \in snapshot : Delivers(r, o)
<1> DEFINE After(r, m, leaves) == IF Self \in leaves
                                  THEN MergeCommit(r, Unprotect(r, m), leaves)
                                  ELSE MergeOwnRemoval(r, Unprotect(r, m), leaves)
<1> DEFINE OfMessage(r, m) == {Outcome({After(r, m, leaves)}, {m}, {}, {}) :
                                   leaves \in {l \in LeafSets : m.from \in l}}
           OfRows(r) == UNION {OfMessage(r, m) : m \in Openable(r, "handshake")}
<1>1. PICK r \in Load(snapshot) : o \in OfRows(r)
  <2>1. o \in UNION {OfRows(r) : r \in {q \in Load(snapshot) :
                                        q.group.current.epoch < MaxEpoch}}
    BY Zenon DEF ReceiveCommit
  <2> HIDE DEF OfRows
  <2> QED  BY <2>1
<1>2. PICK m \in Openable(r, "handshake"), leaves \in LeafSets :
        o = Outcome({After(r, m, leaves)}, {m}, {}, {})
  <2>1. PICK m \in Openable(r, "handshake") : o \in OfMessage(r, m)
    <3> HIDE DEF OfMessage
    <3> QED  BY <1>1
  <2> HIDE DEF After
  <2> QED  BY <2>1
<1> HIDE DEF OfRows, OfMessage
<1>3. r \in snapshot /\ r \in Rows /\ Sound(r) /\ Loadable(r) /\ ProperSecrets(r.secrets)
  BY <1>1, OptionFacts DEF Load, Readable
<1>4. m \in Message /\ ReceiveError(r, m) = "Ok" /\ leaves \in SUBSET Leaf
  BY <1>2, LeafSetsAssumption DEF Openable
<1>5. r.group.active /\ m.epoch <= r.group.current.epoch
      /\ \E t \in SecretsFor(r, m.epoch) : ~SpentIn(t, m)
  BY <1>3, <1>4, OpenableFacts
<1>6. Unprotect(r, m) \in SecretsStore
  BY <1>3, <1>4, UnprotectTyped
<1>7. o.rows = {After(r, m, leaves)} /\ o.opened = {m}
  BY <1>2 DEF Outcome
<1>8. After(r, m, leaves) \in Rows
      /\ After(r, m, leaves).group.current.epoch = r.group.current.epoch + 1
  BY <1>3, <1>4, <1>6, MergeCommitTyped, MergeOwnRemovalTyped
<1> DEFINE b == [r EXCEPT !.secrets = Unprotect(r, m)]
           o0 == [rows |-> {b}, opened |-> {m}]
<1>9. b \in Rows /\ b.group = r.group /\ b.secrets = Unprotect(r, m)
  BY <1>3, <1>6, RowsFacts DEF Rows
<1>10. o0.rows = {b} /\ o0.opened = {m}
  OBVIOUS
<1> HIDE DEF b, o0
<1>11. DeliversIn(r, o0, b)
  <2>1. PICK x \in Rows : DeliversIn(r, o0, x)
    BY <1>3, <1>4, <1>9, <1>10, OpenedDelivers DEF Delivers
  <2>2. x = b
    BY <1>10, <2>1 DEF DeliversIn
  <2> QED  BY <2>1, <2>2
<1>12. CASE Self \in leaves
  <2> DEFINE q == MergeCommit(r, Unprotect(r, m), leaves)
  <2>1. After(r, m, leaves) = q
    BY <1>12
  <2>2. /\ q.secrets.current = FreshSecrets
        /\ q.secrets.past = AddEpoch(b.secrets.past, r.group.current.epoch, b.secrets.current)
    BY <1>9 DEF MergeCommit
  <2>3. SameEpochs(b.secrets.past, r.local.history)
    BY <1>3, <1>4, <1>5, <1>9, UnprotectKeepsEpochs DEF Sound
  <2> HIDE DEF q, After
  <2>4. /\ q \in Rows /\ q.group.current.epoch = r.group.current.epoch + 1
        /\ o.rows = {q} /\ o.opened = o0.opened
        /\ b.group.current = r.group.current /\ b.group.active
    BY <1>5, <1>7, <1>8, <1>9, <1>10, <2>1
  <2>5. Delivers(r, o)
    BY <1>3, <1>5, <1>9, <1>11, <2>2, <2>3, <2>4, MergedDelivers
  <2> QED  BY <1>3, <2>5
<1>13. CASE Self \notin leaves
  <2> DEFINE q == MergeOwnRemoval(r, Unprotect(r, m), leaves)
  <2>1. After(r, m, leaves) = q
    BY <1>13
  <2>2. q.secrets = b.secrets /\ ~q.group.active
    BY <1>9 DEF MergeOwnRemoval
  <2> HIDE DEF q, After
  <2>3. DeliversIn(r, o, q)
    BY <1>5, <1>7, <1>8, <1>11, <2>1, <2>2 DEF DeliversIn
  <2> QED  BY <1>3, <1>8, <2>1, <2>3 DEF Delivers
<1> QED
  BY <1>12, <1>13

-----------------------------------------------------------------------------
(* Messages handed out *)

\* Messages of epochs not reached yet were not handed out.
LaterUnhanded == \A m \in Message : m.epoch >= reached => handed[m] = 0

\* In the epochs still held, the key of a message handed out is gone, and no other
\* key of the window is.
HandedSpent ==
    \A r \in db :
        /\ ProperSecrets(r.secrets)
        /\ r.group.active => \A m \in Message :
            m.epoch <= r.group.current.epoch =>
                \A t \in SecretsFor(r, m.epoch) :
                    /\ handed[m] # 0 => SpentIn(t, m)
                    /\ TakenIn(t, m) => handed[m] # 0

HandedInv == PlaintextOnce /\ LaterUnhanded /\ HandedSpent

\* Applying an outcome counts exactly the messages it opened.
LEMMA HandedAfter ==
    ASSUME TypeOK, NEW o, Apply(o)
    PROVE  /\ \A m \in Message : handed[m] \in Nat
           /\ \A m \in Message : handed'[m] = IF m \in o.opened THEN handed[m] + 1 ELSE handed[m]
  BY CountTyped DEF TypeOK, Apply

\* Operations on rows keep the invariant.
LEMMA DeliversKeepsHandedInv ==
    ASSUME SealInv, HandedInv, NEW r \in db, NEW o, Delivers(r, o), Apply(o)
    PROVE  HandedInv'
<1>1. PICK q \in Rows : DeliversIn(r, o, q)
  BY DEF Delivers
<1>2. /\ r \in Rows /\ r.group.current.epoch \in Nat /\ q.group.current.epoch \in Nat
      /\ r.group.current.epoch + 1 = reached /\ reached \in Nat
  BY OptionFacts, RowsFacts DEF SealInv, TypeOK, InLastEpoch
<1>3. /\ db' = {q} /\ reached <= reached' /\ reached' \in Nat
      /\ q.group.current.epoch <= reached
  <2>1. o.rows = {q}
    BY <1>1 DEF DeliversIn
  <2>2. /\ db' = {q}
        /\ reached' = IF q.group.current.epoch >= reached
                      THEN q.group.current.epoch + 1 ELSE reached
    BY <2>1, ReachedAfter DEF SealInv
  <2>3. q.group.current.epoch <= reached
    BY <1>1, <1>2 DEF DeliversIn
  <2> QED  BY <1>2, <2>2, <2>3
<1>4. /\ \A m \in Message : handed[m] \in Nat
      /\ \A m \in Message : handed'[m] = IF m \in o.opened THEN handed[m] + 1 ELSE handed[m]
  BY HandedAfter DEF SealInv
<1>5. \A m \in Message : m \in o.opened => handed[m] = 0 /\ m.epoch < reached
  <2>1. ASSUME NEW m \in Message, m \in o.opened PROVE handed[m] = 0 /\ m.epoch < reached
    <3>1. /\ r.group.active /\ m.epoch <= r.group.current.epoch
          /\ \E t \in SecretsFor(r, m.epoch) : ~SpentIn(t, m)
      BY <1>1, <2>1 DEF DeliversIn
    <3> QED  BY <1>2, <3>1, MessageFacts DEF HandedInv, HandedSpent
  <2> QED  BY <2>1
<1>6. PlaintextOnce'
  BY <1>4, <1>5 DEF HandedInv, PlaintextOnce
<1>7. LaterUnhanded'
  BY <1>2, <1>3, <1>4, <1>5, MessageFacts DEF HandedInv, LaterUnhanded
<1>8. HandedSpent'
  <2>1. ASSUME q.group.active, NEW m \in Message, m.epoch <= q.group.current.epoch,
               NEW t \in SecretsFor(q, m.epoch)
        PROVE  /\ handed'[m] # 0 => SpentIn(t, m)
               /\ TakenIn(t, m) => handed'[m] # 0
    <3>1. r.group.active
      BY <1>1, <2>1 DEF DeliversIn
    <3>2. CASE m.epoch <= r.group.current.epoch
      <4>1. PICK old \in SecretsFor(r, m.epoch) :
                /\ m \in o.opened \/ SpentIn(old, m) => SpentIn(t, m)
                /\ TakenIn(t, m) => m \in o.opened \/ TakenIn(old, m)
        BY <1>1, <2>1, <3>2 DEF DeliversIn
      <4>2. (handed[m] # 0 => SpentIn(old, m)) /\ (TakenIn(old, m) => handed[m] # 0)
        BY <3>1, <3>2, <4>1 DEF HandedInv, HandedSpent
      <4>3. handed'[m] # 0 <=> m \in o.opened \/ handed[m] # 0
        BY <1>4
      <4> QED  BY <4>1, <4>2, <4>3
    <3>3. CASE ~(m.epoch <= r.group.current.epoch)
      <4>1. m.epoch = reached /\ q.group.current.epoch = reached
        BY <1>2, <1>3, <2>1, <3>3, MessageFacts
      <4>2. handed'[m] = 0
        BY <1>2, <1>4, <1>5, <4>1, MessageFacts DEF HandedInv, LaterUnhanded
      <4>3. t = FreshSecrets
        BY <1>1, <1>2, <2>1, <4>1 DEF DeliversIn, SecretsFor
      <4> QED  BY <4>2, <4>3, FreshUntaken
    <3> QED  BY <3>2, <3>3
  <2>2. ProperSecrets(q.secrets)
    BY <1>1 DEF DeliversIn
  <2> QED  BY <1>3, <2>1, <2>2 DEF HandedSpent
<1> QED
  BY <1>6, <1>7, <1>8 DEF HandedInv

\* Entering a group in an epoch no message was handed out of keeps it.
LEMMA EntersKeepsHandedInv ==
    ASSUME SealInv, HandedInv, NEW current \in Roster, current.epoch >= reached,
           NEW o, o.rows = {NewRows(current)}, o.opened = {}, Apply(o)
    PROVE  HandedInv'
<1> DEFINE q == NewRows(current)
<1>1. /\ q \in Rows /\ q.group.current = current /\ q.group.active
      /\ q.secrets.past = <<>> /\ q.secrets.current = FreshSecrets
  BY NewRowsTyped DEF NewRows
<1>2. o.rows = {q} /\ current.epoch \in Nat /\ reached \in Nat
  BY DEF SealInv, TypeOK, Roster
<1> HIDE DEF q
<1>3. db' = {q} /\ reached' = current.epoch + 1
  BY <1>1, <1>2, ReachedAfter DEF SealInv
<1>4. \A m \in Message : handed'[m] = handed[m]
  BY HandedAfter DEF SealInv
<1>5. PlaintextOnce'
  BY <1>4 DEF HandedInv, PlaintextOnce
<1>6. LaterUnhanded'
  BY <1>2, <1>3, <1>4, MessageFacts DEF HandedInv, LaterUnhanded
<1>7. ASSUME NEW m \in Message, m.epoch <= current.epoch, NEW t \in SecretsFor(q, m.epoch)
      PROVE  /\ handed'[m] # 0 => SpentIn(t, m)
             /\ TakenIn(t, m) => handed'[m] # 0
  <2>1. ~(m.epoch < current.epoch) /\ t = FreshSecrets
    BY <1>1, <1>7 DEF SecretsFor
  <2>2. handed'[m] = 0
    BY <1>2, <1>4, <2>1, MessageFacts DEF HandedInv, LaterUnhanded
  <2> QED  BY <2>1, <2>2, FreshUntaken
<1>8. ProperSecrets(q.secrets)
  BY <1>1, FreshProper DEF ProperSecrets
<1>9. HandedSpent'
  BY <1>1, <1>3, <1>7, <1>8 DEF HandedSpent
<1> QED
  BY <1>5, <1>6, <1>9 DEF HandedInv

\* A deleted group holds no secrets to disagree with.
LEMMA DeleteKeepsHandedInv ==
    ASSUME SealInv, HandedInv, NEW o \in Delete(db), Apply(o)
    PROVE  HandedInv'
<1>1. o.rows = {} /\ o.opened = {}
  BY DEF Delete, Outcome
<1>2. db' = {} /\ reached' = reached
  BY <1>1, ReachedAfterNone
<1>3. \A m \in Message : handed'[m] = handed[m]
  BY <1>1, HandedAfter DEF SealInv
<1> QED
  BY <1>2, <1>3 DEF HandedInv, PlaintextOnce, LaterUnhanded, HandedSpent

\* Nothing was handed out at first.
LEMMA HandedInvInit == Init => HandedInv
  BY DEF Init, HandedInv, PlaintextOnce, LaterUnhanded, HandedSpent

\* Every operation delivers, enters an epoch not reached before, or deletes.
LEMMA HandedInvStep == SealInv /\ LoadInv /\ HandedInv /\ [Next]_vars => HandedInv'
<1> SUFFICES ASSUME SealInv, LoadInv, HandedInv, [Next]_vars PROVE HandedInv'
  OBVIOUS
<1>0. db \in Option(Rows) /\ Readable(db)
  BY DEF SealInv, TypeOK, LoadInv, HandedInv, HandedSpent, Readable
<1>1. ASSUME NEW k \in KeyPackage, CreateKeyPackage(k) PROVE HandedInv'
  BY <1>1 DEF CreateKeyPackage, HandedInv, PlaintextOnce, LaterUnhanded, HandedSpent
<1>2. CASE CreateGroup
  <2> DEFINE current == [epoch |-> 0, leaves |-> {Self}]
  <2>1. PICK o \in Create : Apply(o)
    BY <1>2 DEF CreateGroup
  <2>2. current \in Roster /\ current.epoch = 0
    BY DEF Roster, Leaf
  <2>3. o.rows = {NewRows(current)} /\ o.opened = {}
    BY DEF Create, Outcome
  <2>4. current.epoch >= reached
    BY <1>2, <2>2 DEF CreateGroup
  <2> HIDE DEF current
  <2> QED  BY <2>1, <2>2, <2>3, <2>4, EntersKeepsHandedInv
<1>3. CASE JoinGroup
  <2>1. PICK o \in Join(keyPackages) :
            /\ \A w \in o.joined : w.epoch >= reached \/ w \in joined
            /\ Apply(o)
    BY <1>3 DEF JoinGroup
  <2>2. PICK w \in Welcome :
            /\ keyPackages[w.keyPackage] = "stored"
            /\ o = Outcome({NewRows([epoch |-> w.epoch, leaves |-> w.leaves])}, {}, {}, {w})
    BY DEF Join
  <2> DEFINE current == [epoch |-> w.epoch, leaves |-> w.leaves]
  <2>3. current \in Roster /\ current.epoch = w.epoch
    BY WelcomeAssumption, BoundAssumption DEF Roster, WelcomeType
  <2>4. o.rows = {NewRows(current)} /\ o.opened = {} /\ o.joined = {w}
    BY <2>2 DEF Outcome
  <2>5. w \notin joined
    BY <2>2 DEF SealInv, JoinedConsumed
  <2>6. current.epoch >= reached
    BY <2>1, <2>3, <2>4, <2>5
  <2> HIDE DEF current
  <2> QED  BY <2>1, <2>3, <2>4, <2>6, EntersKeepsHandedInv
<1>4. CASE SendMessage
  BY <1>0, <1>4, SendDelivers, DeliversKeepsHandedInv DEF SendMessage
<1>5. CASE PrepareCommit
  BY <1>0, <1>5, PrepareDelivers, DeliversKeepsHandedInv DEF PrepareCommit
<1>6. CASE MergePending
  BY <1>0, <1>6, MergeDelivers, DeliversKeepsHandedInv DEF MergePending
<1>7. CASE DiscardPending
  BY <1>0, <1>7, DiscardDelivers, DeliversKeepsHandedInv DEF DiscardPending
<1>8. CASE ProcessApplication
  BY <1>0, <1>8, ReceiveApplicationDelivers, DeliversKeepsHandedInv DEF ProcessApplication
<1>9. CASE ProcessProposal
  BY <1>0, <1>9, ReceiveProposalDelivers, DeliversKeepsHandedInv DEF ProcessProposal
<1>10. CASE ProcessCommit
  BY <1>0, <1>10, ReceiveCommitDelivers, DeliversKeepsHandedInv DEF ProcessCommit
<1>11. CASE ProcessExternal
  BY <1>0, <1>11, ReceiveExternalDelivers, DeliversKeepsHandedInv DEF ProcessExternal
<1>12. CASE DeleteGroup
  BY <1>12, DeleteKeepsHandedInv DEF DeleteGroup
<1>13. CASE UNCHANGED vars
  BY <1>13 DEF vars, HandedInv, PlaintextOnce, LaterUnhanded, HandedSpent
<1> QED
  BY <1>1, <1>2, <1>3, <1>4, <1>5, <1>6, <1>7, <1>8, <1>9, <1>10, <1>11, <1>12, <1>13
     DEF Next

\* The inductive invariant of delivery.
THEOREM HandedInvariance == Spec => []HandedInv
<1> QED
  BY SealInvariance, LoadInvariance, HandedInvInit, HandedInvStep, PTL DEF Spec

\* receive_inner and the secret tree never hand a ciphertext's plaintext out
\* twice: not after a merge or a discard, not from an epoch filed away, and not
\* after the group was deleted and joined again.
THEOREM NoPlaintextTwice == Spec => []PlaintextOnce
<1>1. HandedInv => PlaintextOnce
  BY DEF HandedInv
<1> QED
  BY <1>1, HandedInvariance, PTL

-----------------------------------------------------------------------------
(* What the caller is told *)

\* An epoch whose roster is retained is one whose secrets are, and one only.
LEMMA SecretsRetained ==
    ASSUME NEW r \in Rows, Sound(r), r.group.active, NEW k \in Nat
    PROVE  /\ MessageRoster(r.local, k) # {} =>
                k <= r.group.current.epoch /\ SecretsFor(r, k) # {}
           /\ k <= r.group.current.epoch =>
                \A x, y \in SecretsFor(r, k) : x = y
<1> DEFINE e == r.group.current.epoch
           h == r.local.history
<1>1. /\ ValidLocal(r.local) /\ r.local.current.epoch = e /\ e \in Nat
      /\ h \in Seq(Roster) /\ Len(h) \in Nat /\ SameEpochs(r.secrets.past, h)
  BY RowsFacts DEF Sound, Loadable, LocalState
<1>2. \A i \in 1 .. Len(h) : h[i].epoch = e - Len(h) + i - 1
  BY <1>1 DEF ValidLocal
<1>3. /\ Len(r.secrets.past) = Len(h)
      /\ \A i \in 1 .. Len(h) : r.secrets.past[i].epoch = h[i].epoch
  BY <1>1 DEF SameEpochs
<1> HIDE DEF h, e
<1>4. ASSUME MessageRoster(r.local, k) # {}
      PROVE  k <= e /\ SecretsFor(r, k) # {}
  <2>1. CASE k = e
    <3>1. ~(k < e) /\ k <= e
      BY <1>1, <2>1
    <3>2. SecretsFor(r, k) = {r.secrets.current}
      BY <3>1 DEF SecretsFor, e
    <3> QED  BY <3>1, <3>2
  <2>2. CASE k # e
    <3>1. PICK i \in 1 .. Len(h) : h[i].epoch = k
      BY <1>1, <1>4, <2>2 DEF MessageRoster, h
    <3>2. k < e
      BY <1>1, <1>2, <3>1
    <3>3. r.secrets.past[i].epoch = k /\ i \in 1 .. Len(r.secrets.past)
      BY <1>3, <3>1
    <3>4. r.secrets.past[i].tree \in SecretsFor(r, k)
      BY <3>2, <3>3 DEF SecretsFor, e
    <3> QED  BY <1>1, <3>2, <3>4
  <2> QED  BY <2>1, <2>2
<1>5. ASSUME k <= e, NEW x \in SecretsFor(r, k), NEW y \in SecretsFor(r, k)
      PROVE  x = y
  <2>1. CASE k < e
    <3>1. PICK i \in 1 .. Len(h) : h[i].epoch = k /\ x = r.secrets.past[i].tree
      BY <1>3, <1>5, <2>1 DEF SecretsFor, e
    <3>2. PICK j \in 1 .. Len(h) : h[j].epoch = k /\ y = r.secrets.past[j].tree
      BY <1>3, <1>5, <2>1 DEF SecretsFor, e
    <3>3. i = j
      BY <1>1, <1>2, <3>1, <3>2
    <3> QED  BY <3>1, <3>2, <3>3
  <2>2. CASE ~(k < e)
    BY <1>5, <2>2 DEF SecretsFor, e
  <2> QED  BY <2>1, <2>2
<1> QED
  BY <1>4, <1>5 DEF e

\* What the secret tree says of a message, from the window of its sender.
LEMMA RatchetAnswers ==
    ASSUME NEW r \in Rows, Sound(r), ProperSecrets(r.secrets), r.group.active,
           NEW m \in Message, MessageRoster(r.local, m.epoch) # {}
    PROVE  \E t \in SecretsFor(r, m.epoch) :
              LET w == t.window[m.ratchet][m.from]
              IN  /\ w \in Window
                  /\ RatchetError(r, m) = "Ok" <=> WindowError(w, m.gen) = "Ok"
                  /\ RatchetError(r, m) = "Replay" =>
                        WindowError(w, m.gen) = "SecretReuseError"
                  /\ RatchetError(r, m) = "GenerationTooOld" =>
                        WindowError(w, m.gen) = "TooDistantInThePast"
<1> DEFINE t == The(SecretsFor(r, m.epoch))
           w == t.window[m.ratchet][m.from]
<1>1. SecretsFor(r, m.epoch) # {}
  BY SecretsRetained, MessageFacts
<1>2. t \in SecretsFor(r, m.epoch)
  BY <1>1 DEF The
<1>3. w \in Window
  BY <1>2, SecretsForTyped, MessageFacts DEF EpochSecrets
<1>4. WindowError(w, m.gen) \in {"TooDistantInTheFuture", "TooDistantInThePast",
                                 "SecretReuseError", "Ok"}
  BY DEF WindowError
<1>5. RatchetError(r, m) =
        CASE WindowError(w, m.gen) = "TooDistantInThePast" -> "GenerationTooOld"
          [] WindowError(w, m.gen) = "TooDistantInTheFuture" -> "ForwardDistanceExceeded"
          [] WindowError(w, m.gen) = "SecretReuseError" -> "Replay"
          [] WindowError(w, m.gen) = "Ok" -> "Ok"
  BY <1>1 DEF RatchetError
<1> HIDE DEF t, w
<1>6. /\ RatchetError(r, m) = "Ok" <=> WindowError(w, m.gen) = "Ok"
      /\ RatchetError(r, m) = "Replay" => WindowError(w, m.gen) = "SecretReuseError"
      /\ RatchetError(r, m) = "GenerationTooOld" =>
            WindowError(w, m.gen) = "TooDistantInThePast"
  BY <1>4, <1>5
<1> QED
  BY <1>2, <1>3, <1>6 DEF w

\* The errors of the ratchet are only given of an authorised message.
LEMMA RatchetErrorGiven ==
    ASSUME NEW r, NEW m, ReceiveError(r, m) \in {"Ok", "Replay", "GenerationTooOld"}
    PROVE  /\ r.group.active /\ MessageRoster(r.local, m.epoch) # {}
           /\ ReceiveError(r, m) = RatchetError(r, m)
  BY DEF ReceiveError

\* While a message is in reach it is opened if and only if it was not handed out.
THEOREM OpensExactlyOnce == Spec => []DeliverableExactlyOnce
<1>1. SealInv /\ LoadInv /\ HandedInv => DeliverableExactlyOnce
  <2> SUFFICES ASSUME SealInv, LoadInv, HandedInv, NEW r \in db, NEW m \in Message,
                      InReach(r, m)
               PROVE  ReceiveError(r, m) = "Ok" <=> handed[m] = 0
    BY DEF DeliverableExactlyOnce
  <2>1. /\ r \in Rows /\ Sound(r) /\ ProperSecrets(r.secrets) /\ Loadable(r)
        /\ r.group.active /\ m.ratchet = "application" /\ m.gen \in Nat /\ m.epoch \in Nat
        /\ MessageRoster(r.local, m.epoch) # {} /\ r.local.current = r.group.current
    BY OptionFacts, MessageFacts
       DEF SealInv, TypeOK, LoadInv, HandedInv, HandedSpent, InReach, Sound, Loadable
  <2>2. m.epoch <= r.group.current.epoch /\ r.group.current.epoch \in Nat
    BY <2>1, SecretsRetained, RowsFacts
  <2>3. ReceiveError(r, m) = RatchetError(r, m)
    BY <2>1, <2>2 DEF ReceiveError, InReach
  <2>4. PICK t \in SecretsFor(r, m.epoch) :
            /\ t.window[m.ratchet][m.from] \in Window
            /\ RatchetError(r, m) = "Ok" <=>
                    WindowError(t.window[m.ratchet][m.from], m.gen) = "Ok"
    BY <2>1, RatchetAnswers
  <2>5. WindowError(t.window[m.ratchet][m.from], m.gen) = "Ok" <=> ~SpentIn(t, m)
    <3> DEFINE w == t.window[m.ratchet][m.from]
    <3>1. m.gen <= w.head + Forward /\ ~BehindWindow(w, m.gen)
      BY <2>4 DEF InReach
    <3>2. w.head + Forward \in Nat
      BY <2>4, ForwardAssumption DEF Window
    <3> HIDE DEF w
    <3>3. WindowError(w, m.gen) = "Ok" <=> ~Spent(w, m.gen)
      BY <2>1, <3>1, <3>2 DEF WindowError, Spent
    <3> QED  BY <3>3 DEF SpentIn, w
  <2>6. SpentIn(t, m) => TakenIn(t, m)
    BY <2>4 DEF InReach, SpentIn, TakenIn, Taken
  <2>7. (handed[m] # 0 => SpentIn(t, m)) /\ (TakenIn(t, m) => handed[m] # 0)
    BY <2>1, <2>2, <2>4 DEF HandedInv, HandedSpent
  <2> QED  BY <2>3, <2>4, <2>5, <2>6, <2>7
<1> QED
  BY <1>1, SealInvariance, LoadInvariance, HandedInvariance, PTL

\* receive_inner says Replay of messages handed out only, and GenerationTooOld of
\* those behind a window it still has.
THEOREM ErrorsAreTruthful == Spec => []ErrorsTruthful
<1>1. SealInv /\ LoadInv /\ HandedInv => ErrorsTruthful
  <2> SUFFICES ASSUME SealInv, LoadInv, HandedInv, NEW r \in db, NEW m \in Message
               PROVE  /\ ReceiveError(r, m) = "Replay" => handed[m] = 1
                      /\ ReceiveError(r, m) = "GenerationTooOld" =>
                            \E t \in SecretsFor(r, m.epoch) :
                                BehindWindow(t.window[m.ratchet][m.from], m.gen)
    BY DEF ErrorsTruthful
  <2>1. /\ r \in Rows /\ Sound(r) /\ ProperSecrets(r.secrets)
        /\ m.gen \in Nat /\ m.epoch \in Nat /\ handed[m] \in Nat /\ handed[m] <= 1
    BY OptionFacts, MessageFacts
       DEF SealInv, TypeOK, LoadInv, HandedInv, HandedSpent, PlaintextOnce
  <2>2. CASE ReceiveError(r, m) \in {"Replay", "GenerationTooOld"}
    <3>1. /\ r.group.active /\ MessageRoster(r.local, m.epoch) # {}
          /\ ReceiveError(r, m) = RatchetError(r, m)
      BY <2>2, RatchetErrorGiven
    <3>2. PICK t \in SecretsFor(r, m.epoch) :
              LET w == t.window[m.ratchet][m.from]
              IN  /\ w \in Window
                  /\ RatchetError(r, m) = "Replay" =>
                        WindowError(w, m.gen) = "SecretReuseError"
                  /\ RatchetError(r, m) = "GenerationTooOld" =>
                        WindowError(w, m.gen) = "TooDistantInThePast"
      BY <2>1, <3>1, RatchetAnswers
    <3> DEFINE w == t.window[m.ratchet][m.from]
    <3>3. ASSUME ReceiveError(r, m) = "GenerationTooOld" PROVE BehindWindow(w, m.gen)
      <4>1. WindowError(w, m.gen) = "TooDistantInThePast"
        BY <3>1, <3>2, <3>3
      <4> HIDE DEF w
      <4> QED  BY <4>1 DEF WindowError
    <3>4. ASSUME ReceiveError(r, m) = "Replay" PROVE handed[m] = 1
      <4>1. WindowError(w, m.gen) = "SecretReuseError"
        BY <3>1, <3>2, <3>4
      <4> HIDE DEF w
      <4>2. Taken(w, m.gen)
        BY <4>1 DEF WindowError, Taken, Spent
      <4>3. TakenIn(t, m)
        BY <4>2 DEF TakenIn, w
      <4>4. m.epoch <= r.group.current.epoch
        BY <2>1, <3>1, SecretsRetained
      <4>5. handed[m] # 0
        BY <3>1, <4>3, <4>4 DEF HandedInv, HandedSpent
      <4> QED  BY <2>1, <4>5
    <3> QED  BY <3>3, <3>4
  <2> QED  BY <2>2
<1> QED
  BY <1>1, SealInvariance, LoadInvariance, HandedInvariance, PTL

-----------------------------------------------------------------------------
(* Ratchets never go back *)

\* RatchetsNeverRewind, of one pair of rows.
ForwardsFrom(r, q) ==
    /\ q.group.current.epoch - r.group.current.epoch \in {0, 1}
    /\ \A e \in 0 .. r.group.current.epoch :
        \A old \in SecretsFor(r, e) : \A new \in SecretsFor(q, e) :
            q.group.active => NotRewound(old, new)

\* What delivers rewinds nothing.
LEMMA DeliversForwards ==
    ASSUME NEW r \in Rows, Sound(r), NEW o, Delivers(r, o), NEW q \in o.rows
    PROVE  ForwardsFrom(r, q)
<1>1. DeliversIn(r, o, q)
  BY DEF Delivers, DeliversIn
<1>2. q.group.current.epoch - r.group.current.epoch \in {0, 1}
  BY <1>1, RowsFacts DEF DeliversIn
<1>3. ASSUME NEW e \in 0 .. r.group.current.epoch, q.group.active,
             NEW old \in SecretsFor(r, e), NEW new \in SecretsFor(q, e)
      PROVE  NotRewound(old, new)
  <2>1. e \in Nat /\ e <= r.group.current.epoch
    BY <1>3, RowsFacts
  <2>2. PICK x \in SecretsFor(r, e) : NotRewound(x, new)
    BY <1>1, <1>3, <2>1 DEF DeliversIn
  <2>3. r.group.active
    BY <1>1, <1>3 DEF DeliversIn
  <2>4. x = old
    BY <1>3, <2>1, <2>3, SecretsRetained
  <2> QED  BY <2>2, <2>4
<1> QED
  BY <1>2, <1>3 DEF ForwardsFrom

\* Rows left alone are not rewound.
LEMMA SameForwards ==
    ASSUME NEW r \in Rows, Sound(r), ProperSecrets(r.secrets)
    PROVE  ForwardsFrom(r, r)
<1>1. r.group.current.epoch - r.group.current.epoch \in {0, 1}
  BY RowsFacts
<1>2. ASSUME NEW e \in 0 .. r.group.current.epoch, r.group.active,
             NEW old \in SecretsFor(r, e), NEW new \in SecretsFor(r, e)
      PROVE  NotRewound(old, new)
  <2>1. e \in Nat /\ e <= r.group.current.epoch
    BY <1>2, RowsFacts
  <2>2. old = new
    BY <1>2, <2>1, SecretsRetained
  <2>3. old \in EpochSecrets
    BY <1>2, SecretsForTyped
  <2>4. \A k \in RatchetKind : old.sent[k] <= old.sent[k]
    BY <2>3 DEF EpochSecrets
  <2> QED  BY <2>2, <2>3, <2>4, NotRewoundSame
<1> QED
  BY <1>1, <1>2 DEF ForwardsFrom

\* No step rewinds the rows it leaves.
LEMMA StepForwards ==
    ASSUME SealInv, LoadInv, HandedInv, Next, NEW r \in db, NEW q \in db'
    PROVE  ForwardsFrom(r, q)
<1>0. /\ db \in Option(Rows) /\ Readable(db) /\ r \in Rows /\ Sound(r)
      /\ ProperSecrets(r.secrets)
  BY OptionFacts DEF SealInv, TypeOK, LoadInv, HandedInv, HandedSpent, Readable
<1>a. ASSUME NEW o, Apply(o), \E x \in db : Delivers(x, o) PROVE ForwardsFrom(r, q)
  <2>1. Delivers(r, o)
    BY <1>0, <1>a, OptionFacts
  <2>2. q \in o.rows
    BY <1>a DEF Apply
  <2> QED  BY <1>0, <2>1, <2>2, DeliversForwards
<1>1. ASSUME NEW k \in KeyPackage, CreateKeyPackage(k) PROVE ForwardsFrom(r, q)
  <2>1. q = r
    BY <1>0, <1>1, OptionFacts DEF CreateKeyPackage
  <2> QED  BY <1>0, <2>1, SameForwards
<1>2. CASE CreateGroup
  BY <1>2 DEF CreateGroup
<1>3. CASE JoinGroup
  BY <1>3 DEF JoinGroup
<1>4. CASE SendMessage
  BY <1>0, <1>a, <1>4, SendDelivers DEF SendMessage
<1>5. CASE PrepareCommit
  BY <1>0, <1>a, <1>5, PrepareDelivers DEF PrepareCommit
<1>6. CASE MergePending
  BY <1>0, <1>a, <1>6, MergeDelivers DEF MergePending
<1>7. CASE DiscardPending
  BY <1>0, <1>a, <1>7, DiscardDelivers DEF DiscardPending
<1>8. CASE ProcessApplication
  BY <1>0, <1>a, <1>8, ReceiveApplicationDelivers DEF ProcessApplication
<1>9. CASE ProcessProposal
  BY <1>0, <1>a, <1>9, ReceiveProposalDelivers DEF ProcessProposal
<1>10. CASE ProcessCommit
  BY <1>0, <1>a, <1>10, ReceiveCommitDelivers DEF ProcessCommit
<1>11. CASE ProcessExternal
  BY <1>0, <1>a, <1>11, ReceiveExternalDelivers DEF ProcessExternal
<1>12. CASE DeleteGroup
  BY <1>12, DeleteLeaves DEF DeleteGroup, Apply
<1> QED
  BY <1>1, <1>2, <1>3, <1>4, <1>5, <1>6, <1>7, <1>8, <1>9, <1>10, <1>11, <1>12 DEF Next

\* The epoch of a group never goes back or skips, and no operation, discarding or
\* superseding a pending Commit included, rewinds a ratchet of an epoch it keeps.
THEOREM NoRatchetRewinds == Spec => RatchetsNeverRewind
<1> DEFINE NeverBack == \A r \in db : \A q \in db' :
        /\ q.group.current.epoch - r.group.current.epoch \in {0, 1}
        /\ \A e \in 0 .. r.group.current.epoch :
            \A old \in SecretsFor(r, e) : \A new \in SecretsFor(q, e) :
                q.group.active => NotRewound(old, new)
<1>1. SealInv /\ LoadInv /\ HandedInv /\ [Next]_vars => [NeverBack]_vars
  <2> SUFFICES ASSUME SealInv, LoadInv, HandedInv, Next PROVE NeverBack
    OBVIOUS
  <2>1. \A r \in db : \A q \in db' : ForwardsFrom(r, q)
    BY StepForwards
  <2> QED  BY <2>1 DEF ForwardsFrom
<1>2. RatchetsNeverRewind <=> [][NeverBack]_vars
  BY DEF RatchetsNeverRewind
<1> HIDE DEF NeverBack
<1> QED
  BY <1>1, <1>2, SealInvariance, LoadInvariance, HandedInvariance, PTL DEF Spec


-----------------------------------------------------------------------------
(* Installation: the inductive invariant of its workers *)

\* The outcomes of the calls that compare a digest.
Contextual(rows) ==
    UNION {Send(rows), Prepare(rows), Merge(rows), Discard(rows), ReceiveApplication(rows),
           ReceiveProposal(rows), ReceiveCommit(rows), ReceiveExternal(rows)}

\* Rows read in an earlier life of the group are of an earlier epoch than those of
\* any later one.
ReadOfLife(b) ==
    /\ b.lifecycle \in Nat /\ b.lifecycle <= lifecycle
    /\ \A q \in b.rows :
        /\ q \in Rows
        /\ q.group.current.epoch < reached
        /\ b.lifecycle # lifecycle =>
            \A r \in db : q.group.current.epoch < r.group.current.epoch

\* Within the life of the group in which it was read, a KeyPackage stays stored
\* as long as the group has no rows.
StoredKept(b) ==
    (b.lifecycle = lifecycle /\ db = {}) =>
        \A k \in KeyPackage : b.stored[k] = "stored" => keyPackages[k] = "stored"

\* A batch that changes rows was computed on the rows of its digest.
ChangesItsRows(b) == b.digest = b.rows /\ b.outcome \in Contextual(b.rows)

\* A batch that enters the group can be stored only while it still may be entered.
EntersItsLife(b) ==
    /\ b.digest = {}
    /\ b.lifecycle = lifecycle =>
        /\ db = {}
        /\ \/ reached = 0 /\ b.outcome \in Create
           \/ /\ b.outcome \in Join(keyPackages)
              /\ \A w \in b.outcome.joined : w.epoch >= reached \/ w \in joined

BatchAllowed(b) ==
    ChangesItsRows(b) \/ EntersItsLife(b) \/ b.outcome \in Delete(b.rows)

WorkInv(b) ==
    /\ b.at \in {"read", "batch"} => ReadOfLife(b)
    /\ b.at = "read" => StoredKept(b)
    /\ b.at = "batch" => BatchAllowed(b)

InstInv ==
    /\ SealInv
    /\ lifecycle \in Nat
    /\ DOMAIN work = Worker
    /\ \A w \in Worker : WorkInv(work[w])

-----------------------------------------------------------------------------
(* What the calls return, and what storing it does *)

\* An outcome of such a call has rows, and so had its snapshot.
LEMMA ContextualRows ==
    ASSUME NEW rows \in Option(Rows), NEW o \in Contextual(rows)
    PROVE  rows # {} /\ \E q \in Rows : o.rows = {q}
<1>1. \E r \in rows : Stays(r, o) \/ Advances(r, o)
  BY SendStays, PrepareStays, DiscardStays, MergeAdvances, ReceiveApplicationStays,
     ReceiveProposalStays, ReceiveCommitAdvances, ReceiveExternalAdvances DEF Contextual
<1> QED
  BY <1>1 DEF Stays, StaysIn, Advances

\* Such an outcome of the group's rows is a step of GroupLifecycle.
LEMMA ContextualSteps ==
    ASSUME NEW o \in Contextual(db), Apply(o)
    PROVE  Next
BY DEF Contextual, Next, SendMessage, PrepareCommit, MergePending, DiscardPending,
       ProcessApplication, ProcessProposal, ProcessCommit, ProcessExternal

\* Writing the rows a call changed over the rows it was given is writing them all.
LEMMA BatchOnItsBase ==
    ASSUME NEW rows \in Option(Rows), NEW q \in Rows
    PROVE  BatchApplied(rows, rows, {q}) = {q}
<1>1. CASE rows = {}
  BY <1>1 DEF BatchApplied
<1>2. CASE rows # {}
  <2> DEFINE to == The({q})
             from == The(rows)
             merged == [f \in {"group", "secrets", "local", "retry"} |->
                          IF to[f] = from[f] THEN from[f] ELSE to[f]]
  <2>1. to = q
    BY SomeTyped
  <2>2. BatchApplied(rows, rows, {q}) = {merged}
    BY <1>2 DEF BatchApplied
  <2>3. merged = [f \in {"group", "secrets", "local", "retry"} |-> to[f]]
    OBVIOUS
  <2>4. q = [f \in {"group", "secrets", "local", "retry"} |-> q[f]]
    BY DEF Rows
  <2> QED
    BY <2>1, <2>2, <2>3, <2>4
<1> QED
  BY <1>1, <1>2

\* A record of the four parts of an outcome.
IsOutcome(o) == \E a, b, c, d : o = Outcome(a, b, c, d)

\* Every call returns a record made by Outcome.
LEMMA CallsReturnOutcomes ==
    ASSUME NEW rows, NEW stored,
           NEW o \in UNION {Contextual(rows), Create, Join(stored), Delete(rows)}
    PROVE  IsOutcome(o)
<1>1. CASE o \in Send(rows) \/ o \in Discard(rows)
  BY <1>1 DEF Send, Discard, IsOutcome
<1>2. CASE o \in Prepare(rows)
  <2>1. \E r \in Load(rows), leaves \in LeafSets :
          o = Outcome({WithPending(r, StagedCommit(r, leaves))}, {},
                      {[ratchet |-> "handshake", epoch |-> r.group.current.epoch,
                        gen |-> r.secrets.current.sent["handshake"]]}, {})
    BY <1>2 DEF Prepare
  <2> QED
    BY <2>1 DEF IsOutcome
<1>3. CASE o \in Merge(rows)
  <2>1. \E r \in Load(rows) : \E p \in r.local.pending :
          o = Outcome({[MergeCommit(r, r.secrets, p.upstream.leaves) EXCEPT !.retry = {}]},
                      {}, {}, {})
    BY <1>3 DEF Merge
  <2> QED
    BY <2>1 DEF IsOutcome
<1>4. CASE o \in ReceiveApplication(rows) \/ o \in ReceiveProposal(rows)
  BY <1>4 DEF ReceiveApplication, ReceiveProposal, IsOutcome
<1>5. CASE o \in ReceiveCommit(rows)
  <2> DEFINE After(r, m, leaves) == IF Self \in leaves
                                    THEN MergeCommit(r, Unprotect(r, m), leaves)
                                    ELSE MergeOwnRemoval(r, Unprotect(r, m), leaves)
             OfMessage(r, m) == {Outcome({After(r, m, leaves)}, {m}, {}, {}) :
                                     leaves \in {l \in LeafSets : m.from \in l}}
             OfRows(r) == UNION {OfMessage(r, m) : m \in Openable(r, "handshake")}
  <2>1. o \in UNION {OfRows(r) : r \in {q \in Load(rows) : q.group.current.epoch < MaxEpoch}}
    BY <1>5, Zenon DEF ReceiveCommit
  <2>2. PICK r \in Load(rows) : o \in OfRows(r)
    <3> HIDE DEF OfRows
    <3> QED  BY <2>1
  <2>3. PICK m \in Openable(r, "handshake") : o \in OfMessage(r, m)
    <3> HIDE DEF OfMessage
    <3> QED  BY <2>2
  <2> QED
    BY <2>3 DEF IsOutcome
<1>6. CASE o \in ReceiveExternal(rows)
  <2>1. \E r \in Load(rows) : \E d \in (r.group.current.leaves \ {Self}) \X Peer :
          o = Outcome({MergeCommit(WithoutPending(r), r.secrets,
                                   (r.group.current.leaves \ {d[1]}) \cup {d[2]})},
                      {}, {}, {})
    BY <1>6 DEF ReceiveExternal
  <2> QED
    BY <2>1 DEF IsOutcome
<1>7. CASE o \in Create \/ o \in Join(stored) \/ o \in Delete(rows)
  BY <1>7 DEF Create, Join, Delete, IsOutcome
<1> QED
  BY <1>1, <1>2, <1>3, <1>4, <1>5, <1>6, <1>7 DEF Contextual

\* Such a record is the same after its own rows are put into it again.
LEMMA SameRowsSameOutcome ==
    ASSUME NEW o, IsOutcome(o), NEW rows, rows = o.rows
    PROVE  [o EXCEPT !.rows = rows] = o
<1>1. PICK a, b, c, d : o = Outcome(a, b, c, d)
  BY DEF IsOutcome
<1> QED
  BY <1>1 DEF Outcome

\* What a step of GroupLifecycle does to the epochs, and to the KeyPackages of an
\* installation that may yet join.
LifeGoesOn ==
    /\ reached' \in Nat /\ reached' >= reached
    /\ db = {} /\ db' # {} => reached' > reached
    /\ db = {} /\ db' = {} =>
        /\ reached' = reached /\ joined' = joined
        /\ \A k \in KeyPackage : keyPackages[k] = "stored" => keyPackages'[k] = "stored"

\* create and join lead to an epoch after all those passed.
LEMMA EnteringGoesOn ==
    ASSUME SealInv, NEW o, NEW q \in Rows, o.rows = {q}, q.group.current.epoch >= reached,
           Apply(o)
    PROVE  LifeGoesOn
<1>1. q.group.current.epoch \in Nat /\ reached \in Nat /\ TypeOK
  BY RowsFacts DEF SealInv, TypeOK
<1>2. db' = {q} /\ reached' = q.group.current.epoch + 1
  BY <1>1, ReachedAfter
<1> QED
  BY <1>1, <1>2 DEF LifeGoesOn

\* Calls that compare a digest never lead back.
LEMMA ChangingGoesOn ==
    ASSUME SealInv, NEW r \in db, NEW o, Stays(r, o) \/ Advances(r, o), Apply(o)
    PROVE  LifeGoesOn
<1>1. PICK q \in Rows : o.rows = {q}
  BY DEF Stays, StaysIn, Advances
<1>2. q.group.current.epoch \in Nat /\ reached \in Nat /\ TypeOK
  BY RowsFacts DEF SealInv, TypeOK
<1>3. reached' >= reached /\ reached' \in Nat
  BY <1>1, <1>2, ReachedAfter
<1> QED
  BY <1>3 DEF LifeGoesOn

\* No step leads back, and none but a join consumes a stored KeyPackage.
LEMMA StepGoesOn ==
    ASSUME SealInv, [Next]_vars
    PROVE  LifeGoesOn
<1>0. db \in Option(Rows) /\ TypeOK /\ reached \in Nat
  BY DEF SealInv, TypeOK
<1>1. ASSUME NEW k \in KeyPackage, CreateKeyPackage(k) PROVE LifeGoesOn
  BY <1>0, <1>1 DEF CreateKeyPackage, LifeGoesOn, TypeOK
<1>2. CASE CreateGroup
  <2>1. PICK o \in Create : Apply(o)
    BY <1>2 DEF CreateGroup
  <2>2. PICK q \in Rows : o.rows = {q} /\ q.group.current.epoch = 0
    BY CreateEnters DEF Enters
  <2>3. q.group.current.epoch >= reached
    BY <1>2, <2>2 DEF CreateGroup
  <2> QED
    BY <2>1, <2>2, <2>3, EnteringGoesOn
<1>3. CASE JoinGroup
  <2>1. PICK o \in Join(keyPackages) :
            /\ \A w \in o.joined : w.epoch >= reached \/ w \in joined
            /\ Apply(o)
    BY <1>3 DEF JoinGroup
  <2>2. PICK w \in Welcome :
            /\ keyPackages[w.keyPackage] = "stored"
            /\ o.joined = {w}
            /\ Enters(w.epoch, o)
    BY JoinEnters
  <2>3. w.epoch >= reached
    BY <2>1, <2>2 DEF SealInv, JoinedConsumed
  <2>4. PICK q \in Rows : o.rows = {q} /\ q.group.current.epoch = w.epoch
    BY <2>2 DEF Enters
  <2> QED
    BY <2>1, <2>3, <2>4, EnteringGoesOn
<1>4. ASSUME NEW o \in Contextual(db), Apply(o) PROVE LifeGoesOn
  <2>1. \E r \in db : Stays(r, o) \/ Advances(r, o)
    BY <1>0, SendStays, PrepareStays, DiscardStays, MergeAdvances, ReceiveApplicationStays,
       ReceiveProposalStays, ReceiveCommitAdvances, ReceiveExternalAdvances DEF Contextual
  <2> QED
    BY <1>4, <2>1, ChangingGoesOn
<1>5. CASE DeleteGroup
  <2>1. PICK o \in Delete(db) : Apply(o)
    BY <1>5 DEF DeleteGroup
  <2>2. o.rows = {} /\ db # {}
    BY DeleteLeaves DEF Delete
  <2> QED
    BY <1>0, <2>1, <2>2, ReachedAfterNone DEF LifeGoesOn
<1>6. CASE UNCHANGED vars
  BY <1>0, <1>6 DEF vars, LifeGoesOn
<1>7. ASSUME \/ SendMessage \/ PrepareCommit \/ MergePending \/ DiscardPending
             \/ ProcessApplication \/ ProcessProposal \/ ProcessCommit \/ ProcessExternal
      PROVE  \E o \in Contextual(db) : Apply(o)
  BY <1>7 DEF Contextual, SendMessage, PrepareCommit, MergePending, DiscardPending,
       ProcessApplication, ProcessProposal, ProcessCommit, ProcessExternal
<1> QED
  BY <1>1, <1>2, <1>3, <1>4, <1>5, <1>6, <1>7 DEF Next

-----------------------------------------------------------------------------
(* Every step of an installation is a step of GroupLifecycle or a stutter *)

\* Storing an outcome without rows where there are none changes nothing.
LEMMA NothingToDelete ==
    ASSUME TypeOK, db = {}, NEW o, o.rows = {}, o.opened = {}, o.sealed = {}, o.joined = {},
           Apply(o)
    PROVE  UNCHANGED vars
<1>1. /\ handed \in [Message -> Nat] /\ handed' \in [Message -> Nat]
      /\ \A m \in Message : handed'[m] = handed[m]
  BY CountTyped DEF TypeOK, Apply
<1>2. /\ sealed \in [SealKey -> Nat] /\ sealed' \in [SealKey -> Nat]
      /\ \A k \in SealKey : sealed'[k] = sealed[k]
  BY CountTyped DEF TypeOK, Apply
<1>3. handed' = handed /\ sealed' = sealed
  BY <1>1, <1>2
<1>4. keyPackages' = keyPackages
  BY DEF TypeOK, Apply
<1>5. db' = db /\ joined' = joined /\ reached' = reached
  BY DEF Apply
<1> QED
  BY <1>3, <1>4, <1>5 DEF vars

\* The batch of any call is stored only where the call itself could have been made.
LEMMA StoreSteps ==
    ASSUME InstInv, NEW w \in Worker, Store(w)
    PROVE  [Next]_vars
<1> DEFINE b == work[w]
           o == b.outcome
           stored == [o EXCEPT !.rows = BatchApplied(db, b.rows, o.rows)]
<1>1. b.at = "batch" /\ b.digest = db /\ b.lifecycle = lifecycle /\ Apply(stored)
  BY DEF Store, ContextCurrent
<1>2. TypeOK /\ db \in Option(Rows) /\ BatchAllowed(b)
  BY <1>1 DEF InstInv, SealInv, TypeOK, WorkInv
<1>3. CASE ChangesItsRows(b)
  <2>1. b.rows = db /\ o \in Contextual(db)
    BY <1>1, <1>3 DEF ChangesItsRows
  <2>2. PICK q \in Rows : o.rows = {q}
    BY <1>2, <2>1, ContextualRows
  <2>3. BatchApplied(db, b.rows, o.rows) = o.rows
    BY <1>2, <2>1, <2>2, BatchOnItsBase
  <2>4. IsOutcome(o)
    BY <2>1, CallsReturnOutcomes
  <2>5. stored = o
    BY <2>3, <2>4, SameRowsSameOutcome
  <2> QED
    BY <1>1, <2>1, <2>5, ContextualSteps
<1>4. CASE EntersItsLife(b)
  <2>1. /\ db = {}
        /\ \/ reached = 0 /\ o \in Create
           \/ o \in Join(keyPackages) /\ \A v \in o.joined : v.epoch >= reached \/ v \in joined
    BY <1>1, <1>4 DEF EntersItsLife
  <2>2. IsOutcome(o)
    BY <2>1, CallsReturnOutcomes
  <2>3. BatchApplied(db, b.rows, o.rows) = o.rows
    BY <2>1 DEF BatchApplied
  <2>4. stored = o
    BY <2>2, <2>3, SameRowsSameOutcome
  <2> QED
    BY <1>1, <2>1, <2>4 DEF CreateGroup, JoinGroup, Next
<1>5. CASE o \in Delete(b.rows)
  <2>1. o = Outcome({}, {}, {}, {})
    BY <1>5 DEF Delete
  <2>2. stored = o
    BY <2>1 DEF BatchApplied, Outcome
  <2>3. CASE db = {}
    BY <1>1, <1>2, <2>1, <2>2, <2>3, NothingToDelete DEF Outcome
  <2>4. CASE db # {}
    BY <1>1, <2>1, <2>2, <2>4 DEF Delete, DeleteGroup, Next
  <2> QED
    BY <2>3, <2>4
<1> QED
  BY <1>2, <1>3, <1>4, <1>5 DEF BatchAllowed

\* The invariant holds at the start.
LEMMA InstInitInv == InstInit => InstInv
<1> SUFFICES ASSUME InstInit PROVE InstInv
  OBVIOUS
<1>1. SealInv
  BY SealInvInit DEF InstInit
<1>2. lifecycle \in Nat /\ DOMAIN work = Worker /\ \A w \in Worker : work[w].at = "idle"
  BY DEF InstInit, Idle
<1>3. \A w \in Worker : WorkInv(work[w])
  BY <1>2 DEF WorkInv
<1> QED
  BY <1>1, <1>2, <1>3 DEF InstInv

\* Every step maps to a step of GroupLifecycle, and the fence counts entering and
\* leaving the group.
LEMMA InstSteps ==
    ASSUME InstInv, [InstNext]_instVars
    PROVE  /\ [Next]_vars
           /\ lifecycle' = IF (db = {}) # (db' = {}) THEN lifecycle + 1 ELSE lifecycle
<1>1. ASSUME NEW k \in KeyPackage, CreateKeyPackage(k), UNCHANGED <<lifecycle, work>>
      PROVE  /\ [Next]_vars
             /\ lifecycle' = IF (db = {}) # (db' = {}) THEN lifecycle + 1 ELSE lifecycle
  BY <1>1 DEF Next, CreateKeyPackage
<1>2. ASSUME NEW w \in Worker, Store(w)
      PROVE  /\ [Next]_vars
             /\ lifecycle' = IF (db = {}) # (db' = {}) THEN lifecycle + 1 ELSE lifecycle
  <2>1. [Next]_vars
    BY <1>2, StoreSteps
  <2> QED
    BY <1>2, <2>1 DEF Store
<1>3. ASSUME NEW w \in Worker, Read(w) \/ Abandon(w) \/ ReceiveCall(w) \/ ForegroundCall(w)
      PROVE  UNCHANGED <<vars, lifecycle>>
  BY <1>3 DEF Read, Abandon, ReceiveCall, ForegroundCall, CallSend, CallPrepare, CallMerge,
       CallDiscard, CallProcessApplication, CallProcessProposal, CallProcessCommit,
       CallProcessExternal, CallCreate, CallJoin, CallDelete, Call, Return
<1>4. ASSUME UNCHANGED <<vars, lifecycle>>
      PROVE  /\ [Next]_vars
             /\ lifecycle' = IF (db = {}) # (db' = {}) THEN lifecycle + 1 ELSE lifecycle
  BY <1>4 DEF vars
<1>5. CASE UNCHANGED instVars
  BY <1>4, <1>5 DEF instVars, vars
<1> QED
  BY <1>1, <1>2, <1>3, <1>4, <1>5 DEF InstNext, Worker

-----------------------------------------------------------------------------
(* The invariant *)

\* A Welcome that could be joined still can while its KeyPackage stays stored.
LEMMA JoinKept ==
    ASSUME NEW old, NEW new,
           \A k \in KeyPackage : old[k] = "stored" => new[k] = "stored",
           NEW o \in Join(old)
    PROVE  o \in Join(new)
<1>1. \A w \in Welcome : w.keyPackage \in KeyPackage
  BY WelcomeAssumption DEF WelcomeType
<1> QED
  BY <1>1 DEF Join

\* What the other workers do leaves a worker's read and its batch as they may be.
LEMMA OthersKeepWork ==
    ASSUME InstInv, [Next]_vars,
           lifecycle' = IF (db = {}) # (db' = {}) THEN lifecycle + 1 ELSE lifecycle,
           NEW w \in Worker, work'[w] = work[w]
    PROVE  WorkInv(work[w])'
<1>1. SealInv /\ SealInv' /\ LifeGoesOn
  BY SealInvStep, StepGoesOn DEF InstInv
<1>2. /\ lifecycle \in Nat /\ lifecycle' \in Nat /\ lifecycle <= lifecycle'
      /\ reached \in Nat /\ reached' \in Nat /\ reached <= reached'
  BY <1>1 DEF InstInv, LifeGoesOn, SealInv, TypeOK
<1>3. /\ \A r \in db : r.group.current.epoch \in Nat /\ r.group.current.epoch + 1 = reached
      /\ \A r \in db' : r.group.current.epoch \in Nat /\ r.group.current.epoch + 1 = reached'
  <2>1. db \subseteq Rows /\ db' \subseteq Rows
    BY <1>1, OptionFacts DEF SealInv, TypeOK
  <2> QED
    BY <1>1, <2>1, RowsFacts DEF SealInv, InLastEpoch
<1>4. WorkInv(work[w])
  BY DEF InstInv
<1>5. ASSUME work[w].at \in {"read", "batch"} PROVE ReadOfLife(work[w])'
  <2>1. ReadOfLife(work[w])
    BY <1>4, <1>5 DEF WorkInv
  <2>2. work'[w].lifecycle \in Nat /\ work'[w].lifecycle <= lifecycle'
    BY <1>2, <2>1 DEF ReadOfLife
  <2>3. ASSUME NEW q \in work'[w].rows
        PROVE  q \in Rows /\ q.group.current.epoch < reached'
    BY <1>2, <2>1, <2>3, RowsFacts DEF ReadOfLife
  <2>4. ASSUME NEW q \in work'[w].rows, NEW r \in db', work'[w].lifecycle # lifecycle'
        PROVE  q.group.current.epoch < r.group.current.epoch
    <3>1. q \in Rows /\ q.group.current.epoch \in Nat /\ q.group.current.epoch < reached
      BY <2>1, <2>4, RowsFacts DEF ReadOfLife
    <3>2. CASE db = {}
      <4>1. reached' > reached
        BY <1>1, <2>4, <3>2 DEF LifeGoesOn
      <4> QED
        BY <1>2, <1>3, <3>1, <4>1
    <3>3. CASE db # {}
      <4>1. PICK s \in db : TRUE
        BY <3>3
      <4>2. work[w].lifecycle # lifecycle
        BY <2>4, <3>3
      <4>3. q.group.current.epoch < s.group.current.epoch
        BY <2>1, <2>4, <4>2 DEF ReadOfLife
      <4> QED
        BY <1>2, <1>3, <3>1, <4>3
    <3> QED
      BY <3>2, <3>3
  <2> QED
    BY <2>2, <2>3, <2>4 DEF ReadOfLife
\* Rows that were there still are when the fence has not moved.
<1>6. ASSUME ReadOfLife(work[w]), work[w].lifecycle = lifecycle'
      PROVE  work[w].lifecycle = lifecycle /\ (db = {} <=> db' = {})
  BY <1>2, <1>6 DEF ReadOfLife
<1>7. ASSUME work[w].at = "read" PROVE StoredKept(work[w])'
  <2>1. StoredKept(work[w]) /\ ReadOfLife(work[w])
    BY <1>4, <1>7 DEF WorkInv
  <2>2. ASSUME work[w].lifecycle = lifecycle', db' = {}, NEW k \in KeyPackage,
               work[w].stored[k] = "stored"
        PROVE  keyPackages'[k] = "stored"
    BY <1>1, <1>6, <2>1, <2>2 DEF StoredKept, LifeGoesOn
  <2> QED
    BY <2>2 DEF StoredKept
<1>8. ASSUME work[w].at = "batch" PROVE BatchAllowed(work[w])'
  <2>1. BatchAllowed(work[w]) /\ ReadOfLife(work[w])
    BY <1>4, <1>8 DEF WorkInv
  <2>2. CASE ChangesItsRows(work[w])
    BY <2>2 DEF ChangesItsRows, BatchAllowed
  <2>3. CASE EntersItsLife(work[w])
    <3>1. ASSUME work[w].lifecycle = lifecycle'
          PROVE  /\ db' = {} /\ reached' = reached /\ joined' = joined
                 /\ \/ reached = 0 /\ work[w].outcome \in Create
                    \/ /\ work[w].outcome \in Join(keyPackages')
                       /\ \A v \in work[w].outcome.joined : v.epoch >= reached \/ v \in joined
      <4>1. work[w].lifecycle = lifecycle /\ db = {} /\ db' = {}
        BY <1>6, <2>1, <2>3, <3>1 DEF EntersItsLife
      <4>2. /\ reached' = reached /\ joined' = joined
            /\ \A k \in KeyPackage : keyPackages[k] = "stored" => keyPackages'[k] = "stored"
        BY <1>1, <4>1 DEF LifeGoesOn
      <4>3. work[w].outcome \in Join(keyPackages) => work[w].outcome \in Join(keyPackages')
        BY <4>2, JoinKept
      <4> QED
        BY <2>3, <4>1, <4>2, <4>3 DEF EntersItsLife
    <3> QED
      BY <2>3, <3>1 DEF EntersItsLife, BatchAllowed
  <2>4. CASE work[w].outcome \in Delete(work[w].rows)
    BY <2>4 DEF BatchAllowed
  <2> QED
    BY <2>1, <2>2, <2>3, <2>4 DEF BatchAllowed
<1> QED
  BY <1>5, <1>7, <1>8 DEF WorkInv

\* A worker that reads sees the rows of the present life.
LEMMA ReadKeepsWork ==
    ASSUME InstInv, NEW w \in Worker, Read(w)
    PROVE  WorkInv(work[w])'
<1>1. work'[w] = HasRead(db, keyPackages, lifecycle) /\ UNCHANGED <<vars, lifecycle>>
  BY DEF Read, InstInv
<1>2. \A q \in db : q \in Rows /\ q.group.current.epoch < reached
  <2>1. db \subseteq Rows
    BY OptionFacts DEF InstInv, SealInv, TypeOK
  <2> QED
    BY <2>1, RowsFacts DEF InstInv, SealInv, InLastEpoch
<1>3. ReadOfLife(work[w])'
  BY <1>1, <1>2 DEF HasRead, ReadOfLife, InstInv, vars
<1>4. StoredKept(work[w])'
  BY <1>1 DEF HasRead, StoredKept, vars
<1> QED
  BY <1>1, <1>3, <1>4 DEF HasRead, WorkInv

\* A call returns a batch that may be stored.
LEMMA ReturnKeepsWork ==
    ASSUME InstInv, NEW w \in Worker, NEW outcomes, Return(w, outcomes),
           \A o \in outcomes :
                BatchAllowed(HasBatch(work[w].rows, db, work[w].lifecycle, o))
    PROVE  WorkInv(work[w])'
<1>1. PICK o \in outcomes :
        work' = [work EXCEPT ![w] = HasBatch(work[w].rows, db, work[w].lifecycle, o)]
  BY DEF Return
<1>2. /\ work'[w] = HasBatch(work[w].rows, db, work[w].lifecycle, o)
      /\ UNCHANGED <<vars, lifecycle>>
  BY <1>1 DEF Return, InstInv
<1>3. ReadOfLife(work[w])
  BY DEF Return, InstInv, WorkInv
<1>4. ReadOfLife(work[w])'
  BY <1>2, <1>3 DEF HasBatch, ReadOfLife, vars
<1>5. BatchAllowed(work[w])'
  BY <1>2 DEF HasBatch, BatchAllowed, ChangesItsRows, EntersItsLife, vars
<1> QED
  BY <1>2, <1>4, <1>5 DEF HasBatch, WorkInv

\* Every call returns such a batch.
LEMMA CallsKeepWork ==
    ASSUME InstInv, NEW w \in Worker, ReceiveCall(w) \/ ForegroundCall(w)
    PROVE  WorkInv(work[w])'
<1> DEFINE Batch(o) == HasBatch(work[w].rows, db, work[w].lifecycle, o)
<1>1. ASSUME NEW outcomes, outcomes \subseteq Contextual(work[w].rows), Call(w, outcomes)
      PROVE  WorkInv(work[w])'
  <2>1. work[w].rows = db
    BY <1>1 DEF Call, BaseCurrent
  <2>2. \A o \in outcomes : BatchAllowed(Batch(o))
    BY <1>1, <2>1 DEF BatchAllowed, ChangesItsRows, HasBatch
  <2> QED
    BY <1>1, <2>2, ReturnKeepsWork DEF Call
<1>2. CASE CallCreate(w)
  <2>1. \A o \in Create : BatchAllowed(Batch(o))
    BY <1>2 DEF CallCreate, BatchAllowed, EntersItsLife, HasBatch
  <2> QED
    BY <1>2, <2>1, ReturnKeepsWork DEF CallCreate
<1>3. CASE CallJoin(w)
  <2> DEFINE outcomes == {o \in Join(work[w].stored) :
                            \A v \in o.joined : v.epoch >= reached \/ v \in joined}
  <2>1. work[w].at = "read" /\ db = {} /\ Return(w, outcomes)
    BY <1>3 DEF CallJoin
  <2>2. StoredKept(work[w])
    BY <2>1 DEF InstInv, WorkInv
  <2>3. ASSUME NEW o \in outcomes, work[w].lifecycle = lifecycle
        PROVE  o \in Join(keyPackages)
    BY <2>1, <2>2, <2>3, JoinKept DEF StoredKept
  <2>4. \A o \in outcomes : BatchAllowed(Batch(o))
    BY <2>1, <2>3 DEF BatchAllowed, EntersItsLife, HasBatch
  <2> QED
    BY <2>1, <2>4, ReturnKeepsWork
<1>4. CASE CallDelete(w)
  <2>1. \A o \in Delete(work[w].rows) : BatchAllowed(Batch(o))
    BY DEF BatchAllowed, HasBatch
  <2> QED
    BY <1>4, <2>1, ReturnKeepsWork DEF CallDelete
<1>5. CASE \/ CallSend(w) \/ CallPrepare(w) \/ CallMerge(w) \/ CallDiscard(w)
           \/ CallProcessApplication(w) \/ CallProcessProposal(w)
           \/ CallProcessCommit(w) \/ CallProcessExternal(w)
  <2>1. PICK outcomes \in {Send(work[w].rows), Prepare(work[w].rows), Merge(work[w].rows),
                           Discard(work[w].rows), ReceiveApplication(work[w].rows),
                           ReceiveProposal(work[w].rows), ReceiveCommit(work[w].rows),
                           ReceiveExternal(work[w].rows)} : Call(w, outcomes)
    BY <1>5 DEF CallSend, CallPrepare, CallMerge, CallDiscard, CallProcessApplication,
         CallProcessProposal, CallProcessCommit, CallProcessExternal
  <2>2. outcomes \subseteq Contextual(work[w].rows)
    BY DEF Contextual
  <2> QED
    BY <1>1, <2>1, <2>2
<1> QED
  BY <1>2, <1>3, <1>4, <1>5 DEF ReceiveCall, ForegroundCall

\* Every step keeps the invariant: it changes what at most one worker holds.
LEMMA InstInvStep == InstInv /\ [InstNext]_instVars => InstInv'
<1> SUFFICES ASSUME InstInv, [InstNext]_instVars PROVE InstInv'
  OBVIOUS
<1>1. /\ [Next]_vars
      /\ lifecycle' = IF (db = {}) # (db' = {}) THEN lifecycle + 1 ELSE lifecycle
  BY InstSteps
<1>2. SealInv' /\ lifecycle' \in Nat
  BY <1>1, SealInvStep DEF InstInv
<1>3. ASSUME NEW v \in Worker, work'[v] = work[v] PROVE WorkInv(work[v])'
  BY <1>1, <1>3, OthersKeepWork
<1>4. ASSUME NEW w \in Worker, WorkInv(work[w])', DOMAIN work' = Worker,
             \A v \in Worker \ {w} : work'[v] = work[v]
      PROVE  InstInv'
  BY <1>2, <1>3, <1>4 DEF InstInv
<1>5. CASE UNCHANGED work
  BY <1>2, <1>3, <1>5 DEF InstInv
<1>6. ASSUME NEW w \in Worker, Read(w) PROVE InstInv'
  <2>1. DOMAIN work' = Worker /\ \A v \in Worker \ {w} : work'[v] = work[v]
    BY <1>6 DEF Read, InstInv
  <2> QED
    BY <1>4, <1>6, <2>1, ReadKeepsWork
<1>7. ASSUME NEW w \in Worker, ReceiveCall(w) \/ ForegroundCall(w) PROVE InstInv'
  <2>1. \E outcomes : Return(w, outcomes)
    BY <1>7 DEF ReceiveCall, ForegroundCall, CallSend, CallPrepare, CallMerge, CallDiscard,
         CallProcessApplication, CallProcessProposal, CallProcessCommit, CallProcessExternal,
         CallCreate, CallJoin, CallDelete, Call
  <2>2. DOMAIN work' = Worker /\ \A v \in Worker \ {w} : work'[v] = work[v]
    BY <2>1 DEF Return, InstInv
  <2> QED
    BY <1>4, <1>7, <2>2, CallsKeepWork
<1>8. ASSUME NEW w \in Worker, Store(w) \/ Abandon(w) PROVE InstInv'
  <2>1. work' = [work EXCEPT ![w] = Idle]
    BY <1>8 DEF Store, Abandon
  <2>2. DOMAIN work' = Worker /\ \A v \in Worker \ {w} : work'[v] = work[v]
    BY <2>1 DEF InstInv
  <2>3. WorkInv(work[w])'
    BY <2>1 DEF InstInv, Idle, WorkInv
  <2> QED
    BY <1>4, <2>2, <2>3
<1> QED
  BY <1>5, <1>6, <1>7, <1>8 DEF InstNext, instVars, Worker

\* Whatever any number of workers of group_e2ee.rs and the receive frames do, the
\* rows, the fence and every read and batch in flight keep the inductive invariant.
THEOREM InstInvariance == InstSpec => []InstInv
<1> QED
  BY InstInitInv, InstInvStep, PTL DEF InstSpec

\* The digest runtime::load compares, and the compare-and-apply of the caller, make
\* every call atomic: InstSpec implements the specification of GroupLifecycle.
THEOREM InstallationRefines == InstSpec => ImplementsLifecycle
<1>1. InstInit => Init
  BY DEF InstInit
<1>2. InstInv /\ [InstNext]_instVars => [Next]_vars
  BY InstSteps
<1> QED
  BY <1>1, <1>2, InstInvariance, PTL DEF InstSpec, Spec, ImplementsLifecycle

\* runtime::load compares digests of rows, never the life they were read in: rows
\* with the epoch of a later life do not occur in an earlier one.
THEOREM DigestsNameLives == InstSpec => []DigestNamesLife
<1>1. InstInv => DigestNamesLife
  <2> SUFFICES ASSUME InstInv, NEW w \in Worker,
                      work[w].at = "batch", work[w].rows = db, db # {}
               PROVE  work[w].lifecycle = lifecycle
    BY DEF DigestNamesLife
  <2>1. PICK q \in db : TRUE
    OBVIOUS
  <2>2. ReadOfLife(work[w])
    BY DEF InstInv, WorkInv
  <2>3. q.group.current.epoch \in Nat /\ ~(q.group.current.epoch < q.group.current.epoch)
    BY <2>1, <2>2, RowsFacts DEF ReadOfLife
  <2> QED
    BY <2>1, <2>2, <2>3 DEF ReadOfLife
<1> QED
  BY <1>1, InstInvariance, PTL

\* What a sequence of calls keeps, stale snapshots, lost races and crashes keep too:
\* no key seals twice, no plaintext is handed out twice, the rows always load, the
\* retained epochs stay in step, and what is in reach opens exactly once.
THEOREM InstallationSafe ==
    InstSpec => /\ [](SealOnce /\ PlaintextOnce /\ AlwaysLoads /\ RetainedInStep)
                /\ [](DeliverableExactlyOnce /\ ErrorsTruthful)
                /\ RatchetsNeverRewind
<1>1. Spec => [](SealOnce /\ PlaintextOnce /\ AlwaysLoads /\ RetainedInStep)
  BY NoKeySealsTwice, NoPlaintextTwice, AlwaysLoadable, RetainsInStep, PTL
<1>2. Spec => [](DeliverableExactlyOnce /\ ErrorsTruthful)
  BY OpensExactlyOnce, ErrorsAreTruthful, PTL
<1>3. InstSpec => Spec
  BY InstallationRefines DEF ImplementsLifecycle
<1> QED
  BY <1>1, <1>2, <1>3, NoRatchetRewinds

=============================================================================
