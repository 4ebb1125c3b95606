---------------------------- MODULE GroupLifecycle ----------------------------
(***************************************************************************)
(* The life of one group on one installation when every operation is one   *)
(* atomic step: the contract of the storage boundary.  Installation.tla    *)
(* shows that workers with stale snapshots, lost races and crashes keep it.*)
(*                                                                         *)
(* Peers' messages arrive in any order, repeatedly or never; a Commit of   *)
(* this installation is accepted, rejected or superseded at any moment.    *)
(***************************************************************************)
EXTENDS GroupRows

VARIABLES
    db,             \* the group's durable rows, {} when there are none
    keyPackages,    \* state of each KeyPackage's private row
    joined,         \* history: the Welcomes joined so far
    reached,        \* history: the number of epochs held or passed so far
    handed,         \* history: how often each message was handed out
    sealed          \* history: how often each own key was encrypted under

vars == <<db, keyPackages, joined, reached, handed, sealed>>

Init ==
    /\ db = {}
    /\ keyPackages = [k \in KeyPackage |-> "absent"]
    /\ joined = {}
    /\ reached = 0
    /\ handed = [m \in Message |-> 0]
    /\ sealed = [k \in SealKey |-> 0]

Count(history, S) == [x \in DOMAIN history |-> IF x \in S THEN history[x] + 1 ELSE history[x]]

\* The batch of outcome o is applied in one transaction together with the
\* plaintext or ciphertext the call returned.
Apply(o) ==
    /\ db' = o.rows
    /\ keyPackages' = [k \in KeyPackage |->
            IF \E w \in o.joined : w.keyPackage = k THEN "consumed" ELSE keyPackages[k]]
    /\ joined' = joined \cup o.joined
    /\ reached' = IF \E r \in o.rows : r.group.current.epoch >= reached
                  THEN The(o.rows).group.current.epoch + 1
                  ELSE reached
    /\ handed' = Count(handed, o.opened)
    /\ sealed' = Count(sealed, o.sealed)

\* create_key_package_with_storage: a fresh KeyPackage and its private row.
CreateKeyPackage(k) ==
    /\ keyPackages[k] = "absent"
    /\ keyPackages' = [keyPackages EXCEPT ![k] = "stored"]
    /\ UNCHANGED <<db, joined, reached, handed, sealed>>

\* The application issues a group id once.
CreateGroup == db = {} /\ reached = 0 /\ \E o \in Create : Apply(o)

\* A Welcome is for an epoch after any this installation was a member in (it is
\* added again only once removed), or it is one delivered again.
JoinGroup ==
    /\ db = {}
    /\ \E o \in Join(keyPackages) :
        /\ \A w \in o.joined : w.epoch >= reached \/ w \in joined
        /\ Apply(o)

SendMessage == \E o \in Send(db) : Apply(o)
PrepareCommit == \E o \in Prepare(db) : Apply(o)
MergePending == \E o \in Merge(db) : Apply(o)
DiscardPending == \E o \in Discard(db) : Apply(o)
ProcessApplication == \E o \in ReceiveApplication(db) : Apply(o)
ProcessProposal == \E o \in ReceiveProposal(db) : Apply(o)
ProcessCommit == \E o \in ReceiveCommit(db) : Apply(o)
ProcessExternal == \E o \in ReceiveExternal(db) : Apply(o)
DeleteGroup == \E o \in Delete(db) : Apply(o)

Next ==
    \/ \E k \in KeyPackage : CreateKeyPackage(k)
    \/ CreateGroup
    \/ JoinGroup
    \/ SendMessage
    \/ PrepareCommit
    \/ MergePending
    \/ DiscardPending
    \/ ProcessApplication
    \/ ProcessProposal
    \/ ProcessCommit
    \/ ProcessExternal
    \/ DeleteGroup

Spec == Init /\ [][Next]_vars

-----------------------------------------------------------------------------
\* Every variable has its type.
TypeOK ==
    /\ db \in Option(Rows)
    /\ keyPackages \in [KeyPackage -> {"absent", "stored", "consumed"}]
    /\ joined \subseteq Welcome
    /\ reached \in Nat
    /\ handed \in [Message -> Nat]
    /\ sealed \in [SealKey -> Nat]

\* No ciphertext is handed to the application twice: not after a merge, a
\* discard, an external Commit, or a group deleted and joined again.
PlaintextOnce == \A m \in Message : handed[m] <= 1

\* No key is encrypted under twice: preparing, discarding and preparing again,
\* or joining again from an old Welcome, never seals two ciphertexts alike.
SealOnce == \A k \in SealKey : sealed[k] <= 1

\* Every durable state an operation leaves behind passes the checks of
\* runtime::load, so no sequence of legal calls locks an installation out.
AlwaysLoads == \A r \in db : Loadable(r)

\* The metadata's roster history and OpenMLS's past epoch trees, two lists with
\* their own eviction, retain exactly the same epochs while the group is active.
RetainedInStep ==
    \A r \in db : r.group.active =>
        /\ Len(r.secrets.past) = Len(r.local.history)
        /\ \A i \in 1 .. Len(r.local.history) :
            r.secrets.past[i].epoch = r.local.history[i].epoch

\* A message a retained epoch's roster vouches for is in reach of its window.
InReach(r, m) ==
    /\ r.group.active
    /\ m.ratchet = "application"
    /\ \E x \in MessageRoster(r.local, m.epoch) : m.from \in x.leaves
    /\ \A t \in SecretsFor(r, m.epoch) :
        /\ m.gen <= t.window[m.ratchet][m.from].head + Forward
        /\ ~BehindWindow(t.window[m.ratchet][m.from], m.gen)

\* An application message in reach is opened if it was never handed out and
\* refused if it was, also while a Commit is pending: no call that fails, and no
\* change of epoch, burns a key a message still needs.
DeliverableExactlyOnce ==
    \A r \in db : \A m \in Message :
        InReach(r, m) => (ReceiveError(r, m) = "Ok" <=> handed[m] = 0)

\* The error codes tell the truth: Replay is only said of a message that was
\* handed out, GenerationTooOld only of one behind the window of a retained
\* epoch (never because an epoch's secrets are missing).
ErrorsTruthful ==
    \A r \in db : \A m \in Message :
        /\ ReceiveError(r, m) = "Replay" => handed[m] = 1
        /\ ReceiveError(r, m) = "GenerationTooOld" =>
            \E t \in SecretsFor(r, m.epoch) : BehindWindow(t.window[m.ratchet][m.from], m.gen)

\* The secrets of an epoch only move forward.
NotRewound(old, new) ==
    \A k \in RatchetKind :
        /\ old.sent[k] <= new.sent[k]
        /\ \A p \in Peer :
            /\ old.window[k][p].head <= new.window[k][p].head
            /\ \A g \in new.window[k][p].keys :
                g < old.window[k][p].head => g \in old.window[k][p].keys

\* While a group lives its epoch never goes back or skips, and no operation
\* (discarding or superseding a pending Commit included) rewinds the ratchets
\* of an epoch it keeps.
RatchetsNeverRewind ==
    [][\A r \in db : \A q \in db' :
        /\ q.group.current.epoch - r.group.current.epoch \in {0, 1}
        /\ \A e \in 0 .. r.group.current.epoch :
            \A old \in SecretsFor(r, e) : \A new \in SecretsFor(q, e) :
                q.group.active => NotRewound(old, new)]_vars

=============================================================================
