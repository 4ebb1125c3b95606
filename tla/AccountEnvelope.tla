--------------------------- MODULE AccountEnvelope ---------------------------
(***************************************************************************)
(* Accounts that rotate and reset their envelope keys, the contacts that   *)
(* pin them, and the invitations sealed in between                         *)
(* (rust/src/api/account_envelope/mod.rs).                                 *)
(*                                                                         *)
(* The package is stateless: every variable is the caller's storage or the *)
(* account service, and each action is one package call followed by the    *)
(* caller's transaction on its result.  External, as bridge.rs and         *)
(* CHANGELOG.md leave them to the application:                             *)
(*   - the transaction that stores an authorized successor stores the      *)
(*     retired predecessor with it (a crash before it leaves nothing);     *)
(*   - the service keeps one bundle per generation, the first it receives  *)
(*     that continues the one before;                                      *)
(*   - bundles are published late, in any order and more than once;        *)
(*   - a contact is shown bundles in any selection and order.              *)
(***************************************************************************)
EXTENDS AccountBundles, InvitationPreview

CONSTANTS
  Owner,          \* the account of each root
  Contact,        \* installations that pin the accounts of others
  MaxKeys,        \* bound: key bundles generated
  MaxLosses,      \* bound: roots that lose their stored keys
  MaxResponse,    \* bound: bundles in one continuity response
  MaxEnvelopes,   \* bound: invitations sealed
  Typed           \* bound: the previews users type

ASSUME EnvelopeAssumption ==
  /\ Owner \in [Root -> Account]
  /\ {MaxKeys, MaxLosses, MaxResponse, MaxEnvelopes} \subseteq Nat
  /\ \A preview \in Typed : {preview.title, preview.tags} \subseteq Seq(Seq(Char))

VARIABLES
  nextKey,        \* the next key to be drawn
  vault,          \* the private bundles each root has stored
  candidates,     \* rotation candidates awaiting authorization
  outbox,         \* complete bundles each root has still to publish
  published,      \* every bundle that left a root
  directory,      \* what the service accepted, oldest first
  losses,
  pins,           \* what each contact pins of each account: one bundle or none
  anchor,         \* the bundle that pin was last trusted from without a chain
  envelopes       \* the invitations sealed

ownerVars == <<nextKey, vault, candidates, outbox, published, directory, losses>>
contactVars == <<pins, anchor>>
vars == <<ownerVars, contactVars, envelopes>>

Generations(account) == Len(directory[account])

TypeOK ==
  /\ nextKey \in 0..MaxKeys
  /\ vault \in [Root -> SUBSET PrivateBundle]
  /\ candidates \subseteq PublicBundle
  /\ outbox \in [Root -> SUBSET PublicBundle]
  /\ published \subseteq PublicBundle
  /\ DOMAIN directory = Account
  /\ \A a \in Account : directory[a] \in Seq(published)
  /\ losses \in 0..MaxLosses
  /\ pins \in [Contact -> [Account -> SUBSET published]]
  /\ anchor \in [Contact -> [Account -> SUBSET published]]

Init ==
  /\ nextKey = 0
  /\ vault = [r \in Root |-> {}]
  /\ candidates = {}
  /\ outbox = [r \in Root |-> {}]
  /\ published = {}
  /\ directory = [a \in Account |-> << >>]
  /\ losses = 0
  /\ pins = [c \in Contact |-> [a \in Account |-> {}]]
  /\ anchor = [c \in Contact |-> [a \in Account |-> {}]]
  /\ envelopes = {}

-----------------------------------------------------------------------------
(* The account's own roots *)

Expected(root, generation) ==
  [account |-> Owner[root], generation |-> generation, root |-> root]

(* generate_key_bundle_v1 and create_self_signed_public_bundle_v1 for the  *)
(* generation after the one the service shows.                             *)
Generate(root, kind) ==
  LET expected == Expected(root, Generations(Owner[root]) + 1)
      private  == Generated(expected, nextKey)
      bundle   == SelfSigned(private, kind)
  IN  /\ nextKey < MaxKeys
      /\ MayCreate(private, expected, kind)
      /\ nextKey' = nextKey + 1
      /\ vault' = [vault EXCEPT ![root] = @ \cup {private}]
      /\ IF kind = "Rotation"
           THEN candidates' = candidates \cup {bundle} /\ UNCHANGED outbox
           ELSE /\ outbox' = [outbox EXCEPT ![root] = @ \cup {bundle}]
                /\ UNCHANGED candidates
      /\ UNCHANGED <<published, directory, losses>>

(* authorize_successor_public_bundle_v1: the caller stores the successor   *)
(* and the retired predecessor together.                                   *)
Authorize(root, private, candidate) ==
  /\ MayAuthorize(private, Expected(root, candidate.previous), candidate)
  /\ vault' = [vault EXCEPT ![root] = (@ \ {private}) \cup {Retired(private)}]
  /\ outbox' =
       [outbox EXCEPT ![root] = @ \cup {Authorized(private, candidate)}]
  /\ UNCHANGED <<nextKey, candidates, published, directory, losses>>

\* The service checks a new bundle against the newest one as a contact would.
Continues(history, bundle) ==
  IF history = << >>
    THEN bundle.generation = 1
    ELSE VerifyContinuity({Last(history)}, <<bundle>>, FALSE) # {}

(* The service takes the first bundle of a generation.  Requests are       *)
(* repeated, since answers are lost: a bundle never leaves the outbox.     *)
Publish(bundle) ==
  /\ Complete(bundle)
  /\ published' = published \cup {bundle}
  /\ directory' =
       IF Continues(directory[bundle.account], bundle)
         THEN [directory EXCEPT ![bundle.account] = Append(@, bundle)]
         ELSE directory
  /\ UNCHANGED <<nextKey, vault, candidates, outbox, losses>>

\* Root or database keys are lost with everything the root stored.
Lose(root) ==
  /\ losses < MaxLosses
  /\ vault[root] # {}
  /\ losses' = losses + 1
  /\ vault' = [vault EXCEPT ![root] = {}]
  /\ outbox' = [outbox EXCEPT ![root] = {}]
  /\ UNCHANGED <<nextKey, candidates, published, directory>>

OwnerStep ==
  /\ \E r \in Root :
       \/ \E kind \in {"Initial", "Rotation", "ContinuityReset"} :
            Generate(r, kind)
       \/ \E private \in vault[r], candidate \in candidates :
            Authorize(r, private, candidate)
       \/ \E bundle \in outbox[r] : Publish(bundle)
       \/ Lose(r)
  /\ UNCHANGED <<contactVars, envelopes>>

-----------------------------------------------------------------------------
(* Contacts *)

Pin(contact, account, bundle) ==
  pins' = [pins EXCEPT ![contact][account] = {bundle}]

Trust(contact, account, bundle) ==
  anchor' = [anchor EXCEPT ![contact][account] = {bundle}]

\* No manual decision: a first observation or a verified chain moves the pin.
Refresh(contact, account, response) ==
  \E result \in VerifyContinuity(pins[contact][account], response, FALSE) :
    /\ result.bundle.account = account
    /\ \/ /\ result.disposition = "FirstObservation"
          /\ Trust(contact, account, result.bundle)
       \/ /\ result.disposition = "RotationChainVerified"
          /\ UNCHANGED anchor
    /\ Pin(contact, account, result.bundle)
    /\ UNCHANGED <<ownerVars, envelopes>>

(* The user accepts a reset anchor, or after a conflict the service's      *)
(* newest bundle: manual_reanchor_authorized.                              *)
Reanchor(contact, account, bundle) ==
  /\ \/ directory[account] # << >> /\ bundle = Last(directory[account])
     \/ \E result \in VerifyContinuity(pins[contact][account], <<bundle>>,
                                       FALSE) :
          result.disposition = "ResetAnchorRequiresAcceptance"
  /\ \E result \in VerifyContinuity(pins[contact][account], <<bundle>>, TRUE) :
       /\ Pin(contact, account, result.bundle)
       /\ Trust(contact, account, result.bundle)
  /\ UNCHANGED <<ownerVars, envelopes>>

(* seal_context_invitation_preview_v1: the header names both generations.  *)
Seal(root, private, recipient, preview) ==
  LET authority == private.authority
  IN  /\ Cardinality(envelopes) < MaxEnvelopes
      /\ MaySign(private, Expected(root, authority.generation))
      /\ Complete(recipient)
      /\ MaySeal(preview)
      /\ envelopes' = envelopes \cup
           {[sender    |-> [account    |-> authority.account,
                            generation |-> authority.generation],
             signedBy  |-> private.key,
             recipient |-> [account    |-> recipient.account,
                            generation |-> recipient.generation],
             sealedTo  |-> recipient.key,
             inner     |-> Canonical(preview)]}
      /\ UNCHANGED <<ownerVars, contactVars>>

(* verify_and_open_context_invitation_preview_v1, which changes nothing:   *)
(* a retired bundle still opens what was sealed to its generation.         *)
Opens(envelope, root, private, sender) ==
  /\ Complete(sender)
  /\ sender.account = envelope.sender.account
  /\ sender.generation = envelope.sender.generation
  /\ Decodes(private, [account    |-> envelope.recipient.account,
                       generation |-> envelope.recipient.generation,
                       root       |-> root])
  /\ sender.key = envelope.signedBy
  /\ private.key = envelope.sealedTo
  /\ MayShow(envelope.inner)

Responses == BoundedSeq(published, MaxResponse)

ContactStep ==
  \E c \in Contact, a \in Account :
    \/ \E response \in Responses : Refresh(c, a, response)
    \/ \E bundle \in published : Reanchor(c, a, bundle)
    \/ /\ c \in Root
       /\ \E private \in vault[c], recipient \in pins[c][a], preview \in Typed :
            Seal(c, private, recipient, preview)

Next == OwnerStep \/ ContactStep

Spec == Init /\ [][Next]_vars

(* Fairness: a contact asks again, and the service answers with the links  *)
(* that follow the pin, at most MaxLinks of them and none past a reset.    *)
(* Nothing is assumed of the account's owner or of the user.               *)
OnHistory(account, pin) ==
  /\ pin.generation <= Generations(account)
  /\ directory[account][pin.generation] = pin

RotationsAhead(account, pin) ==
  {n \in pin.generation + 1 .. Generations(account) :
     \A i \in pin.generation + 1 .. n : directory[account][i].kind = "Rotation"}

Answer(account, pin) ==
  SubSeq(directory[account], pin.generation + 1,
         Max({n \in RotationsAhead(account, pin) : n <= pin.generation + MaxLinks}))

Ask(contact, account) ==
  \E pin \in pins[contact][account] :
    /\ OnHistory(account, pin)
    /\ RotationsAhead(account, pin) # {}
    /\ Refresh(contact, account, Answer(account, pin))

FairSpec == Spec /\ \A c \in Contact, a \in Account : WF_vars(Ask(c, a))

-----------------------------------------------------------------------------
(* Properties *)

Released == published \cup UNION {outbox[r] : r \in Root}

(* A key authorizes one successor at most, on whatever root the candidates *)
(* were made and however often they are presented: after the retirement    *)
(* the predecessor cannot sign another (mod.rs:167-172).                   *)
SuccessorUnique ==
  \A b1, b2 \in Released :
    b1.transition # {} /\ b1.transition = b2.transition => b1 = b2

(* Contacts that trusted the same bundle and followed only rotations from  *)
(* it hold the same keys at the same generation, whatever selections of    *)
(* bundles, also of refused ones, each was shown: no chain forks.          *)
SameAnchorSameKeys ==
  \A a \in Account, c1, c2 \in Contact :
    anchor[c1][a] = anchor[c2][a] =>
      \A p1 \in pins[c1][a], p2 \in pins[c2][a] :
        p1.generation = p2.generation => p1 = p2

(* A key whose successor has been authorized seals no further invitation.  *)
RetiredNeverSeals ==
  [][\A e \in envelopes' \ envelopes, b \in Released :
       b.transition # {e.signedBy}]_vars

(* An invitation opens wherever the private half it was sealed to is still *)
(* stored, with the public bundle of the key that signed it, however far   *)
(* either account has rotated since (mod.rs:432-442): exactly when sealing *)
(* could compose its text.  A combining mark that composes with nothing is *)
(* sealed (invitation.rs:289) and never opened (invitation.rs:301).        *)
EnvelopesOpen ==
  \A e \in envelopes, r \in Root, sender \in published :
    \A private \in vault[r] :
      private.key = e.sealedTo /\ sender.key = e.signedBy
        => (Opens(e, r, private, sender) <=> Composed(e.inner))

(* A contact whose pin the service has accepted reaches the service's      *)
(* newest bundle or the one before a reset, with no decision of the user,  *)
(* a chain longer than one response piece by piece (mod.rs:269-327) -      *)
(* unless it pins a bundle the service refused, another having taken its   *)
(* generation.                                                             *)
RotationsReachContacts ==
  \A c \in Contact, a \in Account :
    (\E pin \in pins[c][a] : OnHistory(a, pin)) ~>
      (\E pin \in pins[c][a] :
         OnHistory(a, pin) => RotationsAhead(a, pin) = {})
=============================================================================
