--------------------------- MODULE AccountBundles ---------------------------
(***************************************************************************)
(* The key bundles of rust/src/api/account_envelope (mod.rs, codec.rs) and *)
(* the continuity check a contact runs on them, as pure operators.         *)
(*                                                                         *)
(* A bundle holds one HPKE pair and one signature pair, generated          *)
(* together: a key stands for both.  A public bundle is signed by its own  *)
(* key, and a rotation also by its predecessor's: `transition' is the set  *)
(* of the keys (at most one) that signed the link.  Only bytes the package *)
(* wrote are in the model, so a self signature always verifies; what can   *)
(* go wrong is which bundles are presented, in which order and to whom.    *)
(* A root stands for a root installation at one authority generation, the  *)
(* pair a private bundle is bound to.                                      *)
(***************************************************************************)
EXTENDS Naturals, Sequences

CONSTANTS
  Account,        \* account ids
  Root,           \* root installation, root authority generation
  MaxGeneration,  \* MAX_WEB_SAFE_INTEGER
  MaxLinks        \* CONTINUITY_MAX_LINKS

ASSUME BundleAssumption == MaxGeneration \in Nat /\ MaxLinks \in Nat

Key == Nat

Authority == [account : Account, generation : 1..MaxGeneration, root : Root]

PrivateBundle ==
  [authority : Authority,
   key       : Key,
   state     : {"ActiveFull", "RetiredDecryptOnly"}]

PublicBundle ==
  [account    : Account,
   generation : 1..MaxGeneration,
   key        : Key,
   kind       : {"Initial", "Rotation", "ContinuityReset"},
   previous   : 0..MaxGeneration,
   transition : SUBSET Key]

-----------------------------------------------------------------------------
(* Private bundles *)

\* A generation is a positive web-safe integer.
ValidAuthority(authority) == authority.generation \in 1..MaxGeneration

Generated(authority, key) ==
  [authority |-> authority, key |-> key, state |-> "ActiveFull"]

Decodes(bundle, expected) == bundle.authority = expected

\* The retired frame has no signing key: codec.rs refuses any other pairing.
MaySign(bundle, expected) ==
  /\ Decodes(bundle, expected)
  /\ bundle.state = "ActiveFull"

\* Mutant: the authorization leaves the signing key in the predecessor.
RetiredKeepsKey(bundle) == bundle

Retired(bundle) == [bundle EXCEPT !.state = "RetiredDecryptOnly"]

-----------------------------------------------------------------------------
(* Public bundles *)

Shape(bundle, transition) ==
  /\ bundle.previous = bundle.generation - 1
  /\ \/ bundle.kind = "Initial" /\ bundle.generation = 1 /\ ~transition
     \/ bundle.kind = "Rotation" /\ bundle.generation > 1 /\ transition
     \/ bundle.kind = "ContinuityReset" /\ bundle.generation > 1 /\ ~transition

\* A rotation is a candidate, without transition signature, until its
\* predecessor authorizes it: nothing takes it for a public bundle before.
Complete(bundle) == Shape(bundle, bundle.transition # {})

SelfSigned(private, kind) ==
  [account    |-> private.authority.account,
   generation |-> private.authority.generation,
   key        |-> private.key,
   kind       |-> kind,
   previous   |-> private.authority.generation - 1,
   transition |-> {}]

MayCreate(private, expected, kind) ==
  /\ ValidAuthority(expected)
  /\ MaySign(private, expected)
  /\ Shape(SelfSigned(private, kind), kind = "Rotation")

\* One link: the same account, and the generations are consecutive.
Succeeds(bundle, account, generation) ==
  /\ bundle.account = account
  /\ bundle.previous = generation
  /\ bundle.generation = generation + 1

MayAuthorize(private, expected, candidate) ==
  /\ MaySign(private, expected)
  /\ candidate.kind = "Rotation"
  /\ candidate.transition = {}
  /\ Shape(candidate, TRUE)
  /\ Succeeds(candidate, private.authority.account,
              private.authority.generation)

Authorized(private, candidate) ==
  [candidate EXCEPT !.transition = {private.key}]

-----------------------------------------------------------------------------
(* verify_continuity_response_v1: the set holds the result, or is empty when *)
(* the response is refused.                                                *)

Result(disposition, bundle) ==
  [disposition |-> disposition, bundle |-> bundle]

Before(pin, response, i) == IF i = 1 THEN pin ELSE response[i - 1]

\* Mutant: the transition signature is not verified.
RotatesFromAnyone(previous, bundle) == bundle.kind = "Rotation"

RotatesFrom(previous, bundle) ==
  /\ bundle.kind = "Rotation"
  /\ bundle.transition = {previous.key}

RotationChain(pin, response) ==
  \A i \in DOMAIN response :
    LET previous == Before(pin, response, i)
    IN  /\ Complete(response[i])
        /\ Succeeds(response[i], previous.account, previous.generation)
        /\ RotatesFrom(previous, response[i])

\* Mutant: the kind of a lone link is not looked at.
LoneLink(pin, response) ==
  /\ Len(response) = 1
  /\ Complete(response[1])
  /\ Succeeds(response[1], pin.account, pin.generation)

\* A reset is a new anchor, not a bridge: only alone, never inside a chain.
LoneReset(pin, response) ==
  /\ Len(response) = 1
  /\ Complete(response[1])
  /\ Succeeds(response[1], pin.account, pin.generation)
  /\ response[1].kind = "ContinuityReset"

FirstObservation(response) ==
  IF Len(response) = 1 /\ Complete(response[1])
    THEN {Result("FirstObservation", response[1])}
    ELSE {}

FromPin(pin, response) ==
  IF response = << >> THEN {Result("PinnedUnchanged", pin)}
  ELSE IF Len(response) > MaxLinks THEN {}
  ELSE IF LoneReset(pin, response)
       THEN {Result("ResetAnchorRequiresAcceptance", response[1])}
  ELSE IF RotationChain(pin, response)
       THEN {Result("RotationChainVerified", response[Len(response)])}
  ELSE {}

Reanchored(pin, response) ==
  IF Len(response) = 1 /\ Complete(response[1])
       /\ response[1].account = pin.account
    THEN {Result("ManualReanchorVerified", response[1])}
    ELSE {}

\* pins holds the pinned bundle, or nothing.
VerifyContinuity(pins, response, manual) ==
  IF pins = {}
    THEN IF manual THEN {} ELSE FirstObservation(response)
    ELSE UNION {IF manual THEN Reanchored(pin, response)
                          ELSE FromPin(pin, response) : pin \in pins}
=============================================================================
