------------------------ MODULE AccountEnvelopeProofs ------------------------
(***************************************************************************)
(* A key authorizes one successor at most and seals nothing afterwards,    *)
(* for every number of accounts, roots, contacts, keys and generations.    *)
(* The invariant follows a key: it is stored in one frame on one root, and *)
(* once a released bundle names it as predecessor that frame is retired.   *)
(***************************************************************************)
EXTENDS AccountEnvelope, SequenceTheorems, WellFoundedInduction, TLAPS

OwnerTypes ==
  /\ nextKey \in Nat
  /\ vault \in [Root -> SUBSET PrivateBundle]
  /\ candidates \subseteq PublicBundle
  /\ outbox \in [Root -> SUBSET PublicBundle]
  /\ published \subseteq PublicBundle

\* Every key stored anywhere has been drawn, and is stored once.
StoredOnce ==
  /\ \A r \in Root : \A p \in vault[r] : p.key < nextKey
  /\ \A r1, r2 \in Root : \A p1 \in vault[r1], p2 \in vault[r2] :
       p1.key = p2.key => r1 = r2 /\ p1 = p2

\* A key named as predecessor by a released bundle is retired.
PredecessorsRetired ==
  \A b \in Released : \A k \in b.transition :
    /\ b.transition = {k}
    /\ k < nextKey
    /\ \A r \in Root : \A p \in vault[r] :
         p.key = k => p.state = "RetiredDecryptOnly"

KeyInv == OwnerTypes /\ StoredOnce /\ PredecessorsRetired /\ SuccessorUnique

-----------------------------------------------------------------------------

LEMMA InitKeys == Init => KeyInv
  BY DEF Init, KeyInv, OwnerTypes, StoredOnce, PredecessorsRetired,
         SuccessorUnique, Released

\* What a created bundle and the private frame it belongs to are.
LEMMA CreatedTypes ==
  ASSUME NEW root \in Root, NEW kind \in {"Initial", "Rotation", "ContinuityReset"},
         NEW generation, NEW key \in Nat,
         ValidAuthority(Expected(root, generation))
  PROVE  LET private == Generated(Expected(root, generation), key)
         IN  /\ private \in PrivateBundle
             /\ private.key = key
             /\ SelfSigned(private, kind) \in PublicBundle
             /\ SelfSigned(private, kind).transition = {}
<1>1. generation \in 1..MaxGeneration /\ generation - 1 \in 0..MaxGeneration
  BY BundleAssumption DEF ValidAuthority, Expected
<1>2. Owner[root] \in Account
  BY EnvelopeAssumption
<1> QED
  BY <1>1, <1>2 DEF Generated, Expected, SelfSigned, PrivateBundle, Authority,
                    PublicBundle, Key

LEMMA RetiredTypes ==
  ASSUME NEW private \in PrivateBundle
  PROVE  /\ Retired(private) \in PrivateBundle
         /\ Retired(private).key = private.key
         /\ Retired(private).state = "RetiredDecryptOnly"
  BY DEF Retired, PrivateBundle

LEMMA AuthorizedTypes ==
  ASSUME NEW private \in PrivateBundle, NEW candidate \in PublicBundle
  PROVE  /\ Authorized(private, candidate) \in PublicBundle
         /\ Authorized(private, candidate).transition = {private.key}
  BY DEF Authorized, PublicBundle, PrivateBundle, Key

LEMMA StoredAt ==
  ASSUME KeyInv, NEW r1 \in Root, NEW r2 \in Root,
         NEW p1 \in vault[r1], NEW p2 \in vault[r2], p1.key = p2.key
  PROVE  r1 = r2 /\ p1 = p2
  BY DEF KeyInv, StoredOnce

(* The invariant depends on what is released, and on the stored frames. *)
LEMMA KeysFramed ==
  ASSUME KeyInv, OwnerTypes', nextKey' = nextKey, Released' \subseteq Released,
         \A r \in Root : vault'[r] \subseteq vault[r]
  PROVE  KeyInv'
<1>1. StoredOnce'
  BY DEF KeyInv, StoredOnce
<1>2. PredecessorsRetired'
  BY DEF KeyInv, PredecessorsRetired
<1>3. SuccessorUnique'
  BY DEF KeyInv, SuccessorUnique
<1> QED
  BY <1>1, <1>2, <1>3 DEF KeyInv

LEMMA GenerateKeys ==
  ASSUME KeyInv, NEW root \in Root,
         NEW kind \in {"Initial", "Rotation", "ContinuityReset"},
         Generate(root, kind)
  PROVE  KeyInv'
<1> DEFINE expected == Expected(root, Generations(Owner[root]) + 1)
           private == Generated(expected, nextKey)
           bundle == SelfSigned(private, kind)
<1>1. /\ private \in PrivateBundle /\ private.key = nextKey
      /\ bundle \in PublicBundle /\ bundle.transition = {}
  <2>1. ValidAuthority(expected) /\ nextKey \in Nat
    BY DEF Generate, MayCreate, KeyInv, OwnerTypes
  <2> QED
    BY <2>1, CreatedTypes
<1>2. /\ nextKey' = nextKey + 1
      /\ vault' = [vault EXCEPT ![root] = @ \cup {private}]
      /\ published' = published
      /\ candidates' \subseteq candidates \cup {bundle}
      /\ \/ outbox' = outbox
         \/ outbox' = [outbox EXCEPT ![root] = @ \cup {bundle}]
  BY DEF Generate
<1> HIDE DEF expected, private, bundle
<1>3. OwnerTypes'
  BY <1>1, <1>2 DEF KeyInv, OwnerTypes
<1>4. \A r \in Root : vault'[r] \subseteq vault[r] \cup {private}
  BY <1>2 DEF KeyInv, OwnerTypes
<1>5. \A r \in Root : r # root => vault'[r] = vault[r]
  BY <1>2 DEF KeyInv, OwnerTypes
<1>6. Released' \subseteq Released \cup {bundle}
  <2>1. \A r \in Root : outbox'[r] \subseteq outbox[r] \cup {bundle}
    BY <1>2 DEF KeyInv, OwnerTypes
  <2> QED
    BY <2>1, <1>2 DEF Released
<1>7. nextKey \in Nat
  BY DEF KeyInv, OwnerTypes
<1>8. StoredOnce'
  <2>1. \A r \in Root : \A p \in vault[r] : p.key < nextKey /\ p.key \in Nat
    BY DEF KeyInv, StoredOnce, OwnerTypes, PrivateBundle, Key
  <2>2. \A r \in Root : \A p \in vault'[r] : p.key < nextKey'
    BY <2>1, <1>1, <1>2, <1>4, <1>7
  <2>3. ASSUME NEW r1 \in Root, NEW r2 \in Root,
               NEW p1 \in vault'[r1], NEW p2 \in vault'[r2], p1.key = p2.key
        PROVE  r1 = r2 /\ p1 = p2
    <3>1. CASE p1 \in vault[r1] /\ p2 \in vault[r2]
      BY <3>1, <2>3 DEF KeyInv, StoredOnce
    <3>2. CASE p1 \notin vault[r1]
      <4>1. p1 = private /\ r1 = root
        BY <3>2, <1>4, <1>5
      <4>2. p2 \notin vault[r2]
        BY <4>1, <1>1, <2>1, <2>3, <1>7
      <4> QED
        BY <4>1, <4>2, <1>4, <1>5
    <3>3. CASE p2 \notin vault[r2]
      <4>1. p2 = private /\ r2 = root
        BY <3>3, <1>4, <1>5
      <4>2. p1 \notin vault[r1]
        BY <4>1, <1>1, <2>1, <2>3, <1>7
      <4> QED
        BY <4>1, <4>2, <1>4, <1>5
    <3> QED
      BY <3>1, <3>2, <3>3
  <2> QED
    BY <2>2, <2>3 DEF StoredOnce
<1>9. PredecessorsRetired'
  <2> SUFFICES ASSUME NEW b \in Released', NEW k \in b.transition
               PROVE  /\ b.transition = {k}
                      /\ k < nextKey'
                      /\ \A r \in Root : \A p \in vault'[r] :
                           p.key = k => p.state = "RetiredDecryptOnly"
    BY DEF PredecessorsRetired
  <2>1. b \in Released
    BY <1>6, <1>1
  <2>2. b.transition = {k} /\ k < nextKey
    BY <2>1 DEF KeyInv, PredecessorsRetired
  <2>3. k \in Nat
    BY <2>1, <2>2 DEF KeyInv, OwnerTypes, Released, PublicBundle, Key
  <2>4. \A r \in Root : \A p \in vault'[r] : p.key = k => p \in vault[r]
    BY <1>4, <1>1, <2>2, <2>3, <1>7
  <2> QED
    BY <2>1, <2>2, <2>3, <2>4, <1>2, <1>7 DEF KeyInv, PredecessorsRetired
<1>10. SuccessorUnique'
  BY <1>6, <1>1 DEF KeyInv, SuccessorUnique
<1> QED
  BY <1>3, <1>8, <1>9, <1>10 DEF KeyInv

LEMMA AuthorizeKeys ==
  ASSUME KeyInv, NEW root \in Root, NEW private \in vault[root],
         NEW candidate \in candidates, Authorize(root, private, candidate)
  PROVE  KeyInv'
<1> DEFINE retired == Retired(private)
           authorized == Authorized(private, candidate)
<1>1. private \in PrivateBundle /\ candidate \in PublicBundle
  BY DEF KeyInv, OwnerTypes
<1>2. /\ retired \in PrivateBundle
      /\ retired.key = private.key
      /\ retired.state = "RetiredDecryptOnly"
  BY <1>1, RetiredTypes
<1>3. /\ authorized \in PublicBundle
      /\ authorized.transition = {private.key}
  BY <1>1, AuthorizedTypes
<1>4. private.state = "ActiveFull"
  BY DEF Authorize, MayAuthorize, MaySign
<1>5. /\ nextKey' = nextKey /\ published' = published
      /\ candidates' = candidates
      /\ vault' = [vault EXCEPT ![root] = (@ \ {private}) \cup {retired}]
      /\ outbox' = [outbox EXCEPT ![root] = @ \cup {authorized}]
  BY DEF Authorize
<1> HIDE DEF retired, authorized
<1>6. OwnerTypes'
  BY <1>2, <1>3, <1>5 DEF KeyInv, OwnerTypes
<1>7. vault'[root] = (vault[root] \ {private}) \cup {retired}
  BY <1>5 DEF KeyInv, OwnerTypes
<1>8. \A r \in Root : r # root => vault'[r] = vault[r]
  BY <1>5 DEF KeyInv, OwnerTypes
<1>9. Released' \subseteq Released \cup {authorized}
  <2>1. \A r \in Root : outbox'[r] \subseteq outbox[r] \cup {authorized}
    BY <1>5 DEF KeyInv, OwnerTypes
  <2> QED
    BY <2>1, <1>5 DEF Released
\* Every stored frame stands in the place of one with the same key.
<1>10. \A r \in Root : \A p \in vault'[r] : \E q \in vault[r] :
         /\ p.key = q.key
         /\ q = private => r = root /\ p = retired
         /\ q # private => p = q
  <2> SUFFICES ASSUME NEW r \in Root, NEW p \in vault'[r]
               PROVE  \E q \in vault[r] :
                        /\ p.key = q.key
                        /\ q = private => r = root /\ p = retired
                        /\ q # private => p = q
    OBVIOUS
  <2>1. CASE r = root /\ p = retired
    BY <2>1, <1>2
  <2>2. CASE ~(r = root /\ p = retired)
    <3>1. p \in vault[r]
      BY <2>2, <1>7, <1>8
    <3>2. p # private
      <4>1. CASE r = root
        BY <4>1, <2>2, <1>7
      <4>2. CASE r # root
        BY <4>2, <3>1 DEF KeyInv, StoredOnce
      <4> QED
        BY <4>1, <4>2
    <3> QED
      BY <3>1, <3>2
  <2> QED
    BY <2>1, <2>2
<1>11. StoredOnce'
  <2>1. \A r \in Root : \A p \in vault'[r] : p.key < nextKey'
    BY <1>5, <1>10 DEF KeyInv, StoredOnce
  <2>2. ASSUME NEW r1 \in Root, NEW r2 \in Root,
               NEW p1 \in vault'[r1], NEW p2 \in vault'[r2], p1.key = p2.key
        PROVE  r1 = r2 /\ p1 = p2
    <3>1. PICK q1 \in vault[r1] : /\ p1.key = q1.key
                                  /\ q1 = private => r1 = root /\ p1 = retired
                                  /\ q1 # private => p1 = q1
      BY <1>10
    <3>2. PICK q2 \in vault[r2] : /\ p2.key = q2.key
                                  /\ q2 = private => r2 = root /\ p2 = retired
                                  /\ q2 # private => p2 = q2
      BY <1>10
    <3>3. q1.key = q2.key
      BY <2>2, <3>1, <3>2
    <3>4. r1 = r2 /\ q1 = q2
      BY <3>3, StoredAt
    <3> QED
      BY <3>1, <3>2, <3>4
  <2> QED
    BY <2>1, <2>2 DEF StoredOnce
<1>12. \A b \in Released : b.transition # {private.key}
  BY <1>4 DEF KeyInv, PredecessorsRetired
<1>13. PredecessorsRetired'
  <2> SUFFICES ASSUME NEW b \in Released', NEW k \in b.transition
               PROVE  /\ b.transition = {k}
                      /\ k < nextKey'
                      /\ \A r \in Root : \A p \in vault'[r] :
                           p.key = k => p.state = "RetiredDecryptOnly"
    BY DEF PredecessorsRetired
  <2>1. CASE b \in Released
    BY <2>1, <1>2, <1>5, <1>10 DEF KeyInv, PredecessorsRetired
  <2>2. CASE b = authorized
    <3>1. k = private.key /\ b.transition = {k}
      BY <2>2, <1>3
    <3>2. k < nextKey'
      BY <3>1, <1>5 DEF KeyInv, StoredOnce
    <3>3. ASSUME NEW r \in Root, NEW p \in vault'[r], p.key = k
          PROVE  p.state = "RetiredDecryptOnly"
      <4>1. PICK q \in vault[r] : /\ p.key = q.key
                                  /\ q = private => r = root /\ p = retired
                                  /\ q # private => p = q
        BY <1>10
      <4>2. q.key = private.key
        BY <4>1, <3>1, <3>3
      <4>3. q = private
        BY <4>2, StoredAt
      <4> QED
        BY <4>1, <4>3, <1>2
    <3> QED
      BY <3>1, <3>2, <3>3
  <2> QED
    BY <2>1, <2>2, <1>9
<1>14. SuccessorUnique'
  BY <1>3, <1>9, <1>12 DEF KeyInv, SuccessorUnique
<1> QED
  BY <1>6, <1>11, <1>13, <1>14 DEF KeyInv

LEMMA PublishKeys ==
  ASSUME KeyInv, NEW root \in Root, NEW bundle \in outbox[root], Publish(bundle)
  PROVE  KeyInv'
<1>1. /\ nextKey' = nextKey /\ vault' = vault /\ candidates' = candidates
      /\ outbox' = outbox /\ published' = published \cup {bundle}
  BY DEF Publish
<1>2. OwnerTypes'
  BY <1>1 DEF KeyInv, OwnerTypes
<1>3. Released' \subseteq Released
  BY <1>1 DEF Released
<1> QED
  BY <1>1, <1>2, <1>3, KeysFramed DEF KeyInv, OwnerTypes

LEMMA LoseKeys ==
  ASSUME KeyInv, NEW root \in Root, Lose(root)
  PROVE  KeyInv'
<1>1. /\ nextKey' = nextKey /\ published' = published /\ candidates' = candidates
      /\ vault' = [vault EXCEPT ![root] = {}]
      /\ outbox' = [outbox EXCEPT ![root] = {}]
  BY DEF Lose
<1>2. OwnerTypes'
  BY <1>1 DEF KeyInv, OwnerTypes
<1>3. \A r \in Root : vault'[r] \subseteq vault[r] /\ outbox'[r] \subseteq outbox[r]
  BY <1>1 DEF KeyInv, OwnerTypes
<1>4. Released' \subseteq Released
  BY <1>1, <1>3 DEF Released
<1> QED
  BY <1>1, <1>2, <1>3, <1>4, KeysFramed

LEMMA ContactsLeaveKeys ==
  ASSUME KeyInv, UNCHANGED ownerVars
  PROVE  KeyInv'
<1>1. Released' = Released
  BY DEF ownerVars, Released
<1> QED
  BY <1>1 DEF ownerVars, KeyInv, OwnerTypes, StoredOnce, PredecessorsRetired,
              SuccessorUnique

LEMMA ContactStepOwner ==
  ASSUME ContactStep PROVE UNCHANGED ownerVars
<1>1. PICK c \in Contact, a \in Account :
        \/ \E response \in Responses : Refresh(c, a, response)
        \/ \E bundle \in published : Reanchor(c, a, bundle)
        \/ /\ c \in Root
           /\ \E private \in vault[c], recipient \in pins[c][a], preview \in Typed :
                Seal(c, private, recipient, preview)
  BY DEF ContactStep
<1>2. ASSUME NEW response, Refresh(c, a, response) PROVE UNCHANGED ownerVars
  BY <1>2 DEF Refresh
<1>3. ASSUME NEW bundle, Reanchor(c, a, bundle) PROVE UNCHANGED ownerVars
  BY <1>3 DEF Reanchor
<1>4. ASSUME NEW private, NEW recipient, NEW preview,
             Seal(c, private, recipient, preview)
      PROVE  UNCHANGED ownerVars
  BY <1>4 DEF Seal
<1> QED
  BY <1>1, <1>2, <1>3, <1>4

LEMMA NextKeys == KeyInv /\ [Next]_vars => KeyInv'
<1> SUFFICES ASSUME KeyInv, [Next]_vars PROVE KeyInv'
  OBVIOUS
<1>1. CASE OwnerStep
  <2>1. PICK r \in Root :
          \/ \E kind \in {"Initial", "Rotation", "ContinuityReset"} :
               Generate(r, kind)
          \/ \E private \in vault[r], candidate \in candidates :
               Authorize(r, private, candidate)
          \/ \E bundle \in outbox[r] : Publish(bundle)
          \/ Lose(r)
    BY <1>1 DEF OwnerStep
  <2> QED
    BY <2>1, GenerateKeys, AuthorizeKeys, PublishKeys, LoseKeys
<1>2. CASE ContactStep
  BY <1>2, ContactStepOwner, ContactsLeaveKeys
<1>3. CASE UNCHANGED vars
  BY <1>3, ContactsLeaveKeys DEF vars
<1> QED
  BY <1>1, <1>2, <1>3 DEF Next

-----------------------------------------------------------------------------
(* What contacts pin.  Every pin hangs on its anchor by a chain of         *)
(* published rotations, one for each generation between them.              *)

Chain(links, from, to) ==
  /\ from.generation \in Nat /\ to.generation \in Nat
  /\ from.generation <= to.generation
  /\ links[from.generation] = from
  /\ links[to.generation] = to
  /\ \A g \in from.generation + 1 .. to.generation :
       /\ links[g] \in published
       /\ links[g].transition = {links[g - 1].key}

PinsChained ==
  /\ pins \in [Contact -> [Account -> SUBSET published]]
  /\ anchor \in [Contact -> [Account -> SUBSET published]]
  /\ \A c \in Contact, a \in Account : \A pin \in pins[c][a] :
       /\ pins[c][a] = {pin}
       /\ \E from \in anchor[c][a] :
            /\ anchor[c][a] = {from}
            /\ \E links : Chain(links, from, pin)

(* Every set of numbers that is not empty has a least member. *)
LEMMA LeastNumber ==
  ASSUME NEW T \in SUBSET Nat, T # {}
  PROVE  \E x \in T : \A y \in T : x <= y
<1>1. PICK x \in T : \A y \in T : ~(<<y, x>> \in OpToRel(<, Nat))
  BY NatLessThanWellFounded, WFMin
<1>2. \A y \in T : ~(y < x)
  BY <1>1 DEF OpToRel
<1> QED
  BY <1>2

(* Two chains from one bundle do not fork: where they first differed, one  *)
(* key would have authorized two successors.                               *)
LEMMA ChainsAgree ==
  ASSUME SuccessorUnique, NEW from, NEW to1, NEW to2, NEW links1, NEW links2,
         Chain(links1, from, to1), Chain(links2, from, to2),
         to1.generation = to2.generation
  PROVE  to1 = to2
<1> DEFINE T == {g \in from.generation .. to1.generation : links1[g] # links2[g]}
<1>1. from.generation \in Nat /\ to1.generation \in Nat
      /\ from.generation <= to1.generation
  BY DEF Chain
<1>2. T = {}
  <2> SUFFICES ASSUME T # {} PROVE FALSE
    OBVIOUS
  <2>1. PICK g \in T : \A h \in T : g <= h
    <3>1. T \in SUBSET Nat
      BY <1>1
    <3> HIDE DEF T
    <3> QED
      BY <3>1, LeastNumber
  <2>2. g # from.generation
    BY <2>1 DEF Chain
  <2>3. g \in from.generation + 1 .. to1.generation /\ g - 1 \in from.generation .. to1.generation
    BY <1>1, <2>2
  <2>4. links1[g - 1] = links2[g - 1]
    BY <1>1, <2>1, <2>3
  <2>5. /\ links1[g] \in published /\ links1[g].transition = {links1[g - 1].key}
        /\ links2[g] \in published /\ links2[g].transition = {links2[g - 1].key}
    BY <2>3 DEF Chain
  <2>6. links1[g] = links2[g]
    BY <2>4, <2>5 DEF SuccessorUnique, Released
  <2> QED
    BY <2>6
<1>3. to1.generation \in from.generation .. to1.generation
  BY <1>1
<1> QED
  BY <1>2, <1>3 DEF Chain

(* A verified response counts the generations up from the pin. *)
LEMMA ResponseCounts ==
  ASSUME NEW pin, pin.generation \in Nat, NEW response \in Seq(published),
         RotationChain(pin, response)
  PROVE  \A i \in 1 .. Len(response) : response[i].generation = pin.generation + i
<1> DEFINE T == {i \in 1 .. Len(response) : response[i].generation # pin.generation + i}
<1> SUFFICES ASSUME T # {} PROVE FALSE
  OBVIOUS
<1>1. PICK i \in T : \A j \in T : i <= j
  <2>1. T \in SUBSET Nat
    OBVIOUS
  <2> HIDE DEF T
  <2> QED
    BY <2>1, LeastNumber
<1>2. i \in DOMAIN response /\ i \in Nat /\ i >= 1 /\ i \in 1 .. Len(response)
  OBVIOUS
<1>3. response[i].generation = Before(pin, response, i).generation + 1
  BY <1>2 DEF RotationChain, Succeeds
<1>4. CASE i = 1
  BY <1>3, <1>4 DEF Before
<1>5. CASE i > 1
  <2>1. i - 1 \in 1 .. Len(response) /\ ~(i <= i - 1)
    BY <1>2, <1>5
  <2>2. response[i - 1].generation = pin.generation + (i - 1)
    BY <1>1, <2>1
  <2>3. Before(pin, response, i) = response[i - 1]
    BY <1>2, <1>5 DEF Before
  <2>4. response[i].generation = pin.generation + (i - 1) + 1
    BY <1>3, <2>2, <2>3
  <2>5. pin.generation + (i - 1) + 1 = pin.generation + i
    BY <1>2
  <2>6. response[i].generation # pin.generation + i
    OBVIOUS
  <2> QED
    BY <2>4, <2>5, <2>6
<1> QED
  BY <1>2, <1>4, <1>5

(* A verified response lengthens the chain behind the pin. *)
LEMMA ChainExtends ==
  ASSUME NEW from, NEW pin, NEW links, Chain(links, from, pin),
         NEW response \in Seq(published), Len(response) >= 1, RotationChain(pin, response)
  PROVE  \E longer : Chain(longer, from, response[Len(response)])
<1> DEFINE n == pin.generation
           m == Len(response)
           to == response[m]
           longer == [g \in from.generation .. n + m |->
                        IF g <= n THEN links[g] ELSE response[g - n]]
<1>1. /\ from.generation \in Nat /\ n \in Nat /\ m \in Nat /\ m >= 1
      /\ from.generation <= n
  BY DEF Chain
<1>2. \A i \in 1 .. m : response[i].generation = n + i
  BY <1>1, ResponseCounts
<1>3. to.generation = n + m
  BY <1>1, <1>2
<1> HIDE DEF m, n
<1>4. longer[from.generation] = from /\ longer[n + m] = to
  BY <1>1 DEF Chain
<1>5. ASSUME NEW g \in from.generation + 1 .. n + m
      PROVE  /\ longer[g] \in published
             /\ longer[g].transition = {longer[g - 1].key}
  <2>1. CASE g <= n
    <3>1. longer[g] = links[g] /\ longer[g - 1] = links[g - 1]
          /\ g \in from.generation + 1 .. n
      BY <1>1, <2>1
    <3> QED
      BY <3>1 DEF Chain, n
  <2>2. CASE g > n
    <3>1. g - n \in 1 .. m /\ g - n \in DOMAIN response /\ longer[g] = response[g - n]
      BY <1>1, <2>2 DEF m
    <3>2. response[g - n] \in published
          /\ response[g - n].transition = {Before(pin, response, g - n).key}
      BY <3>1 DEF RotationChain, RotatesFrom
    <3>3. longer[g - 1] = Before(pin, response, g - n)
      <4>1. CASE g - n = 1
        <5>1. longer[g - 1] = links[n]
          BY <1>1, <4>1
        <5> QED
          BY <4>1, <5>1 DEF Before, Chain, n
      <4>2. CASE g - n # 1
        BY <1>1, <2>2, <4>2 DEF Before
      <4> QED
        BY <4>1, <4>2
    <3> QED
      BY <3>1, <3>2, <3>3
  <2>3. g <= n \/ g > n
    BY <1>1
  <2> HIDE DEF longer
  <2> QED
    BY <2>1, <2>2, <2>3
<1> HIDE DEF longer, to
<1>6. Chain(longer, from, to)
  BY <1>1, <1>3, <1>4, <1>5 DEF Chain
<1> QED
  BY <1>6 DEF to, m

\* What is published stays published, and so do the chains.
LEMMA ChainsStay ==
  ASSUME published \subseteq published'
  PROVE  \A links, from, to : Chain(links, from, to) => Chain(links, from, to)'
  BY DEF Chain

LEMMA InitPins == Init => PinsChained
  BY DEF Init, PinsChained

LEMMA OwnerPins ==
  ASSUME PinsChained, UNCHANGED contactVars, published \subseteq published'
  PROVE  PinsChained'
<1>1. pins' = pins /\ anchor' = anchor
  BY DEF contactVars
<1>2. /\ pins' \in [Contact -> [Account -> SUBSET published']]
      /\ anchor' \in [Contact -> [Account -> SUBSET published']]
  <2>1. \A f \in [Contact -> [Account -> SUBSET published]] :
          f \in [Contact -> [Account -> SUBSET published']]
    OBVIOUS
  <2> QED
    BY <1>1, <2>1 DEF PinsChained
<1> QED
  BY <1>1, <1>2, ChainsStay DEF PinsChained

(* A contact moves its pin to a bundle that hangs on its anchor. *)
LEMMA PinMoved ==
  ASSUME PinsChained, NEW c \in Contact, NEW a \in Account, NEW bundle \in published,
         Pin(c, a, bundle), published' = published,
         NEW from \in published,
         \/ Trust(c, a, bundle) /\ from = bundle
         \/ anchor' = anchor /\ anchor[c][a] = {from},
         \E links : Chain(links, from, bundle)
  PROVE  PinsChained'
<1>1. /\ pins' \in [Contact -> [Account -> SUBSET published']]
      /\ anchor' \in [Contact -> [Account -> SUBSET published']]
  <2>1. ASSUME NEW f \in [Contact -> [Account -> SUBSET published]]
        PROVE  [f EXCEPT ![c][a] = {bundle}] \in [Contact -> [Account -> SUBSET published]]
    OBVIOUS
  <2>2. pins' \in [Contact -> [Account -> SUBSET published]]
    BY <2>1 DEF PinsChained, Pin
  <2>3. anchor' \in [Contact -> [Account -> SUBSET published]]
    <3>1. CASE anchor' = anchor
      BY <3>1 DEF PinsChained
    <3>2. CASE Trust(c, a, bundle)
      <4>1. anchor' = [anchor EXCEPT ![c][a] = {bundle}]
        BY <3>2 DEF Trust
      <4>2. anchor \in [Contact -> [Account -> SUBSET published]]
        BY DEF PinsChained
      <4> QED
        BY <4>1, <4>2, <2>1
    <3> QED
      BY <3>1, <3>2
  <2> QED
    BY <2>2, <2>3
<1>2. pins'[c][a] = {bundle} /\ anchor'[c][a] = {from}
  BY DEF PinsChained, Pin, Trust
<1>3. \A d \in Contact, b \in Account :
        d # c \/ b # a => pins'[d][b] = pins[d][b] /\ anchor'[d][b] = anchor[d][b]
  BY DEF PinsChained, Pin, Trust
<1>4. ASSUME NEW d \in Contact, NEW b \in Account, NEW pin \in pins'[d][b]
      PROVE  /\ pins'[d][b] = {pin}
             /\ \E start \in anchor'[d][b] :
                  /\ anchor'[d][b] = {start}
                  /\ \E links : Chain(links, start, pin)'
  <2>1. CASE d = c /\ b = a
    BY <2>1, <1>2, <1>4, ChainsStay
  <2>2. CASE d # c \/ b # a
    <3>1. pin \in pins[d][b] /\ pins'[d][b] = pins[d][b] /\ anchor'[d][b] = anchor[d][b]
      BY <2>2, <1>3, <1>4
    <3>2. PICK start \in anchor[d][b] :
            /\ pins[d][b] = {pin} /\ anchor[d][b] = {start}
            /\ \E links : Chain(links, start, pin)
      BY <3>1 DEF PinsChained
    <3>3. \E links : Chain(links, start, pin)'
      BY <3>2, ChainsStay
    <3> QED
      BY <3>1, <3>2, <3>3
  <2> QED
    BY <2>1, <2>2
<1> QED
  BY <1>1, <1>4 DEF PinsChained

LEMMA ChainOfOne ==
  ASSUME NEW bundle \in PublicBundle
  PROVE  \E links : Chain(links, bundle, bundle)
<1> DEFINE links == [g \in {bundle.generation} |-> bundle]
<1>1. bundle.generation \in Nat
  BY BundleAssumption DEF PublicBundle
<1>2. Chain(links, bundle, bundle)
  BY <1>1 DEF Chain
<1> QED
  BY <1>2

LEMMA ResponseTypes == Responses \subseteq Seq(published)
  BY DEF Responses, BoundedSeq, SeqOf

(* What VerifyContinuity answers without a manual decision. *)
LEMMA Answers ==
  ASSUME PinsChained, OwnerTypes, NEW c \in Contact, NEW a \in Account,
         NEW response \in Seq(published),
         NEW result \in VerifyContinuity(pins[c][a], response, FALSE)
  PROVE  /\ result.disposition = "FirstObservation" => result.bundle \in published
         /\ result.disposition = "RotationChainVerified" =>
              /\ result.bundle \in published
              /\ \E from \in anchor[c][a] :
                   /\ anchor[c][a] = {from}
                   /\ \E links : Chain(links, from, result.bundle)
<1>1. CASE pins[c][a] = {}
  <2>1. /\ Len(response) = 1
        /\ result = Result("FirstObservation", response[1])
    BY <1>1 DEF VerifyContinuity, FirstObservation
  <2> QED
    BY <2>1 DEF Result
<1>2. CASE pins[c][a] # {}
  <2>1. PICK pin \in pins[c][a] : result \in FromPin(pin, response)
    BY <1>2 DEF VerifyContinuity
  <2>2. PICK from \in anchor[c][a] :
          anchor[c][a] = {from} /\ \E links : Chain(links, from, pin)
    BY DEF PinsChained
  <2>3. \/ result = Result("PinnedUnchanged", pin)
        \/ result = Result("ResetAnchorRequiresAcceptance", response[1])
        \/ /\ response # << >> /\ RotationChain(pin, response)
           /\ result = Result("RotationChainVerified", response[Len(response)])
    BY <2>1 DEF FromPin
  <2>4. CASE result.disposition = "RotationChainVerified"
    <3>1. /\ Len(response) >= 1 /\ RotationChain(pin, response)
          /\ result.bundle = response[Len(response)]
      BY <2>3, <2>4 DEF Result
    <3>2. response[Len(response)] \in published
      BY <3>1
    <3>3. \E links : Chain(links, from, response[Len(response)])
      BY <2>2, <3>1, ChainExtends
    <3> QED
      BY <2>2, <2>4, <3>1, <3>2, <3>3
  <2>5. result.disposition # "FirstObservation"
    BY <2>3 DEF Result
  <2> QED
    BY <2>4, <2>5
<1> QED
  BY <1>1, <1>2

LEMMA RefreshPins ==
  ASSUME PinsChained, OwnerTypes, NEW c \in Contact, NEW a \in Account,
         NEW response \in Responses, Refresh(c, a, response)
  PROVE  PinsChained'
<1>1. PICK result \in VerifyContinuity(pins[c][a], response, FALSE) :
        /\ \/ result.disposition = "FirstObservation" /\ Trust(c, a, result.bundle)
           \/ result.disposition = "RotationChainVerified" /\ anchor' = anchor
        /\ Pin(c, a, result.bundle)
        /\ published' = published
  BY DEF Refresh, ownerVars
<1>2. response \in Seq(published)
  BY ResponseTypes
<1>3. CASE result.disposition = "FirstObservation"
  <2>1. result.bundle \in published /\ Trust(c, a, result.bundle)
    BY <1>1, <1>2, <1>3, Answers
  <2>2. \E links : Chain(links, result.bundle, result.bundle)
    BY <2>1, ChainOfOne DEF OwnerTypes
  <2> QED
    BY <1>1, <2>1, <2>2, PinMoved
<1>4. CASE result.disposition = "RotationChainVerified"
  <2>1. /\ result.bundle \in published /\ anchor' = anchor
        /\ \E from \in anchor[c][a] :
             /\ anchor[c][a] = {from}
             /\ \E links : Chain(links, from, result.bundle)
    BY <1>1, <1>2, <1>4, Answers
  <2>2. anchor[c][a] \subseteq published
    BY DEF PinsChained
  <2> QED
    BY <1>1, <2>1, <2>2, PinMoved
<1> QED
  BY <1>1, <1>3, <1>4

LEMMA ReanchorPins ==
  ASSUME PinsChained, OwnerTypes, NEW c \in Contact, NEW a \in Account,
         NEW bundle \in published, Reanchor(c, a, bundle)
  PROVE  PinsChained'
<1>1. PICK result \in VerifyContinuity(pins[c][a], <<bundle>>, TRUE) :
        Pin(c, a, result.bundle) /\ Trust(c, a, result.bundle) /\ published' = published
  BY DEF Reanchor, ownerVars
<1>2. result.bundle = bundle
  BY DEF VerifyContinuity, Reanchored, Result
<1>3. \E links : Chain(links, bundle, bundle)
  BY ChainOfOne DEF OwnerTypes
<1> QED
  BY <1>1, <1>2, <1>3, PinMoved

LEMMA NextPins == KeyInv /\ PinsChained /\ [Next]_vars => PinsChained'
<1> SUFFICES ASSUME KeyInv, PinsChained, [Next]_vars PROVE PinsChained'
  OBVIOUS
<1>1. CASE OwnerStep
  <2>1. published \subseteq published'
    BY <1>1 DEF OwnerStep, Generate, Authorize, Publish, Lose
  <2> QED
    BY <1>1, <2>1, OwnerPins DEF OwnerStep
<1>2. CASE ContactStep
  <2>1. PICK c \in Contact, a \in Account :
          \/ \E response \in Responses : Refresh(c, a, response)
          \/ \E bundle \in published : Reanchor(c, a, bundle)
          \/ \E private, recipient, preview : Seal(c, private, recipient, preview)
    BY <1>2 DEF ContactStep
  <2>2. ASSUME NEW private, NEW recipient, NEW preview, Seal(c, private, recipient, preview)
        PROVE  UNCHANGED contactVars /\ published' = published
    BY <2>2 DEF Seal, ownerVars
  <2> QED
    BY <2>1, <2>2, RefreshPins, ReanchorPins, OwnerPins DEF KeyInv
<1>3. CASE UNCHANGED vars
  BY <1>3, OwnerPins DEF vars, ownerVars
<1> QED
  BY <1>1, <1>2, <1>3 DEF Next

-----------------------------------------------------------------------------
(* Which account and generation every key is for: the triples that any     *)
(* bundle or envelope names.                                               *)

Named ==
  {<<b.key, b.account, b.generation>> : b \in candidates \cup Released}
    \cup {<<p.key, p.authority.account, p.authority.generation>> :
            p \in UNION {vault[r] : r \in Root}}
    \cup {<<e.signedBy, e.sender.account, e.sender.generation>> : e \in envelopes}
    \cup {<<e.sealedTo, e.recipient.account, e.recipient.generation>> : e \in envelopes}

EnvelopeInv ==
  /\ \A x \in Named : x[1] < nextKey /\ x[1] \in Nat
  /\ \A x, y \in Named : x[1] = y[1] => x = y
  /\ \A r \in Root : \A p \in vault[r] : p.authority.root = r
  /\ \A b \in Released : Complete(b)
  /\ \A e \in envelopes : \E preview \in Typed :
       MaySeal(preview) /\ e.inner = Canonical(preview)

LEMMA InitEnvelopes == Init => EnvelopeInv
<1> SUFFICES ASSUME Init PROVE EnvelopeInv
  OBVIOUS
<1>1. candidates = {} /\ Released = {} /\ envelopes = {} /\ \A r \in Root : vault[r] = {}
  BY DEF Init, Released
<1>2. Named = {}
  BY <1>1 DEF Named
<1> QED
  BY <1>1, <1>2 DEF EnvelopeInv

(* A step that names only keys as they were named, or the one it draws.    *)
LEMMA NamedOnce ==
  ASSUME EnvelopeInv, nextKey \in Nat, NEW drawn, drawn[1] = nextKey,
         \/ Named' \subseteq Named /\ nextKey' = nextKey
         \/ Named' \subseteq Named \cup {drawn} /\ nextKey' = nextKey + 1
  PROVE  /\ \A x \in Named' : x[1] < nextKey' /\ x[1] \in Nat
         /\ \A x, y \in Named' : x[1] = y[1] => x = y
<1>1. \A x \in Named : x[1] < nextKey /\ x[1] \in Nat
  BY DEF EnvelopeInv
<1>2. \A x, y \in Named : x[1] = y[1] => x = y
  BY DEF EnvelopeInv
<1>3. CASE Named' \subseteq Named /\ nextKey' = nextKey
  BY <1>1, <1>2, <1>3
<1>4. CASE Named' \subseteq Named \cup {drawn} /\ nextKey' = nextKey + 1
  <2>1. \A x \in Named : x[1] # drawn[1]
    BY <1>1
  <2>2. \A x, y \in Named \cup {drawn} : x[1] = y[1] => x = y
    BY <1>2, <2>1
  <2> QED
    BY <1>1, <1>4, <2>2
<1> QED
  BY <1>3, <1>4

LEMMA GenerateEnvelopes ==
  ASSUME KeyInv, EnvelopeInv, NEW root \in Root,
         NEW kind \in {"Initial", "Rotation", "ContinuityReset"},
         Generate(root, kind), envelopes' = envelopes
  PROVE  EnvelopeInv'
<1> DEFINE expected == Expected(root, Generations(Owner[root]) + 1)
           private == Generated(expected, nextKey)
           bundle == SelfSigned(private, kind)
           drawn == <<nextKey, expected.account, expected.generation>>
<1>1. /\ private.key = nextKey /\ private.authority = expected /\ expected.root = root
      /\ bundle.key = nextKey /\ bundle.account = expected.account
      /\ bundle.generation = expected.generation /\ bundle.transition = {}
      /\ bundle.kind = kind
  BY DEF Expected, Generated, SelfSigned
<1>2. /\ nextKey' = nextKey + 1
      /\ vault' = [vault EXCEPT ![root] = @ \cup {private}]
      /\ published' = published
      /\ candidates' \subseteq candidates \cup {bundle}
      /\ \/ outbox' = outbox
         \/ kind # "Rotation" /\ outbox' = [outbox EXCEPT ![root] = @ \cup {bundle}]
      /\ Shape(bundle, kind = "Rotation")
  BY DEF Generate, MayCreate
<1>3. drawn[1] = nextKey /\ nextKey \in Nat
  BY DEF KeyInv, OwnerTypes
<1> HIDE DEF expected, private, bundle
<1>4. \A r \in Root : vault'[r] \subseteq vault[r] \cup {private} /\ (r # root => vault'[r] = vault[r])
  BY <1>2 DEF KeyInv, OwnerTypes
<1>5. /\ Released' \subseteq Released \cup {bundle}
      /\ bundle \in Released' => bundle \in Released \/ kind # "Rotation"
  <2>1. \A r \in Root : outbox'[r] \subseteq outbox[r] \cup {bundle}
    BY <1>2 DEF KeyInv, OwnerTypes
  <2> QED
    BY <2>1, <1>2 DEF Released
<1>6. Named' \subseteq Named \cup {drawn}
  <2>1. ASSUME NEW b \in candidates' \cup Released'
        PROVE  <<b.key, b.account, b.generation>> \in Named \cup {drawn}
    <3>1. b \in candidates \cup Released \/ b = bundle
      BY <1>2, <1>5
    <3> QED
      BY <3>1, <1>1 DEF Named
  <2>2. ASSUME NEW p \in UNION {vault'[r] : r \in Root}
        PROVE  <<p.key, p.authority.account, p.authority.generation>> \in Named \cup {drawn}
    <3>1. p \in UNION {vault[r] : r \in Root} \/ p = private
      BY <1>4
    <3> QED
      BY <3>1, <1>1 DEF Named
  <2> QED
    BY <2>1, <2>2 DEF Named
<1> HIDE DEF drawn
<1>7. /\ \A x \in Named' : x[1] < nextKey' /\ x[1] \in Nat
      /\ \A x, y \in Named' : x[1] = y[1] => x = y
  BY <1>2, <1>3, <1>6, NamedOnce
<1>8. \A r \in Root : \A p \in vault'[r] : p.authority.root = r
  BY <1>1, <1>4 DEF EnvelopeInv
<1>9. \A b \in Released' : Complete(b)
  <2>1. bundle \in Released' => Complete(bundle)
    BY <1>1, <1>2, <1>5 DEF EnvelopeInv, Complete
  <2> QED
    BY <2>1, <1>5 DEF EnvelopeInv
<1> QED
  BY <1>7, <1>8, <1>9 DEF EnvelopeInv

LEMMA AuthorizeEnvelopes ==
  ASSUME KeyInv, EnvelopeInv, NEW root \in Root, NEW private \in vault[root],
         NEW candidate \in candidates, Authorize(root, private, candidate),
         envelopes' = envelopes
  PROVE  EnvelopeInv'
<1> DEFINE retired == Retired(private)
           authorized == Authorized(private, candidate)
<1>1. private \in PrivateBundle /\ candidate \in PublicBundle
  BY DEF KeyInv, OwnerTypes
<1>2. retired.key = private.key /\ retired.authority = private.authority
  BY <1>1 DEF Retired, PrivateBundle
<1>3. /\ authorized.key = candidate.key /\ authorized.account = candidate.account
      /\ authorized.generation = candidate.generation
      /\ authorized.previous = candidate.previous
      /\ authorized.kind = candidate.kind /\ authorized.transition # {}
  BY <1>1 DEF Authorized, PublicBundle
<1>4. Complete(authorized)
  BY <1>3 DEF Authorize, MayAuthorize, Shape, Complete
<1>5. /\ nextKey' = nextKey /\ published' = published /\ candidates' = candidates
      /\ vault' = [vault EXCEPT ![root] = (@ \ {private}) \cup {retired}]
      /\ outbox' = [outbox EXCEPT ![root] = @ \cup {authorized}]
  BY DEF Authorize
<1> HIDE DEF retired, authorized
<1>6. /\ vault'[root] = (vault[root] \ {private}) \cup {retired}
      /\ \A r \in Root : r # root => vault'[r] = vault[r]
  BY <1>5 DEF KeyInv, OwnerTypes
<1>7. Released' \subseteq Released \cup {authorized}
  <2>1. \A r \in Root : outbox'[r] \subseteq outbox[r] \cup {authorized}
    BY <1>5 DEF KeyInv, OwnerTypes
  <2> QED
    BY <2>1, <1>5 DEF Released
<1>8. Named' \subseteq Named
  <2>1. ASSUME NEW b \in candidates' \cup Released'
        PROVE  <<b.key, b.account, b.generation>> \in Named
    <3>1. b \in candidates \cup Released \/ b = authorized
      BY <1>5, <1>7
    <3> QED
      BY <3>1, <1>3 DEF Named
  <2>2. ASSUME NEW p \in UNION {vault'[r] : r \in Root}
        PROVE  <<p.key, p.authority.account, p.authority.generation>> \in Named
    <3>1. p \in UNION {vault[r] : r \in Root} \/ p = retired
      BY <1>6
    <3> QED
      BY <3>1, <1>2 DEF Named
  <2> QED
    BY <2>1, <2>2 DEF Named
<1>9. /\ \A x \in Named' : x[1] < nextKey' /\ x[1] \in Nat
      /\ \A x, y \in Named' : x[1] = y[1] => x = y
  BY <1>5, <1>8 DEF EnvelopeInv
<1>10. \A r \in Root : \A p \in vault'[r] : p.authority.root = r
  BY <1>2, <1>6 DEF EnvelopeInv
<1>11. \A b \in Released' : Complete(b)
  BY <1>4, <1>7 DEF EnvelopeInv
<1> QED
  BY <1>9, <1>10, <1>11 DEF EnvelopeInv

(* A step that releases and stores nothing new names nothing new.          *)
LEMMA EnvelopesFramed ==
  ASSUME EnvelopeInv, nextKey' = nextKey, Named' \subseteq Named,
         Released' \subseteq Released, \A r \in Root : vault'[r] \subseteq vault[r],
         \A e \in envelopes' : e \in envelopes \/ \E preview \in Typed :
            MaySeal(preview) /\ e.inner = Canonical(preview)
  PROVE  EnvelopeInv'
  BY DEF EnvelopeInv

LEMMA LessNamed ==
  ASSUME candidates' = candidates, Released' \subseteq Released, envelopes' = envelopes,
         \A r \in Root : vault'[r] \subseteq vault[r]
  PROVE  Named' \subseteq Named
<1>1. UNION {vault'[r] : r \in Root} \subseteq UNION {vault[r] : r \in Root}
  OBVIOUS
<1> QED
  BY <1>1 DEF Named

LEMMA OwnerEnvelopes ==
  ASSUME KeyInv, EnvelopeInv, OwnerStep
  PROVE  EnvelopeInv'
<1>1. envelopes' = envelopes
  BY DEF OwnerStep
<1>2. PICK r \in Root :
        \/ \E kind \in {"Initial", "Rotation", "ContinuityReset"} : Generate(r, kind)
        \/ \E private \in vault[r], candidate \in candidates :
             Authorize(r, private, candidate)
        \/ \E bundle \in outbox[r] : Publish(bundle)
        \/ Lose(r)
  BY DEF OwnerStep
<1>3. ASSUME NEW bundle \in outbox[r], Publish(bundle) PROVE EnvelopeInv'
  <2>1. nextKey' = nextKey /\ vault' = vault /\ candidates' = candidates
        /\ Released' \subseteq Released
    BY <1>3 DEF Publish, Released
  <2> QED
    BY <1>1, <2>1, EnvelopesFramed, LessNamed
<1>4. ASSUME Lose(r) PROVE EnvelopeInv'
  <2>1. /\ nextKey' = nextKey /\ candidates' = candidates /\ published' = published
        /\ \A q \in Root : vault'[q] \subseteq vault[q] /\ outbox'[q] \subseteq outbox[q]
    BY <1>4 DEF Lose, KeyInv, OwnerTypes
  <2>2. Released' \subseteq Released
    BY <2>1 DEF Released
  <2> QED
    BY <1>1, <2>1, <2>2, EnvelopesFramed, LessNamed
<1> QED
  BY <1>1, <1>2, <1>3, <1>4, GenerateEnvelopes, AuthorizeEnvelopes

(* An envelope names a stored frame's authority and a pinned bundle's.     *)
LEMMA SealEnvelopes ==
  ASSUME PinsChained, EnvelopeInv, NEW root \in Root, NEW private \in vault[root],
         NEW contact \in Contact, NEW account \in Account,
         NEW recipient \in pins[contact][account], NEW preview \in Typed,
         Seal(root, private, recipient, preview)
  PROVE  EnvelopeInv'
<1> DEFINE new == [sender    |-> [account    |-> private.authority.account,
                                  generation |-> private.authority.generation],
                   signedBy  |-> private.key,
                   recipient |-> [account    |-> recipient.account,
                                  generation |-> recipient.generation],
                   sealedTo  |-> recipient.key,
                   inner     |-> Canonical(preview)]
<1>1. /\ MaySeal(preview) /\ envelopes' = envelopes \cup {new}
      /\ nextKey' = nextKey /\ vault' = vault /\ candidates' = candidates
      /\ Released' = Released
  BY DEF Seal, ownerVars, Released
<1>2. /\ new.signedBy = private.key /\ new.sender.account = private.authority.account
      /\ new.sender.generation = private.authority.generation
      /\ new.sealedTo = recipient.key /\ new.recipient.account = recipient.account
      /\ new.recipient.generation = recipient.generation
      /\ new.inner = Canonical(preview)
  OBVIOUS
<1> HIDE DEF new
<1>3. recipient \in Released
  BY DEF PinsChained, Released
<1>4. private \in UNION {vault[r] : r \in Root}
  OBVIOUS
<1>5. /\ <<new.signedBy, new.sender.account, new.sender.generation>> \in Named
      /\ <<new.sealedTo, new.recipient.account, new.recipient.generation>> \in Named
  BY <1>2, <1>3, <1>4 DEF Named
<1>6. Named' \subseteq Named
  BY <1>1, <1>5 DEF Named
<1>7. \A e \in envelopes' : e \in envelopes \/ \E p \in Typed :
         MaySeal(p) /\ e.inner = Canonical(p)
  BY <1>1, <1>2
<1> QED
  BY <1>1, <1>6, <1>7, EnvelopesFramed

LEMMA NextEnvelopes ==
  KeyInv /\ PinsChained /\ EnvelopeInv /\ [Next]_vars => EnvelopeInv'
<1> SUFFICES ASSUME KeyInv, PinsChained, EnvelopeInv, [Next]_vars PROVE EnvelopeInv'
  OBVIOUS
<1>1. CASE OwnerStep
  BY <1>1, OwnerEnvelopes
<1>2. ASSUME UNCHANGED <<ownerVars, envelopes>> PROVE EnvelopeInv'
  <2>1. nextKey' = nextKey /\ vault' = vault /\ candidates' = candidates
        /\ Released' = Released /\ envelopes' = envelopes
    BY <1>2 DEF ownerVars, Released
  <2> QED
    BY <2>1, EnvelopesFramed, LessNamed
<1>3. CASE ContactStep
  <2>1. PICK c \in Contact, a \in Account :
          \/ \E response \in Responses : Refresh(c, a, response)
          \/ \E bundle \in published : Reanchor(c, a, bundle)
          \/ /\ c \in Root
             /\ \E private \in vault[c], recipient \in pins[c][a], preview \in Typed :
                  Seal(c, private, recipient, preview)
    BY <1>3 DEF ContactStep
  <2>2. ASSUME NEW response, Refresh(c, a, response) PROVE UNCHANGED <<ownerVars, envelopes>>
    BY <2>2 DEF Refresh
  <2>3. ASSUME NEW bundle, Reanchor(c, a, bundle) PROVE UNCHANGED <<ownerVars, envelopes>>
    BY <2>3 DEF Reanchor
  <2> QED
    BY <1>2, <2>1, <2>2, <2>3, SealEnvelopes
<1>4. CASE UNCHANGED vars
  BY <1>2, <1>4 DEF vars
<1> QED
  BY <1>1, <1>3, <1>4 DEF Next

-----------------------------------------------------------------------------
(* The texts of a preview.  Trimming and composing leave no white space at *)
(* the ends of a text that had any other character.                        *)

Starts(text) == text # << >> /\ text[1] \notin WhiteSpace

Ends(text) == text # << >> /\ text[Len(text)] \notin WhiteSpace

LEMMA TrimmedEnds ==
  ASSUME NEW text \in Seq(Char), Trimmed(text) # << >>
  PROVE  /\ Trimmed(text) \in Seq(Char)
         /\ Starts(Trimmed(text)) /\ Ends(Trimmed(text))
<1> DEFINE kept == {i \in DOMAIN text : text[i] \notin WhiteSpace}
           first == CHOOSE i \in kept : \A j \in kept : i <= j
           last == CHOOSE i \in kept : \A j \in kept : i >= j
<1>1. kept # {} /\ Trimmed(text) = SubSeq(text, first, last)
  BY DEF Trimmed
<1>2. kept \in SUBSET Nat /\ kept \subseteq 1 .. Len(text) /\ Len(text) \in Nat
  OBVIOUS
<1>3. first \in kept /\ \A j \in kept : first <= j
  <2>1. \E i \in kept : \A j \in kept : i <= j
    <3> HIDE DEF kept
    <3> QED
      BY <1>1, <1>2, LeastNumber
  <2> QED
    BY <2>1
<1>4. last \in kept /\ \A j \in kept : last >= j
  <2> DEFINE above == {n \in Nat : \A i \in kept : i <= n}
  <2> HIDE DEF kept
  <2>1. Len(text) \in above
    BY <1>2
  <2>2. PICK n \in above : \A m \in above : n <= m
    <3>1. above \in SUBSET Nat /\ above # {}
      BY <2>1
    <3> HIDE DEF above
    <3> QED
      BY <3>1, LeastNumber
  <2>3. n \in kept
    <3> SUFFICES ASSUME n \notin kept PROVE FALSE
      OBVIOUS
    <3>1. \A i \in kept : i <= n - 1
      BY <1>2, <2>2
    <3>2. PICK i \in kept : i \in Nat
      BY <1>1, <1>2
    <3>3. n - 1 \in Nat
      BY <2>2, <3>1, <3>2
    <3> QED
      BY <2>2, <3>1, <3>3
  <2>4. \E i \in kept : \A j \in kept : i >= j
    BY <1>2, <2>2, <2>3
  <2> QED
    BY <2>4
<1>5. text[first] \notin WhiteSpace /\ text[last] \notin WhiteSpace
  BY <1>3, <1>4
<1> HIDE DEF first, last
<1>6. first \in 1 .. Len(text) /\ last \in 1 .. Len(text) /\ first <= last
  BY <1>2, <1>3, <1>4
<1> HIDE DEF kept
<1> DEFINE trimmed == SubSeq(text, first, last)
<1>7. /\ trimmed \in Seq(Char) /\ Len(trimmed) = last - first + 1
      /\ \A i \in 1 .. last - first + 1 : trimmed[i] = text[first + i - 1]
  BY <1>6
<1>8. Len(trimmed) >= 1 /\ trimmed[1] = text[first] /\ trimmed[Len(trimmed)] = text[last]
  BY <1>6, <1>7
<1> QED
  BY <1>1, <1>5, <1>7, <1>8 DEF Starts, Ends

LEMMA FrontTypes ==
  ASSUME NEW text \in Seq(Char), Len(text) >= 1
  PROVE  LET front == SubSeq(text, 1, Len(text) - 1)
         IN  /\ front \in Seq(Char) /\ Len(front) = Len(text) - 1
             /\ \A i \in 1 .. Len(text) - 1 : front[i] = text[i]
<1> DEFINE n == Len(text) - 1
<1>1. n \in Nat /\ 1 \in Int /\ n \in Int /\ \A i \in 1 .. n : text[i] \in Char
  OBVIOUS
<1> HIDE DEF n
<1>2. /\ SubSeq(text, 1, n) \in Seq(Char)
      /\ Len(SubSeq(text, 1, n)) = IF 1 <= n THEN n - 1 + 1 ELSE 0
      /\ \A i \in 1 .. n - 1 + 1 : SubSeq(text, 1, n)[i] = text[1 + i - 1]
  BY <1>1, SubSeqProperties
<1>3. n - 1 + 1 = n /\ (~(1 <= n) => n = 0) /\ \A i \in 1 .. n : 1 + i - 1 = i
  BY <1>1
<1> QED
  BY <1>1, <1>2, <1>3 DEF n

(* Reading one more character of a text: what was composed so far ends in  *)
(* no more white space than the character does.                            *)
LEMMA ComposeEnds ==
  ASSUME NEW text \in Seq(Char), NEW char \in Char
  PROVE  /\ Compose(text, char) \in Seq(Char)
         /\ Compose(text, char) # << >>
         /\ char \notin WhiteSpace => Ends(Compose(text, char))
         /\ Starts(text) \/ (text = << >> /\ char \notin WhiteSpace)
              => Starts(Compose(text, char))
<1>1. CASE char = "acute" /\ text # << >> /\ Last(text) = "e"
  <2> DEFINE front == SubSeq(text, 1, Len(text) - 1)
             result == Append(front, "e_acute")
  <2>1. Compose(text, char) = result
    BY <1>1 DEF Compose, Front
  <2>2. Len(text) \in Nat /\ Len(text) >= 1
    BY <1>1
  <2>3. /\ front \in Seq(Char) /\ Len(front) = Len(text) - 1
        /\ \A i \in 1 .. Len(text) - 1 : front[i] = text[i]
    BY <2>2, FrontTypes
  <2>4. "e_acute" \in Char /\ "e_acute" \notin WhiteSpace
    BY DEF Char, WhiteSpace
  <2> HIDE DEF front
  <2>5. /\ result \in Seq(Char) /\ Len(result) = Len(text)
        /\ result[Len(text)] = "e_acute"
        /\ \A i \in 1 .. Len(text) - 1 : result[i] = text[i]
    BY <2>2, <2>3, <2>4
  <2>6. result # << >> /\ Ends(result)
    BY <2>2, <2>4, <2>5 DEF Ends
  <2>7. Starts(text) => Starts(result)
    <3>1. CASE Len(text) = 1
      BY <2>4, <2>5, <2>6, <3>1 DEF Starts
    <3>2. CASE Len(text) # 1
      BY <2>2, <2>5, <2>6, <3>2 DEF Starts
    <3> QED
      BY <3>1, <3>2
  <2> QED
    BY <1>1, <2>1, <2>5, <2>6, <2>7
<1>2. CASE ~(char = "acute" /\ text # << >> /\ Last(text) = "e")
  <2> DEFINE result == Append(text, char)
  <2>1. Compose(text, char) = result
    BY <1>2 DEF Compose
  <2>2. /\ result \in Seq(Char) /\ Len(result) = Len(text) + 1
        /\ result[Len(text) + 1] = char
        /\ \A i \in 1 .. Len(text) : result[i] = text[i]
    OBVIOUS
  <2>3. Len(text) \in Nat /\ (text # << >> => Len(text) >= 1) /\ (text = << >> => Len(text) = 0)
    OBVIOUS
  <2> HIDE DEF result
  <2>4. result # << >>
    BY <2>2, <2>3
  <2>5. char \notin WhiteSpace => Ends(result)
    BY <2>2, <2>4 DEF Ends
  <2>6. Starts(text) \/ (text = << >> /\ char \notin WhiteSpace) => Starts(result)
    BY <2>2, <2>3, <2>4 DEF Starts
  <2> QED
    BY <2>1, <2>2, <2>4, <2>5, <2>6
<1> QED
  BY <1>1, <1>2

\* `read` composes the first n characters of the text, one by one.
Reads(read, text, n) ==
  read = [i \in 0 .. n |-> IF i = 0 THEN << >> ELSE Compose(read[i - 1], text[i])]

Reading(text) == CHOOSE read : Reads(read, text, Len(text))

LEMMA ReadingExists ==
  ASSUME NEW text, Len(text) \in Nat
  PROVE  Reads(Reading(text), text, Len(text))
<1> DEFINE T == {n \in Nat : ~ \E read : Reads(read, text, n)}
<1>1. T = {}
  <2> SUFFICES ASSUME T # {} PROVE FALSE
    OBVIOUS
  <2>1. PICK n \in T : \A m \in T : n <= m
    <3>1. T \in SUBSET Nat
      OBVIOUS
    <3> HIDE DEF T
    <3> QED
      BY <3>1, LeastNumber
  <2>2. CASE n = 0
    <3> DEFINE read == [i \in 0 .. 0 |-> << >>]
    <3>1. Reads(read, text, 0)
      BY DEF Reads
    <3> QED
      BY <2>1, <2>2, <3>1
  <2>3. CASE n # 0
    <3>1. n \in Nat /\ n - 1 \in Nat /\ ~(n <= n - 1)
      BY <2>3
    <3>2. PICK read : Reads(read, text, n - 1)
      BY <2>1, <3>1
    <3> DEFINE longer == [i \in 0 .. n |->
                            IF i = n THEN Compose(read[n - 1], text[n]) ELSE read[i]]
    <3>3. ASSUME NEW i \in 0 .. n
          PROVE  longer[i] = IF i = 0 THEN << >> ELSE Compose(longer[i - 1], text[i])
      <4>1. CASE i = n
        <5>1. n - 1 \in 0 .. n /\ n - 1 # n
          BY <3>1
        <5> QED
          BY <2>3, <4>1, <5>1
      <4>2. CASE i # n
        <5>1. i \in 0 .. n - 1 /\ (i # 0 => i - 1 \in 0 .. n /\ i - 1 # n)
          BY <3>1, <4>2
        <5>2. read[i] = IF i = 0 THEN << >> ELSE Compose(read[i - 1], text[i])
          BY <3>2, <5>1, Zenon DEF Reads
        <5> QED
          BY <4>2, <5>1, <5>2
      <4> QED
        BY <4>1, <4>2
    <3>4. longer = [i \in 0 .. n |-> longer[i]]
      OBVIOUS
    <3> HIDE DEF longer
    <3>5. Reads(longer, text, n)
      BY <3>3, <3>4 DEF Reads
    <3> QED
      BY <2>1, <3>5
  <2> QED
    BY <2>2, <2>3
<1>2. \E read : Reads(read, text, Len(text))
  BY <1>1
<1> QED
  BY <1>2 DEF Reading

LEMMA NfcIsReading ==
  ASSUME NEW text
  PROVE  Nfc(text) = Reading(text)[Len(text)]
  BY DEF Nfc, Reading, Reads

(* Composing keeps the ends of a text clear of white space.                *)
LEMMA NfcEnds ==
  ASSUME NEW text \in Seq(Char), Starts(text), Ends(text)
  PROVE  /\ Nfc(text) \in Seq(Char)
         /\ Starts(Nfc(text)) /\ Ends(Nfc(text))
<1> DEFINE read == Reading(text)
           L == Len(text)
           Good(n) == /\ read[n] \in Seq(Char)
                      /\ IF n = 0 THEN read[n] = << >> ELSE Starts(read[n])
           T == {n \in 0 .. L : ~Good(n)}
<1>1. L \in Nat /\ L >= 1
  BY DEF Starts
<1>2. \A n \in 0 .. L : read[n] = IF n = 0 THEN << >> ELSE Compose(read[n - 1], text[n])
  <2>1. Reads(read, text, L)
    BY <1>1, ReadingExists
  <2> HIDE DEF read, L
  <2> QED
    BY <2>1, Zenon DEF Reads
<1> HIDE DEF read
<1>3. T = {}
  <2> SUFFICES ASSUME T # {} PROVE FALSE
    OBVIOUS
  <2>1. PICK n \in T : \A m \in T : n <= m
    <3>1. T \in SUBSET Nat
      BY <1>1
    <3> HIDE DEF T
    <3> QED
      BY <3>1, LeastNumber
  <2>2. n # 0
    <3>1. read[0] = << >> /\ << >> \in Seq(Char)
      BY <1>1, <1>2
    <3>2. Good(0)
      BY <3>1
    <3> QED
      BY <2>1, <3>2
  <2>3. n \in 1 .. L /\ n - 1 \in 0 .. L /\ n - 1 \notin T
    BY <1>1, <2>1, <2>2
  <2>4. /\ read[n - 1] \in Seq(Char)
        /\ IF n - 1 = 0 THEN read[n - 1] = << >> ELSE Starts(read[n - 1])
    BY <2>3
  <2>5. text[n] \in Char
    BY <2>3
  <2>6. Starts(read[n - 1]) \/ (read[n - 1] = << >> /\ text[n] \notin WhiteSpace)
    <3>1. CASE n - 1 = 0
      BY <2>3, <2>4, <3>1 DEF Starts
    <3>2. CASE n - 1 # 0
      BY <1>1, <2>3, <2>4, <3>2
    <3> QED
      BY <3>1, <3>2
  <2>7. read[n] = Compose(read[n - 1], text[n])
    BY <1>2, <2>2, <2>3
  <2>8. read[n] \in Seq(Char) /\ Starts(read[n])
    BY <2>4, <2>5, <2>6, <2>7, ComposeEnds
  <2> QED
    BY <2>1, <2>2, <2>8
<1>4. read[L] \in Seq(Char) /\ Starts(read[L]) /\ read[L - 1] \in Seq(Char)
  BY <1>1, <1>3
<1>5. Ends(read[L])
  <2>1. read[L] = Compose(read[L - 1], text[L]) /\ text[L] \in Char
    BY <1>1, <1>2
  <2>2. text[L] \notin WhiteSpace
    BY DEF Ends
  <2> QED
    BY <1>4, <2>1, <2>2, ComposeEnds
<1> QED
  BY <1>4, <1>5, NfcIsReading DEF read

(* What sealing takes is shown unless a combining mark is left in it.      *)
LEMMA SealedIsShown ==
  ASSUME NEW preview, {preview.title, preview.tags} \subseteq Seq(Seq(Char)), MaySeal(preview)
  PROVE  MayShow(Canonical(preview)) <=> Composed(Canonical(preview))
<1> DEFINE inner == Canonical(preview)
<1>1. ASSUME NEW text \in Seq(Char), NEW max, Bounded(text, max)
      PROVE  /\ Bytes(Normalized(text)) <= max
             /\ Starts(Normalized(text)) /\ Ends(Normalized(text))
  <2>1. /\ Trimmed(text) \in Seq(Char)
        /\ Starts(Trimmed(text)) /\ Ends(Trimmed(text))
    BY <1>1, TrimmedEnds DEF Bounded
  <2> QED
    BY <1>1, <2>1, NfcEnds DEF Bounded, Normalized
<1>2. /\ inner.title = [i \in DOMAIN preview.title |-> Normalized(preview.title[i])]
      /\ inner.tags = [i \in DOMAIN preview.tags |-> Normalized(preview.tags[i])]
  BY DEF Canonical
<1>3. /\ \A i \in DOMAIN preview.title : Bounded(preview.title[i], MaxTitle)
      /\ \A i \in DOMAIN preview.tags : Bounded(preview.tags[i], MaxTag)
      /\ Len(preview.tags) <= MaxTags
      /\ ~FoldedDuplicates(inner.tags)
  BY DEF MaySeal
<1> HIDE DEF inner
<1>4. \A i \in DOMAIN inner.title : /\ Bytes(inner.title[i]) <= MaxTitle
                                   /\ Starts(inner.title[i]) /\ Ends(inner.title[i])
  <2>1. \A i \in DOMAIN preview.title : preview.title[i] \in Seq(Char)
    OBVIOUS
  <2> QED
    BY <1>1, <1>2, <1>3, <2>1
<1>5. \A i \in DOMAIN inner.tags : /\ Bytes(inner.tags[i]) <= MaxTag
                                  /\ Starts(inner.tags[i]) /\ Ends(inner.tags[i])
  <2>1. \A i \in DOMAIN preview.tags : preview.tags[i] \in Seq(Char)
    OBVIOUS
  <2> QED
    BY <1>1, <1>2, <1>3, <2>1
<1>6. Len(inner.tags) <= MaxTags
  <2> DEFINE n == Len(preview.tags)
             norm(i) == Normalized(preview.tags[i])
  <2>1. n \in Nat /\ DOMAIN preview.tags = 1 .. n
    OBVIOUS
  <2>2. inner.tags = [i \in 1 .. n |-> norm(i)]
    BY <1>2, <2>1
  <2> HIDE DEF n, norm
  <2>3. Len(inner.tags) = n
    BY <2>1, <2>2
  <2> QED
    BY <1>3, <2>3 DEF n
<1>7. Composed(inner) <=> /\ \A i \in DOMAIN inner.title : QuickCheckYes(inner.title[i])
                          /\ \A i \in DOMAIN inner.tags : QuickCheckYes(inner.tags[i])
  BY DEF Composed, Texts
<1>8. \A text : Starts(text) /\ Ends(text) => (CanonicalText(text) <=> QuickCheckYes(text))
  BY DEF CanonicalText, Starts, Ends, Last
<1> QED
  BY <1>3, <1>4, <1>5, <1>6, <1>7, <1>8 DEF MayShow, inner

LEMMA InvOpens == KeyInv /\ EnvelopeInv => EnvelopesOpen
<1> SUFFICES ASSUME KeyInv, EnvelopeInv,
                    NEW e \in envelopes, NEW r \in Root, NEW sender \in published,
                    NEW private \in vault[r],
                    private.key = e.sealedTo, sender.key = e.signedBy
             PROVE  Opens(e, r, private, sender) <=> Composed(e.inner)
  BY DEF EnvelopesOpen
<1>1. sender \in Released /\ Complete(sender)
  BY DEF EnvelopeInv, Released
<1>2. \A x, y \in Named : x[1] = y[1] => x = y
  BY DEF EnvelopeInv
<1>3. sender.account = e.sender.account /\ sender.generation = e.sender.generation
  <2> DEFINE x == <<sender.key, sender.account, sender.generation>>
             y == <<e.signedBy, e.sender.account, e.sender.generation>>
  <2>1. x \in Named /\ y \in Named
    BY <1>1 DEF Named
  <2>2. x = y
    BY <1>2, <2>1
  <2> QED
    BY <2>2
<1>4. /\ private.authority.account = e.recipient.account
      /\ private.authority.generation = e.recipient.generation
  <2> DEFINE x == <<private.key, private.authority.account, private.authority.generation>>
             y == <<e.sealedTo, e.recipient.account, e.recipient.generation>>
  <2>1. x \in Named /\ y \in Named
    BY DEF Named
  <2>2. x = y
    BY <1>2, <2>1
  <2> QED
    BY <2>2
<1>5. private.authority = [account |-> e.recipient.account,
                           generation |-> e.recipient.generation, root |-> r]
  <2>1. private.authority \in Authority
    BY DEF KeyInv, OwnerTypes, PrivateBundle
  <2>2. private.authority.root = r
    BY DEF EnvelopeInv
  <2> QED
    BY <1>4, <2>1, <2>2 DEF Authority
<1>6. MayShow(e.inner) <=> Composed(e.inner)
  <2>1. PICK preview \in Typed : MaySeal(preview) /\ e.inner = Canonical(preview)
    BY DEF EnvelopeInv
  <2>2. {preview.title, preview.tags} \subseteq Seq(Seq(Char))
    BY EnvelopeAssumption
  <2> QED
    BY <2>1, <2>2, SealedIsShown
<1>7. Decodes(private, [account    |-> e.recipient.account,
                        generation |-> e.recipient.generation,
                        root       |-> r])
  BY <1>5 DEF Decodes
<1> QED
  BY <1>1, <1>3, <1>6, <1>7 DEF Opens

-----------------------------------------------------------------------------
(* mod.rs:124-178: retiring the predecessor in the transaction that stores *)
(* the successor is enough for a key to have one successor at most.        *)
THEOREM SuccessorsUnique == Spec => []SuccessorUnique
<1>1. KeyInv => SuccessorUnique
  BY DEF KeyInv
<1> QED
  BY <1>1, InitKeys, NextKeys, PTL DEF Spec

(* mod.rs:342-412: sealing takes the signing key of an active frame, and a *)
(* predecessor has none.                                                   *)
THEOREM RetiredSealNothing == Spec => RetiredNeverSeals
<1> DEFINE Unsealed == \A e \in envelopes' \ envelopes, b \in Released :
                         b.transition # {e.signedBy}
<1>1. KeyInv /\ [Next]_vars => [Unsealed]_vars
  <2> SUFFICES ASSUME KeyInv, Next,
                      NEW e \in envelopes', e \notin envelopes,
                      NEW b \in Released, b.transition = {e.signedBy}
               PROVE  FALSE
    OBVIOUS
  <2>1. envelopes' # envelopes
    OBVIOUS
  <2>2. PICK c \in Contact, a \in Account :
          \/ \E response \in Responses : Refresh(c, a, response)
          \/ \E bundle \in published : Reanchor(c, a, bundle)
          \/ /\ c \in Root
             /\ \E private \in vault[c], recipient \in pins[c][a], preview \in Typed :
                  Seal(c, private, recipient, preview)
    BY <2>1 DEF Next, OwnerStep, ContactStep
  <2>3. PICK private \in vault[c], recipient \in pins[c][a], preview \in Typed :
          c \in Root /\ Seal(c, private, recipient, preview)
    BY <2>1, <2>2 DEF Refresh, Reanchor
  <2>4. private.state = "ActiveFull" /\ e.signedBy = private.key
    BY <2>3 DEF Seal, MaySign
  <2> QED
    BY <2>3, <2>4 DEF KeyInv, PredecessorsRetired
<1>2. KeyInv /\ [Next]_vars => KeyInv'
  BY NextKeys
<1> QED
  BY <1>1, <1>2, InitKeys, PTL DEF Spec, RetiredNeverSeals

(* mod.rs:269-327: a continuity chain never forks, whatever selections of  *)
(* bundles contacts with the same anchor are shown.                        *)
THEOREM AnchorsAgree == Spec => []SameAnchorSameKeys
<1>1. KeyInv /\ PinsChained => SameAnchorSameKeys
  <2> SUFFICES ASSUME KeyInv, PinsChained, NEW a \in Account,
                      NEW c1 \in Contact, NEW c2 \in Contact, anchor[c1][a] = anchor[c2][a],
                      NEW p1 \in pins[c1][a], NEW p2 \in pins[c2][a],
                      p1.generation = p2.generation
               PROVE  p1 = p2
    BY DEF SameAnchorSameKeys
  <2>1. PICK from, links1 : anchor[c1][a] = {from} /\ Chain(links1, from, p1)
    BY DEF PinsChained
  <2>2. PICK start, links2 : anchor[c2][a] = {start} /\ Chain(links2, start, p2)
    BY DEF PinsChained
  <2>3. start = from
    BY <2>1, <2>2
  <2> QED
    BY <2>1, <2>2, <2>3, ChainsAgree DEF KeyInv
<1>2. KeyInv /\ [Next]_vars => KeyInv'
  BY NextKeys
<1> QED
  BY <1>1, <1>2, InitKeys, InitPins, NextPins, PTL DEF Spec

(* mod.rs:432-442, invitation.rs:289-301: an invitation opens wherever the *)
(* private half it was sealed to is stored, whatever was rotated, lost or  *)
(* published since - exactly when no combining mark was left in its text.  *)
THEOREM EnvelopesAlwaysOpen == Spec => []EnvelopesOpen
<1>1. KeyInv /\ [Next]_vars => KeyInv'
  BY NextKeys
<1> QED
  BY <1>1, InitKeys, InitPins, InitEnvelopes, NextPins, NextEnvelopes, InvOpens, PTL DEF Spec
=============================================================================
