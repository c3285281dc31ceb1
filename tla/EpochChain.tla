----------------------------- MODULE EpochChain -----------------------------
(***************************************************************************)
(* The planet's authority chain: assembling and verifying PlanetEpochs     *)
(* (amp.support.epoch.go), the co-signature quorum and the re-key of a     *)
(* member (amp.support.rekey.go), the links that unlock older epochs' keys *)
(* and the sealed values (amp.support.sealed.go), and the convergent keys  *)
(* of the ledger (amp.support.ledger.go).                                  *)
(*                                                                         *)
(* Charter and Terms are the verbatim records in place of their marshaled  *)
(* bytes.  Who offers, stores and applies the verified records is the      *)
(* vault, which is not in this repository: Offer, InstallLink and          *)
(* ApplyReKey call the verifiers the way their comments ask.               *)
(***************************************************************************)
EXTENDS Integers, Sequences, SequencesExt, FiniteSets, Framing

CONSTANTS Founders,         \* the signers a charter declares
          Stranger,         \* a member that is no founder
          Charters,         \* PlanetCharters
          HashKits,         \* the hash kits an epoch may name
          MaxEpochs,        \* bound on the chain
          SigListLen,       \* bound on the signatures offered with one record
          KeyIDs,           \* signing keys of the member that is re-keyed
          FirstKey,         \* its first key
          DIDKeyOf,         \* a key, to the member ID its did:key folds to
          Members,          \* member IDs
          Elements,         \* elements sealed values live at
          Observers, Facts  \* who files attestations, and about what

ASSUME ChainAssumption ==
    /\ IsFiniteSet(Founders) /\ MaxEpochs \in Nat \ {0}
    /\ \A c \in Charters : c.required \in Int

NilTag == 0
EpochTags == 1..MaxEpochs   \* time-ordered UIDs; an epoch's content key is its tag

-----------------------------------------------------------------------------
(* Records *)

\* PlanetCharter: id stands for the founding facts, the bytes the hash binds; a threshold
\* of 0 or less asks for every founder.
PlanetCharter(id, required) == [id |-> id, required |-> required]

\* EpochTerms, the fields the checks read.
EpochTerms(epochTag, prev, height, charterHash, hashKit, sealed) ==
    [EpochTag |-> epochTag, PreviousEpoch |-> prev, EpochHeight |-> height,
     CharterHash |-> charterHash, HashKit |-> hashKit, Sealed |-> sealed]

\* hashBytes: a hash is its input under its kit.
HashBytes(kit, data) == [kit |-> kit, data |-> data]

PlanetEpoch(charter, terms) == [Charter |-> charter, Terms |-> terms]

\* AssembleEpoch: the charter's hash and the kit are stamped into the terms.
AssembleEpoch(charter, terms, hashKit) ==
    PlanetEpoch(charter, [terms EXCEPT !.HashKit = hashKit, !.CharterHash = HashBytes(hashKit, charter)])

IsGenesis(terms) == terms.PreviousEpoch = NilTag

\* The digest an epoch's co-signature covers: the frame of both layers.
CoSignatureDigest(pe) ==
    [domain |-> "amp.sig.epoch.v1", kit |-> pe.Terms.HashKit, frame |-> <<pe.Charter, pe.Terms>>]

\* CoSignature: the signer it names, who really signed, and the digest signed.
CoSignature(member, by, digest) == [member |-> member, by |-> by, digest |-> digest]
EmptySig == [domain |-> "none"]

\* safe.VerifySignature under the named signer's key.
ValidSig(sig, digest) == sig.by = sig.member /\ sig.digest = digest

-----------------------------------------------------------------------------
(* VerifyCoSignatureQuorum *)

(* Mutant of Counted: every valid signature counts, a signer's second one too. *)
CountedTwice(sigs) == [n |-> Len(sigs), of |-> {sigs[i].member : i \in DOMAIN sigs}]
\* Each signer counts once.
Counted(sigs) == LET of == {sigs[i].member : i \in DOMAIN sigs} IN [n |-> Cardinality(of), of |-> of]

\* Signature i repeats a signer already verified: it is skipped, unread.
Repeated(sigs, i) == \E j \in 1..(i - 1) : sigs[j].member = sigs[i].member

\* required <= 0 asks for every declared signer; the floor is one.
Threshold(signers, required) ==
    LET asked == IF required <= 0 THEN Cardinality(signers) ELSE required
    IN  IF asked < 1 THEN 1 ELSE asked

\* An undeclared signer, an empty or a false signature refuses the whole record.
VerifyCoSignatureQuorum(sigs, digest, signers, required) ==
    /\ \A i \in DOMAIN sigs :
          /\ sigs[i].member \in signers
          /\ Repeated(sigs, i) \/ (sigs[i].digest # EmptySig /\ ValidSig(sigs[i], digest))
    /\ Counted(sigs).n >= Threshold(signers, required)

-----------------------------------------------------------------------------
(* The chain of epochs *)

VARIABLE chain      \* the accepted epochs: [epoch, signers] in order

CharterMatches(pe) == HashBytes(pe.Terms.HashKit, pe.Charter) = pe.Terms.CharterHash

\* VerifyCharterContinuity against a predecessor.
Extends(pe, prev) ==
    /\ ~prev.Terms.Sealed
    /\ pe.Charter = prev.Charter
    /\ pe.Terms.PreviousEpoch = prev.Terms.EpochTag
    /\ pe.Terms.EpochHeight = prev.Terms.EpochHeight + 1
    /\ pe.Terms.HashKit = prev.Terms.HashKit

\* VerifyCharterContinuity; without a predecessor only the charter's hash is checked.
VerifyCharterContinuity(pe, prevs) ==
    CharterMatches(pe) /\ \A prev \in prevs : Extends(pe, prev)

\* What may be offered next: an epoch as its author would assemble it, or one with a
\* field that is not what the chain asks for.
Offered(charter, kit, sealed) ==
    LET n    == Len(chain)
        prev == IF n = 0 THEN NilTag ELSE chain[n].epoch.Terms.EpochTag
        good == AssembleEpoch(charter, EpochTerms(n + 1, prev, n, 0, kit, sealed), kit)
    IN  {good}
        \cup {[good EXCEPT !.Terms.EpochHeight = h] : h \in {0, n + 1}}
        \cup {[good EXCEPT !.Terms.PreviousEpoch = p] : p \in {NilTag, n + 1}}
        \cup {[good EXCEPT !.Charter = c] : c \in Charters}

\* Signatures over this epoch, over another digest, empty, or by a stranger.
SigsFor(digest) ==
    {CoSignature(f, f, digest) : f \in Founders}
    \cup {CoSignature(f, f, [domain |-> "amp.sig.tx.v1"]) : f \in Founders}
    \cup {CoSignature(f, Stranger, digest) : f \in Founders}
    \cup {CoSignature(f, f, EmptySig) : f \in Founders}
    \cup {CoSignature(Stranger, Stranger, digest)}
SigLists(digest) == UNION {[1..n -> SigsFor(digest)] : n \in 0..SigListLen}

\* An epoch arrives with its signatures and is accepted when both checks pass.
Offer(pe) ==
    /\ Len(chain) < MaxEpochs
    /\ Len(chain) = 0 => IsGenesis(pe.Terms)
    /\ \E sigs \in SigLists(CoSignatureDigest(pe)) :
          /\ VerifyCharterContinuity(pe, IF chain = <<>> THEN {} ELSE {Last(chain).epoch})
          /\ VerifyCoSignatureQuorum(sigs, CoSignatureDigest(pe), Founders, pe.Charter.required)
          /\ chain' = Append(chain, [epoch   |-> pe,
                                     signers |-> {f \in Founders : \E i \in DOMAIN sigs :
                                                     sigs[i].member = f /\ ValidSig(sigs[i], CoSignatureDigest(pe))}])

ChainInit == chain = <<>>
ChainNext == \E c \in Charters, k \in HashKits, s \in BOOLEAN : \E pe \in Offered(c, k, s) : Offer(pe)

\* However the epochs and signatures are mixed up, an accepted chain keeps the charter
\* and the hash kit of its genesis, has no gap, ends at a sealed epoch, and every one
\* of its epochs was signed, over its own bytes, by the quorum its charter asks for.
ChainSound ==
    \A i \in DOMAIN chain :
        LET pe == chain[i].epoch
        IN  /\ pe.Charter = chain[1].epoch.Charter
            /\ pe.Terms.HashKit = chain[1].epoch.Terms.HashKit
            /\ pe.Terms.CharterHash = HashBytes(pe.Terms.HashKit, pe.Charter)
            /\ i > 1 => pe.Terms.PreviousEpoch = chain[i - 1].epoch.Terms.EpochTag
            /\ pe.Terms.EpochHeight = chain[1].epoch.Terms.EpochHeight + i - 1
            /\ pe.Terms.Sealed => i = Len(chain)
            /\ Cardinality(chain[i].signers) >=
                  (IF pe.Charter.required <= 0 THEN Cardinality(Founders) ELSE pe.Charter.required)

-----------------------------------------------------------------------------
(* Links between epoch keys, and sealed values *)

VARIABLES keyring,  \* the keys a holder has: [EpochID, Bytes]
          boxes,    \* the boxes published, link and value boxes alike
          opened    \* what was read: [at, from, plain]

linkVars == <<keyring, boxes, opened>>

SymKey(epoch, bytes) == [EpochID |-> epoch, Bytes |-> bytes]
SealedValue(epoch, role, cipher) == [EpochID |-> epoch, Role |-> role, Cipher |-> cipher]
EpochLink(from, to, box) == [From |-> from, To |-> to, Box |-> box]

EpochLinkAAD(from, to) == <<from, to>>

\* Only an older epoch's key is sealed under a newer one's.
MayLink(from, to) == to.EpochID < from.EpochID /\ from.EpochID # NilTag /\ to.EpochID # NilTag
SealEpochLinkBox(from, to) ==
    SealedValue(to.EpochID, "link", SealAEAD(DeriveSubKey(from.Bytes, "epoch-link"), to.Bytes,
                                             EpochLinkAAD(from.EpochID, to.EpochID)))

\* A link opens with its From key when the box is the one for it.
OpenEpochLinkBox(key, link) ==
    /\ link.From # NilTag /\ link.To # NilTag
    /\ key.EpochID = link.From /\ link.Box.EpochID = link.To
    /\ Opens(DeriveSubKey(key.Bytes, "epoch-link"), link.Box.Cipher, EpochLinkAAD(link.From, link.To))

SealedValueAAD(element) == <<element>>
SealValueBox(key, element) ==
    SealedValue(key.EpochID, "content",
                SealAEAD(DeriveSubKey(key.Bytes, "sealed-attr"), element, SealedValueAAD(element)))
OpenValueBox(key, element, box) ==
    /\ key.EpochID = box.EpochID /\ box.Role = "content"
    /\ Opens(DeriveSubKey(key.Bytes, "sealed-attr"), box.Cipher, SealedValueAAD(element))

\* The holder joins at the newest epoch; the author has every key.
LinkInit == keyring = {SymKey(MaxEpochs, MaxEpochs)} /\ boxes = {} /\ opened = {}

PublishLink(from, to) ==
    /\ MayLink(SymKey(from, from), SymKey(to, to))
    /\ boxes' = boxes \cup {SealEpochLinkBox(SymKey(from, from), SymKey(to, to))}
    /\ UNCHANGED <<keyring, opened>>
PublishValue(epoch, element) ==
    /\ boxes' = boxes \cup {SealValueBox(SymKey(epoch, epoch), element)}
    /\ UNCHANGED <<keyring, opened>>

\* A link names any two epochs and carries any box, re-labelled or not.
InstallLink(key, from, to, box) ==
    LET link == EpochLink(from, to, [box EXCEPT !.EpochID = to])
    IN  /\ OpenEpochLinkBox(key, link)
        /\ keyring' = keyring \cup {SymKey(to, box.Cipher.plain)}
        /\ UNCHANGED <<boxes, opened>>
ReadValue(key, element, box) ==
    /\ OpenValueBox(key, element, box)
    /\ opened' = opened \cup {[at |-> element, plain |-> box.Cipher.plain]}
    /\ UNCHANGED <<keyring, boxes>>

LinkNext ==
    \/ \E from, to \in EpochTags : PublishLink(from, to)
    \/ \E epoch \in EpochTags, e \in Elements : PublishValue(epoch, e)
    \/ \E key \in keyring, box \in boxes :
          \/ \E from, to \in EpochTags : InstallLink(key, from, to, box)
          \/ \E e \in Elements : ReadValue(key, e, box)

\* S holds the newest epoch and whatever a published link leads to from S.
LinkClosed(S) ==
    /\ MaxEpochs \in S
    /\ \A from \in S, to \in EpochTags :
          SealEpochLinkBox(SymKey(from, from), SymKey(to, to)) \in boxes => to \in S

\* The epochs whose keys the published links lead to from the newest one.
Unlocked == {e \in EpochTags : \A S \in SUBSET EpochTags : LinkClosed(S) => e \in S}

\* Moving or re-labelling boxes never gives the holder a wrong key or a key no link
\* leads to, nor a value read at an element it was not sealed for.
KeysTrue ==
    /\ \A k \in keyring : k.Bytes = k.EpochID /\ k.EpochID \in Unlocked
    /\ \A r \in opened : r.plain = r.at

-----------------------------------------------------------------------------
(* Re-keying a member *)

VARIABLES memberKey,    \* each member's current signing key
          retired,      \* the keys each member has lost
          reissues      \* the digests the founders have co-signed

reKeyVars == <<memberKey, retired, reissues>>

ReKeyDigest(member, prior, new) ==
    [domain |-> "amp.sig.rekey.v1", member |-> member, prior |-> prior, new |-> new]

\* A did:key member is the fold of the key it would retire.
IsDIDKey(member, key) == DIDKeyOf[key] = member

\* VerifyReKeyQuorum, over signatures of the founders that agreed.
VerifyReKeyQuorum(member, prior, new, sigs) ==
    /\ sigs # <<>>
    /\ ~IsDIDKey(member, prior)
    /\ VerifyCoSignatureQuorum(sigs, ReKeyDigest(member, prior, new), Founders, 0)

\* The founders re-issue a member's current key, to a key it never had.
CoSignReKey(member, new) ==
    /\ new \notin retired[member] \cup {memberKey[member]}
    /\ reissues' = reissues \cup {ReKeyDigest(member, memberKey[member], new)}
    /\ UNCHANGED <<memberKey, retired>>

\* A record arrives, perhaps again, perhaps with other fields than the signed ones;
\* the vault asks that its prior key is the member's current one.
ApplyReKey(member, prior, new) ==
    \E signed \in reissues :
        /\ VerifyReKeyQuorum(member, prior, new,
               SetToSeq({CoSignature(f, f, signed) : f \in Founders}))
        /\ prior = memberKey[member]
        /\ memberKey' = [memberKey EXCEPT ![member] = new]
        /\ retired' = [retired EXCEPT ![member] = @ \cup {prior}]
        /\ UNCHANGED reissues

ReKeyInit == /\ memberKey = [m \in Members |-> FirstKey]
             /\ retired = [m \in Members |-> {}] /\ reissues = {}
ReKeyNext == \E m \in Members, new \in KeyIDs :
                \/ CoSignReKey(m, new)
                \/ \E prior \in KeyIDs : ApplyReKey(m, prior, new)

\* A co-signed re-key cannot be replayed later, on another member or for another key:
\* a retired key never comes back, and a did:key member's key is never replaced.
RetiredStaysDead ==
    \A m \in Members :
        /\ memberKey[m] \notin retired[m]
        /\ IsDIDKey(m, FirstKey) => memberKey[m] = FirstKey

-----------------------------------------------------------------------------
(* The ledger *)

VARIABLE ledger     \* the attestations filed: ItemID to the observers that filed it

\* What an Attestation is about; the observer is who files it.
Attestation(type, subject, tx, op) ==
    [Type |-> type, Subject |-> subject, CitedTxID |-> tx, CitedOpIndex |-> op]

\* AttestationKey.ItemID: the digest of the fixed-width fields.
AttestationItemID(fact) == <<fact.Type, fact.Subject, fact.CitedTxID, fact.CitedOpIndex>>

LedgerInit == ledger = {}
\* An observer files what it saw; filings of one fact meet at one item.
FileAttestation(observer, fact) ==
    ledger' = ledger \cup {[item |-> AttestationItemID(fact), by |-> observer]}
LedgerNext == \E o \in Observers, f \in Facts : FileAttestation(o, f)

\* The authority chain, its keys, its members' keys and its ledger move apart.
EpochInit == ChainInit /\ LinkInit /\ ReKeyInit /\ LedgerInit
EpochNext ==
    \/ ChainNext /\ UNCHANGED <<linkVars, reKeyVars, ledger>>
    \/ LinkNext /\ UNCHANGED <<chain, reKeyVars, ledger>>
    \/ ReKeyNext /\ UNCHANGED <<chain, linkVars, ledger>>
    \/ LedgerNext /\ UNCHANGED <<chain, linkVars, reKeyVars>>
EpochSpec == EpochInit /\ [][EpochNext]_<<chain, linkVars, reKeyVars, ledger>>

\* The laws of this module together.
ChainLaw == ChainSound /\ KeysTrue /\ RetiredStaysDead
=============================================================================
