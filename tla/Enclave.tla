------------------------------ MODULE Enclave ------------------------------
(***************************************************************************)
(* safe.enclave: a member's keypairs, indexed per keyring in memory and    *)
(* re-sealed to a TomeStore by every install.  One keyring is modelled     *)
(* (rings share nothing but the tome), opened by one session at a time.    *)
(*                                                                         *)
(* Every method holds enc.mu throughout, so a call is one step; an install *)
(* ends "ok", "failed" (WrapDEK or Save failed, the error is returned) or  *)
(* "killed" (the process died before or after the rename in Save).         *)
(***************************************************************************)
EXTENDS Naturals, SequencesExt

CONSTANTS
  Pub,          \* public keys, ordered as bytes.Compare orders them
  NumTypes,     \* key types are 1..NumTypes in enum order, the last is SigningKey
  Time,         \* TimeIDs
  KeyPairs,     \* the key pairs a session may be given
  NoPub,        \* no newest key of a type
  PubPrefixes      \* PubKey prefixes of refs: the lowest and highest key each begins

ASSUME PubAssumption == Pub \subseteq Nat /\ NoPub \notin Pub
ASSUME PubPrefixesAssumption == PubPrefixes \subseteq Nat \X Nat
ASSUME TimeAssumption == Time \subseteq Nat
ASSUME TypesAssumption == NumTypes \in Nat

KeyType == 1 .. NumTypes

\* prv: the private half is held; a peer's adopted key has none.
KeyPairRecord == [pub : Pub, type : KeyType, time : Time, prv : BOOLEAN]

ASSUME KeyPairsAssumption == KeyPairs \subseteq KeyPairRecord

VARIABLES
  open,         \* a session is open
  records,      \* ring.records, sorted by PubKey
  newest,       \* ring.newestByType
  tome,         \* the records on disk, in the order flattenRecords wrote them
  acked,        \* history: records whose install returned nil
  durable       \* history: those whose install returned nil after a Save

enclaveVars == <<open, records, newest, tome, acked, durable>>

NoneNewest == [t \in KeyType |-> NoPub]

EnclaveTypeOK ==
  /\ open \in BOOLEAN
  /\ Range(records) \subseteq KeyPairRecord
  /\ newest \in [KeyType -> Pub \cup {NoPub}]
  /\ Range(tome) \subseteq KeyPairRecord
  /\ durable \subseteq acked /\ acked \subseteq KeyPairRecord

EnclaveInit ==
  /\ open = FALSE
  /\ records = <<>>
  /\ newest = NoneNewest
  /\ tome = <<>>
  /\ acked = {}
  /\ durable = {}

-----------------------------------------------------------------------------
(* The ring index.                                                         *)

\* Mutant of Position: new records go to the end.
PositionLast(recs, pub) == Len(recs) + 1

\* sort.Search for pub: the first position not below it.
Position(recs, pub) ==
  CHOOSE i \in 1 .. Len(recs) + 1 :
    /\ \A j \in 1 .. i - 1 : recs[j].pub < pub
    /\ i <= Len(recs) => recs[i].pub >= pub

\* Indices of the records ringLookupTyped can return.
Typed(recs, pub, t) ==
  {i \in 1 .. Len(recs) : recs[i].pub = pub /\ recs[i].type = t}

RingLookupTyped(recs, pub, t) == recs[CHOOSE i \in Typed(recs, pub, t) : TRUE]

Duplicate(recs, rec) == rec \in Range(recs)
Collides(recs, rec) == \E i \in Typed(recs, rec.pub, rec.type) : recs[i] # rec

\* The newest-of-type pointers after rec joins the ring.
WithNewest(recs, new, rec) ==
  IF \/ new[rec.type] = NoPub
     \/ rec.time >= RingLookupTyped(recs, new[rec.type], rec.type).time
  THEN [new EXCEPT ![rec.type] = rec.pub] ELSE new

\* mergeRecord of a record that is neither a duplicate nor a collision.
Inserted(recs, rec) == InsertAt(recs, Position(recs, rec.pub), rec)

\* OpenEnclave: mergeRecord of every record of the tome, in its order.
Reindexed(recs) ==
  FoldLeft(LAMBDA ring, rec :
             [recs |-> Inserted(ring.recs, rec), new |-> WithNewest(ring.recs, ring.new, rec)],
           [recs |-> <<>>, new |-> NoneNewest], recs)

\* ringNewestAcrossTypes: the newest of the typed streams, the first type on a tie.
NewestAcrossTypes(recs, new) ==
  LET T == {t \in KeyType : new[t] # NoPub}
      tid(t) == RingLookupTyped(recs, new[t], t).time
      best == CHOOSE t \in T : \A u \in T : tid(t) > tid(u) \/ (tid(t) = tid(u) /\ t <= u)
  IN new[best]

-----------------------------------------------------------------------------
(* Refs: what the methods that use a key resolve, by position; 0 is an     *)
(* error.  They hold the lock for reading and change nothing.              *)

AnyPub == <<>>          \* an empty PubKey
Unspecified == 0        \* KeyType_Unspecified
SigningKey == NumTypes

KeyRef == [pub : {AnyPub} \cup PubPrefixes, type : {Unspecified} \cup KeyType]

FirstOf(indices) == IF indices = {} THEN 0 ELSE Min(indices)

OfType(rec, t) == t = Unspecified \/ rec.type = t

\* The run of records that begin with the prefix, filtered by type.
RingLookupTypedPrefix(recs, prefix, t) ==
  FirstOf({i \in 1 .. Len(recs) : recs[i].pub \in prefix[1] .. prefix[2] /\ OfType(recs[i], t)})

\* The first record of that PubKey, whatever its type.
RingLookup(recs, pub) == FirstOf({i \in 1 .. Len(recs) : recs[i].pub = pub})

FetchRecord(recs, new, ref) ==
  CASE ref.pub # AnyPub -> RingLookupTypedPrefix(recs, ref.pub, ref.type)
    [] ref.pub = AnyPub /\ ref.type # Unspecified -> FirstOf(Typed(recs, new[ref.type], ref.type))
    [] OTHER -> IF recs = <<>> THEN 0 ELSE RingLookup(recs, NewestAcrossTypes(recs, new))

\* A closed enclave has no records, and refuses every ref.
FetchPubKey(ref) == FetchRecord(records, newest, ref)

\* fetchTypedRecord: OpenFromPub, EncryptSym and DecryptSym go on with what it returns.
FetchTypedRecord(ref, t) ==
  LET i == FetchPubKey(ref) IN IF i # 0 /\ records[i].type = t THEN i ELSE 0

\* SignRaw and ExportSymmetricKey also want the private half.
WithPrivate(ref, t) ==
  LET i == FetchTypedRecord(ref, t) IN IF i # 0 /\ records[i].prv THEN i ELSE 0

SignRaw(ref) == WithPrivate(ref, SigningKey)

CanSign(ref) ==
  LET i == FetchPubKey(ref) IN i # 0 /\ records[i].type = SigningKey /\ records[i].prv

-----------------------------------------------------------------------------
(* The methods.                                                            *)

OpenEnclave ==
  /\ ~open
  /\ open' = TRUE
  /\ records' = Reindexed(tome).recs
  /\ newest' = Reindexed(tome).new
  /\ UNCHANGED <<tome, acked, durable>>

\* zeroState: the session ends and nothing of the ring is left in memory.
Down ==
  /\ open' = FALSE
  /\ records' = <<>>
  /\ newest' = NoneNewest

\* persistLocked, with rec just merged into the ring (recs, new).
Persist(recs, new, rec, outcome) ==
  \/ /\ outcome = "ok"
     /\ records' = recs
     /\ newest' = new
     /\ tome' = recs
     /\ acked' = acked \cup {rec}
     /\ durable' = durable \cup {rec}
     /\ UNCHANGED open
  \/ /\ outcome = "failed"
     /\ records' = recs
     /\ newest' = new
     /\ UNCHANGED <<open, tome, acked, durable>>
  \/ /\ outcome = "killed"
     /\ Down
     /\ tome' \in {tome, recs}
     /\ UNCHANGED <<acked, durable>>

Outcome == {"ok", "failed", "killed"}

\* The install half ImportKey and GenerateKey share.  A collision is refused.
Install(rec, outcome) ==
  /\ open
  /\ ~Duplicate(records, rec)
  /\ ~Collides(records, rec)
  /\ Persist(Inserted(records, rec), WithNewest(records, newest, rec), rec, outcome)

ImportKey(rec, outcome) == Install(rec, outcome)

\* An exact duplicate: nil, and nothing is persisted.
ImportDuplicate(rec) ==
  /\ open
  /\ Duplicate(records, rec)
  /\ acked' = acked \cup {rec}
  /\ UNCHANGED <<open, records, newest, tome, durable>>

\* A generated key is fresh.  Its TimeID is this device's clock, which an
\* imported key's TimeID may be ahead of.
GenerateKey(rec, outcome) ==
  /\ rec.prv
  /\ \A r \in Range(records) : r.pub # rec.pub
  /\ Install(rec, outcome)

\* A Close that saves; one whose save fails leaves the session as it was.
Close ==
  /\ open
  /\ Down
  /\ tome' = records
  /\ UNCHANGED <<acked, durable>>

\* An unclean kill outside any install.
Kill ==
  /\ open
  /\ Down
  /\ UNCHANGED <<tome, acked, durable>>

EnclaveNext ==
  \/ OpenEnclave
  \/ \E rec \in KeyPairs :
       \/ \E o \in Outcome : ImportKey(rec, o) \/ GenerateKey(rec, o)
       \/ ImportDuplicate(rec)
  \/ Close
  \/ Kill

EnclaveSpec == EnclaveInit /\ [][EnclaveNext]_enclaveVars

-----------------------------------------------------------------------------
(* Correctness.                                                            *)

\* The index binary search relies on: every ring, and the tome a reopen
\* replays, is sorted by PubKey and holds one record per (PubKey, KeyType).
RingWellFormed ==
  \A ring \in {tome, records} :
    \A i, j \in 1 .. Len(ring) :
      i < j => /\ ring[i].pub <= ring[j].pub
               /\ ring[i].pub = ring[j].pub => ring[i].type # ring[j].type

\* A ref without a PubKey resolves by TimeID: with a type, to a record of that
\* type with the greatest TimeID in the ring; without one, to the PubKey of a
\* record with the greatest TimeID of all.  This holds whatever order keys were
\* installed in and however often the enclave was reopened.
NewestOfType ==
  LET IsNewestOf(pub, recs) ==
        \E r \in recs : r.pub = pub /\ \A q \in recs : q.time <= r.time
  IN /\ \A t \in KeyType :
          LET ofType == {r \in Range(records) : r.type = t}
          IN IF ofType = {} THEN newest[t] = NoPub ELSE IsNewestOf(newest[t], ofType)
     /\ records # <<>> => IsNewestOf(NewestAcrossTypes(records, newest), Range(records))

\* An install reported after its Save is never lost by a later failed save, a
\* kill or a reopen: it stays on disk and in memory whenever a session is open.
InstallsSurvive ==
  /\ durable \subseteq Range(tome)
  /\ open => durable \subseteq Range(records)

\* enclave.go, ImportKey: "Success => the key is on disk".
ImportIsDurable == acked \subseteq Range(tome)

\* A ref resolves exactly when the ring has a record it can mean, and to one of those;
\* the probe CanSign promises what SignRaw then does, with the same key.
RefsResolve ==
  \A ref \in KeyRef :
    LET Meant(r) == /\ OfType(r, ref.type)
                    /\ ref.pub # AnyPub => r.pub \in ref.pub[1] .. ref.pub[2]
        i == FetchPubKey(ref)
    IN /\ i = 0 <=> ~\E r \in Range(records) : Meant(r)
       /\ i # 0 => Meant(records[i])
       /\ CanSign(ref) <=> SignRaw(ref) # 0

\* The key ring through installs, failed saves, kills and reopens: sorted and without
\* twins, resolving refs and the newest key, and losing no install that was reported.
RingSafe == RingWellFormed /\ NewestOfType /\ RefsResolve /\ InstallsSurvive
=============================================================================
