------------------------------- MODULE TxMsg -------------------------------
(***************************************************************************)
(* amp.TxMsg (amp.support.tx.go): building a tx, normalizing it, sealing   *)
(* it into its wire form, and opening what arrives of that wire.           *)
(*                                                                         *)
(* Bytes are tokens. A DataStore is a sequence of tokens (a value header's *)
(* flags, its inline UIDs, a value), and DataOfs and DataLen count them. A *)
(* wire is a sequence of tokens too: preamble, envelope, header, ops       *)
(* section, DataStore, signature; what is encrypted or signed is several   *)
(* tokens that name what they cover, so a cut one matches nothing. A UID   *)
(* is a number, an element three of them.                                  *)
(***************************************************************************)
EXTENDS Integers, Sequences, FiniteSets, SequencesExt

CONSTANTS
    TxNodes, TxAttrs, TxItems, \* the ids an element is made of
    TxVals,       \* values that pass checkTagSyntax
    TxBadVals,    \* values that do not
    TxEdits,      \* the TxIDs of the other txs whose ops are served
    OwnTxID,      \* the TxID of the tx that is built
    TxEpoch,      \* the epoch that keys a private tx; 0 is planet-public
    SigSize,      \* tokens of a signature
    MaxTxOps      \* how many ops the tx gets

ASSUME TxAssumption ==
    /\ TxNodes \subseteq Nat /\ TxAttrs \subseteq Nat /\ TxItems \subseteq Nat
    /\ TxEdits \subseteq Nat /\ OwnTxID \in Nat \ {0} /\ TxEpoch \in Nat \ {0}
    /\ SigSize \in Nat \ {0}

Elems == TxNodes \X TxAttrs \X TxItems
Author == 7
NoProof == <<>>

VARIABLES
    tx,       \* the tx being built: TxEnvelope, TxHeader, Ops, DataStore
    wrote,    \* ghost: what each accepted call wrote, in order
    wire,     \* the wire image on its way to a reader; <<>> before sealing
    form,     \* how it was made: "none", "sealed", "local" or "bare"
    cut,      \* whether its tail was lost on the way
    readKeys, \* the epochs whose key the reader holds
    got       \* what the reader got of it

txVars == <<tx, wrote, wire, form, cut, readKeys, got>>

Unread == [how |-> "unread", ok |-> FALSE]
Refused(how) == [how |-> how, ok |-> FALSE]

-----------------------------------------------------------------------------
(* Values and ops                                                          *)

Flags(from, txid) == [k |-> "flags", from |-> from, txid |-> txid]
Inline(uid) == [k |-> "uid", v |-> uid]
Content(val) == [k |-> "val", v |-> val]

(* OpValueBytes: the value of an op, its header skipped. *)
OpValueBytes(t, i) ==
    LET op   == t.ops[i]
        head == t.store[op.ofs + 1]
        uids == (IF head.from THEN 1 ELSE 0) + (IF head.txid THEN 1 ELSE 0)
    IN  IF op.len < 1 \/ op.ofs + op.len > Len(t.store) THEN <<>>
        ELSE SubSeq(t.store, op.ofs + 2 + uids, op.ofs + op.len)

(* MarshalOpAndData: append a value and the op that spans it. *)
MarshalOpAndData(t, elem, edit, flag, bytes) ==
    [t EXCEPT !.ops = Append(@, [elem |-> elem, edit |-> edit, flag |-> flag,
                                 ofs |-> Len(t.store), len |-> Len(bytes)]),
              !.store = @ \o bytes,
              !.normalized = FALSE]

(* The value header MarshalOp writes, then the value if there is one. *)
AuthoredBytes(t, val) == <<Flags(TRUE, FALSE), Inline(t.from)>> \o val

(* MarshalOp: refused for a Tag that does not validate, with nothing kept. *)
MarshalOp(elem, flag, val) ==
    IF val # <<>> /\ val[1].v \in TxBadVals
    THEN UNCHANGED <<tx, wrote>>
    ELSE /\ tx' = MarshalOpAndData(tx, elem, tx.id, flag, AuthoredBytes(tx, val))
         /\ wrote' = Append(wrote, [elem |-> elem, edit |-> tx.id,
                                    flag |-> flag, val |-> val])

(* SetEpochID: the privacy lever, set before the first op here. *)
SetEpochID(epoch) ==
    /\ form = "none" /\ tx.ops = <<>> /\ tx.epoch # epoch
    /\ tx' = [tx EXCEPT !.epoch = epoch]
    /\ UNCHANGED <<wrote, wire, form, cut, readKeys, got>>

Building == form = "none" /\ Len(tx.ops) < MaxTxOps

Upsert(elem, val) ==
    /\ Building
    /\ MarshalOp(elem, "upsert", <<Content(val)>>)
    /\ UNCHANGED <<wire, form, cut, readKeys, got>>

Delete(elem) ==
    /\ Building
    /\ MarshalOp(elem, "delete", <<>>)
    /\ UNCHANGED <<wire, form, cut, readKeys, got>>

(* A served op of another tx, whose materialized value carries that TxID. *)
Serve(elem, edit, val) ==
    /\ Building
    /\ tx' = MarshalOpAndData(tx, elem, edit, "upsert",
                 <<Flags(TRUE, TRUE), Inline(Author), Inline(edit), Content(val)>>)
    /\ wrote' = Append(wrote, [elem |-> elem, edit |-> edit,
                               flag |-> "upsert", val |-> <<Content(val)>>])
    /\ UNCHANGED <<wire, form, cut, readKeys, got>>

-----------------------------------------------------------------------------
(* Normalize and LoadValue                                                 *)

ElemLess(a, b) ==
    \/ a[1] < b[1]
    \/ a[1] = b[1] /\ a[2] < b[2]
    \/ a[1] = b[1] /\ a[2] = b[2] /\ a[3] < b[3]

(* Mutant of AddrLess: an element's oldest edit first. *)
AddrLessOldest(a, b) ==
    ElemLess(a.elem, b.elem) \/ (a.elem = b.elem /\ a.edit < b.edit)

(* Address.Compare < 0: by element, then newest edit first. *)
AddrLess(a, b) ==
    ElemLess(a.elem, b.elem) \/ (a.elem = b.elem /\ a.edit > b.edit)

(* An op without an EditID, or with a value outside the DataStore. *)
BadOp(t) == \E i \in 1 .. Len(t.ops) :
                \/ t.ops[i].edit = 0
                \/ t.ops[i].ofs + t.ops[i].len > Len(t.store)

DuplicateOps(t) == \E i, j \in 1 .. Len(t.ops) :
                   i # j /\ t.ops[i].elem = t.ops[j].elem /\ t.ops[i].edit = t.ops[j].edit

NormalizeErr(t) == BadOp(t) \/ DuplicateOps(t)

(* sort.Slice: the ops rearranged so that none follows a greater one.      *)
SortedOps(ops) ==
    LET order == CHOOSE p \in Bijection(DOMAIN ops, DOMAIN ops) :
                     \A i, j \in DOMAIN ops :
                         i < j => ~ AddrLess(ops[p[j]], ops[p[i]])
    IN  [i \in DOMAIN ops |-> ops[order[i]]]

(* Duplicates are found after the sort: the ops stay sorted, the tx is not *)
(* normalized.                                                             *)
Normalized(t) ==
    IF t.normalized \/ BadOp(t) THEN t
    ELSE [t EXCEPT !.ops = SortedOps(@), !.normalized = ~ DuplicateOps(t)]

Normalize ==
    /\ form = "none"
    /\ ~ tx.normalized
    /\ tx' = Normalized(tx)
    /\ UNCHANGED <<wrote, wire, form, cut, readKeys, got>>

(***************************************************************************)
(* sort.Find: the least i at which cmp(i) <= 0, by bisection. LoadValue    *)
(* gives it the comparison of op i with the wanted element.                *)
(***************************************************************************)
Cmp(a, b) == IF ElemLess(a, b) THEN -1 ELSE IF a = b THEN 0 ELSE 1

Find(ops, want) ==
    LET Halve(r) ==
            LET mid == (r.lo + r.hi) \div 2
            IN  IF r.lo >= r.hi THEN r
                ELSE IF Cmp(ops[mid + 1].elem, want) > 0
                     THEN [r EXCEPT !.lo = mid + 1] ELSE [r EXCEPT !.hi = mid]
        span[k \in 0 .. Len(ops)] ==
            IF k = 0 THEN [lo |-> 0, hi |-> Len(ops)] ELSE Halve(span[k - 1])
    IN  span[Len(ops)].lo

NotFound == <<[k |-> "ErrAttrNotFound"]>>

LoadValue(t, want) ==
    LET ops == Normalized(t).ops
        idx == Find(ops, want)
    IN  IF idx >= Len(ops) \/ ops[idx + 1].elem # want THEN NotFound
        ELSE OpValueBytes(Normalized(t), idx + 1)

(* LoadValue of any item: the first op of the node and attribute. *)
LoadAnyItem(t, node, attr) ==
    LET n    == Normalized(t)
        hits == {i \in 1 .. Len(n.ops) :
                     n.ops[i].elem[1] = node /\ n.ops[i].elem[2] = attr}
    IN  IF hits = {} THEN NotFound
        ELSE OpValueBytes(n, CHOOSE i \in hits : \A j \in hits : i <= j)

-----------------------------------------------------------------------------
(* The wire                                                                *)

Changed(prev, elem) == {f \in 1 .. 3 : elem[f] # prev[f]}

(* appendOps: each op with only the id fields that changed. *)
AppendOps(ops) ==
    [i \in 1 .. Len(ops) |->
        LET prev == IF i = 1 THEN <<0, 0, 0>> ELSE ops[i - 1].elem
        IN  [flag |-> ops[i].flag, ofs |-> ops[i].ofs, len |-> ops[i].len,
             fields |-> [f \in Changed(prev, ops[i].elem) |-> ops[i].elem[f]]]]

(* readOps: a field keeps its value until an op carries it again. *)
ReadOps(enc) ==
    LET Cur[i \in 0 .. Len(enc)] ==
            IF i = 0 THEN <<0, 0, 0>>
            ELSE [f \in 1 .. 3 |-> IF f \in DOMAIN enc[i].fields
                                   THEN enc[i].fields[f] ELSE Cur[i - 1][f]]
    IN  [i \in 1 .. Len(enc) |->
            [elem |-> Cur[i], edit |-> 0, flag |-> enc[i].flag,
             ofs |-> enc[i].ofs, len |-> enc[i].len]]

Preamble(head, data, sig) ==
    [k |-> "pre", head |-> head, data |-> data, sig |-> sig]
Envelope(t) == [k |-> "env", id |-> t.id, epoch |-> t.epoch, proof |-> t.proof]
Header(t) == [k |-> "hdr", from |-> t.from]
OpsSection(ops) == [k |-> "ops", ops |-> AppendOps(ops)]

(* Ciphertext of some tokens: one longer than they are. *)
EncryptPayload(plain, epoch) ==
    [i \in 1 .. Len(plain) + 1 |->
        [k |-> "ct", epoch |-> epoch, plain |-> plain, i |-> i]]

Sign(by, over) ==
    [i \in 1 .. SigSize |-> [k |-> "sig", by |-> by, over |-> over, i |-> i]]

MarshalPayload(t) == <<Header(t), OpsSection(t.ops)>>

MarshalHeadAndOps(t) ==
    <<Preamble(4, Len(t.store), 0), Envelope(t)>> \o MarshalPayload(t)

MarshalToBuffer(t) == MarshalHeadAndOps(t) \o t.store

(* ComputeMemberProof: made for a private tx only. *)
MemberProof(t) == IF t.epoch = 0 THEN t.proof ELSE <<t.id, t.epoch>>

PublicDataLen(t) == Len(t.store)

(* SealTx with a CryptoProvider: the image up to the signature, signed. *)
Sealed(t) ==
    LET payload == IF t.epoch = 0 THEN MarshalPayload(t)
                   ELSE EncryptPayload(MarshalPayload(t) \o t.store, t.epoch)
        dataLen == IF t.epoch = 0 THEN PublicDataLen(t) ELSE 0
        image   == <<Preamble(2 + Len(payload), dataLen, SigSize), Envelope(t)>>
                   \o payload \o (IF t.epoch = 0 THEN t.store ELSE <<>>)
    IN  image \o Sign(t.from, image)

(* SealTx: without a provider it is MarshalHeadAndOps, no DataStore. *)
SealTx(crypto) ==
    /\ form = "none"
    /\ tx' = IF crypto THEN [tx EXCEPT !.proof = MemberProof(tx)] ELSE tx
    /\ wire' = IF crypto THEN Sealed(tx') ELSE MarshalHeadAndOps(tx)
    /\ form' = IF crypto THEN "sealed" ELSE "bare"
    /\ UNCHANGED <<wrote, cut, readKeys, got>>

(* MarshalToWriter and MarshalToBuffer: the local session's form. *)
MarshalLocal ==
    /\ form = "none"
    /\ wire' = MarshalToBuffer(tx)
    /\ form' = "local"
    /\ UNCHANGED <<tx, wrote, cut, readKeys, got>>

(* The tail of the wire is lost: a connection or a file that ended early. *)
LoseTail(n) ==
    /\ form # "none" /\ ~ cut
    /\ wire' = SubSeq(wire, 1, n)
    /\ cut' = TRUE
    /\ UNCHANGED <<tx, wrote, form, readKeys, got>>

-----------------------------------------------------------------------------
(* Reading                                                                 *)

Kind(seq, i, kind) == i \in 1 .. Len(seq) /\ seq[i].k = kind

(* reconstructEditIDs: the TxID in an op's value header, else the tx's. *)
EditOf(t, op) ==
    LET head == t.store[op.ofs + 1]
        at   == op.ofs + 1 + (IF head.from THEN 1 ELSE 0)
    IN  IF op.len = 0 \/ op.ofs >= Len(t.store) THEN t.id
        ELSE IF ~ head.txid THEN t.id
        ELSE IF at + 1 > op.ofs + op.len \/ at + 1 > Len(t.store) THEN t.id
        ELSE t.store[at + 1].v

WithEdits(t) ==
    [t EXCEPT !.ops = [i \in 1 .. Len(t.ops) |->
                           [t.ops[i] EXCEPT !.edit = EditOf(t, t.ops[i])]]]

Read(how, env, body, store) ==
    IF ~ Kind(body, 1, "hdr") \/ ~ Kind(body, 2, "ops") THEN Refused(how)
    ELSE [how |-> how, ok |-> TRUE,
          tx |-> WithEdits([id |-> env.id, epoch |-> env.epoch,
                            proof |-> env.proof, from |-> body[1].from,
                            ops |-> ReadOps(body[2].ops), store |-> store,
                            normalized |-> FALSE])]

(* The checks of the preamble's lengths, before anything is sliced. *)
HeadFits(w) ==
    /\ w[1].head >= 1 /\ w[1].head <= Len(w)
    /\ w[1].data <= Len(w) - w[1].head

(* ReadTxMsg from a stream that ends with the wire, and OpenTx without a   *)
(* provider: the head, then the DataStore.                                 *)
OpenLocal(w) ==
    IF Len(w) = 0 \/ ~ HeadFits(w) \/ ~ Kind(w, 2, "env") THEN Refused("local")
    ELSE Read("local", w[2], SubSeq(w, 3, w[1].head),
              SubSeq(w, w[1].head + 1, w[1].head + w[1].data))

(* TxSigOffset: the signature is the last tokens of the wire. *)
TxSigOffset(w) == Len(w) - w[1].sig

(* openTx with a provider; verify is FALSE for OpenTxSansVerify. *)
OpenSealed(w, verify) ==
    LET how  == IF verify THEN "open" ELSE "sansverify"
        ofs  == TxSigOffset(w)
        env  == w[2]
        ct   == SubSeq(w, 3, ofs)
        held == env.epoch \in readKeys
    IN  IF Len(w) = 0 \/ ~ HeadFits(w) \/ ~ Kind(w, 2, "env") THEN Refused(how)
        ELSE IF w[1].sig = 0 \/ w[1].sig > Len(w) - 1 THEN Refused(how)
        ELSE IF /\ verify
                /\ SubSeq(w, ofs + 1, Len(w)) # Sign(Author, SubSeq(w, 1, ofs))
             THEN Refused(how)
        ELSE IF env.epoch = 0
             THEN Read(how, env, SubSeq(w, 3, w[1].head),
                       SubSeq(w, w[1].head + 1, w[1].head + w[1].data))
        ELSE IF \/ ofs < 3 \/ ~ held
                \/ ~ Kind(ct, 1, "ct")
                \/ ct # EncryptPayload(ct[1].plain, env.epoch)
             THEN Refused(how)
        ELSE Read(how, env, SubSeq(ct[1].plain, 1, 2),
                  SubSeq(ct[1].plain, 3, Len(ct[1].plain)))

Arrived == form # "none" /\ got = Unread

OpenTxLocal ==
    /\ Arrived /\ form \in {"local", "bare"}
    /\ got' = OpenLocal(wire)
    /\ UNCHANGED <<tx, wrote, wire, form, cut, readKeys>>

OpenTx(verify) ==
    /\ Arrived /\ form = "sealed"
    /\ got' = OpenSealed(wire, verify)
    /\ UNCHANGED <<tx, wrote, wire, form, cut, readKeys>>

(* The key arrives and the retained wire is tried again. *)
KeyArrives ==
    /\ form # "none" /\ TxEpoch \notin readKeys
    /\ readKeys' = readKeys \union {TxEpoch}
    /\ got' = IF got.ok THEN got ELSE Unread
    /\ UNCHANGED <<tx, wrote, wire, form, cut>>

-----------------------------------------------------------------------------

TxInit ==
    /\ tx = [id |-> OwnTxID, epoch |-> 0, proof |-> NoProof, from |-> Author,
             ops |-> <<>>, store |-> <<>>, normalized |-> FALSE]
    /\ wrote = <<>> /\ wire = <<>> /\ form = "none" /\ cut = FALSE
    /\ readKeys = {} /\ got = Unread

TxNext ==
    \/ \E epoch \in {0, TxEpoch} : SetEpochID(epoch)
    \/ \E elem \in Elems, val \in TxVals \union TxBadVals : Upsert(elem, val)
    \/ \E elem \in Elems : Delete(elem)
    \/ \E elem \in Elems, edit \in TxEdits, val \in TxVals : Serve(elem, edit, val)
    \/ Normalize
    \/ \E crypto \in BOOLEAN : SealTx(crypto)
    \/ MarshalLocal
    \/ \E n \in 0 .. Len(wire) - 1 : LoseTail(n)
    \/ OpenTxLocal
    \/ \E verify \in BOOLEAN : OpenTx(verify)
    \/ KeyArrives

TxSpec == TxInit /\ [][TxNext]_txVars

-----------------------------------------------------------------------------
(* What a tx says: each op's element, edit, kind and value.                *)
Says(t) == [i \in 1 .. Len(t.ops) |->
               [elem |-> t.ops[i].elem, edit |-> t.ops[i].edit,
                flag |-> t.ops[i].flag, val |-> OpValueBytes(t, i)]]

SameOps(s, t) ==
    /\ Len(s) = Len(t)
    /\ \A w \in Range(s) \union Range(t) :
           Cardinality({i \in 1 .. Len(s) : s[i] = w})
           = Cardinality({i \in 1 .. Len(t) : t[i] = w})

(* Whatever part of the wire arrives, a reader that gets a tx at all gets  *)
(* the author's: the same ops, each with the edit it was written under     *)
(* (OpenTx, OpenTxSansVerify, ReadTxMsg and reconstructEditIDs).           *)
OpenedIsAuthored ==
    got.ok => /\ SameOps(Says(got.tx), wrote)
              /\ got.tx.id = tx.id /\ got.tx.from = tx.from
              /\ got.tx.proof = tx.proof

(* A wire that arrives whole opens once the reader holds the epoch's key,  *)
(* in every form but SealTx's without a provider, which leaves the         *)
(* DataStore out of the wire and in the preamble.                          *)
WholeWireOpens ==
    (/\ got # Unread /\ ~ cut /\ form # "bare"
     /\ form = "local" \/ tx.epoch \in readKeys \union {0}) => got.ok

(* The sort never parts an op from its value, refused or not; after a      *)
(* Normalize that succeeds the ops ascend strictly by address, so that an  *)
(* element's first op is its newest edit (TxMsg.Normalize, Compare).       *)
NormalizeKeepsValues ==
    /\ SameOps(Says(tx), wrote)
    /\ tx.normalized =>
        \A i, j \in 1 .. Len(tx.ops) :
            i < j => \/ ElemLess(tx.ops[i].elem, tx.ops[j].elem)
                     \/ /\ tx.ops[i].elem = tx.ops[j].elem
                        /\ tx.ops[i].edit > tx.ops[j].edit

(* The newest of some of the accepted calls, by element and then edit. *)
NewestOf(hits) ==
    CHOOSE i \in hits : \A j \in hits \ {i} :
        \/ ElemLess(wrote[i].elem, wrote[j].elem)
        \/ wrote[i].elem = wrote[j].elem /\ wrote[i].edit > wrote[j].edit

(* LoadValue gives an element's newest value or nothing: never another     *)
(* element's and never an older edit's, though it asks sort.Find with the  *)
(* comparison the wrong way round and may miss a value that is there.      *)
(* Loading any item of an attribute gives the newest edit of its first     *)
(* element.                                                                *)
LoadsNewest ==
    ~ NormalizeErr(tx) =>
        /\ \A i \in 1 .. Len(wrote) :
              LET same == {j \in 1 .. Len(wrote) : wrote[j].elem = wrote[i].elem}
              IN  LoadValue(tx, wrote[i].elem) \in {NotFound, wrote[NewestOf(same)].val}
        /\ \A node \in TxNodes, attr \in TxAttrs :
              LET hits == {i \in 1 .. Len(wrote) :
                              wrote[i].elem[1] = node /\ wrote[i].elem[2] = attr}
              IN  LoadAnyItem(tx, node, attr) =
                      IF hits = {} THEN NotFound ELSE wrote[NewestOf(hits)].val

(* A transaction survives its wire, its reader and its sort: what opens is what   *)
(* was authored, what arrives whole opens, and no op loses its value or its place. *)
TxSound == OpenedIsAuthored /\ WholeWireOpens /\ NormalizeKeepsValues /\ LoadsNewest
=============================================================================
