-------------------------- MODULE MemberEpochMerge --------------------------
(***************************************************************************)
(* amp.MemberEpochMerger behind a FoldBinding: the MemberEpoch records of  *)
(* one member, folded field by field as they arrive.  Keys belong to the   *)
(* member (an issuer only seeds them), status to the issuer; each field    *)
(* has its own high-water EditID.                                          *)
(*                                                                         *)
(* Records are delivered in any order and any number of times, in the      *)
(* custody lane (the authored tx: EditID = TxID) or in the base lane (a    *)
(* snapshot serve that re-emits the record under another TxID).  A field   *)
(* is represented by the EditID of the record it was taken from.           *)
(***************************************************************************)
EXTENDS Naturals

CONSTANTS
  Edit,         \* EditIDs of the member's records, ordered by CompareTo
  Record        \* the shapes of record considered

\* self: the member's own; delete: a delete op; signing, encrypt, epoch: the
\* record declares that key, or carries an Epoch tag.
RecordShape ==
  [self : BOOLEAN, delete : BOOLEAN, signing : BOOLEAN, encrypt : BOOLEAN,
   epoch : BOOLEAN]

ASSUME EditAssumption == Edit \subseteq Nat \ {0}
ASSUME RecordAssumption == Record \subseteq RecordShape

NoEdit == 0
Lane == {"custody", "base"}

VARIABLES
  rec,          \* rec[e]: the record authored at EditID e; never changes
  edits,        \* binding.edits[memberID]
  base,         \* state.baseEdit; NoEdit when the merger has no state
  sign,         \* state.signEdit
  encrypt,      \* state.encryptEdit
  status,       \* state.statusEdit
  epoch,        \* the record state.epoch was taken from
  delivered,    \* history: deliveries <<e, lane>> since the item was last dropped
  signSeed,     \* history: the first record since then to set sign
  encryptSeed   \* history: the first record since then to set encrypt

stateVars == <<base, sign, encrypt, status, epoch>>
mergerVars == <<rec, edits, base, sign, encrypt, status, epoch, delivered, signSeed, encryptSeed>>

MergerTypeOK ==
  /\ rec \in [Edit -> Record]
  /\ {edits, base, sign, encrypt, status, epoch, signSeed, encryptSeed}
       \subseteq Edit \cup {NoEdit}
  /\ delivered \subseteq Edit \X Lane

MergerInit ==
  /\ rec \in [Edit -> Record]
  /\ edits = NoEdit
  /\ base = NoEdit
  /\ sign = NoEdit
  /\ encrypt = NoEdit
  /\ status = NoEdit
  /\ epoch = NoEdit
  /\ delivered = {}
  /\ signSeed = NoEdit
  /\ encryptSeed = NoEdit

\* The binding's cache has the member: MergeItem always materializes a first
\* record, and a delete drops cache and merge state together.
Live == base # NoEdit

-----------------------------------------------------------------------------
(* MergeItem's decisions on an arrival.                                    *)

\* isSelf: only the custody lane names an author.
IsSelf(e, lane) == lane = "custody" /\ rec[e].self

\* Mutant of TakesSign: an issuer may replace a key.
TakesSignFromAnyone(e, lane) == lane = "custody" /\ rec[e].signing /\ sign < e

\* SigningKey: the member's own record, or the first to seed it.
TakesSign(e, lane) ==
  /\ lane = "custody" /\ rec[e].signing
  /\ IsSelf(e, lane) \/ sign = NoEdit
  /\ sign < e

\* EncryptKey: the same rule, inside the SigningKey-declared gate.
TakesEncrypt(e, lane) ==
  /\ lane = "custody" /\ rec[e].signing /\ rec[e].encrypt
  /\ IsSelf(e, lane) \/ encrypt = NoEdit
  /\ encrypt < e

\* Mutant of TakesStatus: the clock is not strict.
TakesStatusAgain(e, lane) == lane = "custody" /\ (~IsSelf(e, lane) \/ ~Live)

\* Status: an issuer's record, or the member's own when it is the first.
TakesStatus(e, lane) ==
  /\ lane = "custody"
  /\ ~IsSelf(e, lane) \/ ~Live
  /\ status < e

\* A field and its clock move together.
Advance(field, takes, e) == IF takes THEN e ELSE field

\* OnNodeUpdate with a Merger: every non-delete arrival is offered to it.
Deliver(e, lane) ==
  /\ ~rec[e].delete
  /\ edits' = Advance(edits, edits < e, e)
  /\ base' = Advance(base, base < e, e)
  /\ sign' = Advance(sign, TakesSign(e, lane), e)
  /\ encrypt' = Advance(encrypt, TakesEncrypt(e, lane), e)
  /\ status' = Advance(status, TakesStatus(e, lane), e)
  /\ epoch' = Advance(epoch, TakesStatus(e, lane) /\ rec[e].epoch, e)
  /\ delivered' = delivered \cup {<<e, lane>>}
  /\ signSeed' = IF sign = NoEdit THEN sign' ELSE signSeed
  /\ encryptSeed' = IF encrypt = NoEdit THEN encrypt' ELSE encryptSeed
  /\ UNCHANGED rec

\* A newer delete drops the cached value and the merge state.
DeliverDelete(e) ==
  /\ rec[e].delete
  /\ edits < e
  /\ edits' = e
  /\ base' = NoEdit /\ sign' = NoEdit /\ encrypt' = NoEdit
  /\ status' = NoEdit /\ epoch' = NoEdit
  /\ delivered' = {} /\ signSeed' = NoEdit /\ encryptSeed' = NoEdit
  /\ UNCHANGED rec

MergerNext == \E e \in Edit : DeliverDelete(e) \/ \E lane \in Lane : Deliver(e, lane)

MergerSpec == MergerInit /\ [][MergerNext]_mergerVars

-----------------------------------------------------------------------------
\* materialize: the record a custody field is served from; a field without a
\* custody-lane record comes with the base.
Served(field) == IF field # NoEdit THEN field ELSE base

-----------------------------------------------------------------------------
(* Correctness.                                                            *)

\* The member's own records that declare a signing (and an encrypt) key,
\* delivered as authored.
OwnSign == {e \in Edit : <<e, "custody">> \in delivered /\ rec[e].self /\ rec[e].signing}
OwnEncrypt == {e \in OwnSign : rec[e].encrypt}

\* x is the newest of S.
Newest(x, S) == x \in S /\ \A e \in S : e <= x

\* In every delivery order a key is the newest of the record that seeded it
\* and the member's own rotations: no issuer restatement and no snapshot serve
\* delivered later ever displaces it, and no rotation newer than the seed is
\* lost.
KeysAreMemberOwned ==
  /\ sign # NoEdit => Newest(sign, OwnSign \cup {signSeed})
  /\ encrypt # NoEdit => Newest(encrypt, OwnEncrypt \cup {encryptSeed})
  /\ (sign = NoEdit => OwnSign = {}) /\ (encrypt = NoEdit => OwnEncrypt = {})

\* Re-presenting a record already delivered in the same lane changes nothing:
\* "idempotence under re-presentation is the merger's contract".
RedeliveryIsNoOp == [][delivered' = delivered /\ delivered # {} => UNCHANGED stateVars]_mergerVars

\* amp.support.memberepoch_test.go: "an issuer suspension survives a NEWER
\* self "Active" record regardless of order".
StatusIssuerOwned ==
  (\E e \in Edit : <<e, "custody">> \in delivered /\ ~rec[e].self) => ~rec[Served(status)].self

=============================================================================
