------------------------------ MODULE KeyProofs ------------------------------
(***************************************************************************)
(* Where keys are kept and which key is a member's, for any containers,    *)
(* epochs, roles, keys and records: the epoch keys on disk                 *)
(* (EpochKeyStore), and the keys of a member folded from its records in    *)
(* any delivery order (MemberEpochMerge).                                  *)
(***************************************************************************)
EXTENDS EpochKeyStore, MemberEpochMerge, TLAPS

-----------------------------------------------------------------------------
(* The epoch keys on disk.  The inductive invariant adds one fact to the   *)
(* properties of the model: an open session with nothing unsaved holds     *)
(* exactly the keys on disk.  ShredKeys relies on it when it reports       *)
(* success without saving.                                                 *)

SyncInv == open /\ ~changed => keys = tome.keys

IndInv == TypeOK /\ SyncInv /\ DurableAtReturn /\ ElectionDurable /\ CurrentIsHeld

-----------------------------------------------------------------------------
\* The empty store is well typed, and no epoch of it is held.
LEMMA EmptyType == /\ EmptyKeys \in Keys
                   /\ NoElections \in Elections
                   /\ EmptyTome \in Tome
                   /\ NoEpoch \notin Epoch
BY EpochAssumption DEF EmptyKeys, NoElections, EmptyTome, Keys, Elections, Tome, NoEpoch

\* The store starts empty, in memory and on disk.
LEMMA InitInd == Init => IndInv
<1> SUFFICES ASSUME Init PROVE IndInv
  OBVIOUS
<1>1. TypeOK
  BY EmptyType DEF Init, TypeOK
<1>2. SyncInv /\ DurableAtReturn /\ ElectionDurable
  BY DEF Init, SyncInv, DurableAtReturn, ElectionDurable
<1>3. tome.current = NoElections /\ current = NoElections
  BY DEF Init, EmptyTome
<1>4. CurrentIsHeld
  BY <1>3 DEF CurrentIsHeld, NoElections
<1> QED BY <1>1, <1>2, <1>4 DEF IndInv

\* Whatever a method installs, as long as its elections are held, persisting
\* it keeps every promise, with each of the three outcomes.
LEMMA PersistInd ==
  ASSUME IndInv, open,
         NEW ks \in Keys, NEW cur \in Elections, NEW outcome,
         \A c \in Container : cur[c] # NoEpoch => Held(ks, cur[c]),
         Persist(ks, cur, outcome)
  PROVE  IndInv'
<1> DEFINE saved == [keys |-> ks, current |-> cur]
<1>t. saved \in Tome /\ saved.keys = ks /\ saved.current = cur
  BY DEF Tome
<1>1. CASE outcome = "ok"
  <2>1. /\ keys' = ks /\ current' = cur /\ changed' = FALSE /\ open'
        /\ tome' = saved /\ acked' = saved
        /\ unsureEpochs' = {} /\ unsureContainers' = {}
    BY <1>1 DEF Persist
  <2>2. TypeOK'
    BY <2>1, <1>t DEF TypeOK, IndInv
  <2>3. SyncInv' /\ DurableAtReturn' /\ ElectionDurable'
    BY <2>1, <1>t DEF SyncInv, DurableAtReturn, ElectionDurable
  <2>4. CurrentIsHeld'
    BY <2>1, <1>t DEF CurrentIsHeld, Held
  <2> QED BY <2>2, <2>3, <2>4 DEF IndInv
<1>2. CASE outcome = "failed"
  <2>1. /\ keys' = ks /\ current' = cur /\ changed' = TRUE /\ open'
        /\ UNCHANGED tome /\ Doubt(ks, cur)
    BY <1>2 DEF Persist
  <2>2. TypeOK'
    BY <2>1 DEF TypeOK, IndInv, Doubt
  <2>3. SyncInv'
    BY <2>1 DEF SyncInv
  <2>4. DurableAtReturn'
    BY <2>1 DEF DurableAtReturn, Doubt, IndInv, TypeOK
  <2>5. ElectionDurable'
    BY <2>1 DEF ElectionDurable, Doubt, IndInv, TypeOK
  <2>6. CurrentIsHeld'
    BY <2>1 DEF CurrentIsHeld, Held, IndInv
  <2> QED BY <2>2, <2>3, <2>4, <2>5, <2>6 DEF IndInv
<1>3. CASE outcome = "killed"
  <2>1. Down /\ Doubt(ks, cur) /\ tome' \in {tome, saved}
    BY <1>3 DEF Persist
  <2>2. TypeOK'
    BY <2>1, <1>t, EmptyType DEF TypeOK, IndInv, Doubt, Down
  <2>3. SyncInv'
    BY <2>1 DEF SyncInv, Down
  <2>4. DurableAtReturn'
    BY <2>1, <1>t DEF DurableAtReturn, Doubt, Down, IndInv, TypeOK
  <2>5. ElectionDurable'
    BY <2>1, <1>t DEF ElectionDurable, Doubt, Down, IndInv, TypeOK
  <2>6. CurrentIsHeld'
    BY <2>1, <1>t DEF CurrentIsHeld, Held, IndInv, Down, NoElections
  <2> QED BY <2>2, <2>3, <2>4, <2>5, <2>6 DEF IndInv
<1> QED BY <1>1, <1>2, <1>3 DEF Persist

-----------------------------------------------------------------------------
\* PutKey: the upserted epoch is held, and no other epoch is dropped.
LEMMA PutKeyInd ==
  ASSUME IndInv,
         NEW c \in Container, NEW e \in Epoch, NEW r \in Role, NEW k \in Key, NEW o,
         PutKey(c, e, r, k, o)
  PROVE  IndInv'
<1> DEFINE ks == Upsert(c, e, r, k)
           cur == Elect(c, e)
           old == IF Held(keys, e) THEN keys[e]
                  ELSE [container |-> c, role |-> [x \in Role |-> NoKey]]
           new == [container |-> old.container, role |-> [old.role EXCEPT ![r] = k]]
<1>1. keys \in Keys /\ current \in Elections
  BY DEF IndInv, TypeOK
<1>2. old \in Entry
  BY <1>1 DEF Held, Keys, Entry
<1>3. new \in Entry /\ new # NoEntry
  <2>1. old.container \in Container /\ old.role \in [Role -> Key \cup {NoKey}]
    BY <1>2 DEF Entry
  <2>2. [old.role EXCEPT ![r] = k] \in [Role -> Key \cup {NoKey}]
    BY <2>1
  <2>3. new \in Entry
    BY <2>1, <2>2 DEF Entry
  <2> QED BY <2>3, EntryAssumption
<1>4. ks = [keys EXCEPT ![e] = new]
  BY DEF Upsert
<1>5. ks \in Keys
  BY <1>1, <1>3, <1>4 DEF Keys
<1>6. cur \in Elections
  BY <1>1 DEF Elect, Elections
<1>7. \A x \in Container : cur[x] # NoEpoch => Held(ks, cur[x])
  <2> SUFFICES ASSUME NEW x \in Container, cur[x] # NoEpoch
               PROVE  Held(ks, cur[x])
    OBVIOUS
  <2>1. cur[x] = e \/ cur[x] = current[x]
    BY <1>1 DEF Elect, Elections
  <2>2. CASE cur[x] = e
    BY <2>2, <1>1, <1>3, <1>4 DEF Held, Keys
  <2>3. CASE cur[x] = current[x]
    <3>1. Held(keys, current[x])
      BY <2>3 DEF IndInv, CurrentIsHeld
    <3> QED BY <3>1, <2>3, <1>1, <1>3, <1>4 DEF Held, Keys
  <2> QED BY <2>1, <2>2, <2>3
<1>8. open /\ Persist(ks, cur, o)
  BY DEF PutKey
<1> HIDE DEF ks, cur
<1> QED BY <1>5, <1>6, <1>7, <1>8, PersistInd

\* SetCurrentEpoch: the epoch it elects is held.
LEMMA SetCurrentEpochInd ==
  ASSUME IndInv, NEW c \in Container, NEW e \in Epoch, NEW o, SetCurrentEpoch(c, e, o)
  PROVE  IndInv'
<1> DEFINE cur == [current EXCEPT ![c] = e]
<1>1. keys \in Keys /\ current \in Elections
  BY DEF IndInv, TypeOK
<1>2. cur \in Elections
  BY <1>1 DEF Elections
<1>3. \A x \in Container : cur[x] # NoEpoch => Held(keys, cur[x])
  BY <1>1 DEF SetCurrentEpoch, IndInv, CurrentIsHeld, Elections
<1>4. open /\ Persist(keys, cur, o)
  BY DEF SetCurrentEpoch
<1> HIDE DEF cur
<1> QED BY <1>1, <1>2, <1>3, <1>4, PersistInd

\* ShredKeys: elections of shredded epochs are dropped with the keys.
LEMMA ShredKeysInd ==
  ASSUME IndInv, NEW S \in SUBSET Epoch, NEW o, ShredKeys(S, o)
  PROVE  IndInv'
<1> DEFINE ks == Shredded(S)
           cur == DropDangling(ks)
<1>1. keys \in Keys /\ current \in Elections
  BY DEF IndInv, TypeOK
<1>2. ks \in Keys
  BY <1>1 DEF Shredded, Keys
<1>3. cur \in Elections
  BY <1>1 DEF DropDangling, Elections
<1>4. \A x \in Container : cur[x] # NoEpoch => Held(ks, cur[x])
  BY DEF DropDangling
<1>5. open /\ Persist(ks, cur, o)
  BY DEF ShredKeys
<1> HIDE DEF ks, cur
<1> QED BY <1>2, <1>3, <1>4, <1>5, PersistInd

\* ShredKeys that finds nothing to do: what it reports absent is absent from
\* the tome, because nothing is unsaved.
LEMMA ShredNothingInd ==
  ASSUME IndInv, NEW S \in SUBSET Epoch, ShredNothing(S)
  PROVE  IndInv'
<1>0. /\ open /\ ~changed /\ UNCHANGED <<open, keys, current, changed, tome, unsureContainers>>
      /\ unsureEpochs' = unsureEpochs \ S
      /\ acked' = [acked EXCEPT !.keys = [e \in Epoch |-> IF e \in S THEN NoEntry ELSE @[e]]]
      /\ \A e \in S : ~Held(keys, e)
  BY DEF ShredNothing, memory
<1>a. acked \in Tome
  BY DEF IndInv, TypeOK
<1>1. /\ acked'.keys = [e \in Epoch |-> IF e \in S THEN NoEntry ELSE acked.keys[e]]
      /\ acked'.current = acked.current
      /\ acked' \in Tome
  BY <1>0, <1>a DEF Tome, Keys
<1>2. TypeOK'
  BY <1>0, <1>1 DEF IndInv, TypeOK
<1>3. SyncInv' /\ CurrentIsHeld'
  BY <1>0 DEF IndInv, SyncInv, CurrentIsHeld, Held
<1>4. ElectionDurable'
  BY <1>0, <1>1 DEF IndInv, ElectionDurable
<1>5. DurableAtReturn'
  BY <1>0, <1>1 DEF IndInv, SyncInv, DurableAtReturn, Held
<1> QED BY <1>2, <1>3, <1>4, <1>5 DEF IndInv

\* Close: what was unsaved is saved.
LEMMA CloseInd == ASSUME IndInv, Close PROVE IndInv'
<1> DEFINE saved == [keys |-> keys, current |-> current]
<1>1. saved \in Tome /\ saved.keys = keys /\ saved.current = current
  BY DEF IndInv, TypeOK, Tome
<1>2. /\ acked' \in Tome
      /\ acked'.keys = keys
      /\ acked'.current = IF changed THEN current ELSE acked.current
  BY DEF Close, IndInv, TypeOK, Tome
<1>3. /\ open /\ Down
      /\ changed => tome' = saved /\ unsureContainers' = {}
      /\ ~changed => tome' = tome /\ unsureContainers' = unsureContainers
      /\ unsureEpochs' = {}
  BY DEF Close
<1>4. TypeOK'
  BY <1>1, <1>2, <1>3, EmptyType DEF IndInv, TypeOK, Down
<1>5. SyncInv'
  BY <1>3 DEF Down, SyncInv
<1>6. DurableAtReturn' /\ ElectionDurable'
  BY <1>1, <1>2, <1>3 DEF IndInv, SyncInv, DurableAtReturn, ElectionDurable, Down
<1>7. CurrentIsHeld'
  BY <1>1, <1>3 DEF IndInv, CurrentIsHeld, Held, Down, NoElections
<1> QED BY <1>4, <1>5, <1>6, <1>7 DEF IndInv

\* A kill between calls loses nothing that was acknowledged.
LEMMA KillInd == ASSUME IndInv, Kill PROVE IndInv'
BY EmptyType DEF Kill, Down, IndInv, TypeOK, SyncInv, DurableAtReturn, ElectionDurable,
   CurrentIsHeld, Held, NoElections

\* Reopening finds every persisted election held, so the newest-epoch
\* fallback never overrides one.
LEMMA OpenInd == ASSUME IndInv, OpenEpochKeyStore PROVE IndInv'
<1>1. /\ open' /\ keys' = tome.keys /\ current' \in Elections /\ changed' = FALSE
      /\ \A c \in Container : Reelected(c, current'[c])
      /\ UNCHANGED <<tome, acked, unsureEpochs, unsureContainers>>
  BY DEF OpenEpochKeyStore
<1>2. TypeOK'
  BY <1>1 DEF IndInv, TypeOK, Tome
<1>3. SyncInv' /\ DurableAtReturn'
  BY <1>1 DEF IndInv, SyncInv, DurableAtReturn
<1>4. ElectionDurable'
  BY <1>1 DEF IndInv, CurrentIsHeld, ElectionDurable, Reelected
<1>5. CurrentIsHeld'
  BY <1>1 DEF IndInv, CurrentIsHeld, Reelected, NewestOf, Held
<1> QED BY <1>2, <1>3, <1>4, <1>5 DEF IndInv

-----------------------------------------------------------------------------
\* The inductive invariant holds in every reachable state.
THEOREM Inductive == Spec => []IndInv
<1>1. IndInv /\ [Next]_vars => IndInv'
  <2> SUFFICES ASSUME IndInv, [Next]_vars PROVE IndInv'
    OBVIOUS
  <2>1. CASE UNCHANGED vars
    BY <2>1 DEF vars, IndInv, TypeOK, SyncInv, DurableAtReturn, ElectionDurable,
       CurrentIsHeld, Held
  <2>2. CASE \E c \in Container, e \in Epoch, o \in Outcome :
               \/ \E r \in Role, k \in Key : PutKey(c, e, r, k, o)
               \/ SetCurrentEpoch(c, e, o)
    BY <2>2, PutKeyInd, SetCurrentEpochInd
  <2>3. CASE \E S \in SUBSET Epoch : ShredNothing(S) \/ \E o \in Outcome : ShredKeys(S, o)
    BY <2>3, ShredNothingInd, ShredKeysInd
  <2>4. CASE Close
    BY <2>4, CloseInd
  <2>5. CASE Kill
    BY <2>5, KillInd
  <2>6. CASE OpenEpochKeyStore
    BY <2>6, OpenInd
  <2> QED BY <2>1, <2>2, <2>3, <2>4, <2>5, <2>6 DEF Next
<1> QED BY InitInd, <1>1, PTL DEF Spec

\* PutKey and ShredKeys are durable at return, whatever calls fail and
\* wherever the process is killed afterwards.
THEOREM MutationsDurable == Spec => []DurableAtReturn
<1>1. IndInv => DurableAtReturn
  BY DEF IndInv
<1> QED BY Inductive, <1>1, PTL

\* An election reported as made survives kills and reopens.
THEOREM ElectionsDurable == Spec => []ElectionDurable
<1>1. IndInv => ElectionDurable
  BY DEF IndInv
<1> QED BY Inductive, <1>1, PTL

\* No container's current epoch is one whose keys are gone.
THEOREM NoDanglingElection == Spec => []CurrentIsHeld
<1>1. IndInv => CurrentIsHeld
  BY DEF IndInv
<1> QED BY Inductive, <1>1, PTL

-----------------------------------------------------------------------------
(* The keys of a member, folded from its records.                          *)

\* A record delivered since the last drop has had its effect: no clock that
\* it could move is still behind it.
Absorbed(e, lane) ==
  /\ e <= base
  /\ (lane = "custody" /\ rec[e].signing) =>
       /\ sign # NoEdit
       /\ rec[e].self => e <= sign
       /\ rec[e].encrypt => encrypt # NoEdit /\ (rec[e].self => e <= encrypt)
  /\ (lane = "custody" /\ ~rec[e].self) => e <= status

AbsorbedInv == \A e \in Edit, lane \in Lane : <<e, lane>> \in delivered => Absorbed(e, lane)

\* A key comes from its seed or from the member.
SourceInv ==
  /\ sign \in OwnSign \cup {signSeed}
  /\ encrypt \in OwnEncrypt \cup {encryptSeed}
  /\ signSeed <= sign /\ encryptSeed <= encrypt

MergerInv == MergerTypeOK /\ AbsorbedInv /\ SourceInv

\* EditIDs are naturals above NoEdit.
LEMMA EditType == NoEdit \in Nat /\ \A e \in Edit : e \in Nat /\ e > NoEdit
BY EditAssumption DEF NoEdit

\* Nothing is delivered at the start.
LEMMA MergerStarts == MergerInit => MergerInv
BY EditType DEF MergerInit, MergerInv, MergerTypeOK, AbsorbedInv, SourceInv, NoEdit

\* One delivery keeps the invariant.
LEMMA DeliverInd ==
  ASSUME MergerInv, NEW e \in Edit, NEW lane \in Lane, Deliver(e, lane)
  PROVE  MergerInv'
<1>1. /\ {edits, base, sign, encrypt, status, epoch, signSeed, encryptSeed} \subseteq Nat
      /\ e \in Nat /\ e > 0 /\ NoEdit = 0
  BY EditType DEF MergerInv, MergerTypeOK, NoEdit
<1>2. /\ rec' = rec
      /\ delivered' = delivered \cup {<<e, lane>>}
      /\ base' = (IF base < e THEN e ELSE base)
      /\ sign' = (IF TakesSign(e, lane) THEN e ELSE sign)
      /\ encrypt' = (IF TakesEncrypt(e, lane) THEN e ELSE encrypt)
      /\ status' = (IF TakesStatus(e, lane) THEN e ELSE status)
      /\ signSeed' = (IF sign = NoEdit THEN sign' ELSE signSeed)
      /\ encryptSeed' = (IF encrypt = NoEdit THEN encrypt' ELSE encryptSeed)
  BY DEF Deliver, Advance
<1>3. MergerTypeOK'
  BY <1>2 DEF MergerInv, MergerTypeOK, Deliver, Advance
<1>4. /\ base <= base' /\ sign <= sign' /\ encrypt <= encrypt' /\ status <= status'
      /\ {base', sign', encrypt', status'} \subseteq Nat
  BY <1>1, <1>2 DEF TakesSign, TakesEncrypt, TakesStatus
<1>5. AbsorbedInv'
  <2> SUFFICES ASSUME NEW d \in Edit, NEW ln \in Lane, <<d, ln>> \in delivered'
               PROVE  Absorbed(d, ln)'
    BY DEF AbsorbedInv
  <2>0. d \in Nat
    BY EditType
  <2>1. CASE <<d, ln>> \in delivered
    <3>1. Absorbed(d, ln)
      BY <2>1 DEF MergerInv, AbsorbedInv
    <3> QED BY <3>1, <1>1, <1>2, <1>4, <2>0 DEF Absorbed
  <2>2. CASE d = e /\ ln = lane
    <3>1. e <= base'
      BY <1>1, <1>2
    <3>2. ASSUME lane = "custody", rec[e].signing
          PROVE  sign' # NoEdit /\ (rec[e].self => e <= sign')
      BY <3>2, <1>1, <1>2 DEF TakesSign, IsSelf
    <3>3. ASSUME lane = "custody", rec[e].signing, rec[e].encrypt
          PROVE  encrypt' # NoEdit /\ (rec[e].self => e <= encrypt')
      BY <3>3, <1>1, <1>2 DEF TakesEncrypt, IsSelf
    <3>4. ASSUME lane = "custody", ~rec[e].self PROVE e <= status'
      BY <3>4, <1>1, <1>2 DEF TakesStatus, IsSelf
    <3> QED BY <2>2, <3>1, <3>2, <3>3, <3>4, <1>2 DEF Absorbed
  <2> QED BY <1>2, <2>1, <2>2
<1>6. SourceInv'
  <2>1. OwnSign \subseteq OwnSign' /\ OwnEncrypt \subseteq OwnEncrypt'
    BY <1>2 DEF OwnSign, OwnEncrypt
  <2>2. sign' \in OwnSign' \cup {signSeed'} /\ signSeed' <= sign'
    <3>1. CASE ~TakesSign(e, lane)
      BY <3>1, <2>1, <1>1, <1>2 DEF MergerInv, SourceInv
    <3>2. CASE TakesSign(e, lane) /\ sign = NoEdit
      BY <3>2, <1>1, <1>2
    <3>3. CASE TakesSign(e, lane) /\ sign # NoEdit
      <4>1. e \in OwnSign'
        BY <3>3, <1>2 DEF TakesSign, IsSelf, OwnSign
      <4>2. signSeed' = signSeed /\ signSeed <= sign
        BY <3>3, <1>2 DEF MergerInv, SourceInv
      <4> QED BY <3>3, <4>1, <4>2, <1>1, <1>2 DEF TakesSign
    <3> QED BY <3>1, <3>2, <3>3
  <2>3. encrypt' \in OwnEncrypt' \cup {encryptSeed'} /\ encryptSeed' <= encrypt'
    <3>1. CASE ~TakesEncrypt(e, lane)
      BY <3>1, <2>1, <1>1, <1>2 DEF MergerInv, SourceInv
    <3>2. CASE TakesEncrypt(e, lane) /\ encrypt = NoEdit
      BY <3>2, <1>1, <1>2
    <3>3. CASE TakesEncrypt(e, lane) /\ encrypt # NoEdit
      <4>1. e \in OwnEncrypt'
        BY <3>3, <1>2 DEF TakesEncrypt, IsSelf, OwnSign, OwnEncrypt
      <4>2. encryptSeed' = encryptSeed /\ encryptSeed <= encrypt
        BY <3>3, <1>2 DEF MergerInv, SourceInv
      <4> QED BY <3>3, <4>1, <4>2, <1>1, <1>2 DEF TakesEncrypt
    <3> QED BY <3>1, <3>2, <3>3
  <2> QED BY <2>2, <2>3 DEF SourceInv
<1> QED BY <1>3, <1>5, <1>6 DEF MergerInv

\* A delete starts over.
LEMMA DeleteInd == ASSUME MergerInv, NEW e \in Edit, DeliverDelete(e) PROVE MergerInv'
BY EditType DEF DeliverDelete, MergerInv, MergerTypeOK, AbsorbedInv, SourceInv, NoEdit

\* The inductive invariant holds in every reachable state.
THEOREM MergerInductive == MergerSpec => []MergerInv
<1>1. MergerInv /\ [MergerNext]_mergerVars => MergerInv'
  <2> SUFFICES ASSUME MergerInv, [MergerNext]_mergerVars PROVE MergerInv'
    OBVIOUS
  <2>1. CASE UNCHANGED mergerVars
    BY <2>1 DEF mergerVars, MergerInv, MergerTypeOK, AbsorbedInv, Absorbed, SourceInv, OwnSign, OwnEncrypt
  <2>2. CASE MergerNext
    BY <2>2, DeliverInd, DeleteInd DEF MergerNext
  <2> QED BY <2>1, <2>2
<1> QED BY MergerStarts, <1>1, PTL DEF MergerSpec

\* In every delivery order a member's keys are the newest of their seed and
\* the member's own rotations.
THEOREM CustodyCorrect == MergerSpec => []KeysAreMemberOwned
<1>1. MergerInv => KeysAreMemberOwned
  <2> SUFFICES ASSUME MergerInv PROVE KeysAreMemberOwned
    OBVIOUS
  <2>1. \A e \in OwnSign : e <= sign /\ sign # NoEdit
    BY DEF OwnSign, MergerInv, AbsorbedInv, Absorbed, Lane
  <2>2. \A e \in OwnEncrypt : e <= encrypt /\ encrypt # NoEdit
    BY DEF OwnSign, OwnEncrypt, MergerInv, AbsorbedInv, Absorbed, Lane
  <2> QED BY <2>1, <2>2 DEF KeysAreMemberOwned, Newest, MergerInv, SourceInv
<1> QED BY MergerInductive, <1>1, PTL

\* MergeItem meets its contract: re-presented records change nothing.
THEOREM Idempotent == MergerSpec => RedeliveryIsNoOp
<1>1. MergerInv /\ [MergerNext]_mergerVars => [delivered' = delivered /\ delivered # {} => UNCHANGED stateVars]_mergerVars
  <2> SUFFICES ASSUME MergerInv, MergerNext, delivered' = delivered, delivered # {}
               PROVE  UNCHANGED stateVars
    BY DEF mergerVars, stateVars
  <2>1. ASSUME NEW e \in Edit, DeliverDelete(e) PROVE FALSE
    BY <2>1 DEF DeliverDelete
  <2>2. ASSUME NEW e \in Edit, NEW lane \in Lane, Deliver(e, lane)
        PROVE  UNCHANGED stateVars
    <3>1. Absorbed(e, lane) /\ e \in Nat /\ e > 0 /\ NoEdit = 0
      BY <2>2, EditType DEF Deliver, MergerInv, AbsorbedInv, NoEdit
    <3>2. {base, sign, encrypt, status, epoch} \subseteq Nat
      BY EditType DEF MergerInv, MergerTypeOK
    <3>3. ~(base < e) /\ ~TakesSign(e, lane) /\ ~TakesEncrypt(e, lane)
      BY <3>1, <3>2 DEF Absorbed, TakesSign, TakesEncrypt, IsSelf
    <3>4. ~TakesStatus(e, lane)
      BY <3>1, <3>2 DEF Absorbed, TakesStatus, IsSelf, Live
    <3> QED BY <2>2, <3>3, <3>4 DEF Deliver, Advance, stateVars
  <2> QED BY <2>1, <2>2 DEF MergerNext
<1> QED BY MergerInductive, <1>1, PTL DEF MergerSpec, RedeliveryIsNoOp

=============================================================================
