---------------------------- MODULE SharedProofs ----------------------------
(***************************************************************************)
(* The safety of the structures that goroutines share: the reference       *)
(* counted Wrapper and the Context of stdlib/closer (Closer), the copy-on- *)
(* write registry of amp/std (Registry), the token bucket of               *)
(* stdlib/bucket (TokenBucket) and the table of stdlib/symbol              *)
(* (SymbolTable), for any number of goroutines, attrs, modules and values  *)
(* and any capacity, rate and pool size.                                   *)
(***************************************************************************)
EXTENDS Closer, Registry, TokenBucket, SymbolTable, FiniteSetTheorems, SequenceTheorems,
        WellFoundedInduction, NaturalsInduction, TLAPS

-----------------------------------------------------------------------------
(* Wrapper and Context *)

CloserTypeOK ==
    /\ refCount \in Int /\ refsHeld \in SUBSET RefUsers /\ IsFiniteSet(refsHeld)
    /\ refClosing \in RefUsers \cup {"none"} /\ targetCloses \in Nat
    /\ refPanic \in BOOLEAN /\ ctxClosed \in BOOLEAN
    /\ ctxErr \in CtxClosers \cup {"unset"}
    /\ ctxAt \in [CtxClosers -> {"idle", "waiting", "in", "done"}]

\* The count is the number of references held, until a Close nobody is owed panics.
CountIsRefs ==
    /\ ~refPanic => refCount = Cardinality(refsHeld)
    /\ refPanic => refCount = -1 /\ refsHeld = {}

\* The error is in place before anybody can read it, and is the one that was read.
ErrBeforeDone ==
    /\ ctxClosed => ctxErr # "unset"
    /\ \A c \in CtxClosers : /\ ctxAt[c] = "in" => ctxErr # "unset"
                             /\ ctxAt[c] = "done" => ctxClosed
    /\ \A e \in ctxSeen : e = "nil" \/ (ctxClosed /\ e = ctxErr)

CloserInv == CloserTypeOK /\ CountIsRefs /\ TargetClosedOnce /\ ErrBeforeDone

\* A step that leaves one half alone keeps that half of the invariant.
LEMMA CtxFrame == ASSUME CloserInv, UNCHANGED ctxVars PROVE ErrBeforeDone'
  BY DEF CloserInv, ErrBeforeDone, ctxVars

LEMMA WrapFrame == ASSUME CloserInv, UNCHANGED wrapVars PROVE (CountIsRefs /\ TargetClosedOnce)'
  BY DEF CloserInv, CountIsRefs, TargetClosedOnce, wrapVars

\* CloserInv is inductive.
LEMMA CloserStep == CloserInv /\ [CloserNext]_closerVars => CloserInv'
<1> SUFFICES ASSUME CloserInv, [CloserNext]_closerVars PROVE CloserInv'
  OBVIOUS
<1> USE CloserAssumption
<1>a. /\ CloserTypeOK /\ CountIsRefs /\ TargetClosedOnce /\ ErrBeforeDone
      /\ Cardinality(refsHeld) \in Nat /\ (Cardinality(refsHeld) = 0 <=> refsHeld = {})
  BY FS_CardinalityType, FS_EmptySet DEF CloserInv, CloserTypeOK
<1>1. ASSUME NEW u \in RefUsers, NEW v \in RefUsers, PushOpen(u, v) PROVE CloserInv'
  <2>1. /\ u \in refsHeld /\ v \notin refsHeld /\ refsHeld' = refsHeld \cup {v}
        /\ refCount' = refCount + 1
        /\ UNCHANGED <<refClosing, targetCloses, refPanic, ctxVars>>
    BY <1>1 DEF PushOpen
  <2>2. IsFiniteSet(refsHeld') /\ Cardinality(refsHeld') = Cardinality(refsHeld) + 1
    BY <1>a, <2>1, FS_AddElement DEF CloserTypeOK
  <2>3. ~refPanic
    BY <1>a, <2>1 DEF CountIsRefs
  <2>4. CountIsRefs'
    BY <1>a, <2>1, <2>2, <2>3 DEF CountIsRefs
  <2>5. TargetClosedOnce'
    BY <1>a, <2>1, <2>3 DEF TargetClosedOnce, CloserTypeOK
  <2>6. CloserTypeOK'
    BY <1>a, <2>1, <2>2 DEF CloserTypeOK, ctxVars
  <2> QED  BY <2>1, <2>4, <2>5, <2>6, CtxFrame DEF CloserInv
<1>2. ASSUME NEW u \in RefUsers, PopOpen(u) PROVE CloserInv'
  <2>1. /\ u \in refsHeld /\ refsHeld' = refsHeld \ {u} /\ refCount' = refCount - 1
        /\ refClosing' = IF refCount' = 0 THEN u ELSE refClosing
        /\ UNCHANGED <<targetCloses, refPanic, ctxVars>>
    BY <1>2 DEF PopOpen, LastRef
  <2>2. IsFiniteSet(refsHeld') /\ Cardinality(refsHeld') = Cardinality(refsHeld) - 1
    BY <1>a, <2>1, FS_RemoveElement DEF CloserTypeOK
  <2>3. Cardinality(refsHeld') = 0 <=> refsHeld' = {}
    BY <2>2, FS_EmptySet
  <2>4. ~refPanic
    BY <1>a, <2>1 DEF CountIsRefs
  <2>5. CountIsRefs'
    BY <1>a, <2>1, <2>2, <2>4 DEF CountIsRefs
  <2>6. TargetClosedOnce'
    <3>1. refClosing = "none" /\ targetCloses = 0
      BY <1>a, <2>1 DEF TargetClosedOnce, CloserTypeOK
    <3>2. refCount' = 0 <=> refsHeld' = {}
      BY <2>1, <2>3, <2>4, <2>5 DEF CountIsRefs
    <3> QED  BY <2>1, <2>4, <3>1, <3>2 DEF TargetClosedOnce
  <2>7. CloserTypeOK'
    BY <1>a, <2>1, <2>2 DEF CloserTypeOK, ctxVars
  <2> QED  BY <2>1, <2>5, <2>6, <2>7, CtxFrame DEF CloserInv
<1>3. CASE CloseTarget
  <2>1. CloserTypeOK'
    BY <1>a, <1>3 DEF CloserTypeOK, CloseTarget, ctxVars
  <2>2. (CountIsRefs /\ TargetClosedOnce)'
    BY <1>a, <1>3 DEF CloserTypeOK, CountIsRefs, TargetClosedOnce, CloseTarget
  <2>3. UNCHANGED ctxVars  BY <1>3 DEF CloseTarget
  <2> QED  BY <2>1, <2>2, <2>3, CtxFrame DEF CloserInv
<1>4. CASE PopTooMany
  <2>1. refPanic' /\ refPanic' \in BOOLEAN  BY <1>4, Zenon DEF PopTooMany
  <2>2. refsHeld = {}
    BY <1>a, <1>4 DEF CountIsRefs, PopTooMany, CloserTypeOK
  <2>3. CloserTypeOK'
    BY <1>a, <1>4, <2>1 DEF CloserTypeOK, PopTooMany, ctxVars
  <2>4. (CountIsRefs /\ TargetClosedOnce)'
    BY <1>a, <1>4, <2>1, <2>2 DEF CountIsRefs, TargetClosedOnce, PopTooMany
  <2>5. UNCHANGED ctxVars  BY <1>4 DEF PopTooMany
  <2> QED  BY <2>3, <2>4, <2>5, CtxFrame DEF CloserInv
<1>5. CASE InputDone
  <2>1. UNCHANGED wrapVars /\ UNCHANGED <<ctxErr, ctxClosed, ctxAt, ctxSeen>>
    BY <1>5 DEF InputDone
  <2>2. CloserTypeOK' /\ ErrBeforeDone'
    BY <1>a, <2>1 DEF CloserTypeOK, ErrBeforeDone, wrapVars
  <2> QED  BY <2>1, <2>2, WrapFrame DEF CloserInv
<1>6. CASE WatcherEnds
  <2>1. CloserTypeOK' /\ ErrBeforeDone'
    BY <1>a, <1>6 DEF CloserTypeOK, ErrBeforeDone, WatcherEnds, wrapVars
  <2>2. UNCHANGED wrapVars  BY <1>6 DEF WatcherEnds
  <2> QED  BY <2>1, <2>2, WrapFrame DEF CloserInv
<1>7. CASE ReadErr
  <2>1. CloserTypeOK' /\ ErrBeforeDone'
    BY <1>a, <1>7 DEF CloserTypeOK, ErrBeforeDone, ReadErr, CtxErr, wrapVars
  <2>2. UNCHANGED wrapVars  BY <1>7 DEF ReadErr
  <2> QED  BY <2>1, <2>2, WrapFrame DEF CloserInv
<1>8. ASSUME NEW c \in CtxClosers, CtxClose(c) PROVE CloserInv'
  <2>1. CloserTypeOK' /\ ErrBeforeDone'
    BY <1>a, <1>8 DEF CloserTypeOK, ErrBeforeDone, CtxClose, wrapVars
  <2>2. UNCHANGED wrapVars  BY <1>8 DEF CtxClose
  <2> QED  BY <2>1, <2>2, WrapFrame DEF CloserInv
<1>9. ASSUME NEW c \in CtxClosers, CtxSetErr(c) PROVE CloserInv'
  <2>1. CloserTypeOK' /\ ErrBeforeDone'
    BY <1>a, <1>9 DEF CloserTypeOK, ErrBeforeDone, CtxSetErr, OnceFree, wrapVars
  <2>2. UNCHANGED wrapVars  BY <1>9 DEF CtxSetErr
  <2> QED  BY <2>1, <2>2, WrapFrame DEF CloserInv
<1>10. ASSUME NEW c \in CtxClosers, CtxSignal(c) PROVE CloserInv'
  <2>1. ctxClosed' /\ ctxClosed' \in BOOLEAN  BY <1>10, Zenon DEF CtxSignal
  <2>2. CloserTypeOK' /\ ErrBeforeDone'
    BY <1>a, <1>10, <2>1 DEF CloserTypeOK, ErrBeforeDone, CtxSignal, wrapVars
  <2>3. UNCHANGED wrapVars  BY <1>10 DEF CtxSignal
  <2> QED  BY <2>2, <2>3, WrapFrame DEF CloserInv
<1>11. ASSUME NEW c \in CtxClosers, CtxCloseNoOp(c) PROVE CloserInv'
  <2>1. CloserTypeOK' /\ ErrBeforeDone'
    BY <1>a, <1>11 DEF CloserTypeOK, ErrBeforeDone, CtxCloseNoOp, wrapVars
  <2>2. UNCHANGED wrapVars  BY <1>11 DEF CtxCloseNoOp
  <2> QED  BY <2>1, <2>2, WrapFrame DEF CloserInv
<1>12. CASE UNCHANGED closerVars
  <2>1. UNCHANGED wrapVars /\ UNCHANGED ctxVars
    BY <1>12 DEF closerVars, wrapVars, ctxVars
  <2>2. CloserTypeOK'
    BY <1>a, <1>12 DEF CloserTypeOK, closerVars
  <2> QED  BY <2>1, <2>2, WrapFrame, CtxFrame DEF CloserInv
<1> QED
  BY <1>1, <1>2, <1>3, <1>4, <1>5, <1>6, <1>7, <1>8, <1>9, <1>10, <1>11, <1>12 DEF CloserNext

\* However references are pushed and closed, the target of a Wrapper is closed once and
\* only when nobody holds it; however Closes of a Context race, Err() gives one error.
THEOREM ClosersAreCorrect == CloserSpec => []CloserCorrect
<1>1. CloserInit => CloserInv
  <2> SUFFICES ASSUME CloserInit PROVE CloserInv  OBVIOUS
  <2>1. ~refPanic /\ refPanic \in BOOLEAN /\ ~ctxClosed /\ ctxClosed \in BOOLEAN
    BY Zenon DEF CloserInit
  <2>2. IsFiniteSet(refsHeld) /\ Cardinality(refsHeld) = 1
    BY FS_Singleton DEF CloserInit
  <2>3. CloserTypeOK
    BY <2>1, <2>2, CloserAssumption DEF CloserInit, CloserTypeOK
  <2>4. CountIsRefs /\ TargetClosedOnce /\ ErrBeforeDone
    BY <2>1, <2>2 DEF CloserInit, CountIsRefs, TargetClosedOnce, ErrBeforeDone
  <2> QED  BY <2>3, <2>4 DEF CloserInv
<1>2. CloserInv => CloserCorrect
  <2> SUFFICES ASSUME CloserInv PROVE OneError  BY DEF CloserInv, CloserCorrect
  <2>1. ctxSeen \ {"nil"} \subseteq {ctxErr}
    BY DEF CloserInv, ErrBeforeDone
  <2>2. IsFiniteSet({ctxErr}) /\ Cardinality({ctxErr}) = 1
    BY FS_Singleton
  <2>3. Cardinality(ctxSeen \ {"nil"}) <= 1
    BY <2>1, <2>2, FS_Subset
  <2> QED  BY <2>3 DEF CloserInv, ErrBeforeDone, OneError
<1> QED  BY <1>1, <1>2, CloserStep, PTL DEF CloserSpec

-----------------------------------------------------------------------------
(* The registry *)

\* The registrations RegisterAttr and RegisterModule let through.
ValidJob == {j \in AttrJob : ~RegRefused(j)} \cup ModJob

RegPC == {"rest", "lock", "load", "publish", "unlock"}

\* A registrar between Lock and Unlock is the holder of writeMu.
WritersExclude == \A r \in Registrars : reg[r].pc \in {"load", "publish", "unlock"} => writeMu = r

JobsValid ==
    /\ \A r \in Registrars : reg[r].pc # "rest" => reg[r].job \in ValidJob
    /\ accepted \subseteq ValidJob
    /\ \A j \in accepted : j.kind = "module" => j.id \in snap.byID

\* What a registrar is about to publish is still the current snapshot with its own entry,
\* and its attr is still free.
NextIsCurrent ==
    \A r \in Registrars : reg[r].pc = "publish" =>
        /\ reg[r].next = WithInserted(snap, reg[r].job)
        /\ reg[r].job.kind = "attr" => snap.attrs[reg[r].job.id] = NoPolicy

RegistryInv ==
    /\ RegistryTypeOK /\ DOMAIN reg = Registrars
    /\ reg \in [Registrars -> [pc : RegPC, job : ValidJob \cup {NoJob}, next : Snapshot]]
    /\ WritersExclude /\ JobsValid /\ NextIsCurrent /\ RegistrySound

\* A valid registration is of an attr with a storable policy, or of a module.
LEMMA ValidJobs ==
    ASSUME NEW j \in ValidJob
    PROVE  \/ /\ j.kind = "attr" /\ j.id \in AttrIDs /\ j.policy \in StoredAttrs
              /\ j.policy # NoPolicy
           \/ j.kind = "module" /\ j.id \in Mods
<1>1. CASE j \in AttrJob
  <2>1. j.kind = "attr" /\ j.id \in AttrIDs \cup {NilAttr} /\ j.policy \in Policies
    BY <1>1 DEF AttrJob
  <2>2. ~RegRefused(j)
    BY <2>1 DEF ValidJob, ModJob
  <2>3. j.policy \in StoredAttrs
    BY <2>1, <2>2 DEF RegRefused, StoredAttrs, Policies
  <2>4. j.policy # NoPolicy
    BY <2>1 DEF Policies, NoPolicy
  <2> QED  BY <2>1, <2>2, <2>3, <2>4 DEF RegRefused
<1>2. CASE j \in ModJob
  BY <1>2 DEF ModJob
<1> QED  BY <1>1, <1>2 DEF ValidJob

\* What inserting a registration does to each part of a snapshot.
LEMMA Inserted ==
    ASSUME NEW s \in Snapshot, NEW j \in ValidJob
    PROVE  LET n == WithInserted(s, j)
           IN  /\ n \in Snapshot
               /\ j.kind = "attr" => /\ n.attrs = [s.attrs EXCEPT ![j.id] = j.policy]
                                     /\ n.byID = s.byID /\ n.byAlias = s.byAlias
               /\ j.kind = "module" =>
                     /\ n.attrs = s.attrs /\ n.byID = s.byID \cup {j.id}
                     /\ n.byAlias = [a \in AliasNames |->
                                        IF a \in AliasesOf[j.id] THEN j.id ELSE s.byAlias[a]]
<1>1. CASE j.kind = "attr"
  <2>1. j.id \in AttrIDs /\ j.policy \in StoredAttrs
    BY <1>1, ValidJobs
  <2>2. WithInserted(s, j) = [s EXCEPT !.attrs[j.id] = j.policy]
    BY <1>1 DEF WithInserted
  <2> QED  BY <1>1, <2>1, <2>2 DEF Snapshot
<1>2. CASE j.kind = "module"
  <2>1. j.id \in Mods
    BY <1>2, ValidJobs
  <2> DEFINE al == [a \in AliasNames |-> IF a \in AliasesOf[j.id] THEN j.id ELSE s.byAlias[a]]
  <2>2. WithInserted(s, j) = [s EXCEPT !.byID = s.byID \cup {j.id}, !.byAlias = al]
    BY <1>2 DEF WithInserted
  <2>3. al \in [AliasNames -> Mods \cup {NoOne}]
    BY <2>1 DEF Snapshot
  <2> DEFINE n == [attrs |-> s.attrs, byID |-> s.byID \cup {j.id}, byAlias |-> al]
  <2>4. s = [attrs |-> s.attrs, byID |-> s.byID, byAlias |-> s.byAlias]
    BY DEF Snapshot
  <2>5. WithInserted(s, j) = n
    BY <2>2, <2>4
  <2>6. n \in Snapshot
    BY <2>1, <2>3 DEF Snapshot
  <2> QED  BY <1>2, <2>5, <2>6
<1> QED  BY <1>1, <1>2, ValidJobs

\* RegistryInv is inductive.
LEMMA RegistryStep == RegistryInv /\ [RegistryNext]_registryVars => RegistryInv'
<1> SUFFICES ASSUME RegistryInv, [RegistryNext]_registryVars PROVE RegistryInv'
  OBVIOUS
<1> DEFINE Reg == [pc : RegPC, job : ValidJob \cup {NoJob}, next : Snapshot]
<1>a. /\ reg \in [Registrars -> Reg] /\ snap \in Snapshot /\ DOMAIN reg = Registrars
      /\ RegistryTypeOK /\ WritersExclude /\ JobsValid /\ NextIsCurrent
      /\ AcceptedStays /\ NoHalfModule
  BY DEF RegistryInv, RegistryTypeOK, RegistrySound
<1> USE DEF RegPC
<1>b. EmptySnap \in Snapshot
  BY DEF EmptySnap, Snapshot, StoredAttrs
<1>1. ASSUME NEW r \in Registrars, NEW job \in AttrJob \cup ModJob, Register(r, job)
      PROVE  RegistryInv'
  <2> DEFINE new == [pc |-> "lock", job |-> job, next |-> EmptySnap]
  <2>1. /\ reg' = [reg EXCEPT ![r] = new] /\ UNCHANGED <<snap, writeMu, accepted>>
        /\ ~RegRefused(job)
    BY <1>1 DEF Register
  <2>2. job \in ValidJob
    BY <2>1 DEF ValidJob
  <2>3. new \in Reg  BY <1>b, <2>2
  <2>4. reg' \in [Registrars -> Reg] /\ reg'[r] = new
        /\ \A q \in Registrars : q # r => reg'[q] = reg[q]
    BY <1>a, <2>1, <2>3
  <2>5. RegistryTypeOK'
    BY <1>a, <1>b, <2>1, <2>4 DEF RegistryTypeOK
  <2>6. (WritersExclude /\ JobsValid /\ NextIsCurrent)'
    BY <1>a, <2>1, <2>2, <2>4 DEF WritersExclude, JobsValid, NextIsCurrent
  <2>7. RegistrySound'
    BY <1>a, <2>1 DEF RegistrySound, AcceptedStays, NoHalfModule, FindModule
  <2> QED  BY <2>4, <2>5, <2>6, <2>7 DEF RegistryInv
<1>2. ASSUME NEW r \in Registrars, Lock(r) PROVE RegistryInv'
  <2> DEFINE new == [reg[r] EXCEPT !.pc = "load"]
  <2>1. /\ reg[r].pc = "lock" /\ writeMu = NoOne /\ writeMu' = r
        /\ reg' = [reg EXCEPT ![r] = new] /\ UNCHANGED <<snap, accepted>>
    BY <1>2, <1>a DEF Lock, CanLock
  <2>2. new \in Reg /\ new.pc = "load" /\ new.job = reg[r].job /\ new.next = reg[r].next
    BY <1>a
  <2>3. reg' \in [Registrars -> Reg] /\ reg'[r] = new
        /\ \A q \in Registrars : q # r => reg'[q] = reg[q]
    BY <1>a, <2>1, <2>2
  <2>4. RegistryTypeOK'
    BY <1>a, <2>1, <2>2, <2>3 DEF RegistryTypeOK
  <2>5. (WritersExclude /\ JobsValid /\ NextIsCurrent)'
    BY <1>a, <2>1, <2>2, <2>3, RegistryAssumption DEF WritersExclude, JobsValid, NextIsCurrent
  <2>6. RegistrySound'
    BY <1>a, <2>1 DEF RegistrySound, AcceptedStays, NoHalfModule, FindModule
  <2> QED  BY <2>3, <2>4, <2>5, <2>6 DEF RegistryInv
<1>3. ASSUME NEW r \in Registrars, Load(r) PROVE RegistryInv'
  <2> DEFINE job == reg[r].job
  <2>1. reg[r].pc = "load" /\ UNCHANGED <<snap, writeMu>> /\ job \in ValidJob
    BY <1>3, <1>a DEF Load, JobsValid
  <2>2. CASE job.kind = "attr" /\ (Conflicts(snap, job) \/ snap.attrs[job.id] = job.policy)
    <3> DEFINE new == [reg[r] EXCEPT !.pc = "unlock"]
    <3>1. /\ reg' = [reg EXCEPT ![r] = new]
          /\ IF Conflicts(snap, job) THEN accepted' = accepted
             ELSE accepted' = accepted \cup {job} /\ snap.attrs[job.id] = job.policy
      BY <1>3, <1>a, <2>2 DEF Load, Accept
    <3>2. new \in Reg /\ new.pc = "unlock" /\ new.job = job /\ new.next = reg[r].next
      BY <1>a
    <3>3. reg' \in [Registrars -> Reg] /\ reg'[r] = new
          /\ \A q \in Registrars : q # r => reg'[q] = reg[q]
      BY <1>a, <3>1, <3>2
    <3>4. RegistryTypeOK'
      BY <1>a, <2>1, <3>2, <3>3 DEF RegistryTypeOK
    <3>5. (WritersExclude /\ JobsValid /\ NextIsCurrent)'
      BY <1>a, <2>1, <2>2, <3>1, <3>2, <3>3 DEF WritersExclude, JobsValid, NextIsCurrent
    <3>6. RegistrySound'
      BY <1>a, <2>1, <2>2, <3>1 DEF RegistrySound, AcceptedStays, NoHalfModule, FindModule
    <3> QED  BY <3>3, <3>4, <3>5, <3>6 DEF RegistryInv
  <2>3. CASE ~(job.kind = "attr" /\ (Conflicts(snap, job) \/ snap.attrs[job.id] = job.policy))
    <3> DEFINE new == [reg[r] EXCEPT !.pc = "publish", !.next = WithInserted(snap, job)]
    <3>1. reg' = [reg EXCEPT ![r] = new] /\ accepted' = accepted
      BY <1>3, <1>a, <2>3 DEF Load
    <3>2. /\ new \in Reg /\ new.pc = "publish" /\ new.job = job
          /\ new.next = WithInserted(snap, job)
      BY <1>a, <2>1, Inserted
    <3>3. reg' \in [Registrars -> Reg] /\ reg'[r] = new
          /\ \A q \in Registrars : q # r => reg'[q] = reg[q]
      BY <1>a, <3>1, <3>2
    <3>4. job.kind = "attr" => snap.attrs[job.id] = NoPolicy
      BY <2>3 DEF Conflicts
    <3>5. RegistryTypeOK'
      BY <1>a, <2>1, <3>2, <3>3 DEF RegistryTypeOK
    <3>6. (WritersExclude /\ JobsValid /\ NextIsCurrent)'
      BY <1>a, <2>1, <3>1, <3>2, <3>3, <3>4 DEF WritersExclude, JobsValid, NextIsCurrent
    <3>7. RegistrySound'
      BY <1>a, <2>1, <3>1 DEF RegistrySound, AcceptedStays, NoHalfModule, FindModule
    <3> QED  BY <3>3, <3>5, <3>6, <3>7 DEF RegistryInv
  <2> QED  BY <2>2, <2>3
<1>4. ASSUME NEW r \in Registrars, Publish(r) PROVE RegistryInv'
  <2> DEFINE job == reg[r].job
             new == [reg[r] EXCEPT !.pc = "unlock"]
  <2>1. /\ reg[r].pc = "publish" /\ snap' = reg[r].next /\ writeMu' = writeMu
        /\ reg' = [reg EXCEPT ![r] = new] /\ accepted' = accepted \cup {job}
    BY <1>4, <1>a DEF Publish, Accept
  <2>2. job \in ValidJob /\ snap' = WithInserted(snap, job) /\ snap' \in Snapshot
    BY <1>a, <2>1, Inserted DEF JobsValid, NextIsCurrent
  <2>3. new \in Reg /\ new.pc = "unlock" /\ new.job = job /\ new.next = reg[r].next
    BY <1>a
  <2>4. reg' \in [Registrars -> Reg] /\ reg'[r] = new
        /\ \A q \in Registrars : q # r => reg'[q] = reg[q]
    BY <1>a, <2>1, <2>3
  <2>5. RegistryTypeOK'
    BY <1>a, <2>1, <2>2, <2>3, <2>4 DEF RegistryTypeOK
  <2>6. (WritersExclude /\ JobsValid /\ NextIsCurrent)'
    <3>1. (WritersExclude /\ NextIsCurrent)'
      BY <1>a, <2>1, <2>2, <2>3, <2>4 DEF WritersExclude, JobsValid, NextIsCurrent
    <3>2. \A j \in accepted \cup {job} : j.kind = "module" => j.id \in snap'.byID
      <4>1. CASE job.kind = "attr"
        BY <1>a, <2>2, <4>1, Inserted DEF JobsValid
      <4>2. CASE job.kind = "module"
        <5>1. snap'.byID = snap.byID \cup {job.id}
          BY <1>a, <2>2, <4>2, Inserted
        <5> QED  BY <1>a, <5>1 DEF JobsValid
      <4> QED  BY <2>2, <4>1, <4>2, ValidJobs
    <3> QED  BY <1>a, <2>1, <2>2, <2>3, <2>4, <3>1, <3>2 DEF JobsValid
  <2>7. AcceptedStays'
    <3> SUFFICES ASSUME NEW j \in accepted \cup {job}
                 PROVE  IF j.kind = "attr" THEN snap'.attrs[j.id] = j.policy
                        ELSE FindModule(j.id, NoOne)' = j.id
      BY <2>1 DEF AcceptedStays
    <3>1. j \in ValidJob
      BY <1>a, <2>2 DEF JobsValid
    <3>2. j # job => IF j.kind = "attr" THEN snap.attrs[j.id] = j.policy ELSE j.id \in snap.byID
      BY <1>a, <3>1, ValidJobs DEF AcceptedStays, JobsValid
    <3>3. CASE j.kind = "attr"
      <4>1. job.kind = "attr" => snap.attrs[job.id] = NoPolicy
        BY <1>a, <2>1 DEF NextIsCurrent
      <4>2. j.id \in AttrIDs /\ j.policy # NoPolicy /\ snap.attrs \in [AttrIDs -> StoredAttrs]
        BY <1>a, <3>1, <3>3, ValidJobs DEF Snapshot
      <4>3. CASE job.kind = "attr"
        <5>1. snap'.attrs = [snap.attrs EXCEPT ![job.id] = job.policy]
          BY <1>a, <2>2, <4>3, Inserted
        <5>2. j # job => j.id # job.id
          BY <3>2, <3>3, <4>1, <4>2, <4>3
        <5> QED  BY <3>2, <3>3, <4>2, <5>1, <5>2
      <4>4. CASE job.kind = "module"
        BY <1>a, <2>2, <3>2, <3>3, <4>4, Inserted
      <4> QED  BY <2>2, <4>3, <4>4, ValidJobs
    <3>4. CASE j.kind = "module"
      <4>1. j.id \in snap'.byID
        <5>1. CASE job.kind = "attr"
          BY <1>a, <2>2, <3>2, <3>4, <5>1, Inserted
        <5>2. CASE job.kind = "module"
          <6>1. snap'.byID = snap.byID \cup {job.id}
            BY <1>a, <2>2, <5>2, Inserted
          <6> QED  BY <3>2, <3>4, <6>1
        <5> QED  BY <2>2, <5>1, <5>2, ValidJobs
      <4> QED  BY <3>4, <4>1 DEF FindModule
    <3> QED  BY <3>1, <3>3, <3>4, ValidJobs
  <2>8. NoHalfModule'
    <3>1. CASE job.kind = "attr"
      BY <1>a, <2>2, <3>1, Inserted DEF NoHalfModule, FindModule
    <3>2. CASE job.kind = "module"
      <4> SUFFICES ASSUME NEW m \in snap'.byID, NEW a \in AliasesOf[m]
                   PROVE  LET found == FindModule(NoOne, a)'
                          IN  found \in snap'.byID /\ a \in AliasesOf[found]
        BY DEF NoHalfModule
      <4>1. /\ snap'.byID = snap.byID \cup {job.id} /\ job.id \in Mods
            /\ snap'.byAlias = [b \in AliasNames |->
                                  IF b \in AliasesOf[job.id] THEN job.id ELSE snap.byAlias[b]]
        BY <1>a, <2>2, <3>2, Inserted, ValidJobs
      <4>2. a \in AliasNames /\ NoOne \notin snap'.byID /\ NoOne \notin snap.byID
        BY <1>a, <2>2, RegistryAssumption DEF Snapshot, AliasNames
      <4>3. FindModule(NoOne, a)' = snap'.byAlias[a] /\ FindModule(NoOne, a) = snap.byAlias[a]
        BY <4>2 DEF FindModule
      <4> QED  BY <1>a, <4>1, <4>2, <4>3 DEF NoHalfModule
    <3> QED  BY <2>2, <3>1, <3>2, ValidJobs
  <2> QED  BY <2>4, <2>5, <2>6, <2>7, <2>8 DEF RegistryInv, RegistrySound
<1>5. ASSUME NEW r \in Registrars, Unlock(r) PROVE RegistryInv'
  <2>1. /\ reg[r].pc = "unlock" /\ writeMu' = NoOne
        /\ reg' = [reg EXCEPT ![r] = Resting] /\ UNCHANGED <<snap, accepted>>
    BY <1>5 DEF Unlock
  <2>2. Resting \in Reg /\ Resting.pc = "rest" /\ Resting.next = EmptySnap
    BY <1>b DEF Resting
  <2>3. reg' \in [Registrars -> Reg] /\ reg'[r] = Resting
        /\ \A q \in Registrars : q # r => reg'[q] = reg[q]
    BY <1>a, <2>1, <2>2
  <2>4. RegistryTypeOK'
    BY <1>a, <1>b, <2>1, <2>2, <2>3 DEF RegistryTypeOK
  <2>5. (WritersExclude /\ JobsValid /\ NextIsCurrent)'
    BY <1>a, <2>1, <2>2, <2>3 DEF WritersExclude, JobsValid, NextIsCurrent
  <2>6. RegistrySound'
    BY <1>a, <2>1 DEF RegistrySound, AcceptedStays, NoHalfModule, FindModule
  <2> QED  BY <2>3, <2>4, <2>5, <2>6 DEF RegistryInv
<1>6. CASE UNCHANGED registryVars
  <2>1. snap' = snap /\ writeMu' = writeMu /\ reg' = reg /\ accepted' = accepted
    BY <1>6 DEF registryVars
  <2> QED
    BY <2>1 DEF RegistryInv, RegistryTypeOK, WritersExclude, JobsValid, NextIsCurrent,
       RegistrySound, AcceptedStays, NoHalfModule, FindModule
<1> QED  BY <1>1, <1>2, <1>3, <1>4, <1>5, <1>6 DEF RegistryNext

\* Concurrent registrations never lose one another: one that returned nil stays, with the
\* policy it was accepted with, and no reader sees half of a module.
THEOREM RegistryIsSound == RegistrySpec => [](RegistryTypeOK /\ RegistrySound)
<1>1. RegistryInit => RegistryInv
  <2> SUFFICES ASSUME RegistryInit PROVE RegistryInv  OBVIOUS
  <2>1. EmptySnap \in Snapshot /\ EmptySnap.byID = {}
    BY DEF EmptySnap, Snapshot, StoredAttrs
  <2>2. Resting.pc = "rest" /\ Resting.next = EmptySnap
        /\ Resting \in [pc : RegPC, job : ValidJob \cup {NoJob}, next : Snapshot]
    BY <2>1 DEF Resting, RegPC
  <2> QED
    BY <2>1, <2>2 DEF RegistryInit, RegistryInv, RegistryTypeOK, WritersExclude, JobsValid,
       NextIsCurrent, RegistrySound, AcceptedStays, NoHalfModule
<1>2. RegistryInv => RegistryTypeOK /\ RegistrySound  BY DEF RegistryInv
<1> QED  BY <1>1, <1>2, RegistryStep, PTL DEF RegistrySpec

-----------------------------------------------------------------------------
(* The token bucket *)

Taking == [at : Nat, n : Nat, sum : Nat]

BucketShape ==
    /\ now \in Nat /\ lastFill \in 0..now /\ tokens \in 0..Capacity
    /\ taker \in [Takers -> [pc : {"idle", "asleep"}, until : Nat, alone : BOOLEAN]]
    /\ takes \in Seq(Taking)

\* From every admission on, what was taken and what is left never exceed the burst budget
\* and the refill up to the last fill.
Conserved ==
    \A i \in 1..Len(takes) :
        /\ takes[i].at <= lastFill
        /\ takes[i].n + (TakenSoFar - takes[i].sum) + tokens
              <= Capacity + RefillRate * (lastFill - takes[i].at)

\* The level the bucket will have at an undisturbed sleeper's wake-up is at most a token
\* short of a tick's refill, and at most a token.
DeficitKept ==
    \A t \in Takers : (taker[t].pc = "asleep" /\ taker[t].alone) =>
        /\ lastFill <= taker[t].until =>
              /\ tokens + RefillRate * (taker[t].until - lastFill) <= Unit
              /\ Unit <= tokens + RefillRate * (taker[t].until - lastFill) + RefillRate
        /\ lastFill > taker[t].until => tokens >= Unit

BucketInv == BucketShape /\ Conserved /\ WindowBound /\ DeficitKept

\* The arithmetic of a refill.
LEMMA RefillGrows ==
    ASSUME NEW a \in Int, NEW b \in Int, a <= b
    PROVE  RefillRate * a <= RefillRate * b
  BY BucketAssumption, SMTT(30)

LEMMA RefillAdds ==
    ASSUME NEW a \in Int, NEW b \in Int, NEW c \in Int
    PROVE  /\ RefillRate * (b - a) + RefillRate * (c - b) = RefillRate * (c - a)
           /\ RefillRate * a \in Int
  BY BucketAssumption, SMTT(30)

\* What Refilled is: the level grown by the time since the last fill, capped.
LEMMA RefilledLevel ==
    ASSUME BucketShape
    PROVE  /\ Refilled \in 0..Capacity
           /\ Refilled <= tokens + RefillRate * (now - lastFill)
           /\ Refilled = Capacity \/ Refilled = tokens + RefillRate * (now - lastFill)
           /\ tokens <= Refilled
<1>1. /\ Capacity \in Nat /\ RefillRate \in Nat /\ tokens \in 0..Capacity
      /\ now - lastFill \in Nat
  BY BucketAssumption DEF BucketShape
<1>2. RefillRate * (now - lastFill) \in Nat
  BY <1>1
<1>3. (now - lastFill) * RefillRate = RefillRate * (now - lastFill)
  BY <1>1
<1> QED  BY <1>1, <1>2, <1>3 DEF Refilled, Least

\* A fill, with or without an admission, keeps the books of the bucket.
LEMMA FillStep ==
    ASSUME BucketInv, NEW count \in Nat, Fill(count), Admit(count), now' = now
    PROVE  /\ lastFill' \in 0..now' /\ tokens' \in 0..Capacity /\ takes' \in Seq(Taking)
           /\ Conserved' /\ WindowBound'
<1> DEFINE R == Refilled
<1>1. /\ R \in 0..Capacity /\ R <= tokens + RefillRate * (now - lastFill)
      /\ Capacity \in Nat /\ now \in Nat /\ lastFill \in 0..now /\ tokens \in 0..Capacity
      /\ takes \in Seq(Taking) /\ lastFill' = now
  BY RefilledLevel, BucketAssumption DEF BucketInv, BucketShape, Fill
<1> HIDE DEF R
<1>2. \A i \in 1..Len(takes) : takes[i].at \in Nat /\ takes[i].n \in Nat /\ takes[i].sum \in Nat
  <2>1. \A i \in 1..Len(takes) : takes[i] \in Taking
    BY <1>1
  <2> QED  BY <2>1 DEF Taking
<1>3. TakenSoFar \in Nat
  BY <1>1, <1>2 DEF TakenSoFar
<1>4. ASSUME NEW i \in 1..Len(takes)
      PROVE  /\ takes[i].at <= now
             /\ takes[i].n + (TakenSoFar - takes[i].sum) + R
                  <= Capacity + RefillRate * (now - takes[i].at)
  <2> DEFINE at == takes[i].at
             since  == RefillRate * (lastFill - at)
             gained == RefillRate * (now - lastFill)
             upto   == RefillRate * (now - at)
  <2>1. at <= lastFill /\ takes[i].n + (TakenSoFar - takes[i].sum) + tokens <= Capacity + since
    BY DEF BucketInv, Conserved
  <2>2. at \in Int /\ lastFill \in Int /\ now \in Int
    BY <1>1, <1>2
  <2> HIDE DEF at
  <2>3. since + gained = upto /\ since \in Int /\ gained \in Int /\ upto \in Int
    BY <2>2, RefillAdds, BucketAssumption
  <2>4. R <= tokens + gained
    BY <1>1
  <2> HIDE DEF since, gained, upto
  <2>5. takes[i].n + (TakenSoFar - takes[i].sum) + R <= Capacity + upto
    <3>1. /\ takes[i].n \in Int /\ takes[i].sum \in Int /\ TakenSoFar \in Int
          /\ R \in Int /\ Capacity \in Int /\ tokens \in Int
      BY <1>1, <1>2, <1>3
    <3> QED  BY <2>1, <2>3, <2>4, <3>1
  <2> QED  BY <1>1, <2>1, <2>2, <2>5 DEF at, upto
<1>5. CASE R >= count
  <2> DEFINE x == [at |-> now, n |-> count, sum |-> TakenSoFar + count]
             L == Len(takes)
  <2>1. takes' = Append(takes, x) /\ tokens' = R - count
    BY <1>5 DEF Fill, Admit, R
  <2>2. x \in Taking /\ L \in Nat
    BY <1>1, <1>3 DEF Taking
  <2>3. /\ takes' \in Seq(Taking) /\ Len(takes') = L + 1 /\ takes'[L + 1] = x
        /\ \A i \in 1..L : takes'[i] = takes[i]
    BY <1>1, <2>1, <2>2
  <2>4. TakenSoFar' = TakenSoFar + count
    BY <2>2, <2>3 DEF TakenSoFar
  <2>5. tokens' \in 0..Capacity
    BY <1>1, <1>5, <2>1
  <2>6. ASSUME NEW i \in 1..(L + 1)
        PROVE  /\ takes'[i].at <= now
               /\ takes'[i].n + (TakenSoFar' - takes'[i].sum) + tokens'
                    <= Capacity + RefillRate * (now - takes'[i].at)
    <3>1. CASE i = L + 1
      <4>1. now - now = 0 /\ RefillRate * 0 = 0
        BY <1>1, BucketAssumption
      <4> QED  BY <1>1, <1>3, <2>1, <2>3, <2>4, <3>1, <4>1
    <3>2. CASE i \in 1..L
      <4> DEFINE upto == RefillRate * (now - takes[i].at)
      <4>1. takes[i].n + (TakenSoFar - takes[i].sum) + R <= Capacity + upto /\ takes[i].at <= now
        BY <1>4, <3>2
      <4>2. upto \in Int
        <5>1. now \in Int /\ takes[i].at \in Int  BY <1>1, <1>2, <3>2
        <5> QED  BY <5>1, BucketAssumption
      <4>3. takes'[i] = takes[i] /\ takes[i].n \in Nat /\ takes[i].sum \in Nat
        BY <1>2, <2>3, <3>2
      <4> HIDE DEF upto
      <4>4. takes[i].n + (TakenSoFar' - takes[i].sum) + tokens' <= Capacity + upto
        <5>1. TakenSoFar \in Int /\ R \in Int /\ Capacity \in Int /\ count \in Int
          BY <1>1, <1>3
        <5> QED  BY <2>1, <2>4, <4>1, <4>2, <4>3, <5>1
      <4> QED  BY <4>1, <4>3, <4>4 DEF upto
    <3> QED  BY <2>2, <3>1, <3>2
  <2>7. Conserved'
    BY <1>1, <2>3, <2>6 DEF Conserved
  <2>8. WindowBound'
    <3> SUFFICES ASSUME NEW i \in 1..(L + 1), NEW j \in 1..(L + 1), i <= j
                 PROVE  takes'[i].n + (takes'[j].sum - takes'[i].sum)
                          <= Capacity + RefillRate * (takes'[j].at - takes'[i].at)
      BY <2>3 DEF WindowBound
    <3>1. CASE j \in 1..L
      BY <2>2, <2>3, <3>1 DEF BucketInv, WindowBound
    <3>2. CASE j = L + 1
      <4>1. takes'[j].sum = TakenSoFar' /\ takes'[j].at = now
        BY <2>3, <2>4, <3>2
      <4> DEFINE upto == RefillRate * (now - takes'[i].at)
      <4>2. takes'[i] \in Taking
        BY <2>2, <2>3
      <4>3. takes'[i].at \in Nat /\ takes'[i].n \in Nat /\ takes'[i].sum \in Nat
        BY <4>2 DEF Taking
      <4>4. upto \in Int
        <5>1. now \in Int /\ takes'[i].at \in Int  BY <1>1, <4>3
        <5> QED  BY <5>1, BucketAssumption
      <4>5. takes'[i].n + (TakenSoFar' - takes'[i].sum) + tokens' <= Capacity + upto
        BY <2>6
      <4> HIDE DEF upto
      <4>6. takes'[i].n + (TakenSoFar' - takes'[i].sum) <= Capacity + upto
        <5>1. TakenSoFar' \in Int /\ Capacity \in Int /\ tokens' \in Nat
          BY <1>1, <1>3, <2>4, <2>5
        <5> QED  BY <4>3, <4>4, <4>5, <5>1
      <4> QED  BY <4>1, <4>6 DEF upto
    <3> QED  BY <2>2, <3>1, <3>2
  <2> QED  BY <1>1, <2>3, <2>5, <2>7, <2>8
<1>6. CASE ~(R >= count)
  <2>1. takes' = takes /\ tokens' = R
    BY <1>6 DEF Fill, Admit, R
  <2>2. TakenSoFar' = TakenSoFar
    BY <2>1 DEF TakenSoFar
  <2> QED  BY <1>1, <1>4, <2>1, <2>2 DEF Conserved, WindowBound, BucketInv
<1> QED  BY <1>5, <1>6

\* A fill that admits nothing keeps what an undisturbed sleeper was promised.
LEMMA DeficitFill ==
    ASSUME BucketInv, NEW u \in Nat,
           lastFill <= u => /\ tokens + RefillRate * (u - lastFill) <= Unit
                            /\ Unit <= tokens + RefillRate * (u - lastFill) + RefillRate,
           lastFill > u => tokens >= Unit
    PROVE  /\ now <= u => /\ Refilled + RefillRate * (u - now) <= Unit
                          /\ Unit <= Refilled + RefillRate * (u - now) + RefillRate
           /\ now > u => Refilled >= Unit
<1> DEFINE R == Refilled
           G(d) == RefillRate * d
<1>1. /\ R \in 0..Capacity /\ R <= tokens + G(now - lastFill) /\ tokens <= R
      /\ R = Capacity \/ R = tokens + G(now - lastFill)
      /\ now \in Nat /\ lastFill \in Nat /\ lastFill <= now /\ tokens \in Nat
      /\ Capacity \in Nat /\ Unit \in Nat /\ Unit <= Capacity
  BY RefilledLevel, BucketAssumption DEF BucketInv, BucketShape
<1>2. /\ G(now - lastFill) \in Int /\ G(u - lastFill) \in Int /\ G(u - now) \in Int
      /\ G(now - lastFill) + G(u - now) = G(u - lastFill) /\ RefillRate \in Nat
  BY <1>1, RefillAdds, BucketAssumption
<1> HIDE DEF R
<1>3. ASSUME now <= u PROVE R + G(u - now) <= Unit /\ Unit <= R + G(u - now) + RefillRate
  <2>1. G(u - now) >= 0
    BY <1>1, <1>3, BucketAssumption
  <2>2. G(u - now) = 0 \/ G(u - now) > 0  BY <1>2, <2>1
  <2>3. tokens + G(now - lastFill) <= Unit
    BY <1>1, <1>2, <1>3, <2>1
  <2>4. R = tokens + G(now - lastFill)
    BY <1>1, <1>2, <2>3
  <2> QED  BY <1>1, <1>2, <1>3, <2>4
<1>4. ASSUME now > u PROVE R >= Unit
  <2>1. CASE lastFill > u
    BY <1>1, <2>1
  <2>2. CASE lastFill <= u
    <3>1. G(u - lastFill) + RefillRate = G(u - lastFill + 1)
      BY <1>1, BucketAssumption, SMTT(30)
    <3>2. G(u - lastFill + 1) <= G(now - lastFill)
      BY <1>1, <1>4, RefillGrows
    <3> QED  BY <1>1, <1>2, <2>2, <3>1, <3>2
  <2> QED  BY <1>1, <2>1, <2>2
<1> QED  BY <1>3, <1>4 DEF R

\* The sleep a refused Take begins is the time its deficit takes to refill, truncated.
LEMMA SleepIsDeficit ==
    ASSUME BucketInv, Refilled < Unit
    PROVE  LET u == now + Wait(Unit)
           IN  /\ u \in Nat /\ now <= u
               /\ Refilled + RefillRate * (u - now) <= Unit
               /\ Unit <= Refilled + RefillRate * (u - now) + RefillRate
<1> DEFINE d == Unit - Refilled
           q == d \div RefillRate
<1>1. d \in Nat /\ RefillRate \in Nat /\ RefillRate > 0 /\ now \in Nat /\ Refilled \in Nat
      /\ Unit \in Nat
  BY RefilledLevel, BucketAssumption DEF BucketInv, BucketShape
<1>2. q \in Nat /\ RefillRate * q <= d /\ d <= RefillRate * q + RefillRate
  <2> HIDE DEF d
  <2> QED  BY <1>1, SMTT(30)
<1>3. Wait(Unit) = q  BY DEF Wait
<1>4. (now + q) - now = q  BY <1>1, <1>2
<1>5. RefillRate * q \in Int  BY <1>1, <1>2
<1> HIDE DEF q
<1> QED  BY <1>1, <1>2, <1>3, <1>4, <1>5


\* A step that fills for count, and disturbs the sleepers only when it admits, keeps
\* what the undisturbed ones were promised.
LEMMA DeficitStep ==
    ASSUME BucketInv, NEW count \in Nat, Fill(count), NEW Others \in SUBSET Takers,
           \A t \in Others : taker'[t].pc = "asleep" /\ taker'[t].alone =>
                                 taker'[t] = taker[t] /\ Refilled < count
    PROVE  \A t \in Others : (taker'[t].pc = "asleep" /\ taker'[t].alone) =>
               /\ lastFill' <= taker'[t].until =>
                     /\ tokens' + RefillRate * (taker'[t].until - lastFill') <= Unit
                     /\ Unit <= tokens' + RefillRate * (taker'[t].until - lastFill') + RefillRate
               /\ lastFill' > taker'[t].until => tokens' >= Unit
<1> SUFFICES ASSUME NEW t \in Others, taker'[t].pc = "asleep", taker'[t].alone
             PROVE  /\ lastFill' <= taker'[t].until =>
                        /\ tokens' + RefillRate * (taker'[t].until - lastFill') <= Unit
                        /\ Unit <= tokens' + RefillRate * (taker'[t].until - lastFill') + RefillRate
                    /\ lastFill' > taker'[t].until => tokens' >= Unit
  OBVIOUS
<1> DEFINE u == taker[t].until
<1>1. taker'[t] = taker[t] /\ Refilled < count
  OBVIOUS
<1>2. lastFill' = now /\ tokens' = Refilled
  <2>1. Refilled \in 0..Capacity /\ Capacity \in Nat
    BY RefilledLevel, BucketAssumption DEF BucketInv
  <2>2. ~(Refilled >= count)
    <3> HIDE DEF Refilled
    <3> QED  BY <1>1, <2>1
  <2> QED  BY <2>2 DEF Fill
<1>3. u \in Nat /\ now \in Nat
  BY DEF BucketInv, BucketShape
<1>4. /\ lastFill <= u => /\ tokens + RefillRate * (u - lastFill) <= Unit
                          /\ Unit <= tokens + RefillRate * (u - lastFill) + RefillRate
      /\ lastFill > u => tokens >= Unit
  BY <1>1 DEF BucketInv, DeficitKept
<1>5. /\ now <= u => /\ Refilled + RefillRate * (u - now) <= Unit
                     /\ Unit <= Refilled + RefillRate * (u - now) + RefillRate
      /\ now > u => Refilled >= Unit
  BY <1>3, <1>4, DeficitFill
<1> QED  BY <1>1, <1>2, <1>5

\* BucketInv is inductive.
LEMMA BucketStep == BucketInv /\ [BucketNext]_bucketVars => BucketInv'
<1> SUFFICES ASSUME BucketInv, [BucketNext]_bucketVars PROVE BucketInv'
  OBVIOUS
<1> DEFINE Call == [pc : {"idle", "asleep"}, until : Nat, alone : BOOLEAN]
<1>a. /\ taker \in [Takers -> Call] /\ now \in Nat /\ Capacity \in Nat
      /\ Unit \in Nat /\ Unit <= Capacity /\ TakerIdle \in Call /\ TakerIdle.pc = "idle"
      /\ Refilled \in 0..Capacity
  BY BucketAssumption, RefilledLevel DEF BucketInv, BucketShape, TakerIdle
<1>b. \A t \in Takers : [taker[t] EXCEPT !.alone = FALSE] \in Call
                        /\ ~[taker[t] EXCEPT !.alone = FALSE].alone
  BY <1>a
<1>1. ASSUME NEW t \in Takers, Round(t) PROVE BucketInv'
  <2>1. Fill(Unit) /\ Admit(Unit) /\ now' = now
    BY <1>1 DEF Round
  <2>2. CASE Refilled >= Unit
    <3>1. taker' = [Disturbed(t) EXCEPT ![t] = TakerIdle]
      BY <1>1, <2>2 DEF Round
    <3>2. /\ taker' \in [Takers -> Call] /\ taker'[t].pc = "idle"
          /\ \A u \in Takers : u # t => ~taker'[u].alone
      BY <1>a, <1>b, <3>1 DEF Disturbed
    <3>3. DeficitKept'
      BY <3>2 DEF DeficitKept
    <3> QED  BY <1>a, <2>1, <3>2, <3>3, FillStep DEF BucketInv, BucketShape
  <2>3. CASE ~(Refilled >= Unit)
    <3> DEFINE new == [pc |-> "asleep", until |-> now + Wait(Unit), alone |-> TRUE]
    <3>1. taker' = [taker EXCEPT ![t] = new]
      BY <1>1, <2>3 DEF Round
    <3>2. Refilled < Unit
      BY <1>a, <2>3
    <3>3. new \in Call /\ new.until = now + Wait(Unit)
      BY <3>2, SleepIsDeficit
    <3>4. /\ taker' \in [Takers -> Call] /\ taker'[t] = new
          /\ \A u \in Takers : u # t => taker'[u] = taker[u]
      BY <1>a, <3>1, <3>3
    <3>5. lastFill' = now /\ tokens' = Refilled
      BY <2>1, <2>3 DEF Fill
    <3>6. DeficitKept'
      <4> SUFFICES ASSUME NEW u \in Takers
                   PROVE  (taker'[u].pc = "asleep" /\ taker'[u].alone) =>
                /\ lastFill' <= taker'[u].until =>
                      /\ tokens' + RefillRate * (taker'[u].until - lastFill') <= Unit
                      /\ Unit <= tokens' + RefillRate * (taker'[u].until - lastFill') + RefillRate
                /\ lastFill' > taker'[u].until => tokens' >= Unit
        BY DEF DeficitKept
      <4>1. CASE u = t
        <5>1. taker'[u].until = now + Wait(Unit)
          BY <3>3, <3>4, <4>1
        <5>2. /\ now + Wait(Unit) \in Nat /\ now <= now + Wait(Unit)
              /\ Refilled + RefillRate * ((now + Wait(Unit)) - now) <= Unit
              /\ Unit <= Refilled + RefillRate * ((now + Wait(Unit)) - now) + RefillRate
          BY <3>2, SleepIsDeficit
        <5> DEFINE w == now + Wait(Unit)
        <5> HIDE DEF w
        <5> QED  BY <1>a, <3>5, <5>1, <5>2 DEF w
      <4>2. CASE u # t
        <5> DEFINE Others == Takers \ {t}
        <5>1. u \in Others /\ Others \in SUBSET Takers  BY <4>2
        <5>2. \A v \in Others : taker'[v].pc = "asleep" /\ taker'[v].alone =>
                                    taker'[v] = taker[v] /\ Refilled < Unit
          BY <3>2, <3>4
        <5> HIDE DEF Others
        <5> QED  BY <1>a, <2>1, <5>1, <5>2, DeficitStep
      <4> QED  BY <4>1, <4>2
    <3> QED  BY <1>a, <2>1, <3>4, <3>6, FillStep DEF BucketInv, BucketShape
  <2> QED  BY <2>2, <2>3
<1>2. ASSUME NEW t \in Takers, WaitCancelled(t) PROVE BucketInv'
  <2>1. taker' = [taker EXCEPT ![t] = TakerIdle] /\ UNCHANGED <<now, tokens, lastFill, takes>>
    BY <1>2 DEF WaitCancelled
  <2>2. /\ taker' \in [Takers -> Call] /\ taker'[t].pc = "idle"
        /\ \A u \in Takers : u # t => taker'[u] = taker[u]
    BY <1>a, <2>1
  <2> QED
    BY <2>1, <2>2 DEF BucketInv, BucketShape, Conserved, TakenSoFar, WindowBound, DeficitKept
<1>3. ASSUME NEW count \in {Unit, Capacity, Capacity + 1}, TryTakeN(count) PROVE BucketInv'
  <2>1. Fill(count) /\ Admit(count) /\ now' = now /\ count \in Nat
    BY <1>3, <1>a DEF TryTakeN
  <2>2. taker' \in [Takers -> Call]
    BY <1>3, <1>a, <1>b DEF TryTakeN
  <2>3. \A t \in Takers : taker'[t].pc = "asleep" /\ taker'[t].alone =>
                              taker'[t] = taker[t] /\ Refilled < count
    <3>1. CASE Refilled >= count
      BY <1>3, <1>b, <3>1 DEF TryTakeN
    <3>2. CASE ~(Refilled >= count)
      <4>1. Refilled < count  BY <1>a, <2>1, <3>2
      <4> QED  BY <1>3, <3>2, <4>1 DEF TryTakeN
    <3> QED  BY <3>1, <3>2
  <2>4. DeficitKept'
    BY <2>1, <2>3, DeficitStep DEF DeficitKept
  <2> QED  BY <1>a, <2>1, <2>2, <2>4, FillStep DEF BucketInv, BucketShape
<1>4. ASSUME NEW prefill \in {0, Unit, Capacity + 1}, Reset(prefill) PROVE BucketInv'
  <2>1. /\ tokens' = Prefilled(prefill) /\ lastFill' = now /\ takes' = <<>> /\ now' = now
        /\ taker' = [u \in Takers |-> [taker[u] EXCEPT !.alone = FALSE]]
    BY <1>4 DEF Reset
  <2>2. Prefilled(prefill) \in 0..Capacity
    BY <1>a DEF Prefilled, Least
  <2>3. taker' \in [Takers -> Call] /\ \A u \in Takers : ~taker'[u].alone
    BY <1>b, <2>1
  <2>4. takes' \in Seq(Taking) /\ Len(takes') = 0
    BY <2>1
  <2>5. BucketShape'
    BY <1>a, <2>1, <2>2, <2>3, <2>4 DEF BucketShape
  <2>6. (Conserved /\ WindowBound /\ DeficitKept)'
    BY <2>3, <2>4 DEF Conserved, WindowBound, DeficitKept
  <2> QED  BY <2>5, <2>6 DEF BucketInv
<1>5. CASE Tick
  <2>1. now' = now + 1 /\ UNCHANGED <<tokens, lastFill, taker, takes>>
    BY <1>5 DEF Tick
  <2>2. BucketShape'
    BY <2>1 DEF BucketInv, BucketShape
  <2>3. (Conserved /\ WindowBound /\ DeficitKept)'
    BY <2>1 DEF BucketInv, Conserved, TakenSoFar, WindowBound, DeficitKept
  <2> QED  BY <2>2, <2>3 DEF BucketInv
<1>6. CASE UNCHANGED bucketVars
  BY <1>6 DEF bucketVars, BucketInv, BucketShape, Conserved, TakenSoFar, WindowBound, DeficitKept
<1> QED  BY <1>1, <1>2, <1>3, <1>4, <1>5, <1>6 DEF BucketNext, Take, Wakes

\* Whoever takes and whenever, the bucket admits no more than its burst budget and the
\* refill of the time between, and never tells a caller to sleep past its deficit.
THEOREM BucketIsSound == BucketSpec => []BucketSound
<1>1. BucketInit => BucketInv
  <2> SUFFICES ASSUME BucketInit PROVE BucketInv  OBVIOUS
  <2>1. TakerIdle \in [pc : {"idle", "asleep"}, until : Nat, alone : BOOLEAN]
        /\ TakerIdle.pc = "idle"
    BY DEF TakerIdle
  <2>2. takes \in Seq(Taking) /\ Len(takes) = 0
    BY DEF BucketInit
  <2>3. BucketShape
    BY <2>1, <2>2, BucketAssumption DEF BucketInit, BucketShape
  <2>4. Conserved /\ WindowBound
    BY <2>2 DEF Conserved, WindowBound
  <2>5. DeficitKept
    BY <2>1 DEF BucketInit, DeficitKept
  <2> QED  BY <2>3, <2>4, <2>5 DEF BucketInv
<1>2. BucketInv => BucketSound
  <2> SUFFICES ASSUME BucketInv, NEW t \in Takers, taker[t].pc = "asleep", taker[t].alone
               PROVE  /\ now < taker[t].until => Refilled < Unit
                      /\ now > taker[t].until => Refilled >= Unit
    BY DEF BucketInv, BucketSound, WaitIsDeficit
  <2> DEFINE u == taker[t].until
  <2>1. u \in Nat /\ now \in Nat /\ Refilled \in Nat /\ Unit \in Nat /\ RefillRate \in Nat \ {0}
    BY RefilledLevel, BucketAssumption DEF BucketInv, BucketShape
  <2>2. /\ now <= u => /\ Refilled + RefillRate * (u - now) <= Unit
                       /\ Unit <= Refilled + RefillRate * (u - now) + RefillRate
        /\ now > u => Refilled >= Unit
    BY <2>1, DeficitFill DEF BucketInv, DeficitKept
  <2> HIDE DEF u
  <2>3. ASSUME now < u PROVE Refilled < Unit
    <3>1. RefillRate * 1 <= RefillRate * (u - now) /\ RefillRate * (u - now) \in Int
      BY <2>1, <2>3, RefillGrows, RefillAdds
    <3> QED  BY <2>1, <2>2, <2>3, <3>1
  <2> QED  BY <2>2, <2>3 DEF u
<1> QED  BY <1>1, <1>2, BucketStep, PTL DEF BucketSpec

-----------------------------------------------------------------------------
(* The symbol table *)

\* A set of naturals has a least element.
LEMMA LeastNat == ASSUME NEW T \in SUBSET Nat, T # {}
                  PROVE  \E x \in T : \A y \in T : x <= y
<1>1. PICK x \in T : \A y \in T : ~(<<y, x>> \in OpToRel(<, Nat))
  BY NatLessThanWellFounded, WFMin
<1>2. \A y \in T : ~(y < x)
  BY <1>1 DEF OpToRel
<1> QED  BY <1>2

SymEntry == [symID : SymIDs \cup {0}, pool : Nat, ofs : Nat, len : Nat]
SymPool  == [cap : Nat, buf : Seq((SymVals \cup {"none"}) \X Nat)]
SymBusy  == [op : {"idle", "mint", "bind"}, val : SymVals \cup {"none"}, id : SymIDs \cup {0}]

SymTypes ==
    /\ nextID \in IssuerInitsAt..(IssuerInitsAt + MaxMints)
    /\ valueCache \in [Slots -> SymEntry] /\ tokenCache \in [SymIDs -> SymEntry]
    /\ bufPools \in Seq(SymPool)
    /\ symCall \in [SymCallers -> SymBusy]
    /\ refs \in Nat /\ issuerRefs \in Int
    /\ issuedTo \in [SymIDs -> SymVals \cup {"none"}]

\* The entry's range lies in its pool and holds the bytes of v.
HoldsIn(pools, kv, v) ==
    /\ kv.pool \in 1..Len(pools) /\ kv.len = SymLen[v]
    /\ kv.ofs + kv.len <= Len(pools[kv.pool].buf)
    /\ \A k \in 1..SymLen[v] : pools[kv.pool].buf[kv.ofs + k] = <<v, k>>
Holds(kv, v) == HoldsIn(bufPools, kv, v)

\* The n-th slot the probe for v looks at, and whether it ends there.
SlotAt(v, n) == (SymHash[v] + n) % HashSlots
Stops(v, n)  == valueCache[SlotAt(v, n)].symID = 0 \/ equals(valueCache[SlotAt(v, n)], v)

\* A call that has minted an ID is the only one that knows it.
CallsOwnIDs ==
    /\ \A c \in SymCallers : symCall[c].op # "idle" => refs > 0 /\ symCall[c].val \in SymVals
    /\ \A c \in SymCallers : symCall[c].op = "bind" =>
          /\ symCall[c].id \in 1..nextID
          /\ symCall[c].id > IssuerInitsAt =>
                /\ issuedTo[symCall[c].id] = "none"
                /\ \A d \in SymCallers : d # c /\ symCall[d].op = "bind"
                                            => symCall[d].id # symCall[c].id
    /\ \A id \in SymIDs : issuedTo[id] # "none" => id > IssuerInitsAt /\ id <= nextID

\* An entry holds a value; one of a minted ID holds the value that was issued the ID.
EntriesHold ==
    /\ \A s \in Slots : valueCache[s].symID # 0 => \E v \in SymVals : Holds(valueCache[s], v)
    /\ \A s \in Slots : valueCache[s].symID > IssuerInitsAt =>
          /\ issuedTo[valueCache[s].symID] \in SymVals
          /\ Holds(valueCache[s], issuedTo[valueCache[s].symID])
    /\ \A id \in SymIDs : issuedTo[id] # "none" => Holds(tokenCache[id], issuedTo[id])

\* A value has one slot, and no free slot comes before it in its probe.
OneSlot ==
    /\ \A s, t \in Slots, v \in SymVals :
          (/\ valueCache[s].symID # 0 /\ Holds(valueCache[s], v)
           /\ valueCache[t].symID # 0 /\ Holds(valueCache[t], v)) => s = t
    /\ \A s \in Slots, v \in SymVals :
          valueCache[s].symID # 0 /\ Holds(valueCache[s], v) =>
             \E n \in Slots : /\ SlotAt(v, n) = s
                              /\ \A m \in 0..(n - 1) : valueCache[SlotAt(v, m)].symID # 0

SymInv == SymTypes /\ CallsOwnIDs /\ (refs > 0 => EntriesHold /\ OneSlot)

LEMMA SlotsArith == ASSUME NEW v \in SymVals, NEW n \in Nat
                    PROVE  /\ HashSlots \in Nat \ {0} /\ SymHash[v] \in Slots
                           /\ SlotAt(v, n) \in Slots
<1>1. HashSlots \in Nat \ {0}
  <2>1. Cardinality(SymVals) \in Nat  BY SymAssumption, FS_CardinalityType
  <2> QED  BY <2>1, SymAssumption
<1>2. SymHash[v] \in Slots  BY SymAssumption DEF Slots
<1>3. SymHash[v] + n \in Nat  BY <1>1, <1>2 DEF Slots
<1>4. \A a \in Nat, b \in Nat \ {0} : a % b \in 0..(b - 1)  OBVIOUS
<1> QED  BY <1>1, <1>2, <1>3, <1>4 DEF SlotAt, Slots

\* The probe for a value comes to every slot.
LEMMA ProbeReaches == ASSUME NEW v \in SymVals, NEW s \in Slots
                      PROVE  \E n \in Slots : SlotAt(v, n) = s
<1> DEFINE h == SymHash[v]
<1>1. HashSlots \in Nat \ {0} /\ h \in Slots  BY SlotsArith, 0 \in Nat
<1>2. \A b \in Nat \ {0} : \A a \in 0..(b - 1) : a % b = a /\ (a + b) % b = a
  OBVIOUS
<1> HIDE DEF h
<1>3. CASE h <= s
  <2>1. s - h \in Slots /\ h + (s - h) = s  BY <1>1, <1>3 DEF Slots
  <2>2. s % HashSlots = s  BY <1>1, <1>2 DEF Slots
  <2> QED  BY <2>1, <2>2 DEF SlotAt, h
<1>4. CASE h > s
  <2>1. s - h + HashSlots \in Slots /\ h + (s - h + HashSlots) = s + HashSlots
    BY <1>1, <1>4 DEF Slots
  <2>2. (s + HashSlots) % HashSlots = s  BY <1>1, <1>2 DEF Slots
  <2> QED  BY <2>1, <2>2 DEF SlotAt, h
<1> QED  BY <1>1, <1>3, <1>4 DEF Slots

LEMMA HoldsEquals == ASSUME SymTypes, NEW kv \in SymEntry, NEW v \in SymVals, Holds(kv, v)
                     PROVE  equals(kv, v)
<1>1. /\ SymLen[v] \in Nat \ {0} /\ kv.ofs \in Nat
      /\ Len(bufPools[kv.pool].buf) \in Nat
  <2>1. bufPools[kv.pool] \in SymPool  BY DEF Holds, HoldsIn, SymTypes
  <2> QED  BY <2>1, SymAssumption DEF SymEntry, SymPool
<1>2. \A k \in 1..SymLen[v] : /\ kv.ofs + k <= Len(bufPools[kv.pool].buf)
                              /\ bufPools[kv.pool].buf[kv.ofs + k] = <<v, k>>
  BY <1>1 DEF Holds, HoldsIn
<1>3. kv.len = SymLen[v]  BY DEF Holds, HoldsIn
<1>4. bufForEntry(kv) = Bytes(v)
  BY <1>2, <1>3, Zenon DEF bufForEntry, Bytes
<1> QED  BY <1>3, <1>4 DEF equals

\* The bytes of two values differ.
LEMMA EqualsOne == ASSUME SymTypes, NEW kv \in SymEntry, NEW v \in SymVals, NEW w \in SymVals,
                          Holds(kv, w), equals(kv, v)
                   PROVE  v = w
<1>1. equals(kv, w)  BY HoldsEquals
<1>2. Bytes(v) = Bytes(w)  BY <1>1 DEF equals
<1>3. SymLen[v] \in Nat \ {0} /\ SymLen[w] \in Nat \ {0}  BY SymAssumption
<1>4. 1 \in 1..SymLen[v] /\ 1 \in 1..SymLen[w]  BY <1>3
<1>5. Bytes(v)[1] = <<v, 1>> /\ Bytes(w)[1] = <<w, 1>>  BY <1>4 DEF Bytes
<1> QED  BY <1>2, <1>5

\* There are more slots than values, so one is free.
LEMMA FreeSlot == ASSUME SymTypes, EntriesHold, OneSlot
                  PROVE  \E s \in Slots : valueCache[s].symID = 0
<1> SUFFICES ASSUME \A s \in Slots : valueCache[s].symID # 0 PROVE FALSE
  OBVIOUS
<1> DEFINE f == [s \in Slots |-> CHOOSE v \in SymVals : Holds(valueCache[s], v)]
<1>1. \A s \in Slots : f[s] \in SymVals /\ Holds(valueCache[s], f[s])
  BY DEF EntriesHold
<1>2. f \in [Slots -> SymVals]
  <2>1. f = [s \in Slots |-> f[s]]  OBVIOUS
  <2> HIDE DEF f
  <2> QED  BY <1>1, <2>1
<1> HIDE DEF f
<1>3. \A s, t \in Slots : f[s] = f[t] => s = t
  BY <1>1 DEF OneSlot
<1>4. f \in Injection(Slots, SymVals)
  BY <1>2, <1>3 DEF Injection, IsInjective
<1>5. Cardinality(Slots) <= Cardinality(SymVals)
  BY <1>4, SymAssumption, FS_Injection
<1>6. Cardinality(SymVals) \in Nat  BY SymAssumption, FS_CardinalityType
<1>7. Cardinality(Slots) = HashSlots
  <2>1. HashSlots \in Nat \ {0}  BY SymAssumption, <1>6
  <2>2. Cardinality(0..(HashSlots - 1)) = HashSlots
    <3>1. 0 \in Int /\ HashSlots - 1 \in Int  BY <2>1
    <3>2. Cardinality(0..(HashSlots - 1)) = IF 0 > HashSlots - 1 THEN 0 ELSE (HashSlots - 1) - 0 + 1
      BY <3>1, FS_Interval
    <3> QED  BY <2>1, <3>2
  <2> QED  BY <2>2 DEF Slots
<1> QED  BY <1>5, <1>6, <1>7, SymAssumption

\* The probe ends at the value's own slot, or at a free one after occupied ones.
LEMMA ProbeEnds ==
    ASSUME SymTypes, EntriesHold, OneSlot, NEW v \in SymVals
    PROVE  \E n \in Slots :
              /\ Probe(v) = SlotAt(v, n) /\ Stops(v, n)
              /\ \A m \in 0..(n - 1) : valueCache[SlotAt(v, m)].symID # 0 /\ ~Stops(v, m)
<1> DEFINE T == {n \in Slots : Stops(v, n)}
<1>1. T \in SUBSET Nat /\ T # {}
  <2>1. PICK s \in Slots : valueCache[s].symID = 0  BY FreeSlot
  <2>2. PICK n \in Slots : SlotAt(v, n) = s  BY ProbeReaches
  <2>3. n \in T  BY <2>1, <2>2 DEF Stops
  <2>4. Slots \subseteq Nat  BY SymAssumption DEF Slots
  <2> QED  BY <2>3, <2>4
<1>2. PICK x \in T : \A y \in T : x <= y
  <2> HIDE DEF T
  <2> QED  BY <1>1, LeastNat
<1>3. \A m \in 0..(x - 1) : m \in Slots  BY SymAssumption DEF Slots
<1>4. \A m \in 0..(x - 1) : ~Stops(v, m)
  <2> SUFFICES ASSUME NEW m \in 0..(x - 1), Stops(v, m) PROVE FALSE  OBVIOUS
  <2>1. m \in T  BY <1>3
  <2>2. x <= m /\ x \in Nat  BY <2>1, <1>1, <1>2
  <2> QED  BY <2>2
<1> DEFINE First(n) == Stops(v, n) /\ \A m \in 0..(n - 1) : ~Stops(v, m)
           c == CHOOSE n \in Slots : First(n)
<1>5. Probe(v) = SlotAt(v, c)
  BY DEF Probe, SlotAt, Stops, Slots
<1>6. c \in Slots /\ First(c)
  <2>1. x \in Slots /\ First(x)  BY <1>2, <1>4
  <2> HIDE DEF First
  <2> QED  BY <2>1, Zenon
<1> HIDE DEF c
<1>7. \A m \in 0..(c - 1) : valueCache[SlotAt(v, m)].symID # 0 /\ ~Stops(v, m)
  BY <1>6 DEF Stops
<1> QED  BY <1>5, <1>6, <1>7

\* What the invariant says of the state gives what the table promises.
LEMMA SymInvImplies == SymInv => SymbolsAgree
<1> SUFFICES ASSUME SymInv, refs > 0 PROVE SymbolsAgree
  BY DEF SymbolsAgree, IssuedResolves, LookupIsOwn
<1>0. SymTypes /\ EntriesHold /\ OneSlot  BY DEF SymInv
<1>1. ASSUME NEW id \in SymIDs, issuedTo[id] # "none"
      PROVE  equals(tokenCache[id], issuedTo[id])
  <2>1. issuedTo[id] \in SymVals /\ tokenCache[id] \in SymEntry  BY <1>0, <1>1 DEF SymTypes
  <2>2. Holds(tokenCache[id], issuedTo[id])  BY <1>0, <1>1 DEF EntriesHold
  <2> QED  BY <1>0, <2>1, <2>2, HoldsEquals
<1>2. ASSUME NEW v \in SymVals, getIDFromCache(v) > IssuerInitsAt
      PROVE  issuedTo[getIDFromCache(v)] = v
  <2>1. PICK n \in Slots : Probe(v) = SlotAt(v, n) /\ Stops(v, n)
    BY <1>0, ProbeEnds
  <2> DEFINE kv == valueCache[SlotAt(v, n)]
  <2>2. getIDFromCache(v) = kv.symID  BY <2>1 DEF getIDFromCache
  <2>3. SlotAt(v, n) \in Slots
    <3>1. n \in Nat  BY SymAssumption DEF Slots
    <3> QED  BY <3>1, SlotsArith
  <2>4. kv \in SymEntry  BY <1>0, <2>3 DEF SymTypes
  <2>5. kv.symID # 0  BY <1>2, <2>2, SymAssumption
  <2>6. equals(kv, v)  BY <2>1, <2>5 DEF Stops
  <2>7. issuedTo[kv.symID] \in SymVals /\ Holds(kv, issuedTo[kv.symID])
    BY <1>0, <1>2, <2>2, <2>3 DEF EntriesHold
  <2> HIDE DEF kv
  <2>8. v = issuedTo[kv.symID]  BY <1>0, <2>4, <2>6, <2>7, EqualsOne
  <2> QED  BY <2>2, <2>8
<1> QED  BY <1>1, <1>2 DEF SymbolsAgree, IssuedResolves, LookupIsOwn

LEMMA SymInitial == SymInit => SymInv
<1> SUFFICES ASSUME SymInit PROVE SymInv  OBVIOUS
<1> USE SymAssumption
<1>1. NoEntry \in SymEntry /\ NoEntry.symID = 0  BY DEF NoEntry, SymEntry
<1>2. SymQuiet \in SymBusy /\ SymQuiet.op = "idle"  BY DEF SymQuiet, SymBusy
<1>3. SymTypes  BY <1>1, <1>2 DEF SymInit, SymTypes
<1>4. /\ \A s \in Slots : valueCache[s].symID = 0
      /\ \A c \in SymCallers : symCall[c].op = "idle"
      /\ \A id \in SymIDs : issuedTo[id] = "none"
  BY <1>1, <1>2 DEF SymInit
<1>5. CallsOwnIDs  BY <1>4 DEF CallsOwnIDs
<1>6. EntriesHold  BY <1>4 DEF EntriesHold
<1>7. OneSlot  BY <1>4 DEF OneSlot
<1> QED  BY <1>3, <1>5, <1>6, <1>7 DEF SymInv

\* Nothing that leaves the caches and the pools alone disturbs them.
LEMMA CachesFrame ==
    ASSUME EntriesHold /\ OneSlot, UNCHANGED <<valueCache, tokenCache, bufPools, issuedTo>>
    PROVE  (EntriesHold /\ OneSlot)'
  BY DEF EntriesHold, OneSlot, Holds

\* An entry holds one value.
LEMMA HoldsOne == ASSUME NEW pools, NEW kv, NEW v \in SymVals, NEW w \in SymVals,
                         HoldsIn(pools, kv, v), HoldsIn(pools, kv, w)
                  PROVE  v = w
<1>1. 1 \in 1..SymLen[v] /\ 1 \in 1..SymLen[w]  BY SymAssumption
<1>2. <<v, 1>> = <<w, 1>>  BY <1>1 DEF HoldsIn
<1> QED  BY <1>2

\* A pool with room for v, the last of them; the others are as they were.
LEMMA GrowKeeps ==
    ASSUME SymTypes, NEW v \in SymVals
    PROVE  /\ Grow(v) \in Seq(SymPool) /\ Len(Grow(v)) \in Nat \ {0}
           /\ Len(bufPools) <= Len(Grow(v))
           /\ \A p \in 1..Len(bufPools) : Grow(v)[p] = bufPools[p]
<1> DEFINE new == [cap |-> IF SymLen[v] > PoolSz THEN SymLen[v] ELSE PoolSz, buf |-> <<>>]
<1>1. new \in SymPool  BY SymAssumption DEF SymPool
<1>2. bufPools \in Seq(SymPool) /\ Len(bufPools) \in Nat  BY DEF SymTypes
<1>3. (Grow(v) = bufPools /\ Len(bufPools) > 0) \/ Grow(v) = Append(bufPools, new)
  BY DEF Grow
<1> HIDE DEF new
<1> QED  BY <1>1, <1>2, <1>3

\* allocAndBindToID writes v's bytes behind all others.
LEMMA PoolsAfter ==
    ASSUME SymTypes, NEW v \in SymVals, NEW id \in SymIDs,
           bufPools' = [Grow(v) EXCEPT ![Len(Grow(v))].buf = @ \o Bytes(v)]
    PROVE  LET kv == [symID |-> id, pool |-> Len(Grow(v)), ofs |-> EntryOfs(Grow(v)),
                      len |-> SymLen[v]]
           IN  /\ bufPools' \in Seq(SymPool) /\ kv \in SymEntry
               /\ HoldsIn(bufPools', kv, v)
               /\ \A old \in SymEntry, w \in SymVals :
                     Holds(old, w) => HoldsIn(bufPools', old, w)
<1> DEFINE pools == Grow(v)
           last  == Len(pools)
           B     == (SymVals \cup {"none"}) \X Nat
           kv    == [symID |-> id, pool |-> last, ofs |-> EntryOfs(pools), len |-> SymLen[v]]
<1>1. /\ pools \in Seq(SymPool) /\ last \in Nat \ {0} /\ Len(bufPools) <= last
      /\ Len(bufPools) \in Nat
      /\ \A p \in 1..Len(bufPools) : pools[p] = bufPools[p]
  BY GrowKeeps DEF SymTypes
<1> HIDE DEF pools
<1>2. SymLen[v] \in Nat \ {0}  BY SymAssumption
<1>3. Bytes(v) \in Seq(B) /\ Len(Bytes(v)) = SymLen[v]
      /\ \A k \in 1..SymLen[v] : Bytes(v)[k] = <<v, k>>
  BY <1>2 DEF Bytes
<1>4. pools[last] \in SymPool /\ pools[last].buf \in Seq(B) /\ pools[last].cap \in Nat
  <2>1. last \in 1..Len(pools)  BY <1>1
  <2>2. pools[last] \in SymPool  BY <1>1, <2>1
  <2> QED  BY <2>2 DEF SymPool
<1> DEFINE nb == pools[last].buf \o Bytes(v)
           np == [pools[last] EXCEPT !.buf = nb]
<1>5. /\ nb \in Seq(B) /\ Len(nb) = Len(pools[last].buf) + SymLen[v]
      /\ Len(pools[last].buf) \in Nat
      /\ \A k \in 1..Len(pools[last].buf) : nb[k] = pools[last].buf[k]
      /\ \A k \in 1..SymLen[v] : nb[Len(pools[last].buf) + k] = <<v, k>>
  <2> DEFINE old == pools[last].buf
             add == Bytes(v)
  <2>1. old \in Seq(B) /\ add \in Seq(B) /\ Len(add) = SymLen[v] /\ Len(old) \in Nat
    <3> HIDE DEF B
    <3> QED  BY <1>3, <1>4
  <2>2. \A k \in 1..SymLen[v] : add[k] = <<v, k>>  BY <1>3
  <2> HIDE DEF B, old, add
  <2>3. /\ old \o add \in Seq(B) /\ Len(old \o add) = Len(old) + Len(add)
        /\ \A k \in 1..Len(old) : (old \o add)[k] = old[k]
        /\ \A k \in 1..Len(add) : (old \o add)[Len(old) + k] = add[k]
    <3>1. /\ old \o add \in Seq(B) /\ Len(old \o add) = Len(old) + Len(add)
          /\ \A i \in 1..(Len(old) + Len(add)) : (old \o add)[i] =
                IF i <= Len(old) THEN old[i] ELSE add[i - Len(old)]
      BY <2>1, ConcatProperties
    <3>2. \A k \in 1..Len(old) : (old \o add)[k] = old[k]  BY <2>1, <3>1
    <3>3. ASSUME NEW k \in 1..Len(add) PROVE (old \o add)[Len(old) + k] = add[k]
      <4>1. Len(old) + k \in 1..(Len(old) + Len(add)) /\ ~(Len(old) + k <= Len(old))
            /\ (Len(old) + k) - Len(old) = k
        BY <2>1
      <4> QED  BY <3>1, <4>1
    <3> QED  BY <3>1, <3>2, <3>3
  <2>4. nb = old \o add  BY DEF nb, old, add
  <2> QED  BY <2>1, <2>2, <2>3, <2>4, <1>2 DEF old
<1> HIDE DEF nb
<1>6. np \in SymPool /\ np.buf = nb  BY <1>4, <1>5 DEF SymPool
<1> HIDE DEF np
<1>7. bufPools' = [pools EXCEPT ![last] = np]
  BY DEF pools, np, nb
<1>8. /\ bufPools' \in Seq(SymPool) /\ Len(bufPools') = last /\ bufPools'[last] = np
      /\ \A p \in 1..last : p # last => bufPools'[p] = pools[p]
  <2>1. last \in 1..Len(pools)  BY <1>1
  <2>2. /\ [pools EXCEPT ![last] = np] \in Seq(SymPool)
        /\ Len([pools EXCEPT ![last] = np]) = last
        /\ \A j \in 1..last : [pools EXCEPT ![last] = np][j] = IF j = last THEN np ELSE pools[j]
    BY <1>1, <1>6, <2>1, ExceptSeq
  <2> QED  BY <1>1, <1>7, <2>1, <2>2
<1>9. EntryOfs(pools) = Len(pools[last].buf)  BY DEF EntryOfs
<1>10. kv \in SymEntry /\ kv.pool = last /\ kv.ofs = Len(pools[last].buf) /\ kv.len = SymLen[v]
  BY <1>1, <1>2, <1>5, <1>9 DEF SymEntry
<1> HIDE DEF kv
<1>11. HoldsIn(bufPools', kv, v)
  <2>0. last \in 1..Len(bufPools')  BY <1>1, <1>8
  <2>1. bufPools'[kv.pool].buf = nb /\ kv.pool \in 1..Len(bufPools')
    BY <2>0, <1>6, <1>8, <1>10, Zenon
  <2>2. kv.ofs + kv.len <= Len(nb)  BY <1>2, <1>5, <1>10
  <2>3. \A k \in 1..SymLen[v] : nb[kv.ofs + k] = <<v, k>>  BY <1>5, <1>10
  <2> QED  BY <1>10, <2>1, <2>2, <2>3 DEF HoldsIn
<1>12. ASSUME NEW old \in SymEntry, NEW w \in SymVals, Holds(old, w)
       PROVE  HoldsIn(bufPools', old, w)
  <2>1. /\ old.pool \in 1..Len(bufPools) /\ old.len = SymLen[w]
        /\ old.ofs + old.len <= Len(bufPools[old.pool].buf)
        /\ \A k \in 1..SymLen[w] : bufPools[old.pool].buf[old.ofs + k] = <<w, k>>
    BY <1>12 DEF Holds, HoldsIn
  <2>2. old.pool \in 1..last /\ pools[old.pool] = bufPools[old.pool]  BY <1>1, <2>1
  <2>3. old.ofs \in Nat /\ SymLen[w] \in Nat  BY SymAssumption DEF SymEntry
  <2>4. CASE old.pool # last
    <3>1. bufPools'[old.pool] = bufPools[old.pool]  BY <1>8, <2>2, <2>4
    <3> QED  BY <1>8, <2>1, <2>2, <3>1 DEF HoldsIn
  <2>5. CASE old.pool = last
    <3>1. bufPools'[old.pool].buf = nb /\ bufPools[old.pool].buf = pools[last].buf
      BY <1>6, <1>8, <2>2, <2>5
    <3>2. \A k \in 1..SymLen[w] : old.ofs + k \in 1..Len(pools[last].buf)
      BY <1>5, <2>1, <2>3, <3>1
    <3>3. \A k \in 1..SymLen[w] : nb[old.ofs + k] = <<w, k>>
      BY <1>5, <2>1, <3>1, <3>2
    <3>4. old.ofs + old.len <= Len(nb)  BY <1>2, <1>5, <2>1, <2>3, <3>1
    <3> QED  BY <1>8, <2>1, <2>2, <3>1, <3>3, <3>4 DEF HoldsIn
  <2> QED  BY <2>4, <2>5
<1> QED  BY <1>8, <1>10, <1>11, <1>12 DEF kv, pools

\* Binding a value to an ID keeps every other value where it was.
LEMMA BindKeeps == ASSUME SymInv, NEW c \in SymCallers, Bind(c) PROVE SymInv'
<1> DEFINE v  == symCall[c].val
           id == symCall[c].id
<1> USE SymAssumption
<1>0. SymTypes /\ CallsOwnIDs /\ symCall[c].op = "bind"  BY DEF SymInv, Bind
<1>1. refs > 0 /\ v \in SymVals /\ id \in 1..nextID  BY <1>0 DEF CallsOwnIDs
<1>2. EntriesHold /\ OneSlot  BY <1>1 DEF SymInv
<1>3. id \in SymIDs /\ nextID \in Nat  BY <1>0, <1>1 DEF SymTypes, SymIDs
<1>4. /\ allocAndBindToID(v, id)
      /\ issuedTo' = IF id > IssuerInitsAt THEN [issuedTo EXCEPT ![id] = v] ELSE issuedTo
      /\ symCall' = [symCall EXCEPT ![c] = SymQuiet]
      /\ UNCHANGED <<nextID, refs, issuerRefs>>
  BY DEF Bind
<1>5. id > IssuerInitsAt => /\ issuedTo[id] = "none"
                            /\ \A d \in SymCallers : d # c /\ symCall[d].op = "bind"
                                                        => symCall[d].id # id
  BY <1>0 DEF CallsOwnIDs
<1> HIDE DEF v, id
<1>6. SymQuiet \in SymBusy /\ SymQuiet.op = "idle"  BY DEF SymQuiet, SymBusy
<1>7. symCall' \in [SymCallers -> SymBusy] /\ issuedTo' \in [SymIDs -> SymVals \cup {"none"}]
  BY <1>0, <1>1, <1>3, <1>4, <1>6 DEF SymTypes
<1>8. /\ \A j \in SymIDs : j # id => issuedTo'[j] = issuedTo[j]
      /\ issuedTo'[id] = IF id > IssuerInitsAt THEN v ELSE issuedTo[id]
  BY <1>0, <1>3, <1>4 DEF SymTypes
<1>9. CallsOwnIDs'
  <2>1. \A d \in SymCallers : d # c => symCall'[d] = symCall[d]  BY <1>0, <1>4 DEF SymTypes
  <2>2. symCall'[c].op = "idle"  BY <1>0, <1>4, <1>6 DEF SymTypes
  <2>3. ASSUME NEW d \in SymCallers, symCall'[d].op # "idle"
        PROVE  refs' > 0 /\ symCall'[d].val \in SymVals
    BY <1>0, <1>4, <2>1, <2>2, <2>3 DEF CallsOwnIDs
  <2>4. ASSUME NEW d \in SymCallers, symCall'[d].op = "bind"
        PROVE  /\ symCall'[d].id \in 1..nextID'
               /\ symCall'[d].id > IssuerInitsAt =>
                     /\ issuedTo'[symCall'[d].id] = "none"
                     /\ \A e \in SymCallers : e # d /\ symCall'[e].op = "bind"
                                                 => symCall'[e].id # symCall'[d].id
    <3>1. d # c /\ symCall'[d] = symCall[d] /\ symCall[d].op = "bind"  BY <2>1, <2>2, <2>4
    <3>2. symCall[d].id \in 1..nextID /\ nextID' = nextID  BY <1>0, <1>4, <3>1 DEF CallsOwnIDs
    <3>3. ASSUME symCall[d].id > IssuerInitsAt
          PROVE  /\ issuedTo'[symCall[d].id] = "none"
                 /\ \A e \in SymCallers : e # d /\ symCall'[e].op = "bind"
                                             => symCall'[e].id # symCall[d].id
      <4>1. /\ issuedTo[symCall[d].id] = "none"
            /\ \A e \in SymCallers : e # d /\ symCall[e].op = "bind"
                                        => symCall[e].id # symCall[d].id
        BY <1>0, <3>1, <3>3 DEF CallsOwnIDs
      <4>2. symCall[d].id # id  BY <1>0, <3>1, <4>1 DEF id
      <4>3. symCall[d].id \in SymIDs  BY <1>0, <3>2 DEF SymTypes, SymIDs
      <4> QED  BY <4>1, <4>2, <4>3, <1>8, <2>1, <2>2
    <3> QED  BY <3>1, <3>2, <3>3
  <2>5. ASSUME NEW j \in SymIDs, issuedTo'[j] # "none"
        PROVE  j > IssuerInitsAt /\ j <= nextID'
    BY <1>0, <1>1, <1>3, <1>4, <1>8, <2>5 DEF CallsOwnIDs
  <2> QED  BY <2>3, <2>4, <2>5 DEF CallsOwnIDs
<1>10. PICK n \in Slots :
          /\ Probe(v) = SlotAt(v, n) /\ Stops(v, n)
          /\ \A m \in 0..(n - 1) : valueCache[SlotAt(v, m)].symID # 0 /\ ~Stops(v, m)
  BY <1>0, <1>1, <1>2, ProbeEnds
<1> DEFINE s == SlotAt(v, n)
<1>11. s \in Slots /\ n \in Nat /\ \A m \in Slots : m \in Nat /\ SlotAt(v, m) \in Slots
  <2>1. \A m \in Slots : m \in Nat  BY DEF Slots
  <2> QED  BY <2>1, <1>1, SlotsArith
<1>12. valueCache[s].symID # 0 => Holds(valueCache[s], v)
  <2> SUFFICES ASSUME valueCache[s].symID # 0 PROVE Holds(valueCache[s], v)  OBVIOUS
  <2>1. equals(valueCache[s], v)  BY <1>10 DEF Stops
  <2>2. PICK w \in SymVals : Holds(valueCache[s], w)  BY <1>2, <1>11 DEF EntriesHold
  <2>3. valueCache[s] \in SymEntry  BY <1>0, <1>11 DEF SymTypes
  <2>4. v = w  BY <1>0, <1>1, <2>1, <2>2, <2>3, EqualsOne
  <2> QED  BY <2>2, <2>4
<1> HIDE DEF s
<1>13. CASE valueCache[s].symID = id
  <2>1. UNCHANGED <<valueCache, tokenCache, bufPools>>
    BY <1>4, <1>10, <1>13 DEF allocAndBindToID, s
  <2>2. ~(id > IssuerInitsAt)
    BY <1>1, <1>2, <1>5, <1>11, <1>13 DEF EntriesHold
  <2>3. issuedTo' = issuedTo  BY <1>4, <2>2
  <2>4. EntriesHold' /\ OneSlot'  BY <1>2, <2>1, <2>3, CachesFrame
  <2>5. SymTypes'  BY <1>0, <1>4, <1>7, <2>1 DEF SymTypes
  <2> QED  BY <1>9, <2>4, <2>5 DEF SymInv
<1>14. CASE valueCache[s].symID # id
  <2> DEFINE kv == [symID |-> id, pool |-> Len(Grow(v)), ofs |-> EntryOfs(Grow(v)),
                    len |-> SymLen[v]]
  <2>1. /\ bufPools' = [Grow(v) EXCEPT ![Len(Grow(v))].buf = @ \o Bytes(v)]
        /\ valueCache' = [valueCache EXCEPT ![s] = kv]
        /\ tokenCache' = [tokenCache EXCEPT ![id] = kv]
    BY <1>4, <1>10, <1>14 DEF allocAndBindToID, s
  <2>2. /\ bufPools' \in Seq(SymPool) /\ kv \in SymEntry
        /\ HoldsIn(bufPools', kv, v)
        /\ \A old \in SymEntry, w \in SymVals : Holds(old, w) => HoldsIn(bufPools', old, w)
    BY <1>0, <1>1, <1>3, <2>1, PoolsAfter
  <2>3. kv.symID = id  OBVIOUS
  <2> HIDE DEF kv
  <2>4. /\ valueCache' \in [Slots -> SymEntry] /\ tokenCache' \in [SymIDs -> SymEntry]
        /\ valueCache'[s] = kv /\ tokenCache'[id] = kv
        /\ \A t \in Slots : t # s => valueCache'[t] = valueCache[t]
        /\ \A j \in SymIDs : j # id => tokenCache'[j] = tokenCache[j]
    BY <1>0, <1>3, <1>11, <2>1, <2>2 DEF SymTypes
  <2>5. SymTypes'  BY <1>0, <1>4, <1>7, <2>2, <2>4 DEF SymTypes
  <2>6. /\ \A t \in Slots : valueCache[t] \in SymEntry
        /\ \A j \in SymIDs : tokenCache[j] \in SymEntry
    BY <1>0 DEF SymTypes
  <2>7. id # 0 /\ id \in Nat  BY <1>1, <1>3
  <2>8. \A t \in Slots : valueCache[t].symID # 0 => valueCache'[t].symID # 0
    BY <2>3, <2>4, <2>7
  <2>9. EntriesHold'
    <3>1. ASSUME NEW t \in Slots, valueCache'[t].symID # 0
          PROVE  \E w \in SymVals : HoldsIn(bufPools', valueCache'[t], w)
      BY <1>1, <1>2, <2>2, <2>4, <2>6, <3>1 DEF EntriesHold
    <3>2. ASSUME NEW t \in Slots, valueCache'[t].symID > IssuerInitsAt
          PROVE  /\ issuedTo'[valueCache'[t].symID] \in SymVals
                 /\ HoldsIn(bufPools', valueCache'[t], issuedTo'[valueCache'[t].symID])
      <4>1. CASE t = s
        BY <1>1, <1>8, <2>2, <2>3, <2>4, <3>2, <4>1
      <4>2. CASE t # s
        <5>1. valueCache'[t] = valueCache[t]  BY <2>4, <4>2
        <5> DEFINE j == valueCache[t].symID
        <5>2. j > IssuerInitsAt /\ issuedTo[j] \in SymVals /\ Holds(valueCache[t], issuedTo[j])
          BY <1>2, <3>2, <5>1 DEF EntriesHold
        <5>3. j \in SymIDs
          <6>1. j \in SymIDs \cup {0}  BY <2>6 DEF SymEntry
          <6> QED  BY <5>2, <6>1
        <5>4. j # id  BY <1>5, <5>2
        <5>5. issuedTo'[j] = issuedTo[j]  BY <1>8, <5>3, <5>4
        <5> QED  BY <2>2, <2>6, <5>1, <5>2, <5>5
      <4> QED  BY <4>1, <4>2
    <3>3. ASSUME NEW j \in SymIDs, issuedTo'[j] # "none"
          PROVE  HoldsIn(bufPools', tokenCache'[j], issuedTo'[j])
      <4>1. CASE j = id
        <5>1. id > IssuerInitsAt
          BY <1>0, <1>3, <1>8, <3>3, <4>1 DEF CallsOwnIDs
        <5> QED  BY <1>8, <2>2, <2>4, <4>1, <5>1
      <4>2. CASE j # id
        <5>1. issuedTo'[j] = issuedTo[j] /\ tokenCache'[j] = tokenCache[j]  BY <1>8, <2>4, <4>2
        <5>2. Holds(tokenCache[j], issuedTo[j]) /\ issuedTo[j] \in SymVals
          BY <1>0, <1>2, <3>3, <5>1 DEF EntriesHold, SymTypes
        <5> QED  BY <2>2, <2>6, <5>1, <5>2
      <4> QED  BY <4>1, <4>2
    <3> QED  BY <3>1, <3>2, <3>3 DEF EntriesHold, Holds
  <2>10. ASSUME NEW t \in Slots, t # s, NEW w \in SymVals, valueCache'[t].symID # 0,
                HoldsIn(bufPools', valueCache'[t], w)
         PROVE  valueCache[t].symID # 0 /\ Holds(valueCache[t], w)
    <3>1. valueCache'[t] = valueCache[t]  BY <2>4, <2>10
    <3>2. PICK u \in SymVals : Holds(valueCache[t], u)  BY <1>2, <2>10, <3>1 DEF EntriesHold
    <3>3. HoldsIn(bufPools', valueCache[t], u)  BY <2>2, <2>6, <3>2
    <3>4. u = w  BY <2>10, <3>1, <3>3, HoldsOne
    <3> QED  BY <2>10, <3>1, <3>2, <3>4
  <2>11. ASSUME NEW w \in SymVals, HoldsIn(bufPools', valueCache'[s], w) PROVE w = v
    BY <1>1, <2>2, <2>4, <2>11, HoldsOne
  <2>12. ASSUME NEW t \in Slots, t # s, valueCache[t].symID # 0, Holds(valueCache[t], v)
         PROVE  FALSE
    <3>1. PICK k \in Slots : /\ SlotAt(v, k) = t
                             /\ \A m \in 0..(k - 1) : valueCache[SlotAt(v, m)].symID # 0
      BY <1>1, <1>2, <2>12 DEF OneSlot
    <3>2. Stops(v, k)
      BY <1>0, <1>1, <2>6, <2>12, <3>1, HoldsEquals DEF Stops
    <3>3. n \in Nat /\ k \in Nat  BY <1>11
    <3>4. ~(k < n)
      <4> SUFFICES ASSUME k < n PROVE FALSE  OBVIOUS
      <4>1. k \in 0..(n - 1)  BY <3>3
      <4> QED  BY <4>1, <3>2, <1>10
    <3>5. k # n  BY <3>1, <2>12 DEF s
    <3>6. n \in 0..(k - 1)  BY <3>3, <3>4, <3>5
    <3>7. valueCache[s].symID # 0  BY <3>1, <3>6 DEF s
    <3> QED  BY <1>1, <1>2, <1>11, <1>12, <2>12, <3>7 DEF OneSlot
  <2>13. OneSlot'
    <3>1. ASSUME NEW t \in Slots, NEW u \in Slots, NEW w \in SymVals,
                 valueCache'[t].symID # 0, HoldsIn(bufPools', valueCache'[t], w),
                 valueCache'[u].symID # 0, HoldsIn(bufPools', valueCache'[u], w)
          PROVE  t = u
      <4>1. CASE t # s /\ u # s
        <5>1. /\ valueCache[t].symID # 0 /\ Holds(valueCache[t], w)
              /\ valueCache[u].symID # 0 /\ Holds(valueCache[u], w)
          BY <2>10, <3>1, <4>1
        <5> QED  BY <1>2, <5>1 DEF OneSlot
      <4>2. CASE t = s /\ u # s
        <5>1. w = v  BY <2>11, <3>1, <4>2
        <5>2. valueCache[u].symID # 0 /\ Holds(valueCache[u], w)  BY <2>10, <3>1, <4>2
        <5> QED  BY <2>12, <4>2, <5>1, <5>2
      <4>3. CASE t # s /\ u = s
        <5>1. w = v  BY <2>11, <3>1, <4>3
        <5>2. valueCache[t].symID # 0 /\ Holds(valueCache[t], w)  BY <2>10, <3>1, <4>3
        <5> QED  BY <2>12, <4>3, <5>1, <5>2
      <4> QED  BY <4>1, <4>2, <4>3
    <3>2. ASSUME NEW t \in Slots, NEW w \in SymVals,
                 valueCache'[t].symID # 0, HoldsIn(bufPools', valueCache'[t], w)
          PROVE  \E k \in Slots : /\ SlotAt(w, k) = t
                                  /\ \A m \in 0..(k - 1) : valueCache'[SlotAt(w, m)].symID # 0
      <4>1. CASE t = s
        <5>1. w = v  BY <2>11, <3>2, <4>1
        <5>2. \A m \in 0..(n - 1) : SlotAt(v, m) \in Slots
          <6>1. \A m \in 0..(n - 1) : m \in Nat  OBVIOUS
          <6> QED  BY <1>1, <6>1, SlotsArith
        <5>3. \A m \in 0..(n - 1) : valueCache'[SlotAt(v, m)].symID # 0
          BY <1>10, <2>8, <5>2
        <5> QED  BY <4>1, <5>1, <5>3 DEF s
      <4>2. CASE t # s
        <5>1. valueCache[t].symID # 0 /\ Holds(valueCache[t], w)  BY <2>10, <3>2, <4>2
        <5>2. PICK k \in Slots : /\ SlotAt(w, k) = t
                                 /\ \A m \in 0..(k - 1) : valueCache[SlotAt(w, m)].symID # 0
          BY <1>2, <5>1 DEF OneSlot
        <5>3. \A m \in 0..(k - 1) : SlotAt(w, m) \in Slots
          <6>1. \A m \in 0..(k - 1) : m \in Nat  OBVIOUS
          <6> QED  BY <6>1, SlotsArith
        <5>4. \A m \in 0..(k - 1) : valueCache'[SlotAt(w, m)].symID # 0
          BY <2>8, <5>2, <5>3
        <5> QED  BY <5>2, <5>4
      <4> QED  BY <4>1, <4>2
    <3> QED  BY <3>1, <3>2 DEF OneSlot, Holds, SlotAt
  <2> QED  BY <1>9, <2>5, <2>9, <2>13 DEF SymInv
<1> QED  BY <1>13, <1>14

\* SymInv is inductive.
LEMMA SymStep == SymInv /\ [SymNext]_symVars => SymInv'
<1> SUFFICES ASSUME SymInv, [SymNext]_symVars PROVE SymInv'  OBVIOUS
<1> USE SymAssumption
<1>0. SymTypes /\ CallsOwnIDs  BY DEF SymInv
<1>q. SymQuiet \in SymBusy /\ SymQuiet.op = "idle"  BY DEF SymQuiet, SymBusy
<1>1. ASSUME NEW c \in SymCallers, NEW v \in SymVals, NEW auto \in BOOLEAN,
             GetSymbolID(c, v, auto) PROVE SymInv'
  <2> DEFINE call == [op |-> "mint", val |-> v, id |-> 0]
  <2>1. /\ refs > 0
        /\ symCall' = symCall \/ symCall' = [symCall EXCEPT ![c] = call]
        /\ UNCHANGED <<nextID, valueCache, tokenCache, bufPools, refs, issuerRefs, issuedTo>>
    BY <1>1 DEF GetSymbolID
  <2>2. call \in SymBusy /\ call.op = "mint" /\ call.val = v  BY DEF SymBusy
  <2> HIDE DEF call
  <2>3. SymTypes'  BY <1>0, <2>1, <2>2 DEF SymTypes
  <2>4. CallsOwnIDs'
    <3>1. CASE symCall' = symCall  BY <1>0, <2>1, <3>1 DEF CallsOwnIDs
    <3>2. CASE symCall' = [symCall EXCEPT ![c] = call]
      <4>1. symCall'[c] = call /\ \A d \in SymCallers : d # c => symCall'[d] = symCall[d]
        BY <1>0, <3>2 DEF SymTypes
      <4> QED  BY <1>0, <2>1, <2>2, <4>1 DEF CallsOwnIDs
    <3> QED  BY <2>1, <3>1, <3>2
  <2>5. refs' > 0 => (EntriesHold /\ OneSlot)'  BY <2>1, CachesFrame DEF SymInv
  <2> QED  BY <2>3, <2>4, <2>5 DEF SymInv
<1>2. ASSUME NEW c \in SymCallers, NEW v \in SymVals, NEW id \in 0..IssuerInitsAt,
             SetSymbolID(c, v, id) PROVE SymInv'
  <2> DEFINE call == [op |-> IF id = 0 THEN "mint" ELSE "bind", val |-> v, id |-> id]
  <2>1. /\ refs > 0 /\ symCall' = [symCall EXCEPT ![c] = call]
        /\ UNCHANGED <<nextID, valueCache, tokenCache, bufPools, refs, issuerRefs, issuedTo>>
    BY <1>2 DEF SetSymbolID
  <2>2. /\ call \in SymBusy /\ call.val = v /\ call.id = id
        /\ call.op = "bind" => id \in 1..nextID
    <3>1. id \in SymIDs \cup {0}  BY DEF SymIDs
    <3>2. nextID \in Nat /\ IssuerInitsAt <= nextID  BY <1>0 DEF SymTypes
    <3> QED  BY <3>1, <3>2 DEF SymBusy
  <2> HIDE DEF call
  <2>3. SymTypes'  BY <1>0, <2>1, <2>2 DEF SymTypes
  <2>4. CallsOwnIDs'
    <3>1. symCall'[c] = call /\ \A d \in SymCallers : d # c => symCall'[d] = symCall[d]
      BY <1>0, <2>1 DEF SymTypes
    <3>2. ~(id > IssuerInitsAt)  OBVIOUS
    <3> QED  BY <1>0, <2>1, <2>2, <3>1, <3>2 DEF CallsOwnIDs
  <2>5. refs' > 0 => (EntriesHold /\ OneSlot)'  BY <2>1, CachesFrame DEF SymInv
  <2> QED  BY <2>3, <2>4, <2>5 DEF SymInv
<1>3. ASSUME NEW c \in SymCallers, MintNext(c) PROVE SymInv'
  <2>1. /\ symCall[c].op = "mint"
        /\ UNCHANGED <<valueCache, tokenCache, bufPools, refs, issuerRefs, issuedTo>>
    BY <1>3 DEF MintNext
  <2>2. refs' > 0 => (EntriesHold /\ OneSlot)'  BY <2>1, CachesFrame DEF SymInv
  <2>3. CASE symCall' = [symCall EXCEPT ![c] = SymQuiet] /\ UNCHANGED nextID
    <3>1. SymTypes'  BY <1>0, <1>q, <2>1, <2>3 DEF SymTypes
    <3>2. symCall'[c] = SymQuiet /\ \A d \in SymCallers : d # c => symCall'[d] = symCall[d]
      BY <1>0, <2>3 DEF SymTypes
    <3>3. CallsOwnIDs'  BY <1>0, <1>q, <2>1, <2>3, <3>2 DEF CallsOwnIDs
    <3> QED  BY <2>2, <3>1, <3>3 DEF SymInv
  <2>4. CASE /\ nextID < IssuerInitsAt + MaxMints /\ nextID' = Minted
             /\ symCall' = [symCall EXCEPT ![c].op = "bind", ![c].id = Minted]
    <3>1. nextID \in Nat /\ nextID' = nextID + 1 /\ nextID' \in SymIDs
          /\ nextID' \in IssuerInitsAt..(IssuerInitsAt + MaxMints) /\ nextID' > IssuerInitsAt
      BY <1>0, <2>4 DEF SymTypes, SymIDs, Minted
    <3>2. symCall[c] \in SymBusy /\ symCall[c].val \in SymVals /\ refs > 0
      BY <1>0, <2>1 DEF SymTypes, CallsOwnIDs
    <3>3. /\ symCall'[c] \in SymBusy /\ symCall'[c].op = "bind" /\ symCall'[c].id = nextID'
          /\ symCall'[c].val = symCall[c].val
          /\ \A d \in SymCallers : d # c => symCall'[d] = symCall[d]
          /\ symCall' \in [SymCallers -> SymBusy]
      BY <1>0, <2>4, <3>1, <3>2 DEF SymTypes, SymBusy
    <3>4. SymTypes'  BY <1>0, <2>1, <3>1, <3>3 DEF SymTypes
    <3>5. issuedTo[nextID'] = "none"  BY <1>0, <3>1 DEF CallsOwnIDs
    <3>6. ASSUME NEW d \in SymCallers, d # c, symCall'[d].op = "bind"
          PROVE  symCall'[d].id \in 1..nextID /\ symCall'[d].id # nextID'
      BY <1>0, <3>1, <3>3, <3>6 DEF CallsOwnIDs
    <3>7. ASSUME NEW d \in SymCallers, symCall'[d].op = "bind"
          PROVE  /\ symCall'[d].id \in 1..nextID'
                 /\ symCall'[d].id > IssuerInitsAt =>
                       /\ issuedTo'[symCall'[d].id] = "none"
                       /\ \A e \in SymCallers : e # d /\ symCall'[e].op = "bind"
                                                   => symCall'[e].id # symCall'[d].id
      <4>1. CASE d = c
        BY <2>1, <3>1, <3>3, <3>5, <3>6, <4>1
      <4>2. CASE d # c
        <5>1. symCall'[d] = symCall[d] /\ symCall[d].id \in 1..nextID  BY <3>3, <3>6, <3>7, <4>2
        <5> QED  BY <1>0, <2>1, <3>1, <3>3, <3>6, <3>7, <4>2, <5>1 DEF CallsOwnIDs
      <4> QED  BY <4>1, <4>2
    <3>8. CallsOwnIDs'
      <4>1. \A d \in SymCallers : symCall'[d].op # "idle" => refs' > 0 /\ symCall'[d].val \in SymVals
        BY <1>0, <2>1, <3>2, <3>3 DEF CallsOwnIDs
      <4>2. \A j \in SymIDs : issuedTo'[j] # "none" => j > IssuerInitsAt /\ j <= nextID'
        BY <1>0, <2>1, <3>1 DEF CallsOwnIDs, SymIDs
      <4> QED  BY <3>7, <4>1, <4>2 DEF CallsOwnIDs
    <3> QED  BY <2>2, <3>4, <3>8 DEF SymInv
  <2> QED  BY <1>3, <2>3, <2>4 DEF MintNext
<1>4. ASSUME NEW c \in SymCallers, Bind(c) PROVE SymInv'
  BY <1>4, BindKeeps
<1>5. CASE CloseTable
  <2>1. /\ refs > 0 /\ refs' = refs - 1 /\ UNCHANGED <<nextID, symCall, issuedTo>>
        /\ \A c \in SymCallers : symCall[c] = SymQuiet
    BY <1>5 DEF CloseTable
  <2>2. CallsOwnIDs'  BY <1>0, <1>q, <2>1 DEF CallsOwnIDs
  <2>3. CASE refs' > 0
    <3>1. UNCHANGED <<valueCache, tokenCache, bufPools, issuerRefs>>  BY <1>5, <2>3 DEF CloseTable
    <3>2. SymTypes'  BY <1>0, <2>1, <2>3, <3>1 DEF SymTypes
    <3>3. (EntriesHold /\ OneSlot)'  BY <2>1, <3>1, CachesFrame DEF SymInv
    <3> QED  BY <2>2, <3>2, <3>3 DEF SymInv
  <2>4. CASE ~(refs' > 0)
    <3>1. /\ issuerRefs' = issuerRefs - 1 /\ bufPools' = <<>>
          /\ valueCache' = [s \in Slots |-> NoEntry] /\ tokenCache' = [id \in SymIDs |-> NoEntry]
      BY <1>5, <2>4 DEF CloseTable
    <3>2. NoEntry \in SymEntry  BY DEF NoEntry, SymEntry
    <3>3. SymTypes'  BY <1>0, <2>1, <3>1, <3>2 DEF SymTypes
    <3> QED  BY <2>2, <2>4, <3>3 DEF SymInv
  <2> QED  BY <2>3, <2>4
<1>6. CASE PushOpenTable
  <2>1. /\ refs = 1 /\ refs' = refs + 1
        /\ UNCHANGED <<nextID, valueCache, tokenCache, bufPools, symCall, issuerRefs, issuedTo>>
    BY <1>6 DEF PushOpenTable
  <2>2. SymTypes'  BY <1>0, <2>1 DEF SymTypes
  <2>3. CallsOwnIDs'  BY <1>0, <2>1 DEF CallsOwnIDs
  <2>4. (EntriesHold /\ OneSlot)'  BY <2>1, CachesFrame DEF SymInv
  <2> QED  BY <2>2, <2>3, <2>4 DEF SymInv
<1>7. CASE UNCHANGED symVars
  <2>1. SymTypes' /\ CallsOwnIDs'  BY <1>0, <1>7 DEF SymTypes, CallsOwnIDs, symVars
  <2>2. refs' > 0 => (EntriesHold /\ OneSlot)'  BY <1>7, CachesFrame DEF SymInv, symVars
  <2> QED  BY <2>1, <2>2 DEF SymInv
<1> QED  BY <1>1, <1>2, <1>3, <1>4, <1>5, <1>6, <1>7 DEF SymNext

\* An issued symbol ID resolves to the value it was issued for and a looked-up ID is the
\* value's own, for any callers, values, hashes and pool size, and however lookups, mints
\* and bindings interleave (GetSymbolID, SetSymbolID, allocAndBindToID).
THEOREM SymbolsAreSound == SymSpec => []SymbolsAgree
  BY SymInitial, SymStep, SymInvImplies, PTL DEF SymSpec
=============================================================================
