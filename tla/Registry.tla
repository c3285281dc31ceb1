------------------------------ MODULE Registry ------------------------------
(***************************************************************************)
(* amp/std registry: attr definitions and app modules in a copy-on-write   *)
(* snapshot.  Registrars serialise on writeMu: they load the snapshot,     *)
(* clone it, insert and publish.  Readers load the pointer at any moment   *)
(* and take no lock.                                                       *)
(***************************************************************************)
EXTENDS Naturals, FiniteSets

CONSTANTS
    Registrars,     \* goroutines
    AttrIDs,        \* attr IDs; NilAttr is the nil one
    NilAttr,
    Mods,           \* app modules
    AliasesOf       \* the aliases, canonic name and leaf of each


Policies == [flow: {"Fold", "Tape"}, retain: {0, 2}]
NoPolicy == [flow |-> "none", retain |-> 0]
AliasNames == UNION {AliasesOf[m] : m \in Mods}
NoOne == "none"

ASSUME RegistryAssumption ==
    NilAttr \notin AttrIDs /\ NoOne \notin Registrars /\ NoOne \notin Mods

VARIABLES
    snap,           \* reg.snap: [attrs, byID, byAlias]
    writeMu,        \* its holder, or NoOne
    reg,            \* each registrar: [pc, job, next]
    accepted        \* history: registrations that returned nil

registryVars == <<snap, writeMu, reg, accepted>>

EmptySnap == [attrs |-> [a \in AttrIDs |-> NoPolicy], byID |-> {}, byAlias |-> [s \in AliasNames |-> NoOne]]
AttrJob == [kind: {"attr"}, id: AttrIDs \cup {NilAttr}, policy: Policies]
ModJob  == [kind: {"module"}, id: Mods]
NoJob   == [kind |-> NoOne]
Resting == [pc |-> "rest", job |-> NoJob, next |-> EmptySnap]

(* A Tape attr never has a fold depth. *)
StoredAttrs == {p \in Policies : p.flow = "Tape" => p.retain = 0} \cup {NoPolicy}
Snapshot == [attrs: [AttrIDs -> StoredAttrs],
             byID: SUBSET Mods,
             byAlias: [AliasNames -> Mods \cup {NoOne}]]

RegistryTypeOK ==
    /\ snap \in Snapshot
    /\ writeMu \in Registrars \cup {NoOne}
    /\ \A r \in Registrars : reg[r].pc \in {"rest", "lock", "load", "publish", "unlock"}
                             /\ reg[r].next \in Snapshot

RegistryInit ==
    /\ snap = EmptySnap /\ writeMu = NoOne
    /\ reg = [r \in Registrars |-> Resting]
    /\ accepted = {}

(* RegisterAttr refuses a nil ID and a Tape attr with a fold depth. *)
RegRefused(job) == /\ job.kind = "attr"
                /\ \/ job.id = NilAttr
                   \/ job.policy.flow = "Tape" /\ job.policy.retain # 0

Register(r, job) ==
    /\ reg[r].pc = "rest" /\ ~RegRefused(job)
    /\ reg' = [reg EXCEPT ![r] = [pc |-> "lock", job |-> job, next |-> EmptySnap]]
    /\ UNCHANGED <<snap, writeMu, accepted>>

CanLock(r) == writeMu = NoOne

Lock(r) ==
    /\ reg[r].pc = "lock" /\ CanLock(r)
    /\ writeMu' = r
    /\ reg' = [reg EXCEPT ![r].pc = "load"]
    /\ UNCHANGED <<snap, accepted>>

(* An attr's storage policy is write-once. *)
Conflicts(s, job) == s.attrs[job.id] \notin {NoPolicy, job.policy}

Accept(job) == accepted' = accepted \cup {job}

(* Mutant of WithInserted: the ID is published without the aliases. *)
WithInsertedHalf(s, job) ==
    IF job.kind = "attr" THEN [s EXCEPT !.attrs[job.id] = job.policy]
    ELSE [s EXCEPT !.byID = @ \cup {job.id}]

(* The clone with the job's entries: a later module takes over an alias. *)
WithInserted(s, job) ==
    IF job.kind = "attr" THEN [s EXCEPT !.attrs[job.id] = job.policy]
    ELSE [s EXCEPT !.byID = @ \cup {job.id},
                   !.byAlias = [a \in AliasNames |-> IF a \in AliasesOf[job.id] THEN job.id ELSE @[a]]]

(* Load, check and clone; a conflict or an identical policy publishes nothing. *)
Load(r) ==
    LET job == reg[r].job IN
    /\ reg[r].pc = "load"
    /\ IF job.kind = "attr" /\ (Conflicts(snap, job) \/ snap.attrs[job.id] = job.policy)
         THEN /\ reg' = [reg EXCEPT ![r].pc = "unlock"]
              /\ IF Conflicts(snap, job) THEN UNCHANGED accepted ELSE Accept(job)
         ELSE /\ reg' = [reg EXCEPT ![r].pc = "publish", ![r].next = WithInserted(snap, job)]
              /\ UNCHANGED accepted
    /\ UNCHANGED <<snap, writeMu>>

Publish(r) ==
    /\ reg[r].pc = "publish"
    /\ snap' = reg[r].next
    /\ reg' = [reg EXCEPT ![r].pc = "unlock"]
    /\ Accept(reg[r].job)
    /\ UNCHANGED writeMu

Unlock(r) ==
    /\ reg[r].pc = "unlock"
    /\ writeMu' = NoOne
    /\ reg' = [reg EXCEPT ![r] = Resting]
    /\ UNCHANGED <<snap, accepted>>

RegistryNext ==
    \E r \in Registrars :
        \/ \E job \in AttrJob \cup ModJob : Register(r, job)
        \/ Lock(r) \/ Load(r) \/ Publish(r) \/ Unlock(r)

RegistrySpec == RegistryInit /\ [][RegistryNext]_registryVars

(* FindModule: by ID first, then by alias. *)
FindModule(id, alias) == IF id \in snap.byID THEN id
                         ELSE IF alias \in AliasNames THEN snap.byAlias[alias] ELSE NoOne

---------------------------------------------------------------------------
(* A registration that returned nil is never lost to a concurrent one, and  *)
(* an attr keeps the policy it was accepted with: FindAttr resolves it      *)
(* process-statically, so readers rely on both.                             *)
AcceptedStays ==
    \A job \in accepted :
        IF job.kind = "attr" THEN snap.attrs[job.id] = job.policy
        ELSE FindModule(job.id, NoOne) = job.id

(* No reader sees half of a module: in every published snapshot a module    *)
(* found by its ID is found by each of its aliases, or another module that  *)
(* claims the alias is.                                                     *)
NoHalfModule ==
    \A m \in snap.byID : \A a \in AliasesOf[m] :
        LET found == FindModule(NoOne, a) IN found \in snap.byID /\ a \in AliasesOf[found]

(* Concurrent registrations are all there, and none of them in half.        *)
RegistrySound == AcceptedStays /\ NoHalfModule
=============================================================================
