--------------------------- MODULE EpochKeyStore ---------------------------
(***************************************************************************)
(* safe.epochKeyStore: symmetric epoch keys per container, held in memory  *)
(* and re-sealed to a TomeStore by every mutation before it returns.       *)
(*                                                                         *)
(* Every method holds eks.mu from start to end, so a call is one step, but *)
(* the process may be killed inside it: a call ends with outcome           *)
(*   "ok"      the tome was saved and the call returned nil,               *)
(*   "failed"  WrapDEK or Save failed and the call returned the error,     *)
(*   "killed"  the process died in the call, before or after the rename    *)
(*             that publishes the new tome.                                *)
(* Sealing, unsealing and the file format are abstracted: localTomeStore   *)
(* publishes a complete tome or none.                                      *)
(***************************************************************************)
EXTENDS Naturals

CONSTANTS
  Container,    \* planets and channels
  Epoch,        \* epoch IDs; they are time-based, so larger is newer
  Role,         \* KeyRole
  Key,          \* key bytes
  NoEntry,      \* no EpochKeyEntry in the map
  NoKey         \* no RoleKey in the entry

NoEpoch == 0    \* no current epoch

ASSUME EpochAssumption == Epoch \subseteq Nat \ {0}
ASSUME KeyAssumption == NoKey \notin Key

VARIABLES
  open,         \* a session is open: the store was opened and not closed
  keys,         \* eks.keys
  current,      \* eks.current
  changed,      \* eks.changed
  tome,         \* what is on disk: the keys and the elections
  acked,        \* history: memory when a mutation last returned nil
  unsureEpochs,     \* history: epochs touched since by calls that did not
  unsureContainers  \* history: containers whose election they touched

memory == <<open, keys, current, changed>>
vars == <<open, keys, current, changed, tome, acked, unsureEpochs, unsureContainers>>

Entry == [container : Container, role : [Role -> Key \cup {NoKey}]]
ASSUME EntryAssumption == NoEntry \notin Entry
Keys == [Epoch -> Entry \cup {NoEntry}]
Elections == [Container -> Epoch \cup {NoEpoch}]
Tome == [keys : Keys, current : Elections]

TypeOK ==
  /\ open \in BOOLEAN
  /\ keys \in Keys
  /\ current \in Elections
  /\ changed \in BOOLEAN
  /\ tome \in Tome
  /\ acked \in Tome
  /\ unsureEpochs \subseteq Epoch
  /\ unsureContainers \subseteq Container

EmptyKeys == [e \in Epoch |-> NoEntry]
NoElections == [c \in Container |-> NoEpoch]
EmptyTome == [keys |-> EmptyKeys, current |-> NoElections]

\* No tome on disk: OpenEpochKeyStore starts from an empty one.
Init ==
  /\ open = FALSE
  /\ keys = EmptyKeys
  /\ current = NoElections
  /\ changed = FALSE
  /\ tome = EmptyTome
  /\ acked = EmptyTome
  /\ unsureEpochs = {}
  /\ unsureContainers = {}

Held(ks, e) == e \in Epoch /\ ks[e] # NoEntry

-----------------------------------------------------------------------------
(* persistLocked, and what it makes of a mutation.                         *)

Down ==
  /\ open' = FALSE
  /\ keys' = EmptyKeys
  /\ current' = NoElections
  /\ changed' = FALSE

\* History: which promises a call that did not return nil puts in doubt.
Doubt(ks, cur) ==
  /\ acked' = acked
  /\ unsureEpochs' = unsureEpochs \cup {e \in Epoch : ks[e] # keys[e]}
  /\ unsureContainers' = unsureContainers \cup {c \in Container : cur[c] # current[c]}

\* Mutant of Persist: a failed save is not tracked as unsaved.
PersistForgets(ks, cur, outcome) ==
  IF outcome = "failed"
  THEN /\ keys' = ks /\ current' = cur /\ changed' = FALSE
       /\ Doubt(ks, cur)
       /\ UNCHANGED <<open, tome>>
  ELSE /\ outcome = "ok"
       /\ keys' = ks /\ current' = cur /\ changed' = FALSE
       /\ tome' = [keys |-> ks, current |-> cur]
       /\ acked' = tome'
       /\ unsureEpochs' = {} /\ unsureContainers' = {}
       /\ UNCHANGED open

\* The method installed ks and cur in memory, set changed, and persists.
Persist(ks, cur, outcome) ==
  \/ /\ outcome = "ok"
     /\ keys' = ks /\ current' = cur /\ changed' = FALSE
     /\ tome' = [keys |-> ks, current |-> cur]
     /\ acked' = tome'
     /\ unsureEpochs' = {} /\ unsureContainers' = {}
     /\ UNCHANGED open
  \/ /\ outcome = "failed"
     /\ keys' = ks /\ current' = cur /\ changed' = TRUE
     /\ Doubt(ks, cur)
     /\ UNCHANGED <<open, tome>>
  \/ /\ outcome = "killed"
     /\ Down
     /\ \/ UNCHANGED tome
        \/ tome' = [keys |-> ks, current |-> cur]
     /\ Doubt(ks, cur)

Outcome == {"ok", "failed", "killed"}

-----------------------------------------------------------------------------
(* The methods.  Calls on a closed store return ErrStoreClosed.            *)

\* The election of container c that PutKey makes for epoch e.
Elect(c, e) == IF e > current[c] THEN [current EXCEPT ![c] = e] ELSE current

\* Upsert one role's key; an entry keeps the container that created it.
Upsert(c, e, r, k) ==
  LET entry == IF Held(keys, e) THEN keys[e]
               ELSE [container |-> c, role |-> [x \in Role |-> NoKey]]
  IN [keys EXCEPT ![e] = [container |-> entry.container,
                          role |-> [entry.role EXCEPT ![r] = k]]]

PutKey(c, e, r, k, outcome) ==
  /\ open
  /\ Persist(Upsert(c, e, r, k), Elect(c, e), outcome)

\* Refused (KeyringNotFound) unless some container holds a key of the epoch.
SetCurrentEpoch(c, e, outcome) ==
  /\ open
  /\ Held(keys, e)
  /\ Persist(keys, [current EXCEPT ![c] = e], outcome)

\* Mutant of DropDangling: elections of shredded epochs stay.
KeepDangling(ks) == current

Shredded(S) == [e \in Epoch |-> IF e \in S THEN NoEntry ELSE keys[e]]
DropDangling(ks) ==
  [c \in Container |-> IF Held(ks, current[c]) THEN current[c] ELSE NoEpoch]

\* Nothing held and nothing unsaved: success without touching the disk.
ShredNothing(S) ==
  /\ open
  /\ ~changed /\ \A e \in S : ~Held(keys, e)
  /\ acked' = [acked EXCEPT !.keys = [e \in Epoch |-> IF e \in S THEN NoEntry ELSE @[e]]]
  /\ unsureEpochs' = unsureEpochs \ S
  /\ UNCHANGED <<memory, tome, unsureContainers>>

ShredKeys(S, outcome) ==
  /\ open
  /\ changed \/ \E e \in S : Held(keys, e)
  /\ Persist(Shredded(S), DropDangling(Shredded(S)), outcome)

\* A clean Close saves what is unsaved; if that fails the store stays open.
Close ==
  /\ open
  /\ Down
  /\ tome' = IF changed THEN [keys |-> keys, current |-> current] ELSE tome
  /\ acked' = [keys |-> keys, current |-> IF changed THEN current ELSE acked.current]
  /\ unsureEpochs' = {}
  /\ unsureContainers' = IF changed THEN {} ELSE unsureContainers

\* An unclean kill outside any call, or inside a Close before its rename.
Kill ==
  /\ open
  /\ Down
  /\ UNCHANGED <<tome, acked, unsureEpochs, unsureContainers>>

\* Reopen: the newest epoch of each container, overridden by the persisted
\* election when its epoch is still held.
NewestOf(c, e) ==
  /\ e \in Epoch /\ Held(tome.keys, e) /\ tome.keys[e].container = c
  /\ \A f \in Epoch : Held(tome.keys, f) /\ tome.keys[f].container = c => f <= e

\* Mutant of Reelected: the persisted election is not read back.
ReelectNewest(c, e) ==
  \/ NewestOf(c, e)
  \/ e = NoEpoch /\ ~\E f \in Epoch : NewestOf(c, f)

Reelected(c, e) ==
  IF Held(tome.keys, tome.current[c]) THEN e = tome.current[c]
  ELSE \/ NewestOf(c, e)
       \/ e = NoEpoch /\ ~\E f \in Epoch : NewestOf(c, f)

OpenEpochKeyStore ==
  /\ ~open
  /\ open' = TRUE
  /\ keys' = tome.keys
  /\ current' \in {cur \in Elections : \A c \in Container : Reelected(c, cur[c])}
  /\ changed' = FALSE
  /\ UNCHANGED <<tome, acked, unsureEpochs, unsureContainers>>

-----------------------------------------------------------------------------
Next ==
  \/ \E c \in Container, e \in Epoch, o \in Outcome :
       \/ \E r \in Role, k \in Key : PutKey(c, e, r, k, o)
       \/ SetCurrentEpoch(c, e, o)
  \/ \E S \in SUBSET Epoch :
       ShredNothing(S) \/ \E o \in Outcome : ShredKeys(S, o)
  \/ Close
  \/ Kill
  \/ OpenEpochKeyStore

Spec == Init /\ [][Next]_vars

-----------------------------------------------------------------------------
(* Correctness.                                                            *)

\* Mutations are durable at return: whatever a call reported as done (a key
\* installed, an epoch shredded) is on disk, and in memory when a session is
\* open, across kills, failed saves of other calls and reopens.  A shredded
\* key never comes back.
DurableAtReturn ==
  \A e \in Epoch \ unsureEpochs :
    /\ tome.keys[e] = acked.keys[e]
    /\ open => keys[e] = acked.keys[e]

\* An acknowledged election (explicit, possibly of an older epoch, or by a
\* PutKey) survives kills and reopens.
ElectionDurable ==
  \A c \in Container \ unsureContainers :
    acked.current[c] # NoEpoch =>
      /\ tome.current[c] = acked.current[c]
      /\ open => current[c] = acked.current[c]

\* A current epoch is always one whose keys are held: GetCurrentKey never
\* finds a dangling pointer, in memory or after a reopen.
CurrentIsHeld ==
  /\ \A c \in Container : current[c] # NoEpoch => Held(keys, current[c])
  /\ \A c \in Container : tome.current[c] # NoEpoch => Held(tome.keys, tome.current[c])

=============================================================================
