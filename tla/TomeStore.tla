----------------------------- MODULE TomeStore -----------------------------
(***************************************************************************)
(* The sealed tome beneath the enclave: what persistLocked seals, how the  *)
(* file guard (file_guard.go) wraps its key, and how the local store puts  *)
(* it on disk, with several sessions of one member opening the same file.  *)
(*                                                                         *)
(* A file is an entry of files, created empty by CreateTemp; path is the   *)
(* entry the tome's name is linked to.  A reader holds on to the entry it  *)
(* opened.  Keys derived from equal inputs are equal, and a box opens only *)
(* under the key and the data it was sealed with (Framing).                *)
(***************************************************************************)
EXTENDS Enclave, Framing

CONSTANTS
  Openers,      \* sessions
  GuardOf,      \* each session's guard: its root key and key ID
  AadOf,        \* the aad each session opens with
  MaxSaves      \* bound on the saves of a behaviour

ASSUME OpenersAssumption == /\ DOMAIN GuardOf = Openers /\ DOMAIN AadOf = Openers
                            /\ MaxSaves \in Nat
                            /\ \A s \in Openers : GuardOf[s] =
                                 [root |-> GuardOf[s].root, keyID |-> GuardOf[s].keyID]

VARIABLES
  files,        \* contents by entry, in the order of creation
  synced,       \* the entries whose content has reached the disk
  path,         \* the entry of the tome's pathname, 0 before the first rename
  stable,       \* the entry the name would lead to after a power loss
  sess,         \* per session: its step, its guard, and the entry it reads or writes
  loaded        \* history: the load the last step was, with its result, or NoLoad

tomeVars == <<files, synced, path, stable, sess, loaded>>

\* A file before its content is all written, or after a power loss before its sync.
Torn == [whole |-> FALSE]

Fresh == [pc |-> "closed", guard |-> "open", entry |-> 0]
NoLoad == [by |-> {}]

TomeInit ==
  /\ files = <<>>
  /\ synced = {}
  /\ path = 0
  /\ stable = 0
  /\ sess = [s \in Openers |-> Fresh]
  /\ loaded = NoLoad

-----------------------------------------------------------------------------
(* The file guard *)

\* HKDF of the root key under a salt; every wrap draws its own.
DeriveKey(root, salt) == [root |-> root, salt |-> salt]

WrappedDEK(keyID, salt, box) ==
  [Provider |-> "fileGuard", KeyID |-> keyID, Salt |-> salt, Cipherblob |-> box]

WrapDEK(guard, salt, dek, aad) ==
  WrappedDEK(guard.keyID, salt, SealAEAD(DeriveKey(guard.root, salt), dek, aad))

\* The DEK, or nothing when the guard refuses.
UnwrapDEK(guard, wrapped, aad) ==
  IF /\ wrapped.Provider = "fileGuard"
     /\ wrapped.KeyID = guard.keyID
     /\ Opens(DeriveKey(guard.root, wrapped.Salt), wrapped.Cipherblob, aad)
  THEN {wrapped.Cipherblob.plain} ELSE {}

\* A KeyTome: the revision stands for the keys of its session at that time.
KeyTome(s, n) == [by |-> s, Revision |-> n]

SealedTome(wrapped, box) == [whole |-> TRUE, WrappedDEK |-> wrapped, Cipherblob |-> box]

\* GenerateDEK: a fresh key for the n-th save.
GenerateDEK(n) == <<"dek", n>>

\* persistLocked: a fresh DEK seals the KeyTome, and the guard wraps the DEK.
TomeFile(s, n) ==
  SealedTome(WrapDEK(GuardOf[s], n, GenerateDEK(n), AadOf[s]),
             SealAEAD(GenerateDEK(n), KeyTome(s, n), AadOf[s]))

\* OpenEnclave of a loaded file by s: the tomes it comes out with, none on an error.
\* A torn file does not unmarshal, or has no WrappedDEK; either is refused.
OpenedTome(s, file) ==
  IF ~file.whole THEN {}
  ELSE {file.Cipherblob.plain : dek \in
           {d \in UnwrapDEK(GuardOf[s], file.WrappedDEK, AadOf[s]) :
                Opens(d, file.Cipherblob, AadOf[s])}}

-----------------------------------------------------------------------------
(* Sessions *)

At(s, pc) == sess[s].pc = pc
Goes(s, pc) == sess' = [sess EXCEPT ![s].pc = pc]

\* Load finds no file: a fresh index.
LoadNone(s) ==
  /\ At(s, "closed")
  /\ path = 0
  /\ Goes(s, "open")
  /\ UNCHANGED <<files, synced, path, stable>>

\* ReadFile opens the entry the name leads to, and reads it in a later step.
LoadOpen(s) ==
  /\ At(s, "closed")
  /\ path # 0
  /\ sess' = [sess EXCEPT ![s].pc = "loading", ![s].entry = path]
  /\ UNCHANGED <<files, synced, path, stable>>

\* UnwrapDEK of a closed guard refuses before it looks at the tome.
LoadRead(s) ==
  /\ At(s, "loading")
  /\ LET tomes == IF sess[s].guard = "open" THEN OpenedTome(s, files[sess[s].entry]) ELSE {}
     IN  /\ sess' = [sess EXCEPT ![s].pc = IF tomes = {} THEN "closed" ELSE "open",
                                 ![s].entry = 0]
         /\ loaded' = [by |-> {s}, tomes |-> tomes, entry |-> sess[s].entry]
  /\ UNCHANGED <<files, synced, path, stable>>

\* The read itself fails.
LoadFails(s) ==
  /\ At(s, "loading")
  /\ sess' = [sess EXCEPT ![s].pc = "closed", ![s].entry = 0]
  /\ UNCHANGED <<files, synced, path, stable>>

\* persistLocked up to CreateTemp.  A closed guard does not wrap: nothing is created.
SaveCreate(s) ==
  /\ At(s, "open")
  /\ sess[s].guard = "open"
  /\ Len(files) < MaxSaves
  /\ files' = Append(files, Torn)
  /\ sess' = [sess EXCEPT ![s].pc = "created", ![s].entry = Len(files) + 1]
  /\ UNCHANGED <<synced, path, stable>>

SaveWrite(s) ==
  /\ At(s, "created")
  /\ files' = [files EXCEPT ![sess[s].entry] = TomeFile(s, sess[s].entry)]
  /\ Goes(s, "written")
  /\ UNCHANGED <<synced, path, stable>>

\* Sync, then close.
SaveSync(s) ==
  /\ At(s, "written")
  /\ Goes(s, "synced")
  /\ synced' = synced \cup {sess[s].entry}
  /\ UNCHANGED <<files, path, stable>>

\* The rename is one step for every reader.  The directory itself is not synced, so a
\* power loss may still find the name at an entry before.
SaveRename(s) ==
  /\ At(s, "synced")
  /\ path' = sess[s].entry
  /\ stable' \in {stable, path, sess[s].entry}
  /\ sess' = [sess EXCEPT ![s].pc = "open", ![s].entry = 0]
  /\ UNCHANGED <<files, synced>>

\* Any of the steps fails: the temp file is removed and the error returned.
SaveFails(s) ==
  /\ sess[s].pc \in {"created", "written", "synced"}
  /\ sess' = [sess EXCEPT ![s].pc = "open", ![s].entry = 0]
  /\ UNCHANGED <<files, synced, path, stable>>

\* The guard's owner closes it: its root key is zeroed.  A save has used the guard before
\* it creates its file: a close during one is a close after it.
GuardClose(s) ==
  /\ sess[s].pc \in {"closed", "loading", "open"}
  /\ sess[s].guard = "open"
  /\ sess' = [sess EXCEPT ![s].guard = "closed"]
  /\ UNCHANGED <<files, synced, path, stable>>

\* The session ends, after a last save or without one; the next open brings a new guard.
SessionEnd(s) ==
  /\ sess[s].pc \in {"open", "closed"}
  /\ sess' = [sess EXCEPT ![s] = Fresh]
  /\ UNCHANGED <<files, synced, path, stable>>

\* Every session dies, unsynced content is lost.
PowerLoss ==
  /\ files' = [e \in DOMAIN files |-> IF e \in synced THEN files[e] ELSE Torn]
  /\ path' = stable
  /\ sess' = [s \in Openers |-> Fresh]
  /\ UNCHANGED <<synced, stable>>

TomeNext ==
  \/ \E s \in Openers : LoadRead(s)
  \/ /\ \/ \E s \in Openers :
            \/ LoadNone(s) \/ LoadOpen(s) \/ LoadFails(s)
            \/ SaveCreate(s) \/ SaveWrite(s) \/ SaveSync(s) \/ SaveRename(s) \/ SaveFails(s)
            \/ GuardClose(s) \/ SessionEnd(s)
        \/ PowerLoss
     /\ loaded' = NoLoad

\* The key ring and, beneath it, the store of the tome.
StoreSpec ==
  /\ EnclaveInit /\ TomeInit
  /\ [][\/ EnclaveNext /\ UNCHANGED tomeVars
        \/ TomeNext /\ UNCHANGED enclaveVars]_<<enclaveVars, tomeVars>>

-----------------------------------------------------------------------------
(* Correctness *)

\* Sessions of the same member: what one seals another opens.
Fellow(s, t) == GuardOf[s] = GuardOf[t] /\ AadOf[s] = AadOf[t]

\* A file that t sealed, as it left SaveWrite.
SealedBy(t, e) == files[e] = TomeFile(t, e)

\* The name never leads to a torn file, before or after a power loss.  A load returns
\* the tome of one save of its own member, whole; one that is refused met a closed guard
\* or a tome sealed under another guard or aad, never a save that was under way.
TomeWhole ==
  /\ \A e \in {path, stable} \ {0} : \E t \in Openers : SealedBy(t, e)
  /\ \A s \in loaded.by : \E t \in Openers :
       /\ SealedBy(t, loaded.entry)
       /\ IF loaded.tomes = {} THEN sess[s].guard = "closed" \/ ~Fellow(s, t)
          ELSE Fellow(s, t) /\ loaded.tomes = {KeyTome(t, loaded.entry)}

\* The enclave and the tome it is kept in.
EnclaveSafe == RingSafe /\ TomeWhole
=============================================================================
