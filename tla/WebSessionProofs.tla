-------------------------- MODULE WebSessionProofs --------------------------
(***************************************************************************)
(* WebSession's invariants for any members, sessions and number of keys.   *)
(*                                                                         *)
(* WebInv strengthens them.  Its first three parts hold whatever overlaps: *)
(* the phases a flow can be in, and that listeners may lag only behind an  *)
(* install that has set the member and not yet announced it.  The last is  *)
(* about an app that keeps its auth calls apart: which of token, member    *)
(* and key are set in each phase of the one call under way, and whose the  *)
(* socket is.                                                              *)
(***************************************************************************)
EXTENDS WebSession, TLAPS

\* Phases of an install after it has set the member.
Tail == {"saving", "keying", "keysaved", "finish"}

\* Phases of each call, and what it has in hand there.
FlowShape ==
    /\ flow["login"].pc \in {"idle", "asked", "granted"} \cup Tail
    /\ flow["login"].pc = "granted" => flow["login"].sess \in Sessions
    /\ flow["restore"].pc \in {"idle", "loading", "asked", "granted", "denied"} \cup Tail
    /\ flow["restore"].pc \in {"loading", "asked", "granted", "denied"}
            => flow["restore"].sess \in Sessions
    /\ flow["logout"].pc \in {"idle", "clearing"}
    /\ \A f \in Installs : /\ flow[f].pc \in {"keying", "keysaved"} => flow[f].who \in WebMembers
                           /\ flow[f].pc = "keysaved" => flow[f].key \in DeviceKey

\* Listeners lag only behind an install in its tail, and never show a member that is gone.
Heard ==
    /\ (\A f \in Installs : flow[f].pc \notin Tail) => view = member
    /\ member = None => view = None

\* A device key is stored under its owner.
KeysOwned == \A m \in WebMembers : devKeys[m] # None => devKeys[m].owner = m

SignedOut == token = None /\ member = None /\ key = None
InstalledKey == key # None => key.owner = member /\ devKeys[member] = key

\* The socket is that of the session, but for one a timer opened with nobody signed in.
SocketOwned == ws # NoWs => early \/ (member # None /\ ws = token)

\* One call at a time, and no request while one installs.
Apart ==
    /\ \A f, g \in Auth : f # g => Idle(f) \/ Idle(g)
    /\ (\E f \in Installs : ~Idle(f)) => req.pc = "idle"

\* What is set in each phase of the call under way, and between calls.
Phase ==
    /\ flow["login"].pc \in {"asked", "granted"} \/ flow["restore"].pc = "loading" => SignedOut
    /\ flow["restore"].pc \in {"asked", "granted", "denied"} =>
          token = flow["restore"].sess /\ member = None /\ key = None
    /\ \A f \in Installs :
         /\ flow[f].pc \in Tail =>
               /\ token \in Sessions /\ member = Owner[token]
               /\ flow[f].pc # "finish" => key = None
               /\ flow[f].pc = "finish" => InstalledKey
         /\ flow[f].pc \in {"keying", "keysaved"} =>
               flow[f].who = member /\ flow[f].key = devKeys[member]
    /\ AtRest => \/ SignedOut
                 \/ token \in Sessions /\ member = Owner[token] /\ InstalledKey

WebInv ==
    /\ WebTypeOK
    /\ FlowShape
    /\ RecordConsistent
    /\ Heard
    /\ KeysOwned
    /\ disciplined => Apart /\ Phase /\ SocketOwned

-----------------------------------------------------------------------------
(* Every action preserves WebInv, part by part. *)

\* dropSession leaves a client and a session store of the right types.
LEMMA DropSessionTypes ==
    ASSUME WebTypeOK, DropSession
    PROVE  /\ token' = None /\ member' = None /\ view' = None /\ key' = None
           /\ ws' = NoWs /\ early' = FALSE /\ timer' = FALSE
           /\ loose' \in Nat /\ strays' \in Nat
           /\ stored' \in SessionRecord \cup {None}
           /\ devKeys' = devKeys /\ made' = made
<1>1. loose' \in Nat /\ strays' \in Nat
  BY DEF WebTypeOK, DropSession, DisconnectWs, LetGo
<1>2. stored' \in SessionRecord \cup {None}
  BY DEF WebTypeOK, DropSession, Save
<1> QED  BY <1>1, <1>2 DEF DropSession, DisconnectWs, LetGo, KeyAfterDrop

\* Login preserves the invariant.
LEMMA LoginKeeps ==
    ASSUME WebInv, Login PROVE WebInv'
<1>1. WebTypeOK'
  BY OwnerAssumption, NullAssumption DEF WebInv, sockets, Login, Idle, Quiet, Auth, Go,
     client, stores, host, Installs, WebTypeOK, FlowRecord, SessionRecord, DeviceKey,
     FlowShape, Tail
<1>2. FlowShape'
  BY DEF WebInv, sockets, Login, Idle, Quiet, Auth, Go, client, stores, host, Installs,
     WebTypeOK, FlowRecord, FlowShape, Tail, SessionRecord, DeviceKey
<1>3. RecordConsistent'
  BY DEF WebInv, sockets, Login, Idle, Quiet, Auth, Go, client, stores, host, Installs,
     RecordConsistent
<1>4. Heard'
  BY OwnerAssumption, NullAssumption DEF WebInv, sockets, Login, Idle, Quiet, Auth, Go,
     client, stores, host, Installs, Heard, Tail, FlowShape, WebTypeOK, FlowRecord
<1>5. KeysOwned'
  BY DEF WebInv, sockets, Login, Idle, Quiet, Auth, Go, client, stores, host, Installs,
     KeysOwned, WebTypeOK, FlowRecord
<1>6. (disciplined => Apart /\ Phase /\ SocketOwned)'
  BY OwnerAssumption, NullAssumption DEF WebInv, sockets, Login, Idle, Quiet, Auth, Go,
     client, stores, host, Installs, Apart, Phase, Tail, AtRest, SignedOut, InstalledKey,
     SocketOwned, FlowShape, WebTypeOK, FlowRecord, KeysOwned
<1> QED  BY <1>1, <1>2, <1>3, <1>4, <1>5, <1>6 DEF WebInv

\* HostLogin preserves the invariant.
LEMMA HostLoginKeeps ==
    ASSUME WebInv, HostLogin PROVE WebInv'
<1>1. WebTypeOK'
  BY OwnerAssumption, NullAssumption DEF WebInv, sockets, HostLogin, Ends, IdleFlow, host,
     client, stores, Auth, Installs, WebTypeOK, FlowRecord, SessionRecord, DeviceKey,
     FlowShape, Tail
<1>2. FlowShape'
  BY DEF WebInv, sockets, HostLogin, Ends, IdleFlow, host, client, stores, Auth, Installs,
     WebTypeOK, FlowRecord, FlowShape, Tail, SessionRecord, DeviceKey
<1>3. RecordConsistent'
  BY DEF WebInv, sockets, HostLogin, Ends, IdleFlow, host, client, stores, Auth, Installs,
     RecordConsistent
<1>4. Heard'
  BY OwnerAssumption, NullAssumption DEF WebInv, sockets, HostLogin, Ends, IdleFlow, host,
     client, stores, Auth, Installs, Heard, Tail, FlowShape, WebTypeOK, FlowRecord
<1>5. KeysOwned'
  BY DEF WebInv, sockets, HostLogin, Ends, IdleFlow, host, client, stores, Auth, Installs,
     KeysOwned, WebTypeOK, FlowRecord
<1>6. (disciplined => Apart /\ Phase /\ SocketOwned)'
  BY OwnerAssumption, NullAssumption DEF WebInv, sockets, HostLogin, Ends, IdleFlow, host,
     client, stores, Auth, Installs, Idle, Apart, Phase, Tail, AtRest, SignedOut,
     InstalledKey, SocketOwned, FlowShape, WebTypeOK, FlowRecord, KeysOwned
<1> QED  BY <1>1, <1>2, <1>3, <1>4, <1>5, <1>6 DEF WebInv

\* InstallSession preserves the invariant.
LEMMA InstallSessionKeeps ==
    ASSUME WebInv, InstallSession PROVE WebInv'
<1>1. WebTypeOK'
  BY OwnerAssumption, NullAssumption DEF WebInv, sockets, InstallSession, MemberOf, Save,
     Go, host, Auth, Installs, WebTypeOK, FlowRecord, SessionRecord, DeviceKey, FlowShape,
     Tail
<1>2. FlowShape'
  BY OwnerAssumption, NullAssumption DEF WebInv, sockets, InstallSession, MemberOf, Save,
     Go, host, Auth, Installs, WebTypeOK, FlowRecord, FlowShape, Tail, SessionRecord,
     DeviceKey
<1>3. RecordConsistent'
  BY OwnerAssumption, NullAssumption DEF WebInv, sockets, InstallSession, MemberOf, Save,
     Go, host, Auth, Installs, RecordConsistent
<1>4. Heard'
  BY OwnerAssumption, NullAssumption DEF WebInv, sockets, InstallSession, MemberOf, Save,
     Go, host, Auth, Installs, Heard, Tail, FlowShape, WebTypeOK, FlowRecord
<1>5. KeysOwned'
  BY OwnerAssumption, NullAssumption DEF WebInv, sockets, InstallSession, MemberOf, Save,
     Go, host, Auth, Installs, KeysOwned, WebTypeOK, FlowRecord
<1>6. (disciplined => Apart /\ Phase /\ SocketOwned)'
  BY OwnerAssumption, NullAssumption DEF WebInv, sockets, InstallSession, MemberOf, Save,
     Go, host, Auth, Installs, Idle, Apart, Phase, Tail, AtRest, SignedOut, InstalledKey,
     SocketOwned, FlowShape, WebTypeOK, FlowRecord, KeysOwned
<1> QED  BY <1>1, <1>2, <1>3, <1>4, <1>5, <1>6 DEF WebInv

\* Restore preserves the invariant.
LEMMA RestoreKeeps ==
    ASSUME WebInv, Restore PROVE WebInv'
<1>0. stored \in SessionRecord
  BY DEF WebInv, sockets, WebTypeOK, Restore
<1>1. WebTypeOK'
  <2>0. PICK s \in Sessions :
           flow' = [flow EXCEPT !["restore"].pc = "loading", !["restore"].sess = s]
    BY <1>0 DEF SessionRecord, Restore
  <2>a. flow \in [Auth -> FlowRecord] /\ "restore" \in Auth
    BY DEF WebInv, sockets, WebTypeOK, Auth
  <2>b. [flow["restore"] EXCEPT !.pc = "loading", !.sess = s] \in FlowRecord
    BY <2>a DEF FlowRecord
  <2>1. flow' \in [Auth -> FlowRecord]
    BY <2>0, <2>a, <2>b
  <2> QED
    BY <2>1 DEF WebInv, sockets, WebTypeOK, Restore, client, stores, host
<1>2. FlowShape'
  BY <1>0 DEF WebInv, sockets, Restore, Idle, Quiet, Auth, client, stores, host, Installs,
     WebTypeOK, FlowRecord, FlowShape, Tail, SessionRecord, DeviceKey
<1>3. RecordConsistent'
  BY DEF WebInv, sockets, Restore, Idle, Quiet, Auth, client, stores, host, Installs,
     RecordConsistent
<1>4. Heard'
  BY OwnerAssumption, NullAssumption DEF WebInv, sockets, Restore, Idle, Quiet, Auth,
     client, stores, host, Installs, Heard, Tail, FlowShape, WebTypeOK, FlowRecord
<1>5. KeysOwned'
  BY DEF WebInv, sockets, Restore, Idle, Quiet, Auth, client, stores, host, Installs,
     KeysOwned, WebTypeOK, FlowRecord
<1>6. (disciplined => Apart /\ Phase /\ SocketOwned)'
  BY OwnerAssumption, NullAssumption DEF WebInv, sockets, Restore, Idle, Quiet, Auth,
     client, stores, host, Installs, Apart, Phase, Tail, AtRest, SignedOut, InstalledKey,
     SocketOwned, FlowShape, WebTypeOK, FlowRecord, KeysOwned
<1> QED  BY <1>1, <1>2, <1>3, <1>4, <1>5, <1>6 DEF WebInv

\* RestoreLoaded preserves the invariant.
LEMMA RestoreLoadedKeeps ==
    ASSUME WebInv, RestoreLoaded PROVE WebInv'
<1>1. WebTypeOK'
  BY OwnerAssumption, NullAssumption DEF WebInv, sockets, RestoreLoaded, Ends, IdleFlow,
     Save, Go, host, Auth, Installs, WebTypeOK, FlowRecord, SessionRecord, DeviceKey,
     FlowShape, Tail
<1>2. FlowShape'
  BY DEF WebInv, sockets, RestoreLoaded, Ends, IdleFlow, Save, Go, host, Auth, Installs,
     WebTypeOK, FlowRecord, FlowShape, Tail, SessionRecord, DeviceKey
<1>3. RecordConsistent'
  BY DEF WebInv, sockets, RestoreLoaded, Ends, IdleFlow, Save, Go, host, Auth, Installs,
     RecordConsistent
<1>4. Heard'
  BY OwnerAssumption, NullAssumption DEF WebInv, sockets, RestoreLoaded, Ends, IdleFlow,
     Save, Go, host, Auth, Installs, Heard, Tail, FlowShape, WebTypeOK, FlowRecord
<1>5. KeysOwned'
  BY DEF WebInv, sockets, RestoreLoaded, Ends, IdleFlow, Save, Go, host, Auth, Installs,
     KeysOwned, WebTypeOK, FlowRecord
<1>6. (disciplined => Apart /\ Phase /\ SocketOwned)'
  BY OwnerAssumption, NullAssumption DEF WebInv, sockets, RestoreLoaded, Ends, IdleFlow,
     Save, Go, host, Auth, Installs, Idle, Apart, Phase, Tail, AtRest, SignedOut,
     InstalledKey, SocketOwned, FlowShape, WebTypeOK, FlowRecord, KeysOwned
<1> QED  BY <1>1, <1>2, <1>3, <1>4, <1>5, <1>6 DEF WebInv

\* HostSession preserves the invariant.
LEMMA HostSessionKeeps ==
    ASSUME WebInv, HostSession PROVE WebInv'
<1>1. WebTypeOK'
  BY OwnerAssumption, NullAssumption DEF WebInv, sockets, HostSession, Go, client, stores,
     host, Auth, Installs, WebTypeOK, FlowRecord, SessionRecord, DeviceKey, FlowShape, Tail
<1>2. FlowShape'
  BY DEF WebInv, sockets, HostSession, Go, client, stores, host, Auth, Installs, WebTypeOK,
     FlowRecord, FlowShape, Tail, SessionRecord, DeviceKey
<1>3. RecordConsistent'
  BY DEF WebInv, sockets, HostSession, Go, client, stores, host, Auth, Installs,
     RecordConsistent
<1>4. Heard'
  BY OwnerAssumption, NullAssumption DEF WebInv, sockets, HostSession, Go, client, stores,
     host, Auth, Installs, Heard, Tail, FlowShape, WebTypeOK, FlowRecord
<1>5. KeysOwned'
  BY DEF WebInv, sockets, HostSession, Go, client, stores, host, Auth, Installs, KeysOwned,
     WebTypeOK, FlowRecord
<1>6. (disciplined => Apart /\ Phase /\ SocketOwned)'
  BY OwnerAssumption, NullAssumption DEF WebInv, sockets, HostSession, Go, client, stores,
     host, Auth, Installs, Idle, Apart, Phase, Tail, AtRest, SignedOut, InstalledKey,
     SocketOwned, FlowShape, WebTypeOK, FlowRecord, KeysOwned
<1> QED  BY <1>1, <1>2, <1>3, <1>4, <1>5, <1>6 DEF WebInv

\* RestoreUnreachable preserves the invariant.
LEMMA RestoreUnreachableKeeps ==
    ASSUME WebInv, RestoreUnreachable PROVE WebInv'
<1>1. WebTypeOK'
  BY OwnerAssumption, NullAssumption DEF WebInv, sockets, RestoreUnreachable, Ends,
     IdleFlow, stores, host, Auth, Installs, WebTypeOK, FlowRecord, SessionRecord,
     DeviceKey, FlowShape, Tail
<1>2. FlowShape'
  BY DEF WebInv, sockets, RestoreUnreachable, Ends, IdleFlow, stores, host, Auth, Installs,
     WebTypeOK, FlowRecord, FlowShape, Tail, SessionRecord, DeviceKey
<1>3. RecordConsistent'
  BY DEF WebInv, sockets, RestoreUnreachable, Ends, IdleFlow, stores, host, Auth, Installs,
     RecordConsistent
<1>4. Heard'
  BY OwnerAssumption, NullAssumption DEF WebInv, sockets, RestoreUnreachable, Ends,
     IdleFlow, stores, host, Auth, Installs, Heard, Tail, FlowShape, WebTypeOK, FlowRecord
<1>5. KeysOwned'
  BY DEF WebInv, sockets, RestoreUnreachable, Ends, IdleFlow, stores, host, Auth, Installs,
     KeysOwned, WebTypeOK, FlowRecord
<1>6. (disciplined => Apart /\ Phase /\ SocketOwned)'
  BY OwnerAssumption, NullAssumption DEF WebInv, sockets, RestoreUnreachable, Ends,
     IdleFlow, stores, host, Auth, Installs, Idle, Apart, Phase, Tail, AtRest, SignedOut,
     InstalledKey, SocketOwned, FlowShape, WebTypeOK, FlowRecord, KeysOwned
<1> QED  BY <1>1, <1>2, <1>3, <1>4, <1>5, <1>6 DEF WebInv

\* RestoreDenied preserves the invariant.
LEMMA RestoreDeniedKeeps ==
    ASSUME WebInv, RestoreDenied PROVE WebInv'
<1>1. WebTypeOK'
  <2>1. CASE token # None
    <3>1. DropSession  BY <2>1 DEF RestoreDenied
    <3> QED
      BY <3>1, DropSessionTypes DEF WebInv, WebTypeOK, RestoreDenied, Ends, IdleFlow, host,
         Auth, FlowRecord
  <2>2. CASE token = None
    BY <2>2 DEF WebInv, WebTypeOK, RestoreDenied, client, sockets, stores, Ends, IdleFlow,
       host, Auth, FlowRecord
  <2> QED  BY <2>1, <2>2
<1>2. FlowShape'
  BY DEF WebInv, sockets, RestoreDenied, DropSession, DisconnectWs, LetGo, KeyAfterDrop,
     Save, client, stores, Ends, IdleFlow, host, Auth, Installs, WebTypeOK, FlowRecord,
     FlowShape, Tail, SessionRecord, DeviceKey
<1>3. RecordConsistent'
  BY DEF WebInv, sockets, RestoreDenied, DropSession, DisconnectWs, LetGo, KeyAfterDrop,
     Save, client, stores, Ends, IdleFlow, host, Auth, Installs, RecordConsistent
<1>4. Heard'
  BY OwnerAssumption, NullAssumption DEF WebInv, sockets, RestoreDenied, DropSession,
     DisconnectWs, LetGo, KeyAfterDrop, Save, client, stores, Ends, IdleFlow, host, Auth,
     Installs, Heard, Tail, FlowShape, WebTypeOK, FlowRecord
<1>5. KeysOwned'
  BY DEF WebInv, sockets, RestoreDenied, DropSession, DisconnectWs, LetGo, KeyAfterDrop,
     Save, client, stores, Ends, IdleFlow, host, Auth, Installs, KeysOwned, WebTypeOK,
     FlowRecord
<1>6. (disciplined => Apart /\ Phase /\ SocketOwned)'
  BY OwnerAssumption, NullAssumption DEF WebInv, sockets, RestoreDenied, DropSession,
     DisconnectWs, LetGo, KeyAfterDrop, Save, client, stores, Ends, IdleFlow, host, Auth,
     Installs, Idle, Apart, Phase, Tail, AtRest, SignedOut, InstalledKey, SocketOwned,
     FlowShape, WebTypeOK, FlowRecord, KeysOwned
<1> QED  BY <1>1, <1>2, <1>3, <1>4, <1>5, <1>6 DEF WebInv

\* RestoreGranted preserves the invariant.
LEMMA RestoreGrantedKeeps ==
    ASSUME WebInv, RestoreGranted PROVE WebInv'
<1>1. WebTypeOK'
  BY OwnerAssumption, NullAssumption DEF WebInv, sockets, RestoreGranted, MemberOf, Save,
     ValidatedToken, Go, host, Auth, Installs, WebTypeOK, FlowRecord, SessionRecord,
     DeviceKey, FlowShape, Tail
<1>2. FlowShape'
  BY OwnerAssumption, NullAssumption DEF WebInv, sockets, RestoreGranted, MemberOf, Save,
     ValidatedToken, Go, host, Auth, Installs, WebTypeOK, FlowRecord, FlowShape, Tail,
     SessionRecord, DeviceKey
<1>3. RecordConsistent'
  BY OwnerAssumption, NullAssumption DEF WebInv, sockets, RestoreGranted, MemberOf, Save,
     ValidatedToken, Go, host, Auth, Installs, RecordConsistent
<1>4. Heard'
  BY OwnerAssumption, NullAssumption DEF WebInv, sockets, RestoreGranted, MemberOf, Save,
     ValidatedToken, Go, host, Auth, Installs, Heard, Tail, FlowShape, WebTypeOK, FlowRecord
<1>5. KeysOwned'
  BY OwnerAssumption, NullAssumption DEF WebInv, sockets, RestoreGranted, MemberOf, Save,
     ValidatedToken, Go, host, Auth, Installs, KeysOwned, WebTypeOK, FlowRecord
<1>6. (disciplined => Apart /\ Phase /\ SocketOwned)'
  BY OwnerAssumption, NullAssumption DEF WebInv, sockets, RestoreGranted, MemberOf, Save,
     ValidatedToken, Go, host, Auth, Installs, Idle, Apart, Phase, Tail, AtRest, SignedOut,
     InstalledKey, SocketOwned, FlowShape, WebTypeOK, FlowRecord, KeysOwned
<1> QED  BY <1>1, <1>2, <1>3, <1>4, <1>5, <1>6 DEF WebInv

\* AfterSave preserves the invariant.
LEMMA AfterSaveKeeps ==
    ASSUME WebInv, NEW f \in Installs, AfterSave(f) PROVE WebInv'
<1>1. WebTypeOK'
  BY OwnerAssumption, NullAssumption DEF WebInv, sockets, AfterSave, Ends, IdleFlow, Go,
     client, stores, host, Auth, Installs, WebTypeOK, FlowRecord, SessionRecord, DeviceKey,
     FlowShape, Tail
<1>2. FlowShape'
  BY DEF WebInv, sockets, AfterSave, Ends, IdleFlow, Go, client, stores, host, Auth,
     Installs, WebTypeOK, FlowRecord, FlowShape, Tail, SessionRecord, DeviceKey
<1>3. RecordConsistent'
  BY DEF WebInv, sockets, AfterSave, Ends, IdleFlow, Go, client, stores, host, Auth,
     Installs, RecordConsistent
<1>4. Heard'
  BY OwnerAssumption, NullAssumption DEF WebInv, sockets, AfterSave, Ends, IdleFlow, Go,
     client, stores, host, Auth, Installs, Heard, Tail, FlowShape, WebTypeOK, FlowRecord
<1>5. KeysOwned'
  BY DEF WebInv, sockets, AfterSave, Ends, IdleFlow, Go, client, stores, host, Auth,
     Installs, KeysOwned, WebTypeOK, FlowRecord
<1>6. (disciplined => Apart /\ Phase /\ SocketOwned)'
  BY OwnerAssumption, NullAssumption DEF WebInv, sockets, AfterSave, Ends, IdleFlow, Go,
     client, stores, host, Auth, Installs, Idle, Apart, Phase, Tail, AtRest, SignedOut,
     InstalledKey, SocketOwned, FlowShape, WebTypeOK, FlowRecord, KeysOwned
<1> QED  BY <1>1, <1>2, <1>3, <1>4, <1>5, <1>6 DEF WebInv

\* ResolveDeviceEncryptKey preserves the invariant.
LEMMA ResolveDeviceEncryptKeyKeeps ==
    ASSUME WebInv, NEW f \in Installs, ResolveDeviceEncryptKey(f) PROVE WebInv'
<1>a. flow[f].who \in WebMembers
  BY DEF WebInv, sockets, FlowShape, ResolveDeviceEncryptKey
<1>b. made < MaxKeys => [owner |-> flow[f].who, n |-> made + 1] \in DeviceKey
  BY <1>a, KeysAssumption DEF WebInv, sockets, WebTypeOK, DeviceKey
<1>1. WebTypeOK'
  <2>3. flow' \in [Auth -> FlowRecord]
    BY <1>b DEF WebInv, sockets, WebTypeOK, ResolveDeviceEncryptKey, ToFinish, Auth,
       Installs, FlowRecord
  <2>4. devKeys' \in [WebMembers -> DeviceKey \cup {None}] /\ made' \in 0..MaxKeys
    BY <1>a, <1>b, KeysAssumption DEF WebInv, sockets, WebTypeOK, ResolveDeviceEncryptKey
  <2>5. key' \in DeviceKey \cup {None}
    BY DEF WebInv, sockets, WebTypeOK, ResolveDeviceEncryptKey, KeyWhenUnsaved, FlowRecord,
       Auth, Installs
  <2> QED
    BY <2>3, <2>4, <2>5 DEF WebInv, sockets, WebTypeOK, ResolveDeviceEncryptKey, host,
       FlowRecord
<1>2. FlowShape'
  BY <1>a, <1>b DEF WebInv, sockets, ResolveDeviceEncryptKey, ToFinish, KeyWhenUnsaved,
     host, Auth, Installs, WebTypeOK, FlowRecord, FlowShape, Tail, SessionRecord
<1>3. RecordConsistent'
  BY DEF WebInv, sockets, ResolveDeviceEncryptKey, ToFinish, KeyWhenUnsaved, host, Auth,
     Installs, RecordConsistent
<1>4. Heard'
  BY OwnerAssumption, NullAssumption DEF WebInv, sockets, ResolveDeviceEncryptKey, ToFinish,
     KeyWhenUnsaved, host, Auth, Installs, Heard, Tail, FlowShape, WebTypeOK, FlowRecord
<1>5. KeysOwned'
  BY DEF WebInv, sockets, ResolveDeviceEncryptKey, ToFinish, KeyWhenUnsaved, host, Auth,
     Installs, KeysOwned, WebTypeOK, FlowRecord
<1>6. (disciplined => Apart /\ Phase /\ SocketOwned)'
  BY OwnerAssumption, NullAssumption DEF WebInv, sockets, ResolveDeviceEncryptKey, ToFinish,
     KeyWhenUnsaved, host, Auth, Installs, Idle, Apart, Phase, Tail, AtRest, SignedOut,
     InstalledKey, SocketOwned, FlowShape, WebTypeOK, FlowRecord, KeysOwned
<1> QED  BY <1>1, <1>2, <1>3, <1>4, <1>5, <1>6 DEF WebInv

\* KeySaved preserves the invariant.
LEMMA KeySavedKeeps ==
    ASSUME WebInv, NEW f \in Installs, KeySaved(f) PROVE WebInv'
<1>1. WebTypeOK'
  BY OwnerAssumption, NullAssumption DEF WebInv, sockets, KeySaved, ToFinish, stores, host,
     Auth, Installs, WebTypeOK, FlowRecord, SessionRecord, DeviceKey, FlowShape, Tail
<1>2. FlowShape'
  BY DEF WebInv, sockets, KeySaved, ToFinish, stores, host, Auth, Installs, WebTypeOK,
     FlowRecord, FlowShape, Tail, SessionRecord, DeviceKey
<1>3. RecordConsistent'
  BY DEF WebInv, sockets, KeySaved, ToFinish, stores, host, Auth, Installs, RecordConsistent
<1>4. Heard'
  BY OwnerAssumption, NullAssumption DEF WebInv, sockets, KeySaved, ToFinish, stores, host,
     Auth, Installs, Heard, Tail, FlowShape, WebTypeOK, FlowRecord
<1>5. KeysOwned'
  BY DEF WebInv, sockets, KeySaved, ToFinish, stores, host, Auth, Installs, KeysOwned,
     WebTypeOK, FlowRecord
<1>6. (disciplined => Apart /\ Phase /\ SocketOwned)'
  BY OwnerAssumption, NullAssumption DEF WebInv, sockets, KeySaved, ToFinish, stores, host,
     Auth, Installs, Idle, Apart, Phase, Tail, AtRest, SignedOut, InstalledKey, SocketOwned,
     FlowShape, WebTypeOK, FlowRecord, KeysOwned
<1> QED  BY <1>1, <1>2, <1>3, <1>4, <1>5, <1>6 DEF WebInv

\* FinishInstall preserves the invariant.
LEMMA FinishInstallKeeps ==
    ASSUME WebInv, NEW f \in Installs, FinishInstall(f) PROVE WebInv'
<1>1. WebTypeOK'
  <2>1. ws' \in Sessions \cup {None, NoWs} /\ loose' = loose
    BY DEF WebInv, WebTypeOK, FinishInstall, ConnectWs
  <2>2. early' \in BOOLEAN
    <3>1. CASE ws = NoWs
      <4>1. early' = (member = None)  BY <3>1 DEF FinishInstall, ConnectWs
      <4> QED  BY <4>1
    <3>2. CASE ws # NoWs
      <4>1. early' = early  BY <3>2 DEF FinishInstall, ConnectWs
      <4> QED  BY <4>1 DEF WebInv, WebTypeOK
    <3> QED  BY <3>1, <3>2
  <2>3. flow' \in [Auth -> FlowRecord]
    BY DEF WebInv, WebTypeOK, FinishInstall, Ends, IdleFlow, FlowRecord
  <2> QED
    BY <2>1, <2>2, <2>3 DEF WebInv, WebTypeOK, FinishInstall, Announced, stores, host
<1>2. FlowShape'
  BY DEF WebInv, sockets, FinishInstall, ConnectWs, Announced, Ends, IdleFlow, stores, host,
     Auth, Installs, WebTypeOK, FlowRecord, FlowShape, Tail, SessionRecord, DeviceKey
<1>3. RecordConsistent'
  BY DEF WebInv, sockets, FinishInstall, ConnectWs, Announced, Ends, IdleFlow, stores, host,
     Auth, Installs, RecordConsistent
<1>4. Heard'
  BY OwnerAssumption, NullAssumption DEF WebInv, sockets, FinishInstall, ConnectWs,
     Announced, Ends, IdleFlow, stores, host, Auth, Installs, Heard, Tail, FlowShape,
     WebTypeOK, FlowRecord
<1>5. KeysOwned'
  BY DEF WebInv, sockets, FinishInstall, ConnectWs, Announced, Ends, IdleFlow, stores, host,
     Auth, Installs, KeysOwned, WebTypeOK, FlowRecord
<1>6. (disciplined => Apart /\ Phase /\ SocketOwned)'
  BY OwnerAssumption, NullAssumption DEF WebInv, sockets, FinishInstall, ConnectWs,
     Announced, Ends, IdleFlow, stores, host, Auth, Installs, Idle, Apart, Phase, Tail,
     AtRest, SignedOut, InstalledKey, SocketOwned, FlowShape, WebTypeOK, FlowRecord,
     KeysOwned
<1> QED  BY <1>1, <1>2, <1>3, <1>4, <1>5, <1>6 DEF WebInv

\* Logout preserves the invariant.
LEMMA LogoutKeeps ==
    ASSUME WebInv, Logout PROVE WebInv'
<1>1. WebTypeOK'
  <2>1. flow' \in [Auth -> FlowRecord]
    BY DEF WebInv, WebTypeOK, Logout, Auth, FlowRecord
  <2> QED
    BY <2>1, DropSessionTypes DEF WebInv, WebTypeOK, Logout, host
<1>2. FlowShape'
  BY DEF WebInv, sockets, Logout, Idle, Installs, DropSession, DisconnectWs, LetGo,
     KeyAfterDrop, Save, host, Auth, WebTypeOK, FlowRecord, FlowShape, Tail, SessionRecord,
     DeviceKey
<1>3. RecordConsistent'
  BY DEF WebInv, sockets, Logout, Idle, Installs, DropSession, DisconnectWs, LetGo,
     KeyAfterDrop, Save, host, Auth, RecordConsistent
<1>4. Heard'
  BY OwnerAssumption, NullAssumption DEF WebInv, sockets, Logout, Idle, Installs,
     DropSession, DisconnectWs, LetGo, KeyAfterDrop, Save, host, Auth, Heard, Tail,
     FlowShape, WebTypeOK, FlowRecord
<1>5. KeysOwned'
  BY DEF WebInv, sockets, Logout, Idle, Installs, DropSession, DisconnectWs, LetGo,
     KeyAfterDrop, Save, host, Auth, KeysOwned, WebTypeOK, FlowRecord
<1>6. (disciplined => Apart /\ Phase /\ SocketOwned)'
  BY OwnerAssumption, NullAssumption DEF WebInv, sockets, Logout, Idle, Installs,
     DropSession, DisconnectWs, LetGo, KeyAfterDrop, Save, host, Auth, Apart, Phase, Tail,
     AtRest, SignedOut, InstalledKey, SocketOwned, FlowShape, WebTypeOK, FlowRecord,
     KeysOwned
<1> QED  BY <1>1, <1>2, <1>3, <1>4, <1>5, <1>6 DEF WebInv

\* LogoutTold preserves the invariant.
LEMMA LogoutToldKeeps ==
    ASSUME WebInv, LogoutTold PROVE WebInv'
<1>1. WebTypeOK'
  BY OwnerAssumption, NullAssumption DEF WebInv, sockets, LogoutTold, Ends, IdleFlow,
     client, stores, Auth, Installs, WebTypeOK, FlowRecord, SessionRecord, DeviceKey,
     FlowShape, Tail
<1>2. FlowShape'
  BY DEF WebInv, sockets, LogoutTold, Ends, IdleFlow, client, stores, Auth, Installs,
     WebTypeOK, FlowRecord, FlowShape, Tail, SessionRecord, DeviceKey
<1>3. RecordConsistent'
  BY DEF WebInv, sockets, LogoutTold, Ends, IdleFlow, client, stores, Auth, Installs,
     RecordConsistent
<1>4. Heard'
  BY OwnerAssumption, NullAssumption DEF WebInv, sockets, LogoutTold, Ends, IdleFlow,
     client, stores, Auth, Installs, Heard, Tail, FlowShape, WebTypeOK, FlowRecord
<1>5. KeysOwned'
  BY DEF WebInv, sockets, LogoutTold, Ends, IdleFlow, client, stores, Auth, Installs,
     KeysOwned, WebTypeOK, FlowRecord
<1>6. (disciplined => Apart /\ Phase /\ SocketOwned)'
  BY OwnerAssumption, NullAssumption DEF WebInv, sockets, LogoutTold, Ends, IdleFlow,
     client, stores, Auth, Installs, Idle, Apart, Phase, Tail, AtRest, SignedOut,
     InstalledKey, SocketOwned, FlowShape, WebTypeOK, FlowRecord, KeysOwned
<1> QED  BY <1>1, <1>2, <1>3, <1>4, <1>5, <1>6 DEF WebInv

\* Request preserves the invariant.
LEMMA RequestKeeps ==
    ASSUME WebInv, Request PROVE WebInv'
<1>1. WebTypeOK'
  BY OwnerAssumption, NullAssumption DEF WebInv, sockets, Request, Auth, Idle, client,
     stores, host, Installs, WebTypeOK, FlowRecord, SessionRecord, DeviceKey, FlowShape,
     Tail
<1>2. FlowShape'
  BY DEF WebInv, sockets, Request, Auth, Idle, client, stores, host, Installs, WebTypeOK,
     FlowRecord, FlowShape, Tail, SessionRecord, DeviceKey
<1>3. RecordConsistent'
  BY DEF WebInv, sockets, Request, Auth, Idle, client, stores, host, Installs,
     RecordConsistent
<1>4. Heard'
  BY OwnerAssumption, NullAssumption DEF WebInv, sockets, Request, Auth, Idle, client,
     stores, host, Installs, Heard, Tail, FlowShape, WebTypeOK, FlowRecord
<1>5. KeysOwned'
  BY DEF WebInv, sockets, Request, Auth, Idle, client, stores, host, Installs, KeysOwned,
     WebTypeOK, FlowRecord
<1>6. (disciplined => Apart /\ Phase /\ SocketOwned)'
  BY OwnerAssumption, NullAssumption DEF WebInv, sockets, Request, Auth, Idle, client,
     stores, host, Installs, Apart, Phase, Tail, AtRest, SignedOut, InstalledKey,
     SocketOwned, FlowShape, WebTypeOK, FlowRecord, KeysOwned
<1> QED  BY <1>1, <1>2, <1>3, <1>4, <1>5, <1>6 DEF WebInv

\* HostRequest preserves the invariant.
LEMMA HostRequestKeeps ==
    ASSUME WebInv, HostRequest PROVE WebInv'
<1>1. WebTypeOK'
  BY OwnerAssumption, NullAssumption DEF WebInv, sockets, HostRequest, IdleReq, client,
     stores, host, Auth, Installs, WebTypeOK, FlowRecord, SessionRecord, DeviceKey,
     FlowShape, Tail
<1>2. FlowShape'
  BY DEF WebInv, sockets, HostRequest, IdleReq, client, stores, host, Auth, Installs,
     WebTypeOK, FlowRecord, FlowShape, Tail, SessionRecord, DeviceKey
<1>3. RecordConsistent'
  BY DEF WebInv, sockets, HostRequest, IdleReq, client, stores, host, Auth, Installs,
     RecordConsistent
<1>4. Heard'
  BY OwnerAssumption, NullAssumption DEF WebInv, sockets, HostRequest, IdleReq, client,
     stores, host, Auth, Installs, Heard, Tail, FlowShape, WebTypeOK, FlowRecord
<1>5. KeysOwned'
  BY DEF WebInv, sockets, HostRequest, IdleReq, client, stores, host, Auth, Installs,
     KeysOwned, WebTypeOK, FlowRecord
<1>6. (disciplined => Apart /\ Phase /\ SocketOwned)'
  BY OwnerAssumption, NullAssumption DEF WebInv, sockets, HostRequest, IdleReq, client,
     stores, host, Auth, Installs, Idle, Apart, Phase, Tail, AtRest, SignedOut,
     InstalledKey, SocketOwned, FlowShape, WebTypeOK, FlowRecord, KeysOwned
<1> QED  BY <1>1, <1>2, <1>3, <1>4, <1>5, <1>6 DEF WebInv

\* Unauthorized preserves the invariant.
LEMMA UnauthorizedKeeps ==
    ASSUME WebInv, Unauthorized PROVE WebInv'
<1>1. WebTypeOK'
  <2>1. CASE token # None
    <3>1. DropSession  BY <2>1 DEF Unauthorized
    <3> QED
      BY <3>1, DropSessionTypes DEF WebInv, WebTypeOK, Unauthorized, IdleReq, host, Auth,
         FlowRecord
  <2>2. CASE token = None
    BY <2>2 DEF WebInv, WebTypeOK, Unauthorized, client, sockets, stores, IdleReq, host,
       Auth, FlowRecord
  <2> QED  BY <2>1, <2>2
<1>2. FlowShape'
  BY DEF WebInv, sockets, Unauthorized, DropSession, DisconnectWs, LetGo, KeyAfterDrop,
     Save, client, stores, IdleReq, host, Auth, Installs, WebTypeOK, FlowRecord, FlowShape,
     Tail, SessionRecord, DeviceKey
<1>3. RecordConsistent'
  BY DEF WebInv, sockets, Unauthorized, DropSession, DisconnectWs, LetGo, KeyAfterDrop,
     Save, client, stores, IdleReq, host, Auth, Installs, RecordConsistent
<1>4. Heard'
  BY OwnerAssumption, NullAssumption DEF WebInv, sockets, Unauthorized, DropSession,
     DisconnectWs, LetGo, KeyAfterDrop, Save, client, stores, IdleReq, host, Auth, Installs,
     Heard, Tail, FlowShape, WebTypeOK, FlowRecord
<1>5. KeysOwned'
  BY DEF WebInv, sockets, Unauthorized, DropSession, DisconnectWs, LetGo, KeyAfterDrop,
     Save, client, stores, IdleReq, host, Auth, Installs, KeysOwned, WebTypeOK, FlowRecord
<1>6. (disciplined => Apart /\ Phase /\ SocketOwned)'
  BY OwnerAssumption, NullAssumption DEF WebInv, sockets, Unauthorized, DropSession,
     DisconnectWs, LetGo, KeyAfterDrop, Save, client, stores, IdleReq, host, Auth, Installs,
     Idle, Apart, Phase, Tail, AtRest, SignedOut, InstalledKey, SocketOwned, FlowShape,
     WebTypeOK, FlowRecord, KeysOwned
<1> QED  BY <1>1, <1>2, <1>3, <1>4, <1>5, <1>6 DEF WebInv

\* HostRevokes preserves the invariant.
LEMMA HostRevokesKeeps ==
    ASSUME WebInv, HostRevokes PROVE WebInv'
<1>1. WebTypeOK'
  BY OwnerAssumption, NullAssumption DEF WebInv, sockets, HostRevokes, client, stores, Auth,
     Installs, WebTypeOK, FlowRecord, SessionRecord, DeviceKey, FlowShape, Tail
<1>2. FlowShape'
  BY DEF WebInv, sockets, HostRevokes, client, stores, Auth, Installs, WebTypeOK,
     FlowRecord, FlowShape, Tail, SessionRecord, DeviceKey
<1>3. RecordConsistent'
  BY DEF WebInv, sockets, HostRevokes, client, stores, Auth, Installs, RecordConsistent
<1>4. Heard'
  BY OwnerAssumption, NullAssumption DEF WebInv, sockets, HostRevokes, client, stores, Auth,
     Installs, Heard, Tail, FlowShape, WebTypeOK, FlowRecord
<1>5. KeysOwned'
  BY DEF WebInv, sockets, HostRevokes, client, stores, Auth, Installs, KeysOwned, WebTypeOK,
     FlowRecord
<1>6. (disciplined => Apart /\ Phase /\ SocketOwned)'
  BY OwnerAssumption, NullAssumption DEF WebInv, sockets, HostRevokes, client, stores, Auth,
     Installs, Idle, Apart, Phase, Tail, AtRest, SignedOut, InstalledKey, SocketOwned,
     FlowShape, WebTypeOK, FlowRecord, KeysOwned
<1> QED  BY <1>1, <1>2, <1>3, <1>4, <1>5, <1>6 DEF WebInv

\* Reload preserves the invariant.
LEMMA ReloadKeeps ==
    ASSUME WebInv, Reload PROVE WebInv'
<1>1. WebTypeOK'
  BY OwnerAssumption, NullAssumption DEF WebInv, sockets, Reload, Auth, IdleFlow, IdleReq,
     stores, host, Installs, WebTypeOK, FlowRecord, SessionRecord, DeviceKey, FlowShape,
     Tail
<1>2. FlowShape'
  BY OwnerAssumption, NullAssumption DEF WebInv, sockets, Reload, Auth, IdleFlow, IdleReq,
     stores, host, Installs, WebTypeOK, FlowRecord, FlowShape, Tail, SessionRecord,
     DeviceKey
<1>3. RecordConsistent'
  BY OwnerAssumption, NullAssumption DEF WebInv, sockets, Reload, Auth, IdleFlow, IdleReq,
     stores, host, Installs, RecordConsistent
<1>4. Heard'
  BY OwnerAssumption, NullAssumption DEF WebInv, sockets, Reload, Auth, IdleFlow, IdleReq,
     stores, host, Installs, Heard, Tail, FlowShape, WebTypeOK, FlowRecord
<1>5. KeysOwned'
  BY OwnerAssumption, NullAssumption DEF WebInv, sockets, Reload, Auth, IdleFlow, IdleReq,
     stores, host, Installs, KeysOwned, WebTypeOK, FlowRecord
<1>6. (disciplined => Apart /\ Phase /\ SocketOwned)'
  BY OwnerAssumption, NullAssumption DEF WebInv, sockets, Reload, Auth, IdleFlow, IdleReq,
     stores, host, Installs, Idle, Apart, Phase, Tail, AtRest, SignedOut, InstalledKey,
     SocketOwned, FlowShape, WebTypeOK, FlowRecord, KeysOwned
<1> QED  BY <1>1, <1>2, <1>3, <1>4, <1>5, <1>6 DEF WebInv

\* OnClose preserves the invariant: the client has no socket then.
LEMMA OnCloseKeeps ==
    ASSUME WebInv, OnClose PROVE WebInv'
<1>1. WebTypeOK'
  <2>1. loose \in Nat /\ timer \in BOOLEAN /\ strays \in Nat
    BY DEF WebInv, WebTypeOK
  <2>2. loose' \in Nat
    BY <2>1 DEF OnClose
  <2>3. timer' \in BOOLEAN /\ strays' \in {strays, strays + 1}
    <3>1. CASE token = None  BY <2>1, <3>1 DEF OnClose
    <3>2. CASE token # None  BY <3>2 DEF OnClose
    <3> QED  BY <3>1, <3>2
  <2>4. strays' \in Nat
    BY <2>1, <2>3
  <2> QED
    BY <2>2, <2>3, <2>4 DEF WebInv, WebTypeOK, OnClose, stores, host
<1>2. FlowShape' /\ Heard' /\ KeysOwned' /\ RecordConsistent'
  BY DEF WebInv, OnClose, stores, FlowShape, Heard, KeysOwned, RecordConsistent
<1>3. (disciplined => Apart /\ Phase /\ SocketOwned)'
  BY DEF WebInv, OnClose, stores, Apart, Phase, AtRest, Idle, SignedOut, InstalledKey,
     SocketOwned
<1> QED  BY <1>1, <1>2, <1>3 DEF WebInv

\* TimerFires preserves the invariant: it opens a socket of the session, or an early one.
LEMMA TimerFiresKeeps ==
    ASSUME WebInv, TimerFires PROVE WebInv'
<1>1. WebTypeOK'
  <2>1. timer \in BOOLEAN /\ strays \in Nat
    BY DEF WebInv, WebTypeOK
  <2>2. timer' \in {timer, FALSE} /\ (strays' = strays \/ (strays > 0 /\ strays' = strays - 1))
    BY DEF TimerFires
  <2>3. timer' \in BOOLEAN
    BY <2>1, <2>2
  <2>4. strays' \in Nat
    BY <2>1, <2>2
  <2> QED
    BY <2>3, <2>4 DEF WebInv, WebTypeOK, TimerFires, ConnectWs, stores, host
<1>2. FlowShape' /\ Heard' /\ KeysOwned' /\ RecordConsistent'
  BY DEF WebInv, TimerFires, stores, FlowShape, Heard, KeysOwned, RecordConsistent
<1>3. (disciplined => Apart /\ Phase)'
  BY DEF WebInv, TimerFires, stores, Apart, Phase, AtRest, Idle, SignedOut, InstalledKey
<1>4. (disciplined => SocketOwned)'
  BY DEF WebInv, TimerFires, ConnectWs, WebTypeOK, SocketOwned
<1> QED  BY <1>1, <1>2, <1>3, <1>4 DEF WebInv

\* A step that changes nothing preserves it.
LEMMA StutterKeepsWeb == ASSUME WebInv, UNCHANGED webVars PROVE WebInv'
  BY DEF WebInv, sockets, webVars, client, stores, host, WebTypeOK, FlowShape,
     RecordConsistent, Heard, KeysOwned, Apart, Phase, Tail, AtRest, SignedOut,
     InstalledKey, SocketOwned, Idle

-----------------------------------------------------------------------------
(* The theorems *)

\* WebInv holds in every reachable state of the client, its stores and the host.
THEOREM WebInvariant == WebSpec => []WebInv
<1>1. ASSUME WebInit PROVE WebInv
  <2>1. flow \in [Auth -> FlowRecord] /\ \A f \in Auth : flow[f] = IdleFlow
    BY <1>1 DEF WebInit, FlowRecord, IdleFlow
  <2>2. WebTypeOK
    <3>1. made \in 0..MaxKeys  BY <1>1, KeysAssumption DEF WebInit
    <3>2. devKeys \in [WebMembers -> DeviceKey \cup {None}]  BY <1>1 DEF WebInit
    <3>3. /\ ws \in Sessions \cup {None, NoWs} /\ early \in BOOLEAN
          /\ loose \in Nat /\ timer \in BOOLEAN /\ strays \in Nat
      BY <1>1 DEF WebInit
    <3>4. req \in [pc: {"idle", "sent", "denied"}, tok: Sessions \cup {None}]
      BY <1>1 DEF WebInit, IdleReq
    <3>5. /\ token \in Sessions \cup {None}
          /\ member \in WebMembers \cup {None} /\ view \in WebMembers \cup {None}
          /\ key \in DeviceKey \cup {None} /\ stored \in SessionRecord \cup {None}
          /\ live \subseteq minted /\ minted \subseteq Sessions
      BY <1>1 DEF WebInit
    <3>6. disciplined \in BOOLEAN  BY <1>1 DEF WebInit
    <3> QED  BY <2>1, <3>1, <3>2, <3>3, <3>4, <3>5, <3>6 DEF WebTypeOK
  <2>3. FlowShape /\ RecordConsistent /\ Heard /\ KeysOwned
    BY <1>1, <2>1 DEF WebInit, FlowShape, RecordConsistent, Heard, KeysOwned, IdleFlow,
       Auth, Installs, Tail
  <2>4. Apart /\ Phase /\ SocketOwned
    BY <1>1, <2>1 DEF WebInit, Apart, Phase, SocketOwned, Tail, AtRest, SignedOut, Idle,
       IdleFlow, IdleReq, Auth, Installs
  <2> QED  BY <2>2, <2>3, <2>4 DEF WebInv
<1>2. WebInv /\ [WebNext]_webVars => WebInv'
  BY LoginKeeps, HostLoginKeeps, InstallSessionKeeps, RestoreKeeps, RestoreLoadedKeeps,
     HostSessionKeeps, RestoreUnreachableKeeps, RestoreDeniedKeeps, RestoreGrantedKeeps,
     AfterSaveKeeps, ResolveDeviceEncryptKeyKeeps, KeySavedKeeps, FinishInstallKeeps,
     LogoutKeeps, LogoutToldKeeps, RequestKeeps, HostRequestKeeps, UnauthorizedKeeps,
     HostRevokesKeeps, ReloadKeeps, OnCloseKeeps, TimerFiresKeeps, StutterKeepsWeb
     DEF WebNext
<1> QED  BY <1>1, <1>2, PTL DEF WebSpec

\* Every variable keeps its type: a flow never leaves its phases, a stored record is a
\* whole record.
THEOREM WebTypeCorrect == WebSpec => []WebTypeOK
<1>1. WebInv => WebTypeOK  BY DEF WebInv
<1> QED  BY <1>1, WebInvariant, PTL

\* The record a reload restores from never mixes two sessions (installSession,
\* restoreSessionNow), however the calls overlap.
THEOREM RecordIsConsistent == WebSpec => []RecordConsistent
<1>1. WebInv => RecordConsistent  BY DEF WebInv
<1> QED  BY <1>1, WebInvariant, PTL

\* Once no install is under way the listeners have heard the member the client holds.
THEOREM ListenersAreCurrent == WebSpec => []ListenersCurrent
<1>1. WebInv => ListenersCurrent
  BY DEF WebInv, sockets, ListenersCurrent, Heard, AtRest, Idle, Tail, Installs
<1> QED  BY <1>1, WebInvariant, PTL

\* With auth calls kept apart, token, member and key belong to one session, and so does the
\* socket unless a timer opened it with nobody signed in (connectWs, onclose, disconnectWs).
THEOREM SessionIsCoherent == WebSpec => []SessionCoherent
<1>1. WebInv => SessionCoherent
  BY OwnerAssumption, NullAssumption
     DEF WebInv, SessionCoherent, Phase, AtRest, SignedOut, InstalledKey, SocketOwned
<1> QED  BY <1>1, WebInvariant, PTL

\* With auth calls kept apart, the installed device key is the stored one.
THEOREM KeyInstalledIsStored == WebSpec => []InstalledKeyIsStored
<1>1. ASSUME WebInv, disciplined, key # None PROVE devKeys[key.owner] = key
  <2>1. CASE AtRest
    BY <1>1, <2>1 DEF WebInv, Phase, SignedOut, InstalledKey
  <2>2. CASE ~AtRest
    <3>1. PICK f \in Installs : flow[f].pc = "finish"
      BY <1>1, <2>2 DEF WebInv, Phase, SignedOut, AtRest, Idle, FlowShape, Tail, Installs
    <3> QED  BY <1>1, <3>1 DEF WebInv, Phase, InstalledKey, Tail
  <2> QED  BY <2>1, <2>2
<1>2. WebInv => InstalledKeyIsStored  BY <1>1 DEF InstalledKeyIsStored
<1> QED  BY <1>2, WebInvariant, PTL
=============================================================================
