----------------------------- MODULE WebSession -----------------------------
(***************************************************************************)
(* The session of the browser client: amp-web/src/web-client.ts with its   *)
(* session store and its device key store.  JavaScript runs one stretch of *)
(* code between two awaits without interruption, so a step is one such     *)
(* stretch, and everything else may happen at an await.                    *)
(*                                                                         *)
(* A session is identified by its Bearer token; Owner[s] is the member the *)
(* host binds to it.  Store operations take effect when they are called    *)
(* (the stores process them in order) or fail, and resolve later.  The     *)
(* WebSocket is represented by the token it was opened with; the browser   *)
(* has WebSockets and the vault is one connectWs agrees to.  A socket may  *)
(* report its close at any time, also after the client has let go of it.   *)
(***************************************************************************)
EXTENDS Naturals

CONSTANTS
    Sessions,       \* tokens the host may mint
    WebMembers,
    Owner,          \* the member of a session
    None,           \* null
    NoWs,           \* no WebSocket (None is a socket opened with an empty token)
    MaxKeys,        \* bound on generated device keys
    MaxSocks        \* bound on sockets let go of that have yet to report, and on strays

ASSUME OwnerAssumption == Owner \in [Sessions -> WebMembers]
ASSUME NullAssumption  == None \notin Sessions /\ None \notin WebMembers
ASSUME KeysAssumption  == MaxKeys \in Nat
ASSUME SocksAssumption == MaxSocks \in Nat

VARIABLES
    token, member, key,         \* sessionToken, member, installed EncryptKey
    ws, loose,                  \* ws; sockets the client has let go of, their close unreported
    timer, strays,              \* wsReconnectTimer pending; pending timers it no longer names
    early,                      \* history: a timer opened ws with nobody signed in
    view,                       \* what the auth listeners heard last
    stored, devKeys, made,      \* session store, key store, device keys generated
    live, minted,               \* host: sessions in force, sessions ever issued
    flow,                       \* the auth calls under way
    req,                        \* one API request under way
    disciplined                 \* the app keeps to Quiet below

sockets == <<ws, loose, timer, strays, early>>
client == <<token, member, key, sockets, view>>
stores == <<stored, devKeys, made>>
host   == <<live, minted>>
webVars   == <<client, stores, host, flow, req, disciplined>>

Auth      == {"login", "restore", "logout"}
Installs  == {"login", "restore"}
DeviceKey == [owner: WebMembers, n: 1..MaxKeys]
SessionRecord    == [token: Sessions, member: WebMembers]
IdleFlow  == [pc |-> "idle", sess |-> None, key |-> None, who |-> None]
IdleReq   == [pc |-> "idle", tok |-> None]

FlowRecord == [pc: {"idle", "loading", "asked", "granted", "denied", "saving", "keying",
                    "keysaved", "finish", "clearing"},
               sess: Sessions \cup {None}, key: DeviceKey \cup {None},
               who: WebMembers \cup {None}]

WebTypeOK ==
    /\ token \in Sessions \cup {None}
    /\ member \in WebMembers \cup {None} /\ view \in WebMembers \cup {None}
    /\ key \in DeviceKey \cup {None}
    /\ ws \in Sessions \cup {None, NoWs} /\ early \in BOOLEAN
    /\ loose \in Nat /\ timer \in BOOLEAN /\ strays \in Nat
    /\ stored \in SessionRecord \cup {None}
    /\ devKeys \in [WebMembers -> DeviceKey \cup {None}]
    /\ made \in 0..MaxKeys
    /\ live \subseteq minted /\ minted \subseteq Sessions
    /\ flow \in [Auth -> FlowRecord]
    /\ req \in [pc: {"idle", "sent", "denied"}, tok: Sessions \cup {None}]
    /\ disciplined \in BOOLEAN

WebInit ==
    /\ token = None /\ member = None /\ key = None /\ view = None
    /\ ws = NoWs /\ loose = 0 /\ timer = FALSE /\ strays = 0 /\ early = FALSE
    /\ stored = None /\ devKeys = [m \in WebMembers |-> None] /\ made = 0
    /\ live = {} /\ minted = {}
    /\ flow = [f \in Auth |-> IdleFlow]
    /\ req = IdleReq
    /\ disciplined \in BOOLEAN

Idle(f) == flow[f].pc = "idle"
Go(f, pc) == flow' = [flow EXCEPT ![f].pc = pc]
ToFinish(f) == flow' = [flow EXCEPT ![f].pc = "finish", ![f].key = None, ![f].who = None]
Ends(f) == flow' = [flow EXCEPT ![f] = IdleFlow]

(* An app with the spinner gate of useAmpAuth: auth calls do not overlap,   *)
(* nothing is outstanding when one signs in, and nobody signs in twice.     *)
Quiet == /\ \A f \in Auth : Idle(f)
         /\ req.pc = "idle"
         /\ member = None

(* sessionStore.save and clear: done, or failed and swallowed. *)
Save(rec) == stored' \in {rec, stored}

---------------------------------------------------------------------------
(* The socket *)

(* connectWs keeps a socket that exists; without a token it sends an empty one. *)
ConnectWs ==
    IF ws # NoWs THEN UNCHANGED <<ws, loose, early>>
    ELSE ws' = token /\ early' = (member = None) /\ UNCHANGED loose

(* The client lets go of its socket, which reports its close some time      *)
(* later; one too many for the bound reports it at once.                    *)
LetGo == /\ ws' = NoWs /\ early' = FALSE
         /\ loose' = IF ws # NoWs /\ loose < MaxSocks THEN loose + 1 ELSE loose

(* Mutant of DisconnectWs: the socket is closed but still referred to. *)
StillReferred == UNCHANGED <<ws, loose, early>> /\ timer' = FALSE /\ UNCHANGED strays

(* disconnectWs: the named timer and the socket go. *)
DisconnectWs == LetGo /\ timer' = FALSE /\ UNCHANGED strays

(* onclose: of the client's socket, cut by the network or the host, or of   *)
(* one it let go of; the reference is cleared whichever it was.  An onerror *)
(* before it closes whatever is referred to, which will report it in turn.  *)
(* setTimeout(connectWs, 3000) forgets the handle of an earlier timer.      *)
OnClose ==
    /\ \/ ws # NoWs /\ UNCHANGED loose
       \/ loose > 0 /\ loose' = IF ws = NoWs THEN loose - 1 ELSE loose
    /\ ws' = NoWs /\ early' = FALSE
    /\ IF token = None THEN UNCHANGED <<timer, strays>>
       ELSE /\ timer' = TRUE
            /\ timer => strays < MaxSocks
            /\ strays' = IF timer THEN strays + 1 ELSE strays
    /\ UNCHANGED <<token, member, key, view, stores, host, flow, req, disciplined>>

TimerFires ==
    /\ \/ timer /\ timer' = FALSE /\ UNCHANGED strays
       \/ strays > 0 /\ strays' = strays - 1 /\ UNCHANGED timer
    /\ ConnectWs
    /\ UNCHANGED <<token, member, key, view, stores, host, flow, req, disciplined>>

---------------------------------------------------------------------------
(* Mutant of KeyAfterDrop: setEncryptKey(null) is forgotten. *)
KeyStaysInstalled == key

KeyAfterDrop == None

(* dropSession: memory at once, then the record, then the listeners. *)
DropSession ==
    /\ token' = None /\ member' = None /\ key' = KeyAfterDrop
    /\ DisconnectWs
    /\ Save(None)
    /\ view' = None
    /\ UNCHANGED <<devKeys, made>>

---------------------------------------------------------------------------
(* login, redeemEmail and claimAccount: POST, then installSession. *)
Login ==
    /\ Idle("login")
    /\ disciplined => Quiet
    /\ Go("login", "asked")
    /\ UNCHANGED <<client, stores, host, req, disciplined>>

(* The host issues a session, or refuses: a 401 here drops nothing. *)
HostLogin ==
    /\ flow["login"].pc = "asked"
    /\ \/ \E s \in Sessions \ minted :
             /\ minted' = minted \cup {s} /\ live' = live \cup {s}
             /\ flow' = [flow EXCEPT !["login"].pc = "granted", !["login"].sess = s]
       \/ Ends("login") /\ UNCHANGED host
    /\ UNCHANGED <<client, stores, req, disciplined>>

MemberOf(s) == Owner[s]

(* installSession up to its first await. *)
InstallSession ==
    /\ flow["login"].pc = "granted"
    /\ LET s == flow["login"].sess IN
         /\ token' = s
         /\ member' = MemberOf(s)
         /\ Save([token |-> s, member |-> member'])
    /\ Go("login", "saving")
    /\ UNCHANGED <<key, sockets, view, devKeys, made, host, req, disciplined>>

---------------------------------------------------------------------------
(* restoreSession: nothing to do when signed in; concurrent calls share.    *)
Restore ==
    /\ Idle("restore") /\ member = None
    /\ disciplined => Quiet
    /\ stored # None            \* load of an absent or unreadable record: null
    /\ flow' = [flow EXCEPT !["restore"].pc = "loading", !["restore"].sess = stored.token]
    /\ UNCHANGED <<client, stores, host, req, disciplined>>

(* The record is expired and cleared, or its token is put to the host. *)
RestoreLoaded ==
    /\ flow["restore"].pc = "loading"
    /\ \/ Ends("restore") /\ Save(None) /\ UNCHANGED token
       \/ Go("restore", "asked") /\ token' = flow["restore"].sess /\ UNCHANGED stored
    /\ UNCHANGED <<member, key, sockets, view, devKeys, made, host, req, disciplined>>

HostSession ==
    /\ flow["restore"].pc = "asked"
    /\ Go("restore", IF flow["restore"].sess \in live THEN "granted" ELSE "denied")
    /\ UNCHANGED <<client, stores, host, req, disciplined>>

(* fetchSession failed without an answer: the record stays, the call throws. *)
RestoreUnreachable ==
    /\ flow["restore"].pc = "asked"
    /\ token' = None
    /\ Ends("restore")
    /\ UNCHANGED <<member, key, sockets, view, stores, host, req, disciplined>>

(* 401 or 403: dropped, by apiFetch or here, if there is still a token. *)
RestoreDenied ==
    /\ flow["restore"].pc = "denied"
    /\ IF token # None THEN DropSession ELSE UNCHANGED <<client, stores>>
    /\ Ends("restore")
    /\ UNCHANGED <<host, req, disciplined>>

(* Mutant of ValidatedToken: the token held now, not the one validated. *)
CurrentToken == IF token = None THEN flow["restore"].sess ELSE token

ValidatedToken == flow["restore"].sess

RestoreGranted ==
    /\ flow["restore"].pc = "granted"
    /\ member' = MemberOf(flow["restore"].sess)
    /\ Save([token |-> ValidatedToken, member |-> member'])
    /\ Go("restore", "saving")
    /\ UNCHANGED <<token, key, sockets, view, devKeys, made, host, req, disciplined>>

---------------------------------------------------------------------------
(* The common tail of both: this.member is read again after the save, and   *)
(* a member gone by then is a TypeError that rejects the call.              *)
AfterSave(f) ==
    /\ flow[f].pc = "saving"
    /\ IF member = None
         THEN Ends(f)
         ELSE \/ Go(f, "finish")                      \* key storage unreadable
              \/ flow' = [flow EXCEPT ![f].pc = "keying", ![f].who = member,
                                      ![f].key = devKeys[member]]
    /\ UNCHANGED <<client, stores, host, req, disciplined>>

(* Mutant of KeyWhenUnsaved: the fresh key is installed all the same. *)
FreshAllTheSame(m) == [owner |-> m, n |-> made + 1]

KeyWhenUnsaved(m) == key

(* resolveDeviceEncryptKey: the stored key, or a fresh one that is saved.   *)
ResolveDeviceEncryptKey(f) ==
    /\ flow[f].pc = "keying"
    /\ LET m == flow[f].who
           fresh == [owner |-> m, n |-> made + 1] IN
         IF flow[f].key # None
           THEN /\ key' = flow[f].key
                /\ ToFinish(f)
                /\ UNCHANGED <<devKeys, made>>
           ELSE /\ made < MaxKeys
                /\ \/ /\ key' = KeyWhenUnsaved(m)               \* save failed
                      /\ ToFinish(f)
                      /\ UNCHANGED <<devKeys, made>>
                   \/ /\ made' = made + 1
                      /\ devKeys' = [devKeys EXCEPT ![m] = fresh]
                      /\ flow' = [flow EXCEPT ![f].pc = "keysaved", ![f].key = fresh]
                      /\ UNCHANGED key
    /\ UNCHANGED <<token, member, sockets, view, stored, host, req, disciplined>>

KeySaved(f) ==
    /\ flow[f].pc = "keysaved"
    /\ key' = flow[f].key
    /\ ToFinish(f)
    /\ UNCHANGED <<token, member, sockets, view, stores, host, req, disciplined>>

(* Mutant of Announced: the member of the answer, not the one held now. *)
AnnouncedAnswer(f) == Owner[flow[f].sess]

Announced(f) == member

(* Listeners, then connectWs. *)
FinishInstall(f) ==
    /\ flow[f].pc = "finish"
    /\ view' = Announced(f)
    /\ ConnectWs
    /\ Ends(f)
    /\ UNCHANGED <<token, member, key, timer, strays, stores, host, req, disciplined>>

---------------------------------------------------------------------------
(* logout: local secrets first, then the host is told, best effort. *)
Logout ==
    /\ Idle("logout")
    /\ disciplined => \A f \in Installs : Idle(f)
    /\ flow' = [flow EXCEPT !["logout"].pc = "clearing", !["logout"].sess = token]
    /\ DropSession
    /\ UNCHANGED <<host, req, disciplined>>

LogoutTold ==
    /\ flow["logout"].pc = "clearing"
    /\ live' \in {live, live \ {flow["logout"].sess}}
    /\ Ends("logout")
    /\ UNCHANGED <<client, stores, minted, req, disciplined>>

(* Any other call of the API (apiFetch, upload) carries the current token.  *)
Request ==
    /\ req.pc = "idle"
    /\ disciplined => member # None /\ \A f \in Auth : Idle(f)
    /\ req' = [pc |-> "sent", tok |-> token]
    /\ UNCHANGED <<client, stores, host, flow, disciplined>>

(* A token in force is served; without one the host may ask for one (401).  *)
HostRequest ==
    /\ req.pc = "sent"
    /\ \/ req' = [req EXCEPT !.pc = "denied"] /\ req.tok \notin live
       \/ req' = IdleReq
    /\ UNCHANGED <<client, stores, host, flow, disciplined>>

(* apiFetch on a 401: whatever session is current is dropped. *)
Unauthorized ==
    /\ req.pc = "denied"
    /\ IF token # None THEN DropSession ELSE UNCHANGED <<client, stores>>
    /\ req' = IdleReq
    /\ UNCHANGED <<host, flow, disciplined>>

(* The host ends a session on its own: expiry or revocation. *)
HostRevokes ==
    /\ \E s \in live : live' = live \ {s}
    /\ UNCHANGED <<client, stores, minted, flow, req, disciplined>>

(* The page is reloaded: memory, sockets and timers are gone, calls under   *)
(* way are abandoned.                                                       *)
Reload ==
    /\ token' = None /\ member' = None /\ key' = None /\ view' = None
    /\ ws' = NoWs /\ loose' = 0 /\ timer' = FALSE /\ strays' = 0 /\ early' = FALSE
    /\ flow' = [f \in Auth |-> IdleFlow]
    /\ req' = IdleReq
    /\ UNCHANGED <<stores, host, disciplined>>

WebNext ==
    \/ Login \/ HostLogin \/ InstallSession
    \/ Restore \/ RestoreLoaded \/ HostSession \/ RestoreUnreachable
    \/ RestoreDenied \/ RestoreGranted
    \/ \E f \in Installs : \/ AfterSave(f) \/ ResolveDeviceEncryptKey(f)
                           \/ KeySaved(f) \/ FinishInstall(f)
    \/ Logout \/ LogoutTold
    \/ Request \/ HostRequest \/ Unauthorized
    \/ HostRevokes \/ Reload
    \/ OnClose \/ TimerFires

WebSpec == WebInit /\ [][WebNext]_webVars

---------------------------------------------------------------------------
AtRest == \A f \in Installs : Idle(f)

(* The persisted record never mixes two sessions: its member is the owner   *)
(* of its token, however logins, restores and drops interleave              *)
(* (installSession and restoreSessionNow build the record before awaiting). *)
RecordConsistent == stored # None => stored.member = Owner[stored.token]

(* Whatever overlaps, once no install is under way the application shows    *)
(* the member the client holds: every change of member is announced.        *)
ListenersCurrent == AtRest => view = member

(* In an app that keeps its auth calls apart, token, member and device key  *)
(* always belong to one session once the calls are over, through failed     *)
(* stores, revocations, unreachable hosts, 401s and reloads.  So does the   *)
(* socket, if there is one, through cuts, late closes and reconnections; a  *)
(* timer that fires while nobody is signed in may leave one that does not,  *)
(* and connectWs keeps it at the next sign-in (early).                      *)
SessionCoherent ==
    disciplined /\ AtRest =>
        /\ (token = None) <=> (member = None)
        /\ member = None => key = None
        /\ member # None => /\ member = Owner[token]
                            /\ key # None => key.owner = member
        /\ ws # NoWs => early \/ (member # None /\ ws = token)

(* In such an app the installed device key is the stored one, so what is    *)
(* sealed now can be opened after a reload (resolveDeviceEncryptKey).       *)
InstalledKeyIsStored ==
    disciplined /\ key # None => devKeys[key.owner] = key

=============================================================================
