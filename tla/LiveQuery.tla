----------------------------- MODULE LiveQuery -----------------------------
(***************************************************************************)
(* A query that keeps itself current: the WebSocket part of                *)
(* amp-web/src/web-client.ts (connectWs, disconnectWs, subscribe) and the  *)
(* hook of amp-web/src/hooks/useAmpQuery.ts mounted on one channel and     *)
(* attribute.  REST calls and socket frames travel independently, a socket *)
(* dies with the frames it carries, and a closed socket reports it later.  *)
(*                                                                         *)
(* Items are numbered in _ItemID order; a row is the number of the edit it *)
(* shows, 0 for no row.                                                    *)
(***************************************************************************)
EXTENDS Naturals, Sequences, FiniteSets, FiniteSetsExt

CONSTANTS
    Items,          \* 1..n, in _ItemID order
    Limit,          \* rows of a page
    Calls,          \* REST calls the hook may have under way
    MaxSocks,       \* bound: sockets that have not reported their close
    MaxEdits,       \* bound: edits at the host
    MaxDrops,       \* bound: sockets the network kills
    MaxOuts         \* bound: sign-outs

ASSUME LiveAssumption == /\ IsFiniteSet(Items) /\ Items = 1..Cardinality(Items)
                         /\ Limit \in Nat \ {0} /\ MaxEdits \in Nat \ {0}
                         /\ {MaxSocks, MaxDrops, MaxOuts} \subseteq Nat

VARIABLES
    rows, edits,            \* the host's rows, edits so far
    sock, ws,               \* the sockets and the one the client refers to, 0 for null
    wsWasOpen,
    timer, strays,          \* wsReconnectTimer pending; pending timers it no longer names
    signedIn, outs, drops,
    mounted, data, hasMore, cursor, error,     \* the hook
    call,                   \* its REST calls
    gap,                    \* history: a frame was lost in an outage, not refetched since
    raced                   \* history: something overlapped that the hook does not order

session == <<signedIn, outs>>
socket  == <<sock, ws, wsWasOpen, timer, strays>>
hook    == <<data, hasMore, cursor, error>>
history == <<gap, raced>>
liveVars == <<rows, edits, socket, session, drops, mounted, hook, call, history>>

Socks  == 1..MaxSocks
Row    == 0..MaxEdits
NoCall == [kind |-> "none", after |-> 0, page |-> <<>>, more |-> FALSE]
Unused == [st |-> "unused", auth |-> FALSE, sub |-> FALSE, q |-> <<>>]
Page   == UNION {[S -> 1..MaxEdits] : S \in SUBSET Items}
Frame  == [kind: {"update", "delete", "withdraw"}, item: Items, row: Row]

LiveTypeOK ==
    /\ rows \in [Items -> Row] /\ edits \in Row
    /\ sock \in [Socks -> [st: {"unused", "connecting", "open", "closing", "failed", "aborted"},
                           auth: BOOLEAN, sub: BOOLEAN, q: Seq(Frame)]]
    /\ ws \in 0..MaxSocks
    /\ wsWasOpen \in BOOLEAN /\ timer \in BOOLEAN /\ strays \in 0..MaxSocks
    /\ signedIn \in BOOLEAN /\ outs \in 0..MaxOuts /\ drops \in 0..MaxDrops
    /\ mounted \in BOOLEAN /\ data \in [Items -> Row]
    /\ hasMore \in BOOLEAN /\ cursor \in Items \cup {0}
    /\ call \in [Calls -> [kind: {"none", "fetch", "more", "fetched", "gotMore"},
                           after: Items \cup {0}, page: Page, more: BOOLEAN]]
    /\ error \in BOOLEAN /\ gap \in BOOLEAN /\ raced \in BOOLEAN

LiveInit ==
    /\ rows = [i \in Items |-> 1] /\ edits = 1
    /\ sock = [k \in Socks |-> Unused] /\ ws = 0
    /\ wsWasOpen = FALSE /\ timer = FALSE /\ strays = 0
    /\ signedIn = FALSE /\ outs = 0 /\ drops = 0
    /\ mounted = FALSE /\ data = [i \in Items |-> 0]
    /\ hasMore = FALSE /\ cursor = 0
    /\ call = [c \in Calls |-> NoCall]
    /\ error = FALSE /\ gap = FALSE /\ raced = FALSE

IsOpen(k) == k # 0 /\ sock[k].st = "open"
Listening == {k \in Socks : sock[k].st = "open" /\ sock[k].sub}

(* A socket goes with the frames it carries.  If it was the last that       *)
(* listened in a session that had one, the next onopen refetches.           *)
Loses(k) ==
    LET lost   == mounted /\ k # 0 /\ sock[k].q # <<>>
        healed == signedIn /\ wsWasOpen /\ Listening = {k}
    IN  /\ gap'   = (gap \/ (lost /\ healed))
        /\ raced' = (raced \/ (lost /\ ~healed))

---------------------------------------------------------------------------
(* The sockets *)

(* connectWs: not when there is one; the token rides in the URL. *)
ConnectWs(in) ==
    IF ws # 0 THEN UNCHANGED <<sock, ws>>
    ELSE \E k \in Socks :
           /\ sock[k].st = "unused" /\ \A j \in 1..(k - 1) : sock[j].st # "unused"
           /\ sock' = [sock EXCEPT ![k].st = "connecting", ![k].auth = in]
           /\ ws' = k

(* The end of installSession and restoreSession. *)
SignIn ==
    /\ ~signedIn /\ signedIn' = TRUE
    /\ ConnectWs(TRUE)
    /\ UNCHANGED <<rows, edits, wsWasOpen, timer, strays, outs, drops, mounted, hook, call, history>>

(* WebSocket.close: one that was connecting fails at once, one that was     *)
(* open completes the handshake first; what the socket carried is dropped.  *)
Shut(k) ==
    IF k # 0 /\ sock[k].st \in {"connecting", "open"}
    THEN [Unused EXCEPT !.st = IF sock[k].st = "open" THEN "closing" ELSE "aborted"]
    ELSE sock[k]

(* dropSession calls disconnectWs: the named timer and the socket go. *)
SignOut ==
    /\ signedIn /\ outs < MaxOuts
    /\ signedIn' = FALSE /\ outs' = outs + 1
    /\ wsWasOpen' = FALSE /\ timer' = FALSE
    /\ sock' = [k \in Socks |-> IF k = ws THEN Shut(k) ELSE sock[k]]
    /\ ws' = 0 /\ gap' = FALSE
    /\ raced' = (raced \/ gap \/ (mounted /\ ws # 0 /\ sock[ws].q # <<>>))
    /\ UNCHANGED <<rows, edits, strays, drops, mounted, hook, call>>

FreeCall == {c \in Calls : call[c].kind = "none"}
Alone    == FreeCall = Calls

(* The record the next call takes: which one it is makes no difference. *)
NextCall == {c \in FreeCall : c = CHOOSE d \in FreeCall : TRUE}

(* fetch: clears the error and asks for the first page. *)
Fetch == /\ \E c \in NextCall : call' = [call EXCEPT ![c] = [NoCall EXCEPT !.kind = "fetch"]]
         /\ error' = FALSE
         /\ raced' = (~Alone \/ \E k \in Socks : sock[k].q # <<>>)

IsReconnect == wsWasOpen

(* onopen: every subscription is sent again, and if this is not the first   *)
(* socket of the session every subscriber is told to refetch.               *)
OnOpen(k) ==
    /\ sock[k].st = "connecting" /\ sock[k].auth
    /\ sock' = [sock EXCEPT ![k].st = "open",
                            ![IF IsOpen(ws) THEN ws ELSE k].sub = ((ws = k \/ IsOpen(ws)) /\ mounted)]
    /\ wsWasOpen' = TRUE
    /\ IF IsReconnect /\ mounted
         THEN Fetch /\ gap' = FALSE
         ELSE UNCHANGED <<call, error, history>>
    /\ UNCHANGED <<rows, edits, ws, timer, strays, session, drops, mounted,
                   data, hasMore, cursor>>

(* The network kills a socket, or the host refuses one without a session.   *)
Dies(k) ==
    /\ sock[k].st \in {"connecting", "open"}
    /\ \/ drops < MaxDrops /\ drops' = drops + 1
       \/ ~sock[k].auth /\ UNCHANGED drops
    /\ sock' = [sock EXCEPT ![k] = [Unused EXCEPT !.st = "failed"]]
    /\ Loses(k)
    /\ UNCHANGED <<rows, edits, ws, wsWasOpen, timer, strays, session, mounted, hook, call>>

(* Mutant of Retry: a socket that closes is not replaced. *)
NoRetry == UNCHANGED <<timer, strays>>

(* setTimeout(connectWs, 3000); the handle of an earlier timer is lost. *)
Retry == /\ timer' = TRUE
         /\ strays' = IF timer THEN strays + 1 ELSE strays

(* onclose, of whichever socket: the client's reference is cleared.  On one *)
(* that failed, onerror runs first and closes whatever the reference names. *)
OnClose(k) ==
    /\ sock[k].st \in {"closing", "failed", "aborted"}
    /\ LET errs == sock[k].st # "closing" /\ ws # k IN
         /\ sock' = [j \in Socks |-> IF j = k THEN Unused
                                     ELSE IF errs /\ j = ws THEN Shut(j) ELSE sock[j]]
         /\ IF errs THEN Loses(ws) ELSE UNCHANGED history
    /\ ws' = 0
    /\ IF signedIn THEN Retry ELSE UNCHANGED <<timer, strays>>
    /\ UNCHANGED <<rows, edits, wsWasOpen, session, drops, mounted, hook, call>>

(* Three seconds are longer than an aborted socket takes to report.         *)
TimerFires ==
    /\ \A k \in Socks : sock[k].st # "aborted"
    /\ \/ timer /\ timer' = FALSE /\ UNCHANGED strays
       \/ strays > 0 /\ strays' = strays - 1 /\ UNCHANGED timer
    /\ ConnectWs(signedIn)
    /\ UNCHANGED <<rows, edits, wsWasOpen, session, drops, mounted, hook, call, history>>

---------------------------------------------------------------------------
(* The host *)

(* A write, delete or withdrawal is pushed to every subscribed socket. *)
Edit(i, kind) ==
    LET v == IF kind = "delete" THEN 0 ELSE edits + 1 IN
    /\ edits < MaxEdits /\ edits' = edits + 1
    /\ kind # "update" => rows[i] # 0
    /\ rows' = [rows EXCEPT ![i] = v]
    /\ sock' = [k \in Socks |->
                 IF k \in Listening
                 THEN [sock[k] EXCEPT !.q = Append(@, [kind |-> kind, item |-> i, row |-> v])]
                 ELSE sock[k]]
    /\ gap'   = (gap \/ (mounted /\ Listening = {} /\ signedIn /\ wsWasOpen))
    /\ raced' = (raced \/ (mounted /\ Listening = {} /\ ~(signedIn /\ wsWasOpen)))
    /\ UNCHANGED <<ws, wsWasOpen, timer, strays, session, drops, mounted, hook, call>>

Present(after) == {i \in Items : i > after /\ rows[i] # 0}
PageKeys(after) == {i \in Present(after) : Cardinality({j \in Present(after) : j < i}) < Limit}

(* GET items: a page after the cursor, and whether there is more. *)
Answer(c) ==
    /\ call[c].kind \in {"fetch", "more"}
    /\ LET keys == PageKeys(call[c].after) IN
         call' = [call EXCEPT ![c].page = [i \in keys |-> rows[i]],
                              ![c].more = keys # Present(call[c].after),
                              ![c].kind = IF @ = "fetch" THEN "fetched" ELSE "gotMore"]
    /\ UNCHANGED <<rows, edits, socket, session, drops, mounted, hook, history>>

---------------------------------------------------------------------------
(* The hook *)

(* First render: the initial fetch, and the subscription. *)
Mount ==
    /\ ~mounted /\ mounted' = TRUE
    /\ Fetch
    /\ sock' = IF IsOpen(ws) THEN [sock EXCEPT ![ws].sub = TRUE] ELSE sock
    /\ UNCHANGED <<rows, edits, ws, wsWasOpen, timer, strays, session, drops,
                   data, hasMore, cursor, gap>>

SendUnsubscribe == IF IsOpen(ws) THEN [sock EXCEPT ![ws].sub = FALSE] ELSE sock

(* The cleanup unsubscribes; calls under way answer to nobody. *)
Unmount ==
    /\ mounted /\ mounted' = FALSE
    /\ sock' = SendUnsubscribe
    /\ data' = [i \in Items |-> 0] /\ hasMore' = FALSE /\ cursor' = 0 /\ error' = FALSE
    /\ call' = [c \in Calls |-> NoCall]
    /\ gap' = FALSE /\ raced' = FALSE
    /\ UNCHANGED <<rows, edits, ws, wsWasOpen, timer, strays, session, drops>>

(* The row a frame leaves: an update replaces or inserts it, a delete        *)
(* removes it, a withdrawal marks one that is shown.                        *)
Merged(f) == IF f.kind = "withdraw" /\ data[f.item] = 0 THEN 0 ELSE f.row

OnMessage(k) ==
    /\ sock[k].st = "open" /\ sock[k].q # <<>>
    /\ LET f == Head(sock[k].q) IN
         data' = IF mounted THEN [data EXCEPT ![f.item] = Merged(f)] ELSE data
    /\ sock' = [sock EXCEPT ![k].q = Tail(@)]
    /\ raced' = (raced \/ (mounted /\ (k # ws \/ ~Alone)))
    /\ UNCHANGED <<rows, edits, ws, wsWasOpen, timer, strays, session, drops, mounted,
                   hasMore, cursor, error, call, gap>>

(* Mutant of NextCursor: the last row of the cache, not of the page. *)
LastCached(page, old) == Max({i \in Items : data[i] # 0} \cup DOMAIN page \cup {0})

(* The last item of the page fetched: never a row a frame brought. *)
NextCursor(page, old) == IF page = <<>> \/ DOMAIN page = {} THEN old ELSE Max(DOMAIN page)

(* fetch: the answer replaces the cache. *)
Fetched(c) ==
    /\ call[c].kind = "fetched"
    /\ data' = [i \in Items |-> IF i \in DOMAIN call[c].page THEN call[c].page[i] ELSE 0]
    /\ hasMore' = call[c].more
    /\ cursor' = NextCursor(call[c].page, 0)
    /\ call' = [call EXCEPT ![c] = NoCall]
    /\ UNCHANGED <<rows, edits, socket, session, drops, mounted, error, history>>

LoadMore ==
    /\ mounted /\ hasMore /\ cursor # 0
    /\ \E c \in NextCall :
         call' = [call EXCEPT ![c] = [NoCall EXCEPT !.kind = "more", !.after = cursor]]
    /\ raced' = (raced \/ ~Alone)
    /\ UNCHANGED <<rows, edits, socket, session, drops, mounted, hook, gap>>

(* loadMore: the answer is merged into the cache. *)
GotMore(c) ==
    /\ call[c].kind = "gotMore"
    /\ data' = [i \in Items |-> IF i \in DOMAIN call[c].page THEN call[c].page[i] ELSE data[i]]
    /\ hasMore' = call[c].more
    /\ cursor' = NextCursor(call[c].page, cursor)
    /\ call' = [call EXCEPT ![c] = NoCall]
    /\ UNCHANGED <<rows, edits, socket, session, drops, mounted, error, history>>

Failed == error' = TRUE

(* Either call rejects: the rows stay and the error shows. *)
CallFails(c) ==
    /\ call[c].kind # "none" /\ Failed
    /\ call' = [call EXCEPT ![c] = NoCall]
    /\ UNCHANGED <<rows, edits, socket, session, drops, mounted, data, hasMore, cursor, history>>

LiveNext ==
    \/ SignIn \/ SignOut \/ TimerFires
    \/ \E k \in Socks : OnOpen(k) \/ Dies(k) \/ OnClose(k) \/ OnMessage(k)
    \/ \E i \in Items, kind \in {"update", "delete", "withdraw"} : Edit(i, kind)
    \/ \E c \in Calls : Answer(c) \/ Fetched(c) \/ GotMore(c) \/ CallFails(c)
    \/ Mount \/ Unmount \/ LoadMore

(* Events that are due are delivered, and a call is answered or fails.      *)
(* Strong for onopen only because the bound on calls may hold it up.        *)
LiveFairness ==
    /\ WF_liveVars(TimerFires)
    /\ SF_liveVars(\E k \in Socks : OnOpen(k))
    /\ WF_liveVars(\E k \in Socks : OnClose(k))
    /\ WF_liveVars(\E c \in Calls : Answer(c) \/ Fetched(c) \/ GotMore(c))

LiveSpec == LiveInit /\ [][LiveNext]_liveVars /\ LiveFairness

---------------------------------------------------------------------------
(* The comment in onopen: frames of an outage are lost, so subscribers      *)
(* refetch "instead of serving a silently-stale cache".  Whenever a mounted *)
(* query is served by a socket again, what it lost has been refetched.      *)
GapRefetched == Listening # {} => ~gap

(* The host pushes to the client's socket exactly while the query is        *)
(* mounted, through unmounts during an outage and remounts before opening.  *)
SubscribedWhileMounted == IsOpen(ws) => sock[ws].sub = mounted

(* What the hook shows, once nothing is under way and unless an error shows, *)
(* is what the host has, for every row up to the page boundary - if calls   *)
(* and frames did not overlap (fetch and loadMore do not order their        *)
(* answers) and no edit fell between the first fetch and the first socket.  *)
ShownIsCurrent ==
    (/\ mounted /\ signedIn /\ IsOpen(ws) /\ ~error /\ ~raced
     /\ Alone /\ \A k \in Socks : sock[k].q = <<>>) =>
        \A i \in Items : (hasMore => i <= cursor) => data[i] = rows[i]

(* A signed-in client gets its socket (back), whatever closed in what order. *)
SocketComesBack == signedIn ~> (IsOpen(ws) \/ ~signedIn)

(* A live query through outages, sign-outs, remounts and pages: subscribed  *)
(* while mounted, nothing lost unnoticed, and current once it is quiet.     *)
LiveSound == GapRefetched /\ SubscribedWhileMounted /\ ShownIsCurrent
=============================================================================
