# A verification of amp.SDK

TLA+ models of the parts of amp.SDK that keep state, run concurrently, survive
crashes or merge what arrives out of order, checked with TLC and, for the
results that matter most, proved with TLAPS. Paths below are relative to `src/`.

## 1. The system and its parts

amp.SDK is the client and app side of the art.media.platform. A **host** (not in
this repository) runs **apps** inside **sessions**; an app reads and writes
items addressed by (NodeID, AttrID, ItemID, EditID) by submitting **txs** and by
**pinning** nodes, whose updates are pushed back to it. Everything that runs is
a `task.Context`; keys live in an **enclave** and an **epoch key store** sealed
to disk; `amp-web` is the same client for browsers.

| Part | State | Operations | How it meets the others | What is hard |
|---|---|---|---|---|
| `stdlib/task` | a tree of contexts: state, children, count of active work, idle timer | StartChild, Close, CloseWhenIdle, PreventIdleClose; per context a monitor goroutine, an OnRun goroutine and at most one idle loop | apps, pins and sessions are contexts; `Closing()` then `Done()` are what everyone else selects on | attach against close, lost wake-ups, timers against new work |
| `stdlib/safe` epoch_keys.go | keys per epoch and role, current epoch per container, on disk and in memory | PutKey, SetCurrentEpoch, ShredKeys, Close, reopen | called by the host's vault; saves through a TomeStore | kills between memory and disk, failed saves followed by calls that change nothing |
| `stdlib/safe` enclave.go, file_guard.go | rings of keypairs sorted by pub key, newest per type; the sealed tome at a path | ImportKey, GenerateKey, lookups, Close, reopen; wrap, seal, save, load | signing and encryption resolve a KeyRef here | index against insertion order, power loss between write, sync and rename, sessions that share a tome |
| `amp/amp.support.bindings.go`, `amp/std/api.std.go` | per binding: node, high-water EditIDs, cached items; per pin: responders | Bind, MergeIncoming, OnNodeUpdate, Clear | txs pushed by the host are dispatched to bindings, callbacks may bind more | reordering, redelivery, re-entrant callbacks |
| `amp/amp.support.memberepoch.go` | per member: a base record and three custody clocks | MergeItem, DropItem, materialize | plugged into a binding as its Merger | issuer and member write concurrently |
| `amp/std/std.commit.go`, `stdlib/closer` | a request context and two channels per call | BlockingLoad, LoadItems, Commit | submits to the session, is answered by the host's pipeline | receiver leaves while the sender pushes, closing app, timeout |
| `amp/amp.support.epoch.go`, `rekey.go`, `sealed.go`, `ledger.go` | a chain of PlanetEpochs, member keys, links to older epochs' keys, attestations | AssembleEpoch, continuity and quorum checks, re-key, sealing | governance; the vault stores what they accept | replayed or mixed-up records, quorum arithmetic |
| `amp/amp.support.tx.go` | a tx: ops, their data, its wire | Upsert, Delete, Normalize, seal, open | everything travels as a tx | layout under sorting, cut or altered wires |
| `amp/amp.support.attrs.go`, `acc.go` | requests with their selectors; terms, grants | Revise, Normalize, Admits, ResolveAccess, windows | decide what a pin is sent and who may write | boundaries, sweep and sort in place |
| `amp/amp.support.blobmeta.go` | a streaming manifest builder | Write, Finish, verify, pull spans | uploads and downloads | spill in mid-stream, end of blob |
| `amp/amp.support.locus.go`, `amp/std/media.go` | cells of a locus; segments of a stream and the open ones | OnNodeUpdate, UpsertCell; Read, Seek | fed by pins, over blobs | order of delivery; eviction while reading |
| `amp/std/std.support.go`, `std.registry.go` | pins and their children; a copy-on-write registry | PinAndServe, StartPin, Register | apps | pin start against close, half-built answers |
| `stdlib/symbol`, `stdlib/bucket`, `stdlib/closer` | tables, token counts, reference counts | GetSymbolID, Take, Close | utilities | check-then-act, limits |
| `stdlib/tag`, `stdlib/hexgrid`, `safe.sign.go`, `phrase.go`, `link.go`, `amp.support.json.go` | none: pure functions | arithmetic, names, keys, encodings | everything | carries, collisions, forms that do not read back |
| `amp-web` | token, member, device key, WebSocket, stored session; rows of a query; waiters of a bridge | login, restore, logout, 401 handling, reconnect; fetch, merge; invoke | the host over REST and WebSocket, an embedding host over messages | every await is a scheduling point |

The correctness of each part, in a sentence: a context is done only after
everything under it has drained, and Close always gets there; a key operation
that returned nil is on disk; a ring lookup by type finds the newest; a cache is
the same whatever the order of delivery; keys belong to the member and status to
the issuer; a call returns, leaves nobody parked, and never takes a partial
snapshot for a whole one; an accepted epoch was signed by the quorum of an
unchanged charter; a wire opens as what was authored or not at all; what the
browser holds of a session belongs to one session; an encoding reads back.

## 2. Modules

`X` models a component, `MCX` gives TLC its symmetry sets and constant values,
`XProofs` holds its theorems.

**TaskTree** is the abstract specification of a tree of contexts: one opens
under an open parent, closes once, and is drained only after every context
opened under it. **TaskContext** is `stdlib/task/task.go`. One step is one
section under `ctx.mu`, or one blocking point of a goroutine: the starter
(`StartChild` up to OnRun's return), the monitor (`runMonitor`) and the idle
loop (`idleCloseLoop`) of each context. `parked[c]` are the goroutines that hold
the current `changed` channel, so a broadcast that is forgotten is a lost
wake-up. Time is relative (`floorLeft`, `timerLeft`), so no clock bound is
needed. `RefinesTaskTree` maps a context to "drained" when it has left its
parent.

**EpochKeyStore** is `stdlib/safe/epoch_keys.go`. Every method holds the lock, so
a call is one step, ending "ok", "failed" (the save returned an error, memory is
ahead of disk) or "killed" (before or after the rename in `file_guard.go`).
`acked`, `unsureEpochs` and `unsureContainers` are history: what the last call
that returned nil promised, and what calls that did not return nil since then
put in doubt.

**Enclave** is the key custody of `stdlib/safe/enclave.go`, for one ring:
`mergeRecord`'s sorted insertion, the newest-of-type index, its rebuilding at
open, lookups by type and by a prefix of the pub key, and installs with the same
three outcomes. **TomeStore** is the file beneath it: several sessions that load
and save one path, each save a create, write, sync and rename, with guards that
close in between and power loss at any point. `path` is where the name leads,
`stable` where a power loss may still leave it, since the directory is not synced.

**FoldBinding** is `OnNodeUpdate` and `Pin.MergeIncoming`, one step per responder
offered a node and per op looked at, because callbacks run in between: OnAdmit
may veto (`SkipOp`), OnItem may bind another responder (`Bind`). `kind` says
whether an edit is an upsert, a delete or does not unmarshal.

**MemberEpochMerge** is `MemberEpochMerger` behind the Merger branch of
`OnNodeUpdate`, for one member. A field is represented by the EditID of the
record it was taken from, so a clock and its field are one variable, as they
move together in the code.

**LocalRequest** is `BlockingLoad`, `LoadItems` and `Commit`: the caller, the
host's pipeline (external: it pushes the txs of a snapshot in order, stops when
PushTx returns an error, and may never answer) and WrapContext's goroutine. The
app context closes in two phases, as a `task.Context` does.

**PinServe** is `PinAndServe`, `StartPin` and `pushState`: the caller and the
task's OnRun, with item code and requester that may fail. `ServedWhole` says the
requester hears once, and that "ok" means every child in one tx.

**WebSession** is the session of `web-client.ts` with its session store and
device key store. A step is the code between two awaits; stores may fail, the
host may revoke or be unreachable, the page may reload. The socket is the token it
was opened with. It may be cut at any time, and one the client has let go of
(`loose` counts them) still reports its close, which clears whatever `ws` refers
to then (`OnClose`). Each close under a token starts a reconnect timer: `timer` is
the one `wsReconnectTimer` names, `strays` the ones it no longer does, which
`disconnectWs` cannot clear. `early` is history: a timer opened `ws` while nobody
was signed in. `disciplined` is a
constant of a behaviour: whether the app keeps its auth calls apart (`Quiet`),
as `useAmpAuth` leads it to. Two properties hold for every app, two for such an
app only; what an undisciplined one can meet is listed below.

**LiveQuery** is `connectWs`, `disconnectWs`, `subscribe` and `useAmpQuery`.
Sockets die with the frames they carry, or are closed, and report it later: a
socket is "closing" after a close of an open one, "aborted" after a close of one
that was connecting, "failed" when the network or the host ended it. The last two
report through onerror too, which closes whatever socket the client has by then.
`gap` is history: frames were lost with the last listening socket of a session
that had one, so the next onopen must refetch. `raced` is the rest: overlaps of
calls and frames the hook does not order, frames of a socket the client no longer
refers to, and losses no refetch follows; `ShownIsCurrent` is claimed without them.

**WebHooks** is the embed bridge (a diverted invoke, its timeout, the host's
answers in any order and number) and the effect hooks, whose answers for an
earlier prop are cancelled.

**SymbolTable**, **Registry**, **TokenBucket** and **Closer** are the small shared
structures, one step per critical section or atomic operation.

**TxMsg** builds a tx, normalizes it, seals it, delivers the wire whole or cut
at any point, and opens it. A wire is a sequence of tokens; an encrypted or
signed part is tokens that name what they cover.

**Selector** is a request under revision: `Revise`, URL addresses, the in-place
sweep and sort of `Normalize`, and `Admits`. **Policy** is access resolution and
the time windows, each against a reference definition.

**EpochChain** is the authority chain (`Offer`), the links and sealed values
(`InstallLink`, opening at any address), re-keying (`ApplyReKey`) and the ledger.
A signature is a term that names its bytes, a box one that names its key and its
associated data. **Framing** has the byte frames under them (signing domains,
founder fingerprints, did:keys, phrases, link tokens).

**BlobLayout** is the manifest builder with its spill and its lanes, and the
receiver. A hash is its input. **MediaStream** is the seekable reader over
segments, and the choice of a source. **LocusBinding** is the cell cache of a
locus.

**Uid**, **TagName**, **HexGrid** and **JsonWire** are the pure operators: 2-word
arithmetic with its carries (a word is 16 here instead of 2^64), canonic names,
hexagons and cell layouts, and the JSON forms.

**MCRuntime** and **MCData** gather components that share no state: a behaviour
picks one at its start (`part`) and runs it alone, and every property is about
one of them. **MCData** also draws the inputs (`probe`) of the pure operators'
laws.

The proof modules **TaskContextProofs**, **FoldBindingProofs** and
**WebSessionProofs** belong to the module they name; **KeyProofs** is about
EpochKeyStore and MemberEpochMerge, **RuntimeProofs** about LocalRequest, WebHooks,
PinServe and LiveQuery, **SharedProofs** about Closer, Registry, TokenBucket and
SymbolTable, **DataProofs** about EpochChain, LocusBinding, Enclave with TomeStore,
Selector and MediaStream, and **PayloadProofs**, which extends it, about TxMsg and
BlobLayout.

About a quarter of the lines the map names are generated protobuf types: the
records of the models are the fields of those messages that the code reads.

## 3. Runs

| Run | Checks | Instance |
|---|---|---|
| `task_close` | ActiveCountsWork, ClosedMeansDrained, RefinesTaskTree, CloseCompletes | 3 contexts in any tree, no idle-close: siblings, chains and a grandchild all occur |
| `task_idle` | OneIdleLoop, IdleCloseIsSafe, ArmedIdleCloses | 2 contexts, delays 0 (disable) and 1, Info.IdleClose on either, one explicit call |
| `epoch_keys` | DurableAtReturn, ElectionDurable, CurrentIsHeld | 2 containers, 2 epochs, 1 role, 1 key: shared epochs, older elections, partial shreds |
| `fold_binding` | FoldIsLWW, OneNodeDispatched, MergeEnds | 2 nodes, 2 bindings, 1 item, 2 edits of each kind, txs of up to 2 ops |
| `web_session` | RecordConsistent, ListenersCurrent, SessionCoherent, InstalledKeyIsStored | 2 sessions of 2 members, 2 device keys, one REST request under way, 2 sockets yet to report their close, 2 stray timers |
| `runtime` | LocalSafe, LocalReturns | snapshots of 3 txs: first, middle and last |
| | LiveSound, SocketComesBack | 2 items in pages of 1, 2 calls under way, 2 sockets at a time, 2 edits, 1 outage, 1 sign-out |
| | HooksSound, InvokeReturns | 3 invokes; 2 values of a prop and the empty one, 4 effects |
| | ServedWhole, PinReports | 2 children, one of which does not marshal |
| `data` | EnclaveSafe | 2 pub keys, 2 types, 2 TimeIDs: siblings, ties, installs out of time order, a prefix of both keys; 3 sessions over one tome, one with another passphrase, 2 saves |
| | SymbolsAgree | 2 callers, 2 values of different length in one hash slot, a pool that overflows |
| | RegistrySound | 2 registrars, 2 modules that share an alias, 1 attribute with conflicting policies |
| | BucketSound | 2 takers, capacity 7 with tokens of 5: fractions of a token remain |
| | CloserCorrect | 3 users, 2 closers and the watcher |
| | TxSound | up to 3 ops of 2 items, ops served from a newer tx, public and private, cut anywhere |
| | AdmitsOnlyAsked | selectors of up to 3 of 4 spans (good, wildcard, inverted, without a node), 2 revisions |
| | ChainLaw | 3 epochs, 2 founders and a stranger, quorums of 1 and 2, lists of 2 signatures; 3 keys |
| | BlobLaw | every blob up to 54 bytes written in segments of 1, 3, 4 or 9; grains of 2, chunks of 4 to 16 |
| | KeysAreMemberOwned, RedeliveryIsNoOp | 3 records, both lanes, any order and number |
| | CellsCurrent | 2 nodes, 3 cells of which 2 belong, 2 edits |
| | StreamCorrect | 4 segments (by tick, without blob, by size, longer than the budget) |
| | NumberLaws, TextLaws | all inputs of the sets in MCData |
| `merge_lost` | AllDispatched, **violated** | 2 nodes, 1 binding |
| `member_status` | StatusIssuerOwned, **violated** | 2 records |
| `enclave_retry` | ImportIsDurable, **violated** | 1 pub key |
| `local_load_closing` | LoadedMeansFilled, **violated** | 1 tx |
| `selector_drop` | AdmitsAllAsked, **violated** | 1 revision with up to 3 spans |

Bounds: `MaxCalls` caps the explicit idle calls (and, in WebHooks, the effects)
of a behaviour, `MaxOps` and `MaxTxOps` the ops of a tx, `MaxPass` is the code's
own 100 passes, `MaxSocks` the sockets that have not reported their close (in
WebSession those the client has let go of, and its stray timers; a socket over the
bound reports at once), `MaxEdits`, `MaxDrops`, `MaxOuts` the edits, outages and
sign-outs, `MaxSaves` the saves of a tome, `MaxKeys` the device keys, `MaxMints` the
symbol IDs, `MaxNow` the bucket's clock, `MaxRevisions`, `MaxSpans`, `MaxEpochs`,
`SigListLen` and `LocBatch` what they name; `events` stops at two commit outcomes
(the second is dropped). They are the smallest at which the cases the table names
occur: an outage or a late close report needs a second socket, a replay needs a third
epoch, a spill needs a blob past its length, a carry needs two words. Word sizes, radices and
checksum lengths are shrunk together, never to one. Symmetry is used only for
the key store run and for the web session (its two members with their sessions are
swapped), which check no liveness. The web session's VIEW leaves out the sockets of
an undisciplined app: they decide about nothing but sockets, and the one property
that looks at sockets is about disciplined apps. Deadlock checking is off where the
system really may stop: every context closed, every record delivered, the call
returned, a bound reached.

### Fairness

- TaskContext: monitors, idle loops and time proceed. OnStart and OnRun need only
  return once their context is closing (the contract `api.task.go` gives them).
  Public calls are never forced. Hooks return.
- FoldBinding: MergeIncoming is a loop in one goroutine and keeps running.
- LocalRequest: goroutines run, a closing app gets done, the commit timer fires.
  The app need not close and the host need not answer.
- PinServe: OnRun and a caller inside PinAndServe keep running.
- LiveQuery: timers fire, sockets report their open and their close, and a call
  is answered or fails. The reconnect timer waits for aborted sockets to report:
  three seconds are longer than an abort takes. Fairness of onopen is strong only because the bound on
  calls under way may disable it now and then. The network need not stay up.
- WebHooks: a timeout fires. The host need not answer.

### Disagreements with the documentation

Five have a run, listed under `findings`: the retried import, the binding that
misses a multi-node tx, the suspension lost to a newer self record that arrived
first, BlockingLoad's nil in a closing app, and the selector that keeps the span
it meant to drop. Others were met while modelling and are recorded here:

- `stdlib/task/api.task.go:84`: OnClosed is said to run after all children
  completed Close; a child leaves its parent before its own OnClosed
  (`task.go:354`), so the parent's may run first. ClosedMeansDrained says what
  does hold.
- `stdlib/task/api.task.go:126`: a repeated CloseWhenIdle is said to restart the
  countdown. The loop goes back to its top and normally re-arms, but when timer
  and broadcast are both ready `select` may still take the timer.
- `stdlib/safe/api.safe.go:183`: a container whose current epoch was shredded
  "has no current epoch until PutKey or SetCurrentEpoch names a new one"; the
  reopen fallback (`epoch_keys.go:85-99`) names one by itself.
- `stdlib/safe/enclave.go:503`: an untyped reference "returns newest record across
  any type"; the newest pub key is found, but `ringLookup` then returns the first
  record with that pub key, which may be an older one of another type.
- `stdlib/safe/enclave.go:413`: each session seals its whole view, so of two
  sessions over one tome the later save drops the other's keys.
- `amp/amp.support.memberepoch.go:11`: a late self-rotation "still wins its
  field"; not when a newer issuer record seeded the field first.
- `amp/amp.support.bindings.go:87`: "Deletes keep LWW ordering"; with a Merger a
  record older than the delete, arriving after it, brings the item back.
- `amp/std/std.commit.go:33`: BlockingLoad and Commit return a SubmitTx error
  without closing the request context; WrapContext's goroutine stays until the
  app is done.
- `stdlib/task/task.go:254`: ForEachChild calls back with the lock held.
- `amp/std/std.support.go:160`: StartPin returns `nil, err` when ParseAsAddressURL
  succeeds, so an addressed request is never served; the comment promises a pin.
  `pin.ctx` is assigned after StartChild, so OnRun may read it unset, and
  AddChild may write the children while another goroutine looks one up.
- `amp/amp.support.attrs.go`: Revise resets the selector where its comment speaks
  of merging; a pin with an empty selector would index its first span.
- `amp/amp.support.tx.go:178`: LoadValue gives `sort.Find` the comparison the other
  way round, so only the first element is found (never a wrong value, as
  `LoadsNewest` says); it ignores Normalize's error, and Normalize leaves
  duplicates it reports. SealTx without crypto omits the DataStore its preamble
  counts. A tx without a TxID gives its ops nil EditIDs.
- `amp/amp.support.blobmeta.go:170`: the shift in BlobPullSpan may overflow for
  counts the comment admits, and a blob length of 0 with a first chunk past it
  gives a negative span; `BlobLaw` is stated within the width.
- `amp/amp.support.attrs.go:325`: the hash kit "may rotate", but
  VerifyCharterContinuity refuses a change. With no previous epoch it does not ask
  for a genesis.
- `amp/amp.support.locus.go:156`: "reject stale edits"; a cell keeps no clock after a
  delete, so an older upsert that follows occupies it again.
- `amp/amp.support.json.go:164`: a leaf's Data is dropped by both JSON forms; a
  BlobRef without an asset tag gains "text/plain" when it is written again.
- `amp/std/media.go:352`: a blob shorter than its segment declares makes Read return
  no bytes and no error; a duplicate op doubles a segment; CommitMediaAsset leaves
  its blob behind when the commit fails.
- `stdlib/tag/tag.id.go:400`: NowID's order within a tick, and its distinctness, are
  its entropy's. AsTime of a time UID with no nanoseconds is one nanosecond late.
  A name "-*" has the text "*", which reads back as the wildcard.
- `stdlib/symbol/memory_table/table.go:179`: racing callers may be issued two IDs for
  one value; each resolves (`SymbolsAgree`), and the later one is the value's.
- `stdlib/closer/closer.wrapper.go:35`: PushOpen after the count reached zero revives
  a closed target.
- `amp-web/src/web-client.ts`: a 401 that answers an earlier session's request drops
  the newer session (:168); a restore that fails in transport clears a token
  installed meanwhile; a login over a live session whose key storage fails keeps
  the old member's key; the close report of an old socket clears the newer one
  (:836), and its onerror closes it (:843), which `SocketComesBack` shows is
  repaired; the socket that was cleared but not closed stays subscribed, unknown to
  the client, so its frames come twice or out of order, a sign-out does not close it,
  and a query may then be served by it alone; subscribers that outlive a
  sign-out hear no 'reconnect' at the next sign-in; a second unsubscribe removes a
  newer subscription to the same key. The auth ones need an app that overlaps its
  auth calls (`disciplined` is FALSE). Not so these: a late close report during a
  restore starts a timer, which a restore that fails in transport (:370) leaves
  pending, and a close that finds a timer pending loses its handle (:839), so
  `disconnectWs` cannot clear it. Either may fire with nobody signed in, and the
  socket it opens, with an empty token or that of a restore not yet granted, is kept
  by connectWs (:783) at the next sign-in. That is the exception (`early`) in
  `SessionCoherent`.
- `stdlib/hexgrid/hex.go:151`: the nudge is to push points on an edge "in the same
  direction", but q and r get the same one, so where both are half-integers
  `q_diff > r_diff` (:101) is left to float64 noise: (2,0) to (5,3) goes through (3,0),
  and the line back through (2,1). `FractionalRound` takes either branch there, and
  `NumberLaws` claims the same line backwards except at these points (`Ties`).
- `amp-web/src/hooks/useAmpQuery.ts`: two fetches, a fetch and an event, or a page
  and an event may be applied in the wrong order, and an edit between the first
  fetch and the first socket is missed; these are the cases `raced` excludes.

## 4. Theorems

All are proved for every value of the constants that satisfies the named
assumptions. These say what the code makes true of them: finitely many contexts,
founders, items and values, EditIDs and pub keys ordered as naturals, markers
outside the sets they extend, a page of at least one row, a bucket that holds a
token, a hash table with more slots than values, a residency budget that
is a natural, signatures of at least one byte. The bounds of the runs are
constants too, so every theorem covers behaviours of any length.

**TaskContextProofs.** `TypeCorrect`, `AccountingCorrect`, `OneIdleLoopCorrect`,
`DrainCorrect`, `IdleCloseSafe`, `ImplementsTaskTree`. The inductive invariant
adds two parts to the properties: *LifeInv*, that the positions of the starter
and the monitor agree with `ctx.state` (a monitor past "watch" has a closing
context, and so on), and *QuiescentInv*, that once a monitor has found
`active = 0` on a closing context nothing can be attached to it or run in it.
The second is why a child cannot slip in between the drain and the detach, and
it needs `AccountingCorrect`: `active = 0` means no child only because the count
is exact. `IdleCloseSafe` is an action property from the same invariant, and the
refinement shows each step is a step of TaskTree or leaves it unchanged.

**KeyProofs.** `MutationsDurable`, `ElectionsDurable`,
`NoDanglingElection`. The invariant relates memory, disk and the history of
promises: where nothing is in doubt the three agree, and memory may differ from
disk only while `changed` is set. That last part is what makes a ShredKeys that
finds nothing to shred safe to acknowledge without a save.

`CustodyCorrect`, `Idempotent`: the invariant of a member's record says that every
clock is at least the newest record of its kind delivered, so a re-presented record
finds every clock at or past its EditID.

**FoldBindingProofs.** `FoldCorrect`: FoldIsLWW with the types is inductive; the
work is in `FoldOp`, one case for a newer op and one for a stale one.
`OneNodeIsDispatched` is an action property of MergeIncoming's return.
*PassInv* says, of a tx about one node, that a responder which has taken the revision
and listens to that node has been given the ops, and that every responder counted at
the start of the pass has taken it or is still in the rest of the pass; *CountInv*
that each further pass found more responders than the one before, so the responders
bound the passes. The theorem therefore asks for no more responders than `MaxPass` (100
in the code): past that MergeIncoming returns with some unasked, as its loop says.

**WebSessionProofs.** `RecordIsConsistent`, `ListenersAreCurrent`,
`SessionIsCoherent`, `KeyInstalledIsStored`. *WebInv* says of every auth call under
way what it carries at each await (*FlowShape*), that the view differs from the
member only while a call is about to announce it (*Heard*), that a device key is
stored under its owner (*KeysOwned*), that a socket not opened early has the token
held (*SocketOwned*), and for a disciplined app that calls stay
apart and which half of the session each has set so far (*Phase*).

**RuntimeProofs.** `LocalIsSafe`: *LocalInv* adds that a nil error can only come
from a context the caller itself closed, and that a waiting caller has taken every
tx but the one in hand. `HooksAreSound`: an ID not
yet minted has no history, an answer under way is of something the host did, and
once the effect has run the calls not cancelled ask for the present prop.
`PinServesWhole`: *PinPhase* says, per position of OnRun, which children are in the
tx; the ops of a tx are counted through its appends.
`LiveIsSound`: *LiveInv* looks at a query that is *Clean*, with nothing raced or
lost and frames on the client's own socket only. There the frames under way tell
the truth (*FramesTrue*: the last one of an item is the host's row, and a deleted
item is written again before it is withdrawn), and each row shown or answered and
not yet applied is *Good*: equal to the host's if no frame is under way for it, and
otherwise a row those frames bring up to date. The subtle case is a withdrawal,
which does nothing to a row that is not shown: it is harmless only because a delete
follows it. The attempt to prove this corrected the model: with one sign-out TLC
had not met a query served by a socket the client had forgotten, nor had the model
let a failed socket's onerror close a newer one.

**SharedProofs.** `ClosersAreCorrect`: the count is the number of references held.
`RegistryIsSound`: the snapshot a writer is about to publish is the current one with
its job inserted, which is what the mutex is for. `BucketIsSound`: *Conserved* and
*WindowBound* relate the tokens left and the running sums of takes to the time
passed, *DeficitKept* a sleeper's wake-up to its deficit. `SymbolsAreSound`:
*OneSlot*, that an entry lies on its value's probe sequence with no free slot before
it, so probing finds it or proves it absent, whatever collides.

**DataProofs.** `ChainIsLawful`: *ChainInv*, *LinkInv* (every box is a link's or a
value's, so a key opened from one is true) and *ReKeyInv* (a reissue that could be
replayed is of a retired key, or of the current one to a fresh one).
`CellsAreCurrent` from *LocInv*, over the fold of a batch. `EnclaveIsSafe`:
*RingInv*, the sorted insertion and the index, and *TomeInv*, that every entry whose
content is synced is whole and the path leads to such an entry only, also after a
power loss. `SelectorIsSound`: *SelInv*, that each span of the selector is one that
was asked for, clamped or not, through the in-place sweep and the sort.
`StreamIsCorrect`: *StreamInv*, that the index tiles the stream (an entry starts
where the lengths before it end), and that the open segments are distinct, sum to
`openSz` and are within the budget or just the one being read, through promotion,
eviction and the close. Sums over segments are prefix sums, so an eviction from the
front and a promotion from the middle are each one equation.

**PayloadProofs.** `TxIsSound`: *TxInv* follows a tx from the call to the reader.
*BuildInv*: every op spans exactly the bytes its value was written as, under its own
tx's flags or a served edit's; the ops are a rearrangement of the calls, so neither
`sort.Slice`, which may leave equal ops in any order, nor a refusal of duplicates
loses one; and a tx marked normalized is in the order sort.Find bisects. *WireInv*:
the wire is the whole wire of this tx, or a prefix of it once it was cut. *ReadInv*:
a reader has the tx field by field, or nothing; it needs that the ops section, where
an op names only the fields in which it differs from the one before, reads back
(`OpsReadBack`), that what a preamble promises cannot be found in a shorter wire
(`PlainOpens`), and that a signature over a prefix is not at its end
(`SealedOpens`). *WholeWireOpens* is inductive beside them. What LoadValue returns
comes from the bounds of the bisection (`HalveKeeps`, `FindIs`): with its comparison
the wrong way round it may miss an element, but never returns another's.

`BlobIsLawful`: *BlobInv* says that until Finish the builder is *Held*: the grains
absorbed and the one in progress are the blob's bytes in order, whatever the
segments. *Fed*: a living lane's entries are the full runs of those grains and its
open run is the rest. *Absorbed*: before the spill the buffer, after it every lane not
pruned, has taken in all of them, so the replay at the spill loses nothing. The
exponent Finish chooses fits its target or is the largest, whose lane is never pruned,
so it finds a living lane; and since a chunk's own grains are its run of the blob's grains (`ChunkGrains`), lane, buffer
and the receiver's hasher agree on every entry. Powers of two are a recursive function
whose equation (`Pow2Is`) is proved without induction, as below; the chunk sizes are
its values and never expanded. *BlobAssumption* orders the exponents, keeps them below
the width of a pull's shift, and has the spill come while the smallest chunk still
fits the target, all of which the code's constants satisfy.

Batches, tomes, queues and sweeps of any length are reached without the induction
theorems that take an operator: a set of naturals has a least element (`WFMin` on
`NatLessThanWellFounded`), so a property of the steps of a fold or loop that failed
would fail first somewhere (`AllNat`, `FoldExists`, `IterationExists`).

Only model-checked:

- liveness: CloseCompletes, ArmedIdleCloses, MergeEnds, LocalReturns,
  SocketComesBack, InvokeReturns, PinReports. The prover has no fairness;
- NumberLaws and TextLaws: results of recursive operators over digits and texts,
  some of them in modules (JsonWire, TagName) the prover cannot read.

## 5. Not modelled

Cryptographic primitives, the bytes of protobuf and varints, logging, `stdlib/data`
(assets, an open-addressing map whose Remove breaks probe chains, recordings),
`stdlib/encode`, `layout.go`'s floating-point placement, the login helper and
operator client (single HTTP exchanges), and declarations without code. Of modelled
parts: `PrintTreePeriodically` and the read-only accessors of task; the enclave's
cryptographic verbs, which change nothing; the provisioning of the guard's key
file; `FoldBinding.Clear` from inside a callback; a responder bound twice; labels
for people. Of modelled operations: ReadTxMsg drops bytes a reader returns together
with io.EOF (`amp.support.tx.go:332`), where the model's reader returns them first; the
epoch chain has no nil cosignatures to skip (`amp.support.rekey.go:33`) and takes a
re-key record's status as Active (:130); MediaStream's segment readers do not fail a
Seek (`media.go:369`).

## 6. Plan

The guard key's provisioning, if the code comes to promise something about it.
