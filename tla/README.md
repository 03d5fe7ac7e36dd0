# Verification of dhs (Device Hub Systems)

`dhs` is a hub of connectors for broadcast equipment, written in Go: each
protocol under `src/internal/<protocol>/` has a *consumer* (a client of
devices), usually a *provider* (a simulated device or server), a codec and its
documents; `src/internal/consumer`, `provider`, `transport`, `export`,
`manifest` and others are the neutral packages they share, and `src/cmd/dhs` is
the command line that drives them. This directory holds TLA+ models of the
parts in which concurrency, timeouts and failure decide whether the program is
correct, the TLC configurations that check them, and TLAPS proofs.

Contents: 1. inventory, 2. modules and how they read the code, 3. runs,
4. what the code does not keep, 5. proofs, 6. what is left out, 7. plan.

## 1. Inventory

### IS-04 registry (`internal/amwa/registry`) - modelled first

*State.* `Store`: six maps of typed resources (nodes, devices, sources, flows,
senders, receivers), the bodies as received (`documents`), a staging slot per
id for the body of a POST in progress (`arriving`), the API version each
resource was registered at, the `update_ts` the Query API pages by, the time of
each node's last heartbeat, the client that owns a resource; the listeners of
changes.
*Operations.* POST (register or update), DELETE, heartbeat, the collector
(`gc.go`), the reads of the Query API, the mirror's writes.
*Interactions.* Every HTTP request is a goroutine. All state is under one
RWMutex, but a POST takes it up to six times: owner test, conflict test,
version stamp, staging, the typed Put (and the change event, under the lock),
settling or withdrawal and roll-back, owner. The collector runs on a ticker.
*Hard.* Other requests between the lock regions of a POST; roll-back of a
refused update; a cascade through four levels with two kinds of parent; a
heartbeat against the collector; subscribers who must hear of everything.
*Correct when.* No registration, cascade or eviction leaves a reference dangling;
nothing leaves without cause; the collector finds every node, and only nodes; the document on file and
the typed value agree; whatever is registered can be paged to and has been
announced; nothing staged is left behind; a silent node goes.

### ACP2 consumer (`internal/acp2/consumer`) - modelled

Three layers, one object each.

* *Message ids* (`session.go`, `allocMTID`, `releaseMTID`): a table of 255 marks,
  a mutex and a condition variable; each allocation starts a watcher goroutine
  that broadcasts when the caller's context ends. *Hard:* lost wake-ups,
  cancellation, exhaustion, teardown under load. *Correct when* an id is lent
  to one call at a time, none leaks, and nobody waits for ever for an id that
  is free.
* *Session* (`session.go`): the waiter table `mtid -> channel`, written by
  callers, looked up by the reader, swept when the reader ends; the keep-alive
  probe uses the same table under a fixed id. *Hard:* a reply between the
  look-up and a caller's timeout, a late reply, a hang-up racing the reply
  before it, a close whose wait for the reader runs out. *Correct when* a call
  gets its own reply, or learns that there will be none.
* *Plugin* (`plugin.go`, `reconnect.go`, `keepalive.go`): the current session,
  the active subscriptions, the warm-restart goroutine and the keep-alive
  goroutines, under a mutex that the stop functions give up while they wait.
  *Hard:* the operator's calls in the gap between two attempts; state read
  before such a wait and used after it; handshakes of seconds under the mutex.
  *Correct when* subscriptions survive a loss, every live session is probed and
  watched, calls return, a lost session comes back unless the operator left.

### Probel SW-P-08 session (`internal/probel-sw08p/session/client.go`) - modelled

*State.* The single pending waiter, its per-attempt ACK signals and its reply
slot, the listeners, the socket. *Operations.* `Send` (write, ACK, retry, reply,
timers), `SendCollect` (listen, send, gather until an idle gap), the reader with
`dispatch`, `failPending`, `Close`. *Hard:* the protocol has no message id, so
who gets a frame depends only on who is pending when it arrives; the claim of
the waiter, the filling of its slot and the caller's clean-up are three steps.
*Correct when* a call in flight is pending or has its outcome, and a streamed
table is gathered whole and in order.

### Query API paging and its walk (`paging.go`, `paging_index.go`, `session/query`) - modelled

*State.* Registry: the `update_ts` of every resource, the last one handed out, a
sorted index rebuilt by the first page cut after a change. Controller: the bound
the link it follows carries, the links followed, the ids collected.
*Operations.* Cutting a page from either end and its links; the walk down the
`prev` chain from the newest page and then up the `next` chain.
*Hard.* An exclusive and an inclusive bound; the empty page; a resource that is
updated while the walk is under way; a clock that stands still or is set back.
*Correct when* a walk returns whatever was registered all along, short of its cap
on the pages of a chain.

### Query API subscriptions (`subscriptions.go`) - modelled

*State.* The listed subscriptions with their socket, the rows gathered under a
`max_update_rate_ms` and the timer that flushes them; three kinds of lock: the
store's, under which every change is fanned out, the manager's, and one per
socket. *Operations.* POST, upgrade (look-up, handshake and assignment,
snapshot in chunks, reader), fan-out of a write, flush, DELETE, loss of a socket.
*Interactions.* A write to the store does not end before every subscriber has
been served. *Hard.* A change between assignment, snapshot and its chunks; two
upgrades of one subscription; a release between two regions of the mutex; a
peer that does not read. *Correct when* nobody misses the last change, nothing
goes back in time, a release closes its socket, and the registry goes on.

### Registry mirror (`mirror.go`, `mirror_repair.go`) - modelled

*State.* What it has read of the source (`cache`), what it believes the target
holds (`landed`, `targetNodes`), and work for a repair pass: due now, debounced,
or put off because nothing answered. *Operations.* One watcher per collection
forwards each change; one runner at a time makes a pass over the catalogue, a
node's subtree or refused resources; heartbeats notice nodes the target lost.
*Hard.* Six streams that race each other; a child before its parent; evictions
and their cascade at the target; answers that do not come; a pass that works on
a snapshot. *Correct when* every difference between the two registries is in
somebody's hands, and in the end there is none.

### Node registration client (`internal/amwa/provider/registration_client.go`, `registry_watcher.go`) - modelled

*State.* The registry in use, whether the node is registered, a queue of
resources to POST again; the watcher's names and penalties. *Operations.*
Registration, heartbeats, fail-over, heartbeat-first rejoin, the switch to a
better registry, `Republish`, deregistration at `Close`. *Hard.* Two names of one
registry, a registry that fails and returns in the middle of a cascade, a request
that fails after it took effect, `Close` at any point of a `select` with several
ready cases. *Correct when* the node ends up registered, in full, with the best
registry, and leaves nothing behind.

### Not modelled

| part | state and operations | what makes it hard |
|---|---|---|
| supervisor (`internal/consumer/supervisor.go`) | one session, attempt budget, OnLost/OnReconnected | cancellation, order of callbacks, leaks at return |
| SW-P-02 (`internal/probel-sw02p`) | protects, salvos | owner of a protect, go against cancel |
| health, alarms, polling (`internal/consumer`) | counters per object | late updates |
| transport (`internal/transport`) | deadlines | arming against setting |
| Snell Rollcall, Ember+ | sessions like ACP2's | - |

The remaining connectors (ACP1, RRCS, CCM, CCP, RCP, Kratos, Virtuoso, Prism,
MNSet, Cerebrum NB, SNMP, LLDP, TSL, OSC), the AMWA HTTP facades, the ACP2 walker
and provider, the neutral data layer (export, manifest, datastore, diff) and the
support packages are codecs, conversions, request and response, or I/O.
`PROJECT.json` lists each with the reason.

## 2. Modules

| module | models | state -> code |
|---|---|---|
| `RegistryStore` | store, Registration API handlers, collector | one function over ids for the six maps (`typed`), `docs`, `arriving`, `apiVer`, `stamped` (keys of updateTSByType), `health` as an age in ticks, `owner`, `seen` (what a subscriber of a minor has been told), `pc`/`job` per handler goroutine |
| `NodeLeases` | what the registry promises | `members`, `hangs` (what each resource hangs off), `age` of each node's lease |
| `MtidLoans` | what the id pool promises | `loan`, `free`, `up`: while the session is up an id is free or on loan, once |
| `MtidPool` | the pool | mutex, marks, the condition's notify list, the watchers, `closer` for `closeLocked` |
| `Acp2Session` | calls, probe, waiter table, reader, close | `waiters`, `chan` per call (capacity one), `routing` between look-up and delivery, `wire`, `phase` of the connection |
| `Acp2Plugin` | operator, warm-restart loop, keep-alive | `mu`, `session` (0 is nil), `ann` (closures of the current session), `subs`, `rc`, `loop`, `ka`, `op` |
| `Probel08Client` | Send, SendCollect, reader, Close | `pending`, `reply` slot, `acked`, `listeners`, `reader` inside dispatch, both directions of the wire |
| `RegistryPaging` | page index, page cuts, the controller's walk | `here`, `ts`, `lastTS`, `index`, `dirty`: store and `pageIndex`; `pc`, `cursor`, `anchor`, `seen`, `found`: `fetchListRaw`; `MaxPages` is its cap of 10,000 |
| `RegistrySubscriptions` | subscriptions, fan-out, sockets | `writing`, `collected`, `todo`: the write that holds the store's lock and the subscribers it has still to serve; `mu`: the subscription `removeSub` holds the manager's mutex for; `listed`, `ws`, `pending`, `armed`, `flushes`; `pc`, `of`, `left` per upgrade; `peer`, `wire` per socket |
| `RegistryMirror` | watchers, repair passes, heartbeats | `source`, `stream`, `target` around the mirror; `cache`, `landed`, `targetNodes`; `watch` per collection; `run`, the pass; `owed`, `pending`, `retry`, `orphanTries`, its work |
| `RegistrationClient` | `Run`, `Republish`, `Close`, the watcher's choice | `pc`, `why`, `at`, `item`, `attempts`: where Run stands and for what; `name` is currentRegistry; `advertised`, `disqualified`; `held` per registry; `republish` |

`MC*` modules give constants to a configuration; `*_proofs` modules hold the
theorems. `MtidPool` implements `MtidLoans` through `Loans == INSTANCE ...`, and so
does `Acp2Session`, seen as the loans its calls hold. The pool's operators bear the
prefix `Pool`, because `Acp2Plugin_proofs` holds the proofs about both. `RegistryStore`
implements `NodeLeases` (`Leases`): the up to eight steps of a POST become one entry,
at the typed Put if that changes anything, and all its other steps stutter.

What is one action is what the code does in one lock region, or between two
points at which another goroutine can interfere. So a POST is up to eight
actions (`Post`, `CheckOwner`, `CheckConflict`, `MarkAPIVer`,
`DocumentArrives`, one of three Puts, `DocumentSettled` or `DocumentWithdrawn`
and `RollbackAPIVer`, `SetOwner`), while DELETE, a heartbeat and an eviction are
one each. A page is cut in one action, under the store's lock. A request of the
registration client and its answer are one action, because `Run` sends one at a
time and what changes at the registry while an answer travels is what the next
request would meet anyway; the mirror's requests take effect at the target in one
action and are noted by the mirror in another, because its watchers and its pass
race there. `Acp2Session` takes the pool's contract (the lowest free id, at once or
not yet) instead of its steps, which `MtidPool` checks. `Acp2Plugin` takes a session
to be alive or not; that a lost session releases its callers is `Acp2Session`'s
business.

Abstractions worth knowing:

* `RegistryStore`: senders and receivers are one type `Leaves`; a body is its
  references, a value the types keep, an extra the types drop, and whether it is
  valid. A cascade's change events are not ordered. Ages of heartbeats saturate
  just past the threshold.
* `RegistryPaging`: one resource type and one walker, for walks share nothing but
  the store. Ids and timestamps are numbers. `steady`, the resources that have been
  there since the walk began, and `cut`, the links a walk left unfollowed at its
  cap, are history variables.
* `RegistrySubscriptions`: one topic that every subscription is for. A row is a
  resource and the number of the write it shows; of the rows of a grain the last
  of each resource counts. No send has a deadline, as in the code: a send to a
  stalled peer waits. `newest` and `late` are history variables.
* `RegistryMirror`: one minor, so no version conflicts. A refresh reads one
  collection per step, replaces the cache in a step of its own, and the pass takes
  its snapshot in another, so live rows fall between any two of them. A document is a number and
  its parents are fixed. `astray` is a history variable: the resources the code
  lets go of, each case named where it happens, until the target next holds them
  as the source does.
* `RegistrationClient`: a request that fails may have taken effect (`Failing` with
  either outcome of `held`). `smooth` and `onDuty` are history variables.
* `Acp2Session`: a reply is the call it answers. `phase = "expired"` is a close
  whose wait ran out while the reader was busy; the table invariants say nothing
  there, because the code then hands out ids that are still in use.
* `Acp2Plugin`: the operator is one goroutine that connects once, as the
  command-line verbs do. The closures of a dropped session are forgotten: no
  announce can reach them. Prober and watchdog are one goroutine `ka`.
  `wanted` and `strayed` are history variables.
* `Probel08Client`: every frame matches every call that wants a reply, which is
  the hardest case. A NAK does what the ACK timer does, and the timer may fire at
  any time, so there is no separate NAK. An ACK is taken up when the reader meets
  it, if the pending call is waiting for one: between the reader's look at
  `c.pending` and the closing of the signal nothing that matters can happen that
  could not happen before. `due` is a history variable.

## 3. Runs

All passing runs are exhaustive within their bounds.

| run | bounds | shows |
|---|---|---|
| `store_hierarchy` | 2 nodes, 2 devices, a source, a flow; one POST at a time; DELETE of nodes, devices and the source; v1.0 flows without a device | `ReferencesBreakByDelete`, `NoUnwarrantedRemoval` through moves, cascades and DELETEs out of the middle of the tree |
| `store_documents` | a node, a device; good, invalid and incomplete bodies; 2 values, 2 extras, an authenticated client; threshold 1 tick | `DocumentsMatchTyped` and, with the clock and the collector running, `SilentNodesAreEvicted` |
| `store_race` | two POSTs of any two resources at minors 0 and 1, DELETEs, evictions | `HealthTracksNodes`, `RegisteredIsAnnounced` and `ImplementsLeases` (the store implements `NodeLeases`) under every interleaving of lock regions |
| `paging` | 3 resources, pages of 1, at most 2 pages to a chain, timestamps up to 5 | `WalkFindsAll` through registrations, updates and removals anywhere in the walk: what it misses lies behind a link it left at the cap |
| `subscriptions` | a subscription with a rate and one without, 2 resources, chunks of 1; 3 writes and 1 upgrade, or 1 write, 2 upgrades and a peer that stalls | `NothingMissed`, `SocketsAreHeld`, `NeverGoesBack`, `WritesEnd` |
| `mirror` | a node and its device; 3 changes, or a change and a trouble, or 2 troubles (eviction, refusal, lost answer, socket or reading); gives up after 2 silences | `NothingForgotten`, `KeepsLevel` |
| `registration` | a node and a receiver, 2 registries under 3 names, chain of 2, queue of 1, 2 rewrites, 2 troubles, Close anywhere | `ShutdownLeavesNothing`, `RegistersInTheEnd` |
| `mtid_pool` | 3 callers, 2 ids, every context may end, one teardown | `ImplementsLoans` (the pool implements `MtidLoans`); `WaitersAreServed` (each gets an id) if the device answers, new calls stop coming and no context ends; `TeardownReleasesWaiters` if the device does not answer |
| `session_calls` | 2 calls, a probe, 3 ids of which the last is the probe's, contexts of one call and of the probe may end, hang-up, close, expired close | `WaitersReachable`, `DeadSessionDrains`, `RepliesBeatHangUps`, `MixupsNeedAnAbandonedCall` |
| `plugin_reconnect` | 2 keys, 3 sessions (2 losses), 3 closures before a replay | `SubscriptionsSurvive`, `LiveSessionsAreGuarded`, `OperationsReturn`, `LostSessionsAreReplaced` |
| `probel_sends` | a SendCollect and a Send (with or without a reply wanted), 2 attempts each, 2 frames of any origin, loss, close | `NoOrphanedSend`, `NothingSwallowed`, `StreamsAreComplete`, `StreamsKeepTheirOrder` |
| `plugin_disconnect` | 1 key, 2 sessions | a violation, section 4 |

*Why the bounds are enough.* The registry's hazards involve one resource and its
parents and two requests: two nodes let a device move, one source and one flow close
the diamond of a flow's two parents. A walk in pages of one goes through several
pages over three resources, and timestamps up to five leave room to update what it
has still to read; two pages to a chain let it meet both ends of a chain, the empty
page and the cap, and a resource behind the cap be missed. A subscription's hazards are between one change and one
socket, or two sockets of one subscription and a release; the second subscription is
the one a stalled peer holds up. In the mirror a parent and a child on two streams,
each of which leaves and returns, make every race listed under `astray`; for more
levels and several nodes there is the proof, whose invariant was also tried by
random simulation on two nodes, two devices and a source. Three names for two
registries give the client a twin to avoid and a better registry to switch to; a
queue of one overflows. The pool's hazards need more callers than ids, and one that
waits while two finish. A mix-up in the session needs two calls and one id used
twice; the table needs the probe as third party. Two calls never reach the probe's
id, which is the third; with three calls `WaitersReachable` fails. Two losses make
the plugin's loop go round with state left from the first; two keys let one
subscription's handle hit the other. In SW-P-08 a second frame is what the first
claim can swallow, and a second call what can be disturbed. Bounds in the modules
(`MaxTS`, `Bounds`, `MaxVersion`, `MaxTroubles`, `MaxSessions`, `MaxClosures`,
`MaxFrames`, saturating ages) are named there; `Bounds` pairs numbers, so that a run
can have many changes or many troubles without having both.

*Deadlock* is checked in the store, paging and pool runs. It is off where the
system may stop for good: sessions and clients that are closed and whose calls
are done, a node that has deregistered, a mirror or a registry that has nothing
left to do once the bound on changes is reached.

*Fairness.* Goroutines that can run do (WF of their steps: `Loop`, `Serve`,
`Watch`, `Pass`, timers and heartbeats). Strong fairness is used where a mutex is
granted in turn or a `select` meets two ready channels again and again
(`RepublishItem`): Go's mutex does not starve a waiter and its select chooses at
random. Nothing is assumed of the device, the network or the operator, except
where a property says so: `DeviceAnswers` and `RushEnds` (from some moment on no new call is
made: until then a caller that was woken can be overtaken again and again) are
hypotheses of `WaitersAreServed`, `DialsSucceed` is one of `LostSessionsAreReplaced`, and `RegistersInTheEnd` speaks
of a node that is not closed; they are not part of a specification. There is one
exception: `FairSpec` of `RegistrySubscriptions` has a stalled peer read again or
go, since TCP gives up a connection whose window stays shut. Section 4 says what
happens without it. Troubles, changes and evictions are bounded and under no
fairness, so `KeepsLevel` and `RegistersInTheEnd` are about the time after the
last of them. A call of the pool need never end, so after a teardown only the
broadcast wakes the callers who wait (`TeardownReleasesWaiters`). Ticks and the
collector run for as long as the registry serves.

Each property of a passing run has a mutant in its module (comment `mutant:`):
a definition with a plausible bug in place of the mapped one, which TLC refutes.
They include a bug the code once had (`ClaimKept`, described in the comment in
`dispatch`).

## 4. What the code does not keep

One run is refuted against a comment in the source:

* `plugin_disconnect`: Disconnect between two reconnection attempts finds no
  session and leaves the loop running; it opens a session afterwards
  (`plugin.go:317`).

The rest is in the models, and a property excludes it, names it as an outcome, or
is defined in its module without a run of its own.

*Registry store and Registration API.*

* A refused update of a registered resource drops its API version stamp
  (`store.go:918`), so it is shown at every minor and loses the 409 protection
  (`RegisteredIsVersioned` fails).
* The staging slot is per id (`documents.go:98`), so with two POSTs of one
  resource the first files the body of the second, even one that is refused with a
  400 afterwards (`DocumentsMatchTyped` fails with two handlers). As long as no two
  POSTs of one resource overlap it holds, which `DocumentsMatchAlways` proves.

* A DELETE of a device or a source that something still names is accepted
  (`store.go:558`) and leaves those references dangling. `ReferencesBreakByDelete`
  says that nothing else does; the repository's own node deletes children first
  (`registration_client.go:948`), and `ReferencesStayWhole` is about such clients.

*Query API walk.* A chain is given up after 10,000 pages, without an error
(`client.go:246`), so a longer collection is listed short; `WalkFindsAll` excuses what
lies behind the link that was not followed, and nothing else.

*Query API subscriptions.*

* No send has a write deadline. `removeSub` closes a socket under the manager's
  mutex, and its Close frame waits for the send in progress; `onChange` waits for
  that mutex, or for the socket itself, with the store's write lock held. So one
  controller that stops reading without going stops the registry, for as long as
  TCP bears with it: `WritesEnd` fails once the fairness of `Resume` or `Leave` is
  dropped. The comment at `subscriptions.go:612` considers the reader's side only.
* A sync that fails (`subscriptions.go:604`) returns without the reader that would
  remove the subscription. `subscriptions_push_cov_test.go:397` says that the
  registry "releases the subscription", waits for it, and asserts something else.
* A DELETE between look-up and assignment leaves a socket nobody closes (`late`);
  a second upgrade of a subscription leaves the first socket open, and when that
  one ends, it is the second that is closed with the subscription. So "open/close
  audit events always pair up" (`subscriptions.go:1080`) does not hold.
* The comment at `subscriptions.go:419` says that a *non-persistent* subscription
  is collected when its socket closes; every one is, for `persist` is only reported.
* A row of the snapshot can overwrite a newer one sent while the sync was under
  way, and a flush one of its successor. `NeverGoesBack` excludes both.

*Registry mirror.* `internal/amwa/docs/provider.md:13` says it "copies one registry
into another and keeps it level", `mirror_repair.go:24` that what is not answered
is "not forgotten". Left out of `KeepsLevel` by `astray`, that is, not made level
until something else touches them:

* *Masked*: a node the target lost is registered again, by its own change or for a
  child, or is taken out of the cache, before its heartbeat has seen the 404; its
  other resources are not sent.
* *Swept*: a parent and its child leave and return; the parent's DELETE reaches the
  target after the child has been sent anew from its own stream, and takes it along.
  An eviction does the same to a node no heartbeat watches at that moment, as one
  that was taken out of the cache and has come back since.
* *Overtaken*: a pass, or a watcher, sends a document that has been replaced or
  removed since it was read.
* *Misread*: a reading of the source that is older than what the stream has said
  puts the older document back, or prunes a resource that stays with the target.
* *Severed*: a pass is owed a node's subtree and finds it by following parents
  through the cache; a resource whose device, say, is missing there is not found.
* A removal between two subscriptions of a collection leaves a ghost; a DELETE that
  is not answered is not repeated; what a pass is refused for another reason than a
  lost node is not owed again, nor is the child it skips on that account.

*Registration client.*

* A registration cut short by one failed POST leaves the node on file. The rejoin
  asks with a heartbeat first, is told that the node is known, and never POSTs the
  rest. The comment at `registration_client.go:247`, "The next heartbeat cycle
  re-registers everything anyway", is wrong for the same reason: a heartbeat that
  succeeds registers nothing. `RegistersInTheEnd` promises the whole bundle only
  to runs without such a failure and without an overflow of the queue (`smooth`).
* "*currently* advertised" (`registration_client.go:543`) means ever advertised:
  the watcher forgets no name.
* `Close` in the middle of a registration, or of a switch, leaves what was POSTed
  until the registry's collector takes it (`ShutdownLeavesNothing` is about a node
  on duty).

*ACP2.*

* A call that timed out returns its id at once; the next call gets the same lowest
  id and then the late reply (`session.go:382`; `OwnReply` fails).
  `MixupsNeedAnAbandonedCall` and its theorem say that nothing else can mix up
  replies.
* The keep-alive probe's id is always 3, which the pool hands out too: with three
  calls in flight the probe takes over a waiter (`session.go:333`; `WaitersReachable`
  fails with three calls). With fewer it cannot happen, because a call gets the
  lowest id that is free (`ProbesAreApart`).
* The watcher of a call's context broadcasts without the mutex (`session.go:724`); a
  cancellation between the context test and the wait is lost
  (`CancelledCallersReturn` of `MtidPool` fails with two callers and one id, under
  `PoolFairSpec`).
* `releaseMTID` signals one waiter (`session.go:755`); if that one's context ends at
  the same moment it returns without the id, and another waiter sleeps on although
  an id is free. `WaitersAreServed` fails without its hypothesis that no context ends.
* Disconnect racing a failing attempt uses a session that is nil by then
  (`plugin.go:324`). The model reaches the crash.
* Unsubscribe between Connect and replay can remove another key's closure
  (`plugin.go:634`), Subscribe there registers twice (`reconnect.go:183`).
  `SubscriptionsSurvive` exempts executions with such a stray removal.

*SW-P-08.* The ACK of an earlier attempt counts for a later one (`client.go:784`).

Hazards met while reading that are in no model: a supervisor's attempt budget
across outages; the owner of a resource read before a registration and written
after it (`registration.go:45`); an operator's Connect between two attempts of the
loop, whose session the next attempt drops (`plugin.go:263`); `Close` of an SW-P-08
client from a listener, which waits for the reader it runs on
(`probel-sw08p/session/client.go:398`).

## 5. Proofs

TLAPS checks the theorems for every value of the constants under the modules'
named assumptions. Module by module:

* `RegistryStore_proofs`. `TypeInv` strengthens `TypeOK` with two facts the steps
  rely on: a handler that is not idle carries a job whose body is one of its
  id's (`JobsOK`), and a registered value is the typed part of such a body
  (`Shaped`), which gives every reference its type. On it rest
  `HealthTracksNodesAlways`, `RegisteredIsPagedAlways`, `DevicesHaveNodesAlways`,
  `StagedBodiesAreInFlightAlways`, `RegisteredIsAnnouncedAlways` and the step
  properties `NothingLeavesUnwarranted` and `ReferencesBreakByDeleteAlways`. The last
  is about every DELETE the handler accepts: a reference that a step leaves dangling
  names the one resource the step removed, by a DELETE; a Put refers to what is
  registered, and what a cascade leaves behind refers to nothing it took (the lemma
  `CascadeClosed`). `ReferencesStayWhole` draws the consequence for clients that
  DELETE children first (`ChildrenFirst`): then no reference ever dangles.
  `DocumentsMatchAlways` is about executions in which no two POSTs of one resource
  overlap (`OneAtATime`), with any number of handlers; section 4 shows the need. Its
  invariant, `DocsInv`, follows a body through the staging slot: what a Put finds
  there is its own, and what is left there after it agrees with what is registered.
  `StoreImplementsLeases` is the refinement, with no hypothesis: a Put is an entry
  under parents that are registered at that moment (`PutEnters`), a cascade takes
  exactly what hangs off something it takes (`CascadeExact`), and the collector,
  by `HealthTracksNodes`, exactly the members whose lease has lapsed. A DELETE of a
  device or source on its own is in the abstract specification as it is in the code:
  what hung off it stays (`Drop`).
* `Acp2Session_proofs`. `TypeInv` adds that whoever is under way has an id and that
  the wire carries replies to requests sent. `TableInv`: ids in use are marked and
  distinct, and a registered call is in the table, or, after the sweep, has
  something in its channel. `ReplyInv`: each reply is in one place only (wire,
  reader, channel or result), and is answered for by the call that last held the id.
  The theorems that rest on the table say `[]FewInFlight`: fewer calls are in flight
  at a time than the probe's id, which is 3. One call more, and it can get the
  probe's id, and then the invariants fail. That it suffices is `ProbesAreApart`:
  the ids marked are those of calls in flight, a call gets the lowest that is not
  marked, and if that were the probe's, as many calls as its number would hold all
  the ids up to it, which a pigeon-hole argument refutes. `OwnReplyWithoutTimeouts`
  adds that no context ends: then every reply is one's own. `SessionLends` needs no
  hypothesis: the session, whatever its calls do, implements `MtidLoans`, because
  the ids that calls between allocation and release hold are distinct and marked
  while the session is up.
* `Acp2Plugin_proofs`, second part: the pool. `PoolInv` says that exactly the callers
  in a call have an id, and, while the session is up, that the marks are the ids
  lent. From it type correctness, `MarksAreLoans`, and the refinement: initial states
  map to initial states of `MtidLoans`, and every step to a loan, a return, the
  teardown or a stutter. Since the loans account for the free ids too, a mark that
  nobody holds would break the refinement.
* `RegistryPaging_proofs`. `PagingInv`: timestamps on file are distinct and cover
  what is registered, the index is current unless dirty, links only move away from
  the anchor (`LinksAreFresh`), and a steady resource the walk has not collected is
  still ahead of it (`NothingIsLost`): within the next `prev` page, above the
  anchor, or above the cursor of the `next` chain. An update can only move it above
  them all. What the prev chain leaves at the cap stays behind the link it left until
  an update moves it into the reach of the next chain (`LeftUnread`). Gives `WalkFindsAll` for any
  collection, page size and cap, and `LinksNeverRepeat`: each page's bound is strictly beyond the one before, so
  `seenURL` never cuts a walk short.
* `RegistrySubscriptions_proofs`. `Inv` has two layers. `Shape` says how the
  manager's records fit together: types, the fan-out in progress (`Serves`), the
  gathering of rated subscriptions (`Gathers`), which socket is whose (`Linked`), a
  socket not yet installed has shown nothing (`Fresh`). On it, `Bounded` (no row
  runs ahead of the store), `Gathered` and `Informed` say where the last change of a
  resource is while a subscriber has yet to be shown it. From it `NothingMissed` and
  `SocketsAreHeld`; `NeverGoesBack` is proved step by step from `Shape` and
  `Bounded`. For any number of subscriptions, upgrades, writes and stalls.
* `RegistrationClient_proofs`. As long as every request is answered, whatever any
  registry holds of the node is held by the one the client is registered or
  registering with (`Traceable`), because a registration that fails was refused by a
  registry that had lost the node, and all under it (`NodesHoldResources`, which is
  also the theorem `NothingWithoutTheNode`). With `OnTheWayOut`, that a node closed
  on duty goes straight to its deregistration, it gives `ShutdownLeavesNothing`.
* `Acp2Plugin_proofs`, first part. `Inv` adds to types and the two properties that
  nothing is subscribed before Connect or under the key being dropped
  (`Unsubscribed`), that the loop is told to stop only while Disconnect waits for it
  (`Stopping`), and that a session is lost while it is replaced
  (`LostWhenReplaced`). A replay covers every key because an order of the keys
  without repetition, as long as their number, names each (`OrdersAreWhole`, by
  cardinality; `Replayed`). For any finite set of keys and any number of sessions.
* `Probel08Client_proofs`. `Waiters`: a call in flight is pending or has its outcome
  (`NoOrphanedSend`), a waiter is in one hand at a time (`OneOutcome`), and what a
  call that has not begun, expects nothing or is over cannot have (`Untouched`,
  `Silent`, `Settled`). `Streams`: where each frame of an answer is between the wire
  and the caller (`Unsent`, `Listening`, `Gathering`), that wire, reader, waiter and
  listener hold them in order (`InOrder`), and that the first is the one claimed
  (`FirstIsClaimed`). From them the four safety properties, for any number of calls,
  attempts and frames.

* `RegistryMirror_proofs`. A resource the target does not hold as the source does
  falls into one of three cases, each with its own invariant: the cache is behind the
  source, and a row is still to come (`Heard`); the target holds what the cache no
  longer has, and a watcher is about to send the DELETE (`Removed`); or the target
  lacks what the cache has, and a request, owed work, the pass or a heartbeat will
  bring it (`Handled`). `Handled` sharpens what a run checks in one point: a pass that
  could still run into silence must owe, by its work, whatever it has not sent. The
  layers below: what watchers and pass take for granted (`Steps`), that the last row
  of a resource shows it as the source does (`LastRows`), and that a change makes a
  document nobody has seen (`Dated`). A cascade takes only what has the evicted node
  above it, by induction along the chain of parents over `WellFoundedInduction`'s
  least number, so the tree may have any depth and shape that
  the assumptions allow. `NothingIsForgotten` holds for any number of resources,
  collections, changes, troubles and for any patience. `RestsLevel` is the safety half
  of `KeepsLevel`: a mirror with nothing left in hand has made the target equal to
  the source, but for what is astray.

Theorems about properties that no run is spent on, because they follow from the same
invariant: `RegisteredIsPagedAlways`, `StagedBodiesAreInFlightAlways`,
`DevicesHaveNodesAlways`, `ReferencesStayWhole`, `MarksAreLoansAlways`, `WaitersInFlightAlways`,
`OwnReplyWithoutTimeouts`, `ProbesAreApart`, `SessionLends`, `LinksNeverRepeat`,
`NothingWithoutTheNode`, `RestsLevel`.

Every invariant and action property of a passing run is proved, under the
hypotheses named above, and so are the refinements. Only model-checked is liveness,
which is out of the prover's reach: `SilentNodesAreEvicted`, `WaitersAreServed`,
`TeardownReleasesWaiters`, `OperationsReturn`, `LostSessionsAreReplaced`,
`WritesEnd`, `KeepsLevel`, `RegistersInTheEnd`.

## 6. Not modelled, and why

Codecs, framing and formatting: pure functions with unit tests and fuzzers of
their own. The AN2 handshake of an ACP2 session. Get, Set and Walk of the plugin:
they change caches only. The order of a cascade's events. Data races whose other
outcome is a panic (`sendFrame` against `closeLocked`). For SW-P-08: the refusal of
oversized frames, and liveness of its timers. Paging filters, `limit=0` and the
version views of a page. Filters, params and audit hooks of a subscription, and a
subscription's flush over several topics. The mirror's served Query face, its
version conflicts and the pace of its posts. Discovery: names simply appear. Time: a
timer may fire at any moment, so no property depends on a duration.

## 7. Plan

In order, with the properties each is for:

1. `Supervisor`: one session open at most, none leaked at return, callbacks
   alternate, attempt budget per outage; abstract specification "up or
   recovering"; proof of the invariants.
2. `RegistryCascade`, composed with `RegistrySubscriptions`: with the order of a
   cascade's events, a subscriber's view converges to the registry.
3. `Acp2Connect`: handshake and slot events under the session mutex (a slot event
   during the handshake blocks the reader on the mutex Connect holds).
4. `RegistryMirror` with several minors and their conflicts.
5. `ProbelProvider` (SW-P-02 protects and salvos), `TransportIdle`.
