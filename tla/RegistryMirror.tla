--------------------------- MODULE RegistryMirror ---------------------------
(***************************************************************************)
(* The registry-to-registry bridge (internal/amwa/registry/mirror.go and   *)
(* mirror_repair.go): it follows the catalogue of a source registry over   *)
(* one Query API subscription per collection and keeps a target registry   *)
(* level with it.                                                          *)
(*                                                                         *)
(* One watcher per collection handles its grain rows one at a time; one    *)
(* runner at a time makes the repair passes; the heartbeat loop notices    *)
(* nodes the target has lost.  Each request reaches the target in a step   *)
(* of its own, and the mirror takes note of its success in a later one.    *)
(* Everything is registered at one minor, so version conflicts, the lower  *)
(* minors' views and the served face are left out; so is the end of the    *)
(* run.  Documents are numbers, and name the parents Parents gives.        *)
(***************************************************************************)
EXTENDS Naturals, Sequences, FiniteSets

CONSTANTS
  Order,        \* the resources by collection, parents' collections first
  Topic,        \* the collection of a resource, a number; nodes are 1
  Parents,      \* the resources a resource names
  GiveUpAfter,  \* mirrorGiveUpAfter
  OrphanTries,  \* mirrorOrphanTries
  Bounds,       \* bound of the model: how many changes of the source go with
                \* how many troubles, as pairs
  None          \* no document

Resources == {Order[k] : k \in 1 .. Len(Order)}
Topics == {Topic[r] : r \in Resources}
Nodes == {r \in Resources : Topic[r] = 1}

ASSUME OrderAssumption ==
  /\ Order \in Seq(Resources) /\ Order # <<>>
  /\ \A j, k \in 1 .. Len(Order) :
       /\ Order[j] = Order[k] => j = k
       /\ Topic[Order[j]] < Topic[Order[k]] => j < k
       /\ Order[j] \in Parents[Order[k]] => Topic[Order[j]] < Topic[Order[k]]
ASSUME TopicAssumption ==
  /\ \A r \in Resources : Topic[r] \in Nat /\ Parents[r] \subseteq Resources
  /\ Topics = 1 .. Topic[Order[Len(Order)]]
ASSUME LimitsAssumption ==
  /\ GiveUpAfter \in Nat \ {0} /\ OrphanTries \in Nat
  /\ Bounds \subseteq Nat \X Nat /\ Bounds # {}
  /\ None \notin Nat

VARIABLES
  source,       \* the source's catalogue
  stream,       \* per collection: the rows on their way
  filled,       \* Run's first fill is over
  listening,    \* the collections whose socket is up
  cache, landed, targetNodes,
  watch,        \* per collection: the request its watcher is making
  run,          \* the pass in progress
  owed, pending, retry,  \* work for a pass: next, debounced, unanswered
  orphanTries,
  target,       \* the target's catalogue
  changes,      \* of the source, so far
  troubles,     \* evictions, lost answers, lost sockets and readings, so far
  astray        \* resources a race has taken off course: see below

mirror == <<cache, landed, targetNodes>>
work == <<owed, pending, retry, orphanTries>>
env == <<source, stream, filled, listening, changes>>
vars == <<env, mirror, watch, run, work, target, troubles, astray>>

Docs == UNION {0 .. b[1] : b \in Bounds}
Within(c, t) == \E b \in Bounds : c <= b[1] /\ t <= b[2]
Catalogues == [Resources -> Docs \cup {None}]
Work == [all : BOOLEAN, nodes : SUBSET Nodes, refused : SUBSET Resources]
Nothing == [all |-> FALSE, nodes |-> {}, refused |-> {}]

(* owedWork.add                                                            *)
Add(w, more) == [all |-> w.all \/ more.all, nodes |-> w.nodes \cup more.nodes,
                 refused |-> w.refused \cup more.refused]
WholeCatalogue == [Nothing EXCEPT !.all = TRUE]
SubtreeOf(n) == [Nothing EXCEPT !.nodes = {n}]
Refused(rs) == [Nothing EXCEPT !.refused = rs]

Idle == [pc |-> "idle", res |-> Order[1], doc |-> None]
Rest == [pc |-> "idle", at |-> 0, work |-> Nothing, docs |-> [r \in Resources |-> None],
         todo |-> {}, refused |-> {}, unanswered |-> {}, waiting |-> {}, silent |-> 0]

Row == [res : Resources, doc : Docs \cup {None}]
Requests == [pc : {"idle", "post", "posted", "delete", "deleted"},
             res : Resources, doc : Docs \cup {None}]
Runs == [pc : {"idle", "list", "install", "snapshot", "send", "post", "posted"},
         at : Topics \cup {0}, work : Work, docs : Catalogues,
         todo : SUBSET Resources, refused : SUBSET Resources,
         unanswered : SUBSET Resources, waiting : SUBSET Resources,
         silent : 0 .. GiveUpAfter]

TypeOK ==
  /\ source \in Catalogues /\ cache \in Catalogues /\ target \in Catalogues
  /\ stream \in [Topics -> Seq(Row)]
  /\ filled \in BOOLEAN /\ listening \subseteq Topics
  /\ landed \subseteq Resources /\ targetNodes \subseteq Nodes
  /\ watch \in [Topics -> Requests] /\ run \in Runs
  /\ owed \in Work /\ pending \in Work /\ retry \in Work
  /\ orphanTries \in [Resources -> 0 .. OrphanTries]
  /\ changes \in Nat /\ troubles \in Nat /\ Within(changes, troubles)
  /\ astray \subseteq Resources

-----------------------------------------------------------------------------
(* A resource with all its ancestors.                                      *)
Chain ==
  LET chain[r \in Resources] == {r} \cup UNION {chain[p] : p \in Parents[r]}
  IN chain
Under(r) == {c \in Resources : r \in Chain[c]}
Known(docs) == {r \in Resources : docs[r] # None}

(* catalogue.subtree                                                       *)
NodesOnly(nodes, docs) == nodes \cap Known(docs) \* mutant: the node without its resources
Subtree(nodes, docs) ==
  LET under[r \in Resources] ==
        docs[r] # None /\ (r \in nodes \/ \E p \in Parents[r] : under[p])
  IN {r \in Resources : under[r]}

(* catalogue.scope: what to send, and what has to wait for an ancestor.    *)
Orphans(w, docs) == {r \in w.refused \cap Known(docs) : ~(Chain[r] \subseteq Known(docs))}
Want(w, docs) ==
  Subtree(w.nodes, docs)
    \cup UNION {Chain[r] : r \in (w.refused \cap Known(docs)) \ Orphans(w, docs)}

(* forgetUnderLocked: what the mirror takes to have gone with r.           *)
Gone(r) ==
  LET gone[c \in Resources] ==
        c = r \/ (c \in landed /\ cache[c] # None /\ \E p \in Parents[c] : gone[p])
  IN {c \in Resources : gone[c]}

Init ==
  /\ source = [r \in Resources |-> 0]
  /\ stream = [t \in Topics |-> <<>>]
  /\ filled = FALSE /\ listening = {}
  /\ cache = [r \in Resources |-> None]
  /\ target = [r \in Resources |-> None]
  /\ landed = {} /\ targetNodes = {}
  /\ watch = [t \in Topics |-> Idle]
  /\ run = Rest
  /\ owed = WholeCatalogue /\ pending = Nothing /\ retry = Nothing
  /\ orphanTries = [r \in Resources |-> 0]
  /\ changes = 0 /\ troubles = 0 /\ astray = {}

-----------------------------------------------------------------------------
(* The target.  It refuses a child of a parent it does not hold.  With a   *)
(* node goes all that is under it; with another resource what is under it  *)
(* may go (other registries) or stay (this one).                           *)
Accepts(r) == Parents[r] \subseteq Known(target)
Put(r, doc) == [target EXCEPT ![r] = doc]
Cascades(r) == IF r \in Nodes THEN {Under(r)} ELSE {{r}, Under(r)}
Without(docs, gone) == [c \in Resources |-> IF c \in gone THEN None ELSE docs[c]]

Trouble == Within(changes, troubles + 1) /\ troubles' = troubles + 1

Foremost(rs) == Order[CHOOSE k \in 1 .. Len(Order) :
                        Order[k] \in rs /\ \A j \in 1 .. k - 1 : Order[j] \notin rs]
Current == Foremost(run.todo)

(* The target has lost a node that is heartbeated, or about to be: the     *)
(* next heartbeat will tell, and all that is under the node be owed.       *)
Posted(n) ==
  \/ \E t \in Topics : watch[t].pc = "posted" /\ watch[t].res = n
  \/ run.pc = "posted" /\ Current = n
Watched(n) == n \in targetNodes \/ (n \in Nodes /\ Posted(n))
Lost(n) == Watched(n) /\ target[n] = None /\ cache[n] # None
Unnoticed(r) == \E n \in Chain[r] \cap Nodes : Lost(n)

(* astray: what the code lets go of, until the target next holds it as the *)
(* source does.  Of the resources under r, those the mirror knows as the   *)
(* source shows them:                                                      *)
(*   Masked     r is a node registered again, or taken out of the cache,   *)
(*              before its heartbeat has told that it was lost;            *)
(*   Swept      gone with a parent that left and comes back on another     *)
(*              stream, or with a node no heartbeat watches (Evict);       *)
(* and Overtaken, a document that has been replaced or removed since it    *)
(* was read.  Further below: Misread, Severed, a removal that falls        *)
(* between two subscriptions, a DELETE that is not answered, and what a    *)
(* pass is refused, or skips, for another reason than a lost node.         *)
Settled(r) == {c \in Under(r) : cache[c] # None /\ cache[c] = source[c]}
Masked(r) == IF Lost(r) THEN Settled(r) \ {r} ELSE {}
Swept(gone) == {c \in gone : target[c] # None /\ cache[c] # None /\ cache[c] = source[c]}
Overtaken(r, doc) == IF cache[r] # doc THEN {r} ELSE {}
Righted(r, doc) == IF cache[r] = doc /\ source[r] = doc THEN {r} ELSE {}
AfterPost(r, doc) == (astray \ Righted(r, doc)) \cup Masked(r) \cup Overtaken(r, doc)
AfterDelete(r, gone) == (astray \ Righted(r, None)) \cup Swept(gone)

-----------------------------------------------------------------------------
(* The source.                                                             *)
(* The rows of a collection for the resources rs, in any order: the        *)
(* source's walk of its maps has none.                                     *)
Orders(rs) == {o \in [1 .. Cardinality(rs) -> rs] : \A j, k \in DOMAIN o : o[j] = o[k] => j = k}
Of(t, rs) == {r \in rs : Topic[r] = t}
Rows(o, docs) == [k \in DOMAIN o |-> [res |-> o[k], doc |-> docs[o[k]]]]

Change(rs) ==
  /\ Within(changes + 1, troubles)
  /\ changes' = changes + 1
  /\ \E o \in [Topics -> UNION {Orders(Of(t, rs)) : t \in Topics}] :
       /\ \A t \in Topics : o[t] \in Orders(Of(t, rs))
       /\ stream' = [t \in Topics |-> IF t \in listening
                                      THEN stream[t] \o Rows(o[t], source') ELSE <<>>]
  /\ UNCHANGED <<filled, listening, mirror, watch, run, work, target, troubles, astray>>

(* A resource is registered, or its document changes.                      *)
Register(r) ==
  /\ Parents[r] \subseteq Known(source)
  /\ source' = [source EXCEPT ![r] = changes + 1]
  /\ Change({r})

Unregister(r) ==
  /\ source[r] # None
  /\ \E gone \in Cascades(r) :
       /\ source' = Without(source, gone)
       /\ Change(gone \cap Known(source))

-----------------------------------------------------------------------------
(* watchTopic: after the fill, the subscription opens with the catalogue   *)
(* as it is.  A removal that fell in the gap is never heard of.            *)
Subscribe(t) ==
  /\ t \notin listening /\ watch[t].pc = "idle"
  /\ filled \/ (run.pc = "idle" /\ owed = Nothing)
  /\ filled' = TRUE
  /\ listening' = listening \cup {t}
  /\ \E o \in Orders(Of(t, Known(source))) :
       stream' = [stream EXCEPT ![t] = Rows(o, source)]
  /\ astray' = astray \cup {r \in Known(cache) \ Known(source) : Topic[r] = t}
  /\ UNCHANGED <<source, changes, mirror, watch, run, work, target, troubles>>

LoseSocket(t) ==
  /\ t \in listening
  /\ Trouble
  /\ listening' = listening \ {t}
  /\ stream' = [stream EXCEPT ![t] = <<>>]
  /\ UNCHANGED <<source, filled, changes, mirror, watch, run, work, target, astray>>

(* heldForParents                                                          *)
Held(r) == ~(Parents[r] \subseteq landed)

Request(t, step, row) == watch' = [watch EXCEPT ![t] = [pc |-> step, res |-> row.res, doc |-> row.doc]]

(* forwardRow, for a row added or modified                                 *)
Land(t, row) ==
  IF cache[row.res] = row.doc
  THEN UNCHANGED <<cache, pending, watch>>
  ELSE /\ cache' = [cache EXCEPT ![row.res] = row.doc]
       /\ IF Held(row.res)
          THEN pending' = Add(pending, Refused({row.res})) /\ UNCHANGED watch
          ELSE Request(t, "post", row) /\ UNCHANGED pending

ForwardRow(t) ==
  /\ t \in listening /\ watch[t].pc = "idle" /\ stream[t] # <<>>
  /\ stream' = [stream EXCEPT ![t] = Tail(@)]
  /\ LET row == Head(stream[t]) IN
       \/ row.doc # None /\ Land(t, row) /\ UNCHANGED <<landed, astray>>
       \/ /\ row.doc = None /\ cache[row.res] = None
          /\ UNCHANGED <<cache, landed, pending, watch, astray>>
       \/ /\ row.doc = None /\ cache[row.res] # None
          /\ cache' = [cache EXCEPT ![row.res] = None]
          /\ landed' = landed \ {row.res}
          /\ Request(t, "delete", row)
          /\ astray' = astray \cup Masked(row.res)
          /\ UNCHANGED pending
  /\ UNCHANGED <<source, filled, listening, changes, targetNodes, run, owed, retry,
                 orphanTries, target, troubles>>

(* postResource, on the live path: a refusal arms the repair, a silence    *)
(* the retry.                                                              *)
RefusalOwed(r) == pending' = Add(pending, Refused({r}))

LivePost(t) ==
  LET r == watch[t].res
      doc == watch[t].doc
  IN /\ watch[t].pc = "post"
     /\ \/ /\ Accepts(r)
           /\ target' = Put(r, doc)
           /\ astray' = AfterPost(r, doc)
           /\ Request(t, "posted", watch[t])
           /\ UNCHANGED <<pending, retry, troubles>>
        \/ /\ ~Accepts(r)
           /\ RefusalOwed(r)
           /\ watch' = [watch EXCEPT ![t] = Idle]
           /\ UNCHANGED <<target, astray, retry, troubles>>
        \/ /\ Trouble
           /\ astray' = astray \cup {r}
           /\ watch' = [watch EXCEPT ![t] = Idle]
           /\ UNCHANGED <<target, pending, retry>>
        \/ /\ Trouble
           /\ retry' = Add(retry, Refused({r}))
           /\ watch' = [watch EXCEPT ![t] = Idle]
           /\ \/ UNCHANGED <<target, astray>>
              \/ Accepts(r) /\ target' = Put(r, doc) /\ astray' = AfterPost(r, doc)
           /\ UNCHANGED pending
     /\ UNCHANGED <<env, mirror, run, owed, orphanTries>>

NoteLanded(r) ==
  /\ landed' = landed \cup {r}
  /\ targetNodes' = targetNodes \cup ({r} \cap Nodes)
  /\ UNCHANGED cache

LivePosted(t) ==
  /\ watch[t].pc = "posted"
  /\ NoteLanded(watch[t].res)
  /\ watch' = [watch EXCEPT ![t] = Idle]
  /\ UNCHANGED <<env, run, work, target, troubles, astray>>

(* deleteResource: one that is not answered is not repeated.               *)
LiveDelete(t) ==
  LET r == watch[t].res IN
  /\ watch[t].pc = "delete"
  /\ \E gone \in Cascades(r) :
       \/ /\ target' = Without(target, gone)
          /\ astray' = AfterDelete(r, gone)
          /\ Request(t, "deleted", watch[t])
          /\ UNCHANGED troubles
       \/ /\ Trouble
          /\ watch' = [watch EXCEPT ![t] = Idle]
          /\ \/ target' = Without(target, gone) /\ astray' = AfterDelete(r, gone)
             \/ astray' = astray \cup {r} /\ UNCHANGED target
  /\ UNCHANGED <<env, mirror, run, work>>

LiveDeleted(t) ==
  LET r == watch[t].res IN
  /\ watch[t].pc = "deleted"
  /\ landed' = landed \ Gone(r)
  /\ targetNodes' = targetNodes \ {r}
  /\ watch' = [watch EXCEPT ![t] = Idle]
  /\ astray' = astray \cup (IF Lost(r) /\ ~Posted(r) THEN Settled(r) ELSE {})
  /\ UNCHANGED <<env, cache, run, work, target, troubles>>

-----------------------------------------------------------------------------
(* The timers of scheduleRepair and retryLater.                            *)
RepairDue ==
  /\ pending # Nothing
  /\ owed' = Add(owed, pending)
  /\ pending' = Nothing
  /\ UNCHANGED <<env, mirror, watch, run, retry, orphanTries, target, troubles, astray>>

RetryDue ==
  /\ retry # Nothing
  /\ owed' = Add(owed, retry)
  /\ retry' = Nothing
  /\ UNCHANGED <<env, mirror, watch, run, pending, orphanTries, target, troubles, astray>>

(* heartbeatLoop: a node the target answers 404 for, and the probe of a    *)
(* target that holds none.                                                 *)
Heartbeat(n) ==
  /\ n \in targetNodes /\ cache[n] # None /\ target[n] = None
  /\ targetNodes' = targetNodes \ {n}
  /\ owed' = Add(owed, SubtreeOf(n))
  /\ UNCHANGED <<env, cache, landed, watch, run, pending, retry, orphanTries,
                 target, troubles, astray>>

NothingAccepted == Nodes \cap Known(cache) # {} /\ targetNodes \cap Known(cache) = {}

Probe ==
  /\ NothingAccepted /\ ~owed.all
  /\ owed' = Add(owed, WholeCatalogue)
  /\ UNCHANGED <<env, mirror, watch, run, pending, retry, orphanTries, target,
                 troubles, astray>>

-----------------------------------------------------------------------------
(* waitForParents                                                          *)
Waited(orphans) == [r \in Resources |-> IF r \in orphans THEN orphanTries[r] + 1
                                                         ELSE orphanTries[r]]
OnceMore(orphans) == \E r \in orphans : orphanTries[r] > OrphanTries \* mutant: one try too many
WaitIsOver(orphans) == \E r \in orphans : orphanTries[r] >= OrphanTries
NoTries == [r \in Resources |-> 0]

Sending(w, docs, todo) ==
  [Rest EXCEPT !.pc = "send", !.work = w, !.docs = docs, !.todo = todo]
Listing == [Rest EXCEPT !.pc = "list", !.at = 1, !.work = WholeCatalogue]

(* Severed: what is under a node that is owed, with an ancestor in between *)
(* that the cache does not have.                                           *)
Severed(nodes) ==
  {r \in Resources :
     /\ Chain[r] \cap nodes # {} /\ ~(Chain[r] \subseteq Known(cache))
     /\ cache[r] # None /\ cache[r] = source[r] /\ target[r] # cache[r]}

(* runOwed takes what is owed, and pass plans it on a snapshot.            *)
Plan ==
  /\ run.pc = "idle" /\ owed # Nothing
  /\ owed' = Nothing
  /\ LET orphans == Orphans(owed, cache)
         want == Want(owed, cache)
     IN \/ owed.all /\ run' = Listing /\ UNCHANGED <<retry, orphanTries, astray>>
        \/ /\ ~owed.all /\ WaitIsOver(orphans)
           /\ run' = Listing
           /\ orphanTries' = NoTries
           /\ UNCHANGED <<retry, astray>>
        \/ /\ ~owed.all /\ ~WaitIsOver(orphans)
           /\ orphanTries' = IF orphans = {} THEN NoTries ELSE Waited(orphans)
           /\ retry' = Add(retry, Refused(orphans))
           /\ run' = IF want = {} THEN Rest ELSE Sending(owed, cache, want)
           /\ astray' = astray \cup Severed(owed.nodes)
  /\ UNCHANGED <<env, mirror, watch, pending, target, troubles>>

Queued(r) == \E k \in 1 .. Len(stream[Topic[r]]) : stream[Topic[r]][k].res = r

(* Pruned by a reading of the source: a resource it lacks, which stays     *)
(* with the target; or put back to a document the stream has gone beyond.  *)
Misread(docs) ==
  {r \in Resources :
     \/ cache[r] # None /\ docs[r] = None
     \/ docs[r] # source[r] /\ Topic[r] \in listening /\ ~Queued(r)}

(* refreshCacheFromSource reads one collection after the other, and then   *)
(* puts what it has read in the cache's place: live rows that come between *)
(* are lost on the cache.  A reading that fails leaves the cache as it is. *)
(* Either way pass takes its snapshot of what the cache has by then.       *)
Read == [r \in Resources |-> IF Topic[r] = run.at THEN source[r] ELSE run.docs[r]]
Refreshed == [Rest EXCEPT !.pc = "snapshot", !.work = run.work]

Refresh ==
  /\ run.pc = "list"
  /\ run' = IF run.at + 1 \in Topics
            THEN [run EXCEPT !.docs = Read, !.at = @ + 1]
            ELSE [run EXCEPT !.docs = Read, !.pc = "install"]
  /\ UNCHANGED <<env, mirror, watch, work, target, troubles, astray>>

Install ==
  /\ run.pc = "install"
  /\ cache' = run.docs
  /\ landed' = landed \cap Known(run.docs)
  /\ targetNodes' = targetNodes \cap Known(run.docs)
  /\ astray' = astray \cup Misread(run.docs)
  /\ run' = Refreshed
  /\ UNCHANGED <<env, watch, work, target, troubles>>

RefreshFails ==
  /\ run.pc = "list"
  /\ Trouble
  /\ run' = Refreshed
  /\ UNCHANGED <<env, mirror, watch, work, target, astray>>

Snapshot ==
  /\ run.pc = "snapshot"
  /\ run' = Sending(run.work, cache, Known(cache))
  /\ UNCHANGED <<env, mirror, watch, work, target, troubles, astray>>

-----------------------------------------------------------------------------
Done(step) == [run EXCEPT !.pc = step, !.todo = @ \ {Current}]
GivenUp == run.silent = GiveUpAfter

(* stale: the target does not hold a parent the source shows.              *)
Waits(r) == ~(Parents[r] \cap Known(cache) \subseteq landed)

(* pass, from one resource to the next.  What waits is owed again; a child *)
(* is not sent when its parent was refused.                                *)
PassStep ==
  /\ run.pc = "send" /\ run.todo # {} /\ ~GivenUp
  /\ LET r == Current IN
       CASE cache[r] = None -> run' = Done("send") /\ UNCHANGED astray
         [] cache[r] # None /\ Parents[r] \cap run.refused # {} ->
              /\ run' = [Done("send") EXCEPT !.refused = @ \cup {r}]
              /\ astray' = astray \cup (IF Unnoticed(r) THEN {} ELSE {r})
         [] cache[r] # None /\ Waits(r) /\ Parents[r] \cap (run.refused \cup run.unanswered) = {} ->
              run' = [Done("send") EXCEPT !.waiting = @ \cup {r}] /\ UNCHANGED astray
         [] OTHER -> run' = [run EXCEPT !.pc = "post"] /\ UNCHANGED astray
  /\ UNCHANGED <<env, mirror, watch, work, target, troubles>>

PassPost ==
  LET r == Current
      doc == run.docs[r]
  IN /\ run.pc = "post"
     /\ \/ /\ Accepts(r)
           /\ target' = Put(r, doc)
           /\ astray' = AfterPost(r, doc)
           /\ run' = [run EXCEPT !.pc = "posted", !.silent = 0]
           /\ UNCHANGED troubles
        \/ /\ ~Accepts(r)
           /\ run' = [Done("send") EXCEPT !.refused = @ \cup {r}, !.silent = 0]
           /\ astray' = astray \cup (IF Unnoticed(r) THEN {} ELSE {r})
           /\ UNCHANGED <<target, troubles>>
        \/ /\ Trouble
           /\ run' = [Done("send") EXCEPT !.refused = @ \cup {r}, !.silent = 0]
           /\ astray' = astray \cup {r}
           /\ UNCHANGED target
        \/ /\ Trouble
           /\ run' = [Done("send") EXCEPT !.unanswered = @ \cup {r}, !.silent = @ + 1]
           /\ \/ UNCHANGED <<target, astray>>
              \/ Accepts(r) /\ target' = Put(r, doc) /\ astray' = AfterPost(r, doc)
     /\ UNCHANGED <<env, mirror, watch, work>>

PassPosted ==
  /\ run.pc = "posted"
  /\ NoteLanded(Current)
  /\ run' = Done("send")
  /\ UNCHANGED <<env, watch, work, target, troubles, astray>>

(* What went unanswered is owed again: all of the work if the target has   *)
(* fallen silent.                                                          *)
OnlySilence == IF GivenUp THEN run.work ELSE Nothing \* mutant: single lost answers are ignored
Unanswered == IF GivenUp THEN run.work ELSE Refused(run.unanswered)

PassEnds ==
  /\ run.pc = "send" /\ (run.todo = {} \/ GivenUp)
  /\ run' = Rest
  /\ retry' = Add(retry, Unanswered)
  /\ pending' = Add(pending, Refused(run.waiting))
  /\ UNCHANGED <<env, mirror, watch, owed, orphanTries, target, troubles, astray>>

-----------------------------------------------------------------------------
(* The target restarts, or has missed the heartbeats of a node.            *)
Evict(n) ==
  /\ target[n] # None
  /\ Trouble
  /\ target' = Without(target, Under(n))
  /\ astray' = astray \cup IF Watched(n) /\ cache[n] # None THEN {} ELSE Swept(Under(n))
  /\ UNCHANGED <<env, mirror, watch, run, work>>

Pass == Plan \/ Refresh \/ Install \/ Snapshot \/ PassStep \/ PassPost \/ PassPosted \/ PassEnds
Watch(t) == Subscribe(t) \/ ForwardRow(t) \/ LivePost(t) \/ LivePosted(t)
            \/ LiveDelete(t) \/ LiveDeleted(t)

Next ==
  \/ \E r \in Resources : Register(r) \/ Unregister(r)
  \/ \E t \in Topics : Watch(t) \/ LoseSocket(t)
  \/ RepairDue \/ RetryDue \/ Probe
  \/ \E n \in Nodes : Heartbeat(n) \/ Evict(n)
  \/ Pass \/ RefreshFails

Spec == Init /\ [][Next]_vars

Fairness ==
  /\ \A t \in Topics : WF_vars(Watch(t))
  /\ \A n \in Nodes : WF_vars(Heartbeat(n))
  /\ WF_vars(RepairDue) /\ WF_vars(RetryDue) /\ WF_vars(Probe) /\ WF_vars(Pass)
FairSpec == Spec /\ Fairness

-----------------------------------------------------------------------------
(* What is still to be done about a resource: a row to come, a request of  *)
(* its watcher, a pass that owes it or is at it, or a heartbeat that will  *)
(* find the target without it.                                             *)
ToHear(r) == Topic[r] \notin listening \/ Queued(r)
Sent(r) == watch[Topic[r]].res = r /\ watch[Topic[r]].pc \in {"post", "delete"}

(* What is under a node that is owed, and what was refused.                *)
Covers(w, r) == w.all \/ Chain[r] \cap w.nodes # {} \/ r \in w.refused
Owed(r) == Covers(Add(Add(owed, pending), retry), r)
Refreshing == run.pc \in {"list", "install", "snapshot"}
Passing(r) == Refreshing \/ r \in run.todo \cup run.unanswered \cup run.waiting

(* Wherever the target differs from the source, the mirror has something   *)
(* in hand that will deal with it, whatever went wrong: refused, held,     *)
(* unanswered and orphaned resources and evicted nodes are all owed to     *)
(* some pass (mirror_repair.go:24).  The exceptions are what astray lists. *)
NothingForgotten ==
  \A r \in Resources :
    target[r] # source[r] =>
      r \in astray \/ ToHear(r) \/ Sent(r) \/ Owed(r) \/ Passing(r) \/ Unnoticed(r)

(* The mirror keeps the target level with the source                       *)
(* (internal/amwa/docs/provider.md:13): once both are left alone the       *)
(* target comes to hold exactly what the source holds, whatever changed,   *)
(* was evicted, held back, refused or left unanswered before, but for the  *)
(* resources that are astray.                                              *)
KeepsLevel == <>[](\A r \in Resources \ astray : target[r] = source[r])
===========================================================================
