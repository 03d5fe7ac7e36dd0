--------------------------- MODULE RegistryStore ---------------------------
(***************************************************************************)
(* The IS-04 registry's in-memory resource catalogue                       *)
(* (internal/amwa/registry/store.go, documents.go) driven by the           *)
(* Registration API's request handlers (registration.go) and by the        *)
(* heartbeat collector (gc.go).                                            *)
(*                                                                         *)
(* Every HTTP request runs on its own goroutine.  A POST takes the store's *)
(* lock several times and releases it in between, so its lock regions are  *)
(* separate actions; DELETE, the heartbeat and the collector hold the lock *)
(* once and are one action each.                                           *)
(*                                                                         *)
(* Resources are registered under UUIDs, unique across the six types, so   *)
(* the six maps of the code are one function over Ids.  Leaves stands for  *)
(* senders and receivers, which the store treats alike.                    *)
(***************************************************************************)
EXTENDS Naturals, FiniteSets

CONSTANTS
  Nodes, Devices, Sources, Flows, Leaves, \* resource ids, by type
  Bodies,      \* [Ids -> sets of bodies]: what clients may POST for an id
  Minors,      \* the API minors served, as numbers: v1.0 is 0
  Clients,     \* client_ids of authenticated requests
  Handlers,    \* goroutines serving POST requests
  Deletable,   \* ids clients send explicit DELETEs for
  StaleAfter,  \* DefaultStaleThreshold, in collector ticks
  Absent       \* no value: a missing map key, an empty string

Ids == Nodes \cup Devices \cup Sources \cup Flows \cup Leaves

Ref == Ids \cup {Absent}
Forms == {"good", "invalid", "incomplete"}

(* The reference and value fields of a registered resource: what the typed *)
(* structs keep of a body.                                                 *)
Typed(b) == [up |-> b.up, src |-> b.src, val |-> b.val]

ASSUME TypesAssumption ==
  /\ Nodes \cap (Devices \cup Sources \cup Flows \cup Leaves) = {}
  /\ Devices \cap (Sources \cup Flows \cup Leaves) = {}
  /\ Sources \cap (Flows \cup Leaves) = {}
  /\ Flows \cap Leaves = {}

(* A device names a node, a source, sender or receiver names a device, a   *)
(* flow names a source and, except at v1.0, a device.                      *)
ASSUME BodiesAssumption ==
  /\ Bodies \in [Ids -> SUBSET UNION {Bodies[i] : i \in Ids}]
  /\ \A i \in Ids : \A b \in Bodies[i] :
       /\ b.form \in Forms
       /\ i \in Nodes => b.up = Absent
       /\ i \in Devices => b.up \in Nodes
       /\ i \in Sources \cup Leaves => b.up \in Devices
       /\ i \in Flows => b.up \in Devices \cup {Absent} /\ b.src \in Sources

ASSUME ConstantsAssumption ==
  /\ Minors \subseteq Nat
  /\ StaleAfter \in Nat
  /\ Deletable \subseteq Ids

(* A request as its handler carries it from one lock region to the next.   *)
AllBodies == UNION {Bodies[i] : i \in Ids}
Jobs == [id : Ids, body : AllBodies, minor : Minors,
         client : Clients \cup {Absent}]

ASSUME AbsentAssumption ==
  /\ Absent \notin Ids \cup Minors \cup Clients \cup Nat
  /\ Absent \notin AllBodies \cup Jobs
  /\ \A b \in AllBodies : Typed(b) # Absent

VARIABLES
  typed,     \* nodes .. receivers: the typed value registered under an id
  docs,      \* documents: the body on file
  arriving,  \* arriving: the body staged by a POST, one slot per id
  apiVer,    \* apiVerByType: the minor an id is stamped with
  stamped,   \* ids holding an update_ts: the keys of updateTSByType
  health,    \* node -> ticks since its last heartbeat; Absent: no entry
  owner,     \* owners: client_id that registered an id
  pc,        \* where each handler stands between two lock regions
  job,       \* the request each handler serves
  seen       \* minor -> ids a Query WS subscriber of that minor was told of

store == <<typed, docs, arriving, apiVer, stamped, health, owner, seen>>
vars == <<store, pc, job>>

Registered == {i \in Ids : typed[i] # Absent}
TypedValues == {Typed(b) : b \in AllBodies}
Steps == {"idle", "owner", "check", "mark", "arrive", "put",
          "withdraw", "rollback", "settle", "own"}
TypeOK ==
  /\ typed \in [Ids -> TypedValues \cup {Absent}]
  /\ docs \in [Ids -> AllBodies \cup {Absent}]
  /\ arriving \in [Ids -> AllBodies \cup {Absent}]
  /\ apiVer \in [Ids -> Minors \cup {Absent}]
  /\ stamped \in SUBSET Ids
  /\ health \in [Nodes -> 0 .. StaleAfter + 1 \cup {Absent}]
  /\ owner \in [Ids -> Clients \cup {Absent}]
  /\ pc \in [Handlers -> Steps]
  /\ job \in [Handlers -> Jobs \cup {Absent}]
  /\ seen \in [Minors -> SUBSET Ids]

Init ==
  /\ typed = [i \in Ids |-> Absent]
  /\ docs = [i \in Ids |-> Absent]
  /\ arriving = [i \in Ids |-> Absent]
  /\ apiVer = [i \in Ids |-> Absent]
  /\ stamped = {}
  /\ health = [n \in Nodes |-> Absent]
  /\ owner = [i \in Ids |-> Absent]
  /\ pc = [h \in Handlers |-> "idle"]
  /\ job = [h \in Handlers |-> Absent]
  /\ seen = [m \in Minors |-> {}]

-----------------------------------------------------------------------------
(* versionAllowed, without query.downgrade: a subscriber at minor m is     *)
(* shown a resource stamped v when v is its minor or a later one; an       *)
(* unstamped resource is shown to everyone.                                *)
VersionAllowedExact(v, m) == v = Absent \/ m = v \* mutant: no upgrade path
VersionAllowed(v, m) == v = Absent \/ m <= v

(* fanOut of a created or updated resource, and of a set of deletions:     *)
(* each change carries the stamp the resource has at that moment.          *)
Announced(i) ==
  [m \in Minors |->
     IF VersionAllowed(apiVer[i], m) THEN seen[m] \cup {i} ELSE seen[m]]
Retracted(gone) ==
  [m \in Minors |->
     seen[m] \ {i \in gone : VersionAllowed(apiVer[i], m)}]

Goto(h, step) == pc' = [pc EXCEPT ![h] = step]

(* The end of a handler: the response is written and the goroutine exits.  *)
Respond(h) ==
  /\ Goto(h, "idle")
  /\ job' = [job EXCEPT ![h] = Absent]

-----------------------------------------------------------------------------
(* POST /resource, up to preExists: the body is decoded and the store read *)
(* once to learn whether the resource is already there.  Only an           *)
(* authenticated update goes through the ownership check.                  *)
Post(h) ==
  /\ pc[h] = "idle"
  /\ \E i \in Ids, m \in Minors, c \in Clients \cup {Absent} :
       \E b \in Bodies[i] :
         /\ job' = [job EXCEPT ![h] =
                      [id |-> i, body |-> b, minor |-> m, client |-> c]]
         /\ Goto(h, IF c # Absent /\ i \in Registered
                    THEN "owner" ELSE "check")
  /\ UNCHANGED store

(* A resource another client registered is answered 403.                   *)
CheckOwner(h) ==
  LET o == owner[job[h].id] IN
  /\ pc[h] = "owner"
  /\ IF o # Absent /\ o # job[h].client
     THEN Respond(h)
     ELSE Goto(h, "check") /\ UNCHANGED job
  /\ UNCHANGED store

(* IngestRegistrationVersioned: a required key that is missing is a 400,   *)
(* a stamp at another minor a 409.                                         *)
CheckConflict(h) ==
  LET j == job[h] IN
  /\ pc[h] = "check"
  /\ IF j.body.form = "incomplete" \/ apiVer[j.id] \notin {Absent, j.minor}
     THEN Respond(h)
     ELSE Goto(h, "mark") /\ UNCHANGED job
  /\ UNCHANGED store

MarkAPIVer(h) ==
  /\ pc[h] = "mark"
  /\ apiVer' = [apiVer EXCEPT ![job[h].id] = job[h].minor]
  /\ Goto(h, "arrive")
  /\ UNCHANGED <<typed, docs, arriving, stamped, health, owner, seen, job>>

DocumentArrives(h) ==
  /\ pc[h] = "arrive"
  /\ arriving' = [arriving EXCEPT ![job[h].id] = job[h].body]
  /\ Goto(h, "put")
  /\ UNCHANGED <<typed, docs, apiVer, stamped, health, owner, seen, job>>

(* The referential integrity test of the typed Puts.                       *)
NoSourceTest(i, b) == \* mutant: PutFlow forgets the source
  i \notin Nodes /\ b.up # Absent => b.up \in Registered
ParentsRegistered(i, b) ==
  /\ i \notin Nodes /\ b.up # Absent => b.up \in Registered
  /\ i \in Flows => b.src \in Registered

NoParentTest(j) == j.body.form = "good" \* mutant: only Validate
Accepted(j) == j.body.form = "good" /\ ParentsRegistered(j.id, j.body)

PutRefused(h) ==
  /\ pc[h] = "put"
  /\ ~Accepted(job[h])
  /\ Goto(h, "withdraw")
  /\ UNCHANGED <<store, job>>

(* An identical re-registration announces nothing and stamps nothing.      *)
UnchangedById(i, b) == i \in Registered \* mutant: known means unchanged
Unchanged(i, b) == typed[i] = Typed(b)
PutUnchanged(h) ==
  /\ pc[h] = "put"
  /\ Accepted(job[h])
  /\ Unchanged(job[h].id, job[h].body)
  /\ Goto(h, "settle")
  /\ UNCHANGED <<store, job>>

(* A new node is healthy as of its registration; an update is no heartbeat.*)
NoFirstHealth(i) == health \* mutant: only heartbeats make entries
FirstHealth(i) ==
  IF i \in Nodes \ Registered THEN [health EXCEPT ![i] = 0] ELSE health

(* markUpdated                                                             *)
Stamp(i) == stamped \cup {i}

(* The body fanOut files with a created or updated resource.               *)
FiledTyped(i) == IF arriving[i] = Absent THEN Absent
                 ELSE Typed(arriving[i]) \* mutant: the re-encoded value
Filed(i) == arriving[i]

(* PutNode .. PutReceiver: the value is stored, update_ts stamped, a new   *)
(* node gets its first health entry, and fanOut files the staged body (or  *)
(* drops the document when none is staged) and announces the change.       *)
PutChanged(h) ==
  LET i == job[h].id
      b == job[h].body
  IN  /\ pc[h] = "put"
      /\ Accepted(job[h])
      /\ ~Unchanged(i, b)
      /\ typed' = [typed EXCEPT ![i] = Typed(b)]
      /\ stamped' = Stamp(i)
      /\ health' = FirstHealth(i)
      /\ docs' = [docs EXCEPT ![i] = Filed(i)]
      /\ arriving' = [arriving EXCEPT ![i] = Absent]
      /\ seen' = Announced(i)
      /\ Goto(h, "settle")
      /\ UNCHANGED <<apiVer, owner, job>>

DocumentWithdrawn(h) ==
  /\ pc[h] = "withdraw"
  /\ arriving' = [arriving EXCEPT ![job[h].id] = Absent]
  /\ Goto(h, "rollback")
  /\ UNCHANGED <<typed, docs, apiVer, stamped, health, owner, seen, job>>

(* The stamp of a refused registration is dropped, and the 400 sent.       *)
RollbackAPIVer(h) ==
  /\ pc[h] = "rollback"
  /\ apiVer' = [apiVer EXCEPT ![job[h].id] = Absent]
  /\ Respond(h)
  /\ UNCHANGED <<typed, docs, arriving, stamped, health, owner, seen>>

(* documentSettled: a body still staged changed nothing the types keep.    *)
(* It is dropped when the file says the same, filed in silence when the    *)
(* file is empty, and otherwise filed and announced as an update.          *)
DocumentSettled(h) ==
  LET i == job[h].id
      body == arriving[i]
      files == body # Absent /\ docs[i] # body
  IN  /\ pc[h] = "settle"
      /\ arriving' = [arriving EXCEPT ![i] = Absent]
      /\ docs' = IF files THEN [docs EXCEPT ![i] = body] ELSE docs
      /\ stamped' = IF files THEN Stamp(i) ELSE stamped
      /\ seen' = IF files /\ docs[i] # Absent THEN Announced(i) ELSE seen
      /\ IF job[h].client = Absent
         THEN Respond(h)
         ELSE Goto(h, "own") /\ UNCHANGED job
      /\ UNCHANGED <<typed, apiVer, health, owner>>

SetOwner(h) ==
  /\ pc[h] = "own"
  /\ owner' = [owner EXCEPT ![job[h].id] = job[h].client]
  /\ Respond(h)
  /\ UNCHANGED <<typed, docs, arriving, apiVer, stamped, health, seen>>

-----------------------------------------------------------------------------
(* deleteNodeLocked: a node takes its devices, their sources, the flows of *)
(* either, and the devices' senders and receivers with it.                 *)
DevicesOf(ns) == {d \in Devices \cap Registered : typed[d].up \in ns}
SourcesOf(ds) == {s \in Sources \cap Registered : typed[s].up \in ds}
FlowsOfNoDevice(ds, ss) == \* mutant: v1.0 flows match any device
  {f \in Flows \cap Registered :
     typed[f].up \in ds \cup {Absent} \/ typed[f].src \in ss}
FlowsOf(ds, ss) ==
  {f \in Flows \cap Registered : typed[f].up \in ds \/ typed[f].src \in ss}
LeavesOf(ds) == {l \in Leaves \cap Registered : typed[l].up \in ds}

Cascade(ns) ==
  LET ds == DevicesOf(ns)
      ss == SourcesOf(ds)
  IN  ns \cup ds \cup ss \cup FlowsOf(ds, ss) \cup LeavesOf(ds)

(* What a deletion does to every map: dropUpdated takes the update_ts and  *)
(* the stamp, fileDocument the document.  The owner and a staged body stay.*)
Remove(gone) ==
  /\ typed' = [i \in Ids |-> IF i \in gone THEN Absent ELSE typed[i]]
  /\ docs' = [i \in Ids |-> IF i \in gone THEN Absent ELSE docs[i]]
  /\ apiVer' = [i \in Ids |-> IF i \in gone THEN Absent ELSE apiVer[i]]
  /\ stamped' = stamped \ gone
  /\ health' = [n \in Nodes |-> IF n \in gone THEN Absent ELSE health[n]]
  /\ seen' = Retracted(gone)
  /\ UNCHANGED <<arriving, owner, pc, job>>

(* DELETE /resource: a node cascades; any other resource goes alone.       *)
Delete(i) ==
  /\ i \in Registered \cap Deletable
  /\ Remove(IF i \in Nodes THEN Cascade({i}) ELSE {i})

(* POST /health/nodes/{id}; an unknown node is a 404 that changes nothing. *)
Heartbeat(n) ==
  /\ n \in Registered
  /\ health' = [health EXCEPT ![n] = 0]
  /\ UNCHANGED <<typed, docs, arriving, apiVer, stamped, owner, seen, pc, job>>

(* Time passes for every health entry; ages saturate just past the bound.  *)
Tick ==
  /\ \E n \in Nodes : health[n] \in 0 .. StaleAfter
  /\ health' = [n \in Nodes |->
                  IF health[n] \in 0 .. StaleAfter
                  THEN health[n] + 1 ELSE health[n]]
  /\ UNCHANGED <<typed, docs, arriving, apiVer, stamped, owner, seen, pc, job>>

StaleAndBare == \* mutant: a node that still owns devices is spared
  {n \in Nodes : /\ health[n] # Absent /\ health[n] > StaleAfter
                 /\ DevicesOf({n}) = {}}
Stale == {n \in Nodes : health[n] # Absent /\ health[n] > StaleAfter}

(* runGC's tick: every node past the threshold is deleted.                 *)
EvictStale ==
  /\ Stale # {}
  /\ Remove(Cascade(Stale))

-----------------------------------------------------------------------------
Ingest(h) ==
  \/ Post(h)          \/ CheckOwner(h)     \/ CheckConflict(h)
  \/ MarkAPIVer(h)    \/ DocumentArrives(h)
  \/ PutRefused(h)    \/ PutUnchanged(h)   \/ PutChanged(h)
  \/ DocumentWithdrawn(h) \/ RollbackAPIVer(h)
  \/ DocumentSettled(h)   \/ SetOwner(h)

Next ==
  \/ \E h \in Handlers : Ingest(h)
  \/ \E i \in Ids : Delete(i)
  \/ \E n \in Nodes : Heartbeat(n)
  \/ Tick
  \/ EvictStale

Spec == Init /\ [][Next]_vars

(* The clock moves and the collector's ticker fires: both run for as long  *)
(* as the registry serves.                                                 *)
FairSpec == Spec /\ WF_vars(Tick) /\ WF_vars(EvictStale)
-----------------------------------------------------------------------------
(* The collector finds nodes through the health map only: a node without   *)
(* an entry would never be evicted, an entry without a node would keep     *)
(* the evictor busy for ever (store.go:299, 553, 629).                     *)
HealthTracksNodes ==
  \A n \in Nodes : health[n] # Absent <=> n \in Registered

(* The Query API pages over update_ts: a resource without one would be     *)
(* registered and listed nowhere (store.go:168-187, paging_index.go).      *)
RegisteredIsPaged == Registered \subseteq stamped

(* A device never outlives its node, whatever DELETEs, evictions, moves    *)
(* and re-registrations interleave: what the cascade of deleteNodeLocked   *)
(* and the parent test of PutDevice owe each other.                        *)
DevicesHaveNodes ==
  \A d \in Devices \cap Registered : typed[d].up \in Registered

(* The registry is a NodeLeases: however the lock regions of registrations *)
(* interleave with DELETEs, heartbeats and the collector, a resource       *)
(* enters in one step, while its parents are registered; only a heartbeat  *)
(* renews a node (registration.go, POST /health), and what leaves with a   *)
(* node is exactly what hangs below it (deleteNodeLocked, EvictStale).     *)
HangsOff(i) ==
  IF i \in Registered
  THEN (IF i \in Flows THEN {typed[i].up, typed[i].src} ELSE {typed[i].up}) \ {Absent}
  ELSE {}
Leases == INSTANCE NodeLeases WITH
            Others <- Ids \ Nodes, Term <- StaleAfter, Nil <- Absent,
            members <- Registered, hangs <- [i \in Ids |-> HangsOff(i)], age <- health
ImplementsLeases == Leases!Spec

(* A reference of a registered resource to one that is not registered      *)
(* appears in one way only: a client DELETEs, on its own, the very device  *)
(* or source that is named, which takes nothing with it.  No registration, *)
(* move, cascade or eviction leaves one behind (store.go:313-456, 468-556).*)
Dangling ==
  {p \in Registered \X (Ids \ Registered) : p[2] \in HangsOff(p[1])}
Leaving == {i \in Registered : typed'[i] = Absent}
ReferencesBreakByDelete ==
  [][\A p \in Dangling' :
       p \in Dangling \/ (p[2] \in Deletable \ Nodes /\ Leaving = {p[2]})]_vars

(* Full referential integrity holds among clients that DELETE as this      *)
(* repository's node does, children first (registration_client.go:948): a  *)
(* device or source goes alone only when nothing registered names it.      *)
ReferentialIntegrity == Dangling = {}
ChildrenFirst ==
  [][\A r \in Ids \ Nodes :
       Leaving = {r} => \A i \in Registered : r \notin HangsOff(i)]_vars

(* A staged body belongs to a registration still on its way: one left      *)
(* behind would be filed by the next change of that resource, as its       *)
(* document (documents.go:34-63).                                          *)
StagedBodiesAreInFlight ==
  \A i \in Ids : arriving[i] # Absent =>
    \E h \in Handlers : /\ pc[h] \in {"put", "withdraw", "settle"}
                        /\ job[h].id = i

(* The document on file says what the typed value says: the Query API      *)
(* serves the one and filters, pages and cascades on the other.            *)
DocumentsMatchTyped ==
  \A i \in Registered : docs[i] # Absent => Typed(docs[i]) = typed[i]

(* Every registered resource has been announced to the subscribers of the  *)
(* lowest minor, to whom every version is visible.                         *)
Lowest(m) == \A k \in Minors : m <= k
RegisteredIsAnnounced ==
  \A m \in Minors : Lowest(m) => Registered \subseteq seen[m]

(* Nothing leaves the catalogue without a cause: an explicit DELETE, a     *)
(* lapsed heartbeat, or the departure, in the same step, of something it   *)
(* refers to.  An eviction takes nothing that hangs off live nodes only.   *)
NoUnwarrantedRemoval ==
  [][\A i \in Leaving : \/ i \in Deletable
                        \/ i \in Stale
                        \/ typed[i].up \in Leaving
                        \/ typed[i].src \in Leaving]_vars

(* A node that stops sending heartbeats is evicted: no node stays          *)
(* registered and silent for ever (gc.go, runGC).                          *)
SilentNodesAreEvicted ==
  \A n \in Nodes : []<>(health[n] \in {0, Absent})

-----------------------------------------------------------------------------
(* What the comments of the code say and these runs refute.                *)

Idle(i) == \A h \in Handlers : job[h] # Absent => job[h].id # i

(* store.go:127: apiVerByType tracks the version each resource was         *)
(* registered at.                                                          *)
RegisteredIsVersioned ==
  \A i \in Registered : Idle(i) => apiVer[i] # Absent
=============================================================================
