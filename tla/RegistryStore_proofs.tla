------------------------ MODULE RegistryStore_proofs ------------------------
(***************************************************************************)
(* What RegistryStore guarantees for every catalogue, every set of bodies, *)
(* minors and clients, and any number of concurrent registrations.         *)
(***************************************************************************)
EXTENDS RegistryStore, TLAPS

(* A handler has a request exactly while it is serving one, and the body   *)
(* is one that can be posted for the id.                                   *)
JobsOK ==
  \A h \in Handlers :
    /\ pc[h] = "idle" <=> job[h] = Absent
    /\ job[h] # Absent => job[h] \in Jobs /\ job[h].body \in Bodies[job[h].id]

(* A registered value is the typed form of a body posted for that id.      *)
Shaped ==
  \A i \in Registered : \E b \in Bodies[i] : typed[i] = Typed(b)

TypeInv == TypeOK /\ JobsOK /\ Shaped

(* The body of a job is a body, and its typed form a typed value.          *)
LEMMA BodyFacts ==
  ASSUME NEW i \in Ids, NEW b \in Bodies[i]
  PROVE  /\ b \in AllBodies /\ b # Absent
         /\ Typed(b) \in TypedValues /\ Typed(b) # Absent
  BY AbsentAssumption DEF AllBodies, TypedValues

(* fanOut keeps the subscribers' view a set of ids per minor.              *)
LEMMA SeenType ==
  ASSUME NEW i \in Ids, NEW gone, seen \in [Minors -> SUBSET Ids]
  PROVE  /\ Announced(i) \in [Minors -> SUBSET Ids]
         /\ Retracted(gone) \in [Minors -> SUBSET Ids]
  BY DEF Announced, Retracted

(* Every step of a registration keeps the types.                           *)
LEMMA IngestType ==
  ASSUME TypeInv, NEW h \in Handlers, Ingest(h)
  PROVE  TypeInv'
<1> USE DEF TypeInv, Goto, Respond
<1>1. CASE Post(h)
  <2>1. PICK i \in Ids, m \in Minors, c \in Clients \cup {Absent} :
          \E b \in Bodies[i] :
            /\ job' = [job EXCEPT ![h] =
                         [id |-> i, body |-> b, minor |-> m, client |-> c]]
            /\ Goto(h, IF c # Absent /\ i \in Registered
                       THEN "owner" ELSE "check")
    BY <1>1 DEF Post
  <2>2. PICK b \in Bodies[i] :
            /\ job' = [job EXCEPT ![h] =
                         [id |-> i, body |-> b, minor |-> m, client |-> c]]
            /\ Goto(h, IF c # Absent /\ i \in Registered
                       THEN "owner" ELSE "check")
    BY <2>1
  <2>3. [id |-> i, body |-> b, minor |-> m, client |-> c] \in Jobs
    BY BodyFacts DEF Jobs
  <2>4. [id |-> i, body |-> b, minor |-> m, client |-> c] # Absent
    BY <2>3, AbsentAssumption
  <2> QED BY <1>1, <2>2, <2>3, <2>4
       DEF TypeOK, JobsOK, Shaped, Registered, Steps, store, Post
<1>2. CASE CheckOwner(h) \/ CheckConflict(h)
  BY <1>2 DEF CheckOwner, CheckConflict, TypeOK, JobsOK, Shaped, Registered,
              Steps, store
<1>3. CASE MarkAPIVer(h)
  BY <1>3 DEF MarkAPIVer, TypeOK, JobsOK, Shaped, Registered, Steps, Jobs
<1>4. CASE DocumentArrives(h)
  BY <1>4 DEF DocumentArrives, TypeOK, JobsOK, Shaped, Registered, Steps, Jobs
<1>5. CASE PutRefused(h) \/ PutUnchanged(h)
  BY <1>5 DEF PutRefused, PutUnchanged, TypeOK, JobsOK, Shaped, Registered,
              Steps, store
<1>6. CASE PutChanged(h)
  <2> DEFINE i == job[h].id
             b == job[h].body
  <2>1. i \in Ids /\ b \in Bodies[i] /\ job[h] # Absent
    BY <1>6 DEF PutChanged, JobsOK, TypeOK, Jobs
  <2>2. Typed(b) \in TypedValues /\ Typed(b) # Absent
    BY <2>1, BodyFacts
  <2>3. typed' = [typed EXCEPT ![i] = Typed(b)]
    BY <1>6 DEF PutChanged
  <2>4. health' \in [Nodes -> 0 .. StaleAfter + 1 \cup {Absent}]
    BY <1>6, ConstantsAssumption DEF PutChanged, FirstHealth, TypeOK
  <2>5. seen' \in [Minors -> SUBSET Ids]
    BY <1>6, <2>1, SeenType DEF PutChanged, TypeOK
  <2>6. TypeOK'
    BY <1>6, <2>1, <2>2, <2>4, <2>5
       DEF PutChanged, TypeOK, Steps, Stamp, Filed
  <2>7. JobsOK'
    BY <1>6, <2>1 DEF PutChanged, JobsOK, TypeOK, Steps
  <2>8. Shaped'
    BY <2>1, <2>2, <2>3 DEF Shaped, Registered, TypeOK
  <2> QED BY <2>6, <2>7, <2>8
<1>7. CASE DocumentWithdrawn(h)
  BY <1>7 DEF DocumentWithdrawn, TypeOK, JobsOK, Shaped, Registered, Steps,
              Jobs
<1>8. CASE RollbackAPIVer(h)
  BY <1>8 DEF RollbackAPIVer, TypeOK, JobsOK, Shaped, Registered, Steps, Jobs
<1>9. CASE DocumentSettled(h)
  <2>1. job[h].id \in Ids /\ job[h] # Absent
    BY <1>9 DEF DocumentSettled, JobsOK, TypeOK, Jobs
  <2>2. seen' \in [Minors -> SUBSET Ids]
    BY <1>9, <2>1, SeenType DEF DocumentSettled, TypeOK
  <2>3. TypeOK'
    BY <1>9, <2>1, <2>2 DEF DocumentSettled, TypeOK, Steps, Stamp
  <2>4. JobsOK' /\ Shaped'
    BY <1>9, <2>1
       DEF DocumentSettled, JobsOK, Shaped, Registered, TypeOK, Steps
  <2> QED BY <2>3, <2>4
<1>10. CASE SetOwner(h)
  BY <1>10 DEF SetOwner, TypeOK, JobsOK, Shaped, Registered, Steps, Jobs
<1> QED
  BY <1>1, <1>2, <1>3, <1>4, <1>5, <1>6, <1>7, <1>8, <1>9, <1>10 DEF Ingest

(* A removal keeps the types.                                              *)
LEMMA RemoveType ==
  ASSUME TypeInv, NEW gone, Remove(gone)
  PROVE  TypeInv'
<1>1. TypeOK'
  BY SeenType DEF TypeInv, TypeOK, Remove, Retracted, JobsOK
<1>2. JobsOK' /\ Shaped'
  BY DEF TypeInv, TypeOK, Remove, JobsOK, Shaped, Registered
<1> QED BY <1>1, <1>2 DEF TypeInv

(* The empty catalogue is well typed.                                      *)
LEMMA InitType == Init => TypeInv
  BY AbsentAssumption
     DEF Init, TypeInv, TypeOK, JobsOK, Shaped, Registered, Steps

(* Every step keeps the types.                                             *)
LEMMA StepType ==
  ASSUME TypeInv, [Next]_vars
  PROVE  TypeInv'
<1>1. ASSUME NEW h \in Handlers, Ingest(h) PROVE TypeInv'
  BY <1>1, IngestType
<1>2. ASSUME NEW i \in Ids, Delete(i) PROVE TypeInv'
  BY <1>2, RemoveType DEF Delete
<1>3. ASSUME NEW n \in Nodes, Heartbeat(n) PROVE TypeInv'
  BY <1>3, ConstantsAssumption
     DEF Heartbeat, TypeInv, TypeOK, JobsOK, Shaped, Registered
<1>4. CASE Tick
  <2>1. \A a \in 0 .. StaleAfter : a + 1 \in 0 .. StaleAfter + 1
    BY ConstantsAssumption
  <2> QED BY <1>4, <2>1
       DEF Tick, TypeInv, TypeOK, JobsOK, Shaped, Registered
<1>5. CASE EvictStale
  BY <1>5, RemoveType DEF EvictStale
<1>6. CASE UNCHANGED vars
  BY <1>6 DEF vars, store, TypeInv, TypeOK, JobsOK, Shaped, Registered
<1> QED BY <1>1, <1>2, <1>3, <1>4, <1>5, <1>6 DEF Next

(* Every variable keeps its type, a handler holds a request exactly while  *)
(* it serves one, and every registered value was posted for its id.        *)
LEMMA TypeInvariant == Spec => []TypeInv
  BY InitType, StepType, PTL DEF Spec

(* The catalogue's maps keep their types under any interleaving of         *)
(* registrations, deletions, heartbeats and evictions.                     *)
THEOREM TypeCorrect == Spec => []TypeOK
<1>1. TypeInv => TypeOK
  BY DEF TypeInv
<1> QED BY <1>1, TypeInvariant, PTL

-----------------------------------------------------------------------------
(* What a step can do to the catalogue: register or change one id after    *)
(* its parents were tested, remove a set of ids, or leave it alone.        *)
Put(h) ==
  LET i == job[h].id
      b == job[h].body
  IN  /\ i \in Ids /\ b \in Bodies[i]
      /\ ParentsRegistered(i, b)
      /\ typed' = [typed EXCEPT ![i] = Typed(b)]
      /\ stamped' = stamped \cup {i}
      /\ health' = FirstHealth(i)
      /\ seen' = Announced(i)
      /\ apiVer' = apiVer

(* A changed registration is a Put: it adds its id, changes no other.      *)
LEMMA PutFacts ==
  ASSUME TypeInv, NEW h \in Handlers, PutChanged(h)
  PROVE  /\ Put(h)
         /\ Registered' = Registered \cup {job[h].id}
         /\ \A k \in Ids \ {job[h].id} : typed'[k] = typed[k]
         /\ typed'[job[h].id] = Typed(job[h].body)
<1> DEFINE i == job[h].id
           b == job[h].body
<1>1. i \in Ids /\ b \in Bodies[i]
  BY DEF PutChanged, TypeInv, JobsOK, TypeOK, Jobs
<1>2. Typed(b) # Absent
  BY <1>1, BodyFacts
<1>3. Put(h)
  BY <1>1 DEF Put, PutChanged, Accepted, Stamp
<1>4. typed' = [typed EXCEPT ![i] = Typed(b)] /\ typed \in [Ids -> TypedValues \cup {Absent}]
  BY DEF PutChanged, TypeInv, TypeOK
<1> QED BY <1>1, <1>2, <1>3, <1>4 DEF Registered

(* The steps of a registration other than the Put itself leave the typed   *)
(* values and the health entries alone, and take no update_ts away.        *)
LEMMA QuietFacts ==
  ASSUME NEW h \in Handlers, Ingest(h), ~PutChanged(h)
  PROVE  /\ typed' = typed /\ health' = health
         /\ stamped \subseteq stamped'
<1> QED BY DEF Ingest, Post, CheckOwner, CheckConflict, MarkAPIVer,
               DocumentArrives, PutRefused, PutUnchanged, DocumentWithdrawn,
               RollbackAPIVer, DocumentSettled, SetOwner, store, Stamp
-----------------------------------------------------------------------------
(* A cascade takes with a node everything registered under it.             *)
LEMMA CascadeClosed ==
  ASSUME NEW ns \in SUBSET Nodes, NEW i \in Registered \ Cascade(ns)
  PROVE  /\ i \in Devices => typed[i].up \notin ns
         /\ i \in Sources => typed[i].up \notin DevicesOf(ns)
         /\ i \in Leaves => typed[i].up \notin DevicesOf(ns)
         /\ i \in Flows => /\ typed[i].up \notin DevicesOf(ns)
                           /\ typed[i].src \notin SourcesOf(DevicesOf(ns))
  BY DEF Cascade, DevicesOf, SourcesOf, FlowsOf, LeavesOf

(* What a removal leaves registered, and with which values.                *)
LEMMA RemoveFacts ==
  ASSUME TypeInv, NEW gone, Remove(gone)
  PROVE  /\ Registered' = Registered \ gone
         /\ \A k \in Ids \ gone : typed'[k] = typed[k]
  BY DEF Remove, Registered, TypeInv, TypeOK

(* The collector and the store agree on which nodes exist: a health entry  *)
(* is there exactly while its node is registered.                          *)
THEOREM HealthTracksNodesAlways == Spec => []HealthTracksNodes
<1>1. Init => HealthTracksNodes
  BY DEF Init, HealthTracksNodes, Registered, Ids
<1>2. ASSUME TypeInv, HealthTracksNodes, [Next]_vars PROVE HealthTracksNodes'
  <2> USE <1>2 DEF HealthTracksNodes
  <2>1. ASSUME NEW h \in Handlers, PutChanged(h) PROVE HealthTracksNodes'
    BY <2>1, PutFacts, AbsentAssumption
       DEF Put, FirstHealth, TypeInv, TypeOK
  <2>2. ASSUME NEW h \in Handlers, Ingest(h), ~PutChanged(h)
        PROVE  HealthTracksNodes'
    BY <2>2, QuietFacts DEF Registered
  <2>3. ASSUME NEW gone, Remove(gone) PROVE HealthTracksNodes'
    BY <2>3, RemoveFacts DEF Remove
  <2>4. ASSUME NEW n \in Nodes, Heartbeat(n) PROVE HealthTracksNodes'
    BY <2>4, AbsentAssumption DEF Heartbeat, Registered, TypeInv, TypeOK
  <2>5. CASE Tick
    <3>1. \A a \in 0 .. StaleAfter : a + 1 \in Nat
      BY ConstantsAssumption
    <3> QED BY <2>5, <3>1, AbsentAssumption DEF Tick, Registered
  <2>6. CASE UNCHANGED vars
    BY <2>6 DEF vars, store, Registered
  <2> QED BY <2>1, <2>2, <2>3, <2>4, <2>5, <2>6 DEF Next, Delete, EvictStale
<1> QED BY <1>1, <1>2, TypeInvariant, PTL DEF Spec

(* Every registered resource has an update_ts, so every one of them is on  *)
(* some page of the Query API's listings.                                  *)
THEOREM RegisteredIsPagedAlways == Spec => []RegisteredIsPaged
<1>1. Init => RegisteredIsPaged
  BY DEF Init, RegisteredIsPaged, Registered
<1>2. ASSUME TypeInv, RegisteredIsPaged, [Next]_vars PROVE RegisteredIsPaged'
  <2> USE <1>2 DEF RegisteredIsPaged
  <2>1. ASSUME NEW h \in Handlers, PutChanged(h) PROVE RegisteredIsPaged'
    BY <2>1, PutFacts DEF Put
  <2>2. ASSUME NEW h \in Handlers, Ingest(h), ~PutChanged(h)
        PROVE  RegisteredIsPaged'
    BY <2>2, QuietFacts DEF Registered
  <2>3. ASSUME NEW gone, Remove(gone) PROVE RegisteredIsPaged'
    BY <2>3, RemoveFacts DEF Remove
  <2>4. CASE (\E n \in Nodes : Heartbeat(n)) \/ Tick \/ UNCHANGED vars
    BY <2>4 DEF Heartbeat, Tick, vars, store, Registered
  <2> QED BY <2>1, <2>2, <2>3, <2>4 DEF Next, Delete, EvictStale
<1> QED BY <1>1, <1>2, TypeInvariant, PTL DEF Spec

(* What a registered id refers to has the type the body rules give it.     *)
LEMMA ReferenceTypes ==
  ASSUME TypeInv, NEW i \in Registered
  PROVE  /\ i \in Nodes => typed[i].up = Absent
         /\ i \in Devices => typed[i].up \in Nodes
         /\ i \in Sources \cup Leaves => typed[i].up \in Devices
         /\ i \in Flows => /\ typed[i].up \in Devices \cup {Absent}
                           /\ typed[i].src \in Sources
<1>1. PICK b \in Bodies[i] : typed[i] = Typed(b)
  BY DEF TypeInv, Shaped
<1> QED BY <1>1, BodiesAssumption DEF Typed, Registered

(* No device is ever registered under a node that is not, however          *)
(* registrations, moves, deletions and evictions interleave.               *)
THEOREM DevicesHaveNodesAlways == Spec => []DevicesHaveNodes
<1>1. Init => DevicesHaveNodes
  BY DEF Init, DevicesHaveNodes, Registered
<1>2. ASSUME TypeInv, DevicesHaveNodes, [Next]_vars PROVE DevicesHaveNodes'
  <2> USE <1>2 DEF DevicesHaveNodes
  <2>1. ASSUME NEW h \in Handlers, PutChanged(h) PROVE DevicesHaveNodes'
    <3> DEFINE i == job[h].id
               b == job[h].body
    <3>0. Put(h) /\ typed'[i] = Typed(b)
      BY <2>1, PutFacts
    <3>1. i \in Ids /\ b \in Bodies[i] /\ typed'[i].up = b.up
      BY <3>0 DEF Put, Typed
    <3>2. i \in Devices => b.up \in Nodes /\ i \notin Nodes /\ b.up # Absent
      BY <3>1, TypesAssumption, BodiesAssumption, AbsentAssumption DEF Ids
    <3>3. i \in Devices => b.up \in Registered
      BY <2>1, <3>2, PutFacts DEF Put, ParentsRegistered
    <3> QED BY <2>1, <3>1, <3>3, PutFacts DEF Registered
  <2>2. ASSUME NEW h \in Handlers, Ingest(h), ~PutChanged(h)
        PROVE  DevicesHaveNodes'
    BY <2>2, QuietFacts DEF Registered
  <2>3. ASSUME NEW ns \in SUBSET Nodes, Remove(Cascade(ns))
        PROVE  DevicesHaveNodes'
    <3>1. \A n \in Nodes \cap Cascade(ns) : n \in ns
      BY TypesAssumption
         DEF Cascade, DevicesOf, SourcesOf, FlowsOf, LeavesOf
    <3> QED BY <2>3, <3>1, RemoveFacts, CascadeClosed, ReferenceTypes
            DEF Registered
  <2>4. ASSUME NEW i \in Ids \ Nodes, Remove({i}) PROVE DevicesHaveNodes'
    BY <2>4, RemoveFacts, ReferenceTypes DEF Registered
  <2>5. CASE (\E n \in Nodes : Heartbeat(n)) \/ Tick \/ UNCHANGED vars
    BY <2>5 DEF Heartbeat, Tick, vars, store, Registered
  <2>6. ASSUME NEW i \in Ids, Delete(i) PROVE DevicesHaveNodes'
    <3>1. CASE i \in Nodes
      BY <2>3, <2>6, <3>1 DEF Delete
    <3>2. CASE i \notin Nodes
      BY <2>4, <2>6, <3>2 DEF Delete
    <3> QED BY <3>1, <3>2
  <2>7. CASE EvictStale
    BY <2>3, <2>7 DEF EvictStale, Stale
  <2> QED BY <2>1, <2>2, <2>5, <2>6, <2>7 DEF Next
<1> QED BY <1>1, <1>2, TypeInvariant, PTL DEF Spec
-----------------------------------------------------------------------------
(* A body staged by documentArrives is always the business of a handler    *)
(* that will still file or withdraw it: none is ever left behind.          *)
THEOREM StagedBodiesAreInFlightAlways == Spec => []StagedBodiesAreInFlight
<1>1. Init => StagedBodiesAreInFlight
  BY DEF Init, StagedBodiesAreInFlight
<1>2. ASSUME TypeInv, StagedBodiesAreInFlight, [Next]_vars
      PROVE  StagedBodiesAreInFlight'
  <2> USE <1>2 DEF StagedBodiesAreInFlight
  <2>1. ASSUME NEW h \in Handlers, Ingest(h)
        PROVE  StagedBodiesAreInFlight'
    <3> USE <2>1 DEF Goto, Respond, TypeInv, TypeOK
    <3>1. CASE Post(h)
      BY <3>1 DEF Post, store
    <3>2. CASE CheckOwner(h) \/ CheckConflict(h)
      BY <3>2 DEF CheckOwner, CheckConflict, store
    <3>3. CASE MarkAPIVer(h)
      BY <3>3 DEF MarkAPIVer
    <3>4. CASE DocumentArrives(h)
      BY <3>4 DEF DocumentArrives
    <3>5. CASE PutRefused(h) \/ PutUnchanged(h)
      BY <3>5 DEF PutRefused, PutUnchanged, store
    <3>6. CASE PutChanged(h)
      BY <3>6 DEF PutChanged
    <3>7. CASE DocumentWithdrawn(h)
      BY <3>7 DEF DocumentWithdrawn
    <3>8. CASE RollbackAPIVer(h)
      BY <3>8 DEF RollbackAPIVer
    <3>9. CASE DocumentSettled(h)
      BY <3>9 DEF DocumentSettled
    <3>10. CASE SetOwner(h)
      BY <3>10 DEF SetOwner
    <3> QED BY <3>1, <3>2, <3>3, <3>4, <3>5, <3>6, <3>7, <3>8, <3>9, <3>10
            DEF Ingest
  <2>2. ASSUME NEW gone, Remove(gone) PROVE StagedBodiesAreInFlight'
    BY <2>2 DEF Remove
  <2>3. CASE (\E n \in Nodes : Heartbeat(n)) \/ Tick \/ UNCHANGED vars
    BY <2>3 DEF Heartbeat, Tick, vars, store
  <2> QED BY <2>1, <2>2, <2>3 DEF Next, Delete, EvictStale
<1> QED BY <1>1, <1>2, TypeInvariant, PTL DEF Spec

(* Everything registered has been announced to the subscribers of the      *)
(* lowest minor, whatever stamps are rewritten or dropped meanwhile.       *)
THEOREM RegisteredIsAnnouncedAlways == Spec => []RegisteredIsAnnounced
<1>1. Init => RegisteredIsAnnounced
  BY DEF Init, RegisteredIsAnnounced, Registered
<1>2. ASSUME TypeInv, RegisteredIsAnnounced, [Next]_vars
      PROVE  RegisteredIsAnnounced'
  <2> USE <1>2 DEF RegisteredIsAnnounced
  <2>1. ASSUME NEW m \in Minors, Lowest(m), NEW i \in Ids
        PROVE  /\ seen[m] \subseteq Announced(i)[m]
               /\ i \in Announced(i)[m]
    <3>1. VersionAllowed(apiVer[i], m)
      BY <2>1 DEF VersionAllowed, Lowest, TypeInv, TypeOK
    <3> QED BY <3>1 DEF Announced
  <2>2. ASSUME NEW h \in Handlers, PutChanged(h) PROVE RegisteredIsAnnounced'
    BY <2>1, <2>2, PutFacts DEF Put, Lowest
  <2>3. ASSUME NEW h \in Handlers, Ingest(h), ~PutChanged(h)
        PROVE  RegisteredIsAnnounced'
    <3>1. Registered' = Registered
      BY <2>3, QuietFacts DEF Registered
    <3>2. \/ seen' = seen
          \/ job[h].id \in Ids /\ seen' = Announced(job[h].id)
      BY <2>3
         DEF Ingest, Post, CheckOwner, CheckConflict, MarkAPIVer,
             DocumentArrives, PutRefused, PutUnchanged, DocumentWithdrawn,
             RollbackAPIVer, DocumentSettled, SetOwner, store, TypeInv,
             TypeOK, JobsOK, Jobs
    <3> QED BY <2>1, <3>1, <3>2 DEF Lowest
  <2>4. ASSUME NEW gone, Remove(gone) PROVE RegisteredIsAnnounced'
    <3>1. Registered' = Registered \ gone
      BY <2>4, RemoveFacts
    <3>2. \A m \in Minors : seen[m] \ gone \subseteq seen'[m]
      BY <2>4 DEF Remove, Retracted
    <3> QED BY <3>1, <3>2 DEF Lowest
  <2>5. CASE (\E n \in Nodes : Heartbeat(n)) \/ Tick \/ UNCHANGED vars
    BY <2>5 DEF Heartbeat, Tick, vars, store, Registered, Lowest
  <2> QED BY <2>2, <2>3, <2>4, <2>5 DEF Next, Delete, EvictStale
<1> QED BY <1>1, <1>2, TypeInvariant, PTL DEF Spec

-----------------------------------------------------------------------------
(* Registrations of one resource come one after the other, as a Node sends *)
(* them; those of different resources overlap as they like.                *)
OneAtATime ==
  \A h, g \in Handlers :
    h # g /\ job[h] # Absent /\ job[g] # Absent => job[h].id # job[g].id

(* The body a typed Put will find staged is its own, and what is still     *)
(* staged after it is a body the registered value agrees with.             *)
StagedIsServed ==
  \A h \in Handlers : pc[h] = "put" => arriving[job[h].id] = job[h].body
SettledIsTyped ==
  \A h \in Handlers :
    LET i == job[h].id IN
      pc[h] = "settle" /\ i \in Registered /\ arriving[i] # Absent
        => typed[i] = Typed(arriving[i])
DocsInv == StagedIsServed /\ SettledIsTyped /\ DocumentsMatchTyped

(* What a step of one handler leaves alone of the others' business.        *)
LEMMA OtherHandlers ==
  ASSUME TypeInv, OneAtATime, NEW h \in Handlers, Ingest(h),
         NEW g \in Handlers \ {h}, pc'[g] # "idle"
  PROVE  /\ pc'[g] = pc[g] /\ job'[g] = job[g]
         /\ pc[h] # "idle" => job[g].id # job[h].id
<1>1. pc'[g] = pc[g] /\ job'[g] = job[g]
  BY DEF Ingest, Post, CheckOwner, CheckConflict, MarkAPIVer, DocumentArrives,
         PutRefused, PutUnchanged, PutChanged, DocumentWithdrawn,
         RollbackAPIVer, DocumentSettled, SetOwner, Goto, Respond, TypeInv,
         TypeOK
<1>2. job[g] # Absent /\ (pc[h] # "idle" => job[h] # Absent)
  BY <1>1 DEF TypeInv, JobsOK
<1> QED BY <1>1, <1>2 DEF OneAtATime

LEMMA IngestDocs ==
  ASSUME TypeInv, OneAtATime, DocsInv, NEW h \in Handlers, Ingest(h)
  PROVE  DocsInv'
<1> DEFINE i == job[h].id
           b == job[h].body
<1>0. pc[h] # "idle" => i \in Ids /\ b \in Bodies[i] /\ b \in AllBodies /\ b # Absent
  BY BodyFacts DEF TypeInv, TypeOK, JobsOK, Jobs
<1>1. CASE Post(h) \/ CheckOwner(h) \/ CheckConflict(h) \/ MarkAPIVer(h)
           \/ DocumentWithdrawn(h) \/ RollbackAPIVer(h) \/ SetOwner(h)
           \/ PutRefused(h)
  <2>1. /\ typed' = typed /\ docs' = docs
        /\ pc'[h] \notin {"put", "settle"}
        /\ \/ arriving' = arriving
           \/ /\ pc[h] # "idle"
              /\ arriving' = [arriving EXCEPT ![i] = Absent]
    BY <1>1 DEF Post, CheckOwner, CheckConflict, MarkAPIVer,
                DocumentWithdrawn, RollbackAPIVer, SetOwner, PutRefused, Goto,
                Respond, store, TypeInv, TypeOK
  <2>2. ASSUME NEW g \in Handlers, pc'[g] \in {"put", "settle"}
        PROVE  /\ pc'[g] = pc[g] /\ job'[g] = job[g]
               /\ arriving'[job[g].id] = arriving[job[g].id]
    <3>1. g # h
      BY <2>1, <2>2
    <3>2. /\ pc'[g] = pc[g] /\ job'[g] = job[g]
          /\ pc[h] # "idle" => job[g].id # i
      BY <2>1, <2>2, <3>1, OtherHandlers
    <3>3. job[g].id \in Ids
      BY <2>2, <3>2 DEF TypeInv, TypeOK, JobsOK, Jobs
    <3>4. CASE arriving' = arriving
      BY <3>2, <3>4
    <3>5. CASE pc[h] # "idle" /\ arriving' = [arriving EXCEPT ![i] = Absent]
      BY <3>2, <3>3, <3>5 DEF TypeInv, TypeOK
    <3> QED BY <2>1, <3>2, <3>4, <3>5
  <2> QED BY <2>1, <2>2
          DEF DocsInv, StagedIsServed, SettledIsTyped, DocumentsMatchTyped,
              Registered
<1>2. CASE DocumentArrives(h)
  <2>1. /\ typed' = typed /\ docs' = docs /\ job' = job
        /\ pc'[h] = "put" /\ arriving' = [arriving EXCEPT ![i] = b]
        /\ pc[h] # "idle"
    BY <1>2 DEF DocumentArrives, Goto, TypeInv, TypeOK
  <2>2. arriving'[i] = b
    BY <1>0, <2>1 DEF TypeInv, TypeOK
  <2>3. ASSUME NEW g \in Handlers \ {h}, pc'[g] \in {"put", "settle"}
        PROVE  /\ pc'[g] = pc[g]
               /\ arriving'[job[g].id] = arriving[job[g].id]
    BY <2>1, <2>3, OtherHandlers DEF TypeInv, TypeOK
  <2> QED BY <2>1, <2>2, <2>3
          DEF DocsInv, StagedIsServed, SettledIsTyped, DocumentsMatchTyped,
              Registered
<1>3. CASE PutUnchanged(h)
  <2>1. /\ typed' = typed /\ docs' = docs /\ arriving' = arriving /\ job' = job
        /\ pc[h] = "put" /\ pc'[h] = "settle" /\ typed[i] = Typed(b)
    BY <1>3 DEF PutUnchanged, Unchanged, Goto, store, TypeInv, TypeOK
  <2>2. ASSUME NEW g \in Handlers \ {h}, pc'[g] \in {"put", "settle"}
        PROVE  pc'[g] = pc[g]
    BY <2>2, OtherHandlers
  <2> QED BY <2>1, <2>2
          DEF DocsInv, StagedIsServed, SettledIsTyped, DocumentsMatchTyped,
              Registered
<1>4. CASE PutChanged(h)
  <2>1. /\ pc[h] = "put" /\ pc'[h] = "settle" /\ job' = job
        /\ docs' = [docs EXCEPT ![i] = b]
        /\ arriving' = [arriving EXCEPT ![i] = Absent]
    BY <1>4 DEF PutChanged, Goto, Filed, DocsInv, StagedIsServed, TypeInv, TypeOK
  <2>2. /\ typed'[i] = Typed(b) /\ Registered' = Registered \cup {i}
        /\ \A k \in Ids \ {i} : typed'[k] = typed[k]
    BY <1>4, PutFacts
  <2>3. docs'[i] = b /\ arriving'[i] = Absent
    BY <1>0, <2>1 DEF TypeInv, TypeOK
  <2>4. \A k \in Ids \ {i} : docs'[k] = docs[k] /\ arriving'[k] = arriving[k]
    BY <2>1 DEF TypeInv, TypeOK
  <2>5. ASSUME NEW g \in Handlers \ {h}, pc'[g] \in {"put", "settle"}
        PROVE  pc'[g] = pc[g] /\ job[g].id \in Ids \ {i}
    BY <2>1, <2>5, OtherHandlers DEF TypeInv, TypeOK, JobsOK, Jobs
  <2>6. StagedIsServed'
    BY <2>1, <2>4, <2>5 DEF DocsInv, StagedIsServed
  <2>7. SettledIsTyped'
    BY <2>1, <2>2, <2>3, <2>4, <2>5 DEF DocsInv, SettledIsTyped
  <2>8. DocumentsMatchTyped'
    BY <2>2, <2>3, <2>4 DEF DocsInv, DocumentsMatchTyped, Registered
  <2> QED BY <2>6, <2>7, <2>8 DEF DocsInv
<1>5. CASE DocumentSettled(h)
  <2>1. /\ typed' = typed /\ pc[h] = "settle" /\ pc'[h] \in {"idle", "own"}
        /\ arriving' = [arriving EXCEPT ![i] = Absent]
        /\ \/ docs' = docs
           \/ arriving[i] # Absent /\ docs' = [docs EXCEPT ![i] = arriving[i]]
    BY <1>5 DEF DocumentSettled, Goto, Respond, TypeInv, TypeOK
  <2>2. ASSUME NEW g \in Handlers, pc'[g] \in {"put", "settle"}
        PROVE  /\ pc'[g] = pc[g] /\ job'[g] = job[g]
               /\ arriving'[job[g].id] = arriving[job[g].id]
    <3>1. g # h
      BY <2>1, <2>2
    <3>2. pc'[g] = pc[g] /\ job'[g] = job[g] /\ job[g].id # i
      BY <2>1, <2>2, <3>1, OtherHandlers
    <3> QED BY <2>1, <3>2 DEF TypeInv, TypeOK
  <2>3. StagedIsServed' /\ SettledIsTyped'
    BY <2>1, <2>2 DEF DocsInv, StagedIsServed, SettledIsTyped, Registered
  <2>4. DocumentsMatchTyped'
    BY <1>0, <2>1
       DEF DocsInv, SettledIsTyped, DocumentsMatchTyped, Registered, TypeInv,
           TypeOK
  <2> QED BY <2>3, <2>4 DEF DocsInv
<1> QED BY <1>1, <1>2, <1>3, <1>4, <1>5 DEF Ingest

(* The document on file says what the typed value says, for any number of  *)
(* concurrent registrations, refusals, removals and evictions, as long as  *)
(* no two registrations of one resource are under way at once.             *)
THEOREM DocumentsMatchAlways ==
  Spec /\ []OneAtATime => []DocumentsMatchTyped
<1>1. Init => DocsInv
  BY DEF Init, DocsInv, StagedIsServed, SettledIsTyped, DocumentsMatchTyped,
         Registered
<1>2. ASSUME TypeInv, OneAtATime, DocsInv, [Next]_vars PROVE DocsInv'
  <2> USE <1>2
  <2>1. ASSUME NEW h \in Handlers, Ingest(h) PROVE DocsInv'
    BY <2>1, IngestDocs
  <2>2. ASSUME NEW gone, Remove(gone) PROVE DocsInv'
    BY <2>2, RemoveFacts
       DEF Remove, DocsInv, StagedIsServed, SettledIsTyped,
           DocumentsMatchTyped, Registered, TypeInv, TypeOK
  <2>3. CASE (\E n \in Nodes : Heartbeat(n)) \/ Tick \/ UNCHANGED vars
    BY <2>3 DEF Heartbeat, Tick, vars, store, DocsInv, StagedIsServed,
                SettledIsTyped, DocumentsMatchTyped, Registered
  <2> QED BY <2>1, <2>2, <2>3 DEF Next, Delete, EvictStale
<1>3. DocsInv => DocumentsMatchTyped
  BY DEF DocsInv
<1> QED BY <1>1, <1>2, <1>3, TypeInvariant, PTL DEF Spec

-----------------------------------------------------------------------------
(* No step takes a resource out of the catalogue unless a client deleted   *)
(* it, its node lapsed, or something it refers to leaves with it.          *)
THEOREM NothingLeavesUnwarranted == Spec => NoUnwarrantedRemoval
<1> DEFINE Warranted(i) == \/ i \in Deletable
                           \/ i \in Stale
                           \/ typed[i].up \in Leaving
                           \/ typed[i].src \in Leaving
<1>1. ASSUME TypeInv, HealthTracksNodes, [Next]_vars
      PROVE  \A i \in Leaving : Warranted(i)
  <2> USE <1>1
  <2>1. ASSUME NEW h \in Handlers, PutChanged(h) PROVE Leaving = {}
    BY <2>1, PutFacts DEF Leaving, Registered
  <2>2. ASSUME NEW h \in Handlers, Ingest(h), ~PutChanged(h)
        PROVE  Leaving = {}
    BY <2>2, QuietFacts DEF Leaving, Registered
  <2>3. CASE (\E n \in Nodes : Heartbeat(n)) \/ Tick \/ UNCHANGED vars
    BY <2>3 DEF Heartbeat, Tick, vars, store, Leaving, Registered
  <2>4. ASSUME NEW ns \in SUBSET (Nodes \cap Registered),
               Remove(Cascade(ns)), NEW i \in Leaving
        PROVE  i \in ns \/ typed[i].up \in Leaving \/ typed[i].src \in Leaving
    <3>1. Leaving = Registered \cap Cascade(ns)
      BY <2>4, RemoveFacts DEF Leaving, Registered, Remove
    <3>2. /\ ns \subseteq Leaving /\ DevicesOf(ns) \subseteq Leaving
          /\ SourcesOf(DevicesOf(ns)) \subseteq Leaving
      BY <3>1 DEF Cascade, DevicesOf, SourcesOf
    <3> QED BY <2>4, <3>1, <3>2
            DEF Cascade, DevicesOf, SourcesOf, FlowsOf, LeavesOf
  <2>5. ASSUME NEW k \in Ids, Delete(k), NEW i \in Leaving PROVE Warranted(i)
    <3>1. k \in Registered /\ k \in Deletable
      BY <2>5 DEF Delete
    <3>2. CASE k \in Nodes
      BY <2>4, <2>5, <3>1, <3>2 DEF Delete
    <3>3. CASE k \notin Nodes
      BY <2>5, <3>1, <3>3, RemoveFacts DEF Delete, Leaving, Registered
    <3> QED BY <3>2, <3>3
  <2>6. ASSUME EvictStale, NEW i \in Leaving PROVE Warranted(i)
    <3>1. Stale \in SUBSET (Nodes \cap Registered)
      BY DEF Stale, HealthTracksNodes
    <3> QED BY <2>4, <2>6, <3>1 DEF EvictStale
  <2> QED BY <2>1, <2>2, <2>3, <2>5, <2>6 DEF Next
<1>2. Spec => [][\A i \in Leaving : Warranted(i)]_vars
  BY <1>1, TypeInvariant, HealthTracksNodesAlways, PTL DEF Spec
<1> QED BY <1>2 DEF NoUnwarrantedRemoval

-----------------------------------------------------------------------------
(* The registry as a NodeLeases.  What a resource hangs off, by its type.  *)
LEMMA HangsFacts ==
  ASSUME TypeInv, NEW i \in Registered
  PROVE  /\ i \in Nodes => HangsOff(i) = {}
         /\ i \in Devices \cup Sources \cup Leaves =>
              HangsOff(i) = {typed[i].up} /\ typed[i].up # Absent
         /\ i \in Flows => HangsOff(i) = {typed[i].up, typed[i].src} \ {Absent}
                           /\ typed[i].src # Absent
<1>1. Absent \notin Nodes \cup Devices \cup Sources
  BY AbsentAssumption DEF Ids
<1>2. i \in Nodes \cup Devices \cup Sources \cup Leaves => i \notin Flows
  BY TypesAssumption
<1> QED BY <1>1, <1>2, ReferenceTypes DEF HangsOff

(* A cascade takes the nodes and what hangs off something it takes, and    *)
(* nothing else.                                                           *)
LEMMA CascadeExact ==
  ASSUME TypeInv, NEW ns \in SUBSET (Nodes \cap Registered), NEW k \in Registered
  PROVE  /\ Cascade(ns) \in SUBSET Registered
         /\ k \in Cascade(ns) <=> k \in ns \/ HangsOff(k) \cap Cascade(ns) # {}
<1> DEFINE ds == DevicesOf(ns)
           ss == SourcesOf(ds)
<1>1. Cascade(ns) \in SUBSET Registered
  BY DEF Cascade, DevicesOf, SourcesOf, FlowsOf, LeavesOf
<1>2. /\ Cascade(ns) \cap Nodes = ns
      /\ Cascade(ns) \cap Devices = ds
      /\ Cascade(ns) \cap Sources = ss
      /\ Cascade(ns) \cap Flows = FlowsOf(ds, ss)
      /\ Cascade(ns) \cap Leaves = LeavesOf(ds)
  BY TypesAssumption DEF Cascade, DevicesOf, SourcesOf, FlowsOf, LeavesOf
<1>3. Absent \notin Cascade(ns)
  BY <1>1, AbsentAssumption DEF Registered
<1>4. CASE k \in Nodes
  <2>1. HangsOff(k) = {}
    BY <1>4, HangsFacts
  <2>2. k \in Cascade(ns) <=> k \in ns
    BY <1>2, <1>4
  <2> QED BY <1>1, <2>1, <2>2
<1>5. CASE k \in Devices
  <2>1. k \notin ns /\ typed[k].up \in Nodes
    BY <1>5, TypesAssumption, ReferenceTypes
  <2>2. k \in Cascade(ns) <=> typed[k].up \in ns
    BY <1>2, <1>5 DEF DevicesOf
  <2> QED BY <1>1, <1>2, <1>5, <2>1, <2>2, HangsFacts
<1>6. CASE k \in Sources
  <2>1. k \notin ns /\ typed[k].up \in Devices
    BY <1>6, TypesAssumption, ReferenceTypes
  <2>2. k \in Cascade(ns) <=> typed[k].up \in ds
    BY <1>2, <1>6 DEF SourcesOf
  <2> QED BY <1>1, <1>2, <1>6, <2>1, <2>2, HangsFacts
<1>7. CASE k \in Leaves
  <2>1. k \notin ns /\ typed[k].up \in Devices
    BY <1>7, TypesAssumption, ReferenceTypes
  <2>2. k \in Cascade(ns) <=> typed[k].up \in ds
    BY <1>2, <1>7 DEF LeavesOf
  <2> QED BY <1>1, <1>2, <1>7, <2>1, <2>2, HangsFacts
<1>8. CASE k \in Flows
  <2>1. /\ k \notin ns /\ typed[k].up \in Devices \cup {Absent}
        /\ typed[k].src \in Sources
    BY <1>8, TypesAssumption, ReferenceTypes
  <2>2. k \in Cascade(ns) <=> typed[k].up \in ds \/ typed[k].src \in ss
    BY <1>2, <1>8 DEF FlowsOf
  <2>3. typed[k].up \in Cascade(ns) <=> typed[k].up \in ds
    BY <1>2, <1>3, <2>1
  <2>4. typed[k].src \in Cascade(ns) <=> typed[k].src \in ss
    BY <1>2, <2>1
  <2> QED BY <1>1, <1>3, <1>8, <2>1, <2>2, <2>3, <2>4, HangsFacts
<1> QED BY <1>1, <1>4, <1>5, <1>6, <1>7, <1>8 DEF Registered, Ids

-----------------------------------------------------------------------------
(* A step that breaks a reference is the DELETE, on its own, of the        *)
(* resource named: registrations test what they name, and a cascade takes  *)
(* whatever names something it takes.                                      *)
LEMMA NewlyDangling ==
  ASSUME TypeInv, HealthTracksNodes, [Next]_vars, NEW p \in Dangling' \ Dangling
  PROVE  /\ p[2] \in Deletable \ Nodes /\ Leaving = {p[2]}
         /\ p[1] \in Registered /\ p[2] \in HangsOff(p[1])
<1> DEFINE i == p[1]
           r == p[2]
<1>1. /\ i \in Registered' /\ r \in Ids \ Registered' /\ r \in HangsOff(i)'
      /\ p = <<i, r>>
  BY DEF Dangling, Ids
<1>2. i \in Registered /\ r \in HangsOff(i) => r \in Registered
  BY <1>1 DEF Dangling
<1>3. ASSUME NEW h \in Handlers, PutChanged(h) PROVE FALSE
  <2>1. /\ Registered' = Registered \cup {job[h].id}
        /\ \A k \in Ids \ {job[h].id} : typed'[k] = typed[k]
        /\ Put(h) /\ typed'[job[h].id] = Typed(job[h].body)
    BY <1>3, PutFacts
  <2>2. CASE i = job[h].id
    <3>1. ParentsRegistered(i, job[h].body) /\ i \in Ids
          /\ job[h].body \in Bodies[i]
      BY <2>1, <2>2 DEF Put
    <3>2. r \in (IF i \in Flows THEN {job[h].body.up, job[h].body.src}
                ELSE {job[h].body.up}) \ {Absent}
      BY <1>1, <2>1, <2>2 DEF HangsOff, Typed
    <3>3. i \notin Nodes
      BY <3>1, <3>2, BodiesAssumption, TypesAssumption
    <3> QED BY <1>1, <2>1, <3>1, <3>2, <3>3 DEF ParentsRegistered
  <2>3. CASE i # job[h].id
    <3>1. i \in Registered /\ r \in HangsOff(i)
      BY <1>1, <2>1, <2>3 DEF HangsOff, Registered
    <3> QED BY <1>1, <1>2, <2>1, <3>1
  <2> QED BY <2>2, <2>3
<1>4. ASSUME typed' = typed PROVE FALSE
  BY <1>1, <1>2, <1>4 DEF HangsOff, Registered
<1>5. ASSUME NEW gone, Remove(gone)
      PROVE  /\ i \in Registered \ gone /\ r \in HangsOff(i)
             /\ r \in gone \cap Registered
  <2>1. /\ Registered' = Registered \ gone
        /\ \A k \in Ids \ gone : typed'[k] = typed[k]
    BY <1>5, RemoveFacts
  <2>2. i \in Registered \ gone /\ r \in HangsOff(i)
    BY <1>1, <2>1 DEF HangsOff, Registered
  <2> QED BY <1>1, <1>2, <2>1, <2>2
<1>6. ASSUME NEW ns \in SUBSET (Nodes \cap Registered), Remove(Cascade(ns))
      PROVE  FALSE
  BY <1>5, <1>6, CascadeExact
<1>7. ASSUME NEW k \in Ids \cap Deletable \cap Registered, k \notin Nodes, Remove({k})
      PROVE  /\ r \in Deletable \ Nodes /\ Leaving = {r}
             /\ i \in Registered /\ r \in HangsOff(i)
  <2>1. Leaving = {k}
    BY <1>7, RemoveFacts DEF Leaving, Registered, Remove
  <2> QED BY <1>5, <1>7, <2>1
<1>8. Stale \in SUBSET (Nodes \cap Registered)
  BY DEF Stale, HealthTracksNodes
<1>9. CASE EvictStale
  BY <1>6, <1>8, <1>9 DEF EvictStale
<1>10. ASSUME NEW k \in Ids, Delete(k)
       PROVE  /\ r \in Deletable \ Nodes /\ Leaving = {r}
              /\ i \in Registered /\ r \in HangsOff(i)
  <2>1. k \in Ids \cap Deletable \cap Registered
    BY <1>10 DEF Delete
  <2>2. CASE k \in Nodes
    BY <1>6, <1>10, <2>1, <2>2 DEF Delete
  <2>3. CASE k \notin Nodes
    BY <1>7, <1>10, <2>1, <2>3 DEF Delete
  <2> QED BY <2>2, <2>3
<1>11. ASSUME NEW h \in Handlers, Ingest(h), ~PutChanged(h) PROVE FALSE
  BY <1>4, <1>11, QuietFacts
<1>12. ~((\E n \in Nodes : Heartbeat(n)) \/ Tick \/ UNCHANGED vars)
  BY <1>4 DEF Heartbeat, Tick, vars, store
<1> QED BY <1>3, <1>9, <1>10, <1>11, <1>12 DEF Next

(* No registration, move, cascade or eviction ever breaks a reference: it  *)
(* takes the DELETE, on its own, of the device or source that is named.    *)
THEOREM ReferencesBreakByDeleteAlways == Spec => ReferencesBreakByDelete
<1> DEFINE Broken == \A p \in Dangling' :
       p \in Dangling \/ (p[2] \in Deletable \ Nodes /\ Leaving = {p[2]})
<1>1. TypeInv /\ HealthTracksNodes /\ [Next]_vars => Broken
  BY NewlyDangling
<1>2. Spec => [][Broken]_vars
  BY <1>1, TypeInvariant, HealthTracksNodesAlways, PTL DEF Spec
<1> QED BY <1>2 DEF ReferencesBreakByDelete

(* With clients that DELETE children first, as this repository's node does *)
(* when it de-registers, all references stay whole for ever.               *)
THEOREM ReferencesStayWhole ==
  Spec /\ ChildrenFirst => []ReferentialIntegrity
<1> DEFINE Orderly == \A r \in Ids \ Nodes :
             Leaving = {r} => \A i \in Registered : r \notin HangsOff(i)
<1>1. Init => ReferentialIntegrity
  BY DEF Init, ReferentialIntegrity, Dangling, Registered
<1>2. TypeInv /\ HealthTracksNodes /\ ReferentialIntegrity /\ [Next]_vars
        /\ [Orderly]_vars => ReferentialIntegrity'
  <2> SUFFICES ASSUME TypeInv, HealthTracksNodes, ReferentialIntegrity,
                      [Next]_vars, [Orderly]_vars,
                      NEW p \in Dangling'
               PROVE  FALSE
    BY DEF ReferentialIntegrity
  <2>1. p \notin Dangling
    BY DEF ReferentialIntegrity
  <2>2. /\ p[2] \notin Nodes /\ Leaving = {p[2]}
        /\ p[1] \in Registered /\ p[2] \in HangsOff(p[1])
    BY <2>1, NewlyDangling
  <2>3. p[2] \in Ids
    BY DEF Dangling, Ids
  <2>4. ~UNCHANGED vars
    BY <2>2 DEF vars, store, Leaving, Registered
  <2> QED BY <2>2, <2>3, <2>4
<1>3. ChildrenFirst <=> [][Orderly]_vars
  BY DEF ChildrenFirst
<1> QED
  BY <1>1, <1>2, <1>3, TypeInvariant, HealthTracksNodesAlways, PTL DEF Spec

-----------------------------------------------------------------------------
(* The ids of the two specifications are the same.                         *)
LEMMA SameIds == Leases!Ids = Ids /\ Nodes \subseteq Ids
  BY DEF Leases!Ids, Ids

(* A typed Put is the entry of its resource.                               *)
LEMMA PutEnters ==
  ASSUME TypeInv, TypeInv', NEW h \in Handlers, PutChanged(h)
  PROVE  Leases!NodeEnters \/ Leases!OtherEnters
<1>a. PICK i \in Ids : i = job[h].id
  BY PutFacts DEF Put
<1>0. PICK b \in Bodies[i] : i = job[h].id /\ b = job[h].body
  BY <1>a, PutFacts DEF Put
<1> DEFINE parents == HangsOff(i)'
<1>1. /\ Put(h) /\ Registered' = Registered \cup {i}
      /\ \A k \in Ids \ {i} : typed'[k] = typed[k]
      /\ typed'[i] = Typed(b)
  BY <1>0, PutFacts
<1>2. i \in Ids /\ b \in Bodies[i] /\ ParentsRegistered(i, b)
  BY <1>0, <1>1 DEF Put
<1>3. typed'[i].up = b.up /\ typed'[i].src = b.src
  BY <1>1 DEF Typed
<1>4. \A k \in Ids \ {i} : HangsOff(k)' = HangsOff(k)
  BY <1>1 DEF HangsOff
<1>5. [k \in Ids |-> HangsOff(k)'] = [[k \in Ids |-> HangsOff(k)] EXCEPT ![i] = parents]
  BY <1>2, <1>4 DEF HangsOff
<1>6. health' = IF i \in Nodes \ Registered THEN [health EXCEPT ![i] = 0] ELSE health
  BY <1>0, <1>1 DEF Put, FirstHealth
<1>7. Leases!Enter(i, parents)
  BY <1>1, <1>5, <1>6, SameIds DEF Leases!Enter
<1>8. parents = (IF i \in Flows THEN {b.up, b.src} ELSE {b.up}) \ {Absent}
  <2>1. i \in Registered'
    BY <1>1
  <2> QED BY <1>3, <2>1 DEF HangsOff
<1>9. CASE i \in Nodes
  <2>1. parents = {}
    BY <1>2, <1>8, <1>9, TypesAssumption, BodiesAssumption
  <2> QED BY <1>7, <1>9, <2>1 DEF Leases!NodeEnters
<1>10. CASE i \notin Nodes
  <2>1. parents \in SUBSET Registered
    BY <1>2, <1>8, <1>10 DEF ParentsRegistered
  <2>2. parents # {}
    <3>1. CASE i \in Flows
      <4>1. b.src \in Sources
        BY <1>2, <3>1, BodiesAssumption
      <4>2. b.src # Absent
        BY <4>1, AbsentAssumption DEF Ids
      <4> QED BY <1>8, <3>1, <4>2
    <3>2. CASE i \notin Flows
      <4>1. b.up \in Nodes \cup Devices
        BY <1>2, <1>10, <3>2, BodiesAssumption DEF Ids
      <4> QED BY <1>8, <3>2, <4>1, AbsentAssumption DEF Ids
    <3> QED BY <3>1, <3>2
  <2> HIDE DEF parents
  <2>3. i \in Ids \ Nodes /\ parents \in (SUBSET Registered) \ {{}}
    BY <1>2, <1>10, <2>1, <2>2
  <2> QED BY <1>7, <2>3 DEF Leases!OtherEnters
<1> QED BY <1>9, <1>10

(* A removal is a removal of the same ids.                                 *)
LEMMA RemovesGone ==
  ASSUME TypeInv, NEW gone, Remove(gone)
  PROVE  Leases!Remove(gone)
<1>1. /\ Registered' = Registered \ gone
      /\ \A k \in Ids \ gone : typed'[k] = typed[k]
  BY RemoveFacts
<1>2. \A k \in Ids : HangsOff(k)' = IF k \in gone THEN {} ELSE HangsOff(k)
  BY <1>1 DEF HangsOff
<1>3. [k \in Ids |-> HangsOff(k)']
        = [k \in Ids |-> IF k \in gone THEN {} ELSE [j \in Ids |-> HangsOff(j)][k]]
  BY <1>2
<1>4. health' = [n \in Nodes |-> IF n \in gone THEN Absent ELSE health[n]]
  BY DEF Remove
<1> QED BY <1>1, <1>3, <1>4, SameIds DEF Leases!Remove

LEMMA CascadeFalls ==
  ASSUME TypeInv, NEW ns \in SUBSET (Nodes \cap Registered), Remove(Cascade(ns))
  PROVE  Leases!Fall(ns)
<1>1. Leases!Remove(Cascade(ns))
  BY RemovesGone
<1>2. Cascade(ns) \in SUBSET Registered
  BY DEF Cascade, DevicesOf, SourcesOf, FlowsOf, LeavesOf
<1>3. \A k \in Registered :
        k \in Cascade(ns) <=> k \in ns \/ [j \in Ids |-> HangsOff(j)][k] \cap Cascade(ns) # {}
  BY CascadeExact DEF Registered
<1> QED BY <1>1, <1>2, <1>3 DEF Leases!Fall

(* Whatever the lock regions of concurrent registrations, DELETEs and the  *)
(* collector's runs do in between, the registry is a NodeLeases: resources *)
(* enter whole and under registered parents, leases run from registration  *)
(* or the last heartbeat, and nodes take exactly what hangs below them.    *)
THEOREM StoreImplementsLeases == Spec => ImplementsLeases
<1>1. Init => Leases!Init
  BY SameIds DEF Init, Leases!Init, HangsOff, Registered
<1>2. ASSUME TypeInv, TypeInv', HealthTracksNodes, [Next]_vars
      PROVE  [Leases!Next]_<<Registered, [i \in Ids |-> HangsOff(i)], health>>
  <2> USE <1>2
  <2>1. ASSUME NEW h \in Handlers, PutChanged(h) PROVE Leases!Next
    BY <2>1, PutEnters DEF Leases!Next
  <2>2. ASSUME typed' = typed
        PROVE  Registered' = Registered
               /\ [i \in Ids |-> HangsOff(i)]' = [i \in Ids |-> HangsOff(i)]
    BY <2>2 DEF Registered, HangsOff
  <2>3. ASSUME NEW h \in Handlers, Ingest(h), ~PutChanged(h)
        PROVE  UNCHANGED <<Registered, [i \in Ids |-> HangsOff(i)], health>>
    BY <2>2, <2>3, QuietFacts
  <2>4. ASSUME NEW n \in Nodes, Heartbeat(n) PROVE Leases!Next
    <3>1. Leases!Renew(n)
      BY <2>2, <2>4 DEF Heartbeat, Leases!Renew
    <3> QED BY <3>1 DEF Leases!Next
  <2>5. CASE Tick
    <3>1. Leases!Tick
      BY <2>2, <2>5 DEF Tick, Leases!Tick
    <3> QED BY <3>1 DEF Leases!Next
  <2>6. ASSUME NEW i \in Ids, Delete(i) PROVE Leases!Next
    <3>1. i \in Registered \cap Deletable
      BY <2>6 DEF Delete
    <3>2. CASE i \in Nodes
      <4>1. Leases!Fall({i})
        BY <2>6, <3>1, <3>2, CascadeFalls DEF Delete
      <4> QED BY <3>1, <3>2, <4>1 DEF Leases!Leave, Leases!Next
    <3>3. CASE i \notin Nodes
      <4>1. Leases!Remove({i})
        BY <2>6, <3>3, RemovesGone DEF Delete
      <4> QED BY <3>1, <3>3, <4>1 DEF Leases!Drop, Leases!Next
    <3> QED BY <3>2, <3>3
  <2>7. CASE EvictStale
    <3>1. Stale = Leases!Lapsed
      <4>1. \A n \in Nodes : health[n] \in 0 .. StaleAfter + 1 \cup {Absent}
        BY DEF TypeInv, TypeOK
      <4>2. \A a \in 0 .. StaleAfter + 1 : a > StaleAfter <=> a = StaleAfter + 1
        BY ConstantsAssumption
      <4>3. Absent # StaleAfter + 1
        BY ConstantsAssumption, AbsentAssumption
      <4> QED BY <4>1, <4>2, <4>3 DEF Stale, Leases!Lapsed, HealthTracksNodes
    <3>2. Stale \in SUBSET (Nodes \cap Registered)
      BY DEF Stale, HealthTracksNodes
    <3>3. Leases!Fall(Stale) /\ Stale # {}
      BY <2>7, <3>2, CascadeFalls DEF EvictStale
    <3> QED BY <3>1, <3>3 DEF Leases!Expire, Leases!Next
  <2>8. CASE UNCHANGED vars
    BY <2>2, <2>8 DEF vars, store
  <2> QED BY <2>1, <2>3, <2>4, <2>5, <2>6, <2>7, <2>8 DEF Next
<1> QED
  BY <1>1, <1>2, TypeInvariant, HealthTracksNodesAlways, PTL
     DEF Spec, ImplementsLeases, Leases!Spec
=============================================================================
