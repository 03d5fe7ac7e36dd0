--------------------- MODULE RegistrationClient_proofs ---------------------
(***************************************************************************)
(* A node that is closed while registered leaves no resource behind, for   *)
(* any bundle, any number of registries and names and any disturbances.    *)
(*                                                                         *)
(* As long as every request is answered, whatever any registry holds of    *)
(* the node is held by the one the client is registered or registering     *)
(* with: a registration that fails was refused because the registry had    *)
(* lost the node, and with the node goes all that is under it.             *)
(***************************************************************************)
EXTENDS RegistrationClient, WellFoundedInduction, TLAPS

Registering == pc \in {"post", "delete", "repost"} /\ why # "republish"

(* No registry holds a resource of a node it does not hold.                *)
NodesHoldResources ==
  \A s \in Servers : held[s][Node] = None => held[s] = Empty

(* The flag is up wherever the loop relies on it, and down while it looks  *)
(* for a registry.                                                         *)
FlagFollowsStep ==
  /\ pc = "beat" \/ pc = "deregister" => registered
  /\ pc \in {"post", "delete", "repost"} /\ why = "republish" => registered
  /\ Registering => ~registered
  /\ pc \in {"run", "attempt", "rejoin"} => why # "republish" /\ ~registered

(* A node on duty when it was closed goes straight to its deregistration.  *)
OnTheWayOut ==
  /\ pc = "stopped" => cancelled
  /\ pc = "deregister" /\ why # "switch" => cancelled
  /\ onDuty =>
       /\ cancelled
       /\ pc \notin {"run", "attempt", "rejoin"}
       /\ ~Registering
       /\ pc # "stopped" => registered
       /\ pc = "deregister" => why = "stop"

HeldNowhere == \A s \in Servers : held[s] = Empty
HeldAtBase == \A s \in Servers : held[s] # Empty => name # None /\ s = Base

(* What is held where, while every request is answered.                    *)
Reliable == smooth /\ (~cancelled \/ onDuty)
Accounted ==
  /\ HeldAtBase
  /\ pc \in {"run", "attempt", "rejoin", "stopped"} => HeldNowhere
  /\ pc = "loop" /\ ~registered => HeldNowhere
Traceable == Reliable => Accounted

USE OrderAssumption, NamesAssumption, LimitsAssumption

-----------------------------------------------------------------------------
LEMMA LeastNatural ==
  ASSUME NEW T \in SUBSET Nat, T # {}
  PROVE  \E x \in T : \A y \in T : x <= y
<1>1. PICK x \in T : \A y \in T : ~(<<y, x>> \in OpToRel(<, Nat))
  BY NatLessThanWellFounded, WFMin, Zenon
<1>2. ASSUME NEW y \in T PROVE x <= y
  <2>1. ~(y < x)
    BY <1>1, Zenon DEF OpToRel
  <2> QED BY <2>1
<1> QED BY <1>2

LEMMA PreferredIsOne ==
  ASSUME NEW names \in SUBSET Names, names # {}
  PROVE  Preferred(names) \in names
<1>1. PICK n \in names : \A m \in names : n <= m
  BY LeastNatural
<1> QED BY <1>1 DEF Preferred

LEMMA BestIsName ==
  ASSUME TypeOK
  PROVE  Best \in Names \cup {None}
<1>1. Usable \subseteq Names /\ Sound \subseteq Names
  BY DEF Usable, Sound, TypeOK
<1>2. CASE Sound # {}
  BY <1>1, <1>2, PreferredIsOne DEF Best
<1>3. CASE Sound = {} /\ Usable # {}
  BY <1>1, <1>3, PreferredIsOne DEF Best
<1>4. CASE Sound = {} /\ Usable = {}
  BY <1>4 DEF Best
<1> QED BY <1>2, <1>3, <1>4

LEMMA OrderFacts ==
  /\ Len(Order) \in Nat \ {0} /\ 1 \in 1 .. Len(Order)
  /\ Node \in Resources
  /\ \A k \in 1 .. Len(Order) : Order[k] \in Resources
  /\ Empty \in [Resources -> Versions \cup {None}]
  /\ 0 \in Versions
BY DEF Resources, Node, Empty, Versions

LEMMA BaseIsServer ==
  ASSUME name \in Names
  PROVE  Base \in Servers
BY DEF Base, Servers


-----------------------------------------------------------------------------
(* The parts of the type invariant, as the actions touch them.  Only an    *)
(* attempt that is about to start may have used up the cascade.            *)
BundleType ==
  /\ version \in [Resources -> Versions]
  /\ republish \in Seq(Snapshots) /\ Len(republish) <= QueueLimit
StepType ==
  /\ pc \in {"run", "loop", "attempt", "rejoin", "post", "delete", "repost",
             "beat", "deregister", "stopped"}
  /\ why \in {"initial", "tick", "cascade", "republish", "switch", "stop"}
  /\ at \in 1 .. Len(Order)
  /\ item \in Snapshots
  /\ attempts \in 0 .. MaxFailoverChain
  /\ pc # "attempt" => attempts < MaxFailoverChain
  /\ name \in Names \cup {None}
  /\ pc \in {"rejoin", "post", "delete", "repost", "beat", "deregister"}
       => name # None
  /\ registered => name # None
FlagType == registered \in BOOLEAN /\ everRegistered \in BOOLEAN
WatcherType == advertised \subseteq Names /\ disqualified \subseteq Names
HeldType == held \in [Servers -> [Resources -> Versions \cup {None}]]
EnvType ==
  /\ cancelled \in BOOLEAN
  /\ troubles \in 0 .. MaxTroubles
  /\ smooth \in BOOLEAN
  /\ onDuty \in BOOLEAN

TypeInv ==
  /\ BundleType /\ StepType /\ FlagType /\ WatcherType /\ HeldType /\ EnvType
  /\ FlagFollowsStep

LEMMA TypeInvSuffices == TypeInv => TypeOK
<1> SUFFICES ASSUME TypeInv PROVE TypeOK
  OBVIOUS
<1>1. at \in 0 .. Len(Order)
  BY OrderFacts DEF TypeInv, StepType
<1> QED
  BY <1>1, Zenon DEF TypeOK, TypeInv, BundleType, StepType, FlagType,
       WatcherType, HeldType, EnvType

LEMMA SnapshotFacts ==
  ASSUME BundleType, StepType
  PROVE  /\ [res |-> Node, ver |-> 0] \in Snapshots
         /\ [res |-> Node, ver |-> version[Node]] \in Snapshots
         /\ \A k \in 1 .. Len(Order) :
              [res |-> Order[k], ver |-> version[Order[k]]] \in Snapshots
         /\ item.res \in Resources /\ item.ver \in Versions
BY OrderFacts DEF Snapshots, BundleType, StepType

LEMMA PutTyped ==
  ASSUME HeldType, NEW s \in Servers, NEW r \in Resources, NEW v \in Versions,
         Put(s, r, v)
  PROVE  HeldType'
BY DEF HeldType, Put

LEMMA DropTyped ==
  ASSUME HeldType, NEW s \in Servers, NEW r \in Resources, Drop(s, r)
  PROVE  HeldType'
BY OrderFacts DEF HeldType, Drop

LEMMA AnswerTyped ==
  ASSUME EnvType, Answered \/ Failing \/ Unanswered
  PROVE  EnvType'
<1>1. CASE Unanswered
  <2>1. troubles' \in 0 .. MaxTroubles
    BY <1>1, LimitsAssumption DEF EnvType, Unanswered
  <2>2. smooth' \in BOOLEAN /\ cancelled' \in BOOLEAN /\ onDuty' \in BOOLEAN
    BY <1>1, Zenon DEF EnvType, Unanswered
  <2> QED BY <2>1, <2>2, Zenon DEF EnvType
<1>2. CASE UNCHANGED env
  BY <1>2, Zenon DEF EnvType, env
<1> QED
  BY <1>1, <1>2, Zenon DEF Answered, Failing

(* What the ways out of a request leave typed.                             *)
Underway == pc \in {"rejoin", "post", "delete", "repost"}
Moved == StepType /\ FlagType /\ WatcherType /\ FlagFollowsStep

LEMMA AttemptFailsTyped ==
  ASSUME TypeInv, Underway, why # "republish", AttemptFails
  PROVE  Moved'
<1> USE OrderFacts, SnapshotFacts DEF TypeInv, AttemptFails, Settle, Penalise, Underway
<1>1. StepType' BY DEF StepType
<1>2. FlagType' BY DEF FlagType
<1>3. WatcherType' BY DEF StepType, WatcherType
<1>4. FlagFollowsStep' BY DEF FlagFollowsStep, Registering, TypeInv, FlagType
<1> QED BY <1>1, <1>2, <1>3, <1>4, Zenon DEF Moved

LEMMA JoinedTyped ==
  ASSUME TypeInv, Underway, Joined
  PROVE  Moved'
<1> USE OrderFacts, SnapshotFacts DEF TypeInv, Joined, Settle, Underway
<1>1. StepType' BY DEF StepType, watcher
<1>2. FlagType' BY DEF FlagType
<1>3. WatcherType' BY DEF WatcherType, watcher
<1>4. FlagFollowsStep' BY DEF FlagFollowsStep, Registering, TypeInv, FlagType
<1> QED BY <1>1, <1>2, <1>3, <1>4, Zenon DEF Moved

LEMMA PostedTyped ==
  ASSUME TypeInv, pc \in {"post", "repost"}, Posted
  PROVE  Moved'
<1>1. Underway
  BY DEF Underway
<1>2. CASE Joined
  BY <1>1, <1>2, JoinedTyped
<1>3. CASE why = "republish"
  <2> USE <1>3, OrderFacts, SnapshotFacts DEF TypeInv, Posted, Settle
  <2>1. StepType' BY DEF StepType
  <2>2. FlagType' BY DEF FlagType
  <2>3. WatcherType' BY DEF WatcherType, watcher
  <2>4. FlagFollowsStep' BY DEF FlagFollowsStep, Registering, TypeInv, FlagType
  <2> QED BY <2>1, <2>2, <2>3, <2>4, Zenon DEF Moved
<1>4. CASE why # "republish" /\ ~AllPosted
  <2> USE <1>4, OrderFacts, SnapshotFacts DEF TypeInv, Posted, AllPosted
  <2>1. StepType' BY DEF StepType
  <2>2. FlagType' BY DEF FlagType
  <2>3. WatcherType' BY DEF WatcherType, watcher
  <2>4. FlagFollowsStep' BY DEF FlagFollowsStep, Registering, TypeInv, FlagType
  <2> QED BY <2>1, <2>2, <2>3, <2>4, Zenon DEF Moved
<1> QED BY <1>2, <1>3, <1>4 DEF Posted

LEMMA PostFailsTyped ==
  ASSUME TypeInv, pc \in {"post", "repost"}, PostFails
  PROVE  Moved'
<1>1. Underway
  BY DEF Underway
<1>2. CASE why # "republish" /\ AttemptFails
  BY <1>1, <1>2, AttemptFailsTyped
<1>3. CASE why = "republish"
  <2> USE <1>3, OrderFacts, SnapshotFacts DEF TypeInv, PostFails, Settle
  <2>1. StepType' BY DEF StepType
  <2>2. FlagType' BY DEF FlagType
  <2>3. WatcherType' BY DEF WatcherType, watcher
  <2>4. FlagFollowsStep' BY DEF FlagFollowsStep, Registering, TypeInv, FlagType
  <2> QED BY <2>1, <2>2, <2>3, <2>4, Zenon DEF Moved
<1> QED BY <1>2, <1>3 DEF PostFails

LEMMA TypeStep ==
  ASSUME TypeInv, [Next]_vars
  PROVE  TypeInv'
<1> USE OrderFacts, SnapshotFacts
<1>1. CASE Run
  <2>1. BundleType' BY <1>1 DEF Run, TypeInv, BundleType
  <2>2. StepType'
    <3>1. Best \in Names \cup {None}
      BY BestIsName, TypeInvSuffices DEF TypeOK
    <3> QED BY <1>1, <3>1 DEF Run, TypeInv, StepType, FlagFollowsStep, Pick, Settle
  <2>3. FlagType' BY <1>1 DEF Run, TypeInv, FlagType
  <2>4. WatcherType' BY <1>1 DEF Run, TypeInv, WatcherType, watcher
  <2>5. HeldType' BY <1>1 DEF Run, TypeInv, HeldType
  <2>6. EnvType' BY <1>1, Zenon DEF Run, TypeInv, EnvType, env
  <2>7. FlagFollowsStep' BY <1>1 DEF Run, TypeInv, FlagType, FlagFollowsStep, Registering, Pick, Settle
  <2> QED BY <2>1, <2>2, <2>3, <2>4, <2>5, <2>6, <2>7, Zenon DEF TypeInv
<1>2. CASE Attempt
  <2>1. BundleType' BY <1>2 DEF Attempt, TypeInv, BundleType
  <2>2. StepType'
    <3>1. Best \in Names \cup {None}
      BY BestIsName, TypeInvSuffices DEF TypeOK
    <3>2. CASE attempts = MaxFailoverChain \/ Best = None
      BY <1>2, <3>2, LimitsAssumption DEF Attempt, TypeInv, StepType, FlagFollowsStep, Settle
    <3>3. CASE ~(attempts = MaxFailoverChain \/ Best = None)
      BY <1>2, <3>1, <3>3 DEF Attempt, TypeInv, StepType, Pick, Settle
    <3> QED BY <3>2, <3>3
  <2>3. FlagType' BY <1>2 DEF Attempt, TypeInv, FlagType
  <2>4. WatcherType' BY <1>2 DEF Attempt, TypeInv, WatcherType, watcher
  <2>5. HeldType' BY <1>2 DEF Attempt, TypeInv, HeldType
  <2>6. EnvType' BY <1>2, Zenon DEF Attempt, TypeInv, EnvType, env
  <2>7. FlagFollowsStep' BY <1>2 DEF Attempt, TypeInv, FlagType, FlagFollowsStep, Registering, Pick, Settle
  <2> QED BY <2>1, <2>2, <2>3, <2>4, <2>5, <2>6, <2>7, Zenon DEF TypeInv
<1>3. CASE Rejoin
  <2>1. BundleType' BY <1>3 DEF Rejoin, TypeInv, BundleType
  <2>2. Moved'
    <3>1. Underway
      BY <1>3 DEF Rejoin, Underway
    <3>2. CASE Joined \/ AttemptFails
      BY <1>3, <3>1, <3>2, JoinedTyped, AttemptFailsTyped
         DEF Rejoin, TypeInv, FlagFollowsStep
    <3>3. CASE /\ pc' = "post"
               /\ UNCHANGED <<why, at, item, attempts, name, registered,
                              everRegistered, watcher>>
      <4>1. StepType' BY <1>3, <3>3 DEF Rejoin, TypeInv, StepType
      <4>2. FlagType' BY <3>3 DEF TypeInv, FlagType
      <4>3. WatcherType' BY <3>3 DEF TypeInv, WatcherType, watcher
      <4>4. FlagFollowsStep' BY <1>3, <3>3 DEF Rejoin, FlagFollowsStep, Registering, TypeInv, FlagType
      <4> QED BY <4>1, <4>2, <4>3, <4>4, Zenon DEF Moved
    <3> QED BY <1>3, <3>2, <3>3, Zenon DEF Rejoin
  <2>3. HeldType' BY <1>3 DEF Rejoin, TypeInv, HeldType
  <2>4. EnvType' BY <1>3, AnswerTyped, Zenon DEF Rejoin, TypeInv
  <2> QED BY <2>1, <2>2, <2>3, <2>4, Zenon DEF TypeInv, Moved
<1>4. CASE Post
  <2>1. BundleType' BY <1>4 DEF Post, TypeInv, BundleType
  <2>2. Moved'
    <3>1. CASE Posted \/ PostFails
      BY <1>4, <3>1, PostedTyped, PostFailsTyped DEF Post
    <3>2. CASE /\ pc' = "delete"
               /\ UNCHANGED <<why, at, item, attempts, name, registered,
                              everRegistered, watcher>>
      <4>1. StepType' BY <1>4, <3>2 DEF Post, TypeInv, StepType
      <4>2. FlagType' BY <3>2 DEF TypeInv, FlagType
      <4>3. WatcherType' BY <3>2 DEF TypeInv, WatcherType, watcher
      <4>4. FlagFollowsStep' BY <1>4, <3>2 DEF Post, FlagFollowsStep, Registering, TypeInv, FlagType
      <4> QED BY <4>1, <4>2, <4>3, <4>4, Zenon DEF Moved
    <3> QED BY <1>4, <3>1, <3>2, Zenon DEF Post
  <2>3. HeldType'
    <3>1. Base \in Servers
      BY <1>4, BaseIsServer DEF Post, TypeInv, StepType
    <3>2. CASE UNCHANGED held
      BY <3>2 DEF TypeInv, HeldType
    <3>3. CASE Put(Base, item.res, item.ver)
      BY <3>1, <3>3, PutTyped DEF TypeInv
    <3> QED BY <1>4, <3>2, <3>3, Zenon DEF Post
  <2>4. EnvType' BY <1>4, AnswerTyped, Zenon DEF Post, TypeInv
  <2> QED BY <2>1, <2>2, <2>3, <2>4, Zenon DEF TypeInv, Moved
<1>5. CASE DeleteStale
  <2>1. BundleType' BY <1>5 DEF DeleteStale, TypeInv, BundleType
  <2>2. StepType' BY <1>5 DEF DeleteStale, TypeInv, StepType
  <2>3. FlagType' BY <1>5 DEF DeleteStale, TypeInv, FlagType
  <2>4. WatcherType' BY <1>5 DEF DeleteStale, TypeInv, WatcherType, watcher
  <2>5. HeldType'
    <3>1. Base \in Servers
      BY <1>5, BaseIsServer DEF DeleteStale, TypeInv, StepType
    <3>2. CASE UNCHANGED held
      BY <3>2 DEF TypeInv, HeldType
    <3>3. CASE Drop(Base, item.res)
      BY <3>1, <3>3, DropTyped DEF TypeInv
    <3> QED BY <1>5, <3>2, <3>3, Zenon DEF DeleteStale
  <2>6. EnvType' BY <1>5, AnswerTyped, Zenon DEF DeleteStale, TypeInv
  <2>7. FlagFollowsStep' BY <1>5 DEF DeleteStale, TypeInv, FlagType, FlagFollowsStep, Registering
  <2> QED BY <2>1, <2>2, <2>3, <2>4, <2>5, <2>6, <2>7, Zenon DEF TypeInv
<1>6. CASE Repost
  <2>1. BundleType' BY <1>6 DEF Repost, TypeInv, BundleType
  <2>2. Moved'
    <3>1. Posted \/ PostFails
      BY <1>6, Zenon DEF Repost
    <3> QED BY <1>6, <3>1, PostedTyped, PostFailsTyped DEF Repost
  <2>3. HeldType'
    <3>1. Base \in Servers
      BY <1>6, BaseIsServer DEF Repost, TypeInv, StepType
    <3>2. CASE UNCHANGED held
      BY <3>2 DEF TypeInv, HeldType
    <3>3. CASE Put(Base, item.res, item.ver)
      BY <3>1, <3>3, PutTyped DEF TypeInv
    <3> QED BY <1>6, <3>2, <3>3, Zenon DEF Repost
  <2>4. EnvType' BY <1>6, AnswerTyped, Zenon DEF Repost, TypeInv
  <2> QED BY <2>1, <2>2, <2>3, <2>4, Zenon DEF TypeInv, Moved
<1>7. CASE KeepAliveFails
  <2>1. BundleType' BY <1>7 DEF KeepAliveFails, TypeInv, BundleType
  <2>2. Moved' BY <1>7, AttemptFailsTyped DEF KeepAliveFails, Underway
  <2>3. HeldType' BY <1>7 DEF KeepAliveFails, TypeInv, HeldType
  <2>4. EnvType' BY <1>7, AnswerTyped, Zenon DEF KeepAliveFails, TypeInv
  <2> QED BY <2>1, <2>2, <2>3, <2>4, Zenon DEF TypeInv, Moved
<1>8. CASE Stopping
  <2>1. BundleType' BY <1>8 DEF Stopping, TypeInv, BundleType
  <2>2. StepType' BY <1>8 DEF Stopping, TypeInv, StepType, Leave, Go
  <2>3. FlagType' BY <1>8 DEF Stopping, TypeInv, FlagType
  <2>4. WatcherType' BY <1>8 DEF Stopping, TypeInv, WatcherType, watcher
  <2>5. HeldType' BY <1>8 DEF Stopping, TypeInv, HeldType
  <2>6. EnvType' BY <1>8, Zenon DEF Stopping, TypeInv, EnvType, env
  <2>7. FlagFollowsStep' BY <1>8 DEF Stopping, TypeInv, FlagType, FlagFollowsStep, Registering, Leave, Go
  <2> QED BY <2>1, <2>2, <2>3, <2>4, <2>5, <2>6, <2>7, Zenon DEF TypeInv
<1>9. CASE RepublishItem
  <2>1. BundleType'
    BY <1>9 DEF RepublishItem, TypeInv, BundleType
  <2>2. StepType'
    <3>1. Head(republish) \in Snapshots
      BY <1>9 DEF RepublishItem, TypeInv, BundleType
    <3> QED BY <1>9, <3>1 DEF RepublishItem, TypeInv, StepType, Go
  <2>3. FlagType' BY <1>9 DEF RepublishItem, TypeInv, FlagType, client
  <2>4. WatcherType' BY <1>9 DEF RepublishItem, TypeInv, WatcherType, watcher
  <2>5. HeldType' BY <1>9 DEF RepublishItem, TypeInv, HeldType
  <2>6. EnvType' BY <1>9, Zenon DEF RepublishItem, TypeInv, EnvType, env
  <2>7. FlagFollowsStep' BY <1>9 DEF RepublishItem, TypeInv, FlagType, FlagFollowsStep, Registering, client, Go
  <2> QED BY <2>1, <2>2, <2>3, <2>4, <2>5, <2>6, <2>7, Zenon DEF TypeInv
<1>10. CASE Tick
  <2>1. BundleType' BY <1>10 DEF Tick, TypeInv, BundleType
  <2>2. StepType'
    <3>1. Best \in Names \cup {None}
      BY BestIsName, TypeInvSuffices DEF TypeOK
    <3>2. CASE ~registered
      BY <1>10, <3>2 DEF Tick, TypeInv, StepType, Go
    <3>3. CASE registered
      BY <1>10, <3>1, <3>3 DEF Tick, TypeInv, StepType, Go
    <3> QED BY <3>2, <3>3
  <2>3. FlagType' BY <1>10 DEF Tick, TypeInv, FlagType, client
  <2>4. WatcherType' BY <1>10 DEF Tick, TypeInv, WatcherType, watcher
  <2>5. HeldType' BY <1>10 DEF Tick, TypeInv, HeldType
  <2>6. EnvType' BY <1>10, Zenon DEF Tick, TypeInv, EnvType, env
  <2>7. FlagFollowsStep'
    <3>1. CASE ~registered
      BY <1>10, <3>1 DEF Tick, TypeInv, FlagFollowsStep, Registering, Go
    <3>2. CASE registered
      BY <1>10, <3>2 DEF Tick, TypeInv, FlagFollowsStep, Registering, Go
    <3> QED BY <3>1, <3>2
  <2> QED BY <2>1, <2>2, <2>3, <2>4, <2>5, <2>6, <2>7, Zenon DEF TypeInv
<1>11. CASE Heartbeat
  <2>1. BundleType' BY <1>11 DEF Heartbeat, TypeInv, BundleType
  <2>2. StepType' BY <1>11 DEF Heartbeat, TypeInv, StepType, Leave, Go
  <2>3. FlagType'
    <3>1. CASE UNCHANGED registered
      BY <1>11, <3>1 DEF Heartbeat, TypeInv, FlagType
    <3>2. CASE registered' \in BOOLEAN
      BY <1>11, <3>2 DEF Heartbeat, TypeInv, FlagType
    <3> QED BY <1>11, <3>1, <3>2 DEF Heartbeat
  <2>4. WatcherType' BY <1>11 DEF Heartbeat, TypeInv, StepType, WatcherType, Penalise
  <2>5. HeldType' BY <1>11 DEF Heartbeat, TypeInv, HeldType
  <2>6. EnvType' BY <1>11, AnswerTyped, Zenon DEF Heartbeat, TypeInv, EnvType, env
  <2>7. FlagFollowsStep' BY <1>11 DEF Heartbeat, TypeInv, FlagType, FlagFollowsStep, Registering, client, Go, Leave
  <2> QED BY <2>1, <2>2, <2>3, <2>4, <2>5, <2>6, <2>7, Zenon DEF TypeInv
<1>12. CASE Deregister
  <2>1. BundleType' BY <1>12 DEF Deregister, TypeInv, BundleType
  <2>2. StepType'
    <3>1. CASE at > 1
      <4>1. at' \in 1 .. Len(Order)
        BY <1>12, <3>1 DEF Deregister, TypeInv, StepType
      <4> QED BY <1>12, <3>1, <4>1 DEF Deregister, TypeInv, StepType
    <3>2. CASE ~(at > 1)
      BY <1>12, <3>2 DEF Deregister, TypeInv, StepType, Go
    <3> QED BY <3>1, <3>2
  <2>3. FlagType' BY <1>12 DEF Deregister, TypeInv, FlagType, client
  <2>4. WatcherType' BY <1>12 DEF Deregister, TypeInv, WatcherType, watcher
  <2>5. HeldType'
    <3>1. Base \in Servers
      BY <1>12, BaseIsServer DEF Deregister, TypeInv, StepType
    <3>2. CASE UNCHANGED held
      BY <3>2 DEF TypeInv, HeldType
    <3>3. CASE Drop(Base, Order[at])
      BY <3>1, <3>3, DropTyped DEF TypeInv, StepType
    <3> QED BY <1>12, <3>2, <3>3, Zenon DEF Deregister
  <2>6. EnvType'
    <3>1. CASE UNCHANGED env
      BY <3>1, Zenon DEF TypeInv, EnvType, env
    <3> QED BY <1>12, <3>1, AnswerTyped, Zenon DEF Deregister, TypeInv
  <2>7. FlagFollowsStep' BY <1>12 DEF Deregister, TypeInv, FlagType, FlagFollowsStep, Registering, client, Go
  <2> QED BY <2>1, <2>2, <2>3, <2>4, <2>5, <2>6, <2>7, Zenon DEF TypeInv
<1>13. ASSUME NEW r \in Changing, Republish(r) PROVE TypeInv'
  <2>1. BundleType'
    <3>1. r \in Resources /\ version[r] + 1 \in Versions
      BY <1>13, OrderAssumption, LimitsAssumption
         DEF Republish, TypeInv, BundleType, Versions
    <3>2. [res |-> r, ver |-> version[r] + 1] \in Snapshots
      BY <3>1 DEF Snapshots
    <3>3. version' \in [Resources -> Versions]
      BY <1>13, <3>1 DEF Republish, TypeInv, BundleType
    <3>4. republish' \in Seq(Snapshots) /\ Len(republish') <= QueueLimit
      <4>1. \A x \in Snapshots : /\ Append(republish, x) \in Seq(Snapshots)
                                /\ Len(Append(republish, x)) = Len(republish) + 1
        BY DEF TypeInv, BundleType
      <4>2. CASE HasRoom
        <5>1. /\ republish' \in Seq(Snapshots)
              /\ Len(republish') = Len(republish) + 1
          BY <1>13, <3>2, <4>1, <4>2, Zenon DEF Republish
        <5> QED BY <4>2, <5>1, LimitsAssumption DEF TypeInv, BundleType, HasRoom
      <4>3. CASE ~HasRoom
        BY <1>13, <4>3 DEF Republish, TypeInv, BundleType
      <4> QED BY <4>2, <4>3
    <3> QED BY <3>3, <3>4 DEF BundleType
  <2>2. StepType' BY <1>13 DEF Republish, TypeInv, StepType, client
  <2>3. FlagType' BY <1>13 DEF Republish, TypeInv, FlagType, client
  <2>4. WatcherType' BY <1>13 DEF Republish, TypeInv, WatcherType, watcher
  <2>5. HeldType' BY <1>13 DEF Republish, TypeInv, HeldType
  <2>6. EnvType'
    <3>1. smooth' \in BOOLEAN
      BY <1>13, Zenon DEF Republish, TypeInv, EnvType
    <3> QED BY <1>13, <3>1, Zenon DEF Republish, TypeInv, EnvType
  <2>7. FlagFollowsStep' BY <1>13 DEF Republish, TypeInv, FlagType, FlagFollowsStep, Registering, client
  <2> QED BY <2>1, <2>2, <2>3, <2>4, <2>5, <2>6, <2>7, Zenon DEF TypeInv
<1>14. CASE Close
  <2>1. BundleType' BY <1>14 DEF Close, TypeInv, BundleType
  <2>2. StepType' BY <1>14 DEF Close, TypeInv, StepType, client
  <2>3. FlagType' BY <1>14 DEF Close, TypeInv, FlagType, client
  <2>4. WatcherType' BY <1>14 DEF Close, TypeInv, WatcherType, watcher
  <2>5. HeldType' BY <1>14 DEF Close, TypeInv, HeldType
  <2>6. EnvType'
    <3>1. onDuty' \in BOOLEAN
      BY <1>14, Zenon DEF Close
    <3> QED BY <1>14, <3>1, Zenon DEF Close, TypeInv, EnvType
  <2>7. FlagFollowsStep' BY <1>14 DEF Close, TypeInv, FlagType, FlagFollowsStep, Registering, client
  <2> QED BY <2>1, <2>2, <2>3, <2>4, <2>5, <2>6, <2>7, Zenon DEF TypeInv
<1>15. ASSUME NEW s \in Servers, Forget(s) PROVE TypeInv'
  <2>1. BundleType' BY <1>15 DEF Forget, TypeInv, BundleType
  <2>2. StepType' BY <1>15 DEF Forget, TypeInv, StepType, client
  <2>3. FlagType' BY <1>15 DEF Forget, TypeInv, FlagType, client
  <2>4. WatcherType' BY <1>15 DEF Forget, TypeInv, WatcherType, watcher
  <2>5. HeldType' BY <1>15 DEF Forget, TypeInv, HeldType
  <2>6. EnvType'
    <3>1. troubles' \in 0 .. MaxTroubles
      BY <1>15, LimitsAssumption DEF Forget, Trouble, TypeInv, EnvType
    <3> QED BY <1>15, <3>1, Zenon DEF Forget, TypeInv, EnvType
  <2>7. FlagFollowsStep' BY <1>15 DEF Forget, TypeInv, FlagType, FlagFollowsStep, Registering, client
  <2> QED BY <2>1, <2>2, <2>3, <2>4, <2>5, <2>6, <2>7, Zenon DEF TypeInv
<1>16. ASSUME NEW n \in Names, Advertise(n) PROVE TypeInv'
  <2>1. BundleType' BY <1>16 DEF Advertise, TypeInv, BundleType
  <2>2. StepType' BY <1>16 DEF Advertise, TypeInv, StepType, client
  <2>3. FlagType' BY <1>16 DEF Advertise, TypeInv, FlagType, client
  <2>4. WatcherType' BY <1>16 DEF Advertise, TypeInv, WatcherType
  <2>5. HeldType' BY <1>16 DEF Advertise, TypeInv, HeldType
  <2>6. EnvType' BY <1>16, Zenon DEF Advertise, TypeInv, EnvType, env
  <2>7. FlagFollowsStep' BY <1>16 DEF Advertise, TypeInv, FlagType, FlagFollowsStep, Registering, client
  <2> QED BY <2>1, <2>2, <2>3, <2>4, <2>5, <2>6, <2>7, Zenon DEF TypeInv
<1>17. ASSUME NEW n \in Names, PenaltyExpires(n) PROVE TypeInv'
  <2>1. BundleType' BY <1>17 DEF PenaltyExpires, TypeInv, BundleType
  <2>2. StepType' BY <1>17 DEF PenaltyExpires, TypeInv, StepType, client
  <2>3. FlagType' BY <1>17 DEF PenaltyExpires, TypeInv, FlagType, client
  <2>4. WatcherType' BY <1>17 DEF PenaltyExpires, TypeInv, WatcherType
  <2>5. HeldType' BY <1>17 DEF PenaltyExpires, TypeInv, HeldType
  <2>6. EnvType' BY <1>17, Zenon DEF PenaltyExpires, TypeInv, EnvType, env
  <2>7. FlagFollowsStep' BY <1>17 DEF PenaltyExpires, TypeInv, FlagType, FlagFollowsStep, Registering, client
  <2> QED BY <2>1, <2>2, <2>3, <2>4, <2>5, <2>6, <2>7, Zenon DEF TypeInv
<1>18. CASE UNCHANGED vars
  <2> USE <1>18 DEF vars, client, watcher, env
  <2>1. BundleType' BY DEF TypeInv, BundleType
  <2>2. StepType' BY DEF TypeInv, StepType
  <2>3. FlagType' BY DEF TypeInv, FlagType
  <2>4. WatcherType' BY DEF TypeInv, WatcherType
  <2>5. HeldType' BY DEF TypeInv, HeldType
  <2>6. EnvType' BY Zenon DEF TypeInv, EnvType
  <2>7. FlagFollowsStep' BY Zenon DEF TypeInv, FlagFollowsStep, Registering
  <2> QED BY <2>1, <2>2, <2>3, <2>4, <2>5, <2>6, <2>7, Zenon DEF TypeInv
<1> QED
  BY <1>1, <1>2, <1>3, <1>4, <1>5, <1>6, <1>7, <1>8, <1>9, <1>10, <1>11,
     <1>12, <1>13, <1>14, <1>15, <1>16, <1>17, <1>18, Zenon DEF Next, Loop

LEMMA TypeInit == Init => TypeInv
<1> SUFFICES ASSUME Init PROVE TypeInv
  OBVIOUS
<1> USE OrderFacts DEF Init
<1>1. BundleType
  <2>1. version \in [Resources -> Versions]
    OBVIOUS
  <2>2. republish \in Seq(Snapshots) /\ Len(republish) = 0
    OBVIOUS
  <2> QED BY <2>1, <2>2 DEF BundleType
<1>2. StepType
  BY DEF StepType, Snapshots
<1>3. FlagType BY DEF FlagType
<1>4. WatcherType BY DEF WatcherType
<1>5. HeldType BY DEF HeldType
<1>6. EnvType
  <2>1. troubles \in 0 .. MaxTroubles BY LimitsAssumption
  <2> QED BY <2>1, Zenon DEF EnvType
<1>7. FlagFollowsStep BY DEF FlagFollowsStep, Registering
<1> QED BY <1>1, <1>2, <1>3, <1>4, <1>5, <1>6, <1>7, Zenon DEF TypeInv

(* Every variable of the client keeps its type: the republish queue stays  *)
(* within its capacity, and no request is sent without a registry to send  *)
(* it to.                                                                  *)
THEOREM TypeCorrect == Spec => []TypeOK
<1>1. Spec => []TypeInv
  BY TypeInit, TypeStep, PTL DEF Spec
<1> QED BY <1>1, TypeInvSuffices, PTL

-----------------------------------------------------------------------------
LEMMA PutKeepsOthers ==
  ASSUME HeldType, NodesHoldResources, NEW s \in Servers, NEW r \in Resources,
         NEW v \in Versions, Accepts(s, r), Put(s, r, v)
  PROVE  /\ NodesHoldResources'
         /\ \A q \in Servers \ {s} : held'[q] = held[q]
<1>1. v # None
  BY NamesAssumption, LimitsAssumption DEF Versions
<1>2. \A q \in Servers \ {s} : held'[q] = held[q]
  BY DEF HeldType, Put
<1>3. held'[s] = [held[s] EXCEPT ![r] = v]
  BY DEF HeldType, Put
<1>4. held'[s][Node] # None
  BY <1>1, <1>3, OrderFacts DEF HeldType, Accepts
<1> QED BY <1>2, <1>4 DEF NodesHoldResources

LEMMA DropKeepsOthers ==
  ASSUME HeldType, NodesHoldResources, NEW s \in Servers, NEW r \in Resources,
         Drop(s, r)
  PROVE  /\ NodesHoldResources'
         /\ \A q \in Servers \ {s} : held'[q] = held[q]
         /\ held[s] = Empty \/ r = Node => held'[s] = Empty
<1>1. \A q \in Servers \ {s} : held'[q] = held[q]
  BY DEF HeldType, Drop
<1>2. held[s] = Empty \/ r = Node => held'[s] = Empty
  BY OrderFacts DEF HeldType, Drop, Empty
<1>3. r # Node => held'[s][Node] = held[s][Node]
  BY OrderFacts DEF HeldType, Drop
<1> QED BY <1>1, <1>2, <1>3 DEF NodesHoldResources

LEMMA NodesStep ==
  ASSUME TypeInv, NodesHoldResources, [Next]_vars
  PROVE  NodesHoldResources'
<1>1. CASE UNCHANGED held
  BY <1>1 DEF NodesHoldResources
<1>2. CASE Post \/ Repost
  <2>1. Base \in Servers
    BY <1>2, BaseIsServer DEF Post, Repost, TypeInv, StepType
  <2>2. CASE Accepts(Base, item.res) /\ Put(Base, item.res, item.ver)
    BY <2>1, <2>2, SnapshotFacts, PutKeepsOthers DEF TypeInv
  <2> QED BY <1>1, <1>2, <2>2, Zenon DEF Post, Repost
<1>3. CASE DeleteStale
  <2>1. Base \in Servers
    BY <1>3, BaseIsServer DEF DeleteStale, TypeInv, StepType
  <2>2. CASE Drop(Base, item.res)
    BY <2>1, <2>2, SnapshotFacts, DropKeepsOthers DEF TypeInv
  <2> QED BY <1>1, <1>3, <2>2, Zenon DEF DeleteStale
<1>4. CASE Deregister
  <2>1. Base \in Servers
    BY <1>4, BaseIsServer DEF Deregister, TypeInv, StepType
  <2>2. CASE Drop(Base, Order[at])
    BY <2>1, <2>2, OrderFacts, DropKeepsOthers DEF TypeInv, StepType
  <2> QED BY <1>1, <1>4, <2>2, Zenon DEF Deregister
<1>5. ASSUME NEW s \in Servers, Forget(s) PROVE NodesHoldResources'
  BY <1>5 DEF Forget, NodesHoldResources, TypeInv, HeldType
<1> QED
  <2>1. Next => UNCHANGED held \/ Post \/ Repost \/ DeleteStale \/ Deregister
                  \/ \E s \in Servers : Forget(s)
    BY Zenon DEF Next, Loop, Run, Attempt, Rejoin, KeepAliveFails, Stopping,
       RepublishItem, Tick, Heartbeat, Republish, Close, Advertise,
       PenaltyExpires
  <2>2. UNCHANGED vars => UNCHANGED held
    BY DEF vars
  <2> QED BY <1>1, <1>2, <1>3, <1>4, <1>5, <2>1, <2>2

-----------------------------------------------------------------------------
LEMMA WayOutStep ==
  ASSUME TypeInv, OnTheWayOut, [Next]_vars
  PROVE  OnTheWayOut'
<1> USE DEF TypeInv, OnTheWayOut, FlagFollowsStep, Registering, env, client
<1>1. CASE Run BY <1>1 DEF Run, Pick, Settle
<1>2. CASE Attempt BY <1>2 DEF Attempt, Pick, Settle
<1>3. CASE Rejoin
  BY <1>3 DEF Rejoin, Joined, AttemptFails, Settle, Answered, Failing, Unanswered
<1>4. CASE Post
  BY <1>4 DEF Post, Posted, PostFails, Joined, AttemptFails, Settle, Answered,
              Failing, Unanswered
<1>5. CASE DeleteStale BY <1>5 DEF DeleteStale, Answered, Failing, Unanswered
<1>6. CASE Repost
  BY <1>6 DEF Repost, Posted, PostFails, Joined, AttemptFails, Settle, Answered,
              Failing, Unanswered
<1>7. CASE KeepAliveFails
  BY <1>7 DEF KeepAliveFails, AttemptFails, Settle, Answered, Failing, Unanswered
<1>8. CASE Stopping BY <1>8 DEF Stopping, Leave, Go
<1>9. CASE RepublishItem BY <1>9 DEF RepublishItem, Go, Tested
<1>10. CASE Tick BY <1>10 DEF Tick, Go, Tested
<1>11. CASE Heartbeat
  <2>1. CASE cancelled
    BY <1>11, <2>1 DEF Heartbeat, Leave, Go, Answered
  <2>2. CASE ~cancelled
    <3>1. ~onDuty /\ UNCHANGED <<cancelled, onDuty>>
      BY <1>11, <2>2, Zenon DEF Heartbeat, Answered, Unanswered
    <3>2. pc' \in {"loop", "attempt"}
      BY <1>11, <2>2 DEF Heartbeat, Go
    <3> QED BY <3>1, <3>2
  <2> QED BY <2>1, <2>2
<1>12. CASE Deregister
  <2>1. UNCHANGED <<cancelled, onDuty>>
    BY <1>12, Zenon DEF Deregister, Unanswered
  <2>2. CASE at > 1
    BY <1>12, <2>1, <2>2 DEF Deregister
  <2>3. CASE ~(at > 1)
    BY <1>12, <2>1, <2>3 DEF Deregister, Go
  <2> QED BY <2>2, <2>3
<1>13. ASSUME NEW r \in Changing, Republish(r) PROVE OnTheWayOut'
  BY <1>13 DEF Republish
<1>14. CASE Close BY <1>14 DEF Close
<1>15. ASSUME NEW s \in Servers, Forget(s) PROVE OnTheWayOut'
  BY <1>15 DEF Forget
<1>16. ASSUME NEW n \in Names, Advertise(n) PROVE OnTheWayOut'
  BY <1>16 DEF Advertise, env
<1>17. ASSUME NEW n \in Names, PenaltyExpires(n) PROVE OnTheWayOut'
  BY <1>17 DEF PenaltyExpires
<1>18. CASE UNCHANGED vars BY <1>18 DEF vars
<1> QED
  BY <1>1, <1>2, <1>3, <1>4, <1>5, <1>6, <1>7, <1>8, <1>9, <1>10, <1>11,
     <1>12, <1>13, <1>14, <1>15, <1>16, <1>17, <1>18, Zenon DEF Next, Loop

-----------------------------------------------------------------------------
(* Nothing is lost by assuming more of the past.                           *)
LEMMA ReliableBefore ==
  ASSUME TypeInv, OnTheWayOut, [Next]_vars, Reliable'
  PROVE  Reliable
<1> USE DEF TypeInv, OnTheWayOut, Reliable, EnvType
<1>1. CASE UNCHANGED env BY <1>1, Zenon DEF env
<1>2. CASE Answered \/ Failing \/ Unanswered
  BY <1>2, Zenon DEF Answered, Failing, Unanswered, env
<1>3. CASE Close BY <1>3, Zenon DEF Close
<1>4. CASE UNCHANGED <<cancelled, smooth, onDuty>>
  BY <1>4, Zenon
<1>5. ASSUME NEW r \in Changing, Republish(r) PROVE Reliable
  BY <1>5, Zenon DEF Republish
<1> QED
  BY <1>1, <1>2, <1>3, <1>4, <1>5, Zenon
     DEF Next, Loop, Run, Attempt, Rejoin, Post, DeleteStale, Repost,
         KeepAliveFails, Stopping, RepublishItem, Tick, Heartbeat, Deregister,
         Forget, Advertise, PenaltyExpires, vars, env

(* While the client is reliable, a request that fails is a republish of a  *)
(* node on its way out.                                                    *)
LEMMA ReliableFailure ==
  ASSUME OnTheWayOut, Reliable, Reliable', Failing, pc # "stopped"
  PROVE  registered /\ ~Registering
<1>1. cancelled
  BY DEF Failing, Unanswered, Reliable
<1>2. onDuty
  BY <1>1 DEF Reliable
<1> QED BY <1>2, Zenon DEF OnTheWayOut

Filed == Accepts(Base, item.res) /\ Put(Base, item.res, item.ver)

(* The ways a POST can go.                                                 *)
LEMMA PostOutcomes ==
  ASSUME Post \/ Repost
  PROVE  /\ pc \in {"post", "repost"}
         /\ \/ Answered /\ Filed /\ (Posted \/ (pc' = "delete" /\ UNCHANGED name))
            \/ Answered /\ ~Accepts(Base, item.res) /\ PostFails /\ UNCHANGED held
            \/ Failing /\ PostFails /\ (UNCHANGED held \/ Filed)
<1>1. pc \in {"post", "repost"}
  BY DEF Post, Repost
<1>2. CASE Repost
  BY <1>1, <1>2 DEF Repost, Filed
<1>3. CASE Post
  <2>1. CASE held[Base][item.res] = None
    BY <1>1, <1>3, <2>1 DEF Post, Filed
  <2>2. CASE held[Base][item.res] # None
    BY <1>1, <1>3, <2>2 DEF Post, Filed
  <2> QED BY <2>1, <2>2
<1> QED BY <1>2, <1>3

(* A registry that has lost the node was the only one that held anything.  *)
LEMMA LostEverywhere ==
  ASSUME NodesHoldResources, HeldAtBase, name # None => Base \in Servers,
         held[Base][Node] = None
  PROVE  HeldNowhere
BY DEF NodesHoldResources, HeldAtBase, HeldNowhere

LEMMA NowhereIsBase == HeldNowhere => HeldAtBase
BY DEF HeldNowhere, HeldAtBase

LEMMA TraceStep ==
  ASSUME TypeInv, NodesHoldResources, OnTheWayOut, Traceable, [Next]_vars
  PROVE  Traceable'
<1> SUFFICES ASSUME Reliable' PROVE Accounted'
  BY DEF Traceable
<1>a. Reliable /\ Accounted
  BY ReliableBefore DEF Traceable
<1>b. name # None => Base \in Servers
  BY BaseIsServer DEF TypeInv, StepType
<1> USE <1>a, <1>b DEF Accounted
<1>1. CASE HeldNowhere'
  BY <1>1, NowhereIsBase DEF HeldNowhere, HeldAtBase
<1>2. CASE HeldNowhere /\ UNCHANGED held
  BY <1>1, <1>2 DEF HeldNowhere
<1>3. CASE Run \/ Attempt \/ Rejoin
  BY <1>2, <1>3 DEF Run, Attempt, Rejoin
<1>4. ASSUME pc \in {"post", "repost"}, Posted \/ PostFails
      PROVE  UNCHANGED name
  BY <1>4, Zenon DEF Posted, PostFails, Joined, AttemptFails
<1>5. ASSUME pc \in {"post", "repost"}, Filed, UNCHANGED name,
             \/ pc' \in {"post", "delete", "beat"}
             \/ pc' = "loop" /\ registered'
      PROVE  Accounted'
  <2>1. Base \in Servers /\ name # None /\ Base' = Base
    BY <1>5 DEF TypeInv, StepType, Base
  <2>2. \A q \in Servers \ {Base} : held'[q] = held[q]
    BY <1>5, <2>1, SnapshotFacts, PutKeepsOthers DEF TypeInv, Filed
  <2>3. HeldAtBase'
    BY <1>5, <2>1, <2>2 DEF HeldAtBase
  <2> QED BY <1>5, <2>3
<1>6. CASE Post \/ Repost
  <2>1. pc \in {"post", "repost"}
    BY <1>6, PostOutcomes
  <2>2. CASE Answered /\ Filed /\ Posted
    <3>1. \/ pc' \in {"post", "beat"}
          \/ pc' = "loop" /\ registered'
      BY <2>1, <2>2 DEF TypeInv, FlagFollowsStep, Posted, Joined, Settle
    <3> QED BY <1>4, <1>5, <2>1, <2>2, <3>1
  <2>3. CASE Answered /\ Filed /\ pc' = "delete" /\ UNCHANGED name
    BY <1>5, <2>1, <2>3
  <2>4. CASE ~Accepts(Base, item.res) /\ UNCHANGED held
    BY <1>2, <2>4, LostEverywhere DEF Accepts
  <2>5. CASE Failing /\ PostFails
    <3>1. registered /\ why = "republish"
      BY <2>1, <2>5, ReliableFailure DEF Registering
    <3>2. pc' = "loop" /\ registered' /\ UNCHANGED name
      BY <2>5, <3>1 DEF PostFails, Settle
    <3>3. CASE UNCHANGED held
      BY <3>2, <3>3 DEF HeldAtBase, Base
    <3>4. CASE Filed
      BY <1>5, <2>1, <3>2, <3>4
    <3> QED BY <1>6, <2>1, <2>2, <2>3, <2>4, <2>5, <3>3, <3>4, PostOutcomes
  <2> QED BY <1>6, <2>2, <2>3, <2>4, <2>5, PostOutcomes
<1>7. CASE DeleteStale
  <2>1. Base \in Servers /\ name # None /\ Base' = Base /\ UNCHANGED name
    BY <1>7 DEF DeleteStale, TypeInv, StepType, Base
  <2>2. CASE UNCHANGED held
    BY <1>7, <2>1, <2>2 DEF DeleteStale, HeldAtBase
  <2>3. CASE Drop(Base, item.res)
    <3>1. \A q \in Servers \ {Base} : held'[q] = held[q]
      BY <2>1, <2>3, SnapshotFacts, DropKeepsOthers DEF TypeInv
    <3> QED BY <1>7, <2>1, <3>1 DEF DeleteStale, HeldAtBase
  <2> QED BY <1>7, <2>2, <2>3, Zenon DEF DeleteStale
<1>8. CASE KeepAliveFails
  <2>1. UNCHANGED held
    BY <1>8 DEF KeepAliveFails
  <2>2. Registering
    BY <1>8 DEF KeepAliveFails, Registering
  <2>3. held[Base][Node] = None
    BY <1>8, <2>2, ReliableFailure DEF KeepAliveFails
  <2> QED BY <1>2, <2>1, <2>3, LostEverywhere
<1>9. UNCHANGED <<held, name>> => HeldAtBase'
  BY DEF HeldAtBase, Base
<1>10. CASE Stopping
  BY <1>2, <1>9, <1>10 DEF Stopping, Leave, Go
<1>11. CASE RepublishItem
  BY <1>2, <1>9, <1>11 DEF RepublishItem, Go, HeldNowhere
<1>12. CASE Heartbeat
  <2>1. UNCHANGED <<held, name>>
    BY <1>12 DEF Heartbeat
  <2>2. CASE cancelled
    BY <1>9, <1>12, <2>1, <2>2
       DEF Heartbeat, Leave, Go, Answered, Unanswered, TypeInv, FlagFollowsStep
  <2>3. CASE ~cancelled
    <3>1. Answered /\ registered' = (held[Base][Node] # None) /\ pc' = "loop"
      BY <1>12, <2>3 DEF Heartbeat, Unanswered, Reliable, Go
    <3>2. CASE held[Base][Node] = None
      BY <1>2, <2>1, <3>2, LostEverywhere
    <3>3. CASE held[Base][Node] # None
      BY <1>9, <2>1, <3>1, <3>3
    <3> QED BY <3>2, <3>3
  <2> QED BY <2>2, <2>3
<1>13. CASE Tick
  <2>1. UNCHANGED held
    BY <1>13 DEF Tick
  <2>2. CASE ~registered
    BY <1>2, <1>13, <2>1, <2>2 DEF Tick
  <2>3. CASE registered /\ UNCHANGED name
    BY <1>9, <1>13, <2>1, <2>3 DEF Tick, Go
  <2>4. CASE registered /\ name' # name
    <3>1. name' # None /\ Base' = Base /\ registered' /\ pc' \in {"beat", "loop"}
      BY <1>13, <2>4 DEF Tick, Go, ShouldSwitch, Base
    <3> QED BY <2>1, <3>1 DEF HeldAtBase
  <2> QED BY <2>2, <2>3, <2>4 DEF TypeInv, FlagType
<1>14. CASE Deregister
  <2>1. Base \in Servers /\ name # None /\ Base' = Base /\ UNCHANGED name
    BY <1>14 DEF Deregister, TypeInv, StepType, Base
  <2>2. Drop(Base, Order[at])
    BY <1>14 DEF Deregister, Unanswered, Reliable
  <2>3. /\ \A q \in Servers \ {Base} : held'[q] = held[q]
        /\ Order[at] = Node => held'[Base] = Empty
    BY <2>1, <2>2, OrderFacts, DropKeepsOthers DEF TypeInv, StepType
  <2>4. HeldAtBase'
    BY <2>1, <2>3 DEF HeldAtBase
  <2>5. CASE at > 1
    BY <1>14, <2>4, <2>5 DEF Deregister
  <2>6. CASE ~(at > 1)
    <3>1. Order[at] = Node
      BY <2>6 DEF Node, TypeInv, StepType
    <3> QED BY <1>1, <2>3, <3>1 DEF HeldAtBase, HeldNowhere
  <2> QED BY <2>5, <2>6
<1>15. ASSUME NEW s \in Servers, Forget(s) PROVE Accounted'
  <2>1. \A q \in Servers : held'[q] = held[q] \/ held'[q] = Empty
    BY <1>15 DEF Forget, TypeInv, HeldType
  <2>2. UNCHANGED <<pc, registered, name>>
    BY <1>15 DEF Forget, client
  <2> QED BY <2>1, <2>2 DEF HeldAtBase, HeldNowhere, Base
<1>16. CASE UNCHANGED <<pc, registered, name, held>>
  BY <1>2, <1>9, <1>16
<1>17. CASE UNCHANGED vars
  BY <1>16, <1>17 DEF vars, client
<1>18. ASSUME NEW r \in Changing, Republish(r) PROVE Accounted'
  BY <1>16, <1>18 DEF Republish, client
<1>19. CASE Close
  BY <1>16, <1>19 DEF Close, client
<1>20. ASSUME NEW n \in Names, Advertise(n) \/ PenaltyExpires(n) PROVE Accounted'
  BY <1>16, <1>20 DEF Advertise, PenaltyExpires, client
<1> QED
  BY <1>3, <1>6, <1>7, <1>8, <1>10, <1>11, <1>12, <1>13, <1>14, <1>15, <1>17,
     <1>18, <1>19, <1>20, Zenon DEF Next, Loop

-----------------------------------------------------------------------------
Inv == TypeInv /\ NodesHoldResources /\ OnTheWayOut /\ Traceable

LEMMA InvInit == Init => Inv
<1> SUFFICES ASSUME Init PROVE Inv
  OBVIOUS
<1>1. NodesHoldResources /\ Traceable
  BY DEF Init, NodesHoldResources, Traceable, Accounted, HeldAtBase, HeldNowhere
<1>2. OnTheWayOut
  BY DEF Init, OnTheWayOut
<1> QED BY TypeInit, <1>1, <1>2 DEF Inv

LEMMA InvStep == Inv /\ [Next]_vars => Inv'
BY TypeStep, NodesStep, WayOutStep, TraceStep, Zenon DEF Inv

(* A node that is registered when it is closed, and whose requests were    *)
(* all answered, leaves no resource in any registry.                       *)
THEOREM LeavesNothing == Spec => []ShutdownLeavesNothing
<1>1. Inv => ShutdownLeavesNothing
  BY Zenon DEF Inv, Traceable, Reliable, Accounted, HeldNowhere, ShutdownLeavesNothing
<1>2. Spec => []Inv
  BY InvInit, InvStep, PTL DEF Spec
<1> QED BY <1>1, <1>2, PTL

(* A registry that does not hold the node holds none of its resources.     *)
THEOREM NothingWithoutTheNode == Spec => []NodesHoldResources
<1>1. Spec => []Inv
  BY InvInit, InvStep, PTL DEF Spec
<1>2. Inv => NodesHoldResources
  BY DEF Inv
<1> QED BY <1>1, <1>2, PTL
=============================================================================
