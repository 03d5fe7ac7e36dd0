------------------------ MODULE RegistrationClient ------------------------
(***************************************************************************)
(* A node that registers itself and its resources with an IS-04 registry   *)
(* (internal/amwa/provider/registration_client.go), choosing among the     *)
(* registries its watcher has seen (registry_watcher.go).                  *)
(*                                                                         *)
(* One goroutine, Run, sends one HTTP request at a time; each request and  *)
(* its answer are one action.  Around it change: the node's own resources, *)
(* which IS-05 activations rewrite and queue for Republish; the registries,*)
(* which lose what they hold or fail to answer; the names they are         *)
(* announced under; and Close, which ends the run's context at any point. *)
(* Every other request then fails at once, but for the DELETEs of the      *)
(* deregistration, which have a context of their own.                      *)
(***************************************************************************)
EXTENDS Naturals, Sequences, FiniteSets

CONSTANTS
  Order,             \* the resources in the order they are POSTed, node first
  Changing,          \* those an IS-05 activation rewrites
  Names,             \* advertised names, as numbers in order of preference
  Server,            \* the registry a name belongs to
  MaxFailoverChain,  \* registries tried before a tick gives up
  QueueLimit,        \* capacity of the republish queue
  MaxVersion,        \* bound of the model: rewrites of one resource
  MaxTroubles,       \* bound of the model: disturbances from outside
  None               \* no version, no name

Resources == {Order[k] : k \in 1 .. Len(Order)}
Node == Order[1]
Servers == {Server[n] : n \in Names}

ASSUME OrderAssumption ==
  /\ Order \in Seq(Resources) /\ Len(Order) > 0
  /\ \A j, k \in 1 .. Len(Order) : Order[j] = Order[k] => j = k
  /\ Changing \subseteq Resources \ {Node}
ASSUME NamesAssumption == Names \subseteq Nat /\ None \notin Names \cup Nat
ASSUME LimitsAssumption ==
  /\ MaxFailoverChain \in Nat \ {0}
  /\ QueueLimit \in Nat \ {0}
  /\ MaxVersion \in Nat /\ MaxTroubles \in Nat

VARIABLES
  version,       \* bundle: the node's own resources
  republish,     \* the queue of snapshots to POST again
  pc,            \* where Run stands
  why,           \* on whose behalf it registers, or deregisters
  at,            \* index into Order of the next request
  item,          \* the snapshot being POSTed
  attempts,      \* registries tried so far in this cascade
  name,          \* currentRegistry
  registered,    \* the flag, as the node's announce follows it
  everRegistered,
  advertised,    \* the watcher's byFull
  disqualified,  \* the watcher's disqualified
  held,          \* registry -> resource -> version on file
  cancelled,     \* loopCtx has ended
  troubles,      \* disturbances so far
  smooth,        \* no request failed and no queued snapshot was dropped
  onDuty         \* registered and not leaving, when Close was called

client == <<pc, why, at, item, attempts, name, registered, everRegistered>>
watcher == <<advertised, disqualified>>
env == <<cancelled, troubles, smooth, onDuty>>
vars == <<version, republish, client, watcher, held, env>>

Versions == 0 .. MaxVersion
Snapshots == [res : Resources, ver : Versions]
Empty == [r \in Resources |-> None]

TypeOK ==
  /\ version \in [Resources -> Versions]
  /\ republish \in Seq(Snapshots) /\ Len(republish) <= QueueLimit
  /\ pc \in {"run", "loop", "attempt", "rejoin", "post", "delete", "repost",
             "beat", "deregister", "stopped"}
  /\ why \in {"initial", "tick", "cascade", "republish", "switch", "stop"}
  /\ at \in 0 .. Len(Order)
  /\ item \in Snapshots
  /\ attempts \in 0 .. MaxFailoverChain
  /\ name \in Names \cup {None}
  /\ registered \in BOOLEAN
  /\ everRegistered \in BOOLEAN
  /\ advertised \subseteq Names
  /\ disqualified \subseteq Names
  /\ held \in [Servers -> [Resources -> Versions \cup {None}]]
  /\ cancelled \in BOOLEAN
  /\ troubles \in 0 .. MaxTroubles
  /\ smooth \in BOOLEAN
  /\ onDuty \in BOOLEAN
  /\ pc \in {"rejoin", "post", "delete", "repost", "beat", "deregister"}
       => name # None

Init ==
  /\ version = [r \in Resources |-> 0]
  /\ republish = <<>>
  /\ pc = "run"
  /\ why = "initial"
  /\ at = 1
  /\ item = [res |-> Node, ver |-> 0]
  /\ attempts = 0
  /\ name = None
  /\ registered = FALSE
  /\ everRegistered = FALSE
  /\ advertised \in SUBSET Names
  /\ disqualified = {}
  /\ held = [s \in Servers |-> Empty]
  /\ cancelled = FALSE
  /\ troubles = 0
  /\ smooth = TRUE
  /\ onDuty = FALSE

-----------------------------------------------------------------------------
(* bestCandidate: of the names not disqualified, the most preferred one of *)
(* a server no disqualified name belongs to, or of any if there is none.   *)
Usable == advertised \ disqualified
Suspect == {Server[n] : n \in advertised \cap disqualified}
Sound == {n \in Usable : Server[n] \notin Suspect}
Preferred(names) == CHOOSE n \in names : \A m \in names : n <= m
Best ==
  CASE Sound # {}               -> Preferred(Sound)
    [] Sound = {} /\ Usable # {} -> Preferred(Usable)
    [] OTHER                     -> None

Base == Server[name]

(* shouldSwitchToBetter: another name of the same server is no better one. *)
ShouldSwitch == Best \notin {None, name} /\ Server[Best] # Base

-----------------------------------------------------------------------------
(* The registry's side of a request.                                       *)
Accepts(s, r) == r = Node \/ held[s][Node] # None
Put(s, r, v) == held' = [held EXCEPT ![s][r] = v]
Drop(s, r) ==
  held' = IF r = Node THEN [held EXCEPT ![s] = Empty]
                      ELSE [held EXCEPT ![s][r] = None]

(* A request fails because the registry does not answer, or because the    *)
(* run's context has ended.                                                *)
Unanswered ==
  /\ troubles < MaxTroubles
  /\ troubles' = troubles + 1
  /\ smooth' = FALSE
  /\ UNCHANGED <<cancelled, onDuty>>
Failing == Unanswered \/ (cancelled /\ UNCHANGED env)
Answered == ~cancelled /\ UNCHANGED env

-----------------------------------------------------------------------------
(* Where a registration, complete or not, returns to.                      *)
Settle(step) ==
  /\ pc' = step
  /\ at' = 1
  /\ item' = [res |-> Node, ver |-> 0]

Penalise == disqualified' = disqualified \cup {name}

(* An attempt on one registry has failed: the next best is tried.          *)
AttemptFails ==
  /\ Penalise
  /\ Settle(IF why = "initial" THEN "loop" ELSE "attempt")
  /\ attempts' = IF why = "initial" THEN 0 ELSE attempts + 1
  /\ UNCHANGED <<why, name, registered, everRegistered, advertised>>

(* A heartbeat follows at once when it is due.                             *)
Joined ==
  /\ \E step \in {"loop", "beat"} :
       /\ why # "tick" => step = "loop"
       /\ Settle(step)
  /\ registered' = TRUE
  /\ everRegistered' = (everRegistered \/ why = "tick")
  /\ attempts' = 0
  /\ UNCHANGED <<why, name, watcher>>

(* pickBase, at the start of Run and before every attempt.                 *)
Pick(step) ==
  /\ name' = Best
  /\ pc' = step
  /\ at' = 1
  /\ item' = [res |-> Node, ver |-> version[Node]]

Run ==
  /\ pc = "run"
  /\ IF Best = None THEN name' = None /\ Settle("loop") ELSE Pick("post")
  /\ UNCHANGED <<version, republish, why, attempts, registered,
                 everRegistered, watcher, held, env>>

(* One pass of the failover loop.  A node that was registered before looks *)
(* first whether the registry still knows it.                              *)
Attempt ==
  /\ pc = "attempt"
  /\ IF attempts = MaxFailoverChain \/ Best = None
     THEN /\ Settle("loop")
          /\ attempts' = 0
          /\ name' = IF attempts = MaxFailoverChain THEN name ELSE None
     ELSE /\ Pick(IF why = "cascade" \/ everRegistered THEN "rejoin" ELSE "post")
          /\ UNCHANGED attempts
  /\ UNCHANGED <<version, republish, why, registered, everRegistered,
                 watcher, held, env>>

(* rejoinOrRegister                                                        *)
Rejoin ==
  /\ pc = "rejoin"
  /\ \/ /\ Answered
        /\ held[Base][Node] # None
        /\ Joined
     \/ /\ Answered
        /\ held[Base][Node] = None
        /\ pc' = "post"
        /\ UNCHANGED <<why, at, item, attempts, name, registered,
                       everRegistered, watcher>>
     \/ Failing /\ AttemptFails
  /\ UNCHANGED <<version, republish, held>>

-----------------------------------------------------------------------------
(* setRegistered(true), after the last resource of the bundle.             *)
NodePosted == at = 1 \* mutant: once the node itself is registered
AllPosted == at = Len(Order)

(* A resource has been POSTed: the next one of the bundle, if any.         *)
Posted ==
  IF why = "republish"
  THEN /\ Settle("loop")
       /\ UNCHANGED <<why, attempts, name, registered, everRegistered, watcher>>
  ELSE IF AllPosted
  THEN Joined
  ELSE /\ pc' = "post"
       /\ at' = at + 1
       /\ item' = [res |-> Order[at + 1], ver |-> version[Order[at + 1]]]
       /\ UNCHANGED <<why, attempts, name, registered, everRegistered, watcher>>

(* A failed republish is logged and forgotten.                             *)
PostFails ==
  IF why = "republish"
  THEN /\ Settle("loop")
       /\ UNCHANGED <<why, attempts, name, registered, everRegistered, watcher>>
  ELSE AttemptFails

(* postResource: a 200 means the registry has it from before.              *)
Post ==
  /\ pc = "post"
  /\ \/ /\ Answered
        /\ Accepts(Base, item.res)
        /\ Put(Base, item.res, item.ver)
        /\ IF held[Base][item.res] = None
           THEN Posted
           ELSE /\ pc' = "delete"
                /\ UNCHANGED <<why, at, item, attempts, name, registered,
                               everRegistered, watcher>>
     \/ Answered /\ ~Accepts(Base, item.res) /\ PostFails /\ UNCHANGED held
     \/ /\ Failing
        /\ PostFails
        /\ \/ UNCHANGED held
           \/ Accepts(Base, item.res) /\ Put(Base, item.res, item.ver)
  /\ UNCHANGED <<version, republish>>

DeleteStale ==
  /\ pc = "delete"
  /\ \/ Answered /\ Drop(Base, item.res)
     \/ Failing /\ (UNCHANGED held \/ Drop(Base, item.res))
  /\ pc' = "repost"
  /\ UNCHANGED <<version, republish, why, at, item, attempts, name,
                 registered, everRegistered, watcher>>

Repost ==
  /\ pc = "repost"
  /\ \/ /\ Answered
        /\ Accepts(Base, item.res)
        /\ Put(Base, item.res, item.ver)
        /\ Posted
     \/ Answered /\ ~Accepts(Base, item.res) /\ PostFails /\ UNCHANGED held
     \/ /\ Failing
        /\ PostFails
        /\ \/ UNCHANGED held
           \/ Accepts(Base, item.res) /\ Put(Base, item.res, item.ver)
  /\ UNCHANGED <<version, republish>>

(* keepAlive: a heartbeat that falls due between two POSTs fails the       *)
(* registration when it is not accepted.                                   *)
KeepAliveFails ==
  /\ pc = "post" /\ why # "republish" /\ at > 1
  /\ \/ Answered /\ held[Base][Node] = None
     \/ Failing
  /\ AttemptFails
  /\ UNCHANGED <<version, republish, held>>

-----------------------------------------------------------------------------
Go(step, reason) ==
  /\ pc' = step
  /\ why' = reason
  /\ at' = IF step = "deregister" THEN Len(Order) ELSE 1

(* deregisterAll                                                           *)
Leave == IF registered THEN Go("deregister", "stop")
                       ELSE Go("stopped", "stop")

(* The select of Run, where a tick beats only if a beat is due.  The       *)
(* context is tested on every way round the loop, and may still end        *)
(* between the test and the request of a branch.                           *)
NotTested == TRUE \* mutant: no test at the top of the loop
Tested == ~cancelled

Stopping ==
  /\ pc = "loop"
  /\ cancelled
  /\ Leave
  /\ UNCHANGED <<version, republish, item, attempts, name, registered,
                 everRegistered, watcher, held, env>>

RepublishItem ==
  /\ pc = "loop"
  /\ Tested
  /\ republish # <<>>
  /\ republish' = Tail(republish)
  /\ IF registered
     THEN Go("post", "republish") /\ item' = Head(republish)
     ELSE UNCHANGED <<pc, why, at, item>>
  /\ UNCHANGED <<version, attempts, name, registered, everRegistered,
                 watcher, held, env>>

Tick ==
  /\ pc = "loop"
  /\ Tested
  /\ IF ~registered
     THEN Go("attempt", "tick") /\ UNCHANGED name
     ELSE IF ShouldSwitch
     THEN Go("deregister", "switch") /\ UNCHANGED name
     ELSE /\ \E step \in {"beat", "loop"} : Go(step, "tick")
          /\ name' = IF Best = None THEN name ELSE Best
  /\ UNCHANGED <<version, republish, item, attempts, registered,
                 everRegistered, watcher, held, env>>

(* A 404 clears the flag; any other failure also sets off a cascade.  What *)
(* the answer was does not matter once the context has ended.              *)
Heartbeat ==
  /\ pc = "beat"
  /\ UNCHANGED <<version, republish, item, attempts, name, everRegistered,
                 advertised, held>>
  /\ \/ /\ cancelled
        /\ Leave
        /\ UNCHANGED <<registered, disqualified, env>>
     \/ /\ Answered
        /\ registered' = (held[Base][Node] # None)
        /\ Go("loop", "tick")
        /\ UNCHANGED disqualified
     \/ /\ Unanswered /\ ~cancelled
        /\ registered' = FALSE
        /\ Penalise
        /\ Go("attempt", "cascade")

(* One DELETE of deregisterAll; one that fails is logged.                  *)
Deregister ==
  /\ pc = "deregister"
  /\ \/ UNCHANGED env /\ Drop(Base, Order[at])
     \/ Unanswered /\ UNCHANGED held
  /\ IF at > 1
     THEN at' = at - 1 /\ UNCHANGED <<pc, why, registered>>
     ELSE /\ registered' = FALSE
          /\ IF why = "stop" THEN Go("stopped", "stop") ELSE Go("attempt", "tick")
  /\ UNCHANGED <<version, republish, item, attempts, name, everRegistered,
                 watcher>>

-----------------------------------------------------------------------------
HasRoomForOne == Len(republish) <= QueueLimit \* mutant: off by one
HasRoom == Len(republish) < QueueLimit

(* An activation rewrites a resource and queues it; a full queue drops it. *)
Republish(r) ==
  /\ version[r] < MaxVersion
  /\ version' = [version EXCEPT ![r] = @ + 1]
  /\ IF HasRoom
     THEN /\ republish' = Append(republish, [res |-> r, ver |-> version[r] + 1])
          /\ UNCHANGED smooth
     ELSE smooth' = FALSE /\ UNCHANGED republish
  /\ UNCHANGED <<client, watcher, held, cancelled, troubles, onDuty>>

Close ==
  /\ ~cancelled
  /\ cancelled' = TRUE
  /\ onDuty' = (registered /\ pc # "deregister")
  /\ UNCHANGED <<version, republish, client, watcher, held, troubles, smooth>>

Trouble == troubles < MaxTroubles /\ troubles' = troubles + 1

(* A registry restarts, or evicts the node.                                *)
Forget(s) ==
  /\ held[s] # Empty
  /\ Trouble
  /\ held' = [held EXCEPT ![s] = Empty]
  /\ UNCHANGED <<version, republish, client, watcher, cancelled, smooth, onDuty>>

(* An announcement, which also clears the penalty of its name.  A name is  *)
(* never forgotten: the watcher takes no notice of a goodbye.              *)
Advertise(n) ==
  /\ advertised' = advertised \cup {n}
  /\ disqualified' = disqualified \ {n}
  /\ UNCHANGED <<version, republish, client, held, env>>

(* gcDisqualifiedLocked                                                    *)
PenaltyExpires(n) ==
  /\ n \in disqualified
  /\ disqualified' = disqualified \ {n}
  /\ UNCHANGED <<version, republish, client, advertised, held, env>>

-----------------------------------------------------------------------------
Loop == Run \/ Attempt \/ Rejoin \/ Post \/ DeleteStale \/ Repost
          \/ KeepAliveFails \/ Stopping \/ RepublishItem \/ Tick
          \/ Heartbeat \/ Deregister

Next ==
  \/ Loop
  \/ \E r \in Changing : Republish(r)
  \/ Close
  \/ \E s \in Servers : Forget(s)
  \/ \E n \in Names : Advertise(n) \/ PenaltyExpires(n)

Spec == Init /\ [][Next]_vars

(* Run goes on as long as it can, penalties lapse, and a select that finds *)
(* a queued snapshot ready again and again takes it: Go chooses among the  *)
(* ready cases at random.                                                  *)
Fairness ==
  /\ WF_vars(Loop)
  /\ SF_vars(RepublishItem)
  /\ \A n \in Names : WF_vars(PenaltyExpires(n))
FairSpec == Spec /\ Fairness

-----------------------------------------------------------------------------
(* A node that is registered when it is closed, and whose requests were    *)
(* all answered, leaves nothing behind in any registry, whether the loop   *)
(* was idle, beating or republishing when its context ended, and though    *)
(* the request in flight then may or may not have reached the registry     *)
(* (registration_client.go:505-513).  A node that is closed in the middle  *)
(* of a registration does leave what it has POSTed: deregisterAll returns  *)
(* at once, for the flag is not up yet.                                    *)
ShutdownLeavesNothing ==
  pc = "stopped" /\ onDuty /\ smooth => \A s \in Servers : held[s] = Empty

Current == held[Base] = version

(* Once the registries, their announcements and the resources stay as they *)
(* are, a node that sees a registry is registered for good, with the best  *)
(* one it sees; and that registry holds all of its resources as they are   *)
(* now, if no request failed on the way and the queue never overflowed.    *)
RegistersInTheEnd ==
  [](~cancelled)
    => <>[](/\ advertised # {} => registered /\ Best # None
            /\ registered /\ Best # None => Server[Best] = Base
            /\ registered => held[Base][Node] # None /\ (smooth => Current))
===========================================================================
