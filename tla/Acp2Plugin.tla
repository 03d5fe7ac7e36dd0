---------------------------- MODULE Acp2Plugin ----------------------------
(***************************************************************************)
(* The ACP2 consumer plugin over the sessions it opens and loses           *)
(* (internal/acp2/consumer/plugin.go, reconnect.go, keepalive.go): the     *)
(* operator's Connect, Subscribe, Unsubscribe and Disconnect, the warm-    *)
(* restart loop, and the keep-alive goroutine, all under the plugin's      *)
(* mutex, which stopReconnectLoop and stopKeepAlive give up while they     *)
(* wait for the goroutine they stop.                                       *)
(*                                                                         *)
(* The operator is one goroutine that connects once, as the CLI's verbs    *)
(* do.  Sessions are numbered as they are opened; 0 is the nil pointer.    *)
(***************************************************************************)
EXTENDS Naturals, Sequences, FiniteSets

CONSTANTS
  Keys,         \* subscription keys
  MaxSessions,  \* bound on sessions opened, one more than the losses
  None

ASSUME KeysAssumption == IsFiniteSet(Keys) /\ None \notin Keys
ASSUME BoundAssumption == MaxSessions \in Nat \ {0}

Sessions == 1 .. MaxSessions
MaxClosures == Cardinality(Keys) + 1 \* bound on a session's closures

VARIABLES
  mu,       \* p.mu: held across a handshake by "op" or "loop", or None
  session,  \* p.session
  opened,   \* sessions opened so far
  alive,    \* sessions whose reader still runs: Done is not closed
  ann,      \* annSubs of p.session: its closures' keys, by closure id
  subs,     \* activeSubs: key -> closure id, 0 when not subscribed
  rc,       \* p.rc: "none", "on", or "stop" once its done is closed
  loop,     \* the warm-restart goroutine
  ka,       \* p.ka and its goroutine; "left": it has returned
  kaStop,   \* p.ka.done is closed
  op,       \* the operator's goroutine
  dropping, \* Unsubscribe past p.mu: the key, its session and closure id
  wanted,   \* the operator has connected and not disconnected (history)
  strayed,  \* an Unsubscribe removed another key's closure (history)
  crashed   \* nil dereference or close of a closed channel

vars == <<mu, session, opened, alive, ann, subs, rc, loop, ka, kaStop, op,
          dropping, wanted, strayed, crashed>>

LoopSteps == {"off", "top", "watch", "backoff", "kawait", "dial", "connect",
              "replay", "ended"}
OpSteps == {"new", "connect", "idle", "unsubscribe", "loopwait", "kawait",
            "closing"}
TypeOK ==
  /\ mu \in {None, "op", "loop"}
  /\ session \in 0 .. MaxSessions /\ opened \in 0 .. MaxSessions
  /\ alive \in SUBSET Sessions
  /\ ann \in Seq(Keys \cup {None})
  /\ subs \in [Keys -> Nat]
  /\ rc \in {"none", "on", "stop"}
  /\ loop \in LoopSteps /\ op \in OpSteps
  /\ ka \in {"off", "select", "locking", "left"} /\ kaStop \in BOOLEAN
  /\ dropping \in [key : Keys, s : Sessions, id : Nat] \cup {None}
  /\ wanted \in BOOLEAN /\ strayed \in BOOLEAN /\ crashed \in BOOLEAN

Init ==
  /\ mu = None /\ session = 0 /\ opened = 0 /\ alive = {}
  /\ ann = <<>>
  /\ subs = [k \in Keys |-> 0]
  /\ rc = "none" /\ loop = "off"
  /\ ka = "off" /\ kaStop = FALSE
  /\ op = "new" /\ dropping = None
  /\ wanted = FALSE /\ strayed = FALSE /\ crashed = FALSE

Running == ~crashed
Free == Running /\ mu = None
Active == {k \in Keys : subs[k] # 0}

-----------------------------------------------------------------------------
(* Connect after its test of p.session: the handshake under p.mu, and when *)
(* it succeeds a fresh session with its keep-alive.                        *)
HandshakeUnguarded == \* mutant: only the operator's own session gets a keep-alive
  /\ opened < MaxSessions
  /\ opened' = opened + 1
  /\ session' = opened + 1
  /\ alive' = alive \cup {opened + 1}
  /\ ka' = (IF opened = 0 THEN "select" ELSE ka) /\ kaStop' = FALSE
  /\ mu' = None

Handshake ==
  /\ opened < MaxSessions
  /\ opened' = opened + 1
  /\ session' = opened + 1
  /\ alive' = alive \cup {opened + 1}
  /\ ka' = "select" /\ kaStop' = FALSE
  /\ mu' = None

OpConnect ==
  /\ Free /\ op = "new"
  /\ mu' = "op" /\ op' = "connect"
  /\ UNCHANGED <<session, opened, alive, ann, subs, rc, loop, ka, kaStop,
                 dropping, wanted, strayed, crashed>>

OpConnected ==
  /\ Running /\ op = "connect"
  /\ Handshake
  /\ rc' = "on" /\ loop' = "top"
  /\ op' = "idle" /\ wanted' = TRUE
  /\ UNCHANGED <<ann, subs, dropping, strayed, crashed>>

OpRefused ==
  /\ Running /\ op = "connect"
  /\ mu' = None /\ op' = "new"
  /\ UNCHANGED <<session, opened, alive, ann, subs, rc, loop, ka, kaStop,
                 dropping, wanted, strayed, crashed>>

(* Subscribe: a closure on the current session, and the entry that replays *)
(* it; without a session it is refused.                                    *)
Subscribe(k) ==
  /\ Free /\ op = "idle" /\ wanted /\ session # 0
  /\ Len(ann) < MaxClosures
  /\ ann' = Append(ann, k)
  /\ subs' = [subs EXCEPT ![k] = Len(ann) + 1]
  /\ UNCHANGED <<mu, session, opened, alive, rc, loop, ka, kaStop, op,
                 dropping, wanted, strayed, crashed>>

(* Unsubscribe reads the session and the closure id under the lock, and    *)
(* removes the closure after it.                                           *)
UnsubscribeUnconnected(k) == \* mutant: no test of the session after the lock
  /\ Free /\ op = "idle" /\ wanted /\ subs[k] # 0
  /\ subs' = [subs EXCEPT ![k] = 0]
  /\ dropping' = [key |-> k, s |-> session, id |-> subs[k]]
  /\ op' = "unsubscribe"
  /\ UNCHANGED <<mu, session, opened, alive, ann, rc, loop, ka, kaStop,
                 wanted, strayed, crashed>>

Unsubscribe(k) ==
  /\ Free /\ op = "idle" /\ wanted /\ subs[k] # 0
  /\ subs' = [subs EXCEPT ![k] = 0]
  /\ IF session = 0
     THEN UNCHANGED <<dropping, op>>
     ELSE /\ dropping' = [key |-> k, s |-> session, id |-> subs[k]]
          /\ op' = "unsubscribe"
  /\ UNCHANGED <<mu, session, opened, alive, ann, rc, loop, ka, kaStop,
                 wanted, strayed, crashed>>

UnsubscribeAnnounces ==
  /\ Running /\ op = "unsubscribe"
  /\ IF dropping.s = session /\ dropping.id \in DOMAIN ann
     THEN /\ ann' = [ann EXCEPT ![dropping.id] = None]
          /\ strayed' = (strayed \/ ann[dropping.id] # dropping.key)
     ELSE UNCHANGED <<ann, strayed>>   \* a dropped session, or no such closure
  /\ op' = "idle" /\ dropping' = None
  /\ UNCHANGED <<mu, session, opened, alive, subs, rc, loop, ka, kaStop,
                 wanted, crashed>>

-----------------------------------------------------------------------------
(* Disconnect: nothing to do without a session, otherwise the loop is      *)
(* stopped, then the keep-alive, then the session.                         *)
DisconnectNothing ==
  /\ Free /\ op = "idle" /\ wanted /\ session = 0
  /\ wanted' = FALSE
  /\ UNCHANGED <<mu, session, opened, alive, ann, subs, rc, loop, ka, kaStop,
                 op, dropping, strayed, crashed>>

DisconnectStopsLoop ==
  /\ Free /\ op = "idle" /\ wanted /\ session # 0
  /\ rc' = "stop" /\ op' = "loopwait"
  /\ UNCHANGED <<mu, session, opened, alive, ann, subs, loop, ka, kaStop,
                 dropping, wanted, strayed, crashed>>

DisconnectStopsKeepAlive ==
  /\ Free /\ op = "loopwait" /\ loop = "ended"
  /\ rc' = "none"
  /\ IF ka = "off" THEN op' = "closing" /\ UNCHANGED kaStop
                   ELSE op' = "kawait" /\ kaStop' = TRUE
  /\ UNCHANGED <<mu, session, opened, alive, ann, subs, loop, ka, dropping,
                 wanted, strayed, crashed>>

(* p.session may have been dropped while Disconnect waited.                *)
DisconnectCloses ==
  /\ Free
  /\ op = "closing" \/ (op = "kawait" /\ ka = "left")
  /\ ka' = "off" /\ kaStop' = FALSE
  /\ IF session = 0
     THEN /\ crashed' = TRUE
          /\ UNCHANGED <<session, alive, ann, subs, op, wanted>>
     ELSE /\ alive' = alive \ {session}
          /\ session' = 0 /\ ann' = <<>>
          /\ subs' = [k \in Keys |-> 0]
          /\ op' = "idle" /\ wanted' = FALSE
          /\ UNCHANGED crashed
  /\ UNCHANGED <<mu, opened, rc, loop, dropping, strayed>>

-----------------------------------------------------------------------------
(* The warm-restart goroutine: look at the session, block on its end.      *)
LoopTop ==
  /\ Free /\ loop = "top"
  /\ loop' = IF session = 0 THEN "ended" ELSE "watch"
  /\ UNCHANGED <<mu, session, opened, alive, ann, subs, rc, ka, kaStop, op,
                 dropping, wanted, strayed, crashed>>

LoopStoppedLate == \* mutant: done is tested only after the session's end
  /\ Running /\ loop = "watch" /\ rc = "stop" /\ session \notin alive
  /\ loop' = "ended"
  /\ UNCHANGED <<mu, session, opened, alive, ann, subs, rc, ka, kaStop, op,
                 dropping, wanted, strayed, crashed>>

LoopStopped ==
  /\ Running /\ loop = "watch" /\ rc = "stop"
  /\ loop' = "ended"
  /\ UNCHANGED <<mu, session, opened, alive, ann, subs, rc, ka, kaStop, op,
                 dropping, wanted, strayed, crashed>>

LoopNoticesLoss ==
  /\ Running /\ loop = "watch" /\ rc = "on" /\ session \notin alive
  /\ loop' = "backoff"
  /\ UNCHANGED <<mu, session, opened, alive, ann, subs, rc, ka, kaStop, op,
                 dropping, wanted, strayed, crashed>>

(* The delay may run out although done is closed: select takes either.     *)
BackoffStopped ==
  /\ Running /\ loop = "backoff" /\ rc = "stop"
  /\ loop' = "top"
  /\ UNCHANGED <<mu, session, opened, alive, ann, subs, rc, ka, kaStop, op,
                 dropping, wanted, strayed, crashed>>

(* reconnectOnce: the keep-alive is stopped, the dead session dropped.     *)
StopKeepAlive ==
  /\ Free /\ loop = "backoff" /\ ka # "off"
  /\ kaStop' = TRUE
  /\ loop' = "kawait"
  /\ UNCHANGED <<mu, session, opened, alive, ann, subs, rc, ka, op, dropping,
                 wanted, strayed, crashed>>

DropSession ==
  /\ Free
  /\ \/ loop = "backoff" /\ ka = "off"
     \/ loop = "kawait" /\ ka = "left"
  /\ ka' = "off" /\ kaStop' = FALSE
  /\ session' = 0 /\ ann' = <<>>
  /\ loop' = "dial"
  /\ UNCHANGED <<mu, opened, alive, subs, rc, op, dropping, wanted,
                 strayed, crashed>>

LoopDials ==
  /\ Free /\ loop = "dial"
  /\ mu' = "loop" /\ loop' = "connect"
  /\ UNCHANGED <<session, opened, alive, ann, subs, rc, ka, kaStop, op,
                 dropping, wanted, strayed, crashed>>

LoopConnected ==
  /\ Running /\ loop = "connect"
  /\ Handshake
  /\ loop' = "replay"
  /\ UNCHANGED <<ann, subs, rc, op, dropping, wanted, strayed, crashed>>

LoopGivesUp == \* mutant: one refused dial ends the loop
  /\ Running /\ loop = "connect"
  /\ mu' = None /\ loop' = "ended"
  /\ UNCHANGED <<session, opened, alive, ann, subs, rc, ka, kaStop, op,
                 dropping, wanted, strayed, crashed>>

LoopRefused ==
  /\ Running /\ loop = "connect"
  /\ mu' = None /\ loop' = "backoff"
  /\ UNCHANGED <<session, opened, alive, ann, subs, rc, ka, kaStop, op,
                 dropping, wanted, strayed, crashed>>

(* The replay registers every active subscription, in any order (it ranges *)
(* over a map), after whatever was subscribed since the handshake.         *)
Orders == {o \in [1 .. Cardinality(Active) -> Active] :
             \A i, j \in DOMAIN o : o[i] = o[j] => i = j}
ReplayStale == \* mutant: the closure ids are not refreshed
  /\ Free /\ loop = "replay"
  /\ \E o \in Orders :
       /\ ann' = ann \o o
  /\ loop' = "top"
  /\ UNCHANGED <<mu, subs, session, opened, alive, rc, ka, kaStop, op, dropping,
                 wanted, strayed, crashed>>

Replay ==
  /\ Free /\ loop = "replay"
  /\ \E o \in Orders :
       /\ ann' = ann \o o
       /\ subs' = [k \in Keys |->
                     IF k \in Active
                     THEN Len(ann) + (CHOOSE i \in DOMAIN o : o[i] = k)
                     ELSE 0]
  /\ loop' = "top"
  /\ UNCHANGED <<mu, session, opened, alive, rc, ka, kaStop, op, dropping,
                 wanted, strayed, crashed>>

-----------------------------------------------------------------------------
(* Prober and watchdog take p.mu for a moment at every tick and leave when *)
(* their done is closed, the prober also when it finds no session.         *)
KeepAliveTick ==
  /\ Running /\ ka = "select"
  /\ ka' = "locking"
  /\ UNCHANGED <<mu, session, opened, alive, ann, subs, rc, loop, kaStop, op,
                 dropping, wanted, strayed, crashed>>

KeepAliveLooks ==
  /\ Free /\ ka = "locking"
  /\ ka' = IF session = 0 THEN "left" ELSE "select"
  /\ UNCHANGED <<mu, session, opened, alive, ann, subs, rc, loop, kaStop, op,
                 dropping, wanted, strayed, crashed>>

KeepAliveLeaves ==
  /\ Running /\ ka = "select" /\ kaStop
  /\ ka' = "left"
  /\ UNCHANGED <<mu, session, opened, alive, ann, subs, rc, loop, kaStop, op,
                 dropping, wanted, strayed, crashed>>

(* The connection is lost: a hang-up, or the dead-man deadline.            *)
Loss ==
  /\ Running /\ session \in alive /\ opened < MaxSessions
  /\ alive' = alive \ {session}
  /\ UNCHANGED <<mu, session, opened, ann, subs, rc, loop, ka, kaStop, op,
                 dropping, wanted, strayed, crashed>>

-----------------------------------------------------------------------------
Operator ==
  \/ OpConnect \/ OpConnected \/ OpRefused
  \/ \E k \in Keys : Subscribe(k) \/ Unsubscribe(k)
  \/ UnsubscribeAnnounces
  \/ DisconnectNothing \/ DisconnectStopsLoop \/ DisconnectStopsKeepAlive
  \/ DisconnectCloses
Reconnecting ==
  \/ LoopTop \/ LoopStopped \/ LoopNoticesLoss \/ BackoffStopped
  \/ StopKeepAlive \/ DropSession \/ LoopDials \/ LoopConnected
  \/ LoopRefused \/ Replay
KeepingAlive == KeepAliveTick \/ KeepAliveLooks \/ KeepAliveLeaves
Next == Operator \/ Reconnecting \/ KeepingAlive \/ Loss
Spec == Init /\ [][Next]_vars

(* Every goroutine runs, a handshake ends within its 5 s context, and a    *)
(* select whose done channel stays closed picks it sooner or later.  The   *)
(* operator need not call anything, the connection need not be lost, and   *)
(* nothing says a dial succeeds.                                           *)
FairSpec ==
  /\ Spec
  /\ WF_vars(OpConnected \/ OpRefused)
  /\ WF_vars(UnsubscribeAnnounces)
  /\ WF_vars(DisconnectStopsKeepAlive) /\ WF_vars(DisconnectCloses)
  /\ WF_vars(Reconnecting) /\ SF_vars(BackoffStopped)
  /\ WF_vars(KeepAliveTick \/ KeepAliveLooks) /\ SF_vars(KeepAliveLeaves)

-----------------------------------------------------------------------------
(* The warm-restart loop holds a session it is not replacing.              *)
Settled == session \in alive /\ loop \in {"top", "watch"}
Disconnecting == op \in {"loopwait", "kawait", "closing"}

(* After a reconnection has replayed, every key the operator subscribed to *)
(* and has not unsubscribed from has, under the id Unsubscribe would use,  *)
(* its closure on the live session (reconnect.go:183-190), unless an       *)
(* Unsubscribe in the gap removed a closure by an id of the session before *)
(* (plugin.go:622-637).                                                    *)
SubscriptionsSurvive ==
  Settled /\ ~strayed =>
    \A k \in Active : subs[k] \in DOMAIN ann /\ ann[subs[k]] = k

(* A live session nobody is closing is probed, and watched by a loop that  *)
(* has not ended: whichever session the loop opened last (plugin.go:304,   *)
(* 309, reconnect.go:59-94).                                               *)
LiveSessionsAreGuarded ==
  session \in alive /\ ~Disconnecting =>
    /\ ka \in {"select", "locking"} /\ ~kaStop
    /\ loop \in {"top", "watch", "replay"}

(* Disconnect and Unsubscribe come back, or crash: neither the loop nor    *)
(* the keep-alive they wait for waits for them (reconnect.go:44-53,        *)
(* keepalive.go:141-152).                                                  *)
OperationsReturn == op # "idle" ~> op \in {"idle", "new"} \/ crashed

(* If dials that are tried for ever succeed in the end, a lost session is  *)
(* replaced and replayed, unless the operator disconnects                  *)
(* (reconnect.go:10-12, "retry forever").                                  *)
DialsSucceed == SF_vars(LoopConnected)
LostSessionsAreReplaced ==
  DialsSucceed =>
    (session # 0 /\ session \notin alive) ~> (Settled \/ ~wanted \/ crashed)

(* What a comment says and a run refutes.  Disconnect ends it: once it has *)
(* returned, nothing re-dials (reconnect.go:10-12).                        *)
DisconnectIsFinal == op = "idle" /\ ~wanted => session = 0
=============================================================================
