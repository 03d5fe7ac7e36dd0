------------------------ MODULE Acp2Plugin_proofs -------------------------
(***************************************************************************)
(* What is proved of Acp2Plugin, for any finite set of keys and any number *)
(* of sessions: its type invariant, that subscriptions survive a           *)
(* reconnection, and that every live session is guarded.  And, at the end, *)
(* what is proved of MtidPool, the pool of message ids each of the         *)
(* plugin's sessions owns; the two share no variable and no constant.      *)
(***************************************************************************)
EXTENDS Acp2Plugin, MtidPool, FiniteSetTheorems, SequenceTheorems, TLAPS

(* The type invariant in parts: the sessions, the subscriptions, and the   *)
(* goroutines.                                                             *)
TypeSessions ==
  /\ mu \in {None, "op", "loop"}
  /\ session \in 0 .. MaxSessions /\ opened \in 0 .. MaxSessions
  /\ alive \in SUBSET Sessions
TypeSubs ==
  /\ ann \in Seq(Keys \cup {None})
  /\ subs \in [Keys -> Nat]
  /\ dropping \in [key : Keys, s : Sessions, id : Nat] \cup {None}
  /\ op = "unsubscribe" => dropping \in [key : Keys, s : Sessions, id : Nat]
TypeSteps ==
  /\ rc \in {"none", "on", "stop"} /\ loop \in LoopSteps /\ op \in OpSteps
  /\ ka \in {"off", "select", "locking", "left"} /\ kaStop \in BOOLEAN
  /\ wanted \in BOOLEAN /\ strayed \in BOOLEAN /\ crashed \in BOOLEAN
Type == TypeSessions /\ TypeSubs /\ TypeSteps

(* Nothing is subscribed before the operator has connected, nor under the  *)
(* key of which the closure is about to be removed.                        *)
Unsubscribed ==
  /\ op \in {"new", "connect"} => \A k \in Keys : subs[k] = 0
  /\ op = "unsubscribe" => subs[dropping.key] = 0

(* The loop is stopped only by a Disconnect that waits for it, and         *)
(* replaces only a session that is lost.                                   *)
Replacing == {"backoff", "kawait", "dial", "connect"}
Stopping == rc = "stop" => op = "loopwait"
LostWhenReplaced == loop \in Replacing => session \notin alive

Inv ==
  /\ Type /\ Unsubscribed /\ Stopping /\ LostWhenReplaced
  /\ LiveSessionsAreGuarded /\ SubscriptionsSurvive

USE KeysAssumption, BoundAssumption

(* An order of the replay names each active subscription once.             *)
LEMMA OrdersAreWhole ==
  ASSUME NEW o \in Orders
  PROVE  /\ Cardinality(Active) \in Nat /\ DOMAIN o = 1 .. Cardinality(Active)
         /\ o \in Seq(Active) /\ Len(o) = Cardinality(Active)
         /\ \A k \in Active : \E i \in DOMAIN o : o[i] = k
<1> DEFINE n == Cardinality(Active)
<1>1. IsFiniteSet(Active)
  BY FS_Subset DEF Active
<1>2. n \in Nat
  BY <1>1, FS_CardinalityType
<1>3. o \in [1 .. n -> Active] /\ \A i, j \in DOMAIN o : o[i] = o[j] => i = j
  BY DEF Orders
<1> HIDE DEF n
<1>4. IsFiniteSet(1 .. n) /\ Cardinality(1 .. n) = n
  BY <1>2, FS_Interval
<1>5. o \in Injection(1 .. n, Active)
  BY <1>3 DEF Injection, IsInjective
<1>6. o \in Surjection(1 .. n, Active)
  BY <1>1, <1>4, <1>5, FS_Injection DEF n
<1>7. \A k \in Active : \E i \in 1 .. n : o[i] = k
  BY <1>6 DEF Surjection
<1>8. o \in Seq(Active) /\ Len(o) = n
  BY <1>2, <1>3
<1> QED BY <1>2, <1>3, <1>7, <1>8 DEF n

(* After the replay each active subscription has its closure behind the    *)
(* ones that were there.                                                   *)
LEMMA Replayed ==
  ASSUME Type, Replay
  PROVE  /\ ann' \in Seq(Keys \cup {None}) /\ subs' \in [Keys -> Nat]
         /\ \A k \in Keys : k \notin Active => subs'[k] = 0
         /\ \A k \in Active : subs'[k] \in DOMAIN ann' /\ ann'[subs'[k]] = k
<1>1. PICK o \in Orders :
        /\ ann' = ann \o o
        /\ subs' = [k \in Keys |-> IF k \in Active
                                   THEN Len(ann) + (CHOOSE i \in DOMAIN o : o[i] = k) ELSE 0]
  BY DEF Replay
<1>2. /\ Cardinality(Active) \in Nat /\ DOMAIN o = 1 .. Len(o) /\ Len(o) \in Nat
      /\ o \in Seq(Keys \cup {None}) /\ ann \in Seq(Keys \cup {None})
  <2>1. o \in Seq(Active) /\ Active \subseteq Keys
    BY OrdersAreWhole DEF Active
  <2>2. o \in Seq(Keys \cup {None})
    BY <2>1
  <2> QED BY <2>2, OrdersAreWhole DEF Type, TypeSubs
<1>3. ASSUME NEW k \in Active
      PROVE  \E i \in 1 .. Len(o) : o[i] = k /\ subs'[k] = Len(ann) + i
  <2>1. \E i \in DOMAIN o : o[i] = k
    BY OrdersAreWhole
  <2>2. (CHOOSE i \in DOMAIN o : o[i] = k) \in DOMAIN o
        /\ o[CHOOSE i \in DOMAIN o : o[i] = k] = k
    BY <2>1
  <2> QED BY <1>1, <1>2, <2>2 DEF Active
<1>4. /\ ann' \in Seq(Keys \cup {None}) /\ Len(ann') = Len(ann) + Len(o)
      /\ \A i \in 1 .. Len(o) : ann'[Len(ann) + i] = o[i]
  BY <1>1, <1>2
<1>5. \A k \in Keys : k \notin Active => subs'[k] = 0
  BY <1>1
<1>6. ASSUME NEW k \in Active
      PROVE  subs'[k] \in Nat /\ subs'[k] \in DOMAIN ann' /\ ann'[subs'[k]] = k
  <2>1. PICK i \in 1 .. Len(o) : o[i] = k /\ subs'[k] = Len(ann) + i
    BY <1>3
  <2>2. Len(ann) + i \in 1 .. Len(ann') /\ DOMAIN ann' = 1 .. Len(ann')
    BY <1>2, <1>4
  <2> QED BY <1>2, <1>4, <2>1, <2>2
<1>7. subs' \in [Keys -> Nat]
  <2>1. subs' = [k \in Keys |-> subs'[k]]
    BY <1>1
  <2> QED BY <1>5, <1>6, <2>1
<1> QED BY <1>4, <1>5, <1>6, <1>7

(* Every step keeps the type of every variable.                            *)
LEMMA TypeSessionsStep ==
  ASSUME Type, [Next]_vars
  PROVE  TypeSessions'
<1>1. CASE OpConnect
  BY <1>1 DEF OpConnect, Type, TypeSessions, Sessions
<1>2. CASE OpConnected
  BY <1>2 DEF OpConnected, Handshake, Type, TypeSessions, Sessions
<1>3. CASE OpRefused
  BY <1>3 DEF OpRefused, Type, TypeSessions, Sessions
<1>4. CASE DisconnectCloses
  <2>1. CASE session = 0
    BY <1>4, <2>1 DEF DisconnectCloses, Type, TypeSessions, Sessions
  <2>2. CASE session # 0
    <3>1. session' = 0 /\ alive' = alive \ {session} /\ ann' = <<>>
          /\ subs' = [k \in Keys |-> 0] /\ op' = "idle"
          /\ UNCHANGED <<mu, opened, dropping>>
      BY <1>4, <2>2 DEF DisconnectCloses
    <3> QED BY <3>1 DEF Type, TypeSessions, Sessions
  <2> QED BY <2>1, <2>2
<1>5. CASE DropSession
  BY <1>5 DEF DropSession, Type, TypeSessions, Sessions
<1>6. CASE LoopDials
  BY <1>6 DEF LoopDials, Type, TypeSessions, Sessions
<1>7. CASE LoopConnected
  BY <1>7 DEF LoopConnected, Handshake, Type, TypeSessions, Sessions
<1>8. CASE LoopRefused
  BY <1>8 DEF LoopRefused, Type, TypeSessions, Sessions
<1>9. CASE Loss
  BY <1>9 DEF Loss, Type, TypeSessions, Sessions
<1>10. CASE UNCHANGED <<mu, session, opened, alive>>
  BY <1>10 DEF Type, TypeSessions, Sessions
<1> QED
  BY <1>1, <1>2, <1>3, <1>4, <1>5, <1>6, <1>7, <1>8, <1>9, <1>10
  DEF Next, Operator, Reconnecting, KeepingAlive, Subscribe, Unsubscribe,
      UnsubscribeAnnounces, DisconnectNothing, DisconnectStopsLoop,
      DisconnectStopsKeepAlive, LoopTop, LoopStopped, LoopNoticesLoss,
      BackoffStopped, StopKeepAlive, Replay, KeepAliveTick, KeepAliveLooks,
      KeepAliveLeaves, vars

LEMMA TypeSubsStep ==
  ASSUME Type, [Next]_vars
  PROVE  TypeSubs'
<1>1. CASE OpConnect
  BY <1>1 DEF OpConnect, Type, TypeSubs, TypeSessions, Sessions
<1>2. CASE OpConnected
  BY <1>2 DEF OpConnected, Handshake, Type, TypeSubs, TypeSessions, Sessions
<1>3. CASE OpRefused
  BY <1>3 DEF OpRefused, Type, TypeSubs, TypeSessions, Sessions
<1>4. ASSUME NEW k \in Keys, Subscribe(k) PROVE TypeSubs'
  BY <1>4 DEF Subscribe, Type, TypeSubs, TypeSessions, Sessions
<1>5. ASSUME NEW k \in Keys, Unsubscribe(k) PROVE TypeSubs'
  <2>1. subs' \in [Keys -> Nat] /\ ann' = ann
    BY <1>5 DEF Unsubscribe, Type, TypeSubs
  <2>2. CASE session = 0
    BY <1>5, <2>1, <2>2 DEF Unsubscribe, Type, TypeSubs
  <2>3. CASE session # 0
    <3>1. session \in Sessions /\ subs[k] \in Nat
      BY <2>3 DEF Type, TypeSessions, TypeSubs, Sessions
    <3>2. dropping' = [key |-> k, s |-> session, id |-> subs[k]]
      BY <1>5, <2>3 DEF Unsubscribe
    <3>3. dropping' \in [key : Keys, s : Sessions, id : Nat]
      BY <3>1, <3>2 DEF Sessions
    <3> QED BY <2>1, <3>3 DEF Type, TypeSubs, Sessions
  <2> QED BY <2>2, <2>3
<1>6. CASE UnsubscribeAnnounces
  BY <1>6 DEF UnsubscribeAnnounces, Type, TypeSubs, TypeSessions, Sessions
<1>7. CASE DisconnectStopsLoop
  BY <1>7 DEF DisconnectStopsLoop, Type, TypeSubs, TypeSessions, Sessions
<1>8. CASE DisconnectStopsKeepAlive
  BY <1>8 DEF DisconnectStopsKeepAlive, Type, TypeSubs, TypeSessions, Sessions
<1>9. CASE DisconnectCloses
  <2>1. CASE session = 0
    BY <1>9, <2>1 DEF DisconnectCloses, Type, TypeSubs
  <2>2. CASE session # 0
    <3>1. session' = 0 /\ alive' = alive \ {session} /\ ann' = <<>>
          /\ subs' = [k \in Keys |-> 0] /\ op' = "idle"
          /\ UNCHANGED <<mu, opened, dropping>>
      BY <1>9, <2>2 DEF DisconnectCloses
    <3> QED BY <3>1 DEF Type, TypeSubs
  <2> QED BY <2>1, <2>2
<1>10. CASE DropSession
  BY <1>10 DEF DropSession, Type, TypeSubs, TypeSessions, Sessions
<1>11. CASE Replay
  BY <1>11, Replayed DEF Replay, Type, TypeSubs
<1>12. CASE UNCHANGED <<ann, subs, dropping, op>>
  BY <1>12 DEF Type, TypeSubs, TypeSessions, Sessions
<1> QED
  BY <1>1, <1>2, <1>3, <1>4, <1>5, <1>6, <1>7, <1>8, <1>9, <1>10, <1>11, <1>12
  DEF Next, Operator, Reconnecting, KeepingAlive, DisconnectNothing, LoopTop,
      LoopStopped, LoopNoticesLoss, BackoffStopped, StopKeepAlive, LoopDials,
      LoopConnected, LoopRefused, KeepAliveTick, KeepAliveLooks,
      KeepAliveLeaves, Loss, vars

LEMMA TypeStepsStep ==
  ASSUME Type, [Next]_vars
  PROVE  TypeSteps'
<1>1. CASE OpConnect
  BY <1>1 DEF OpConnect, Type, TypeSteps, LoopSteps, OpSteps
<1>2. CASE OpConnected
  BY <1>2 DEF OpConnected, Handshake, Type, TypeSteps, LoopSteps, OpSteps
<1>3. CASE OpRefused
  BY <1>3 DEF OpRefused, Type, TypeSteps, LoopSteps, OpSteps
<1>4. ASSUME NEW k \in Keys, Unsubscribe(k) PROVE TypeSteps'
  BY <1>4 DEF Unsubscribe, Type, TypeSteps, LoopSteps, OpSteps
<1>5. CASE UnsubscribeAnnounces
  BY <1>5 DEF UnsubscribeAnnounces, Type, TypeSteps, LoopSteps, OpSteps
<1>6. CASE DisconnectNothing
  BY <1>6 DEF DisconnectNothing, Type, TypeSteps, LoopSteps, OpSteps
<1>7. CASE DisconnectStopsLoop
  BY <1>7 DEF DisconnectStopsLoop, Type, TypeSteps, LoopSteps, OpSteps
<1>8. CASE DisconnectStopsKeepAlive
  BY <1>8 DEF DisconnectStopsKeepAlive, Type, TypeSteps, LoopSteps, OpSteps
<1>9. CASE DisconnectCloses
  BY <1>9 DEF DisconnectCloses, Type, TypeSteps, LoopSteps, OpSteps
<1>10. CASE LoopTop
  BY <1>10 DEF LoopTop, Type, TypeSteps, LoopSteps, OpSteps
<1>11. CASE LoopStopped
  BY <1>11 DEF LoopStopped, Type, TypeSteps, LoopSteps, OpSteps
<1>12. CASE LoopNoticesLoss
  BY <1>12 DEF LoopNoticesLoss, Type, TypeSteps, LoopSteps, OpSteps
<1>13. CASE BackoffStopped
  BY <1>13 DEF BackoffStopped, Type, TypeSteps, LoopSteps, OpSteps
<1>14. CASE StopKeepAlive
  BY <1>14 DEF StopKeepAlive, Type, TypeSteps, LoopSteps, OpSteps
<1>15. CASE DropSession
  BY <1>15 DEF DropSession, Type, TypeSteps, LoopSteps, OpSteps
<1>16. CASE LoopDials
  BY <1>16 DEF LoopDials, Type, TypeSteps, LoopSteps, OpSteps
<1>17. CASE LoopConnected
  BY <1>17 DEF LoopConnected, Handshake, Type, TypeSteps, LoopSteps, OpSteps
<1>18. CASE LoopRefused
  BY <1>18 DEF LoopRefused, Type, TypeSteps, LoopSteps, OpSteps
<1>19. CASE Replay
  BY <1>19 DEF Replay, Type, TypeSteps, LoopSteps, OpSteps
<1>20. CASE KeepAliveTick
  BY <1>20 DEF KeepAliveTick, Type, TypeSteps, LoopSteps, OpSteps
<1>21. CASE KeepAliveLooks
  BY <1>21 DEF KeepAliveLooks, Type, TypeSteps, LoopSteps, OpSteps
<1>22. CASE KeepAliveLeaves
  BY <1>22 DEF KeepAliveLeaves, Type, TypeSteps, LoopSteps, OpSteps
<1>23. CASE UNCHANGED <<rc, loop, op, ka, kaStop, wanted, strayed, crashed>>
  BY <1>23 DEF Type, TypeSteps, LoopSteps, OpSteps
<1> QED
  BY <1>1, <1>2, <1>3, <1>4, <1>5, <1>6, <1>7, <1>8, <1>9, <1>10, <1>11, <1>12,
      <1>13, <1>14, <1>15, <1>16, <1>17, <1>18, <1>19, <1>20, <1>21, <1>22,
      <1>23
  DEF Next, Operator, Reconnecting, KeepingAlive, Subscribe, Loss, vars

(* Only Subscribe makes a key active, and the operator has other things to *)
(* do at those two moments.                                                *)
LEMMA UnsubscribedStep ==
  ASSUME Type, Unsubscribed, [Next]_vars
  PROVE  Unsubscribed'
<1>1. CASE OpConnect
  BY <1>1 DEF OpConnect, Type, TypeSubs, Unsubscribed
<1>2. CASE OpConnected
  BY <1>2 DEF OpConnected, Handshake, Type, TypeSubs, Unsubscribed
<1>3. CASE OpRefused
  BY <1>3 DEF OpRefused, Type, TypeSubs, Unsubscribed
<1>4. ASSUME NEW k \in Keys, Subscribe(k) PROVE Unsubscribed'
  BY <1>4 DEF Subscribe, Type, TypeSubs, Unsubscribed
<1>5. ASSUME NEW k \in Keys, Unsubscribe(k) PROVE Unsubscribed'
  BY <1>5 DEF Unsubscribe, Type, TypeSubs, Unsubscribed
<1>6. CASE UnsubscribeAnnounces
  BY <1>6 DEF UnsubscribeAnnounces, Type, TypeSubs, Unsubscribed
<1>7. CASE DisconnectStopsLoop
  BY <1>7 DEF DisconnectStopsLoop, Type, TypeSubs, Unsubscribed
<1>8. CASE DisconnectStopsKeepAlive
  BY <1>8 DEF DisconnectStopsKeepAlive, Type, TypeSubs, Unsubscribed
<1>9. CASE DisconnectCloses
  BY <1>9 DEF DisconnectCloses, Type, TypeSubs, Unsubscribed
<1>10. CASE Replay
  BY <1>10, Replayed DEF Replay, Active, Type, TypeSubs, Unsubscribed
<1>11. CASE UNCHANGED <<op, subs, dropping>>
  BY <1>11 DEF Type, TypeSubs, Unsubscribed
<1> QED
  BY <1>1, <1>2, <1>3, <1>4, <1>5, <1>6, <1>7, <1>8, <1>9, <1>10, <1>11
  DEF Next, Operator, Reconnecting, KeepingAlive, DisconnectNothing, LoopTop,
      LoopStopped, LoopNoticesLoss, BackoffStopped, StopKeepAlive, DropSession,
      LoopDials, LoopConnected, LoopRefused, KeepAliveTick, KeepAliveLooks,
      KeepAliveLeaves, Loss, vars

(* Disconnect closes done before it waits, and forgets the loop when it    *)
(* has ended.                                                              *)
LEMMA StoppingStep ==
  ASSUME Type, Stopping, [Next]_vars
  PROVE  Stopping'
<1>1. CASE OpConnect
  BY <1>1 DEF OpConnect, Stopping, Type, TypeSteps
<1>2. CASE OpConnected
  BY <1>2 DEF OpConnected, Handshake, Stopping, Type, TypeSteps
<1>3. CASE OpRefused
  BY <1>3 DEF OpRefused, Stopping, Type, TypeSteps
<1>4. ASSUME NEW k \in Keys, Unsubscribe(k) PROVE Stopping'
  BY <1>4 DEF Unsubscribe, Stopping, Type, TypeSteps
<1>5. CASE UnsubscribeAnnounces
  BY <1>5 DEF UnsubscribeAnnounces, Stopping, Type, TypeSteps
<1>6. CASE DisconnectStopsLoop
  BY <1>6 DEF DisconnectStopsLoop, Stopping, Type, TypeSteps
<1>7. CASE DisconnectStopsKeepAlive
  BY <1>7 DEF DisconnectStopsKeepAlive, Stopping, Type, TypeSteps
<1>8. CASE DisconnectCloses
  BY <1>8 DEF DisconnectCloses, Stopping, Type, TypeSteps
<1>9. CASE UNCHANGED <<rc, op>>
  BY <1>9 DEF Stopping, Type, TypeSteps
<1> QED
  BY <1>1, <1>2, <1>3, <1>4, <1>5, <1>6, <1>7, <1>8, <1>9
  DEF Next, Operator, Reconnecting, KeepingAlive, Subscribe, DisconnectNothing,
      LoopTop, LoopStopped, LoopNoticesLoss, BackoffStopped, StopKeepAlive,
      DropSession, LoopDials, LoopConnected, LoopRefused, Replay, KeepAliveTick,
      KeepAliveLooks, KeepAliveLeaves, Loss, vars

(* The loop leaves the watch because the session was lost, and drops it.   *)
LEMMA LostWhenReplacedStep ==
  ASSUME Type, LostWhenReplaced, [Next]_vars
  PROVE  LostWhenReplaced'
<1>1. CASE OpConnected
  BY <1>1
  DEF OpConnected, Handshake, LostWhenReplaced, Replacing, Type, TypeSessions,
      Sessions
<1>2. CASE DisconnectCloses
  BY <1>2
  DEF DisconnectCloses, LostWhenReplaced, Replacing, Type, TypeSessions,
      Sessions
<1>3. CASE LoopTop
  BY <1>3 DEF LoopTop, LostWhenReplaced, Replacing, Type, TypeSessions, Sessions
<1>4. CASE LoopStopped
  BY <1>4 DEF LoopStopped, LostWhenReplaced, Replacing, Type, TypeSessions, Sessions
<1>5. CASE LoopNoticesLoss
  BY <1>5
  DEF LoopNoticesLoss, LostWhenReplaced, Replacing, Type, TypeSessions, Sessions
<1>6. CASE BackoffStopped
  BY <1>6
  DEF BackoffStopped, LostWhenReplaced, Replacing, Type, TypeSessions, Sessions
<1>7. CASE StopKeepAlive
  BY <1>7
  DEF StopKeepAlive, LostWhenReplaced, Replacing, Type, TypeSessions, Sessions
<1>8. CASE DropSession
  BY <1>8 DEF DropSession, LostWhenReplaced, Replacing, Type, TypeSessions, Sessions
<1>9. CASE LoopDials
  BY <1>9 DEF LoopDials, LostWhenReplaced, Replacing, Type, TypeSessions, Sessions
<1>10. CASE LoopConnected
  BY <1>10
  DEF LoopConnected, Handshake, LostWhenReplaced, Replacing, Type, TypeSessions,
      Sessions
<1>11. CASE LoopRefused
  BY <1>11
  DEF LoopRefused, LostWhenReplaced, Replacing, Type, TypeSessions, Sessions
<1>12. CASE Replay
  BY <1>12 DEF Replay, LostWhenReplaced, Replacing, Type, TypeSessions, Sessions
<1>13. CASE Loss
  BY <1>13 DEF Loss, LostWhenReplaced, Replacing, Type, TypeSessions, Sessions
<1>14. CASE UNCHANGED <<loop, session, alive>>
  BY <1>14 DEF LostWhenReplaced, Replacing, Type, TypeSessions, Sessions
<1> QED
  BY <1>1, <1>2, <1>3, <1>4, <1>5, <1>6, <1>7, <1>8, <1>9, <1>10, <1>11, <1>12,
      <1>13, <1>14
  DEF Next, Operator, Reconnecting, KeepingAlive, OpConnect, OpRefused,
      Subscribe, Unsubscribe, UnsubscribeAnnounces, DisconnectNothing,
      DisconnectStopsLoop, DisconnectStopsKeepAlive, KeepAliveTick,
      KeepAliveLooks, KeepAliveLeaves, vars

(* A handshake ends with a keep-alive that nobody but a Disconnect or a    *)
(* loss stops.                                                             *)
LEMMA LiveSessionsAreGuardedStep ==
  ASSUME Type, Stopping, LostWhenReplaced, LiveSessionsAreGuarded, [Next]_vars
  PROVE  LiveSessionsAreGuarded'
<1>1. CASE OpConnect
  BY <1>1
  DEF OpConnect, LiveSessionsAreGuarded, Disconnecting, Stopping,
      LostWhenReplaced, Replacing, Type, TypeSessions, TypeSteps, Sessions
<1>2. CASE OpConnected
  BY <1>2
  DEF OpConnected, Handshake, LiveSessionsAreGuarded, Disconnecting, Stopping,
      LostWhenReplaced, Replacing, Type, TypeSessions, TypeSteps, Sessions
<1>3. CASE OpRefused
  BY <1>3
  DEF OpRefused, LiveSessionsAreGuarded, Disconnecting, Stopping,
      LostWhenReplaced, Replacing, Type, TypeSessions, TypeSteps, Sessions
<1>4. ASSUME NEW k \in Keys, Unsubscribe(k) PROVE LiveSessionsAreGuarded'
  BY <1>4
  DEF Unsubscribe, LiveSessionsAreGuarded, Disconnecting, Stopping,
      LostWhenReplaced, Replacing, Type, TypeSessions, TypeSteps, Sessions
<1>5. CASE UnsubscribeAnnounces
  BY <1>5
  DEF UnsubscribeAnnounces, LiveSessionsAreGuarded, Disconnecting, Stopping,
      LostWhenReplaced, Replacing, Type, TypeSessions, TypeSteps, Sessions
<1>6. CASE DisconnectStopsLoop
  BY <1>6
  DEF DisconnectStopsLoop, LiveSessionsAreGuarded, Disconnecting, Stopping,
      LostWhenReplaced, Replacing, Type, TypeSessions, TypeSteps, Sessions
<1>7. CASE DisconnectStopsKeepAlive
  BY <1>7
  DEF DisconnectStopsKeepAlive, LiveSessionsAreGuarded, Disconnecting, Stopping,
      LostWhenReplaced, Replacing, Type, TypeSessions, TypeSteps, Sessions
<1>8. CASE DisconnectCloses
  BY <1>8
  DEF DisconnectCloses, LiveSessionsAreGuarded, Disconnecting, Stopping,
      LostWhenReplaced, Replacing, Type, TypeSessions, TypeSteps, Sessions
<1>9. CASE LoopTop
  BY <1>9
  DEF LoopTop, LiveSessionsAreGuarded, Disconnecting, Stopping,
      LostWhenReplaced, Replacing, Type, TypeSessions, TypeSteps, Sessions
<1>10. CASE LoopStopped
  BY <1>10
  DEF LoopStopped, LiveSessionsAreGuarded, Disconnecting, Stopping,
      LostWhenReplaced, Replacing, Type, TypeSessions, TypeSteps, Sessions
<1>11. CASE LoopNoticesLoss
  BY <1>11
  DEF LoopNoticesLoss, LiveSessionsAreGuarded, Disconnecting, Stopping,
      LostWhenReplaced, Replacing, Type, TypeSessions, TypeSteps, Sessions
<1>12. CASE BackoffStopped
  BY <1>12
  DEF BackoffStopped, LiveSessionsAreGuarded, Disconnecting, Stopping,
      LostWhenReplaced, Replacing, Type, TypeSessions, TypeSteps, Sessions
<1>13. CASE StopKeepAlive
  BY <1>13
  DEF StopKeepAlive, LiveSessionsAreGuarded, Disconnecting, Stopping,
      LostWhenReplaced, Replacing, Type, TypeSessions, TypeSteps, Sessions
<1>14. CASE DropSession
  BY <1>14
  DEF DropSession, LiveSessionsAreGuarded, Disconnecting, Stopping,
      LostWhenReplaced, Replacing, Type, TypeSessions, TypeSteps, Sessions
<1>15. CASE LoopDials
  BY <1>15
  DEF LoopDials, LiveSessionsAreGuarded, Disconnecting, Stopping,
      LostWhenReplaced, Replacing, Type, TypeSessions, TypeSteps, Sessions
<1>16. CASE LoopConnected
  BY <1>16
  DEF LoopConnected, Handshake, LiveSessionsAreGuarded, Disconnecting, Stopping,
      LostWhenReplaced, Replacing, Type, TypeSessions, TypeSteps, Sessions
<1>17. CASE LoopRefused
  BY <1>17
  DEF LoopRefused, LiveSessionsAreGuarded, Disconnecting, Stopping,
      LostWhenReplaced, Replacing, Type, TypeSessions, TypeSteps, Sessions
<1>18. CASE Replay
  BY <1>18
  DEF Replay, LiveSessionsAreGuarded, Disconnecting, Stopping, LostWhenReplaced,
      Replacing, Type, TypeSessions, TypeSteps, Sessions
<1>19. CASE KeepAliveTick
  BY <1>19
  DEF KeepAliveTick, LiveSessionsAreGuarded, Disconnecting, Stopping,
      LostWhenReplaced, Replacing, Type, TypeSessions, TypeSteps, Sessions
<1>20. CASE KeepAliveLooks
  BY <1>20
  DEF KeepAliveLooks, LiveSessionsAreGuarded, Disconnecting, Stopping,
      LostWhenReplaced, Replacing, Type, TypeSessions, TypeSteps, Sessions
<1>21. CASE KeepAliveLeaves
  BY <1>21
  DEF KeepAliveLeaves, LiveSessionsAreGuarded, Disconnecting, Stopping,
      LostWhenReplaced, Replacing, Type, TypeSessions, TypeSteps, Sessions
<1>22. CASE Loss
  BY <1>22
  DEF Loss, LiveSessionsAreGuarded, Disconnecting, Stopping, LostWhenReplaced,
      Replacing, Type, TypeSessions, TypeSteps, Sessions
<1>23. CASE UNCHANGED <<loop, session, alive, ka, kaStop, op>>
  BY <1>23
  DEF LiveSessionsAreGuarded, Disconnecting, Stopping, LostWhenReplaced,
      Replacing, Type, TypeSessions, TypeSteps, Sessions
<1> QED
  BY <1>1, <1>2, <1>3, <1>4, <1>5, <1>6, <1>7, <1>8, <1>9, <1>10, <1>11, <1>12,
      <1>13, <1>14, <1>15, <1>16, <1>17, <1>18, <1>19, <1>20, <1>21, <1>22,
      <1>23
  DEF Next, Operator, Reconnecting, KeepingAlive, Subscribe, DisconnectNothing,
      vars

(* While the loop watches a live session no closure of an active key is    *)
(* lost or renumbered.                                                     *)
LEMMA SubscriptionsSurviveStep ==
  ASSUME Type, Unsubscribed, LostWhenReplaced, SubscriptionsSurvive, [Next]_vars
  PROVE  SubscriptionsSurvive'
<1>1. CASE OpConnected
  BY <1>1
  DEF OpConnected, Handshake, SubscriptionsSurvive, Settled, Active,
      Unsubscribed, LostWhenReplaced, Replacing, Type, TypeSubs, TypeSessions,
      TypeSteps, Sessions
<1>2. ASSUME NEW k \in Keys, Subscribe(k) PROVE SubscriptionsSurvive'
  BY <1>2
  DEF Subscribe, SubscriptionsSurvive, Settled, Active, Unsubscribed,
      LostWhenReplaced, Replacing, Type, TypeSubs, TypeSessions, TypeSteps,
      Sessions
<1>3. ASSUME NEW k \in Keys, Unsubscribe(k) PROVE SubscriptionsSurvive'
  BY <1>3
  DEF Unsubscribe, SubscriptionsSurvive, Settled, Active, Unsubscribed,
      LostWhenReplaced, Replacing, Type, TypeSubs, TypeSessions, TypeSteps,
      Sessions
<1>4. CASE UnsubscribeAnnounces
  BY <1>4
  DEF UnsubscribeAnnounces, SubscriptionsSurvive, Settled, Active, Unsubscribed,
      LostWhenReplaced, Replacing, Type, TypeSubs, TypeSessions, TypeSteps,
      Sessions
<1>5. CASE DisconnectCloses
  BY <1>5
  DEF DisconnectCloses, SubscriptionsSurvive, Settled, Active, Unsubscribed,
      LostWhenReplaced, Replacing, Type, TypeSubs, TypeSessions, TypeSteps,
      Sessions
<1>6. CASE LoopTop
  BY <1>6
  DEF LoopTop, SubscriptionsSurvive, Settled, Active, Unsubscribed,
      LostWhenReplaced, Replacing, Type, TypeSubs, TypeSessions, TypeSteps,
      Sessions
<1>7. CASE LoopStopped
  BY <1>7
  DEF LoopStopped, SubscriptionsSurvive, Settled, Active, Unsubscribed,
      LostWhenReplaced, Replacing, Type, TypeSubs, TypeSessions, TypeSteps,
      Sessions
<1>8. CASE LoopNoticesLoss
  BY <1>8
  DEF LoopNoticesLoss, SubscriptionsSurvive, Settled, Active, Unsubscribed,
      LostWhenReplaced, Replacing, Type, TypeSubs, TypeSessions, TypeSteps,
      Sessions
<1>9. CASE BackoffStopped
  BY <1>9
  DEF BackoffStopped, SubscriptionsSurvive, Settled, Active, Unsubscribed,
      LostWhenReplaced, Replacing, Type, TypeSubs, TypeSessions, TypeSteps,
      Sessions
<1>10. CASE StopKeepAlive
  BY <1>10
  DEF StopKeepAlive, SubscriptionsSurvive, Settled, Active, Unsubscribed,
      LostWhenReplaced, Replacing, Type, TypeSubs, TypeSessions, TypeSteps,
      Sessions
<1>11. CASE DropSession
  BY <1>11
  DEF DropSession, SubscriptionsSurvive, Settled, Active, Unsubscribed,
      LostWhenReplaced, Replacing, Type, TypeSubs, TypeSessions, TypeSteps,
      Sessions
<1>12. CASE LoopDials
  BY <1>12
  DEF LoopDials, SubscriptionsSurvive, Settled, Active, Unsubscribed,
      LostWhenReplaced, Replacing, Type, TypeSubs, TypeSessions, TypeSteps,
      Sessions
<1>13. CASE LoopConnected
  BY <1>13
  DEF LoopConnected, Handshake, SubscriptionsSurvive, Settled, Active,
      Unsubscribed, LostWhenReplaced, Replacing, Type, TypeSubs, TypeSessions,
      TypeSteps, Sessions
<1>14. CASE LoopRefused
  BY <1>14
  DEF LoopRefused, SubscriptionsSurvive, Settled, Active, Unsubscribed,
      LostWhenReplaced, Replacing, Type, TypeSubs, TypeSessions, TypeSteps,
      Sessions
<1>15. CASE Replay
  BY <1>15, Replayed DEF SubscriptionsSurvive, Active, Type, TypeSubs
<1>16. CASE Loss
  BY <1>16
  DEF Loss, SubscriptionsSurvive, Settled, Active, Unsubscribed,
      LostWhenReplaced, Replacing, Type, TypeSubs, TypeSessions, TypeSteps,
      Sessions
<1>17. CASE UNCHANGED <<loop, session, alive, ann, subs, strayed>>
  BY <1>17
  DEF SubscriptionsSurvive, Settled, Active, Unsubscribed, LostWhenReplaced,
      Replacing, Type, TypeSubs, TypeSessions, TypeSteps, Sessions
<1> QED
  BY <1>1, <1>2, <1>3, <1>4, <1>5, <1>6, <1>7, <1>8, <1>9, <1>10, <1>11, <1>12,
      <1>13, <1>14, <1>15, <1>16, <1>17
  DEF Next, Operator, Reconnecting, KeepingAlive, OpConnect, OpRefused,
      DisconnectNothing, DisconnectStopsLoop, DisconnectStopsKeepAlive,
      KeepAliveTick, KeepAliveLooks, KeepAliveLeaves, vars

LEMMA InitInv ==
  ASSUME Init
  PROVE  Inv
<1>1. Type
  <2>1. TypeSessions
    BY DEF Init, TypeSessions, Sessions
  <2>2. TypeSubs
    BY DEF Init, TypeSubs
  <2>3. TypeSteps
    BY DEF Init, TypeSteps, LoopSteps, OpSteps
  <2> QED BY <2>1, <2>2, <2>3 DEF Type
<1> QED
  BY <1>1
  DEF Init, Inv, Unsubscribed, Stopping, LostWhenReplaced, Replacing, LiveSessionsAreGuarded,
      SubscriptionsSurvive, Settled

(* The invariant holds for ever: what the theorems below follow from.      *)
THEOREM Invariance == Spec => []Inv
<1>1. Init => Inv
  BY InitInv
<1>2. Inv /\ [Next]_vars => Inv'
  <2> SUFFICES ASSUME Inv, [Next]_vars PROVE Inv'
    OBVIOUS
  <2>1. Type'
    BY TypeSessionsStep, TypeSubsStep, TypeStepsStep DEF Inv, Type
  <2>2. Unsubscribed' /\ Stopping' /\ LostWhenReplaced'
    BY UnsubscribedStep, StoppingStep, LostWhenReplacedStep DEF Inv
  <2>3. LiveSessionsAreGuarded' /\ SubscriptionsSurvive'
    BY LiveSessionsAreGuardedStep, SubscriptionsSurviveStep DEF Inv
  <2> QED BY <2>1, <2>2, <2>3 DEF Inv
<1> QED BY <1>1, <1>2, PTL DEF Spec

(* Every variable keeps its type (plugin.go:47-75).                        *)
THEOREM TypeCorrect == Spec => []TypeOK
<1>1. Inv => TypeOK
  BY DEF Inv, Type, TypeSessions, TypeSubs, TypeSteps, TypeOK
<1> QED BY <1>1, Invariance, PTL

(* However many sessions are lost, and whatever the operator does          *)
(* meanwhile, a session the loop watches carries the closure of every      *)
(* active subscription under the id that is on file, unless an Unsubscribe *)
(* removed another's (reconnect.go:183-190, plugin.go:622-637).            *)
THEOREM SubscriptionsSurviveAlways == Spec => []SubscriptionsSurvive
<1>1. Inv => SubscriptionsSurvive
  BY DEF Inv
<1> QED BY <1>1, Invariance, PTL

(* A live session that is not being disconnected is probed, and watched by *)
(* a loop that has not ended (plugin.go:304, 309, reconnect.go:59-94).     *)
THEOREM LiveSessionsAreGuardedAlways == Spec => []LiveSessionsAreGuarded
<1>1. Inv => LiveSessionsAreGuarded
  BY DEF Inv
<1> QED BY <1>1, Invariance, PTL

-----------------------------------------------------------------------------
(* The pool of message ids of the sessions the plugin opens (MtidPool),    *)
(* for any number of callers and ids: the ids on loan are exactly the ids  *)
(* marked, no id is lent twice, and the pool implements MtidLoans.         *)

(* A caller holds an id exactly between the scan and the release.          *)
HoldersCall == \A c \in Callers : got[c] # Nil <=> pc[c] = "call"

PoolInv == PoolTypeOK /\ HoldersCall /\ MarksAreLoans

LEMMA InitPool == PoolInit => PoolInv
  BY DEF PoolInit, PoolInv, PoolTypeOK, HoldersCall, MarksAreLoans, Steps,
         Allocating

(* A caller's own step.                                                    *)
LEMMA CallerPool ==
  ASSUME PoolInv, NEW c \in Callers, Caller(c)
  PROVE  PoolInv'
<1> USE DEF PoolInv, Goto
<1>1. CASE Begin(c) \/ Lock(c) \/ GiveUp(c) \/ CheckContext(c)
  BY <1>1 DEF Begin, Lock, GiveUp, CheckContext, PoolTypeOK, HoldersCall,
              MarksAreLoans, Steps, Allocating
<1>2. CASE Take(c)
  <2>1. PICK m \in FreeIds : /\ inUse' = inUse \cup {m}
                          /\ got' = [got EXCEPT ![c] = m]
    BY <1>2 DEF Take
  <2>2. m \in Mtids /\ m # Nil /\ m \notin inUse
    BY <2>1, NilAssumption DEF FreeIds
  <2>3. PoolTypeOK' /\ HoldersCall'
    BY <1>2, <2>1, <2>2 DEF Take, PoolTypeOK, HoldersCall, Steps
  <2>4. MarksAreLoans'
    <3> SUFFICES ASSUME closer = "up" PROVE MarksAreLoans'
      BY <1>2 DEF Take, MarksAreLoans
    <3>1. \A d \in Callers : /\ pc'[d] = "call" <=> pc[d] = "call" \/ d = c
                             /\ d # c => got'[d] = got[d]
      BY <1>2, <2>1 DEF Take, PoolTypeOK
    <3>2. got'[c] = m
      BY <2>1 DEF PoolTypeOK
    <3>3. \A d \in Callers : pc[d] = "call" => got[d] \in inUse /\ d # c
      BY <1>2 DEF MarksAreLoans, Take
    <3> QED BY <2>1, <2>2, <3>1, <3>2, <3>3 DEF MarksAreLoans
  <2> QED BY <2>3, <2>4
<1>3. CASE Wait(c)
  <2>1. parked' \in Seq(Callers)
    BY <1>3, AppendProperties DEF Wait, PoolTypeOK
  <2> QED BY <1>3, <2>1
          DEF Wait, PoolTypeOK, HoldersCall, MarksAreLoans, Steps, Allocating
<1>4. CASE Release(c)
  <2>1. PoolTypeOK' /\ HoldersCall'
    BY <1>4, NilAssumption DEF Release, PoolTypeOK, HoldersCall, Steps
  <2>2. MarksAreLoans'
    <3> SUFFICES ASSUME closer = "up" PROVE MarksAreLoans'
      BY <1>4 DEF Release, MarksAreLoans
    <3>1. \A d \in Callers : /\ pc'[d] = "call" <=> pc[d] = "call" /\ d # c
                             /\ d # c => got'[d] = got[d]
      BY <1>4 DEF Release, PoolTypeOK
    <3>2. \A d \in Callers : d # c /\ pc[d] = "call" => got[d] # got[c]
      BY <1>4 DEF Release, MarksAreLoans
    <3> QED BY <1>4, <3>1, <3>2 DEF Release, MarksAreLoans
  <2> QED BY <2>1, <2>2
<1>5. CASE Signal(c)
  <2>1. parked' \in Seq(Callers)
    BY <1>5, HeadTailProperties DEF Signal, PoolTypeOK
  <2> QED BY <1>5, <2>1
          DEF Signal, PoolTypeOK, HoldersCall, MarksAreLoans, Steps
<1> QED BY <1>1, <1>2, <1>3, <1>4, <1>5 DEF Caller

(* The steps of contexts, watchers and the teardown.                       *)
LEMMA OtherPool ==
  ASSUME PoolInv,
         \/ \E c \in Callers : \/ ContextEnds(c) \/ WatcherBroadcasts(c)
                               \/ WatcherLeaves(c)
         \/ Reset \/ CloseBroadcasts
         \/ UNCHANGED poolVars
  PROVE  PoolInv'
<1>1. <<>> \in Seq(Callers)
  BY EmptySeq
<1> QED BY <1>1
        DEF PoolInv, PoolTypeOK, HoldersCall, MarksAreLoans, ContextEnds,
            WatcherBroadcasts, WatcherLeaves, Reset, CloseBroadcasts, poolVars

(* The marks and the loans agree in every reachable state.                 *)
LEMMA PoolInvariant == PoolSpec => []PoolInv
<1>1. PoolInv /\ [PoolNext]_poolVars => PoolInv'
  BY CallerPool, OtherPool DEF PoolNext
<1> QED BY <1>1, InitPool, PTL DEF PoolSpec

(* The variables of the pool keep their types.                             *)
THEOREM PoolTypeCorrect == PoolSpec => []PoolTypeOK
<1>1. PoolInv => PoolTypeOK
  BY DEF PoolInv
<1> QED BY <1>1, PoolInvariant, PTL

(* While the session is up the ids marked in use are exactly those on      *)
(* loan, and no two calls hold one id, for any number of callers and ids.  *)
THEOREM MarksAreLoansAlways == PoolSpec => []MarksAreLoans
<1>1. PoolInv => MarksAreLoans
  BY DEF PoolInv
<1> QED BY <1>1, PoolInvariant, PTL

-----------------------------------------------------------------------------
(* Every step of the pool is a loan, a return, the cancellation of all     *)
(* loans, or nothing to the abstract specification.                        *)
LEMMA StepLoans ==
  ASSUME PoolInv, [PoolNext]_poolVars
  PROVE  [Loans!Next]_<<[c \in Callers |->
                           IF closer = "up" THEN got[c] ELSE Nil],
                        IF closer = "up" THEN Mtids \ inUse ELSE Mtids,
                        closer = "up">>
<1> DEFINE loan == [c \in Callers |-> IF closer = "up" THEN got[c] ELSE Nil]
           free == IF closer = "up" THEN Mtids \ inUse ELSE Mtids
           up == closer = "up"
<1>1. CASE UNCHANGED <<got, inUse, closer>>
  BY <1>1
<1>2. ASSUME NEW c \in Callers, Take(c)
      PROVE  Loans!Next \/ UNCHANGED <<loan, free, up>>
  <2>1. PICK m \in FreeIds : /\ inUse' = inUse \cup {m}
                          /\ got' = [got EXCEPT ![c] = m]
    BY <1>2 DEF Take
  <2>2. CASE closer # "up"
    BY <1>2, <2>2 DEF Take
  <2>3. CASE closer = "up"
    <3>1. loan = got /\ loan' = [loan EXCEPT ![c] = m] /\ up /\ UNCHANGED up
      BY <1>2, <2>1, <2>3 DEF Take, PoolInv, PoolTypeOK
    <3>2. loan[c] = Nil
      BY <1>2, <3>1 DEF Take, PoolInv, HoldersCall
    <3>3. m \in free /\ free' = free \ {m}
      BY <1>2, <2>1, <2>3 DEF Take, FreeIds
    <3>4. Loans!Lend(c)
      BY <2>3, <3>1, <3>2, <3>3 DEF Loans!Lend
    <3> QED BY <3>4 DEF Loans!Next
  <2> QED BY <2>2, <2>3
<1>3. ASSUME NEW c \in Callers, Release(c)
      PROVE  Loans!Next \/ UNCHANGED <<loan, free, up>>
  <2>1. CASE closer # "up"
    BY <1>3, <2>1 DEF Release
  <2>2. CASE closer = "up"
    <3>1. loan = got /\ loan' = [loan EXCEPT ![c] = Nil] /\ UNCHANGED up
      BY <1>3, <2>2 DEF Release, PoolInv, PoolTypeOK
    <3>2. loan[c] # Nil
      BY <1>3, <3>1 DEF Release, PoolInv, HoldersCall
    <3>3. got[c] \in Mtids
      BY <3>1, <3>2 DEF PoolInv, PoolTypeOK
    <3>4. free' = free \cup {loan[c]}
      BY <1>3, <2>2, <3>1, <3>3 DEF Release
    <3>5. Loans!Return(c)
      BY <3>1, <3>2, <3>4 DEF Loans!Return
    <3> QED BY <3>5 DEF Loans!Next
  <2> QED BY <2>1, <2>2
<1>4. CASE Reset
  <2>1. up /\ up' = FALSE /\ loan' = [c \in Callers |-> Nil] /\ free' = Mtids
    BY <1>4 DEF Reset
  <2> QED BY <2>1 DEF Loans!Next, Loans!Cancel
<1>5. CASE CloseBroadcasts
  BY <1>5 DEF CloseBroadcasts
<1>6. \/ UNCHANGED <<got, inUse, closer>>
      \/ \E c \in Callers : Take(c) \/ Release(c)
      \/ Reset \/ CloseBroadcasts
  BY DEF PoolNext, Caller, Begin, Lock, GiveUp, CheckContext, Wait, Signal,
         ContextEnds, WatcherBroadcasts, WatcherLeaves, poolVars
<1> QED BY <1>1, <1>2, <1>3, <1>4, <1>5, <1>6

(* The pool with its lock, condition variable and watchers implements the  *)
(* plain promise of MtidLoans.                                             *)
THEOREM PoolImplementsLoans == PoolSpec => ImplementsLoans
<1>1. PoolInit => Loans!Init
  BY DEF PoolInit, Loans!Init
<1> QED BY <1>1, StepLoans, PoolInvariant, PTL
        DEF PoolSpec, ImplementsLoans, Loans!Spec
=============================================================================
