------------------------ MODULE Acp2Session_proofs ------------------------
(***************************************************************************)
(* Proofs about Acp2Session, for any calls, probes, contexts and ids, as   *)
(* long as fewer than ProbeMtid calls are in flight at a time: the pool    *)
(* holds the id of the keep-alive probe as well, and hands it out when all *)
(* lower ones are taken.                                                   *)
(***************************************************************************)
EXTENDS Acp2Session, FiniteSetTheorems, TLAPS

InFlight == {c \in Calls : pc[c] \in Holding}
FewInFlight == IsFiniteSet(InFlight) /\ Cardinality(InFlight) < ProbeMtid

(* Which kind of id a call holds, and that the pool knows of it until it   *)
(* is reset.                                                               *)
IdOf(c) == IF c \in Calls THEN Mtids ELSE {ProbeMtid}
HoldersHaveIds == \A c \in Callers : pc[c] \in Holding => mtid[c] \in IdOf(c)
PoolLive == phase \in {"up", "down", "closing"}
HoldersAreMarked ==
  PoolLive => \A c \in Calls : pc[c] \in Holding => mtid[c] \in inUse
HoldersDiffer ==
  PoolLive => \A c, d \in Callers :
    c # d /\ pc[c] \in Holding /\ pc[d] \in Holding => mtid[c] # mtid[d]
ClosedIsDead == phase = "closed" => dead
RegisteredDrains ==
  dead /\ phase # "expired" =>
    \A c \in Callers : pc[c] \in {"registered", "waiting"} => chan[c] # "empty"

TableInv ==
  /\ HoldersHaveIds /\ HoldersAreMarked /\ HoldersDiffer
  /\ ClosedIsDead /\ WaitersInFlight /\ WaitersReachable /\ RegisteredDrains

-----------------------------------------------------------------------------
(* Whoever is under way has an id, and the wire only carries replies to    *)
(* requests of such calls: routeReply finds an id to look up.              *)
StartedHaveIds == \A c \in Callers : pc[c] # "idle" => mtid[c] \in Ids
AskedWereSent ==
  /\ answered \subseteq asked
  /\ \A c \in asked : pc[c] \in {"waiting", "unregister", "release", "done"}
WireAnswered == \A k \in 1 .. Len(wire) : wire[k] \in answered
TypeInv == TypeOK /\ StartedHaveIds /\ AskedWereSent /\ WireAnswered

LEMMA TypeInitially == Init => TypeInv
<1> SUFFICES ASSUME Init PROVE TypeInv
  OBVIOUS
<1>1. wire \in Seq(Callers) /\ WireAnswered
  BY DEF Init, WireAnswered
<1>2. pc \in [Callers -> Steps] /\ phase \in Phases
  BY DEF Init, Steps, Phases
<1>3. result \in [Callers -> Callers \cup Outcomes]
  BY DEF Init, Outcomes
<1>4. /\ mtid \in [Callers -> Ids \cup {None}]
      /\ waiters \in [Ids -> Callers \cup {None}]
      /\ chan \in [Callers -> Callers \cup {"empty", "sentinel"}]
  BY DEF Init
<1>5. StartedHaveIds /\ AskedWereSent
  BY DEF Init, StartedHaveIds, AskedWereSent
<1> QED BY <1>1, <1>2, <1>3, <1>4, <1>5 DEF Init, TypeOK, TypeInv

LEMMA TypeStep == ASSUME TypeInv, [Next]_vars PROVE TypeInv'
<1> USE DEF TypeInv, TypeOK, StartedHaveIds, AskedWereSent, WireAnswered, Steps, Phases, Outcomes,
            Ids, Callers
<1>1. CASE UNCHANGED vars
  BY <1>1 DEF vars
<1>2. ASSUME NEW c \in Calls, BeginCall(c) PROVE TypeInv'
  BY <1>2 DEF BeginCall, Lowest, Goto, network
<1>3. ASSUME NEW c \in Probes, BeginProbe(c) PROVE TypeInv'
  BY <1>3 DEF BeginProbe, Goto, network
<1>4. ASSUME NEW c \in Callers, Register(c) PROVE TypeInv'
  BY <1>4 DEF Register, Goto, Return, network
<1>5. ASSUME NEW c \in Callers, Send(c) PROVE TypeInv'
  BY <1>5 DEF Send, Goto, Return
<1>6. ASSUME NEW c \in Callers, Receive(c) PROVE TypeInv'
  BY <1>6 DEF Receive, Goto, Return, network
<1>7. ASSUME NEW c \in Callers, Timeout(c) PROVE TypeInv'
  BY <1>7 DEF Timeout, Goto, Return, network
<1>8. ASSUME NEW c \in Callers, Unregister(c) PROVE TypeInv'
  BY <1>8 DEF Unregister, Goto, network
<1>9. ASSUME NEW c \in Callers, Release(c) PROVE TypeInv'
  BY <1>9 DEF Release, Goto, network
<1>10. CASE Lookup
  <2>1. /\ wire' \in Seq(Callers)
        /\ \A k \in 1 .. Len(wire') : wire'[k] = wire[k + 1] /\ k + 1 \in 1 .. Len(wire)
    BY <1>10 DEF Lookup
  <2>2. Head(wire) \in Callers /\ mtid[Head(wire)] \in Ids
    <3>1. Head(wire) = wire[1] /\ 1 \in 1 .. Len(wire)
      BY <1>10 DEF Lookup
    <3> QED BY <3>1
  <2>3. routing' \in (Callers \X Callers) \cup {None}
    BY <1>10, <2>2 DEF Lookup
  <2> QED BY <1>10, <2>1, <2>3 DEF Lookup
<1>11. CASE Deliver
  <2>1. routing[1] \in Callers /\ routing[2] \in Callers
    BY <1>11 DEF Deliver
  <2> QED BY <1>11, <2>1 DEF Deliver, Fill, network
<1>12. CASE ReaderExits
  BY <1>12 DEF ReaderExits, Swept, Fill, network
<1>13. ASSUME NEW c \in Callers, Reply(c) PROVE TypeInv'
  BY <1>13 DEF Reply
<1>14. CASE HangUp \/ Disconnect \/ ResetPool
  BY <1>14 DEF HangUp, Disconnect, ResetPool
<1> HIDE DEF TypeInv, TypeOK, StartedHaveIds, AskedWereSent, WireAnswered, Steps, Phases,
             Outcomes, Ids, Callers
<1> QED
  BY <1>1, <1>2, <1>3, <1>4, <1>5, <1>6, <1>7, <1>8, <1>9, <1>10, <1>11,
     <1>12, <1>13, <1>14 DEF Next, Proceed

THEOREM TypeInvariant == Spec => []TypeInv
<1>1. TypeInv /\ [Next]_vars => TypeInv'
  BY TypeStep
<1> QED BY <1>1, TypeInitially, PTL DEF Spec

(* Every variable keeps its type.                                          *)
THEOREM TypeCorrect == Spec => []TypeOK
<1>1. TypeInv => TypeOK
  BY DEF TypeInv
<1> QED BY <1>1, TypeInvariant, PTL

-----------------------------------------------------------------------------
(* The pool marks nothing but the ids of calls in flight, and no call gets *)
(* the probe's: by then ProbeMtid calls would hold an id each.             *)
MarksAreHeld == inUse \subseteq {mtid[c] : c \in InFlight}
ProbeApart == \A c \in InFlight : mtid[c] # ProbeMtid
ApartInv == MarksAreHeld /\ ProbeApart

LEMMA LowestIsLow ==
  ASSUME TypeInv, MarksAreHeld, FewInFlight', NEW c \in Calls, BeginCall(c)
  PROVE  mtid'[c] # ProbeMtid
<1> DEFINE T == InFlight'
<1>1. /\ pc[c] = "idle" /\ pc' = [pc EXCEPT ![c] = "numbered"]
      /\ mtid'[c] \in Lowest(inUse)
      /\ \A d \in Calls \ {c} : mtid'[d] = mtid[d]
  BY DEF BeginCall, Goto, TypeInv, TypeOK, Callers
<1>2. T = InFlight \cup {c}
  BY <1>1 DEF InFlight, Holding, TypeInv, TypeOK, Callers
<1> SUFFICES ASSUME mtid'[c] = ProbeMtid PROVE FALSE
  OBVIOUS
<1>3. ASSUME NEW i \in 1 .. ProbeMtid - 1 PROVE i \in inUse
  BY <1>1, <1>3, MtidsAssumption DEF Lowest
<1>4. c \notin InFlight
  BY <1>1 DEF InFlight, Holding, InTable
<1>5. ASSUME NEW i \in 1 .. ProbeMtid PROVE \E d \in T : mtid'[d] = i
  <2>1. CASE i = ProbeMtid
    BY <1>2, <2>1
  <2>2. CASE i # ProbeMtid
    <3>1. i \in inUse
      BY <1>3, <2>2, MtidsAssumption
    <3>2. PICK d \in InFlight : mtid[d] = i
      BY <3>1 DEF MarksAreHeld
    <3>3. d \in Calls \ {c}
      BY <1>4 DEF InFlight
    <3> QED BY <1>1, <1>2, <3>2, <3>3
  <2> QED BY <2>1, <2>2
<1> DEFINE S == 1 .. ProbeMtid
           f == [i \in S |-> CHOOSE d \in T : mtid'[d] = i]
<1>6. f \in [S -> T] /\ \A i \in S : mtid'[f[i]] = i
  BY <1>5
<1>7. IsFiniteSet(S) /\ Cardinality(S) = ProbeMtid
  BY FS_Interval, MtidsAssumption
<1>8. IsFiniteSet(T) /\ Cardinality(T) < Cardinality(S)
  BY <1>7 DEF FewInFlight
<1> HIDE DEF S, T, f
<1>9. \E x, y \in S : x # y /\ f[x] = f[y]
  BY <1>6, <1>7, <1>8, FS_PigeonHole
<1> QED BY <1>6, <1>9

LEMMA ApartStep ==
  ASSUME TypeInv, FewInFlight', ApartInv, [Next]_vars
  PROVE  ApartInv'
<1> USE CallersAssumption
<1> USE DEF ApartInv, MarksAreHeld, ProbeApart, InFlight, Holding, InTable,
            Callers, TypeInv, TypeOK
<1>1. ASSUME NEW c \in Calls, BeginCall(c) PROVE ApartInv'
  <2>1. mtid'[c] # ProbeMtid
    BY <1>1, LowestIsLow
  <2>2. /\ pc[c] = "idle" /\ pc' = [pc EXCEPT ![c] = "numbered"]
        /\ inUse' = inUse \cup {mtid'[c]}
        /\ \A d \in Calls \ {c} : mtid'[d] = mtid[d]
    BY <1>1 DEF BeginCall, Goto
  <2>3. InFlight' = InFlight \cup {c} /\ c \notin InFlight
    BY <2>2
  <2> QED BY <2>1, <2>2, <2>3
<1>2. ASSUME NEW c \in Probes, BeginProbe(c) PROVE ApartInv'
  BY <1>2 DEF BeginProbe, Goto
<1>3. ASSUME NEW c \in Callers, Release(c) PROVE ApartInv'
  BY <1>3 DEF Release, Goto
<1>4. ASSUME NEW c \in Callers,
             Register(c) \/ Send(c) \/ Receive(c) \/ Unregister(c) \/ Timeout(c)
      PROVE  ApartInv'
  <2>1. /\ mtid' = mtid /\ inUse' = inUse
        /\ InFlight' = InFlight
    BY <1>4 DEF Register, Send, Receive, Unregister, Timeout, Goto, Return
  <2> QED BY <2>1
<1>5. CASE \/ \E c \in Callers : Reply(c)
           \/ Lookup \/ Deliver \/ ReaderExits \/ HangUp \/ Disconnect \/ ResetPool
           \/ UNCHANGED vars
  BY <1>5 DEF Reply, Lookup, Deliver, ReaderExits, HangUp, Disconnect, ResetPool,
              vars
<1> HIDE DEF ApartInv, MarksAreHeld, ProbeApart, InFlight, Holding, InTable,
             Callers, TypeInv, TypeOK
<1> QED BY <1>1, <1>2, <1>3, <1>4, <1>5 DEF Next, Proceed

(* While fewer than ProbeMtid calls are in flight, no call is given the    *)
(* id of the keep-alive probe.                                             *)
THEOREM ProbesAreApart == Spec /\ []FewInFlight => []ProbeApart
<1>1. Init => ApartInv
  BY DEF Init, ApartInv, MarksAreHeld, ProbeApart, InFlight, Holding, InTable,
         Callers
<1>2. TypeInv /\ FewInFlight' /\ ApartInv /\ [Next]_vars => ApartInv'
  BY ApartStep
<1>3. ApartInv => ProbeApart
  BY DEF ApartInv
<1> QED BY <1>1, <1>2, <1>3, TypeInvariant, PTL DEF Spec

-----------------------------------------------------------------------------
LEMMA TableInitially == Init => TableInv
BY TypeInitially, CallersAssumption, NoneAssumption
   DEF Init, TableInv, HoldersHaveIds, HoldersAreMarked,
       HoldersDiffer, ClosedIsDead, WaitersInFlight, WaitersReachable, RegisteredDrains,
       Holding, InTable, Ids, PoolLive, TypeInv, Callers

LEMMA TableStep ==
  ASSUME ProbeApart', TypeInv, TypeInv', TableInv, [Next]_vars
  PROVE  TableInv'
<1> USE CallersAssumption, NoneAssumption, OutcomesAssumption
<1> USE DEF TableInv, HoldersHaveIds, HoldersAreMarked, HoldersDiffer, ClosedIsDead,
            WaitersInFlight, WaitersReachable, RegisteredDrains, Holding, InTable,
            PoolLive, IdOf, Callers, ProbeApart, InFlight
<1>1. CASE UNCHANGED vars
  BY <1>1 DEF vars
<1>2. ASSUME NEW c \in Calls, BeginCall(c) PROVE TableInv'
  BY <1>2 DEF BeginCall, Lowest, Goto, network, TypeInv, TypeOK
<1>3. ASSUME NEW c \in Probes, BeginProbe(c) PROVE TableInv'
  BY <1>3 DEF BeginProbe, Goto, network, TypeInv, TypeOK
<1>4. ASSUME NEW c \in Callers, Register(c) PROVE TableInv'
  <2>1. CASE dead
    BY <1>4, <2>1 DEF Register, Goto, Return, network, TypeInv, TypeOK
  <2>2. CASE ~dead
    <3>1. /\ waiters' = [waiters EXCEPT ![mtid[c]] = c]
          /\ pc' = [pc EXCEPT ![c] = "registered"]
          /\ mtid[c] \in Ids
          /\ UNCHANGED <<mtid, chan, inUse, dead, phase>>
      BY <1>4, <2>2 DEF Register, Goto, network, TypeInv, StartedHaveIds
    <3>2. PoolLive \/ phase = "expired"
      BY <2>2 DEF TypeInv, TypeOK, Phases
    <3>3. HoldersHaveIds' /\ HoldersAreMarked' /\ HoldersDiffer' /\ ClosedIsDead'
      BY <1>4, <3>1 DEF Register, TypeInv, TypeOK
    <3>4. WaitersInFlight'
      BY <1>4, <3>1 DEF Register, TypeInv, TypeOK
    <3>5. WaitersReachable'
      BY <1>4, <3>1, <3>2 DEF Register, TypeInv, TypeOK
    <3>6. RegisteredDrains'
      BY <2>2, <3>1
    <3> QED BY <3>3, <3>4, <3>5, <3>6
  <2> QED BY <2>1, <2>2
<1>5. ASSUME NEW c \in Callers, Send(c) PROVE TableInv'
  BY <1>5 DEF Send, Goto, Return, TypeInv, TypeOK
<1>6. ASSUME NEW c \in Callers, Receive(c) PROVE TableInv'
  BY <1>6 DEF Receive, Goto, Return, network, TypeInv, TypeOK
<1>7. ASSUME NEW c \in Callers, Timeout(c) PROVE TableInv'
  BY <1>7 DEF Timeout, Goto, Return, network, TypeInv, TypeOK
<1>8. ASSUME NEW c \in Callers, Unregister(c) PROVE TableInv'
  BY <1>8 DEF Unregister, Goto, network, TypeInv, TypeOK, Ids
<1>9. ASSUME NEW c \in Callers, Release(c) PROVE TableInv'
  BY <1>9 DEF Release, Goto, network, TypeInv, TypeOK
<1>10. CASE Lookup
  BY <1>10 DEF Lookup
<1>11. CASE Deliver
  BY <1>11 DEF Deliver, Fill, network, TypeInv, TypeOK
<1>12. CASE ReaderExits
  BY <1>12 DEF ReaderExits, Swept, Fill, InWaiters, network, TypeInv, TypeOK, Ids
<1>13. ASSUME NEW c \in Callers, Reply(c) PROVE TableInv'
  BY <1>13 DEF Reply
<1>14. CASE HangUp \/ Disconnect \/ ResetPool
  BY <1>14 DEF HangUp, Disconnect, ResetPool
<1> HIDE DEF TableInv, HoldersHaveIds, HoldersAreMarked, HoldersDiffer, ClosedIsDead,
             WaitersInFlight, WaitersReachable, RegisteredDrains, Holding, InTable,
             PoolLive, IdOf, Callers, ProbeApart, InFlight
<1> QED
  BY <1>1, <1>2, <1>3, <1>4, <1>5, <1>6, <1>7, <1>8, <1>9, <1>10, <1>11,
     <1>12, <1>13, <1>14 DEF Next, Proceed

THEOREM TableSound == Spec /\ []FewInFlight => []TableInv
<1>1. ProbeApart' /\ TypeInv /\ TypeInv' /\ TableInv /\ [Next]_vars => TableInv'
  BY TableStep
<1> QED BY <1>1, TableInitially, TypeInvariant, ProbesAreApart, PTL DEF Spec

(* A registered call can be reached under its id, whatever else begins,    *)
(* times out, unregisters or is torn down.                                 *)
THEOREM WaitersReachableAlways ==
  Spec /\ []FewInFlight => []WaitersReachable
<1>1. TableInv => WaitersReachable
  BY DEF TableInv
<1> QED BY <1>1, TableSound, PTL

(* No entry of the table outlives its call.                                *)
THEOREM WaitersInFlightAlways ==
  Spec /\ []FewInFlight => []WaitersInFlight
<1>1. TableInv => WaitersInFlight
  BY DEF TableInv
<1> QED BY <1>1, TableSound, PTL

(* Nobody waits on a dead session for a value that will not come.          *)
THEOREM DeadSessionDrainsAlways ==
  Spec /\ []FewInFlight => []DeadSessionDrains
<1>1. TableInv => DeadSessionDrains
  BY DEF TableInv, RegisteredDrains, DeadSessionDrains
<1> QED BY <1>1, TableSound, PTL

-----------------------------------------------------------------------------
(* A reply is in one place at a time: the receive buffer, the reader's     *)
(* hands, one channel, or with the call that took it.                      *)
Left(d) == pc[d] \in {"release", "done"}
From(d, c) == d \in answered /\ mtid[d] = mtid[c] /\ (d # c => Left(d))
IdleIsBlank ==
  \A c \in Callers : pc[c] = "idle" =>
    /\ mtid[c] = None /\ chan[c] = "empty" /\ result[c] = "none"
    /\ routing # None => routing[2] # c
WireIsFresh ==
  \A k \in 1 .. Len(wire) :
    /\ \A l \in 1 .. Len(wire) : wire[k] = wire[l] => k = l
    /\ routing # None => routing[1] # wire[k]
    /\ \A c \in Callers : chan[c] # wire[k] /\ result[c] # wire[k]
RoutedIsFresh ==
  routing # None =>
    /\ From(routing[1], routing[2])
    /\ \A c \in Callers : chan[c] # routing[1] /\ result[c] # routing[1]
ChannelIsFresh ==
  \A c, d \in Callers : chan[c] = d =>
    /\ From(d, c)
    /\ \A e \in Callers : result[e] # d /\ (chan[e] = d => e = c)
ResultIsOnce ==
  \A c, d \in Callers : result[c] = d =>
    /\ From(d, c)
    /\ \A e \in Callers : result[e] = d => e = c
(* While the connection has not been closed here, the reply of a call that *)
(* waits is on its way or in its channel, and no nil came before it.       *)
AnsweredIsComing ==
  ~dead /\ phase \in {"up", "down"} =>
    \A c \in answered : pc[c] = "waiting" =>
      \/ \E k \in 1 .. Len(wire) : wire[k] = c
      \/ routing # None /\ routing = <<c, c>>
      \/ chan[c] # "empty"
NilIsLast ==
  \A c \in Callers : chan[c] = "sentinel" =>
    /\ dead
    /\ phase \in {"up", "down"} /\ pc[c] \in {"registered", "waiting"} =>
         c \notin answered
ClosedMeansDead == \A c \in Callers : result[c] = "closed" => dead

ReplyInv ==
  /\ IdleIsBlank /\ WireIsFresh /\ RoutedIsFresh /\ ChannelIsFresh /\ ResultIsOnce
  /\ AnsweredIsComing /\ NilIsLast /\ ClosedMeansDead /\ RepliesBeatHangUps

LEMMA ReplyInitially == Init => ReplyInv
<1> SUFFICES ASSUME Init PROVE ReplyInv
  OBVIOUS
<1>1. Len(wire) = 0
  BY DEF Init
<1> QED
  BY <1>1, OutcomesAssumption
     DEF Init, ReplyInv, IdleIsBlank, WireIsFresh, RoutedIsFresh, ChannelIsFresh,
         ResultIsOnce, AnsweredIsComing, NilIsLast, ClosedMeansDead, RepliesBeatHangUps, Outcomes

LEMMA ReplyStep ==
  ASSUME TypeInv, TypeInv', TableInv, ReplyInv, [Next]_vars
  PROVE  ReplyInv'
<1> USE NoneAssumption, OutcomesAssumption
<1> USE DEF ReplyInv, IdleIsBlank, WireIsFresh, RoutedIsFresh, ChannelIsFresh, ResultIsOnce,
            AnsweredIsComing, NilIsLast, ClosedMeansDead, RepliesBeatHangUps, From, Left, TypeInv, TypeOK,
            StartedHaveIds, AskedWereSent, WireAnswered, Outcomes
<1>1. CASE UNCHANGED vars
  BY <1>1 DEF vars
<1>2. ASSUME NEW c \in Calls, BeginCall(c) PROVE ReplyInv'
  BY <1>2 DEF BeginCall, Lowest, Goto, network, Callers
<1>3. ASSUME NEW c \in Probes, BeginProbe(c) PROVE ReplyInv'
  BY <1>3 DEF BeginProbe, Goto, network, Callers
<1>4. ASSUME NEW c \in Callers, Register(c) PROVE ReplyInv'
  BY <1>4 DEF Register, Goto, Return, network
<1>5. ASSUME NEW c \in Callers, Send(c) PROVE ReplyInv'
  <2>1. /\ UNCHANGED <<mtid, chan, dead, routing, wire, answered, phase>>
        /\ pc[c] = "registered" /\ c \notin answered
    BY <1>5 DEF Send
  <2>2. CASE pc' = [pc EXCEPT ![c] = "waiting"] /\ UNCHANGED result
    BY <2>1, <2>2
  <2>3. CASE /\ pc' = [pc EXCEPT ![c] = "unregister"]
             /\ result' = [result EXCEPT ![c] = "failed"]
    BY <2>1, <2>3
  <2> QED BY <1>5, <2>2, <2>3 DEF Send, Goto, Return
<1>6. ASSUME NEW c \in Callers, Receive(c) PROVE ReplyInv'
  BY <1>6 DEF Receive, Goto, Return, network
<1>7. ASSUME NEW c \in Callers, Timeout(c) PROVE ReplyInv'
  BY <1>7 DEF Timeout, Goto, Return, network
<1>8. ASSUME NEW c \in Callers, Unregister(c) PROVE ReplyInv'
  BY <1>8 DEF Unregister, Goto, network
<1>9. ASSUME NEW c \in Callers, Release(c) PROVE ReplyInv'
  BY <1>9 DEF Release, Goto, network
<1>10. CASE Lookup
  <2> DEFINE h == wire[1]
             to == waiters[mtid[h]]
  <2>1. /\ 1 \in 1 .. Len(wire) /\ h = Head(wire)
        /\ Len(wire') = Len(wire) - 1
        /\ \A k \in 1 .. Len(wire') : wire'[k] = wire[k + 1] /\ k + 1 \in 2 .. Len(wire)
        /\ \A k \in 2 .. Len(wire) : wire[k] = wire'[k - 1] /\ k - 1 \in 1 .. Len(wire')
    BY <1>10 DEF Lookup
  <2>2. h \in answered /\ h \in Callers /\ mtid[h] \in Ids
    BY <2>1
  <2>3. routing' = (IF to = None THEN None ELSE <<h, to>>)
    BY <1>10, <2>1 DEF Lookup
  <2>4. to # None => to \in Callers /\ mtid[to] = mtid[h] /\ pc[to] \in InTable
    BY <2>2 DEF TableInv, WaitersInFlight
  <2>5. pc[h] \in InTable => to = h
    BY <1>10, <2>2 DEF TableInv, WaitersReachable, Lookup
  <2>6. UNCHANGED <<pc, mtid, chan, result, dead, answered, phase>> /\ routing = None
    BY <1>10 DEF Lookup
  <2>7. WireIsFresh'
    <3> SUFFICES ASSUME NEW k \in 1 .. Len(wire')
                 PROVE  /\ \A l \in 1 .. Len(wire') : wire'[k] = wire'[l] => k = l
                        /\ routing' # None => routing'[1] # wire'[k]
                        /\ \A c \in Callers : chan[c] # wire'[k] /\ result[c] # wire'[k]
      BY <2>6
    <3>1. k + 1 \in 1 .. Len(wire) /\ wire'[k] = wire[k + 1] /\ wire[k + 1] # h
      <4>1. Len(wire) \in Nat /\ k \in Nat /\ k + 1 # 1 /\ k + 1 \in 1 .. Len(wire)
        BY <2>1
      <4>2. wire'[k] = wire[k + 1]
        BY <2>1
      <4>3. wire[k + 1] = wire[1] => k + 1 = 1
        BY <4>1, <2>1 DEF ReplyInv, WireIsFresh
      <4> QED BY <4>1, <4>2, <4>3
    <3>2. \A l \in 1 .. Len(wire') : wire'[k] = wire'[l] => k = l
      <4> SUFFICES ASSUME NEW l \in 1 .. Len(wire'), wire'[k] = wire'[l] PROVE k = l
        OBVIOUS
      <4>1. l + 1 \in 1 .. Len(wire) /\ wire[l + 1] = wire[k + 1]
        BY <2>1
      <4>2. k + 1 = l + 1
        BY <3>1, <4>1 DEF ReplyInv, WireIsFresh
      <4> QED BY <4>2
    <3> QED BY <2>3, <3>1, <3>2
  <2>8. RoutedIsFresh'
    <3>1. pc[h] \notin InTable => Left(h)
      BY <2>2 DEF InTable
    <3>2. \A c \in Callers : chan[c] # h /\ result[c] # h
      BY <2>1
    <3> QED BY <2>2, <2>3, <2>4, <2>5, <2>6, <3>1, <3>2
  <2>9. IdleIsBlank'
    BY <2>3, <2>4, <2>6 DEF InTable
  <2>10. AnsweredIsComing'
    <3> SUFFICES ASSUME ~dead, phase \in {"up", "down"}, NEW c \in answered, pc[c] = "waiting"
                 PROVE  \/ \E k \in 1 .. Len(wire') : wire'[k] = c
                        \/ routing' # None /\ routing' = <<c, c>>
                        \/ chan[c] # "empty"
      BY <2>6
    <3>1. CASE c = h
      <4>1. to = h /\ h # None
        BY <3>1, <2>2, <2>5 DEF InTable
      <4>2. <<h, h>> # None
        BY <2>2
      <4> QED BY <3>1, <4>1, <4>2, <2>3
    <3>2. CASE c # h
      <4>1. \/ \E k \in 1 .. Len(wire) : wire[k] = c
            \/ chan[c] # "empty"
        BY <2>6
      <4>2. ASSUME NEW k \in 1 .. Len(wire), wire[k] = c
            PROVE  k - 1 \in 1 .. Len(wire') /\ wire'[k - 1] = c
        BY <4>2, <3>2, <2>1
      <4> QED BY <4>1, <4>2
    <3> QED BY <3>1, <3>2
  <2> QED BY <2>6, <2>7, <2>8, <2>9, <2>10
<1>11. CASE Deliver
  BY <1>11 DEF Deliver, Fill, network
<1>12. CASE ReaderExits
  <2>1. /\ UNCHANGED <<pc, mtid, result, wire, routing, answered, phase>>
        /\ routing = None /\ ~dead /\ dead'
        /\ wire = <<>> \/ phase \notin {"up", "down"}
    BY <1>12 DEF ReaderExits, network
  <2>2. \A c \in Callers : \/ chan'[c] = chan[c]
                          \/ /\ chan[c] = "empty" /\ chan'[c] = "sentinel"
                             /\ pc[c] \in InTable
    BY <1>12 DEF ReaderExits, Swept, Fill, InWaiters, TableInv, WaitersInFlight
  <2>3. \A c, d \in Callers : chan'[c] = d => chan[c] = d
    BY <2>2
  <2>4. NilIsLast'
    <3> SUFFICES ASSUME NEW c \in Callers, chan'[c] = "sentinel", phase \in {"up", "down"},
                        pc[c] \in {"registered", "waiting"}, c \in answered
                 PROVE  FALSE
      BY <2>1
    <3>1. chan[c] = "empty"
      BY <2>1, <2>2
    <3>2. pc[c] = "waiting"
      OBVIOUS
    <3>3. Len(wire) = 0
      BY <2>1
    <3> QED BY <2>1, <3>1, <3>2, <3>3
  <2>5. IdleIsBlank'
    BY <2>1, <2>2 DEF InTable
  <2>6. WireIsFresh'
    <3>1. \A k \in 1 .. Len(wire) : wire[k] \in Callers
      OBVIOUS
    <3> QED BY <2>1, <2>3, <3>1
  <2>7. ChannelIsFresh'
    BY <2>1, <2>3
  <2> QED BY <2>1, <2>4, <2>5, <2>6, <2>7
<1>13. ASSUME NEW c \in Callers, Reply(c) PROVE ReplyInv'
  <2>1. /\ UNCHANGED <<pc, mtid, chan, result, dead, routing, phase>>
        /\ answered' = answered \cup {c} /\ c \notin answered /\ ~dead
    BY <1>13 DEF Reply
  <2>2. /\ Len(wire') = Len(wire) + 1 /\ wire'[Len(wire) + 1] = c
        /\ \A k \in 1 .. Len(wire) : wire'[k] = wire[k] /\ k \in 1 .. Len(wire')
        /\ \A k \in 1 .. Len(wire') : k \in 1 .. Len(wire) \/ k = Len(wire) + 1
    BY <1>13 DEF Reply
  <2>3. /\ routing # None => routing[1] # c
        /\ \A e \in Callers : chan[e] # c /\ result[e] # c
        /\ \A k \in 1 .. Len(wire) : wire[k] # c
    BY <2>1
  <2>4. WireIsFresh'
    <3> SUFFICES ASSUME NEW k \in 1 .. Len(wire')
                 PROVE  /\ \A l \in 1 .. Len(wire') : wire'[k] = wire'[l] => k = l
                        /\ routing # None => routing[1] # wire'[k]
                        /\ \A e \in Callers : chan[e] # wire'[k] /\ result[e] # wire'[k]
      BY <2>1
    <3>1. CASE k \in 1 .. Len(wire)
      <4>1. wire'[k] = wire[k] /\ wire[k] # c
        BY <2>2, <2>3, <3>1
      <4>2. ASSUME NEW l \in 1 .. Len(wire'), wire'[k] = wire'[l]
            PROVE  k = l
        BY <4>1, <4>2, <3>1, <2>2
      <4> QED BY <4>1, <4>2, <3>1
    <3>2. CASE k = Len(wire) + 1
      <4>1. \A l \in 1 .. Len(wire') : wire'[k] = wire'[l] => k = l
        BY <2>2, <2>3, <3>2
      <4> QED BY <2>2, <2>3, <3>2, <4>1
    <3> QED BY <2>2, <3>1, <3>2
  <2>5. AnsweredIsComing'
    <3>1. Len(wire) + 1 \in 1 .. Len(wire')
      BY <2>2
    <3> QED BY <2>1, <2>2, <3>1
  <2>6. NilIsLast' /\ RepliesBeatHangUps'
    <3>1. pc[c] \in {"waiting", "unregister", "release", "done"}
      BY <1>13 DEF Reply
    <3>2. result[c] # "closed" \/ phase \notin {"up", "down"}
      BY <2>1, <1>13, <3>1 DEF Reply
    <3> QED BY <2>1, <3>2
  <2> QED BY <2>1, <2>4, <2>5, <2>6
<1>14. CASE HangUp \/ Disconnect \/ ResetPool
  BY <1>14 DEF HangUp, Disconnect, ResetPool
<1> HIDE DEF ReplyInv, IdleIsBlank, WireIsFresh, RoutedIsFresh, ChannelIsFresh, ResultIsOnce,
            AnsweredIsComing, NilIsLast, ClosedMeansDead, RepliesBeatHangUps, From, Left, TypeInv, TypeOK,
            StartedHaveIds, AskedWereSent, WireAnswered, Outcomes
<1> QED
  BY <1>1, <1>2, <1>3, <1>4, <1>5, <1>6, <1>7, <1>8, <1>9, <1>10, <1>11,
     <1>12, <1>13, <1>14 DEF Next, Proceed

THEOREM RepliesSound == Spec /\ []FewInFlight => []ReplyInv
<1>1. TypeInv /\ TypeInv' /\ TableInv /\ ReplyInv /\ [Next]_vars => ReplyInv'
  BY ReplyStep
<1> QED BY <1>1, ReplyInitially, TableSound, TypeInvariant, PTL DEF Spec

(* A call can only be given another's reply when that other call held the  *)
(* same id and has left without its reply.                                 *)
THEOREM MixupsNeedAnAbandonedCallAlways ==
  Spec /\ []FewInFlight => []MixupsNeedAnAbandonedCall
<1>1. ReplyInv /\ TypeInv => MixupsNeedAnAbandonedCall
  BY DEF ReplyInv, ResultIsOnce, From, Left, MixupsNeedAnAbandonedCall, TypeInv, TypeOK
<1> QED BY <1>1, RepliesSound, TypeInvariant, PTL

(* A reply that arrived is never reported as a lost connection while the   *)
(* connection was not closed on this side.                                 *)
THEOREM RepliesBeatHangUpsAlways ==
  Spec /\ []FewInFlight => []RepliesBeatHangUps
<1>1. ReplyInv => RepliesBeatHangUps
  BY DEF ReplyInv
<1> QED BY <1>1, RepliesSound, PTL

-----------------------------------------------------------------------------
(* Without contexts that end, a request that was sent is only left with    *)
(* its reply, or because the session died.                                 *)
NothingAbandoned ==
  \A c \in asked : pc[c] \in {"unregister", "release", "done"} =>
    result[c] = c \/ dead
OwnInv ==
  /\ OwnReply /\ NothingAbandoned
  /\ \A c \in Callers : chan[c] \in Callers => chan[c] = c
  /\ routing # None => routing[1] = routing[2]

(* When no context ends, every reply reaches the call that asked for it:   *)
(* the mix-ups of OwnReply need a timeout.                                 *)
THEOREM OwnReplyWithoutTimeouts ==
  ASSUME Impatient = {} PROVE Spec /\ []FewInFlight => []OwnReply
<1>1. Init => OwnInv
  BY OutcomesAssumption DEF Init, OwnInv, OwnReply, NothingAbandoned, Outcomes
<1>2. ASSUME TypeInv, TableInv, ReplyInv, OwnInv, [Next]_vars PROVE OwnInv'
  <2> USE <1>2, OutcomesAssumption, NoneAssumption
  <2> USE DEF TypeInv, TypeOK, AskedWereSent, OwnInv, OwnReply, NothingAbandoned, Outcomes
  <2>1. CASE UNCHANGED vars
    BY <2>1 DEF vars
  <2>2. ASSUME NEW c \in Calls, BeginCall(c) PROVE OwnInv'
    BY <2>2 DEF BeginCall, Goto, network, Callers
  <2>3. ASSUME NEW c \in Probes, BeginProbe(c) PROVE OwnInv'
    BY <2>3 DEF BeginProbe, Goto, network, Callers
  <2>4. ASSUME NEW c \in Callers, Register(c) PROVE OwnInv'
    BY <2>4 DEF Register, Goto, Return, network
  <2>5. ASSUME NEW c \in Callers, Send(c) PROVE OwnInv'
    BY <2>5 DEF Send, Goto, Return
  <2>6. ASSUME NEW c \in Callers, Receive(c) PROVE OwnInv'
    BY <2>6 DEF Receive, Goto, Return, network, ReplyInv, NilIsLast
  <2>7. ASSUME NEW c \in Callers, Timeout(c) PROVE OwnInv'
    BY <2>7, Impatient = {} DEF Timeout
  <2>8. ASSUME NEW c \in Callers, Unregister(c) \/ Release(c) PROVE OwnInv'
    BY <2>8 DEF Unregister, Release, Goto, network
  <2>9. CASE Lookup
    <3>1. /\ 1 \in 1 .. Len(wire) /\ Head(wire) = wire[1]
          /\ ~dead /\ phase # "expired"
      BY <2>9 DEF Lookup
    <3>2. wire[1] \in asked /\ wire[1] \in Callers /\ result[wire[1]] # wire[1]
      BY <3>1 DEF WireAnswered, ReplyInv, WireIsFresh
    <3>3. pc[wire[1]] \in InTable
      BY <3>1, <3>2 DEF InTable
    <3>4. waiters[mtid[wire[1]]] = wire[1]
      BY <3>1, <3>2, <3>3 DEF TableInv, WaitersReachable
    <3> QED BY <2>9, <3>1, <3>2, <3>4 DEF Lookup
  <2>10. CASE Deliver
    BY <2>10 DEF Deliver, Fill, network
  <2>11. CASE ReaderExits
    BY <2>11 DEF ReaderExits, Swept, Fill, network
  <2>12. ASSUME NEW c \in Callers, Reply(c) PROVE OwnInv'
    BY <2>12 DEF Reply
  <2>13. CASE HangUp \/ Disconnect \/ ResetPool
    BY <2>13 DEF HangUp, Disconnect, ResetPool
  <2> HIDE DEF TypeInv, TypeOK, AskedWereSent, OwnInv, OwnReply, NothingAbandoned, Outcomes
  <2> QED
    BY <2>1, <2>2, <2>3, <2>4, <2>5, <2>6, <2>7, <2>8, <2>9, <2>10, <2>11,
       <2>12, <2>13 DEF Next, Proceed
<1>3. OwnInv => OwnReply
  BY DEF OwnInv
<1>4. TypeInv /\ TableInv /\ ReplyInv /\ OwnInv /\ [Next]_vars => OwnInv'
  BY <1>2
<1> QED BY <1>1, <1>3, <1>4, TypeInvariant, TableSound, RepliesSound, PTL DEF Spec
-----------------------------------------------------------------------------
(* The pool as the session uses it: until it is reset, a call that is in   *)
(* flight has its id on loan, and every other id is free.                  *)
loan == [c \in Calls |-> IF PoolLive /\ c \in InFlight THEN mtid[c] ELSE None]
free == IF PoolLive THEN Mtids \ inUse ELSE Mtids
Loans == INSTANCE MtidLoans WITH Callers <- Calls, Nil <- None, up <- PoolLive
LoansNext == [Loans!Next]_<<loan, free, PoolLive>>

LoansAreMarked == PoolLive => \A c \in InFlight : mtid[c] \in inUse
LoansDiffer ==
  PoolLive => \A c, d \in InFlight : c # d => mtid[c] # mtid[d]
LoansInv == LoansAreMarked /\ LoansDiffer

LEMMA LoansStep ==
  ASSUME TypeInv, LoansInv, [Next]_vars
  PROVE  LoansInv' /\ LoansNext
<1> USE CallersAssumption, NoneAssumption
<1> USE DEF LoansInv, LoansAreMarked, LoansDiffer, InFlight, Holding, InTable,
            PoolLive, Callers, TypeInv, TypeOK
<1>1. ASSUME NEW c \in Calls, BeginCall(c)
      PROVE  LoansInv' /\ LoansNext
  <2>1. PICK m \in Mtids \ inUse : /\ mtid' = [mtid EXCEPT ![c] = m]
                                  /\ inUse' = inUse \cup {m}
    BY <1>1 DEF BeginCall, Lowest
  <2>2. /\ c \notin InFlight /\ InFlight' = InFlight \cup {c}
        /\ mtid'[c] = m /\ \A d \in Calls \ {c} : mtid'[d] = mtid[d]
        /\ UNCHANGED phase
    BY <1>1, <2>1 DEF BeginCall, Goto, network
  <2>3. LoansInv'
    BY <2>1, <2>2
  <2>4. CASE PoolLive
    <3>1. \A d \in Calls : loan'[d] = IF d = c THEN m ELSE loan[d]
      BY <2>2, <2>4 DEF loan
    <3>2. loan' = [loan EXCEPT ![c] = m] /\ loan[c] = None
      BY <2>2, <3>1 DEF loan
    <3>3. m \in free /\ free' = free \ {m}
      BY <2>1, <2>2, <2>4 DEF free
    <3>4. Loans!Lend(c)
      BY <2>1, <2>2, <2>4, <3>2, <3>3 DEF Loans!Lend
    <3> QED BY <2>3, <3>4 DEF LoansNext, Loans!Next
  <2>5. CASE ~PoolLive
    <3>1. loan' = loan /\ free' = free /\ PoolLive' = PoolLive
      BY <2>2, <2>5 DEF loan, free
    <3> QED BY <2>3, <3>1 DEF LoansNext
  <2> QED BY <2>4, <2>5
<1>2. ASSUME NEW c \in Calls, Release(c)
      PROVE  LoansInv' /\ LoansNext
  <2>1. /\ c \in InFlight /\ InFlight' = InFlight \ {c}
        /\ inUse' = inUse \ {mtid[c]} /\ UNCHANGED <<mtid, phase>>
    BY <1>2 DEF Release, Goto, network
  <2>2. LoansInv'
    BY <2>1
  <2>3. CASE PoolLive
    <3>1. \A d \in Calls : loan'[d] = IF d = c THEN None ELSE loan[d]
      BY <2>1, <2>3 DEF loan
    <3>2. loan' = [loan EXCEPT ![c] = None]
      BY <3>1 DEF loan
    <3>3. mtid[c] # None
      BY <2>1, <2>3, MtidsAssumption
    <3>4. loan[c] # None
      BY <2>1, <2>3, <3>3 DEF loan
    <3>5. mtid[c] \in inUse /\ inUse \subseteq Mtids
      BY <2>1, <2>3
    <3>6. free' = free \cup {loan[c]}
      BY <2>1, <2>3, <3>5 DEF free, loan
    <3>7. Loans!Return(c)
      BY <2>1, <3>2, <3>4, <3>6 DEF Loans!Return
    <3> QED BY <2>2, <3>7 DEF LoansNext, Loans!Next
  <2>4. CASE ~PoolLive
    <3>1. loan' = loan /\ free' = free /\ PoolLive' = PoolLive
      BY <2>1, <2>4 DEF loan, free
    <3> QED BY <2>2, <3>1 DEF LoansNext
  <2> QED BY <2>3, <2>4
<1>3. CASE ResetPool
  <2>1. PoolLive /\ ~PoolLive'
    BY <1>3 DEF ResetPool
  <2>2. loan' = [c \in Calls |-> None] /\ free' = Mtids
    BY <2>1 DEF loan, free
  <2> QED BY <2>1, <2>2 DEF LoansNext, Loans!Next, Loans!Cancel
<1>4. CASE \/ \E c \in Probes : BeginProbe(c) \/ Release(c)
           \/ \E c \in Callers : \/ Register(c) \/ Send(c) \/ Receive(c)
                                 \/ Unregister(c) \/ Timeout(c) \/ Reply(c)
           \/ Lookup \/ Deliver \/ ReaderExits \/ HangUp \/ Disconnect
           \/ UNCHANGED vars
  <2>1. /\ InFlight' = InFlight /\ inUse' = inUse
        /\ \A c \in Calls : mtid'[c] = mtid[c]
        /\ PoolLive' = PoolLive
    BY <1>4 DEF BeginProbe, Release, Register, Send, Receive, Unregister, Timeout,
                Reply, Lookup, Deliver, ReaderExits, HangUp, Disconnect, Goto,
                Return, network, vars
  <2>2. loan' = loan /\ free' = free
    BY <2>1 DEF loan, free
  <2> QED BY <2>1, <2>2 DEF LoansNext
<1> HIDE DEF LoansInv, LoansAreMarked, LoansDiffer, InFlight, Holding, InTable,
             PoolLive, TypeInv, TypeOK
<1> QED BY <1>1, <1>2, <1>3, <1>4 DEF Next, Proceed, Callers

(* The session's use of its pool implements the promise that the pool with *)
(* its lock and condition variable implements too (Acp2Plugin_proofs): the *)
(* set of marks here is a fair stand-in for MtidPool.  It needs no bound   *)
(* on the calls in flight.                                                 *)
THEOREM SessionLends == Spec => Loans!Spec
<1>1. Init => LoansInv /\ Loans!Init
  BY DEF Init, LoansInv, LoansAreMarked, LoansDiffer, InFlight, Holding, InTable,
         PoolLive, Loans!Init, loan, free, Callers
<1>2. TypeInv /\ LoansInv /\ [Next]_vars
        => LoansInv' /\ LoansNext
  BY LoansStep
<1>3. LoansNext <=> [Loans!Next]_<<loan, free, PoolLive>>
  BY DEF LoansNext
<1> QED BY <1>1, <1>2, <1>3, TypeInvariant, PTL DEF Spec, Loans!Spec
===========================================================================
