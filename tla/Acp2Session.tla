---------------------------- MODULE Acp2Session ----------------------------
(***************************************************************************)
(* Requests and replies on one ACP2 connection                             *)
(* (internal/acp2/consumer/session.go).                                    *)
(*                                                                         *)
(* Callers run DoACP2 on goroutines of their own: take an mtid, register a *)
(* channel for it, send, select on the channel and the context, and on the *)
(* way out unregister and then release the mtid, in two steps.  The        *)
(* keep-alive prober runs an2Request, which uses a fixed mtid and the same *)
(* table of waiters.  One reader goroutine routes what arrives by mtid and *)
(* fails the table when the connection dies.  Disconnect closes the        *)
(* socket, waits for the reader and resets the pool.                       *)
(*                                                                         *)
(* A call is one exchange: it is made once.  The pool's lock and condition *)
(* variable are the subject of MtidPool; here an mtid is free or not.      *)
(***************************************************************************)
EXTENDS Naturals, Sequences

CONSTANTS
  Calls,      \* calls of DoACP2
  Probes,     \* GetSlotInfo probes of the keep-alive prober
  Mtids,      \* the pool, 1..255 in the code
  ProbeMtid,  \* AN2FuncGetSlotInfo + 1
  Impatient,  \* calls and probes whose context may end
  None

Callers == Calls \cup Probes

ASSUME CallersAssumption ==
  Calls \cap Probes = {} /\ Impatient \subseteq Callers
ASSUME MtidsAssumption ==
  /\ Mtids \subseteq Nat \ {0} /\ ProbeMtid \in Nat \ {0}
  /\ 1 .. ProbeMtid - 1 \subseteq Mtids
ASSUME NoneAssumption == None \notin Callers \cup Nat \cup (Callers \X Callers)

Ids == Mtids \cup {ProbeMtid}
Outcomes == {"none", "timeout", "failed", "closed"}
ASSUME OutcomesAssumption ==
  Callers \cap (Outcomes \cup {"empty", "sentinel"}) = {}

VARIABLES
  pc,        \* where each call stands
  mtid,      \* the id a call took
  chan,      \* the call's channel, of one place
  result,    \* how the call returned: the caller whose reply it got, or why not
  inUse,     \* mtidPool
  waiters,   \* waiters: id -> the call whose channel is registered
  dead,      \* waitersDead; the reader has left
  routing,   \* routeReply between table and channel: <<reply, receiver>>
  wire,      \* replies in the receive buffer: whose they are
  asked,     \* requests that reached the device
  answered,  \* requests whose reply reached the receive buffer
  phase      \* of the connection

vars == <<pc, mtid, chan, result, inUse, waiters, dead, routing, wire,
          asked, answered, phase>>

Steps == {"idle", "numbered", "registered", "waiting",
          "unregister", "release", "done"}
InTable == {"registered", "waiting", "unregister"}
Holding == {"numbered", "release"} \cup InTable
Phases == {"up", "down", "closing", "closed", "expired"}

TypeOK ==
  /\ pc \in [Callers -> Steps]
  /\ mtid \in [Callers -> Ids \cup {None}]
  /\ chan \in [Callers -> Callers \cup {"empty", "sentinel"}]
  /\ result \in [Callers -> Callers \cup Outcomes]
  /\ inUse \in SUBSET Mtids
  /\ waiters \in [Ids -> Callers \cup {None}]
  /\ dead \in BOOLEAN
  /\ routing \in (Callers \X Callers) \cup {None}
  /\ wire \in Seq(Callers)
  /\ asked \in SUBSET Callers
  /\ answered \in SUBSET Callers
  /\ phase \in Phases

Init ==
  /\ pc = [c \in Callers |-> "idle"]
  /\ mtid = [c \in Callers |-> None]
  /\ chan = [c \in Callers |-> "empty"]
  /\ result = [c \in Callers |-> "none"]
  /\ inUse = {}
  /\ waiters = [i \in Ids |-> None]
  /\ dead = FALSE
  /\ routing = None
  /\ wire = <<>>
  /\ asked = {} /\ answered = {}
  /\ phase = "up"

Goto(c, step) == pc' = [pc EXCEPT ![c] = step]
Return(c, how, step) == Goto(c, step) /\ result' = [result EXCEPT ![c] = how]
network == <<wire, asked, answered, phase>>

-----------------------------------------------------------------------------
(* The pool's scan takes the lowest free id.                               *)
LowestZeroBased(used) == \* mutant: the slice index is the id
  {m - 1 : m \in {k \in Mtids \ used : \A j \in Mtids \ used : k <= j}}
LowestUnmarked(used) == \* mutant: the scan does not look at the marks
  {m \in Mtids : \A k \in Mtids : m <= k}
Lowest(used) == {m \in Mtids \ used : \A k \in Mtids \ used : m <= k}

BeginCall(c) ==
  /\ pc[c] = "idle"
  /\ \E m \in Lowest(inUse) :
       /\ mtid' = [mtid EXCEPT ![c] = m]
       /\ inUse' = inUse \cup {m}
  /\ Goto(c, "numbered")
  /\ UNCHANGED <<chan, result, waiters, dead, routing, network>>

(* The prober sends one probe after the other.                             *)
BeginProbe(p) ==
  /\ \A q \in Probes : pc[q] \in {"idle", "done"}
  /\ pc[p] = "idle"
  /\ mtid' = [mtid EXCEPT ![p] = ProbeMtid]
  /\ Goto(p, "numbered")
  /\ UNCHANGED <<chan, result, inUse, waiters, dead, routing, network>>

(* addWaiter: refused once the table is dead, overwrites otherwise.        *)
RegisterLate(c) == \* mutant: addWaiter does not look at waitersDead
  /\ pc[c] = "numbered"
  /\ waiters' = [waiters EXCEPT ![mtid[c]] = c]
  /\ Goto(c, "registered")
  /\ UNCHANGED <<mtid, chan, result, inUse, dead, routing, network>>
Register(c) ==
  /\ pc[c] = "numbered"
  /\ \/ /\ dead
        /\ Return(c, "closed", "release")
        /\ UNCHANGED waiters
     \/ /\ ~dead
        /\ waiters' = [waiters EXCEPT ![mtid[c]] = c]
        /\ Goto(c, "registered")
        /\ UNCHANGED result
  /\ UNCHANGED <<mtid, chan, inUse, dead, routing, network>>

(* sendFrame: a write may fail on a connection the peer has left or at the *)
(* context's deadline; without a connection it does.                       *)
Send(c) ==
  /\ pc[c] = "registered"
  /\ \/ /\ phase \in {"up", "down"}
        /\ Goto(c, "waiting")
        /\ asked' = IF phase = "up" THEN asked \cup {c} ELSE asked
        /\ UNCHANGED result
     \/ /\ phase # "up" \/ c \in Impatient
        /\ Return(c, "failed", "unregister")
        /\ UNCHANGED asked
  /\ UNCHANGED <<mtid, chan, inUse, waiters, dead, routing, wire, answered,
                 phase>>

Receive(c) ==
  /\ pc[c] = "waiting" /\ chan[c] # "empty"
  /\ Return(c, IF chan[c] = "sentinel" THEN "closed" ELSE chan[c], "unregister")
  /\ chan' = [chan EXCEPT ![c] = "empty"]
  /\ UNCHANGED <<mtid, inUse, waiters, dead, routing, network>>

Timeout(c) ==
  /\ pc[c] = "waiting" /\ c \in Impatient
  /\ Return(c, "timeout", "unregister")
  /\ UNCHANGED <<mtid, chan, inUse, waiters, dead, routing, network>>

(* The deferred calls: removeWaiter deletes whatever the id maps to, then  *)
(* releaseMTID; a probe has nothing to release.                            *)
Unregister(c) ==
  /\ pc[c] = "unregister"
  /\ waiters' = [waiters EXCEPT ![mtid[c]] = None]
  /\ Goto(c, "release")
  /\ UNCHANGED <<mtid, chan, result, inUse, dead, routing, network>>

Release(c) ==
  /\ pc[c] = "release"
  /\ inUse' = IF c \in Calls THEN inUse \ {mtid[c]} ELSE inUse
  /\ Goto(c, "done")
  /\ UNCHANGED <<mtid, chan, result, waiters, dead, routing, network>>

-----------------------------------------------------------------------------
(* routeReply: the channel is looked up under waitMu and filled after it;  *)
(* a full channel or a missing waiter drops the reply.                     *)
Lookup ==
  /\ ~dead /\ routing = None /\ wire # <<>> /\ phase \in {"up", "down"}
  /\ LET to == waiters[mtid[Head(wire)]] IN
       routing' = IF to = None THEN None ELSE <<Head(wire), to>>
  /\ wire' = Tail(wire)
  /\ UNCHANGED <<pc, mtid, chan, result, inUse, waiters, dead, asked,
                 answered, phase>>

Fill(ch, v) == IF ch = "empty" THEN v ELSE ch
Deliver ==
  /\ routing # None
  /\ chan' = [chan EXCEPT ![routing[2]] = Fill(@, routing[1])]
  /\ routing' = None
  /\ UNCHANGED <<pc, mtid, result, inUse, waiters, dead, network>>

(* A read fails: end of stream after the last reply, the dead-man deadline *)
(* on a silent link, or the socket closed under the reader.  failWaiters   *)
(* then puts a nil into every registered channel that is empty.            *)
InWaiters(c) == \E i \in Ids : waiters[i] = c
SweptOver(c) == \* mutant: the nil replaces a reply nobody has taken yet
  IF InWaiters(c) THEN "sentinel" ELSE chan[c]
Swept(c) == IF InWaiters(c) THEN Fill(chan[c], "sentinel") ELSE chan[c]
ReaderExits ==
  /\ ~dead /\ routing = None
  /\ wire = <<>> \/ phase \notin {"up", "down"}
  /\ dead' = TRUE
  /\ chan' = [c \in Callers |-> Swept(c)]
  /\ UNCHANGED <<pc, mtid, result, inUse, waiters, routing, network>>

-----------------------------------------------------------------------------
(* The device answers in any order, late, or never.                        *)
Reply(c) ==
  /\ phase = "up" /\ ~dead /\ c \in asked \ answered
  /\ answered' = answered \cup {c}
  /\ wire' = Append(wire, c)
  /\ UNCHANGED <<pc, mtid, chan, result, inUse, waiters, dead, routing,
                 asked, phase>>

HangUp ==
  /\ phase = "up"
  /\ phase' = "down"
  /\ UNCHANGED <<pc, mtid, chan, result, inUse, waiters, dead, routing, wire,
                 asked, answered>>

(* closeLocked: the socket goes; once the reader has left, or closeWait    *)
(* has run out, every id is free again.                                    *)
Disconnect ==
  /\ phase \in {"up", "down"}
  /\ phase' = "closing"
  /\ UNCHANGED <<pc, mtid, chan, result, inUse, waiters, dead, routing, wire,
                 asked, answered>>

ResetPool ==
  /\ phase = "closing"
  /\ phase' = IF dead THEN "closed" ELSE "expired"
  /\ inUse' = {}
  /\ UNCHANGED <<pc, mtid, chan, result, waiters, dead, routing, wire, asked,
                 answered>>

-----------------------------------------------------------------------------
Proceed(c) ==
  \/ Register(c) \/ Send(c) \/ Receive(c) \/ Unregister(c) \/ Release(c)

Next ==
  \/ \E c \in Calls : BeginCall(c)
  \/ \E p \in Probes : BeginProbe(p)
  \/ \E c \in Callers : Proceed(c) \/ Timeout(c) \/ Reply(c)
  \/ Lookup \/ Deliver \/ ReaderExits
  \/ HangUp \/ Disconnect \/ ResetPool

Spec == Init /\ [][Next]_vars
-----------------------------------------------------------------------------
(* A call that is registered can be reached: its id still maps to it when  *)
(* its reply is routed or the connection fails.  Two exchanges under one   *)
(* id, or a table entry removed by another call, would break it            *)
(* (session.go:641-677).  After an expired closeWait the ids are handed    *)
(* out again while the old calls are still there.                          *)
WaitersReachable ==
  phase # "expired" =>
    \A c \in Callers : pc[c] \in InTable => waiters[mtid[c]] = c

(* No table entry outlives its call: it would swallow the reply, or the    *)
(* failure, of the next exchange under that id.                            *)
WaitersInFlight ==
  \A i \in Ids : waiters[i] # None =>
    pc[waiters[i]] \in InTable /\ mtid[waiters[i]] = i

(* A call is only ever given its own reply or that of a call that had the  *)
(* same id and returned without one.                                       *)
MixupsNeedAnAbandonedCall ==
  \A c \in Callers : result[c] \in Callers \ {c} =>
    /\ mtid[result[c]] = mtid[c]
    /\ pc[result[c]] \in {"release", "done"}
    /\ result[result[c]] # result[c]

(* A reply received before the peer hung up is never reported as a lost    *)
(* connection, however reader, sweep and caller interleave                 *)
(* (session.go:679-690).                                                   *)
RepliesBeatHangUps ==
  phase \in {"up", "down"} =>
    \A c \in answered : result[c] # "closed"

(* Once the reader has left, a call that still waits has something in its  *)
(* channel, its reply or the nil: nobody waits for what nobody will send,  *)
(* even without a context that ends (session.go:657-660, 679-690).         *)
DeadSessionDrains ==
  dead /\ phase # "expired" =>
    \A c \in Callers : pc[c] = "waiting" => chan[c] # "empty"

-----------------------------------------------------------------------------
(* What the comments say and a run refutes.                                *)

(* session.go:639-640: replies must correlate to in-flight requests; a     *)
(* call is given the reply to its own request.                             *)
OwnReply == \A c \in Callers : result[c] \in Callers => result[c] = c
=============================================================================
