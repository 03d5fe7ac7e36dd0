------------------------------ MODULE MtidPool ------------------------------
(***************************************************************************)
(* The ACP2 session's pool of message ids (internal/acp2/consumer/         *)
(* session.go: allocMTID, releaseMTID and the reset in closeLocked).       *)
(*                                                                         *)
(* The pool is guarded by mtidMu.  A call that finds it empty parks on     *)
(* mtidCond; a release signals the longest waiter.  A condition variable   *)
(* knows nothing of contexts, so every allocation starts a watcher         *)
(* goroutine that broadcasts when the caller's context ends, and that      *)
(* leaves without a broadcast when the allocation has returned.            *)
(*                                                                         *)
(* Every point where another goroutine can come in between is a step: the  *)
(* lock, the test of the context, the scan, the wait, the release and,     *)
(* outside the lock, the signal.  A pool belongs to a session, a session   *)
(* to the plugin, and the proofs about both are in Acp2Plugin_proofs.      *)
(***************************************************************************)
EXTENDS Naturals, Sequences, FiniteSets

CONSTANTS
  Callers,      \* goroutines in DoACP2
  Mtids,        \* the ids of the pool: 1 .. 255 in the code
  Cancellable,  \* callers whose context may end
  Nil          \* no id, no holder

ASSUME MtidsAssumption == Mtids \subseteq Nat
ASSUME CallersAssumption == Cancellable \subseteq Callers
ASSUME NilAssumption == Nil \notin Mtids \cup Callers

VARIABLES
  lock,      \* mtidMu: its holder
  inUse,     \* mtidPool: the ids marked in use
  parked,    \* mtidCond's notify list, oldest first
  pc,        \* where each caller is
  got,       \* the id a caller was given
  over,      \* callers whose context is done
  watching,  \* callers whose watcher goroutine runs
  closer     \* closeLocked's progress

poolVars == <<lock, inUse, parked, pc, got, over, watching, closer>>

Allocating == {"enter", "check", "scan", "wait"}
Steps == Allocating \cup {"idle", "call", "signal"}

PoolTypeOK ==
  /\ lock \in Callers \cup {Nil}
  /\ inUse \in SUBSET Mtids
  /\ parked \in Seq(Callers)
  /\ pc \in [Callers -> Steps]
  /\ got \in [Callers -> Mtids \cup {Nil}]
  /\ over \in SUBSET Callers
  /\ watching \in SUBSET Callers
  /\ closer \in {"up", "broadcast", "done"}

PoolInit ==
  /\ lock = Nil
  /\ inUse = {}
  /\ parked = <<>>
  /\ pc = [c \in Callers |-> "idle"]
  /\ got = [c \in Callers |-> Nil]
  /\ over = {}
  /\ watching = {}
  /\ closer = "up"

Goto(c, step) == pc' = [pc EXCEPT ![c] = step]

IsParked(c) == \E k \in DOMAIN parked : parked[k] = c

-----------------------------------------------------------------------------
(* DoACP2 begins, with a context of its own.  A caller stands for a new    *)
(* goroutine each time, so the previous one's watcher has left.            *)
Begin(c) ==
  /\ pc[c] = "idle" /\ c \notin watching
  /\ over' = over \ {c}
  /\ Goto(c, "enter")
  /\ UNCHANGED <<lock, inUse, parked, got, watching, closer>>

(* The lock is taken, at first or on the way out of Wait; the first time   *)
(* the watcher is started.                                                 *)
Lock(c) ==
  /\ \/ pc[c] = "enter"
     \/ pc[c] = "wait" /\ ~IsParked(c)
  /\ lock = Nil
  /\ lock' = c
  /\ watching' = IF pc[c] = "enter" THEN watching \cup {c} ELSE watching
  /\ Goto(c, "check")
  /\ UNCHANGED <<inUse, parked, got, over, closer>>

GiveUp(c) ==
  /\ pc[c] = "check" /\ c \in over
  /\ lock' = Nil
  /\ Goto(c, "idle")
  /\ UNCHANGED <<inUse, parked, got, over, watching, closer>>

CheckContext(c) ==
  /\ pc[c] = "check" /\ c \notin over
  /\ Goto(c, "scan")
  /\ UNCHANGED <<lock, inUse, parked, got, over, watching, closer>>

AnyFree == Mtids \* mutant: the in-use mark is not looked at
FreeIds == Mtids \ inUse

(* The scan takes the lowest free id.                                      *)
TakeIndex(c) == \* mutant: the slice index is returned for the id
  /\ pc[c] = "scan"
  /\ \E m \in FreeIds :
       /\ \A k \in FreeIds : m <= k
       /\ inUse' = inUse \cup {m}
       /\ got' = [got EXCEPT ![c] = m - 1]
  /\ lock' = Nil
  /\ Goto(c, "call")
  /\ UNCHANGED <<parked, over, watching, closer>>
Take(c) ==
  /\ pc[c] = "scan"
  /\ \E m \in FreeIds :
       /\ \A k \in FreeIds : m <= k
       /\ inUse' = inUse \cup {m}
       /\ got' = [got EXCEPT ![c] = m]
  /\ lock' = Nil
  /\ Goto(c, "call")
  /\ UNCHANGED <<parked, over, watching, closer>>

(* Wait joins the notify list, then unlocks.                               *)
Wait(c) ==
  /\ pc[c] = "scan" /\ FreeIds = {}
  /\ parked' = Append(parked, c)
  /\ lock' = Nil
  /\ Goto(c, "wait")
  /\ UNCHANGED <<inUse, got, over, watching, closer>>

(* releaseMTID, deferred by DoACP2: the id goes back under the lock, the   *)
(* signal comes after it.                                                  *)
Release(c) ==
  /\ pc[c] = "call" /\ lock = Nil
  /\ inUse' = inUse \ {got[c]}
  /\ got' = [got EXCEPT ![c] = Nil]
  /\ Goto(c, "signal")
  /\ UNCHANGED <<lock, parked, over, watching, closer>>

NoSignal(c) == \* mutant: the release does not signal
  /\ pc[c] = "signal"
  /\ Goto(c, "idle")
  /\ UNCHANGED <<lock, inUse, parked, got, over, watching, closer>>
Signal(c) ==
  /\ pc[c] = "signal"
  /\ parked' = IF parked = <<>> THEN parked ELSE Tail(parked)
  /\ Goto(c, "idle")
  /\ UNCHANGED <<lock, inUse, got, over, watching, closer>>

-----------------------------------------------------------------------------
(* The caller's context ends: a timeout, or the operator's Ctrl-C.         *)
ContextEnds(c) ==
  /\ c \in Cancellable /\ pc[c] \in Allocating \cup {"call"} /\ c \notin over
  /\ over' = over \cup {c}
  /\ UNCHANGED <<lock, inUse, parked, pc, got, watching, closer>>

(* The watcher's select: the broadcast needs no lock, and when both arms   *)
(* are ready either may be taken.                                          *)
WatcherBroadcasts(c) ==
  /\ c \in watching /\ c \in over
  /\ watching' = watching \ {c}
  /\ parked' = <<>>
  /\ UNCHANGED <<lock, inUse, pc, got, over, closer>>

WatcherLeaves(c) ==
  /\ c \in watching /\ pc[c] \notin Allocating
  /\ watching' = watching \ {c}
  /\ UNCHANGED <<lock, inUse, parked, pc, got, over, closer>>

(* closeLocked: every id is free again, whoever holds it, and all waiters  *)
(* are woken.                                                              *)
Reset ==
  /\ closer = "up" /\ lock = Nil
  /\ inUse' = {}
  /\ closer' = "broadcast"
  /\ UNCHANGED <<lock, parked, pc, got, over, watching>>

CloseQuietly == \* mutant: the reset wakes nobody
  /\ closer = "broadcast"
  /\ closer' = "done"
  /\ UNCHANGED <<lock, inUse, parked, pc, got, over, watching>>
CloseBroadcasts ==
  /\ closer = "broadcast"
  /\ parked' = <<>>
  /\ closer' = "done"
  /\ UNCHANGED <<lock, inUse, pc, got, over, watching>>

-----------------------------------------------------------------------------
Caller(c) ==
  \/ Begin(c) \/ Lock(c) \/ GiveUp(c) \/ CheckContext(c)
  \/ Take(c) \/ Wait(c) \/ Release(c) \/ Signal(c)

PoolNext ==
  \/ \E c \in Callers : \/ Caller(c) \/ ContextEnds(c)
                        \/ WatcherBroadcasts(c) \/ WatcherLeaves(c)
  \/ Reset
  \/ CloseBroadcasts

PoolSpec == PoolInit /\ [][PoolNext]_poolVars

(* Goroutines that can run do, and mtidMu is granted in turn.  Nothing     *)
(* says that a call ends: a device that stopped answering keeps its ids.   *)
Scheduling ==
  /\ \A c \in Callers :
       /\ SF_poolVars(Lock(c))
       /\ WF_poolVars(GiveUp(c) \/ CheckContext(c) \/ Take(c) \/ Wait(c))
       /\ WF_poolVars(Signal(c))
       /\ WF_poolVars(WatcherBroadcasts(c) \/ WatcherLeaves(c))
  /\ WF_poolVars(CloseBroadcasts)
PoolFairSpec == PoolSpec /\ Scheduling

(* A device that answers every request in the end.                         *)
DeviceAnswers == \A c \in Callers : SF_poolVars(Release(c))

(* From some moment on no new call is made.                                *)
RushEnds == <>[][\A c \in Callers : ~Begin(c)]_poolVars
-----------------------------------------------------------------------------
(* No id is ever on loan to two calls while the session is up, and the     *)
(* in-use marks are exactly the ids on loan: none leaks, whichever of the  *)
(* waits, cancellations and releases interleave (session.go:703-757).      *)
MarksAreLoans ==
  closer = "up" =>
    /\ inUse = {got[c] : c \in {d \in Callers : pc[d] = "call"}}
    /\ \A c, d \in Callers :
         c # d /\ pc[c] = "call" /\ pc[d] = "call" => got[c] # got[d]

(* The pool implements the loans of MtidLoans, teardown included.          *)
Loans == INSTANCE MtidLoans
  WITH loan <- [c \in Callers |-> IF closer = "up" THEN got[c] ELSE Nil],
       free <- IF closer = "up" THEN Mtids \ inUse ELSE Mtids,
       up <- (closer = "up")
ImplementsLoans == Loans!Spec

(* A call parked for an id gets one when the device keeps answering and    *)
(* new calls stop coming: no release goes unnoticed, and a waiter that is  *)
(* overtaken parks again and is served in the end (session.go:704 "until a *)
(* release signals").  While the rush lasts it can be overtaken for ever.  *)
(* And it holds as long as no context ends: a waiter that is signalled as  *)
(* its context ends takes the wake-up with it, for its watcher need not    *)
(* broadcast once the call has returned (session.go:719).                  *)
WaitersAreServed ==
  DeviceAnswers /\ RushEnds /\ [](over = {})
    => \A c \in Callers : pc[c] = "wait" ~> pc[c] = "call"

(* Whoever waits for an id when the teardown resets the pool gets out of   *)
(* Wait, even if no call ever ends and signals: the broadcast of           *)
(* closeLocked, which needs no id to come back (session.go:830).           *)
TeardownReleasesWaiters ==
  \A c \in Callers : closer = "broadcast" /\ pc[c] = "wait" ~> pc[c] # "wait"

-----------------------------------------------------------------------------
(* What the comment on allocMTID says and TLC refutes with two callers and *)
(* one id.                                                                 *)

(* session.go:704: a caller blocks "until a release signals the cond, or   *)
(* the caller's context cancels -- whichever comes first".                 *)
CancelledCallersReturn ==
  \A c \in Callers : c \in over /\ pc[c] \in Allocating
                       ~> pc[c] \notin Allocating
=============================================================================
