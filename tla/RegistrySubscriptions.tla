---------------------- MODULE RegistrySubscriptions ----------------------
(***************************************************************************)
(* The Query API's WebSocket subscriptions                                 *)
(* (internal/amwa/registry/subscriptions.go): the registry's writes fanned *)
(* out to every subscriber, inline or gathered by max_update_rate_ms, the  *)
(* snapshot a new socket is sent in chunks, and the release of a           *)
(* subscription, under the store's lock, the manager's mutex and the       *)
(* sockets' write locks.                                                   *)
(*                                                                         *)
(* One topic, which every subscription is for; its filters only thin the   *)
(* rows out and are left out.  A row is a resource and the number of the   *)
(* write it shows, for a removal as for a document, and of the rows of one *)
(* grain the last of each resource counts.  A socket can stall, when its   *)
(* peer stops reading, and no send has a deadline: it waits.               *)
(***************************************************************************)
EXTENDS Naturals, FiniteSets

CONSTANTS
  Subs,        \* subscriptions
  Rated,       \* those with a max_update_rate_ms
  MaxSocks,    \* bound of the model: upgrade requests
  Ids,         \* resources of the topic
  Chunk,       \* syncChunkRows: rows of one sync grain
  Bounds,      \* bound of the model: how many writes go with how many stalls
               \* and how many upgrades
  None         \* no socket, no subscription, no write

(* Sockets, numbered in the order of the upgrade requests.                 *)
Socks == 1 .. MaxSocks

ASSUME RatedAssumption == Rated \subseteq Subs
ASSUME NoneAssumption == None \notin Subs \cup Socks \cup Ids
ASSUME ChunkAssumption == Chunk \in Nat \ {0}
ASSUME BoundsAssumption == MaxSocks \in Nat /\ Bounds \subseteq Nat \X Nat \X Nat

Within(w, t, u) == \E b \in Bounds : w <= b[1] /\ t <= b[2] /\ u <= b[3]

VARIABLES
  here,      \* the resources registered
  version,   \* the number of the last write to each
  writes,    \* writes so far
  writing,   \* the resource of the write that holds the store's lock, or None
  collected, \* onChange has listed the subscribers of that write
  todo,      \* those it has still to serve
  posted,    \* subscriptions created
  listed,    \* m.subs
  mu,        \* the subscription removeSub holds m.mu for, or None
  ws,        \* subscription.ws
  pending,   \* subscription.pending: the rows gathered
  armed,     \* subscription.flushTimer is set
  flushes,   \* grains the flushes have taken and not sent, with their socket
  pc,        \* the upgrade of each socket
  of,        \* the subscription it looked up
  left,      \* the rows of the snapshot it has still to send
  peer,      \* each socket as its peer has it
  stalls,    \* times a peer stopped reading
  wire,      \* the last row of each resource put on each socket
  newest,    \* history: the newest such row
  late       \* history: sockets installed after the subscription's release

storeVars == <<here, version, writes, writing, collected, todo>>
subVars == <<posted, listed, mu, ws, pending, armed, flushes>>
sockVars == <<pc, of, left, peer, stalls, wire, newest, late>>
vars == <<storeVars, subVars, sockVars>>

NoRows == [i \in Ids |-> 0]
Rows == [Ids -> 0 .. writes]

TypeOK ==
  /\ here \subseteq Ids
  /\ writes \in Nat
  /\ version \in Rows
  /\ writing \in Ids \cup {None}
  /\ collected \in BOOLEAN
  /\ todo \subseteq Subs
  /\ listed \subseteq posted /\ posted \subseteq Subs
  /\ mu \in listed \cup {None}
  /\ ws \in [Subs -> Socks \cup {None}]
  /\ pending \in [Subs -> Rows]
  /\ armed \in [Subs -> BOOLEAN]
  /\ flushes \subseteq [ws : Socks, rows : Rows]
  /\ pc \in [Socks -> {"idle", "found", "installed", "sync", "reading", "done"}]
  /\ of \in [Socks -> Subs \cup {None}]
  /\ left \in [Socks -> Rows]
  /\ peer \in [Socks -> {"open", "stalled", "gone", "closed"}]
  /\ stalls \in Nat
  /\ wire \in [Socks -> Rows]
  /\ newest \in [Socks -> Rows]
  /\ late \subseteq Socks

Init ==
  /\ here = {}
  /\ version = NoRows
  /\ writes = 0
  /\ writing = None
  /\ collected = FALSE
  /\ todo = {}
  /\ posted = {}
  /\ listed = {}
  /\ mu = None
  /\ ws = [s \in Subs |-> None]
  /\ pending = [s \in Subs |-> NoRows]
  /\ armed = [s \in Subs |-> FALSE]
  /\ flushes = {}
  /\ pc = [k \in Socks |-> "idle"]
  /\ of = [k \in Socks |-> None]
  /\ left = [k \in Socks |-> NoRows]
  /\ peer = [k \in Socks |-> "closed"]
  /\ stalls = 0
  /\ wire = [k \in Socks |-> NoRows]
  /\ newest = [k \in Socks |-> NoRows]
  /\ late = {}

Upgrades == Cardinality({k \in Socks : pc[k] # "idle"})

-----------------------------------------------------------------------------
(* SendText, which reports a closed socket; what is sent to a peer that    *)
(* has gone is lost.                                                       *)
Over(rows, under) == [i \in Ids |-> IF rows[i] = 0 THEN under[i] ELSE rows[i]]

Newer(rows, under) ==
  [i \in Ids |-> IF rows[i] > under[i] THEN rows[i] ELSE under[i]]

CanSend(k) == peer[k] # "stalled"

Put(k, rows) ==
  IF peer[k] = "open"
    THEN /\ wire' = [wire EXCEPT ![k] = Over(rows, @)]
         /\ newest' = [newest EXCEPT ![k] = Newer(rows, @)]
    ELSE UNCHANGED <<wire, newest>>

-----------------------------------------------------------------------------
(* A registration, an update or a removal; onChange, called with the       *)
(* store's lock held, needs the manager's mutex to list its subscribers.   *)
Write(i) ==
  /\ writing = None
  /\ Within(writes + 1, stalls, Upgrades)
  /\ writes' = writes + 1
  /\ version' = [version EXCEPT ![i] = writes + 1]
  /\ \/ here' = here \cup {i}
     \/ i \in here /\ here' = here \ {i}
  /\ writing' = i
  /\ collected' = FALSE
  /\ UNCHANGED <<todo, subVars, sockVars>>

(* The last subscriber served, the writer gives the store's lock back.     *)
Served ==
  /\ collected' = (todo' # {})
  /\ writing' = IF todo' = {} THEN None ELSE writing

InStep == {s \in listed : ws[s] # None /\ pc[ws[s]] = "reading"} \* mutant: not yet synced
Subscribers == {s \in listed : ws[s] # None}

Collect ==
  /\ writing # None
  /\ ~collected
  /\ mu = None
  /\ todo' = Subscribers
  /\ Served
  /\ UNCHANGED <<here, version, writes, subVars, sockVars>>

(* enqueue                                                                 *)
Change == [i \in Ids |-> IF i = writing THEN version[i] ELSE 0]

InPassing(s) == \* mutant: the send handed to a goroutine, off the store's lock
  /\ flushes' = flushes \cup {[ws |-> ws[s], rows |-> Change]}
  /\ UNCHANGED <<pending, armed, wire, newest>>

Inline(s) ==
  /\ CanSend(ws[s])
  /\ Put(ws[s], Change)
  /\ UNCHANGED <<pending, armed, flushes>>

Gather(s) ==
  /\ pending' = [pending EXCEPT ![s] = Over(Change, @)]
  /\ armed' = [armed EXCEPT ![s] = TRUE]
  /\ UNCHANGED <<flushes, wire, newest>>

Enqueue(s) ==
  /\ collected
  /\ s \in todo
  /\ \/ s \notin Rated /\ Inline(s)
     \/ s \in Rated /\ Gather(s)
  /\ todo' = todo \ {s}
  /\ Served
  /\ UNCHANGED <<here, version, writes, posted, listed, mu, ws,
                 pc, of, left, peer, stalls, late>>

-----------------------------------------------------------------------------
(* flush: the timer takes what was gathered and sends it with no lock      *)
(* held, so that the next flush may be out before it.                      *)
Take(s) ==
  /\ armed[s]
  /\ armed' = [armed EXCEPT ![s] = FALSE]
  /\ pending' = [pending EXCEPT ![s] = NoRows]
  /\ flushes' = flushes \cup {[ws |-> ws[s], rows |-> pending[s]]}
  /\ UNCHANGED <<storeVars, posted, listed, mu, ws, sockVars>>

Flush(b) ==
  /\ CanSend(b.ws)
  /\ Put(b.ws, b.rows)
  /\ flushes' = flushes \ {b}
  /\ UNCHANGED <<storeVars, posted, listed, mu, ws, pending, armed,
                 pc, of, left, peer, stalls, late>>

-----------------------------------------------------------------------------
(* HandlePost                                                              *)
Post(s) ==
  /\ mu = None
  /\ s \notin posted
  /\ posted' = posted \cup {s}
  /\ listed' = listed \cup {s}
  /\ UNCHANGED <<storeVars, mu, ws, pending, armed, flushes, sockVars>>

(* removeSub: the socket is closed with the manager's mutex held, and its  *)
(* Close frame waits for a send that waits for the peer.  A timer that has *)
(* fired already is not stopped.                                           *)
RemoveAny(s) == \* mutant: the record taken to be there
  /\ mu = None
  /\ mu' = s
  /\ armed' \in {armed, [armed EXCEPT ![s] = FALSE]}
  /\ UNCHANGED <<storeVars, posted, listed, ws, pending, flushes>>

Remove(s) ==
  /\ mu = None
  /\ IF s \in listed
       THEN /\ mu' = s
            /\ armed' \in {armed, [armed EXCEPT ![s] = FALSE]}
       ELSE UNCHANGED <<mu, armed>>
  /\ UNCHANGED <<storeVars, posted, listed, ws, pending, flushes>>

(* HandleDeleteByID                                                        *)
Delete(s) ==
  /\ s \in listed
  /\ Remove(s)
  /\ UNCHANGED sockVars

(* What a controller was shown over a socket goes with the socket.         *)
Lost(k, how) ==
  /\ peer' = [peer EXCEPT ![k] = how]
  /\ wire' = [wire EXCEPT ![k] = NoRows]
  /\ newest' = [newest EXCEPT ![k] = NoRows]

LeaveOpen(k) == \* mutant: the record dropped, the socket kept
  UNCHANGED <<peer, wire, newest>>

Close(k) == Lost(k, "closed")

Inverted == \* mutant: removeSub asks the store while it holds m.mu
  /\ writing = None
  /\ mu # None
  /\ listed' = listed \ {mu}
  /\ mu' = None
  /\ \/ ws[mu] = None /\ UNCHANGED <<peer, wire, newest>>
     \/ ws[mu] # None /\ CanSend(ws[mu]) /\ Close(ws[mu])
  /\ UNCHANGED <<storeVars, posted, ws, pending, armed, flushes,
                 pc, of, left, stalls, late>>


Removed ==
  /\ mu # None
  /\ listed' = listed \ {mu}
  /\ mu' = None
  /\ \/ ws[mu] = None /\ UNCHANGED <<peer, wire, newest>>
     \/ ws[mu] # None /\ CanSend(ws[mu]) /\ Close(ws[mu])
  /\ UNCHANGED <<storeVars, posted, ws, pending, armed, flushes,
                 pc, of, left, stalls, late>>

-----------------------------------------------------------------------------
(* UpgradeHandler: the look-up, then the handshake and the assignment of   *)
(* the socket, which does not look again.  A handshake that fails leaves   *)
(* no trace: the upgrade stays where it is.                                *)
LookUp(k, s) ==
  /\ pc[k] = "idle"
  /\ \A j \in Socks : j < k => pc[j] # "idle"
  /\ Within(writes, stalls, k)
  /\ mu = None
  /\ s \in listed
  /\ pc' = [pc EXCEPT ![k] = "found"]
  /\ of' = [of EXCEPT ![k] = s]
  /\ UNCHANGED <<storeVars, subVars, left, peer, stalls, wire, newest, late>>

Install(k) ==
  /\ pc[k] = "found"
  /\ mu = None
  /\ pc' = [pc EXCEPT ![k] = "installed"]
  /\ peer' = [peer EXCEPT ![k] = "open"]
  /\ ws' = [ws EXCEPT ![of[k]] = k]
  /\ late' = IF of[k] \in listed THEN late ELSE late \cup {k}
  /\ UNCHANGED <<storeVars, posted, listed, mu, pending, armed, flushes,
                 of, left, stalls, wire, newest>>

(* SnapshotChangesFor, under the store's lock                              *)
AllHere == [i \in Ids |-> IF i \in here THEN version[i] ELSE 0]

Snapshot(k) ==
  /\ pc[k] = "installed"
  /\ writing = None
  /\ mu = None
  /\ pc' = [pc EXCEPT ![k] = "sync"]
  /\ left' = [left EXCEPT ![k] = AllHere]
  /\ UNCHANGED <<storeVars, subVars, of, peer, stalls, wire, newest, late>>

Only(rows, some) == [i \in Ids |-> IF i \in some THEN rows[i] ELSE 0]

(* The rows of one grain, in the order of a Go map: any.                   *)
NextChunk(rows) ==
  LET ids == {i \in Ids : rows[i] # 0}
      size == IF Cardinality(ids) < Chunk THEN Cardinality(ids) ELSE Chunk
  IN  {some \in SUBSET ids : Cardinality(some) = size}

SendChunk(k) ==
  /\ pc[k] = "sync"
  /\ left[k] # NoRows
  /\ peer[k] \in {"open", "gone"}
  /\ \E some \in NextChunk(left[k]) :
       /\ Put(k, Only(left[k], some))
       /\ left' = [left EXCEPT ![k] = Only(@, Ids \ some)]
  /\ UNCHANGED <<storeVars, subVars, pc, of, peer, stalls, late>>

(* A send that fails ends the upgrade without the reader that would have   *)
(* removed the subscription.                                               *)
SyncFails(k) ==
  /\ pc[k] = "sync"
  /\ left[k] # NoRows
  /\ peer[k] \in {"gone", "closed"}
  /\ pc' = [pc EXCEPT ![k] = "done"]
  /\ left' = [left EXCEPT ![k] = NoRows]
  /\ Close(k)
  /\ UNCHANGED <<storeVars, subVars, of, stalls, late>>

StartReading(k) ==
  /\ pc[k] = "sync"
  /\ left[k] = NoRows
  /\ mu = None
  /\ pc' = [pc EXCEPT ![k] = "reading"]
  /\ UNCHANGED <<storeVars, subVars, of, left, peer, stalls, wire, newest, late>>

(* The reader's end: the peer has gone, was closed, or kept silent past    *)
(* the idle deadline.                                                      *)
ReadFails(k) ==
  /\ pc[k] = "reading"
  /\ peer[k] # "open"
  /\ pc' = [pc EXCEPT ![k] = "done"]
  /\ Remove(of[k])
  /\ UNCHANGED <<of, left, peer, stalls, wire, newest, late>>

-----------------------------------------------------------------------------
(* The controller at the other end stops reading, reads again, or goes.    *)
Stall(k) ==
  /\ peer[k] = "open"
  /\ Within(writes, stalls + 1, Upgrades)
  /\ stalls' = stalls + 1
  /\ peer' = [peer EXCEPT ![k] = "stalled"]
  /\ UNCHANGED <<storeVars, subVars, pc, of, left, wire, newest, late>>

Resume(k) ==
  /\ peer[k] = "stalled"
  /\ peer' = [peer EXCEPT ![k] = "open"]
  /\ UNCHANGED <<storeVars, subVars, pc, of, left, stalls, wire, newest, late>>

Leave(k) ==
  /\ peer[k] \in {"open", "stalled"}
  /\ Lost(k, "gone")
  /\ UNCHANGED <<storeVars, subVars, pc, of, left, stalls, late>>

-----------------------------------------------------------------------------
Serve ==
  \/ Collect
  \/ \E s \in Subs : Enqueue(s) \/ Take(s)
  \/ \E b \in flushes : Flush(b)
  \/ Removed
  \/ \E k \in Socks :
       \/ Install(k) \/ Snapshot(k) \/ SendChunk(k)
       \/ SyncFails(k) \/ StartReading(k) \/ ReadFails(k)

Next ==
  \/ \E i \in Ids : Write(i)
  \/ \E s \in Subs : Post(s) \/ Delete(s)
  \/ \E k \in Socks : Stall(k) \/ Resume(k) \/ Leave(k)
  \/ \E k \in Socks, s \in Subs : LookUp(k, s)
  \/ Serve

Spec == Init /\ [][Next]_vars

(* Every goroutine of the manager goes on when it can, and a peer that has *)
(* stopped reading does read again or is given up by TCP.                  *)
FairSpec ==
  /\ Spec
  /\ WF_vars(Serve)
  /\ \A k \in Socks : WF_vars(Resume(k) \/ Leave(k))

-----------------------------------------------------------------------------
(* A row for resource i and socket k that is still to be put on the wire.  *)
OnItsWay(k, i) ==
  \/ left[k][i] = version[i]
  \/ pending[of[k]][i] = version[i]
  \/ \E b \in flushes : b.ws = k /\ b.rows[i] = version[i]
  \/ writing = i /\ (collected => of[k] \in todo)

(* No subscriber misses the last change of a resource: the socket of a     *)
(* listed subscription has been sent it, or it is on its way, whatever     *)
(* falls between the socket's assignment, its snapshot, the chunks of that *)
(* snapshot and the flushes (subscriptions.go:523, 558 and 727).  Only     *)
(* what was removed before it could be shown need not be.                  *)
Serving(k) ==
  /\ pc[k] \in {"sync", "reading"}
  /\ peer[k] \in {"open", "stalled"}
  /\ of[k] \in listed
  /\ ws[of[k]] = k

NothingMissed ==
  \A k \in Socks, i \in Ids :
    Serving(k) =>
      \/ newest[k][i] = version[i]
      \/ OnItsWay(k, i)
      \/ i \notin here /\ newest[k][i] = 0 /\ left[k][i] = 0

(* A released subscription leaves no socket open behind it: an open socket *)
(* is one the manager still holds for a listed subscription, was replaced  *)
(* by a second upgrade of the same one, or was assigned by an upgrade that *)
(* had looked its subscription up before the release                       *)
(* (subscriptions.go:523 and 1063).                                        *)
SocketsAreHeld ==
  \A k \in Socks :
    peer[k] # "closed" =>
      \/ of[k] \in listed
      \/ ws[of[k]] # k
      \/ k \in late

(* What a subscriber has been shown of a resource is not overwritten by an *)
(* older row, except by a row of the snapshot that a change has overtaken  *)
(* or by a flush that its successor has overtaken: the changes of an       *)
(* unlimited subscription arrive in the order of the writes, since they    *)
(* are sent under the store's lock (subscriptions.go:727).                 *)
NeverGoesBack ==
  [][\A k \in Socks, i \in Ids :
       peer'[k] = "open" /\ wire'[k][i] < wire[k][i] =>
         pc[k] = "sync" \/ of[k] \in Rated]_vars

(* No write to the store waits for ever for the manager: the fan-out of    *)
(* every one ends, although it needs the store's lock, the manager's mutex *)
(* and every subscriber's socket, which removeSub holds in another order   *)
(* (subscriptions.go:684 and 1077).                                        *)
WritesEnd == writing # None ~> writing = None
===========================================================================
