------------------- MODULE RegistrySubscriptions_proofs -------------------
(***************************************************************************)
(* Proofs about the Query API's subscriptions, for any set of              *)
(* subscriptions and resources, any number of upgrades, writes and stalls. *)
(*                                                                         *)
(* The invariant has two layers.  Shape says how the manager's records fit *)
(* together: TypeOK in three parts, the fan-out (Serves), the gathering of *)
(* rated subscriptions (Gathers), which socket belongs to which            *)
(* subscription (Linked), and that a socket has shown nothing before it is *)
(* installed (Fresh).  Above it, Bounded says that no row runs ahead of    *)
(* the store, and Gathered and Informed say where the last change of a     *)
(* resource is while a subscriber has yet to be shown it.                  *)
(***************************************************************************)
EXTENDS RegistrySubscriptions, TLAPS

TypeStore ==
  /\ here \subseteq Ids
  /\ writes \in Nat
  /\ version \in Rows
  /\ writing \in Ids \cup {None}
  /\ collected \in BOOLEAN
  /\ todo \subseteq Subs

TypeSubs ==
  /\ listed \subseteq posted /\ posted \subseteq Subs
  /\ mu \in listed \cup {None}
  /\ ws \in [Subs -> Socks \cup {None}]
  /\ pending \in [Subs -> Rows]
  /\ armed \in [Subs -> BOOLEAN]
  /\ flushes \subseteq [ws : Socks, rows : Rows]

TypeSocks ==
  /\ pc \in [Socks -> {"idle", "found", "installed", "sync", "reading", "done"}]
  /\ of \in [Socks -> Subs \cup {None}]
  /\ left \in [Socks -> Rows]
  /\ peer \in [Socks -> {"open", "stalled", "gone", "closed"}]
  /\ stalls \in Nat
  /\ wire \in [Socks -> Rows]
  /\ newest \in [Socks -> Rows]
  /\ late \subseteq Socks

(* The writer's fan-out: whom it has still to serve has a socket.          *)
Serves ==
  /\ \A s \in todo : ws[s] # None
  /\ collected => writing # None
  /\ ~collected => todo = {}

(* Only a subscription with a rate, and a socket, gathers rows.            *)
Gathers ==
  /\ \A s \in Subs : armed[s] => s \in Rated /\ ws[s] # None
  /\ \A s \in Subs : s \notin Rated \/ ws[s] = None => pending[s] = NoRows

(* A socket and its subscription know each other once it is installed, and *)
(* the flushes are those of rated subscriptions.                           *)
Linked ==
  /\ \A s \in Subs : ws[s] # None => of[ws[s]] = s /\ pc[ws[s]] \notin {"idle", "found"}
  /\ \A b \in flushes : of[b.ws] \in Rated /\ pc[b.ws] \notin {"idle", "found"}
  /\ \A k \in Socks : pc[k] # "idle" => of[k] \in posted

(* Nothing is shown on a socket before it is installed, nor left to send   *)
(* before its snapshot.                                                    *)
Fresh ==
  /\ \A k \in Socks : pc[k] \in {"idle", "found"} =>
       peer[k] = "closed" /\ newest[k] = NoRows /\ wire[k] = NoRows
  /\ \A k \in Socks : pc[k] \in {"idle", "found", "installed"} => left[k] = NoRows

Type == TypeStore /\ TypeSubs /\ TypeSocks
Shape == Type /\ Serves /\ Gathers /\ Linked /\ Fresh

USE RatedAssumption, NoneAssumption, BoundsAssumption

-----------------------------------------------------------------------------
(* What the rows of a grain are, merged with others or cut to a chunk.     *)
LEMMA RowsOver ==
  ASSUME NEW n \in Nat, NEW r \in [Ids -> 0 .. n], NEW u \in [Ids -> 0 .. n], NEW S
  PROVE  /\ Over(r, u) \in [Ids -> 0 .. n]
         /\ Newer(r, u) \in [Ids -> 0 .. n]
         /\ Only(r, S) \in [Ids -> 0 .. n]
BY DEF Over, Newer, Only

(* A row that shows an earlier write is a row after a later one.           *)
LEMMA RowsGrow ==
  ASSUME NEW n \in Nat, NEW m \in Nat, n <= m
  PROVE  [Ids -> 0 .. n] \subseteq [Ids -> 0 .. m]
OBVIOUS

(* The grain of the write underway has rows, one at most.                  *)
LEMMA ChangeIsRows ==
  ASSUME TypeStore
  PROVE  Change \in Rows
BY DEF TypeStore, Rows, Change

(* What a send does to the rows of its socket, and to no other.            *)
LEMMA PutStep ==
  ASSUME TypeStore, TypeSocks, NEW k \in Socks, NEW r \in Rows, Put(k, r)
  PROVE  /\ wire' \in [Socks -> Rows] /\ newest' \in [Socks -> Rows]
         /\ \A j \in Socks \ {k} : wire'[j] = wire[j] /\ newest'[j] = newest[j]
         /\ \A i \in Ids : r[i] = 0 =>
              wire'[k][i] = wire[k][i] /\ newest'[k][i] = newest[k][i]
         /\ \A i \in Ids : /\ wire'[k][i] \in {wire[k][i], r[i]}
                           /\ newest'[k][i] \in {newest[k][i], r[i]}
         /\ \A i \in Ids : peer[k] = "open" =>
              newest'[k][i] >= r[i] /\ newest'[k][i] >= newest[k][i]
         /\ \A i \in Ids : peer[k] = "open" /\ r[i] # 0 => wire'[k][i] = r[i]
<1>1. CASE peer[k] = "open"
  <2>1. /\ Over(r, wire[k]) \in Rows /\ Newer(r, newest[k]) \in Rows
    BY RowsOver DEF TypeStore, TypeSocks, Rows
  <2>2. /\ wire' = [wire EXCEPT ![k] = Over(r, wire[k])]
        /\ newest' = [newest EXCEPT ![k] = Newer(r, newest[k])]
    BY <1>1 DEF Put
  <2>3. wire'[k] = Over(r, wire[k]) /\ newest'[k] = Newer(r, newest[k])
    BY <2>2 DEF TypeSocks
  <2>4. \A i \in Ids : /\ wire'[k][i] = IF r[i] = 0 THEN wire[k][i] ELSE r[i]
                       /\ newest'[k][i] = IF r[i] > newest[k][i] THEN r[i] ELSE newest[k][i]
    BY <2>3 DEF Over, Newer
  <2>5. \A i \in Ids : r[i] \in Nat /\ newest[k][i] \in Nat
    BY DEF TypeStore, TypeSocks, Rows
  <2>6. wire' \in [Socks -> Rows] /\ newest' \in [Socks -> Rows]
    BY <2>1, <2>2 DEF TypeSocks
  <2>7. \A j \in Socks \ {k} : wire'[j] = wire[j] /\ newest'[j] = newest[j]
    BY <2>2 DEF TypeSocks
  <2> QED BY <2>4, <2>5, <2>6, <2>7
<1>2. CASE peer[k] # "open"
  BY <1>2 DEF Put, TypeSocks
<1> QED BY <1>1, <1>2

(* What a socket's end does to it, and to no other.                        *)
LEMMA LostStep ==
  ASSUME TypeStore, TypeSocks, NEW k \in Socks, NEW how \in {"gone", "closed"}, Lost(k, how)
  PROVE  /\ peer' \in [Socks -> {"open", "stalled", "gone", "closed"}]
         /\ wire' \in [Socks -> Rows] /\ newest' \in [Socks -> Rows]
         /\ \A j \in Socks \ {k} : peer'[j] = peer[j] /\ wire'[j] = wire[j] /\ newest'[j] = newest[j]
         /\ peer'[k] = how /\ wire'[k] = NoRows /\ newest'[k] = NoRows
<1>1. NoRows \in Rows
  BY DEF NoRows, Rows, TypeStore
<1> QED BY <1>1 DEF TypeSocks, Lost

-----------------------------------------------------------------------------
(* Each part of Shape is preserved.                                        *)
LEMMA TypeStoreStep ==
  ASSUME TypeStore, TypeSubs, [Next]_vars
  PROVE  TypeStore' /\ (writes' = writes \/ writes' = writes + 1)
<1>1. ASSUME NEW i \in Ids, Write(i) PROVE TypeStore' /\ writes' = writes + 1
  <2>1. version \in [Ids -> 0 .. writes']
    BY <1>1, RowsGrow DEF Write, TypeStore, Rows
  <2>2. version' \in [Ids -> 0 .. writes']
    BY <1>1, <2>1 DEF Write, TypeStore
  <2>3. version' \in Rows'
    BY <2>2 DEF Rows
  <2>4. here' \subseteq Ids
    BY <1>1 DEF Write, TypeStore
  <2>5. /\ writes' = writes + 1 /\ writing' = i
        /\ collected' = FALSE /\ todo' = todo
    BY <1>1 DEF Write
  <2>6. writes' \in Nat /\ writing' \in Ids \cup {None} /\ todo' \subseteq Subs
    BY <2>5 DEF TypeStore
  <2>7. collected' \in BOOLEAN
    BY <2>5
  <2> QED BY <2>3, <2>4, <2>5, <2>6, <2>7 DEF TypeStore
<1>2. CASE Collect
  BY <1>2 DEF Collect, Served, Subscribers, TypeStore, TypeSubs, Rows
<1>3. ASSUME NEW s \in Subs, Enqueue(s) PROVE TypeStore' /\ writes' = writes
  BY <1>3 DEF Enqueue, Served, TypeStore, Rows
<1>4. CASE UNCHANGED storeVars
  BY <1>4 DEF storeVars, TypeStore, Rows
<1> QED
  BY <1>1, <1>2, <1>3, <1>4
  DEF Next, Serve, Take, Flush, Post, Delete, Remove, Removed, LookUp, Install, Snapshot,
      SendChunk, SyncFails, StartReading, ReadFails, Stall, Resume, Leave, vars

LEMMA TypeSubsStep ==
  ASSUME Type, Serves, Gathers, Linked, [Next]_vars
  PROVE  TypeSubs'
<1>0. Rows \subseteq Rows'
  BY TypeStoreStep, RowsGrow DEF Type, TypeStore, Rows
<1>1. ASSUME NEW s \in Subs, Enqueue(s) PROVE TypeSubs'
  <2>1. Rows' = Rows
    BY <1>1 DEF Enqueue, Rows
  <2>2. CASE Inline(s)
    BY <1>1, <2>1, <2>2 DEF Enqueue, Inline, Type, TypeSubs
  <2>3. CASE Gather(s)
    <3>1. Over(Change, pending[s]) \in Rows
      BY ChangeIsRows, RowsOver DEF Type, TypeStore, TypeSubs, Rows
    <3> QED BY <1>1, <2>1, <2>3, <3>1 DEF Enqueue, Gather, Type, TypeSubs
  <2> QED BY <1>1, <2>2, <2>3 DEF Enqueue
<1>2. ASSUME NEW s \in Subs, Take(s) PROVE TypeSubs'
  <2>1. ws[s] \in Socks /\ pending[s] \in Rows /\ Rows' = Rows /\ NoRows \in Rows
    BY <1>2 DEF Take, storeVars, Type, TypeStore, TypeSubs, Gathers, Rows, NoRows
  <2> QED BY <1>2, <2>1 DEF Take, storeVars, Type, TypeSubs
<1>3. ASSUME NEW b \in flushes, Flush(b) PROVE TypeSubs'
  BY <1>0, <1>3 DEF Flush, storeVars, Type, TypeSubs
<1>4. ASSUME NEW s \in Subs, Post(s) PROVE TypeSubs'
  BY <1>0, <1>4 DEF Post, Type, TypeSubs
<1>5. ASSUME NEW s \in Subs, Remove(s) PROVE TypeSubs'
  BY <1>0, <1>5 DEF Remove, Type, TypeSubs
<1>6. CASE Removed
  BY <1>0, <1>6 DEF Removed, Type, TypeSubs
<1>7. ASSUME NEW k \in Socks, Install(k) PROVE TypeSubs'
  BY <1>0, <1>7 DEF Install, Type, TypeSubs
<1>8. ASSUME NEW k \in Socks, ReadFails(k) PROVE TypeSubs'
  <2>1. of[k] \in Subs
    BY <1>8 DEF ReadFails, Linked, Type, TypeSubs, TypeSocks
  <2> QED BY <1>5, <1>8, <2>1 DEF ReadFails
<1>9. CASE UNCHANGED subVars
  BY <1>0, <1>9 DEF subVars, Type, TypeSubs
<1> QED
  BY <1>1, <1>2, <1>3, <1>4, <1>5, <1>6, <1>7, <1>8, <1>9
  DEF Next, Serve, Write, Collect, Delete, LookUp, Snapshot,
      SendChunk, SyncFails, StartReading, Stall, Resume, Leave, vars

LEMMA TypeSocksStep ==
  ASSUME Type, Serves, Gathers, Linked, [Next]_vars
  PROVE  TypeSocks'
<1>0. Rows \subseteq Rows'
  BY TypeStoreStep, RowsGrow DEF Type, TypeStore, Rows
<1>1. ASSUME NEW s \in Subs, Enqueue(s) PROVE TypeSocks'
  <2>1. CASE Inline(s)
    <3>1. ws[s] \in Socks
      BY <1>1 DEF Enqueue, Serves, Type, TypeSubs
    <3>2. wire' \in [Socks -> Rows] /\ newest' \in [Socks -> Rows]
      BY <2>1, <3>1, ChangeIsRows, PutStep DEF Inline, Type
    <3> QED BY <1>0, <1>1, <3>2 DEF Enqueue, Type, TypeSocks
  <2>2. CASE Gather(s)
    BY <1>0, <1>1, <2>2 DEF Enqueue, Gather, Type, TypeSocks
  <2> QED BY <1>1, <2>1, <2>2 DEF Enqueue
<1>2. ASSUME NEW b \in flushes, Flush(b) PROVE TypeSocks'
  <2>1. wire' \in [Socks -> Rows] /\ newest' \in [Socks -> Rows]
    BY <1>2, PutStep DEF Flush, Type, TypeSubs
  <2> QED BY <1>0, <1>2, <2>1 DEF Flush, Type, TypeSocks
<1>3. CASE Removed
  <2>1. CASE ws[mu] = None
    BY <1>0, <1>3, <2>1 DEF Removed, Type, TypeSocks
  <2>2. CASE ws[mu] # None
    <3>1. ws[mu] \in Socks
      BY <1>3, <2>2 DEF Removed, Type, TypeSubs
    <3>2. /\ peer' \in [Socks -> {"open", "stalled", "gone", "closed"}]
          /\ wire' \in [Socks -> Rows] /\ newest' \in [Socks -> Rows]
      BY <1>3, <2>2, <3>1, LostStep DEF Removed, Close, Type
    <3> QED BY <1>0, <1>3, <3>2 DEF Removed, Type, TypeSocks
  <2> QED BY <2>1, <2>2
<1>4. ASSUME NEW k \in Socks, NEW s \in Subs, LookUp(k, s) PROVE TypeSocks'
  BY <1>0, <1>4 DEF LookUp, Type, TypeSocks
<1>5. ASSUME NEW k \in Socks, Install(k) PROVE TypeSocks'
  BY <1>0, <1>5 DEF Install, Type, TypeSocks
<1>6. ASSUME NEW k \in Socks, Snapshot(k) PROVE TypeSocks'
  <2>1. AllHere \in Rows
    BY DEF AllHere, Rows, Type, TypeStore
  <2> QED BY <1>0, <1>6, <2>1 DEF Snapshot, Type, TypeSocks
<1>7. ASSUME NEW k \in Socks, SendChunk(k) PROVE TypeSocks'
  <2>1. PICK some \in NextChunk(left[k]) :
          /\ Put(k, Only(left[k], some))
          /\ left' = [left EXCEPT ![k] = Only(left[k], Ids \ some)]
    BY <1>7 DEF SendChunk
  <2>2. Only(left[k], some) \in Rows /\ Only(left[k], Ids \ some) \in Rows
    BY RowsOver DEF Rows, Type, TypeStore, TypeSocks
  <2>3. wire' \in [Socks -> Rows] /\ newest' \in [Socks -> Rows]
    BY <2>1, <2>2, PutStep DEF Type
  <2> QED BY <1>0, <1>7, <2>1, <2>2, <2>3 DEF SendChunk, Type, TypeSocks
<1>8. ASSUME NEW k \in Socks, SyncFails(k) PROVE TypeSocks'
  <2>1. NoRows \in Rows
    BY DEF NoRows, Rows, Type, TypeStore
  <2>2. /\ peer' \in [Socks -> {"open", "stalled", "gone", "closed"}]
        /\ wire' \in [Socks -> Rows] /\ newest' \in [Socks -> Rows]
    BY <1>8, LostStep DEF SyncFails, Close, Type
  <2> QED BY <1>0, <1>8, <2>1, <2>2 DEF SyncFails, Type, TypeSocks
<1>9. ASSUME NEW k \in Socks, StartReading(k) \/ ReadFails(k) PROVE TypeSocks'
  BY <1>0, <1>9 DEF StartReading, ReadFails, Type, TypeSocks
<1>10. ASSUME NEW k \in Socks, Stall(k) \/ Resume(k) PROVE TypeSocks'
  BY <1>0, <1>10 DEF Stall, Resume, Type, TypeSocks
<1>11. ASSUME NEW k \in Socks, Leave(k) PROVE TypeSocks'
  <2>1. /\ peer' \in [Socks -> {"open", "stalled", "gone", "closed"}]
        /\ wire' \in [Socks -> Rows] /\ newest' \in [Socks -> Rows]
    BY <1>11, LostStep DEF Leave, Type
  <2> QED BY <1>0, <1>11, <2>1 DEF Leave, Type, TypeSocks
<1>12. CASE UNCHANGED sockVars
  BY <1>0, <1>12 DEF sockVars, Type, TypeSocks
<1> QED
  BY <1>1, <1>2, <1>3, <1>4, <1>5, <1>6, <1>7, <1>8, <1>9, <1>10, <1>11, <1>12
  DEF Next, Serve, Write, Collect, Take, Post, Delete, vars

LEMMA ServesStep ==
  ASSUME Type, Serves, Gathers, Linked, [Next]_vars
  PROVE  Serves'
<1>1. ASSUME NEW i \in Ids, Write(i) PROVE Serves'
  BY <1>1 DEF Write, subVars, Serves
<1>2. CASE Collect
  BY <1>2 DEF Collect, Served, Subscribers, subVars, Serves, Type, TypeSubs
<1>3. ASSUME NEW s \in Subs, Enqueue(s) PROVE Serves'
  BY <1>3 DEF Enqueue, Served, Serves
<1>4. ASSUME NEW k \in Socks, Install(k) PROVE Serves'
  <2>1. \A s \in Subs : ws[s] # None => ws'[s] # None
    BY <1>4 DEF Install, Type, TypeSubs
  <2> QED BY <1>4, <2>1 DEF Install, storeVars, Serves, Type, TypeStore
<1>5. CASE UNCHANGED <<storeVars, ws>>
  BY <1>5 DEF storeVars, Serves
<1> QED
  BY <1>1, <1>2, <1>3, <1>4, <1>5
  DEF Next, Serve, Take, Flush, Post, Delete, Remove, Removed, LookUp, Snapshot, SendChunk,
      SyncFails, StartReading, ReadFails, Stall, Resume, Leave, subVars, vars

LEMMA GathersStep ==
  ASSUME Type, Serves, Gathers, Linked, [Next]_vars
  PROVE  Gathers'
<1>1. ASSUME NEW s \in Subs, Enqueue(s) PROVE Gathers'
  BY <1>1 DEF Enqueue, Inline, Gather, Serves, Gathers, Type, TypeStore, TypeSubs
<1>2. ASSUME NEW s \in Subs, Take(s) PROVE Gathers'
  BY <1>2 DEF Take, Gathers, Type, TypeSubs
<1>3. ASSUME NEW s \in Subs, Remove(s) PROVE Gathers'
  BY <1>3 DEF Remove, Gathers, Type, TypeSubs
<1>4. ASSUME NEW k \in Socks, ReadFails(k) PROVE Gathers'
  <2>1. of[k] \in Subs
    BY <1>4 DEF ReadFails, Linked, Type, TypeSubs, TypeSocks
  <2> QED BY <1>3, <1>4, <2>1 DEF ReadFails
<1>5. ASSUME NEW k \in Socks, Install(k) PROVE Gathers'
  BY <1>5 DEF Install, Gathers, Type, TypeSubs
<1>6. CASE UNCHANGED <<ws, pending, armed>>
  BY <1>6 DEF Gathers
<1> QED
  BY <1>1, <1>2, <1>3, <1>4, <1>5, <1>6
  DEF Next, Serve, Write, Collect, Flush, Post, Delete, Removed, LookUp, Snapshot, SendChunk,
      SyncFails, StartReading, Stall, Resume, Leave, subVars, vars

LEMMA LinkedStep ==
  ASSUME Type, Serves, Gathers, Linked, [Next]_vars
  PROVE  Linked'
<1>1. ASSUME NEW s \in Subs, Enqueue(s) PROVE Linked'
  BY <1>1 DEF Enqueue, Inline, Gather, Linked
<1>2. ASSUME NEW s \in Subs, Take(s) PROVE Linked'
  BY <1>2 DEF Take, sockVars, Linked, Gathers
<1>3. ASSUME NEW b \in flushes, Flush(b) PROVE Linked'
  BY <1>3 DEF Flush, Linked
<1>4. ASSUME NEW s \in Subs, Post(s) PROVE Linked'
  BY <1>4 DEF Post, sockVars, Linked
<1>5. ASSUME NEW k \in Socks, NEW s \in Subs, LookUp(k, s) PROVE Linked'
  BY <1>5 DEF LookUp, subVars, Linked, Type, TypeSubs, TypeSocks
<1>6. ASSUME NEW k \in Socks, Install(k) PROVE Linked'
  BY <1>6 DEF Install, Linked, Type, TypeSubs, TypeSocks
<1>7. ASSUME NEW k \in Socks, pc[k] \notin {"idle", "found"},
             \E v \in {"sync", "reading", "done"} : pc' = [pc EXCEPT ![k] = v],
             UNCHANGED <<posted, ws, flushes, of>>
      PROVE  Linked'
  BY <1>7 DEF Linked, Type, TypeSubs, TypeSocks
<1>8. CASE UNCHANGED <<posted, ws, flushes, pc, of>>
  BY <1>8 DEF Linked
<1>9. ASSUME NEW k \in Socks, Snapshot(k) \/ SyncFails(k) \/ StartReading(k) \/ ReadFails(k)
      PROVE  Linked'
  BY <1>7, <1>9 DEF Snapshot, SyncFails, StartReading, ReadFails, Remove, subVars
<1> QED
  BY <1>1, <1>2, <1>3, <1>4, <1>5, <1>6, <1>8, <1>9
  DEF Next, Serve, Write, Collect, Delete, Remove, Removed, SendChunk,
      Stall, Resume, Leave, subVars, sockVars, vars

LEMMA FreshStep ==
  ASSUME Type, Serves, Linked, Fresh, [Next]_vars
  PROVE  Fresh'
<1>1. ASSUME NEW k \in Socks, pc[k] \notin {"idle", "found"},
             \A j \in Socks \ {k} :
               peer'[j] = peer[j] /\ wire'[j] = wire[j] /\ newest'[j] = newest[j],
             UNCHANGED <<pc, left>>
      PROVE  Fresh'
  BY <1>1 DEF Fresh
<1>2. ASSUME NEW s \in Subs, Enqueue(s) PROVE Fresh'
  <2>1. CASE Inline(s)
    <3>1. ws[s] \in Socks /\ pc[ws[s]] \notin {"idle", "found"}
      BY <1>2 DEF Enqueue, Serves, Linked, Type, TypeSubs
    <3>2. \A j \in Socks \ {ws[s]} : wire'[j] = wire[j] /\ newest'[j] = newest[j]
      BY <2>1, <3>1, ChangeIsRows, PutStep DEF Inline, Type
    <3> QED BY <1>1, <1>2, <3>1, <3>2 DEF Enqueue
  <2>2. CASE Gather(s)
    BY <1>2, <2>2 DEF Enqueue, Gather, Fresh
  <2> QED BY <1>2, <2>1, <2>2 DEF Enqueue
<1>3. ASSUME NEW b \in flushes, Flush(b) PROVE Fresh'
  <2>1. b.ws \in Socks /\ pc[b.ws] \notin {"idle", "found"}
    BY DEF Linked, Type, TypeSubs
  <2>2. \A j \in Socks \ {b.ws} : wire'[j] = wire[j] /\ newest'[j] = newest[j]
    BY <1>3, PutStep DEF Flush, Type, TypeSubs
  <2> QED BY <1>1, <1>3, <2>1, <2>2 DEF Flush
<1>4. CASE Removed
  <2>1. CASE ws[mu] = None
    BY <1>4, <2>1 DEF Removed, Fresh
  <2>2. CASE ws[mu] # None
    <3>1. ws[mu] \in Socks /\ pc[ws[mu]] \notin {"idle", "found"}
      BY <1>4, <2>2 DEF Removed, Linked, Type, TypeSubs
    <3>2. \A j \in Socks \ {ws[mu]} :
            peer'[j] = peer[j] /\ wire'[j] = wire[j] /\ newest'[j] = newest[j]
      BY <1>4, <2>2, <3>1, LostStep DEF Removed, Close, Type
    <3> QED BY <1>1, <1>4, <3>1, <3>2 DEF Removed
  <2> QED BY <2>1, <2>2
<1>5. ASSUME NEW k \in Socks, NEW s \in Subs, LookUp(k, s) PROVE Fresh'
  BY <1>5 DEF LookUp, Fresh, Type, TypeSocks
<1>6. ASSUME NEW k \in Socks, Install(k) PROVE Fresh'
  BY <1>6 DEF Install, Fresh, Type, TypeSocks
<1>7. ASSUME NEW k \in Socks, Snapshot(k) PROVE Fresh'
  BY <1>7 DEF Snapshot, Fresh, Type, TypeSocks
<1>8. ASSUME NEW k \in Socks, SendChunk(k) PROVE Fresh'
  <2>1. PICK some \in NextChunk(left[k]) : Put(k, Only(left[k], some))
    BY <1>8 DEF SendChunk
  <2>2. Only(left[k], some) \in Rows
    BY RowsOver DEF Rows, Type, TypeStore, TypeSocks
  <2>3. \A j \in Socks \ {k} : wire'[j] = wire[j] /\ newest'[j] = newest[j]
    BY <2>1, <2>2, PutStep DEF Type
  <2> QED BY <1>8, <2>3 DEF SendChunk, Fresh, Type, TypeSocks
<1>9. ASSUME NEW k \in Socks, SyncFails(k) PROVE Fresh'
  <2>1. \A j \in Socks \ {k} :
          peer'[j] = peer[j] /\ wire'[j] = wire[j] /\ newest'[j] = newest[j]
    BY <1>9, LostStep DEF SyncFails, Close, Type
  <2> QED BY <1>9, <2>1 DEF SyncFails, Fresh, Type, TypeSocks
<1>10. ASSUME NEW k \in Socks, StartReading(k) \/ ReadFails(k) PROVE Fresh'
  BY <1>10 DEF StartReading, ReadFails, Fresh, Type, TypeSocks
<1>11. ASSUME NEW k \in Socks, Stall(k) \/ Resume(k) PROVE Fresh'
  BY <1>11 DEF Stall, Resume, Fresh, Type, TypeSocks
<1>12. ASSUME NEW k \in Socks, Leave(k) PROVE Fresh'
  <2>1. pc[k] \notin {"idle", "found"}
    BY <1>12 DEF Leave, Fresh
  <2>2. \A j \in Socks \ {k} :
          peer'[j] = peer[j] /\ wire'[j] = wire[j] /\ newest'[j] = newest[j]
    BY <1>12, LostStep DEF Leave, Type
  <2> QED BY <1>1, <1>12, <2>1, <2>2 DEF Leave
<1>13. CASE UNCHANGED sockVars
  BY <1>13 DEF sockVars, Fresh
<1> QED
  BY <1>2, <1>3, <1>4, <1>5, <1>6, <1>7, <1>8, <1>9, <1>10, <1>11, <1>12, <1>13
  DEF Next, Serve, Write, Collect, Take, Post, Delete, vars

LEMMA ShapeStep ==
  ASSUME Shape, [Next]_vars
  PROVE  Shape'
BY TypeStoreStep, TypeSubsStep, TypeSocksStep, ServesStep, GathersStep, LinkedStep, FreshStep
DEF Shape, Type

LEMMA ShapeInit ==
  ASSUME Init
  PROVE  Shape
<1>1. NoRows \in Rows
  BY DEF Init, NoRows, Rows
<1>2. TypeStore
  BY <1>1 DEF Init, TypeStore
<1>3. TypeSubs
  BY <1>1 DEF Init, TypeSubs
<1>4. TypeSocks
  BY <1>1 DEF Init, TypeSocks
<1>5. Serves /\ Gathers
  BY DEF Init, Serves, Gathers
<1>6. Linked /\ Fresh
  BY DEF Init, Linked, Fresh
<1> QED BY <1>2, <1>3, <1>4, <1>5, <1>6 DEF Shape, Type

-----------------------------------------------------------------------------
(* No row, on a socket or on its way to one, is newer than the store's.    *)
Bounded ==
  /\ \A k \in Socks, i \in Ids : /\ newest[k][i] <= version[i]
                                 /\ wire[k][i] <= version[i]
                                 /\ left[k][i] <= version[i]
  /\ \A s \in Subs, i \in Ids : pending[s][i] <= version[i]
  /\ \A b \in flushes, i \in Ids : b.rows[i] <= version[i]

(* What a subscription has gathered of a resource is its last change, or   *)
(* the writer underway is about to replace it.                             *)
Gathered ==
  \A s \in listed, i \in Ids :
    pending[s][i] # 0 =>
      \/ pending[s][i] = version[i]
      \/ writing = i /\ (collected => s \in todo)

(* The socket of a listed subscription.                                    *)
Held(k) == of[k] \in listed /\ ws[of[k]] = k /\ peer[k] \in {"open", "stalled"}

(* A socket has something of a resource: it was shown a row, is about to   *)
(* be, or has its snapshot behind it and the resource is registered.       *)
Known(k, i) ==
  \/ newest[k][i] # 0
  \/ left[k][i] # 0
  \/ \E b \in flushes : b.ws = k /\ b.rows[i] # 0
  \/ pc[k] \in {"sync", "reading"} /\ i \in here

(* It was shown the last change, or that is on its way.                    *)
Told(k, i) == newest[k][i] = version[i] \/ OnItsWay(k, i)

Informed == \A k \in Socks, i \in Ids : Held(k) /\ Known(k, i) => Told(k, i)

LEMMA BoundedStep ==
  ASSUME Shape, Bounded, [Next]_vars
  PROVE  Bounded'
<1>0. \A r \in Rows, i \in Ids : r[i] \in Nat
  BY DEF Rows, Shape, Type, TypeStore
<1>1. ASSUME NEW i \in Ids, Write(i) PROVE Bounded'
  <2>1. \A j \in Ids : version[j] \in Nat /\ version[j] <= version'[j]
    BY <1>1 DEF Write, Shape, Type, TypeStore, Rows
  <2>2. /\ \A k \in Socks, j \in Ids : /\ newest[k][j] \in Nat /\ wire[k][j] \in Nat
                                       /\ left[k][j] \in Nat
        /\ \A s \in Subs, j \in Ids : pending[s][j] \in Nat
        /\ \A b \in flushes, j \in Ids : b.rows[j] \in Nat
    BY <1>0 DEF Shape, Type, TypeSubs, TypeSocks
  <2>3. UNCHANGED <<newest, wire, left, pending, flushes>>
    BY <1>1 DEF Write, subVars, sockVars
  <2>4. version' \in Rows'
    BY TypeStoreStep DEF Shape, Type, TypeStore
  <2>5. \A j \in Ids : version'[j] \in Nat
    BY <2>4, TypeStoreStep DEF Shape, Type, TypeStore, Rows
  <2> QED BY <2>1, <2>2, <2>3, <2>5 DEF Bounded
<1>2. ASSUME NEW s \in Subs, Enqueue(s) PROVE Bounded'
  <2>0. Change \in Rows /\ \A i \in Ids : Change[i] <= version[i]
    BY <1>0, ChangeIsRows DEF Change, Shape, Type, TypeStore, Rows
  <2>1. CASE Inline(s)
    <3>1. ws[s] \in Socks
      BY <1>2 DEF Enqueue, Serves, Shape, Type, TypeSubs
    <3>2. /\ \A j \in Socks \ {ws[s]} : wire'[j] = wire[j] /\ newest'[j] = newest[j]
          /\ \A i \in Ids : /\ wire'[ws[s]][i] \in {wire[ws[s]][i], Change[i]}
                            /\ newest'[ws[s]][i] \in {newest[ws[s]][i], Change[i]}
      BY <2>0, <2>1, <3>1, PutStep DEF Inline, Shape, Type
    <3>3. UNCHANGED <<version, left, pending, flushes>>
      BY <1>2, <2>1 DEF Enqueue, Inline
    <3> QED BY <2>0, <3>1, <3>2, <3>3 DEF Bounded
  <2>2. CASE Gather(s)
    <3>1. \A i \in Ids : Over(Change, pending[s])[i] <= version[i]
      BY <2>0 DEF Over, Bounded
    <3>2. \A t \in Subs, i \in Ids : pending'[t][i] <= version[i]
      BY <2>2, <3>1 DEF Gather, Bounded, Shape, Type, TypeSubs
    <3>3. UNCHANGED <<version, left, wire, newest, flushes>>
      BY <1>2, <2>2 DEF Enqueue, Gather
    <3> QED BY <3>2, <3>3 DEF Bounded
  <2> QED BY <1>2, <2>1, <2>2 DEF Enqueue
<1>3. ASSUME NEW s \in Subs, Take(s) PROVE Bounded'
  <2>1. \A t \in Subs, i \in Ids : pending'[t][i] <= version[i]
    BY <1>0, <1>3 DEF Take, NoRows, Bounded, Shape, Type, TypeStore, TypeSubs
  <2>2. \A b \in flushes', i \in Ids : b.rows[i] <= version[i]
    BY <1>3 DEF Take, Bounded
  <2> QED BY <1>3, <2>1, <2>2 DEF Take, storeVars, sockVars, Bounded
<1>4. ASSUME NEW b \in flushes, Flush(b) PROVE Bounded'
  <2>1. b.ws \in Socks /\ b.rows \in Rows
    BY DEF Shape, Type, TypeSubs
  <2>2. /\ \A j \in Socks \ {b.ws} : wire'[j] = wire[j] /\ newest'[j] = newest[j]
        /\ \A i \in Ids : /\ wire'[b.ws][i] \in {wire[b.ws][i], b.rows[i]}
                          /\ newest'[b.ws][i] \in {newest[b.ws][i], b.rows[i]}
    BY <1>4, <2>1, PutStep DEF Flush, Shape, Type
  <2>3. UNCHANGED <<version, left, pending>> /\ flushes' \subseteq flushes
    BY <1>4 DEF Flush, storeVars
  <2> QED BY <2>1, <2>2, <2>3 DEF Bounded
<1>5. ASSUME NEW k \in Socks,
             \A j \in Socks \ {k} : wire'[j] = wire[j] /\ newest'[j] = newest[j],
             wire'[k] = NoRows /\ newest'[k] = NoRows,
             \A j \in Socks : left'[j] \in {left[j], NoRows},
             UNCHANGED <<version, pending, flushes>>
      PROVE  Bounded'
  <2>1. \A i \in Ids : NoRows[i] = 0 /\ 0 <= version[i]
    BY <1>0 DEF NoRows, Shape, Type, TypeStore
  <2> QED BY <1>5, <2>1 DEF Bounded
<1>6. CASE Removed
  <2>1. CASE ws[mu] = None
    BY <1>6, <2>1 DEF Removed, storeVars, Bounded
  <2>2. CASE ws[mu] # None
    <3>1. ws[mu] \in Socks
      BY <1>6, <2>2 DEF Removed, Shape, Type, TypeSubs
    <3>2. /\ \A j \in Socks \ {ws[mu]} : wire'[j] = wire[j] /\ newest'[j] = newest[j]
          /\ wire'[ws[mu]] = NoRows /\ newest'[ws[mu]] = NoRows
      BY <1>6, <2>2, <3>1, LostStep DEF Removed, Close, Shape, Type
    <3> QED BY <1>5, <1>6, <3>1, <3>2 DEF Removed, storeVars
  <2> QED BY <2>1, <2>2
<1>7. ASSUME NEW k \in Socks, Snapshot(k) PROVE Bounded'
  <2>1. \A i \in Ids : AllHere[i] <= version[i]
    BY <1>0 DEF AllHere, Shape, Type, TypeStore
  <2>2. \A j \in Socks, i \in Ids : left'[j][i] <= version[i]
    BY <1>7, <2>1 DEF Snapshot, Bounded, Shape, Type, TypeSocks
  <2> QED BY <1>7, <2>2 DEF Snapshot, storeVars, subVars, Bounded
<1>8. ASSUME NEW k \in Socks, SendChunk(k) PROVE Bounded'
  <2>1. PICK some \in NextChunk(left[k]) :
          /\ Put(k, Only(left[k], some))
          /\ left' = [left EXCEPT ![k] = Only(left[k], Ids \ some)]
    BY <1>8 DEF SendChunk
  <2>2. \A i \in Ids : /\ Only(left[k], some)[i] <= version[i]
                     /\ Only(left[k], Ids \ some)[i] <= version[i]
    BY <1>0 DEF Only, Bounded, Shape, Type, TypeStore
  <2>3. Only(left[k], some) \in Rows
    BY RowsOver DEF Rows, Shape, Type, TypeStore, TypeSocks
  <2>4. /\ \A j \in Socks \ {k} : wire'[j] = wire[j] /\ newest'[j] = newest[j]
        /\ \A i \in Ids : /\ wire'[k][i] \in {wire[k][i], Only(left[k], some)[i]}
                          /\ newest'[k][i] \in {newest[k][i], Only(left[k], some)[i]}
    BY <2>1, <2>3, PutStep DEF Shape, Type
  <2>5. \A j \in Socks, i \in Ids : left'[j][i] <= version[i]
    BY <2>1, <2>2 DEF Bounded, Shape, Type, TypeSocks
  <2>6. \A j \in Socks, i \in Ids : wire'[j][i] <= version[i] /\ newest'[j][i] <= version[i]
    BY <2>2, <2>4 DEF Bounded
  <2>7. UNCHANGED <<version, pending, flushes>>
    BY <1>8 DEF SendChunk, storeVars, subVars
  <2> QED BY <2>5, <2>6, <2>7 DEF Bounded
<1>9. ASSUME NEW k \in Socks, SyncFails(k) PROVE Bounded'
  <2>1. /\ \A j \in Socks \ {k} : wire'[j] = wire[j] /\ newest'[j] = newest[j]
        /\ wire'[k] = NoRows /\ newest'[k] = NoRows
    BY <1>9, LostStep DEF SyncFails, Close, Shape, Type
  <2>2. \A j \in Socks : left'[j] \in {left[j], NoRows}
    BY <1>9 DEF SyncFails, Shape, Type, TypeSocks
  <2> QED BY <1>5, <1>9, <2>1, <2>2 DEF SyncFails, storeVars, subVars
<1>10. ASSUME NEW k \in Socks, Leave(k) PROVE Bounded'
  <2>1. /\ \A j \in Socks \ {k} : wire'[j] = wire[j] /\ newest'[j] = newest[j]
        /\ wire'[k] = NoRows /\ newest'[k] = NoRows
    BY <1>10, LostStep DEF Leave, Shape, Type
  <2> QED BY <1>5, <1>10, <2>1 DEF Leave, storeVars, subVars
<1>11. CASE UNCHANGED <<version, left, wire, newest, pending, flushes>>
  BY <1>11 DEF Bounded
<1> QED
  BY <1>1, <1>2, <1>3, <1>4, <1>6, <1>7, <1>8, <1>9, <1>10, <1>11
  DEF Next, Serve, Collect, Post, Delete, Remove, LookUp, Install, StartReading, ReadFails,
      Stall, Resume, storeVars, subVars, sockVars, vars

LEMMA BoundedInit ==
  ASSUME Init
  PROVE  Bounded
BY DEF Init, Bounded, NoRows

(* A gathered row goes stale only by a write, which Collect and Enqueue    *)
(* bring to every subscription with a socket.                              *)
LEMMA GatheredStep ==
  ASSUME Shape, Bounded, Gathered, [Next]_vars
  PROVE  Gathered'
<1>1. ASSUME NEW i \in Ids, Write(i) PROVE Gathered'
  BY <1>1 DEF Write, subVars, Gathered, Shape, Type, TypeStore, TypeSubs, Rows
<1>2. CASE Collect
  <2>1. ASSUME NEW s \in listed, NEW i \in Ids, pending[s][i] # 0 PROVE s \in Subscribers
    BY <2>1 DEF Subscribers, Gathers, NoRows, Shape, Type, TypeSubs
  <2> QED BY <1>2, <2>1 DEF Collect, Served, subVars, Gathered
<1>3. ASSUME NEW s \in Subs, Enqueue(s) PROVE Gathered'
  <2> SUFFICES ASSUME NEW t \in listed, NEW i \in Ids, pending'[t][i] # 0,
                      pending'[t][i] # version[i]
               PROVE  writing' = i /\ (collected' => t \in todo')
    BY <1>3 DEF Enqueue, Gathered
  <2>1. writing \in Ids /\ version[writing] = Change[writing]
    BY <1>3 DEF Enqueue, Serves, Change, Shape, Type, TypeStore
  <2>2. t # s
    <3>1. SUFFICES ASSUME t = s PROVE FALSE
      OBVIOUS
    <3>2. CASE s \notin Rated
      <4>1. pending'[s] = NoRows
        BY <1>3, <3>2 DEF Enqueue, Inline, Gathers, Shape
      <4> QED BY <3>1, <4>1 DEF NoRows
    <3>3. CASE s \in Rated
      <4>1. pending'[s] = Over(Change, pending[s])
        BY <1>3, <3>3 DEF Enqueue, Gather, Shape, Type, TypeSubs
      <4>2. pending'[s][i] = IF Change[i] = 0 THEN pending[s][i] ELSE Change[i]
        BY <4>1 DEF Over
      <4>3. pending[s][i] \in Nat /\ pending[s][i] <= version[i]
        BY DEF Bounded, Shape, Type, TypeStore, TypeSubs, Rows
      <4>4. i # writing
        BY <2>1, <3>1, <4>2, <4>3
      <4>5. pending'[s][i] = pending[s][i]
        BY <4>2, <4>4 DEF Change
      <4> QED BY <3>1, <4>4, <4>5 DEF Gathered
    <3> QED BY <3>2, <3>3
  <2>3. pending'[t] = pending[t]
    BY <1>3, <2>2 DEF Enqueue, Inline, Gather, Shape, Type, TypeSubs
  <2>4. writing = i /\ t \in todo
    BY <1>3, <2>3 DEF Enqueue, Gathered
  <2> QED BY <1>3, <2>2, <2>4 DEF Enqueue, Served
<1>4. ASSUME NEW s \in Subs, Take(s) PROVE Gathered'
  BY <1>4 DEF Take, storeVars, NoRows, Gathered, Shape, Type, TypeSubs
<1>5. ASSUME NEW s \in Subs, Post(s) PROVE Gathered'
  <2>1. pending[s] = NoRows
    BY <1>5 DEF Post, Gathers, Linked, Shape, Type, TypeSubs, TypeSocks
  <2> QED BY <1>5, <2>1 DEF Post, storeVars, NoRows, Gathered
<1>6. CASE Removed
  BY <1>6 DEF Removed, storeVars, Gathered
<1>7. CASE UNCHANGED <<storeVars, pending, listed>>
  BY <1>7 DEF storeVars, Gathered
<1> QED
  BY <1>1, <1>2, <1>3, <1>4, <1>5, <1>6, <1>7
  DEF Next, Serve, Flush, Delete, Remove, LookUp, Install, Snapshot, SendChunk, SyncFails,
      StartReading, ReadFails, Stall, Resume, Leave, subVars, vars

(* The heart of the proof: the last change of a resource moves from the    *)
(* writer to the gathered rows, to a flush and to the wire, or from the    *)
(* snapshot to the wire, and no step drops it.  The snapshot is taken with *)
(* no write underway (SnapshotChangesFor waits for the store's lock), and  *)
(* a socket is assigned before it.                                         *)
LEMMA InformedStep ==
  ASSUME Shape, Bounded, Gathered, Informed, [Next]_vars
  PROVE  Informed'
<1> SUFFICES ASSUME NEW k \in Socks, NEW i \in Ids, Held(k)', Known(k, i)'
             PROVE  Told(k, i)'
  BY DEF Informed
<1>0. /\ Held(k) /\ Known(k, i) => Told(k, i)
      /\ version[i] \in Nat /\ newest[k][i] \in Nat /\ newest[k][i] <= version[i]
  BY DEF Informed, Bounded, Shape, Type, TypeStore, TypeSocks, Rows
<1>1. ASSUME NEW j \in Ids, Write(j) PROVE Told(k, i)'
  <2>1. CASE i = j
    BY <1>1, <2>1 DEF Write, Told, OnItsWay
  <2>2. CASE i # j
    <3>1. version'[i] = version[i] /\ (i \in here' => i \in here)
      BY <1>1, <2>2 DEF Write, Shape, Type, TypeStore, Rows
    <3>2. Held(k) /\ Known(k, i)
      BY <1>1, <3>1 DEF Write, subVars, sockVars, Held, Known
    <3>3. writing # i
      BY <1>1 DEF Write
    <3> QED BY <1>0, <1>1, <3>1, <3>2, <3>3 DEF Write, subVars, sockVars, Told, OnItsWay
  <2> QED BY <2>1, <2>2
<1>2. CASE Collect
  <2>1. Held(k) /\ Known(k, i)
    BY <1>2 DEF Collect, subVars, sockVars, Held, Known
  <2>2. of[k] \in todo'
    BY <1>2, <2>1 DEF Collect, Subscribers, Held
  <2> QED BY <1>0, <1>2, <2>1, <2>2 DEF Collect, Served, subVars, sockVars, Told, OnItsWay
<1>3. ASSUME NEW s \in Subs, Enqueue(s) PROVE Told(k, i)'
  <2>1. /\ UNCHANGED <<here, version, listed, ws, pc, of, left, peer>>
        /\ todo' = todo \ {s} /\ collected
        /\ collected' = (todo' # {}) /\ writing' = IF todo' = {} THEN None ELSE writing
    BY <1>3 DEF Enqueue, Served
  <2>2. Held(k)
    BY <2>1 DEF Held
  <2>3. ws[s] \in Socks /\ of[ws[s]] = s /\ writing \in Ids
    BY <1>3 DEF Enqueue, Serves, Linked, Shape, Type, TypeStore, TypeSubs
  <2>4. /\ Change \in Rows /\ Change[i] \in Nat
        /\ i = writing => Change[i] = version[i]
        /\ i # writing => Change[i] = 0
    BY ChangeIsRows DEF Change, Rows, Shape, Type, TypeStore
  <2>5. CASE Inline(s)
    <3>1. peer[ws[s]] # "stalled" /\ UNCHANGED <<pending, flushes>>
      BY <2>5 DEF Inline, CanSend
    <3>2. /\ \A j \in Socks \ {ws[s]} : newest'[j] = newest[j]
          /\ Change[i] = 0 => newest'[ws[s]][i] = newest[ws[s]][i]
          /\ peer[ws[s]] = "open" => newest'[ws[s]][i] >= Change[i]
      BY <2>3, <2>4, <2>5, PutStep DEF Inline, Shape, Type
    <3>3. CASE k = ws[s] /\ i = writing
      <4>1. newest'[k][i] >= version[i]
        BY <2>2, <2>4, <3>1, <3>2, <3>3 DEF Held
      <4>2. newest'[k][i] <= version'[i] /\ newest'[k][i] \in Nat
        BY BoundedStep, ShapeStep DEF Bounded, Shape, Type, TypeStore, TypeSocks, Rows
      <4> QED BY <1>0, <2>1, <4>1, <4>2 DEF Told
    <3>4. CASE ~(k = ws[s] /\ i = writing)
      <4>1. newest'[k][i] = newest[k][i]
        BY <2>4, <3>2, <3>4
      <4>2. Known(k, i)
        BY <2>1, <3>1, <4>1 DEF Known
      <4>3. writing = i => of[k] # s
        BY <2>2, <3>4 DEF Held
      <4> QED BY <1>0, <2>1, <2>2, <3>1, <4>1, <4>2, <4>3 DEF Told, OnItsWay
    <3> QED BY <3>3, <3>4
  <2>6. CASE Gather(s)
    <3>1. UNCHANGED <<flushes, wire, newest>>
      BY <2>6 DEF Gather
    <3>2. Known(k, i)
      BY <2>1, <3>1 DEF Known
    <3>3. of[k] \in Subs
      BY <2>2 DEF Held, Shape, Type, TypeSubs
    <3>4. CASE of[k] = s
      <4>1. pending'[s][i] = IF Change[i] = 0 THEN pending[s][i] ELSE Change[i]
        BY <2>6 DEF Gather, Over, Shape, Type, TypeSubs
      <4>2. CASE i = writing /\ Change[i] # 0
        BY <2>1, <2>4, <3>4, <4>1, <4>2 DEF Told, OnItsWay
      <4>3. CASE i = writing /\ Change[i] = 0
        <5>1. version[i] = 0
          BY <2>4, <4>3
        <5>2. newest'[k][i] = version'[i]
          BY <1>0, <2>1, <3>1, <5>1
        <5> QED BY <5>2 DEF Told
      <4>4. CASE i # writing
        BY <1>0, <2>1, <2>2, <2>4, <3>1, <3>2, <3>4, <4>1, <4>4 DEF Told, OnItsWay
      <4> QED BY <4>2, <4>3, <4>4
    <3>5. CASE of[k] # s
      <4>1. pending'[of[k]] = pending[of[k]]
        BY <2>6, <3>3, <3>5 DEF Gather, Shape, Type, TypeSubs
      <4> QED BY <1>0, <2>1, <2>2, <3>1, <3>2, <3>5, <4>1 DEF Told, OnItsWay
    <3> QED BY <3>4, <3>5
  <2> QED BY <1>3, <2>5, <2>6 DEF Enqueue
<1>4. ASSUME NEW s \in Subs, Take(s) PROVE Told(k, i)'
  <2>1. /\ UNCHANGED <<here, version, writing, collected, todo, listed, ws, sockVars>>
        /\ flushes' = flushes \cup {[ws |-> ws[s], rows |-> pending[s]]}
        /\ \A t \in Subs \ {s} : pending'[t] = pending[t]
    BY <1>4 DEF Take, storeVars, Shape, Type, TypeSubs
  <2>2. Held(k) /\ of[k] \in Subs
    BY <2>1 DEF sockVars, Held, Shape, Type, TypeSubs
  <2>3. CASE of[k] = s
    <3>1. ws[s] = k /\ s \in listed
      BY <2>2, <2>3 DEF Held
    <3>2. pending[s][i] = version[i] => Told(k, i)'
      <4> DEFINE b == [ws |-> ws[s], rows |-> pending[s]]
      <4>1. b \in flushes' /\ b.ws = k /\ b.rows = pending[s]
        BY <2>1, <3>1
      <4> HIDE DEF b
      <4> QED BY <2>1, <4>1 DEF Told, OnItsWay
    <3>3. CASE pending[s][i] # 0
      <4>1. \/ pending[s][i] = version[i]
            \/ writing = i /\ (collected => s \in todo)
        BY <3>1, <3>3 DEF Gathered
      <4> QED BY <2>1, <2>3, <3>2, <4>1 DEF sockVars, Told, OnItsWay
    <3>4. CASE pending[s][i] = 0
      <4>1. Known(k, i)
        BY <2>1, <3>4 DEF sockVars, Known
      <4> QED BY <1>0, <2>1, <2>2, <2>3, <3>2, <4>1 DEF sockVars, Told, OnItsWay
    <3> QED BY <3>3, <3>4
  <2>4. CASE of[k] # s
    <3>1. ws[s] # k
      BY <1>4, <2>4 DEF Take, Gathers, Linked, Shape
    <3>2. Known(k, i)
      BY <2>1, <3>1 DEF sockVars, Known
    <3> QED BY <1>0, <2>1, <2>2, <2>4, <3>2 DEF sockVars, Told, OnItsWay
  <2> QED BY <2>3, <2>4
<1>5. ASSUME NEW b \in flushes, Flush(b) PROVE Told(k, i)'
  <2>1. /\ UNCHANGED <<storeVars, listed, ws, pending, pc, of, left, peer>>
        /\ flushes' = flushes \ {b} /\ peer[b.ws] # "stalled"
        /\ b.ws \in Socks /\ b.rows \in Rows
    BY <1>5 DEF Flush, CanSend, Shape, Type, TypeSubs
  <2>2. Held(k)
    BY <2>1 DEF Held
  <2>3. /\ \A j \in Socks \ {b.ws} : newest'[j] = newest[j]
        /\ newest'[b.ws][i] \in {newest[b.ws][i], b.rows[i]}
        /\ peer[b.ws] = "open" =>
             newest'[b.ws][i] >= b.rows[i] /\ newest'[b.ws][i] >= newest[b.ws][i]
    BY <1>5, <2>1, PutStep DEF Flush, Shape, Type
  <2>4. Known(k, i)
    BY <2>1, <2>3 DEF storeVars, Known
  <2>5. CASE b.ws = k
    <3>1. newest'[k][i] >= b.rows[i] /\ newest'[k][i] >= newest[k][i]
      BY <2>1, <2>2, <2>3, <2>5 DEF Held
    <3>2. newest'[k][i] <= version[i] /\ newest'[k][i] \in Nat
      BY <2>1, BoundedStep, ShapeStep
      DEF storeVars, Bounded, Shape, Type, TypeStore, TypeSocks, Rows
    <3>3. b.rows[i] = version[i] \/ newest[k][i] = version[i] => newest'[k][i] = version'[i]
      BY <1>0, <2>1, <3>1, <3>2 DEF storeVars
    <3> QED BY <1>0, <2>1, <2>2, <2>4, <3>3 DEF storeVars, Told, OnItsWay
  <2>6. CASE b.ws # k
    BY <1>0, <2>1, <2>2, <2>3, <2>4, <2>6 DEF storeVars, Told, OnItsWay
  <2> QED BY <2>5, <2>6
<1>6. ASSUME Held(k), newest'[k] = newest[k], left'[k] = left[k],
             pc'[k] \in {"sync", "reading"} => pc[k] \in {"sync", "reading"},
             UNCHANGED <<storeVars, pending, flushes, of>>
      PROVE  Told(k, i)'
  <2>1. Known(k, i)
    BY <1>6 DEF storeVars, Known
  <2> QED BY <1>0, <1>6, <2>1 DEF storeVars, Told, OnItsWay
<1>7. ASSUME NEW s \in Subs, Post(s) PROVE Told(k, i)'
  <2>1. Held(k)
    BY <1>7 DEF Post, Held, Linked, sockVars, Shape, Type, TypeSubs, TypeSocks
  <2> QED BY <1>6, <1>7, <2>1 DEF Post, sockVars
<1>8. CASE Removed
  <2>1. of[k] # mu /\ of[k] \in listed /\ ws[of[k]] = k
    BY <1>8 DEF Removed, Held
  <2>2. ws[mu] = None \/ ws[mu] \in Socks \ {k}
    BY <1>8, <2>1 DEF Removed, Linked, Shape, Type, TypeSubs
  <2>3. newest'[k] = newest[k] /\ peer'[k] = peer[k]
    BY <1>8, <2>2, LostStep DEF Removed, Close, Shape, Type
  <2>4. Held(k)
    BY <2>1, <2>3 DEF Held
  <2> QED BY <1>6, <1>8, <2>3, <2>4 DEF Removed
<1>9. ASSUME NEW j \in Socks, NEW s \in Subs, LookUp(j, s) PROVE Told(k, i)'
  <2>1. peer[k] # "closed"
    BY <1>9 DEF LookUp, Held
  <2>2. j # k
    BY <1>9, <2>1 DEF LookUp, Fresh, Shape
  <2>3. of'[k] = of[k] /\ pc'[k] = pc[k]
    BY <1>9, <2>2 DEF LookUp, Shape, Type, TypeSocks
  <2>4. Held(k) /\ Known(k, i)
    BY <1>9, <2>3 DEF LookUp, subVars, storeVars, Held, Known
  <2> QED BY <1>0, <1>9, <2>3, <2>4 DEF LookUp, subVars, storeVars, Told, OnItsWay
<1>10. ASSUME NEW j \in Socks, Install(j) PROVE Told(k, i)'
  <2>1. CASE j = k
    <3>1. newest[k] = NoRows /\ left[k] = NoRows /\ (\A b \in flushes : b.ws # k)
      BY <1>10, <2>1 DEF Install, Fresh, Linked, Shape
    <3>2. pc'[k] = "installed"
      BY <1>10, <2>1 DEF Install, Shape, Type, TypeSocks
    <3>3. ~Known(k, i)'
      BY <1>10, <3>1, <3>2 DEF Install, Known, NoRows
    <3> QED BY <3>3
  <2>2. CASE j # k
    <3>1. pc'[k] = pc[k] /\ peer'[k] = peer[k]
      BY <1>10, <2>2 DEF Install, Shape, Type, TypeSocks
    <3>2. of[k] \in listed /\ ws'[of[k]] = k
      BY <1>10 DEF Install, Held
    <3>3. ws[of[k]] = k
      BY <1>10, <2>2, <3>2 DEF Install, Shape, Type, TypeSubs
    <3>4. Held(k)
      BY <3>1, <3>2, <3>3 DEF Held
    <3> QED BY <1>6, <1>10, <3>1, <3>4 DEF Install
  <2> QED BY <2>1, <2>2
<1>11. ASSUME NEW j \in Socks, Snapshot(j) PROVE Told(k, i)'
  <2>1. Held(k)
    BY <1>11 DEF Snapshot, subVars, Held
  <2>2. CASE j = k
    <3>1. left'[k] = AllHere /\ left[k] = NoRows
      BY <1>11, <2>2 DEF Snapshot, Fresh, Shape, Type, TypeSocks
    <3>2. CASE i \in here
      <4>1. left'[k][i] = version'[i]
        BY <1>11, <3>1, <3>2 DEF Snapshot, storeVars, AllHere
      <4> QED BY <4>1 DEF Told, OnItsWay
    <3>3. CASE i \notin here
      <4>1. left'[k][i] = 0 /\ left[k][i] = 0
        BY <3>1, <3>3 DEF AllHere, NoRows
      <4>2. Known(k, i)
        BY <1>11, <3>3, <4>1 DEF Snapshot, storeVars, subVars, Known
      <4> QED BY <1>0, <1>11, <2>1, <4>1, <4>2 DEF Snapshot, storeVars, subVars, Told, OnItsWay
    <3> QED BY <3>2, <3>3
  <2>3. CASE j # k
    BY <1>6, <1>11, <2>1, <2>3 DEF Snapshot, subVars, Shape, Type, TypeSocks
  <2> QED BY <2>2, <2>3
<1>12. ASSUME NEW j \in Socks, SendChunk(j) PROVE Told(k, i)'
  <2>1. Held(k)
    BY <1>12 DEF SendChunk, subVars, Held
  <2>2. PICK some \in NextChunk(left[j]) :
          /\ Put(j, Only(left[j], some))
          /\ left' = [left EXCEPT ![j] = Only(left[j], Ids \ some)]
    BY <1>12 DEF SendChunk
  <2> DEFINE r == Only(left[j], some)
  <2>3. r \in Rows /\ r[i] = (IF i \in some THEN left[j][i] ELSE 0)
    BY RowsOver DEF Only, Rows, Shape, Type, TypeStore, TypeSocks
  <2>4. left'[j][i] = IF i \in some THEN 0 ELSE left[j][i]
    BY <2>2 DEF Only, Shape, Type, TypeSocks
  <2> HIDE DEF r
  <2>5. /\ \A l \in Socks \ {j} : newest'[l] = newest[l]
        /\ newest'[j][i] \in {newest[j][i], r[i]}
        /\ peer[j] = "open" => newest'[j][i] >= r[i] /\ newest'[j][i] >= newest[j][i]
    BY <2>2, <2>3, PutStep DEF r, Shape, Type
  <2>6. CASE j = k
    <3>1. newest'[k][i] >= r[i] /\ newest'[k][i] >= newest[k][i]
      BY <1>12, <2>1, <2>5, <2>6 DEF SendChunk, Held
    <3>2. newest'[k][i] <= version[i] /\ newest'[k][i] \in Nat
      BY <1>12, BoundedStep, ShapeStep
      DEF SendChunk, storeVars, Bounded, Shape, Type, TypeStore, TypeSocks, Rows
    <3>3. Known(k, i)
      BY <1>12, <2>3, <2>4, <2>5, <2>6 DEF SendChunk, storeVars, subVars, Known
    <3>4. r[i] = version[i] \/ newest[k][i] = version[i] => newest'[k][i] = version'[i]
      BY <1>0, <1>12, <3>1, <3>2 DEF SendChunk, storeVars
    <3> QED BY <1>0, <1>12, <2>1, <2>3, <2>4, <2>6, <3>3, <3>4
        DEF SendChunk, storeVars, subVars, Told, OnItsWay
  <2>7. CASE j # k
    <3>1. left'[k] = left[k]
      BY <2>2, <2>7 DEF Shape, Type, TypeSocks
    <3> QED BY <1>6, <1>12, <2>1, <2>5, <2>7, <3>1 DEF SendChunk, subVars
  <2> QED BY <2>6, <2>7
<1>13. ASSUME NEW j \in Socks, SyncFails(j) PROVE Told(k, i)'
  <2>1. /\ \A l \in Socks \ {j} : peer'[l] = peer[l] /\ newest'[l] = newest[l]
        /\ peer'[j] = "closed"
    BY <1>13, LostStep DEF SyncFails, Close, Shape, Type
  <2>2. j # k
    BY <2>1 DEF Held
  <2>3. Held(k)
    BY <1>13, <2>1, <2>2 DEF SyncFails, subVars, Held
  <2> QED BY <1>6, <1>13, <2>1, <2>2, <2>3 DEF SyncFails, subVars, Shape, Type, TypeSocks
<1>14. ASSUME NEW j \in Socks, StartReading(j) \/ ReadFails(j) PROVE Told(k, i)'
  <2>1. Held(k)
    BY <1>14 DEF StartReading, ReadFails, Remove, subVars, Held
  <2>2. pc'[k] \in {"sync", "reading"} => pc[k] \in {"sync", "reading"}
    BY <1>14 DEF StartReading, ReadFails, Shape, Type, TypeSocks
  <2> QED BY <1>6, <1>14, <2>1, <2>2 DEF StartReading, ReadFails, Remove, subVars
<1>15. ASSUME NEW j \in Socks, Stall(j) \/ Resume(j) PROVE Told(k, i)'
  <2>1. Held(k)
    BY <1>15 DEF Stall, Resume, subVars, Held, Shape, Type, TypeSocks
  <2> QED BY <1>6, <1>15, <2>1 DEF Stall, Resume, subVars
<1>16. ASSUME NEW j \in Socks, Leave(j) PROVE Told(k, i)'
  <2>1. /\ \A l \in Socks \ {j} : peer'[l] = peer[l] /\ newest'[l] = newest[l]
        /\ peer'[j] = "gone"
    BY <1>16, LostStep DEF Leave, Shape, Type
  <2>2. j # k
    BY <2>1 DEF Held
  <2>3. Held(k)
    BY <1>16, <2>1, <2>2 DEF Leave, subVars, Held
  <2> QED BY <1>6, <1>16, <2>1, <2>2, <2>3 DEF Leave, subVars
<1>17. ASSUME NEW s \in Subs, Delete(s) PROVE Told(k, i)'
  <2>1. Held(k)
    BY <1>17 DEF Delete, Remove, sockVars, Held
  <2> QED BY <1>6, <1>17, <2>1 DEF Delete, Remove, sockVars
<1>18. CASE UNCHANGED vars
  <2>1. Held(k)
    BY <1>18 DEF vars, subVars, sockVars, Held
  <2> QED BY <1>6, <1>18, <2>1 DEF vars, subVars, sockVars
<1> QED
  BY <1>1, <1>2, <1>3, <1>4, <1>5, <1>7, <1>8, <1>9, <1>10, <1>11, <1>12, <1>13, <1>14,
     <1>15, <1>16, <1>17, <1>18
  DEF Next, Serve

-----------------------------------------------------------------------------
(* SocketsAreHeld is preserved: removeSub closes the socket it lets go of. *)
LEMMA HeldStep ==
  ASSUME Shape, SocketsAreHeld, [Next]_vars
  PROVE  SocketsAreHeld'
<1> SUFFICES ASSUME NEW k \in Socks, peer'[k] # "closed"
             PROVE  of'[k] \in listed' \/ ws'[of'[k]] # k \/ k \in late'
  BY DEF SocketsAreHeld
<1>1. ASSUME peer[k] # "closed", UNCHANGED <<of, ws, late>>, listed \subseteq listed'
      PROVE  of'[k] \in listed' \/ ws'[of'[k]] # k \/ k \in late'
  BY <1>1 DEF SocketsAreHeld
<1>2. CASE Removed
  <2>1. k # ws[mu] /\ peer[k] # "closed"
    <3>1. CASE ws[mu] = None
      BY <1>2, <3>1 DEF Removed
    <3>2. CASE ws[mu] # None
      <4>1. ws[mu] \in Socks
        BY <1>2, <3>2 DEF Removed, Shape, Type, TypeSubs
      <4> QED BY <1>2, <3>2, <4>1, LostStep DEF Removed, Close, Shape, Type
    <3> QED BY <3>1, <3>2
  <2> QED BY <1>2, <2>1 DEF Removed, SocketsAreHeld
<1>3. ASSUME NEW j \in Socks, NEW s \in Subs, LookUp(j, s)
      PROVE  of'[k] \in listed' \/ ws'[of'[k]] # k \/ k \in late'
  <2>1. peer[k] # "closed" /\ pc[j] = "idle"
    BY <1>3 DEF LookUp
  <2>2. of'[k] = of[k]
    BY <1>3, <2>1 DEF LookUp, Fresh, Shape, Type, TypeSocks
  <2> QED BY <1>3, <2>1, <2>2 DEF LookUp, subVars, SocketsAreHeld
<1>4. ASSUME NEW j \in Socks, Install(j)
      PROVE  of'[k] \in listed' \/ ws'[of'[k]] # k \/ k \in late'
  <2>1. CASE j = k
    BY <1>4, <2>1 DEF Install
  <2>2. CASE j # k
    <3>1. peer[k] # "closed"
      BY <1>4, <2>2 DEF Install, Shape, Type, TypeSocks
    <3>2. ws'[of[k]] \in {ws[of[k]], j}
      BY <1>4 DEF Install, Shape, Type, TypeSubs
    <3>3. late \subseteq late'
      BY <1>4 DEF Install
    <3> QED BY <1>4, <2>2, <3>1, <3>2, <3>3 DEF Install, SocketsAreHeld
  <2> QED BY <2>1, <2>2
<1>5. ASSUME NEW j \in Socks, SyncFails(j)
      PROVE  of'[k] \in listed' \/ ws'[of'[k]] # k \/ k \in late'
  <2>1. peer[k] # "closed"
    BY <1>5, LostStep DEF SyncFails, Close, Shape, Type
  <2> QED BY <1>1, <1>5, <2>1 DEF SyncFails, subVars
<1>6. ASSUME NEW j \in Socks, Stall(j) \/ Resume(j) \/ Leave(j)
      PROVE  of'[k] \in listed' \/ ws'[of'[k]] # k \/ k \in late'
  <2>1. peer[k] # "closed"
    BY <1>6 DEF Stall, Resume, Leave, Lost, Shape, Type, TypeSocks
  <2> QED BY <1>1, <1>6, <2>1 DEF Stall, Resume, Leave, subVars
<1>7. CASE UNCHANGED <<of, ws, late, peer>> /\ listed \subseteq listed'
  BY <1>1, <1>7
<1> QED
  BY <1>2, <1>3, <1>4, <1>5, <1>6, <1>7
  DEF Next, Serve, Write, Collect, Enqueue, Take, Flush, Post, Delete, Remove, Snapshot,
      SendChunk, StartReading, ReadFails, subVars, sockVars, vars

(* An open socket's row goes back only where NeverGoesBack allows it: an   *)
(* inline send shows the write underway, which nothing is newer than.      *)
LEMMA OrderStep ==
  ASSUME Shape, Bounded, [Next]_vars, NEW k \in Socks, NEW i \in Ids,
         peer'[k] = "open", wire'[k][i] < wire[k][i]
  PROVE  pc[k] = "sync" \/ of[k] \in Rated
<1>0. version[i] \in Nat /\ wire[k][i] \in Nat /\ wire[k][i] <= version[i]
  BY DEF Bounded, Shape, Type, TypeStore, TypeSocks, Rows
<1>1. wire'[k] # wire[k]
  BY <1>0
<1>2. ASSUME NEW s \in Subs, Enqueue(s) PROVE of[k] \in Rated
  <2>1. ws[s] \in Socks /\ of[ws[s]] = s
    BY <1>2 DEF Enqueue, Serves, Linked, Shape, Type, TypeSubs
  <2>2. CASE s \in Rated
    BY <1>1, <1>2, <2>2 DEF Enqueue, Gather
  <2>3. CASE s \notin Rated
    <3>1. Inline(s) /\ peer[k] = "open"
      BY <1>2, <2>3 DEF Enqueue
    <3>2. Change \in Rows /\ Change[i] \in {0, version[i]}
      BY ChangeIsRows DEF Change, Shape, Type
    <3>3. /\ \A j \in Socks \ {ws[s]} : wire'[j] = wire[j]
          /\ Change[i] = 0 => wire'[ws[s]][i] = wire[ws[s]][i]
          /\ wire'[ws[s]][i] \in {wire[ws[s]][i], Change[i]}
      BY <2>1, <3>1, <3>2, PutStep DEF Inline, Shape, Type
    <3> QED BY <1>0, <1>1, <3>2, <3>3
  <2> QED BY <2>2, <2>3
<1>3. ASSUME NEW b \in flushes, Flush(b) PROVE of[k] \in Rated
  <2>1. k = b.ws
    BY <1>1, <1>3, PutStep DEF Flush, Shape, Type, TypeSubs
  <2> QED BY <2>1 DEF Linked, Shape
<1>4. ASSUME NEW j \in Socks, SendChunk(j) PROVE pc[k] = "sync"
  <2>1. PICK some \in NextChunk(left[j]) : Put(j, Only(left[j], some))
    BY <1>4 DEF SendChunk
  <2>2. Only(left[j], some) \in Rows
    BY RowsOver DEF Rows, Shape, Type, TypeStore, TypeSocks
  <2>3. k = j
    BY <1>1, <2>1, <2>2, PutStep DEF Shape, Type
  <2> QED BY <1>4, <2>3 DEF SendChunk
<1>5. ASSUME NEW j \in Socks, NEW how \in {"gone", "closed"}, Lost(j, how) PROVE FALSE
  <2>1. /\ \A l \in Socks \ {j} : wire'[l] = wire[l]
        /\ peer'[j] = how
    BY <1>5, LostStep DEF Shape, Type
  <2> QED BY <1>1, <2>1
<1>6. CASE Removed
  <2>1. ws[mu] # None /\ Close(ws[mu])
    BY <1>1, <1>6 DEF Removed
  <2>2. ws[mu] \in Socks
    BY <1>6, <2>1 DEF Removed, Shape, Type, TypeSubs
  <2> QED BY <1>5, <2>1, <2>2 DEF Close
<1>7. ASSUME NEW j \in Socks, SyncFails(j) \/ Leave(j) PROVE FALSE
  BY <1>5, <1>7 DEF SyncFails, Leave, Close
<1>8. CASE UNCHANGED wire
  BY <1>1, <1>8
<1> QED
  BY <1>2, <1>3, <1>4, <1>6, <1>7, <1>8
  DEF Next, Serve, Write, Collect, Take, Post, Delete, Remove, LookUp, Install, Snapshot,
      StartReading, ReadFails, Stall, Resume, subVars, sockVars, vars

-----------------------------------------------------------------------------
Inv == Shape /\ Bounded /\ Gathered /\ Informed /\ SocketsAreHeld

(* The inductive invariant.                                                *)
THEOREM Invariant == Spec => []Inv
<1>1. Init => Inv
  BY ShapeInit, BoundedInit DEF Init, Inv, Gathered, Informed, Held, SocketsAreHeld
<1>2. Inv /\ [Next]_vars => Inv'
  BY ShapeStep, BoundedStep, GatheredStep, InformedStep, HeldStep DEF Inv
<1> QED BY <1>1, <1>2, PTL DEF Spec

(* The manager's records, the sockets and the grains have their types.     *)
THEOREM TypeCorrect == Spec => []TypeOK
<1>1. Inv => TypeOK
  BY DEF Inv, Shape, Type, TypeStore, TypeSubs, TypeSocks, TypeOK
<1> QED BY <1>1, Invariant, PTL

(* The socket of a listed subscription has been sent the last change of    *)
(* every resource, or it is on its way, however the fan-out, the flushes,  *)
(* the assignment of the socket, its snapshot and its chunks interleave    *)
(* (subscriptions.go:523, 558 and 727).                                    *)
THEOREM NothingMissedAlways == Spec => []NothingMissed
<1>1. Inv => NothingMissed
  BY DEF Inv, Informed, Held, Known, Told, NothingMissed, Serving
<1> QED BY <1>1, Invariant, PTL

(* No release leaves an open socket behind it other than a replaced one or *)
(* one installed after it (subscriptions.go:523 and 1063).                 *)
THEOREM SocketsAreHeldAlways == Spec => []SocketsAreHeld
<1>1. Inv => SocketsAreHeld
  BY DEF Inv
<1> QED BY <1>1, Invariant, PTL

(* The changes of an unlimited subscription arrive in the order of the     *)
(* writes, once its snapshot has been sent (subscriptions.go:727).         *)
THEOREM NeverGoesBackAlways == Spec => NeverGoesBack
<1>1. Inv /\ [Next]_vars =>
        [\A k \in Socks, i \in Ids :
           peer'[k] = "open" /\ wire'[k][i] < wire[k][i] =>
             pc[k] = "sync" \/ of[k] \in Rated]_vars
  BY OrderStep DEF Inv
<1> QED BY <1>1, Invariant, PTL DEF Spec, NeverGoesBack
===========================================================================
