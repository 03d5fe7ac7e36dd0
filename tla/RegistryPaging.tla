-------------------------- MODULE RegistryPaging --------------------------
(***************************************************************************)
(* A controller's whole-collection walk (internal/amwa/session/query,      *)
(* fetchListRaw) over the pages the registry cuts (internal/amwa/registry, *)
(* ListPaged, servePagedList, paging_index.go), while resources register,  *)
(* change and leave.                                                       *)
(*                                                                         *)
(* One resource type, one walker: walks share nothing but the store.  A    *)
(* page is cut under the store's lock, so one request is one action.  TAI  *)
(* timestamps are naturals, 0:0 is 0; ids matter by their order only, so   *)
(* they are naturals too.  Filters and limit=0 are left out.               *)
(***************************************************************************)
EXTENDS Naturals, FiniteSets

CONSTANTS
  Ids,    \* resource ids of the type
  Limit,  \* paging.limit
  MaxPages, \* pages a walk follows each way: 10,000 in the code
  MaxTS   \* bound of the model: no update_ts above it

ASSUME IdsAssumption == Ids \subseteq Nat /\ IsFiniteSet(Ids)
ASSUME LimitAssumption == Limit \in Nat \ {0}
ASSUME MaxPagesAssumption == MaxPages \in Nat \ {0}
ASSUME MaxTSAssumption == MaxTS \in Nat

VARIABLES
  here,    \* ids of the registered resources
  ts,      \* updateTSByType: id -> update_ts, 0 when it has none
  lastTS,  \* lastUpdateTS: the newest timestamp handed out
  index,   \* pageIndex.entries: ts as it was when the index was built
  dirty,   \* pageIndex.dirty
  pc,      \* the walk: idle, prev, next, done
  cursor,  \* the bound carried by the link the walk follows next
  anchor,  \* the bound of the anchor page's next link
  seen,    \* seenURL: the links followed so far
  found,   \* seenID: the ids collected
  cut,     \* the links left unfollowed at the page cap (history)
  steady   \* ids registered ever since the walk began

storeVars == <<here, ts, lastTS, dirty>>
walk == <<pc, cursor, anchor, seen, found, cut>>
vars == <<storeVars, walk, index, steady>>

URLs == [dir : {"prev", "next"}, at : Nat]

TypeOK ==
  /\ here \subseteq Ids
  /\ lastTS \in Nat
  /\ ts \in [Ids -> 0 .. lastTS]
  /\ index \in [Ids -> 0 .. lastTS]
  /\ dirty \in BOOLEAN
  /\ pc \in {"idle", "prev", "next", "done"}
  /\ cursor \in 0 .. lastTS
  /\ anchor \in 0 .. lastTS
  /\ seen \subseteq URLs
  /\ found \subseteq Ids
  /\ cut \subseteq URLs
  /\ steady \subseteq Ids

Init ==
  /\ here = {}
  /\ ts = [i \in Ids |-> 0]
  /\ lastTS = 0
  /\ index = [i \in Ids |-> 0]
  /\ dirty = TRUE
  /\ pc = "idle"
  /\ cursor = 0
  /\ anchor = 0
  /\ seen = {}
  /\ found = {}
  /\ cut = {}
  /\ steady = {}

-----------------------------------------------------------------------------
(* markUpdated.  The clock may stand still or be set back: a reading that  *)
(* does not pass the last timestamp is bumped past it.                     *)
StampPerClock(now) == now \* mutant: the wall clock as it is
StampAfter(now) == IF now <= lastTS THEN lastTS + 1 ELSE now

MarkUpdated(i) ==
  \E now \in 1 .. MaxTS :
    /\ StampAfter(now) <= MaxTS
    /\ lastTS' = StampAfter(now)
    /\ ts' = [ts EXCEPT ![i] = StampAfter(now)]
    /\ dirty' = TRUE

(* A first registration or a changed one.                                  *)
Register(i) ==
  /\ MarkUpdated(i)
  /\ here' = here \cup {i}
  /\ UNCHANGED <<walk, index, steady>>

(* A registration whose resource was deleted before its document settled   *)
(* stamps an id that is no longer registered.                              *)
SettleGone(i) ==
  /\ i \notin here
  /\ MarkUpdated(i)
  /\ UNCHANGED <<here, walk, index, steady>>

(* DELETE, eviction, cascade: dropUpdated.                                 *)
Unregister(i) ==
  /\ i \in here
  /\ here' = here \ {i}
  /\ ts' = [ts EXCEPT ![i] = 0]
  /\ dirty' = TRUE
  /\ steady' = steady \ {i}
  /\ UNCHANGED <<lastTS, walk, index>>

-----------------------------------------------------------------------------
(* pageEntriesLocked: the index is rebuilt by the first page cut after a   *)
(* change.                                                                 *)
Entries == IF dirty THEN ts ELSE index

Rebuild ==
  /\ index' = Entries
  /\ dirty' = FALSE

(* pageWindow and lookup: the registered resources with an update_ts above *)
(* since and up to until.                                                  *)
Above(since) == {i \in here : since < Entries[i]}
BelowOnly(until) == {i \in Above(0) : Entries[i] < until} \* mutant: exclusive
UpTo(until) == {i \in Above(0) : Entries[i] <= until}

Before(i, j) ==
  \/ Entries[i] < Entries[j]
  \/ Entries[i] = Entries[j] /\ i < j

(* take: the first Limit resources of a window, from its oldest end or     *)
(* from its newest.                                                        *)
Oldest(w) == {i \in w : Cardinality({j \in w : Before(j, i)}) < Limit}
Newest(w) == {i \in w : Cardinality({j \in w : Before(i, j)}) < Limit}

IsLast(i, w) == i \in w /\ \A j \in w : ~Before(i, j)

(* X-Paging-Since of a descending page: the first resource left out, which *)
(* the inclusive until of the prev link then picks up; 0:0 if none is.     *)
SinceOf(page, w, since) ==
  \/ w = page /\ since = 0
  \/ \E k \in w \ page : IsLast(k, w \ page) /\ since = Entries[k]

(* X-Paging-Until of an ascending page: its newest resource.               *)
UntilOf(page, until) ==
  \E k \in page : IsLast(k, page) /\ until = Entries[k]

(* maxUpdateTSLocked: the newest update_ts on file, registered or not.     *)
IsHead(t) ==
  /\ \E i \in Ids : Entries[i] = t
  /\ \A i \in Ids : Entries[i] <= t

-----------------------------------------------------------------------------
Link(dir, at) == [dir |-> dir, at |-> at]

(* The listing is returned, and the walk's own bookkeeping with it dropped *)
(* (but for what the property below looks at).                             *)
Return(outcome) ==
  /\ pc' = outcome
  /\ cursor' = 0
  /\ anchor' = 0
  /\ seen' = {}

(* The unanchored GET: a descending page from the head.  An empty page     *)
(* ends the walk, for the type is empty.                                   *)
Anchor ==
  /\ pc \in {"idle", "done"}
  /\ LET page == Newest(Above(0)) IN
     /\ found' = page
     /\ IF page = {}
        THEN Return("done")
        ELSE /\ pc' = "prev"
             /\ seen' = {}
             /\ \E since \in 0 .. lastTS :
                  SinceOf(page, Above(0), since) /\ cursor' = since
             /\ \E t \in 0 .. lastTS : IsHead(t) /\ anchor' = t
  /\ cut' = {}
  /\ steady' = here
  /\ Rebuild
  /\ UNCHANGED <<here, ts, lastTS>>

(* The page about to be read is the last one the loop of its chain takes:  *)
(* the link it offers is not followed, and that is no error.               *)
AtCap(dir) == Cardinality({u \in seen : u.dir = dir}) + 1 >= MaxPages

(* The prev chain has ended; the next chain starts from the anchor page.   *)
TurnRound == pc' = "next" /\ cursor' = anchor

Prev ==
  /\ pc = "prev"
  /\ UNCHANGED <<here, ts, lastTS, anchor, steady>>
  /\ LET w    == UpTo(cursor)
         page == Newest(w)
     IN IF Link("prev", cursor) \in seen
        THEN TurnRound /\ UNCHANGED <<seen, found, cut, index, dirty>>
        ELSE /\ seen' = seen \cup {Link("prev", cursor)}
             /\ found' = found \cup page
             /\ Rebuild
             /\ IF page = {}
                THEN TurnRound /\ UNCHANGED cut
                ELSE \E since \in 0 .. lastTS :
                       /\ SinceOf(page, w, since)
                       /\ IF AtCap("prev")
                          THEN TurnRound /\ cut' = cut \cup {Link("prev", since)}
                          ELSE cursor' = since /\ UNCHANGED <<pc, cut>>

NextPage ==
  /\ pc = "next"
  /\ UNCHANGED <<here, ts, lastTS, steady>>
  /\ LET w    == Above(cursor)
         page == Oldest(w)
     IN IF Link("next", cursor) \in seen
        THEN Return("done") /\ UNCHANGED <<found, cut, index, dirty>>
        ELSE /\ found' = found \cup page
             /\ Rebuild
             /\ IF page = {}
                THEN Return("done") /\ UNCHANGED cut
                ELSE \E until \in 0 .. lastTS :
                       /\ UntilOf(page, until)
                       /\ IF AtCap("next")
                          THEN Return("done") /\ cut' = cut \cup {Link("next", until)}
                          ELSE /\ seen' = seen \cup {Link("next", cursor)}
                               /\ cursor' = until
                               /\ UNCHANGED <<pc, anchor, cut>>

(* A failed GET fails the whole listing; what was collected is dropped.    *)
Fail ==
  /\ pc \in {"prev", "next"}
  /\ Return("idle")
  /\ found' = {}
  /\ cut' = {}
  /\ steady' = {}
  /\ UNCHANGED <<storeVars, index>>

Next ==
  \/ \E i \in Ids : Register(i) \/ SettleGone(i) \/ Unregister(i)
  \/ Anchor \/ Prev \/ NextPage \/ Fail

Spec == Init /\ [][Next]_vars

-----------------------------------------------------------------------------
(* A walk that returns has every resource that was registered from its     *)
(* first page to its last, also those an update moved out of the window    *)
(* the walk was about to read and into one it had read already.  Only what *)
(* lies behind a link it left at the page cap may be missing: the walk     *)
(* says nothing of it (client.go:246).                                     *)
Beyond(i, u) == IF u.dir = "prev" THEN ts[i] <= u.at ELSE u.at < ts[i]
LeftUnread(i) == \E u \in cut : Beyond(i, u)
WalkFindsAll ==
  [][pc # "done" /\ pc' = "done" =>
       \A i \in steady' : i \in found' \/ LeftUnread(i)']_vars
===========================================================================
