----------------------- MODULE RegistryPaging_proofs -----------------------
(***************************************************************************)
(* A walk of any collection, in pages of any size, against any sequence of *)
(* registrations and removals, returns everything registered throughout,   *)
(* but for what lies behind a link it left at the page cap.                *)
(*                                                                         *)
(* The invariant says where the walk still is to find a resource it has    *)
(* not collected: in the window of the next prev page, above the anchor    *)
(* page while the prev chain is being read, and above the cursor of the    *)
(* next chain; or else behind the link at which the prev chain was cut.    *)
(* An update can only move a resource above them all.                      *)
(***************************************************************************)
EXTENDS RegistryPaging, FiniteSetTheorems, WellFoundedInduction, TLAPS

(* The index a page is cut from is the one of the store as it stands.      *)
IndexIsCurrent == ~dirty => index = ts

(* update_ts is a total order of what is on file, and covers what is       *)
(* registered.                                                             *)
StampsAreDistinct ==
  \A i, j \in Ids : ts[i] = ts[j] /\ ts[i] > 0 => i = j
RegisteredAreStamped == \A i \in here : ts[i] > 0

(* No link is followed twice, so seenURL never cuts a chain short.         *)
LinksAreFresh ==
  \A u \in seen :
    /\ pc = "prev" => u.dir = "prev" /\ cursor < u.at
    /\ pc = "next" => u.dir = "prev" \/ u.at < cursor

StillAhead(i) ==
  \/ pc = "prev" /\ (ts[i] <= cursor \/ anchor < ts[i])
  \/ pc = "next" /\ cursor < ts[i]

NothingIsLost ==
  /\ steady \subseteq here
  /\ pc = "idle" => steady = {}
  /\ pc = "next" => anchor <= cursor
  /\ pc # "done" => \A i \in steady : i \in found \/ StillAhead(i) \/ LeftUnread(i)

PagingInv ==
  /\ TypeOK
  /\ IndexIsCurrent
  /\ StampsAreDistinct
  /\ RegisteredAreStamped
  /\ LinksAreFresh
  /\ NothingIsLost

USE IdsAssumption, LimitAssumption, MaxPagesAssumption, MaxTSAssumption

-----------------------------------------------------------------------------
(* While the index is current the order of a page is that of update_ts.    *)
LEMMA EntriesAreStamps ==
  ASSUME IndexIsCurrent
  PROVE  Entries = ts
BY DEF IndexIsCurrent, Entries

LEMMA BeforeIsOrder ==
  ASSUME TypeOK, IndexIsCurrent, StampsAreDistinct, RegisteredAreStamped,
         NEW i \in here, NEW j \in here
  PROVE  /\ ts[i] \in Nat /\ ts[j] \in Nat
         /\ Before(i, j) <=> ts[i] < ts[j]
         /\ i = j \/ ts[i] < ts[j] \/ ts[j] < ts[i]
<1>1. i \in Ids /\ j \in Ids /\ ts[i] \in Nat /\ ts[j] \in Nat
  BY DEF TypeOK
<1>2. ts[i] > 0 /\ (ts[i] = ts[j] => i = j)
  BY <1>1 DEF StampsAreDistinct, RegisteredAreStamped
<1>3. Before(i, j) <=> ts[i] < ts[j] \/ (ts[i] = ts[j] /\ i < j)
  BY EntriesAreStamps DEF Before
<1> QED BY <1>1, <1>2, <1>3

LEMMA WindowsAreFinite ==
  ASSUME TypeOK, NEW w \in SUBSET here
  PROVE  IsFiniteSet(w)
BY FS_Subset DEF TypeOK

(* What an ascending page leaves out comes after all it takes.             *)
LEMMA OldestIsAPrefix ==
  ASSUME TypeOK, IndexIsCurrent, StampsAreDistinct, RegisteredAreStamped,
         NEW w \in SUBSET here, NEW k \in Oldest(w), NEW i \in w \ Oldest(w)
  PROVE  ts[k] < ts[i]
<1> DEFINE Earlier(n) == {j \in w : Before(j, n)}
<1>1. k \in w /\ k \in here /\ i \in here /\ k # i
  BY DEF Oldest
<1>2. SUFFICES ASSUME ts[i] < ts[k] PROVE FALSE
  BY <1>1, BeforeIsOrder
<1>3. Earlier(i) \subseteq Earlier(k)
  <2> SUFFICES ASSUME NEW j \in w, Before(j, i) PROVE Before(j, k)
    OBVIOUS
  <2>1. j \in here
    OBVIOUS
  <2>2. ts[j] < ts[i] /\ ts[j] \in Nat /\ ts[i] \in Nat /\ ts[k] \in Nat
    BY <1>1, <2>1, BeforeIsOrder
  <2>3. ts[j] < ts[k]
    BY <1>2, <2>2
  <2> QED BY <1>1, <2>1, <2>3, BeforeIsOrder
<1>4. IsFiniteSet(Earlier(k)) /\ IsFiniteSet(Earlier(i))
  BY WindowsAreFinite
<1>5. Cardinality(Earlier(i)) <= Cardinality(Earlier(k))
  BY <1>3, <1>4, FS_Subset
<1>6. Cardinality(Earlier(k)) < Limit /\ ~(Cardinality(Earlier(i)) < Limit)
  BY DEF Oldest
<1>7. Cardinality(Earlier(i)) \in Nat /\ Cardinality(Earlier(k)) \in Nat
  BY <1>4, FS_CardinalityType
<1> QED BY <1>5, <1>6, <1>7

(* Something newer is in the window of whatever a descending page leaves   *)
(* out.                                                                    *)
LEMMA LeftOutHasNewer ==
  ASSUME TypeOK, IndexIsCurrent, StampsAreDistinct, RegisteredAreStamped,
         NEW w \in SUBSET here, NEW k \in w \ Newest(w)
  PROVE  \E j \in w : ts[k] < ts[j]
<1> DEFINE Later == {j \in w : Before(k, j)}
<1>1. ~(Cardinality(Later) < Limit)
  BY DEF Newest
<1>2. Later # {}
  BY <1>1, FS_EmptySet
<1>3. PICK j \in w : Before(k, j)
  BY <1>2
<1> QED BY <1>3, BeforeIsOrder

(* The since of a descending page is not below anything the page left out. *)
LEMMA SinceCoversTheRest ==
  ASSUME TypeOK, IndexIsCurrent, StampsAreDistinct, RegisteredAreStamped,
         NEW w \in SUBSET here, NEW since \in Nat,
         SinceOf(Newest(w), w, since),
         NEW i \in w \ Newest(w)
  PROVE  ts[i] <= since
<1>1. PICK k \in w \ Newest(w) : IsLast(k, w \ Newest(w)) /\ since = Entries[k]
  BY DEF SinceOf
<1>2. ~Before(k, i) /\ since = ts[k]
  BY <1>1, EntriesAreStamps DEF IsLast
<1>3. k \in here /\ i \in here
  OBVIOUS
<1> QED BY <1>2, <1>3, BeforeIsOrder

LEMMA SinceIsOlder ==
  ASSUME TypeOK, IndexIsCurrent, StampsAreDistinct, RegisteredAreStamped,
         NEW w \in SUBSET here, w # {}, NEW since \in Nat, NEW until \in Nat,
         \A i \in w : ts[i] <= until,
         SinceOf(Newest(w), w, since)
  PROVE  since < until
<1>1. CASE w = Newest(w) /\ since = 0
  <2>1. PICK i \in w : TRUE
    OBVIOUS
  <2>2. i \in here /\ ts[i] > 0 /\ ts[i] <= until /\ ts[i] \in Nat
    BY <2>1, BeforeIsOrder DEF RegisteredAreStamped
  <2> QED BY <1>1, <2>2
<1>2. CASE \E k \in w \ Newest(w) :
             IsLast(k, w \ Newest(w)) /\ since = Entries[k]
  <2>1. PICK k \in w \ Newest(w) : since = ts[k]
    BY <1>2, EntriesAreStamps
  <2>2. PICK j \in w : ts[k] < ts[j]
    BY LeftOutHasNewer
  <2>3. ts[j] <= until /\ ts[j] \in Nat /\ ts[k] \in Nat
    BY <2>1, <2>2, BeforeIsOrder
  <2> QED BY <2>1, <2>2, <2>3
<1> QED BY <1>1, <1>2 DEF SinceOf

(* A window that is not empty gives a page that is not.                    *)
LEMMA LeastNatural ==
  ASSUME NEW T \in SUBSET Nat, T # {}
  PROVE  \E x \in T : \A y \in T : x <= y
<1>1. PICK x \in T : \A y \in T : ~(<<y, x>> \in OpToRel(<, Nat))
  BY NatLessThanWellFounded, WFMin, Zenon
<1>2. ASSUME NEW y \in T PROVE x <= y
  <2>1. ~(y < x)
    BY <1>1, Zenon DEF OpToRel
  <2> QED BY <2>1
<1> QED BY <1>2

LEMMA PagesAreFilled ==
  ASSUME TypeOK, IndexIsCurrent, StampsAreDistinct, RegisteredAreStamped,
         NEW w \in SUBSET here, w # {}
  PROVE  Oldest(w) # {} /\ Newest(w) # {}
<1>1. \A i \in w : i \in here /\ ts[i] \in 0 .. lastTS
  BY DEF TypeOK
<1>2. lastTS \in Nat
  BY DEF TypeOK
<1>3. Oldest(w) # {}
  <2> DEFINE T == {ts[i] : i \in w}
  <2>1. T \in SUBSET Nat /\ T # {}
    BY <1>1, <1>2
  <2>2. PICK x \in T : \A y \in T : x <= y
    BY <2>1, LeastNatural
  <2>3. PICK k \in w : ts[k] = x
    OBVIOUS
  <2>4. \A j \in w : ts[k] <= ts[j]
    BY <2>2, <2>3
  <2>5. \A j \in w : ~Before(j, k)
    BY <1>1, <1>2, <2>4, BeforeIsOrder
  <2>6. {j \in w : Before(j, k)} = {}
    BY <2>5
  <2>7. Cardinality({j \in w : Before(j, k)}) < Limit
    BY <2>6, FS_EmptySet
  <2> QED BY <2>7 DEF Oldest
<1>4. Newest(w) # {}
  <2> DEFINE T == {lastTS - ts[i] : i \in w}
  <2>1. T \in SUBSET Nat /\ T # {}
    BY <1>1, <1>2
  <2>2. PICK x \in T : \A y \in T : x <= y
    BY <2>1, LeastNatural
  <2>3. PICK k \in w : lastTS - ts[k] = x
    OBVIOUS
  <2>4. \A j \in w : lastTS - ts[k] <= lastTS - ts[j]
    BY <2>2, <2>3
  <2>5. \A j \in w : ~Before(k, j)
    BY <1>1, <1>2, <2>4, BeforeIsOrder
  <2>6. {j \in w : Before(k, j)} = {}
    BY <2>5
  <2>7. Cardinality({j \in w : Before(k, j)}) < Limit
    BY <2>6, FS_EmptySet
  <2> QED BY <2>7 DEF Newest
<1> QED BY <1>3, <1>4

(* A window is a set of registered resources.                              *)
LEMMA Windows ==
  ASSUME TypeOK, IndexIsCurrent, RegisteredAreStamped, NEW b \in Nat
  PROVE  /\ Above(b) = {i \in here : b < ts[i]}
         /\ UpTo(b) = {i \in here : ts[i] <= b}
         /\ Above(0) = here
<1>1. Entries = ts
  BY EntriesAreStamps
<1>2. \A i \in here : ts[i] \in Nat /\ 0 < ts[i]
  BY DEF TypeOK, RegisteredAreStamped
<1> QED BY <1>1, <1>2 DEF Above, UpTo

-----------------------------------------------------------------------------
(* A new timestamp is above every bound the walk carries.                  *)
LEMMA StampIsNewest ==
  ASSUME TypeOK, NEW i \in Ids, MarkUpdated(i)
  PROVE  /\ lastTS' \in Nat /\ lastTS < lastTS'
         /\ ts' = [ts EXCEPT ![i] = lastTS']
         /\ dirty'
BY DEF MarkUpdated, StampAfter, TypeOK

LEMMA UpdateKeepsInv ==
  ASSUME PagingInv, NEW i \in Ids, MarkUpdated(i),
         here' \in {here, here \cup {i}},
         UNCHANGED <<walk, index, steady>>
  PROVE  PagingInv'
<1>1. /\ lastTS \in Nat /\ lastTS' \in Nat /\ lastTS < lastTS' /\ dirty'
      /\ ts \in [Ids -> 0 .. lastTS] /\ ts' = [ts EXCEPT ![i] = lastTS']
      /\ cursor \in 0 .. lastTS /\ anchor \in 0 .. lastTS
      /\ index \in [Ids -> 0 .. lastTS] /\ here \subseteq Ids
  BY StampIsNewest DEF PagingInv, TypeOK
<1>2. \A j \in Ids : ts'[j] = IF j = i THEN lastTS' ELSE ts[j]
  BY <1>1
<1>3. \A j \in Ids : ts[j] \in 0 .. lastTS
  BY <1>1
<1>4. TypeOK'
  <2>1. ts' \in [Ids -> 0 .. lastTS'] /\ index' \in [Ids -> 0 .. lastTS']
    BY <1>1 DEF walk
  <2>2. cursor' \in 0 .. lastTS' /\ anchor' \in 0 .. lastTS'
    BY <1>1 DEF walk
  <2> QED BY <1>1, <2>1, <2>2 DEF PagingInv, TypeOK, walk
<1>5. IndexIsCurrent'
  BY <1>1 DEF IndexIsCurrent
<1>6. StampsAreDistinct'
  BY <1>1, <1>2, <1>3 DEF PagingInv, StampsAreDistinct
<1>7. RegisteredAreStamped'
  BY <1>1, <1>2, <1>3 DEF PagingInv, RegisteredAreStamped
<1>8. LinksAreFresh'
  BY DEF PagingInv, LinksAreFresh, walk
<1>9. NothingIsLost'
  <2>1. ASSUME NEW j \in steady, pc # "done"
        PROVE  (j \in found \/ StillAhead(j) \/ LeftUnread(j))'
    <3>1. j \in Ids /\ (j \in found \/ StillAhead(j) \/ LeftUnread(j))
      BY <1>1, <2>1 DEF PagingInv, NothingIsLost
    <3>2. CASE j = i
      <4>1. pc \in {"prev", "next"}
        BY <2>1 DEF PagingInv, TypeOK, NothingIsLost
      <4> QED BY <1>1, <1>2, <3>2, <4>1 DEF StillAhead, walk
    <3>3. CASE j # i
      BY <1>2, <3>1, <3>3 DEF StillAhead, LeftUnread, Beyond, walk
    <3> QED BY <3>2, <3>3
  <2> QED BY <2>1 DEF PagingInv, NothingIsLost, walk
<1> QED BY <1>4, <1>5, <1>6, <1>7, <1>8, <1>9 DEF PagingInv

LEMMA UnregisterKeepsInv ==
  ASSUME PagingInv, NEW i \in Ids, Unregister(i)
  PROVE  PagingInv'
<1> USE DEF PagingInv, Unregister, walk
<1>1. \A j \in Ids : ts'[j] = IF j = i THEN 0 ELSE ts[j]
  BY DEF TypeOK
<1>2. \A j \in Ids : ts[j] \in Nat
  BY DEF TypeOK
<1>3. TypeOK'
  <2>1. ts' \in [Ids -> 0 .. lastTS']
    BY DEF TypeOK
  <2> QED BY <2>1 DEF TypeOK
<1>4. IndexIsCurrent'
  BY DEF IndexIsCurrent
<1>5. StampsAreDistinct'
  BY <1>1, <1>2 DEF StampsAreDistinct
<1>6. RegisteredAreStamped'
  BY <1>1, <1>2 DEF RegisteredAreStamped, TypeOK
<1>7. LinksAreFresh'
  BY DEF LinksAreFresh
<1>8. NothingIsLost'
  <2>1. ASSUME NEW j \in steady', pc # "done"
        PROVE  (j \in found \/ StillAhead(j) \/ LeftUnread(j))'
    <3>1. j \in steady /\ j \in Ids /\ j # i
      BY DEF TypeOK
    <3> QED BY <1>1, <2>1, <3>1 DEF NothingIsLost, StillAhead, LeftUnread, Beyond
  <2> QED BY <2>1 DEF NothingIsLost
<1> QED BY <1>3, <1>4, <1>5, <1>6, <1>7, <1>8

-----------------------------------------------------------------------------
(* Cutting a page leaves the store as it is and the index current.         *)
LEMMA RebuildKeepsStore ==
  ASSUME PagingInv, UNCHANGED <<here, ts, lastTS>>,
         Rebuild \/ UNCHANGED <<index, dirty>>
  PROVE  /\ IndexIsCurrent' /\ StampsAreDistinct' /\ RegisteredAreStamped'
         /\ index' \in [Ids -> 0 .. lastTS'] /\ dirty' \in BOOLEAN
BY EntriesAreStamps
   DEF PagingInv, TypeOK, Rebuild, Entries, IndexIsCurrent, StampsAreDistinct,
       RegisteredAreStamped

LEMMA AnchorKeepsInv ==
  ASSUME PagingInv, Anchor
  PROVE  PagingInv'
<1> DEFINE page == Newest(Above(0))
<1> USE DEF PagingInv
<1>1. /\ IndexIsCurrent' /\ StampsAreDistinct' /\ RegisteredAreStamped'
      /\ index' \in [Ids -> 0 .. lastTS'] /\ dirty' \in BOOLEAN
  BY RebuildKeepsStore DEF Anchor
<1>2. Above(0) = here /\ page \subseteq here
  BY Windows DEF Newest
<1>3. /\ found' = page /\ steady' = here /\ seen' = {} /\ cut' = {}
      /\ UNCHANGED <<here, ts, lastTS>> /\ here \subseteq Ids
      /\ lastTS \in Nat /\ ts \in [Ids -> 0 .. lastTS]
  BY DEF Anchor, Return, TypeOK
<1>4. CASE page = {}
  <2>1. pc' = "done" /\ cursor' = 0 /\ anchor' = 0
    BY <1>4 DEF Anchor, Return
  <2>2. here = {}
    BY <1>2, <1>4, PagesAreFilled
  <2>3. cursor' \in 0 .. lastTS /\ anchor' \in 0 .. lastTS
    BY <1>3, <2>1
  <2>4. TypeOK'
    BY <1>1, <1>2, <1>3, <2>1, <2>3 DEF TypeOK
  <2> QED BY <1>1, <1>3, <2>1, <2>2, <2>4 DEF LinksAreFresh, NothingIsLost
<1>5. CASE page # {}
  <2>1. pc' = "prev"
    BY <1>5 DEF Anchor
  <2>2. PICK since \in 0 .. lastTS : SinceOf(page, Above(0), since) /\ cursor' = since
    BY <1>5 DEF Anchor
  <2>3. anchor' \in 0 .. lastTS
    BY <1>5 DEF Anchor
  <2>4. TypeOK'
    BY <1>1, <1>2, <1>3, <2>1, <2>2, <2>3 DEF TypeOK
  <2>5. ASSUME NEW i \in here, i \notin page PROVE ts[i] <= cursor'
    BY <1>2, <1>3, <2>2, <2>5, SinceCoversTheRest
  <2>6. NothingIsLost'
    BY <1>2, <1>3, <2>1, <2>5 DEF NothingIsLost, StillAhead
  <2> QED BY <1>1, <1>3, <2>4, <2>6 DEF LinksAreFresh
<1> QED BY <1>4, <1>5

LEMMA PrevKeepsInv ==
  ASSUME PagingInv, Prev
  PROVE  PagingInv'
<1> DEFINE w == UpTo(cursor)
           page == Newest(w)
<1> USE DEF PagingInv
<1>1. /\ pc = "prev" /\ UNCHANGED <<here, ts, lastTS, anchor, steady>>
      /\ lastTS \in Nat /\ ts \in [Ids -> 0 .. lastTS] /\ here \subseteq Ids
      /\ cursor \in 0 .. lastTS /\ anchor \in 0 .. lastTS
      /\ steady \subseteq here /\ found \subseteq Ids /\ seen \subseteq URLs
  BY DEF Prev, TypeOK, NothingIsLost
<1>2. Link("prev", cursor) \notin seen
  BY <1>1 DEF LinksAreFresh, Link
<1>3. /\ seen' = seen \cup {Link("prev", cursor)}
      /\ found' = found \cup page
      /\ Rebuild
  BY <1>2 DEF Prev
<1>4. /\ IndexIsCurrent' /\ StampsAreDistinct' /\ RegisteredAreStamped'
      /\ index' \in [Ids -> 0 .. lastTS'] /\ dirty' \in BOOLEAN
  BY <1>1, <1>3, RebuildKeepsStore
<1>5. w = {i \in here : ts[i] <= cursor} /\ w \subseteq here /\ page \subseteq w
  BY <1>1, Windows DEF Newest
<1>6. Link("prev", cursor) \in URLs
  BY <1>1 DEF Link, URLs
<1>7. /\ cut' \in SUBSET URLs /\ cut \subseteq cut'
      /\ page # {} /\ AtCap("prev") =>
           \E since \in 0 .. lastTS : SinceOf(page, w, since) /\ Link("prev", since) \in cut'
  <2>1. cut' = cut \/ \E since \in 0 .. lastTS : cut' = cut \cup {Link("prev", since)}
    BY <1>2 DEF Prev
  <2>2. cut \subseteq URLs /\ \A since \in 0 .. lastTS : Link("prev", since) \in URLs
    BY <1>1 DEF TypeOK, Link, URLs
  <2>3. page # {} /\ AtCap("prev") =>
          \E since \in 0 .. lastTS : SinceOf(page, w, since) /\ cut' = cut \cup {Link("prev", since)}
    BY <1>2 DEF Prev
  <2> QED BY <2>1, <2>2, <2>3
<1>8. CASE page = {} \/ AtCap("prev")
  <2>1. pc' = "next" /\ cursor' = anchor
    BY <1>2, <1>8 DEF Prev, TurnRound
  <2>2. ASSUME NEW i \in w, i \notin page PROVE LeftUnread(i)'
    <3>1. page # {}
      BY <1>5, <2>2, PagesAreFilled
    <3>2. PICK since \in 0 .. lastTS : SinceOf(page, w, since) /\ Link("prev", since) \in cut'
      BY <1>7, <1>8, <3>1
    <3>3. ts[i] <= since
      BY <1>5, <2>2, <3>2, SinceCoversTheRest
    <3> QED BY <1>1, <3>2, <3>3 DEF LeftUnread, Beyond, Link
  <2>3. TypeOK'
    BY <1>1, <1>3, <1>4, <1>5, <1>6, <1>7, <2>1 DEF TypeOK
  <2>4. LinksAreFresh'
    BY <1>1, <1>3, <2>1 DEF LinksAreFresh, Link
  <2>5. NothingIsLost'
    <3>1. ASSUME NEW i \in steady, i \notin found'
          PROVE  StillAhead(i)' \/ LeftUnread(i)'
      <4>1. i \in here /\ i \notin page /\ (StillAhead(i) \/ LeftUnread(i))
        BY <1>1, <1>3, <3>1 DEF NothingIsLost
      <4>2. CASE LeftUnread(i)
        BY <1>1, <1>7, <4>2 DEF LeftUnread, Beyond
      <4>3. CASE ts[i] <= cursor
        BY <1>5, <2>2, <4>1, <4>3
      <4>4. CASE anchor < ts[i]
        BY <1>1, <2>1, <4>4 DEF StillAhead
      <4> QED BY <1>1, <4>1, <4>2, <4>3, <4>4 DEF StillAhead
    <3> QED BY <1>1, <2>1, <3>1 DEF NothingIsLost
  <2> QED BY <1>4, <2>3, <2>4, <2>5
<1>9. CASE page # {} /\ ~AtCap("prev")
  <2>1. pc' = "prev"
    BY <1>1, <1>2, <1>9 DEF Prev
  <2>2. PICK since \in 0 .. lastTS : SinceOf(page, w, since) /\ cursor' = since
    BY <1>2, <1>9 DEF Prev
  <2>3. cursor' < cursor /\ cursor' \in Nat /\ cursor \in Nat
    <3>1. w # {} /\ (\A i \in w : ts[i] <= cursor)
      BY <1>5, <1>9
    <3>2. since \in Nat /\ cursor \in Nat
      BY <1>1
    <3> QED BY <1>5, <2>2, <3>1, <3>2, SinceIsOlder
  <2>4. \A i \in w \ page : ts[i] <= cursor'
    BY <1>5, <2>2, <2>3, SinceCoversTheRest
  <2>5. TypeOK'
    BY <1>1, <1>3, <1>4, <1>5, <1>6, <1>7, <2>1, <2>2 DEF TypeOK
  <2>6. LinksAreFresh'
    <3>1. \A u \in seen : u.dir = "prev" /\ cursor < u.at /\ u.at \in Nat
      BY <1>1 DEF LinksAreFresh, URLs
    <3>2. Link("prev", cursor).dir = "prev" /\ Link("prev", cursor).at = cursor
      BY DEF Link
    <3> QED BY <1>3, <2>1, <2>3, <3>1, <3>2 DEF LinksAreFresh
  <2>7. NothingIsLost'
    <3>1. ASSUME NEW i \in steady, i \notin found'
          PROVE  StillAhead(i)' \/ LeftUnread(i)'
      <4>1. i \in here /\ i \notin page /\ (StillAhead(i) \/ LeftUnread(i))
        BY <1>1, <1>3, <3>1 DEF NothingIsLost
      <4>2. CASE LeftUnread(i)
        BY <1>1, <1>7, <4>2 DEF LeftUnread, Beyond
      <4>3. CASE ts[i] <= cursor \/ anchor < ts[i]
        BY <1>1, <1>5, <2>1, <2>4, <4>1, <4>3 DEF StillAhead
      <4> QED BY <1>1, <4>1, <4>2, <4>3 DEF StillAhead
    <3> QED BY <1>1, <2>1, <3>1 DEF NothingIsLost
  <2> QED BY <1>4, <2>5, <2>6, <2>7
<1> QED BY <1>8, <1>9

LEMMA NextPageKeepsInv ==
  ASSUME PagingInv, NextPage
  PROVE  PagingInv'
<1> DEFINE w == Above(cursor)
           page == Oldest(w)
<1> USE DEF PagingInv
<1>1. /\ pc = "next" /\ UNCHANGED <<here, ts, lastTS, steady>>
      /\ lastTS \in Nat /\ ts \in [Ids -> 0 .. lastTS] /\ here \subseteq Ids
      /\ cursor \in 0 .. lastTS /\ anchor \in 0 .. lastTS /\ anchor <= cursor
      /\ steady \subseteq here /\ found \subseteq Ids /\ seen \subseteq URLs
  BY DEF NextPage, TypeOK, NothingIsLost
<1>2. Link("next", cursor) \notin seen
  BY <1>1 DEF LinksAreFresh, Link
<1>3. found' = found \cup page /\ Rebuild
  BY <1>2 DEF NextPage
<1>4. /\ IndexIsCurrent' /\ StampsAreDistinct' /\ RegisteredAreStamped'
      /\ index' \in [Ids -> 0 .. lastTS'] /\ dirty' \in BOOLEAN
  BY <1>1, <1>3, RebuildKeepsStore
<1>5. w = {i \in here : cursor < ts[i]} /\ w \subseteq here /\ page \subseteq w
  BY <1>1, Windows DEF Oldest
<1>6. /\ cut' \in SUBSET URLs /\ cut \subseteq cut'
      /\ page # {} /\ AtCap("next") =>
           \E until \in 0 .. lastTS : UntilOf(page, until) /\ Link("next", until) \in cut'
  <2>1. cut' = cut \/ \E until \in 0 .. lastTS : cut' = cut \cup {Link("next", until)}
    BY <1>2 DEF NextPage
  <2>2. cut \subseteq URLs /\ \A until \in 0 .. lastTS : Link("next", until) \in URLs
    BY <1>1 DEF TypeOK, Link, URLs
  <2>3. page # {} /\ AtCap("next") =>
          \E until \in 0 .. lastTS : UntilOf(page, until) /\ cut' = cut \cup {Link("next", until)}
    BY <1>2 DEF NextPage
  <2> QED BY <2>1, <2>2, <2>3
<1>7. ASSUME NEW i \in steady, i \notin found'
      PROVE  i \in w \ page \/ LeftUnread(i)'
  <2>1. i \in here /\ i \notin page /\ (cursor < ts[i] \/ LeftUnread(i))
    BY <1>1, <1>3, <1>7 DEF NothingIsLost, StillAhead
  <2> QED BY <1>1, <1>5, <1>6, <2>1 DEF LeftUnread, Beyond
<1>8. CASE page = {} \/ AtCap("next")
  <2>1. pc' = "done" /\ cursor' = 0 /\ anchor' = 0 /\ seen' = {}
    BY <1>2, <1>8 DEF NextPage, Return
  <2>3. cursor' \in 0 .. lastTS /\ anchor' \in 0 .. lastTS
    BY <1>1, <2>1
  <2>4. TypeOK'
    BY <1>1, <1>3, <1>4, <1>5, <1>6, <2>1, <2>3 DEF TypeOK
  <2> QED BY <1>1, <1>4, <2>1, <2>4 DEF LinksAreFresh, NothingIsLost
<1>9. CASE page # {} /\ ~AtCap("next")
  <2>1. pc' = "next" /\ anchor' = anchor /\ seen' = seen \cup {Link("next", cursor)}
    BY <1>1, <1>2, <1>9 DEF NextPage
  <2>2. PICK until \in 0 .. lastTS : UntilOf(page, until) /\ cursor' = until
    BY <1>2, <1>9 DEF NextPage
  <2>3. PICK k \in page : cursor' = ts[k] /\ IsLast(k, page)
    BY <2>2, EntriesAreStamps DEF UntilOf
  <2>4. cursor < cursor' /\ cursor' \in Nat /\ cursor \in Nat
    <3>1. k \in w /\ cursor < ts[k]
      BY <1>5, <2>3
    <3> QED BY <1>1, <2>2, <2>3, <3>1
  <2>5. \A i \in w \ page : cursor' < ts[i]
    BY <1>5, <2>3, OldestIsAPrefix
  <2>6. Link("next", cursor) \in URLs
    BY <2>4 DEF Link, URLs
  <2>7. TypeOK'
    BY <1>1, <1>3, <1>4, <1>5, <1>6, <2>1, <2>2, <2>6 DEF TypeOK
  <2>8. LinksAreFresh'
    <3>1. \A u \in seen : u.at \in Nat /\ (u.dir = "prev" \/ u.at < cursor)
      BY <1>1 DEF LinksAreFresh, URLs
    <3>2. Link("next", cursor).at = cursor
      BY DEF Link
    <3> QED BY <2>1, <2>4, <3>1, <3>2 DEF LinksAreFresh
  <2>9. NothingIsLost'
    <3>1. anchor' <= cursor'
      BY <1>1, <2>1, <2>4
    <3>2. ASSUME NEW i \in steady, i \notin found'
          PROVE  StillAhead(i)' \/ LeftUnread(i)'
      BY <1>1, <1>7, <2>1, <2>5, <3>2 DEF StillAhead
    <3> QED BY <1>1, <2>1, <3>1, <3>2 DEF NothingIsLost
  <2> QED BY <1>4, <2>7, <2>8, <2>9
<1> QED BY <1>8, <1>9

LEMMA FailKeepsInv ==
  ASSUME PagingInv, Fail
  PROVE  PagingInv'
<1> USE DEF PagingInv, Fail, Return, storeVars
<1>1. cursor' \in 0 .. lastTS /\ anchor' \in 0 .. lastTS
  BY DEF TypeOK
<1>2. TypeOK'
  BY <1>1 DEF TypeOK
<1>3. IndexIsCurrent' /\ StampsAreDistinct' /\ RegisteredAreStamped'
  BY DEF IndexIsCurrent, StampsAreDistinct, RegisteredAreStamped
<1> QED BY <1>2, <1>3 DEF LinksAreFresh, NothingIsLost

-----------------------------------------------------------------------------
LEMMA InvHolds == Spec => []PagingInv
<1>1. Init => PagingInv
  BY DEF Init, PagingInv, TypeOK, IndexIsCurrent, StampsAreDistinct,
         RegisteredAreStamped, LinksAreFresh, NothingIsLost
<1>2. PagingInv /\ [Next]_vars => PagingInv'
  <2> SUFFICES ASSUME PagingInv, [Next]_vars PROVE PagingInv'
    OBVIOUS
  <2>1. ASSUME NEW i \in Ids, Register(i) PROVE PagingInv'
    BY <2>1, UpdateKeepsInv DEF Register
  <2>2. ASSUME NEW i \in Ids, SettleGone(i) PROVE PagingInv'
    BY <2>2, UpdateKeepsInv DEF SettleGone
  <2>3. ASSUME NEW i \in Ids, Unregister(i) PROVE PagingInv'
    BY <2>3, UnregisterKeepsInv
  <2>4. CASE UNCHANGED vars
    BY <2>4 DEF PagingInv, TypeOK, IndexIsCurrent, StampsAreDistinct,
       RegisteredAreStamped, LinksAreFresh, NothingIsLost, StillAhead, LeftUnread, Beyond, vars,
       storeVars, walk
  <2> QED
    BY <2>1, <2>2, <2>3, <2>4, AnchorKeepsInv, PrevKeepsInv, NextPageKeepsInv,
       FailKeepsInv DEF Next
<1> QED BY <1>1, <1>2, PTL DEF Spec

(* Every variable keeps its type, and no bound the walk carries is newer   *)
(* than the newest update_ts the store handed out.                         *)
THEOREM TypeCorrect == Spec => []TypeOK
<1>1. PagingInv => TypeOK
  BY DEF PagingInv
<1> QED BY <1>1, InvHolds, PTL

(* The last page of the next chain is empty, or is followed by a link the  *)
(* walk leaves at the cap: what was still ahead is on it or behind it.     *)
LEMMA NextPageReturns ==
  ASSUME PagingInv, NextPage, pc' = "done", NEW i \in steady'
  PROVE  (i \in found \/ LeftUnread(i))'
<1> DEFINE w == Above(cursor)
           page == Oldest(w)
<1> USE DEF PagingInv
<1>1. /\ pc = "next" /\ UNCHANGED <<here, ts, lastTS, steady>>
      /\ lastTS \in Nat /\ ts \in [Ids -> 0 .. lastTS] /\ here \subseteq Ids
      /\ cursor \in 0 .. lastTS /\ steady \subseteq here /\ seen \subseteq URLs
  BY DEF NextPage, TypeOK, NothingIsLost
<1>2. Link("next", cursor) \notin seen
  BY <1>1 DEF LinksAreFresh, Link
<1>3. /\ found' = found \cup page /\ cut \subseteq cut'
      /\ page # {} => \E until \in 0 .. lastTS : UntilOf(page, until) /\ Link("next", until) \in cut'
  <2>1. found' = found \cup page /\ cut \subseteq cut'
    BY <1>2 DEF NextPage
  <2>2. page # {} => \E until \in 0 .. lastTS : UntilOf(page, until)
                       /\ (cut' = cut \cup {Link("next", until)} \/ pc' = pc)
    BY <1>2 DEF NextPage
  <2> QED BY <1>1, <2>1, <2>2
<1>4. w = {j \in here : cursor < ts[j]} /\ w \subseteq here
  BY <1>1, Windows
<1>5. SUFFICES ASSUME i \notin found', ~LeftUnread(i)' PROVE FALSE
  OBVIOUS
<1>6. i \in w /\ i \notin page
  <2>1. i \in steady /\ i \notin found /\ i \notin page /\ ~LeftUnread(i)
    BY <1>1, <1>3, <1>5 DEF LeftUnread, Beyond
  <2> QED BY <1>1, <1>4, <2>1 DEF NothingIsLost, StillAhead
<1>7. page # {}
  BY <1>4, <1>6, PagesAreFilled
<1>8. PICK until \in 0 .. lastTS : UntilOf(page, until) /\ Link("next", until) \in cut'
  BY <1>3, <1>7
<1>9. PICK k \in page : until = ts[k]
  BY <1>8, EntriesAreStamps DEF UntilOf
<1>10. until < ts[i]
  BY <1>4, <1>6, <1>9, OldestIsAPrefix
<1> QED BY <1>1, <1>5, <1>8, <1>10 DEF LeftUnread, Beyond, Link

(* A returned listing holds everything that was registered from the first  *)
(* page of the walk to its last, whatever registered, changed and left     *)
(* meanwhile, for any number of resources, any page size and any page cap, *)
(* but for what lies behind a link that the walk left at the cap.          *)
THEOREM WalksFindAll == Spec => WalkFindsAll
<1>1. ASSUME PagingInv, [Next]_vars, pc # "done", pc' = "done", NEW i \in steady'
      PROVE  (i \in found \/ LeftUnread(i))'
  <2>1. CASE Anchor
    <3>1. Newest(Above(0)) = {} /\ steady' = here
      BY <1>1, <2>1 DEF Anchor
    <3>2. Above(0) = here
      BY <1>1, Windows DEF PagingInv
    <3>3. here = {}
      BY <1>1, <3>1, <3>2, PagesAreFilled DEF PagingInv
    <3> QED BY <1>1, <3>1, <3>3
  <2>2. CASE NextPage
    BY <1>1, <2>2, NextPageReturns
  <2>3. ASSUME NEW j \in Ids, Register(j) \/ SettleGone(j) \/ Unregister(j) PROVE FALSE
    BY <1>1, <2>3 DEF Register, SettleGone, Unregister, walk
  <2>4. CASE Prev \/ Fail \/ UNCHANGED vars
    BY <1>1, <2>4 DEF Prev, Fail, TurnRound, Return, vars, walk
  <2> QED BY <1>1, <2>1, <2>2, <2>3, <2>4 DEF Next
<1>2. PagingInv /\ [Next]_vars =>
        [pc # "done" /\ pc' = "done" =>
           \A i \in steady' : i \in found' \/ LeftUnread(i)']_vars
  BY <1>1
<1> QED BY <1>2, InvHolds, PTL DEF Spec, WalkFindsAll

(* No chain is cut short by its own history: the link a walk is about to   *)
(* follow is never one it has followed before.                             *)
THEOREM LinksNeverRepeat ==
  Spec => [](pc \in {"prev", "next"} => Link(pc, cursor) \notin seen)
<1>1. PagingInv => (pc \in {"prev", "next"} => Link(pc, cursor) \notin seen)
  BY DEF PagingInv, TypeOK, LinksAreFresh, Link
<1> QED BY <1>1, InvHolds, PTL
=============================================================================
