----------------------- MODULE RegistryMirror_proofs -----------------------
(***************************************************************************)
(* That the mirror never leaves a difference between the target and the    *)
(* source to nobody, for any catalogue, any number of collections and any  *)
(* bounds: NothingForgotten follows from an inductive invariant that says, *)
(* for each of the three ways the source, the cache and the target can     *)
(* disagree about a resource, who is going to deal with it.                *)
(***************************************************************************)
EXTENDS RegistryMirror, FiniteSetTheorems, SequenceTheorems, WellFoundedInduction, TLAPS

-----------------------------------------------------------------------------
(* The constants.                                                          *)
LEMMA Constants ==
  /\ IsFiniteSet(Resources)
  /\ \A r \in Resources : Topic[r] \in Topics /\ Topic[r] \in Nat /\ Parents[r] \subseteq Resources
  /\ \A r \in Resources : \A p \in Parents[r] : Topic[p] < Topic[r]
  /\ Topics \subseteq Nat /\ 1 \in Topics
  /\ Order[1] \in Resources
  /\ Docs \subseteq Nat /\ 0 \in Docs /\ None \notin Docs
<1>1. Order \in Seq(Resources) /\ Len(Order) \in Nat \ {0} /\ DOMAIN Order = 1 .. Len(Order)
  BY OrderAssumption, EmptySeq, LenProperties
<1>2. IsFiniteSet(Resources)
  <2>1. Order \in Surjection(1 .. Len(Order), Resources)
    BY <1>1 DEF Surjection, Resources
  <2>2. IsFiniteSet(1 .. Len(Order))
    BY <1>1, FS_Interval
  <2> QED BY <2>1, <2>2, FS_Surjection
<1>3. \A r \in Resources : Topic[r] \in Topics /\ Topic[r] \in Nat /\ Parents[r] \subseteq Resources
  BY TopicAssumption DEF Topics
<1>4. \A r \in Resources : \A p \in Parents[r] : Topic[p] < Topic[r]
  <2> SUFFICES ASSUME NEW r \in Resources, NEW p \in Parents[r] PROVE Topic[p] < Topic[r]
    OBVIOUS
  <2>1. PICK k \in 1 .. Len(Order) : r = Order[k]
    BY DEF Resources
  <2>2. PICK j \in 1 .. Len(Order) : p = Order[j]
    BY <1>3 DEF Resources
  <2> QED BY <2>1, <2>2, OrderAssumption
<1>5. Topics \subseteq Nat
  BY <1>3 DEF Topics
<1>6. 1 \in Topics
  <2>1. Order[Len(Order)] \in Resources
    BY <1>1 DEF Resources
  <2>2. Topic[Order[Len(Order)]] \in 1 .. Topic[Order[Len(Order)]]
    BY <1>3, <2>1, TopicAssumption
  <2> QED BY <2>1, <2>2, <1>3, TopicAssumption
<1>7. Order[1] \in Resources
  BY <1>1 DEF Resources
<1>8. Docs \subseteq Nat /\ 0 \in Docs /\ None \notin Docs
  <2>1. \A b \in Bounds : b[1] \in Nat
    BY LimitsAssumption
  <2>2. Docs \subseteq Nat
    BY <2>1 DEF Docs
  <2>3. 0 \in Docs
    <3>1. PICK b \in Bounds : TRUE
      BY LimitsAssumption
    <3>2. 0 \in 0 .. b[1]
      BY <2>1, <3>1
    <3> QED BY <3>1, <3>2 DEF Docs
  <2> QED BY <2>2, <2>3, LimitsAssumption
<1> QED BY <1>2, <1>3, <1>4, <1>5, <1>6, <1>7, <1>8

LEMMA LeastNatural ==
  ASSUME NEW T \in SUBSET Nat, T # {}
  PROVE  \E x \in T : \A y \in T : x <= y
<1>1. PICK x \in T : \A y \in T : ~(<<y, x>> \in OpToRel(<, Nat))
  BY NatLessThanWellFounded, WFMin, Zenon
<1>2. ASSUME NEW y \in T PROVE x <= y
  <2>1. ~(y < x)
    BY <1>1, Zenon DEF OpToRel
  <2> QED BY <2>1
<1> QED BY <1>2

(* A set of resources has one of the least collection: the induction along *)
(* the parents.                                                            *)
LEMMA Highest ==
  ASSUME NEW S \in SUBSET Resources, S # {}
  PROVE  \E r \in S : \A p \in Parents[r] : p \notin S
<1> DEFINE T == {Topic[r] : r \in S}
<1>1. T \in SUBSET Nat /\ T # {}
  BY Constants
<1>2. PICK x \in T : \A y \in T : x <= y
  <2> HIDE DEF T
  <2> QED BY <1>1, LeastNatural
<1>3. PICK r \in S : Topic[r] = x
  OBVIOUS
<1>4. ASSUME NEW p \in Parents[r], p \in S PROVE FALSE
  <2>1. Topic[p] < Topic[r] /\ Topic[p] \in Nat /\ Topic[r] \in Nat
    BY Constants
  <2>2. Topic[r] <= Topic[p]
    BY <1>2, <1>3, <1>4
  <2> QED BY <2>1, <2>2
<1> QED BY <1>4

(* The chain of a resource is the resource and the chains of its parents.  *)
(* A function that satisfies the equation exists: what every set holds     *)
(* that holds the resource and the parents of its members.                 *)
ChainIs(chain) ==
  chain = [r \in Resources |-> {r} \cup UNION {chain[p] : p \in Parents[r]}]

LEMMA ChainExists == ChainIs(Chain)
<1> DEFINE Closed(S) == \A x \in S : Parents[x] \subseteq S
           anc == [r \in Resources |->
                     {a \in Resources : \A S \in SUBSET Resources : r \in S /\ Closed(S) => a \in S}]
           Step(r) == {r} \cup UNION {anc[p] : p \in Parents[r]}
<1>1. ASSUME NEW r \in Resources PROVE Step(r) \subseteq anc[r]
  <2>1. r \in anc[r]
    OBVIOUS
  <2>2. ASSUME NEW p \in Parents[r], NEW a \in anc[p] PROVE a \in anc[r]
    <3>1. p \in Resources
      BY Constants
    <3>2. ASSUME NEW S \in SUBSET Resources, r \in S, Closed(S) PROVE a \in S
      BY <3>1, <3>2
    <3> QED BY <3>1, <3>2
  <2> HIDE DEF anc
  <2> QED BY <2>1, <2>2
<1>2. ASSUME NEW r \in Resources PROVE anc[r] \subseteq Step(r)
  <2>1. Step(r) \in SUBSET Resources /\ r \in Step(r)
    BY Constants
  <2>2. Closed(Step(r))
    <3> SUFFICES ASSUME NEW x \in Step(r), NEW q \in Parents[x] PROVE q \in Step(r)
      OBVIOUS
    <3>1. x \in Resources /\ q \in Resources
      BY <2>1, Constants
    <3>2. q \in anc[q]
      BY <3>1
    <3>3. CASE x = r
      BY <3>2, <3>3
    <3>4. ASSUME NEW p \in Parents[r], x \in anc[p] PROVE q \in Step(r)
      <4>1. p \in Resources
        BY Constants
      <4>2. q \in anc[p]
        BY <3>1, <3>4, <4>1
      <4> QED BY <4>2
    <3> QED BY <3>3, <3>4
  <2> SUFFICES ASSUME NEW a \in anc[r] PROVE a \in Step(r)
    OBVIOUS
  <2>3. \A S \in SUBSET Resources : r \in S /\ Closed(S) => a \in S
    OBVIOUS
  <2> HIDE DEF Step, Closed
  <2> QED BY <2>1, <2>2, <2>3
<1>3. anc = [r \in Resources |-> Step(r)]
  <2>1. \A r \in Resources : anc[r] = Step(r)
    BY <1>1, <1>2
  <2>2. anc = [r \in Resources |-> anc[r]]
    OBVIOUS
  <2> HIDE DEF anc, Step
  <2> QED BY <2>1, <2>2
<1>4. \E chain : ChainIs(chain)
  <2>1. ChainIs(anc)
    BY <1>3 DEF ChainIs
  <2> QED BY <2>1
<1>5. Chain = CHOOSE chain : ChainIs(chain)
  BY Zenon DEF Chain, ChainIs
<1> QED BY <1>4, <1>5, Zenon

LEMMA ChainFacts ==
  ASSUME NEW r \in Resources
  PROVE  /\ r \in Chain[r]
         /\ Chain[r] = {r} \cup UNION {Chain[p] : p \in Parents[r]}
         /\ Chain[r] \subseteq Resources
<1>1. \A q \in Resources : Chain[q] = {q} \cup UNION {Chain[p] : p \in Parents[q]}
  BY ChainExists, Zenon DEF ChainIs
<1>2. \A q \in Resources : Chain[q] \subseteq Resources
  <2> DEFINE S == {q \in Resources : ~(Chain[q] \subseteq Resources)}
  <2> SUFFICES ASSUME S # {} PROVE FALSE
    OBVIOUS
  <2>1. PICK q \in S : \A p \in Parents[q] : p \notin S
    BY Highest
  <2>2. \A p \in Parents[q] : Chain[p] \subseteq Resources
    BY <2>1, Constants
  <2> QED BY <1>1, <2>1, <2>2
<1> QED BY <1>1, <1>2

(* The resources of a node that the documents show with all the ancestors  *)
(* in between are in its subtree.                                          *)
UnderIs(under, nodes, docs) ==
  under = [r \in Resources |->
             docs[r] # None /\ (r \in nodes \/ \E p \in Parents[r] : under[p])]

LEMMA UnderExists ==
  ASSUME NEW nodes, NEW docs
  PROVE  \E under : UnderIs(under, nodes, docs)
<1> DEFINE Shown(r, S) == docs[r] # None /\ (r \in nodes \/ \E p \in Parents[r] : p \in S)
           Closed(S) == \A r \in Resources : Shown(r, S) => r \in S
           U == {r \in Resources : \A S \in SUBSET Resources : Closed(S) => r \in S}
           under == [r \in Resources |-> r \in U]
<1>1. U \in SUBSET Resources
  OBVIOUS
<1>2. ASSUME NEW r \in Resources, Shown(r, U) PROVE r \in U
  <2> SUFFICES ASSUME NEW S \in SUBSET Resources, Closed(S) PROVE r \in S
    OBVIOUS
  <2>1. U \subseteq S
    OBVIOUS
  <2> HIDE DEF U
  <2>2. Shown(r, S)
    BY <1>2, <2>1
  <2> QED BY <2>2
<1>3. ASSUME NEW r \in Resources, r \in U PROVE Shown(r, U)
  <2> SUFFICES ASSUME ~Shown(r, U) PROVE FALSE
    OBVIOUS
  <2> DEFINE S == U \ {r}
  <2>1. Closed(S)
    <3> SUFFICES ASSUME NEW c \in Resources, Shown(c, S) PROVE c \in S
      OBVIOUS
    <3>0. S \subseteq U
      OBVIOUS
    <3>1. Shown(c, U)
      <4> HIDE DEF S, U
      <4> QED BY <3>0
    <3>2. c \in U
      BY <1>2, <3>1
    <3>3. c # r
      BY <3>1
    <3> QED BY <3>2, <3>3
  <2>2. S \in SUBSET Resources
    OBVIOUS
  <2>3. r \in S
    BY <1>3, <2>1, <2>2
  <2> QED BY <2>3
<1>4. under = [r \in Resources |->
                 docs[r] # None /\ (r \in nodes \/ \E p \in Parents[r] : under[p])]
  <2>1. \A r \in Resources : (r \in U) <=> Shown(r, U)
    BY <1>2, <1>3
  <2>2. \A r \in Resources : under[r] = (docs[r] # None /\ (r \in nodes \/ \E p \in Parents[r] : under[p]))
    <3> SUFFICES ASSUME NEW r \in Resources
                 PROVE  under[r] = (docs[r] # None /\ (r \in nodes \/ \E p \in Parents[r] : under[p]))
      OBVIOUS
    <3>1. \A p \in Parents[r] : under[p] = (p \in U)
      BY Constants
    <3>2. under[r] = (r \in U)
      OBVIOUS
    <3>3. (r \in U) = Shown(r, U)
      BY <2>1
    <3> HIDE DEF under, U
    <3>4. (\E p \in Parents[r] : under[p]) = (\E p \in Parents[r] : p \in U)
      BY <3>1
    <3> QED BY <3>2, <3>3, <3>4
  <2>3. under = [r \in Resources |-> under[r]]
    OBVIOUS
  <2> HIDE DEF under
  <2> QED BY <2>2, <2>3
<1> QED BY <1>4 DEF UnderIs

LEMMA SubtreeIsWhole ==
  ASSUME NEW nodes \in SUBSET Resources, NEW docs, NEW r \in Resources,
         Chain[r] \cap nodes # {}, Chain[r] \subseteq Known(docs)
  PROVE  r \in Subtree(nodes, docs)
<1> DEFINE under == CHOOSE under : UnderIs(under, nodes, docs)
<1>1. UnderIs(under, nodes, docs)
  BY UnderExists, Zenon
<1>2. Subtree(nodes, docs) = {c \in Resources : under[c]}
  BY Zenon DEF Subtree, UnderIs
<1> HIDE DEF under
<1>3. \A c \in Resources :
        under[c] = (docs[c] # None /\ (c \in nodes \/ \E p \in Parents[c] : under[p]))
  BY <1>1 DEF UnderIs
<1> DEFINE Missed == {c \in Resources : Chain[c] \cap nodes # {} /\ Chain[c] \subseteq Known(docs) /\ ~under[c]}
<1>4. ASSUME Missed # {} PROVE FALSE
  <2>1. PICK c \in Missed : \A p \in Parents[c] : p \notin Missed
    BY <1>4, Highest
  <2>2. c \in Chain[c] /\ Chain[c] = {c} \cup UNION {Chain[p] : p \in Parents[c]}
    BY ChainFacts
  <2>3. docs[c] # None
    BY <2>1, <2>2 DEF Known
  <2>4. c \notin nodes /\ \A p \in Parents[c] : ~under[p]
    BY <1>3, <2>1, <2>3
  <2>5. PICK p \in Parents[c] : Chain[p] \cap nodes # {}
    BY <2>1, <2>2, <2>4
  <2>6. p \in Resources /\ Chain[p] \subseteq Known(docs)
    BY <2>1, <2>2, Constants
  <2> QED BY <2>1, <2>4, <2>5, <2>6
<1> QED BY <1>2, <1>4

(* An order of a set of resources lists each of them once.                 *)
LEMMA OrdersAreWhole ==
  ASSUME NEW rs \in SUBSET Resources, NEW o \in Orders(rs)
  PROVE  /\ Cardinality(rs) \in Nat /\ DOMAIN o = 1 .. Cardinality(rs)
         /\ \A k \in DOMAIN o : o[k] \in rs
         /\ \A r \in rs : \E k \in DOMAIN o : o[k] = r
         /\ \A j, k \in DOMAIN o : o[j] = o[k] => j = k
<1> DEFINE n == Cardinality(rs)
<1>1. IsFiniteSet(rs)
  BY Constants, FS_Subset
<1>2. n \in Nat
  BY <1>1, FS_CardinalityType
<1>3. o \in [1 .. n -> rs] /\ \A i, j \in DOMAIN o : o[i] = o[j] => i = j
  BY DEF Orders
<1> HIDE DEF n
<1>4. IsFiniteSet(1 .. n) /\ Cardinality(1 .. n) = n
  BY <1>2, FS_Interval
<1>5. o \in Injection(1 .. n, rs)
  BY <1>3 DEF Injection, IsInjective
<1>6. o \in Surjection(1 .. n, rs)
  BY <1>1, <1>4, <1>5, FS_Injection DEF n
<1>7. \A k \in rs : \E i \in 1 .. n : o[i] = k
  BY <1>6 DEF Surjection
<1> QED BY <1>2, <1>3, <1>7 DEF n

-----------------------------------------------------------------------------
(* What a piece of work covers.                                            *)
LEMMA WorkFacts ==
  /\ Nothing \in Work /\ WholeCatalogue \in Work
  /\ \A n \in Nodes : SubtreeOf(n) \in Work
  /\ \A rs \in SUBSET Resources : Refused(rs) \in Work
  /\ \A v, w \in Work : Add(v, w) \in Work
BY DEF Nothing, WholeCatalogue, SubtreeOf, Refused, Add, Work

LEMMA CoversAdd ==
  ASSUME NEW v \in Work, NEW w \in Work, NEW r \in Resources
  PROVE  Covers(Add(v, w), r) <=> Covers(v, r) \/ Covers(w, r)
<1>1. /\ Add(v, w).all = (v.all \/ w.all)
      /\ Add(v, w).nodes = v.nodes \cup w.nodes
      /\ Add(v, w).refused = v.refused \cup w.refused
  BY DEF Add
<1> QED BY <1>1 DEF Covers

LEMMA CoversOf ==
  ASSUME NEW r \in Resources
  PROVE  /\ ~Covers(Nothing, r) /\ Covers(WholeCatalogue, r)
         /\ \A n \in Nodes : n \in Chain[r] => Covers(SubtreeOf(n), r)
         /\ \A rs \in SUBSET Resources : r \in rs => Covers(Refused(rs), r)
<1>1. /\ ~Nothing.all /\ Nothing.nodes = {} /\ Nothing.refused = {}
      /\ WholeCatalogue.all
      /\ \A n : SubtreeOf(n).nodes = {n}
      /\ \A rs : Refused(rs).refused = rs
  BY DEF Nothing, WholeCatalogue, SubtreeOf, Refused
<1> QED BY <1>1 DEF Covers

(* The rows of a collection for some resources: one for each, that shows   *)
(* the document.                                                           *)
LEMMA RowsAreWhole ==
  ASSUME NEW t \in Topics, NEW rs \in SUBSET Resources, NEW o \in Orders(Of(t, rs)),
         NEW docs \in Catalogues
  PROVE  /\ Rows(o, docs) \in Seq(Row) /\ Len(Rows(o, docs)) \in Nat
         /\ \A k \in 1 .. Len(Rows(o, docs)) :
              /\ Rows(o, docs)[k].res \in rs /\ Topic[Rows(o, docs)[k].res] = t
              /\ Rows(o, docs)[k].doc = docs[Rows(o, docs)[k].res]
         /\ \A r \in rs : Topic[r] = t => \E k \in 1 .. Len(Rows(o, docs)) : Rows(o, docs)[k].res = r
<1> DEFINE n == Cardinality(Of(t, rs))
<1>1. /\ n \in Nat /\ DOMAIN o = 1 .. n
      /\ \A k \in 1 .. n : o[k] \in Of(t, rs)
      /\ \A r \in Of(t, rs) : \E k \in 1 .. n : o[k] = r
  <2>1. Of(t, rs) \in SUBSET Resources
    BY DEF Of
  <2> QED BY <2>1, OrdersAreWhole
<1> HIDE DEF n
<1>2. Rows(o, docs) = [k \in 1 .. n |-> [res |-> o[k], doc |-> docs[o[k]]]]
  BY <1>1 DEF Rows
<1>3. \A k \in 1 .. n : [res |-> o[k], doc |-> docs[o[k]]] \in Row
  BY <1>1 DEF Row, Of, Catalogues
<1>4. Rows(o, docs) \in Seq(Row) /\ Len(Rows(o, docs)) = n
  BY <1>1, <1>2, <1>3
<1> QED BY <1>1, <1>2, <1>4 DEF Of

LEMMA CurrentIsOwed ==
  ASSUME run.todo \subseteq Resources, run.todo # {}
  PROVE  Current \in run.todo
<1> DEFINE T == {k \in 1 .. Len(Order) : Order[k] \in run.todo}
<1>1. T \in SUBSET Nat /\ T # {}
  BY DEF Resources
<1>2. PICK x \in T : \A y \in T : x <= y
  <2> HIDE DEF T
  <2> QED BY <1>1, LeastNatural
<1>3. Len(Order) \in Nat
  BY OrderAssumption, LenProperties
<1>4. x \in 1 .. Len(Order) /\ Order[x] \in run.todo /\ \A j \in 1 .. x - 1 : Order[j] \notin run.todo
  BY <1>2, <1>3
<1> QED BY <1>4 DEF Current, Foremost

LEMMA CascadesAre ==
  ASSUME NEW r \in Resources, NEW gone \in Cascades(r)
  PROVE  r \in gone /\ gone \subseteq Under(r) /\ gone \subseteq Resources
BY ChainFacts DEF Cascades, Under

-----------------------------------------------------------------------------
(* What the steps of the watchers and of the pass take for granted.        *)
Steps ==
  /\ run.pc \in {"idle", "list", "install", "snapshot"} =>
       run.todo = {} /\ run.unanswered = {} /\ run.waiting = {}
  /\ run.pc \in {"list", "install", "snapshot"} => run.work.all
  /\ run.pc = "post" => run.silent # GiveUpAfter
  /\ run.pc \in {"post", "posted"} => run.todo # {}
  /\ run.todo \subseteq Known(run.docs)
  /\ \A t \in Topics : watch[t].pc # "idle" => Topic[watch[t].res] = t
  /\ \A t \in Topics : watch[t].pc = "post" => watch[t].doc # None

(* Every row is of the stream's collection, and the last row of a resource *)
(* shows it as the source does.                                            *)
Shows(t, k) ==
  (\A j \in k + 1 .. Len(stream[t]) : stream[t][j].res # stream[t][k].res)
    => stream[t][k].doc = source[stream[t][k].res]
LastRows ==
  \A t \in Topics :
    /\ t \notin listening => stream[t] = <<>>
    /\ \A k \in 1 .. Len(stream[t]) : Topic[stream[t][k].res] = t /\ Shows(t, k)

(* A change of the source is a document nobody has seen yet.               *)
Dated ==
  /\ \A r \in Resources :
       /\ source[r] # None => source[r] <= changes
       /\ cache[r] # None => cache[r] <= changes
       /\ run.docs[r] # None => run.docs[r] <= changes
  /\ \A t \in Topics : \A k \in 1 .. Len(stream[t]) :
       stream[t][k].doc # None => stream[t][k].doc <= changes

Inv1 == TypeOK /\ Steps

LEMMA InitInv1 == Init => Inv1
<1> SUFFICES ASSUME Init PROVE Inv1
  OBVIOUS
<1>1. source \in Catalogues /\ cache \in Catalogues /\ target \in Catalogues
  BY Constants DEF Init, Catalogues
<1>2. stream \in [Topics -> Seq(Row)]
  BY DEF Init
<1>3. watch \in [Topics -> Requests]
  BY Constants DEF Init, Idle, Requests
<1>4. Rest \in Runs /\ run = Rest
  BY WorkFacts, LimitsAssumption DEF Init, Rest, Runs, Catalogues
<1>5. owed \in Work /\ pending \in Work /\ retry \in Work
  BY WorkFacts DEF Init
<1>6. orphanTries \in [Resources -> 0 .. OrphanTries]
  BY LimitsAssumption DEF Init
<1>7. Within(changes, troubles)
  BY LimitsAssumption DEF Init, Within
<1>8. TypeOK
  BY <1>1, <1>2, <1>3, <1>4, <1>5, <1>6, <1>7 DEF Init, TypeOK
<1>9. Steps
  BY <1>4 DEF Init, Steps, Rest, Idle
<1> QED BY <1>8, <1>9 DEF Inv1

LEMMA Room ==
  ASSUME TypeOK, NEW c \in Nat, NEW t \in Nat, Within(c, t)
  PROVE  c \in Docs
BY LimitsAssumption DEF Within, Docs

LEMMA ChangeInv1 ==
  ASSUME Inv1, NEW rs \in SUBSET Resources, Change(rs),
         changes + 1 \in Docs => source' \in Catalogues
  PROVE  Inv1'
<1>1. changes + 1 \in Nat /\ Within(changes + 1, troubles) /\ changes' = changes + 1
  BY DEF Inv1, TypeOK, Change
<1>2. source' \in Catalogues
  BY <1>1, Room DEF Inv1, TypeOK
<1>3. stream' \in [Topics -> Seq(Row)]
  <2>1. PICK o \in [Topics -> UNION {Orders(Of(t, rs)) : t \in Topics}] :
          /\ \A t \in Topics : o[t] \in Orders(Of(t, rs))
          /\ stream' = [t \in Topics |-> IF t \in listening
                                         THEN stream[t] \o Rows(o[t], source') ELSE <<>>]
    BY DEF Change
  <2>2. \A t \in Topics : Rows(o[t], source') \in Seq(Row) /\ stream[t] \in Seq(Row)
    BY <1>2, <2>1, RowsAreWhole DEF Inv1, TypeOK
  <2> HIDE DEF Row
  <2> QED BY <2>1, <2>2
<1>4. TypeOK'
  BY <1>1, <1>2, <1>3 DEF Inv1, TypeOK, Change, mirror, work
<1>5. Steps'
  BY DEF Inv1, Steps, Change, mirror, work, Known
<1> QED BY <1>4, <1>5 DEF Inv1

LEMMA RegisterInv1 ==
  ASSUME Inv1, NEW r \in Resources, Register(r) \/ Unregister(r)
  PROVE  Inv1'
<1>1. CASE Register(r)
  <2>1. changes + 1 \in Docs => source' \in Catalogues
    BY <1>1 DEF Inv1, TypeOK, Catalogues, Register
  <2> QED BY <1>1, <2>1, ChangeInv1 DEF Register
<1>2. CASE Unregister(r)
  <2>1. PICK gone \in Cascades(r) : source' = Without(source, gone) /\ Change(gone \cap Known(source))
    BY <1>2 DEF Unregister
  <2>2. source' \in Catalogues
    BY <2>1 DEF Inv1, TypeOK, Catalogues, Without
  <2>3. gone \cap Known(source) \in SUBSET Resources
    BY DEF Known
  <2> QED BY <2>1, <2>2, <2>3, ChangeInv1
<1> QED BY <1>1, <1>2

(* A watcher's next request.                                               *)
LEMMA RequestIs ==
  ASSUME TypeOK, NEW t \in Topics, NEW step \in {"post", "posted", "delete", "deleted"},
         NEW row \in [res : Resources, doc : Docs \cup {None}], Request(t, step, row)
  PROVE  /\ watch' \in [Topics -> Requests]
         /\ watch'[t] = [pc |-> step, res |-> row.res, doc |-> row.doc]
         /\ \A u \in Topics \ {t} : watch'[u] = watch[u]
BY DEF TypeOK, Request, Requests

LEMMA IdleIs ==
  ASSUME TypeOK, NEW t \in Topics, watch' = [watch EXCEPT ![t] = Idle]
  PROVE  /\ watch' \in [Topics -> Requests] /\ watch'[t].pc = "idle"
         /\ \A u \in Topics \ {t} : watch'[u] = watch[u]
<1>1. Idle \in Requests /\ Idle.pc = "idle"
  BY Constants DEF Idle, Requests
<1> QED BY <1>1 DEF TypeOK

LEMMA SubscribeInv1 ==
  ASSUME Inv1, NEW t \in Topics, Subscribe(t) \/ LoseSocket(t)
  PROVE  Inv1'
<1>1. CASE Subscribe(t)
  <2>1. PICK o \in Orders(Of(t, Known(source))) : stream' = [stream EXCEPT ![t] = Rows(o, source)]
    BY <1>1 DEF Subscribe
  <2>2. Rows(o, source) \in Seq(Row)
    <3>1. Known(source) \in SUBSET Resources
      BY DEF Known
    <3> QED BY <3>1, RowsAreWhole DEF Inv1, TypeOK
  <2>3. astray' \subseteq Resources
    BY <1>1 DEF Inv1, TypeOK, Subscribe, Known
  <2>4. TypeOK'
    BY <1>1, <2>1, <2>2, <2>3 DEF Inv1, TypeOK, Subscribe, mirror, work
  <2>5. Steps'
    BY <1>1 DEF Inv1, Steps, Subscribe, mirror, work, Known
  <2> QED BY <2>4, <2>5 DEF Inv1
<1>2. CASE LoseSocket(t)
  <2>1. TypeOK'
    BY <1>2 DEF Inv1, TypeOK, LoseSocket, Trouble, mirror, work
  <2>2. Steps'
    BY <1>2 DEF Inv1, Steps, LoseSocket, mirror, work, Known
  <2> QED BY <2>1, <2>2 DEF Inv1
<1> QED BY <1>1, <1>2

(* The row a watcher takes.                                                *)
LEMMA HeadIs ==
  ASSUME TypeOK, NEW t \in Topics, stream[t] # <<>>
  PROVE  /\ Head(stream[t]) \in Row /\ Tail(stream[t]) \in Seq(Row)
         /\ Len(stream[t]) \in Nat \ {0} /\ Head(stream[t]) = stream[t][1]
         /\ Len(Tail(stream[t])) = Len(stream[t]) - 1
         /\ \A k \in 1 .. Len(stream[t]) - 1 : Tail(stream[t])[k] = stream[t][k + 1]
         /\ \A k \in 1 .. Len(stream[t]) : stream[t][k] \in Row
<1>1. stream[t] \in Seq(Row)
  BY DEF TypeOK
<1> QED BY <1>1, HeadTailProperties, EmptySeq, ElementOfSeq, LenProperties

LEMMA ForwardInv1 ==
  ASSUME Inv1, LastRows, NEW t \in Topics, ForwardRow(t)
  PROVE  Inv1'
<1> DEFINE row == Head(stream[t])
<1>1. row \in Row /\ row.res \in Resources /\ row.doc \in Docs \cup {None} /\ Topic[row.res] = t
  BY HeadIs DEF Inv1, ForwardRow, Row, LastRows
<1>2. stream' = [stream EXCEPT ![t] = Tail(@)] /\ stream' \in [Topics -> Seq(Row)]
  BY HeadIs DEF Inv1, TypeOK, ForwardRow
<1>3. \/ row.doc # None /\ Land(t, row) /\ UNCHANGED <<landed, astray>>
      \/ row.doc = None /\ UNCHANGED <<cache, landed, pending, watch, astray>>
      \/ /\ row.doc = None
         /\ cache' = [cache EXCEPT ![row.res] = None] /\ landed' = landed \ {row.res}
         /\ Request(t, "delete", row) /\ astray' = astray \cup Masked(row.res)
         /\ UNCHANGED pending
  BY Zenon DEF ForwardRow
<1> HIDE DEF row
<1>4. /\ cache' \in Catalogues /\ landed' \subseteq Resources /\ pending' \in Work
      /\ watch' \in [Topics -> Requests] /\ astray' \subseteq Resources
      /\ \A u \in Topics \ {t} : watch'[u] = watch[u]
      /\ \/ watch'[t] = watch[t]
         \/ watch'[t] = [pc |-> "delete", res |-> row.res, doc |-> row.doc]
         \/ row.doc # None /\ watch'[t] = [pc |-> "post", res |-> row.res, doc |-> row.doc]
  <2>1. CASE row.doc # None /\ Land(t, row) /\ UNCHANGED <<landed, astray>>
    <3>1. cache' \in Catalogues /\ pending' \in Work
      <4>1. /\ cache' = cache \/ cache' = [cache EXCEPT ![row.res] = row.doc]
            /\ pending' = pending \/ pending' = Add(pending, Refused({row.res}))
        BY <2>1 DEF Land
      <4>2. Add(pending, Refused({row.res})) \in Work
        BY <1>1, WorkFacts DEF Inv1, TypeOK
      <4> QED BY <1>1, <4>1, <4>2 DEF Inv1, TypeOK, Catalogues
    <3>2. CASE Request(t, "post", row)
      BY <1>1, <2>1, <3>1, <3>2, RequestIs DEF Inv1, TypeOK, Row
    <3>3. CASE watch' = watch
      BY <2>1, <3>1, <3>3 DEF Inv1, TypeOK
    <3> QED BY <2>1, <3>2, <3>3 DEF Land
  <2>2. CASE row.doc = None /\ UNCHANGED <<cache, landed, pending, watch, astray>>
    BY <2>2 DEF Inv1, TypeOK
  <2>3. CASE /\ row.doc = None
             /\ cache' = [cache EXCEPT ![row.res] = None] /\ landed' = landed \ {row.res}
             /\ Request(t, "delete", row) /\ astray' = astray \cup Masked(row.res)
             /\ UNCHANGED pending
    <3>1. Masked(row.res) \subseteq Resources
      BY DEF Masked, Settled, Under
    <3> QED BY <1>1, <2>3, <3>1, RequestIs DEF Inv1, TypeOK, Row, Catalogues
  <2> QED BY <1>3, <2>1, <2>2, <2>3
<1>5. TypeOK'
  BY <1>2, <1>4 DEF Inv1, TypeOK, ForwardRow
<1>6. Steps'
  <2>1. UNCHANGED run
    BY DEF ForwardRow
  <2>2. \A u \in Topics : (watch'[u].pc # "idle" => Topic[watch'[u].res] = u)
                          /\ (watch'[u].pc = "post" => watch'[u].doc # None)
    BY <1>1, <1>4 DEF Inv1, Steps
  <2> QED BY <2>1, <2>2 DEF Inv1, Steps, Known
<1> QED BY <1>5, <1>6 DEF Inv1

LEMMA AstrayIs ==
  ASSUME TypeOK, NEW r \in Resources, NEW doc, NEW gone \in SUBSET Resources
  PROVE  /\ AfterPost(r, doc) \subseteq Resources /\ AfterDelete(r, gone) \subseteq Resources
         /\ Settled(r) \subseteq Resources /\ Swept(gone) \subseteq Resources
         /\ Put(r, doc) = [target EXCEPT ![r] = doc]
         /\ Without(target, gone) \in Catalogues
         /\ doc \in Docs \cup {None} => Put(r, doc) \in Catalogues
<1>1. /\ Settled(r) \subseteq Resources /\ Masked(r) \subseteq Resources
      /\ Overtaken(r, doc) \subseteq Resources /\ Swept(gone) \subseteq Resources
  BY DEF Settled, Masked, Overtaken, Swept, Under
<1>2. AfterPost(r, doc) \subseteq Resources /\ AfterDelete(r, gone) \subseteq Resources
  BY <1>1 DEF AfterPost, AfterDelete, TypeOK
<1>3. target \in Catalogues
  BY DEF TypeOK
<1>4. /\ Put(r, doc) = [target EXCEPT ![r] = doc]
      /\ Without(target, gone) \in Catalogues
      /\ doc \in Docs \cup {None} => Put(r, doc) \in Catalogues
  BY <1>3 DEF Put, Without, Catalogues
<1> QED BY <1>1, <1>2, <1>4

LEMMA LivePostInv1 ==
  ASSUME Inv1, NEW t \in Topics, LivePost(t)
  PROVE  Inv1'
<1> DEFINE r == watch[t].res
           doc == watch[t].doc
<1>1. r \in Resources /\ doc \in Docs \cup {None} /\ watch[t].pc = "post" /\ Topic[r] = t
      /\ watch[t] \in [res : Resources, doc : Docs \cup {None}, pc : {"post"}]
  BY DEF Inv1, TypeOK, Requests, LivePost, Steps
<1>2. target' = target \/ target' = Put(r, doc)
  BY DEF LivePost
<1>3. astray' = astray \/ astray' = astray \cup {r} \/ astray' = AfterPost(r, doc)
  BY DEF LivePost
<1>4. pending' = pending \/ pending' = Add(pending, Refused({r}))
  BY DEF LivePost, RefusalOwed
<1>5. retry' = retry \/ retry' = Add(retry, Refused({r}))
  BY DEF LivePost
<1>6. UNCHANGED troubles \/ Trouble
  BY DEF LivePost
<1>7. watch' = [watch EXCEPT ![t] = Idle]
      \/ watch' = [watch EXCEPT ![t] = [pc |-> "posted", res |-> r, doc |-> doc]]
  BY DEF LivePost, Request
<1>8. UNCHANGED <<source, stream, filled, listening, changes, cache, landed, targetNodes, run, owed, orphanTries>>
  BY DEF LivePost, env, mirror
<1> HIDE DEF r, doc
<1>9. /\ watch' \in [Topics -> Requests]
      /\ watch'[t].pc = "idle" \/ watch'[t] = [pc |-> "posted", res |-> r, doc |-> doc]
      /\ \A u \in Topics \ {t} : watch'[u] = watch[u]
  <2>1. CASE watch' = [watch EXCEPT ![t] = Idle]
    BY <2>1, IdleIs DEF Inv1
  <2>2. CASE watch' = [watch EXCEPT ![t] = [pc |-> "posted", res |-> r, doc |-> doc]]
    BY <1>1, <2>2 DEF Inv1, TypeOK, Requests
  <2> QED BY <1>7, <2>1, <2>2
<1>10. /\ target' \in Catalogues /\ astray' \subseteq Resources
       /\ pending' \in Work /\ retry' \in Work
  <2>1. Add(pending, Refused({r})) \in Work /\ Add(retry, Refused({r})) \in Work
    BY <1>1, WorkFacts DEF Inv1, TypeOK
  <2>2. AfterPost(r, doc) \subseteq Resources /\ Put(r, doc) \in Catalogues
    BY <1>1, AstrayIs DEF Inv1
  <2> QED BY <1>1, <1>2, <1>3, <1>4, <1>5, <2>1, <2>2 DEF Inv1, TypeOK
<1>11. TypeOK'
  BY <1>6, <1>8, <1>9, <1>10 DEF Inv1, TypeOK, Trouble
<1>12. Steps'
  BY <1>1, <1>8, <1>9 DEF Inv1, Steps, Known
<1> QED BY <1>11, <1>12 DEF Inv1

LEMMA LiveDeleteInv1 ==
  ASSUME Inv1, NEW t \in Topics, LiveDelete(t)
  PROVE  Inv1'
<1> DEFINE r == watch[t].res
<1>1. r \in Resources /\ watch[t].doc \in Docs \cup {None} /\ watch[t].pc = "delete" /\ Topic[r] = t
  BY DEF Inv1, TypeOK, Requests, LiveDelete, Steps
<1>2. PICK gone \in Cascades(r) :
        /\ target' = target \/ target' = Without(target, gone)
        /\ astray' = astray \cup {r} \/ astray' = AfterDelete(r, gone)
        /\ UNCHANGED troubles \/ Trouble
        /\ watch' = [watch EXCEPT ![t] = Idle]
           \/ watch' = [watch EXCEPT ![t] = [pc |-> "deleted", res |-> r, doc |-> watch[t].doc]]
  BY Zenon DEF LiveDelete, Request
<1>3. UNCHANGED <<source, stream, filled, listening, changes, cache, landed, targetNodes, run,
                  owed, pending, retry, orphanTries>>
  BY DEF LiveDelete, env, mirror, work
<1> HIDE DEF r
<1>4. /\ watch' \in [Topics -> Requests]
      /\ watch'[t].pc = "idle" \/ watch'[t] = [pc |-> "deleted", res |-> r, doc |-> watch[t].doc]
      /\ \A u \in Topics \ {t} : watch'[u] = watch[u]
  <2>1. CASE watch' = [watch EXCEPT ![t] = Idle]
    BY <2>1, IdleIs DEF Inv1
  <2>2. CASE watch' = [watch EXCEPT ![t] = [pc |-> "deleted", res |-> r, doc |-> watch[t].doc]]
    BY <1>1, <2>2 DEF Inv1, TypeOK, Requests
  <2> QED BY <1>2, <2>1, <2>2
<1>5. target' \in Catalogues /\ astray' \subseteq Resources
  <2>1. gone \in SUBSET Resources
    BY <1>1, CascadesAre
  <2>2. AfterDelete(r, gone) \subseteq Resources /\ Without(target, gone) \in Catalogues
    BY <1>1, <2>1, AstrayIs DEF Inv1
  <2> QED BY <1>1, <1>2, <2>2 DEF Inv1, TypeOK
<1>6. TypeOK'
  BY <1>2, <1>3, <1>4, <1>5 DEF Inv1, TypeOK, Trouble
<1>7. Steps'
  BY <1>1, <1>3, <1>4 DEF Inv1, Steps, Known
<1> QED BY <1>6, <1>7 DEF Inv1

LEMMA LiveDoneInv1 ==
  ASSUME Inv1, NEW t \in Topics, LivePosted(t) \/ LiveDeleted(t)
  PROVE  Inv1'
<1> DEFINE r == watch[t].res
<1>1. r \in Resources
  BY DEF Inv1, TypeOK, Requests
<1>2. watch' = [watch EXCEPT ![t] = Idle]
  BY DEF LivePosted, LiveDeleted
<1>3. /\ landed' \subseteq Resources /\ targetNodes' \subseteq Nodes /\ astray' \subseteq Resources
      /\ UNCHANGED <<source, stream, filled, listening, changes, cache, run, owed, pending, retry,
                     orphanTries, target, troubles>>
  <2>1. CASE LivePosted(t)
    BY <1>1, <2>1 DEF Inv1, TypeOK, LivePosted, NoteLanded, env, work
  <2>2. CASE LiveDeleted(t)
    <3>1. Settled(r) \subseteq Resources
      BY DEF Settled, Under
    <3> QED BY <2>2, <3>1 DEF Inv1, TypeOK, LiveDeleted, env, work
  <2> QED BY <2>1, <2>2
<1>4. /\ watch' \in [Topics -> Requests] /\ watch'[t].pc = "idle"
      /\ \A u \in Topics \ {t} : watch'[u] = watch[u]
  BY <1>2, IdleIs DEF Inv1
<1>5. TypeOK'
  BY <1>3, <1>4 DEF Inv1, TypeOK
<1>6. Steps'
  BY <1>3, <1>4 DEF Inv1, Steps, Known
<1> QED BY <1>5, <1>6 DEF Inv1

LEMMA TimersInv1 ==
  ASSUME Inv1, RepairDue \/ RetryDue \/ Probe \/ \E n \in Nodes : Heartbeat(n) \/ Evict(n)
  PROVE  Inv1'
<1>1. /\ Add(owed, pending) \in Work /\ Add(owed, retry) \in Work /\ Nothing \in Work
      /\ Add(owed, WholeCatalogue) \in Work
      /\ \A n \in Nodes : Add(owed, SubtreeOf(n)) \in Work
  BY WorkFacts DEF Inv1, TypeOK
<1>2. CASE RepairDue
  BY <1>1, <1>2 DEF Inv1, TypeOK, Steps, RepairDue, env, mirror, Known
<1>3. CASE RetryDue
  BY <1>1, <1>3 DEF Inv1, TypeOK, Steps, RetryDue, env, mirror, Known
<1>4. CASE Probe
  BY <1>1, <1>4 DEF Inv1, TypeOK, Steps, Probe, env, mirror, Known
<1>5. ASSUME NEW n \in Nodes, Heartbeat(n) PROVE Inv1'
  BY <1>1, <1>5 DEF Inv1, TypeOK, Steps, Heartbeat, env, Known
<1>6. ASSUME NEW n \in Nodes, Evict(n) PROVE Inv1'
  <2>1. n \in Resources /\ Under(n) \subseteq Resources
    BY DEF Nodes, Under
  <2>2. target' \in Catalogues /\ astray' \subseteq Resources
    BY <1>6, <2>1, AstrayIs DEF Evict, Inv1, TypeOK
  <2> QED BY <1>6, <2>2 DEF Inv1, TypeOK, Steps, Evict, Trouble, env, mirror, work, Known
<1> QED BY <1>2, <1>3, <1>4, <1>5, <1>6

(* The steps of a pass.                                                    *)
LEMMA RunFacts ==
  ASSUME TypeOK
  PROVE  /\ Rest \in Runs /\ Rest.pc = "idle"
         /\ Rest.todo = {} /\ Rest.unanswered = {} /\ Rest.waiting = {}
         /\ Rest.docs = [r \in Resources |-> None]
         /\ Listing \in Runs /\ Listing.pc = "list" /\ Listing.work.all
         /\ Listing.todo = {} /\ Listing.unanswered = {} /\ Listing.waiting = {}
         /\ Listing.docs = Rest.docs
         /\ Refreshed \in Runs /\ Refreshed.pc = "snapshot" /\ Refreshed.work = run.work
         /\ Refreshed.todo = {} /\ Refreshed.unanswered = {} /\ Refreshed.waiting = {}
         /\ Refreshed.docs = Rest.docs
         /\ \A w \in Work, docs \in Catalogues, todo \in SUBSET Resources :
              /\ Sending(w, docs, todo) \in Runs
              /\ Sending(w, docs, todo).pc = "send" /\ Sending(w, docs, todo).todo = todo
              /\ Sending(w, docs, todo).docs = docs /\ Sending(w, docs, todo).work = w
              /\ Sending(w, docs, todo).unanswered = {} /\ Sending(w, docs, todo).waiting = {}
<1>1. Rest \in Runs
  BY WorkFacts, LimitsAssumption DEF Rest, Runs, Catalogues
<1>2. WholeCatalogue \in Work /\ WholeCatalogue.all /\ 1 \in Topics
  BY WorkFacts, Constants DEF WholeCatalogue, Nothing
<1>3. Listing \in Runs /\ Listing.pc = "list" /\ Listing.work.all
      /\ Listing.todo = {} /\ Listing.unanswered = {} /\ Listing.waiting = {}
      /\ Listing.docs = Rest.docs
  BY <1>1, <1>2 DEF Listing, Rest, Runs
<1>4. ASSUME NEW w \in Work, NEW docs \in Catalogues, NEW todo \in SUBSET Resources
      PROVE  /\ Sending(w, docs, todo) \in Runs
             /\ Sending(w, docs, todo).pc = "send" /\ Sending(w, docs, todo).todo = todo
             /\ Sending(w, docs, todo).docs = docs /\ Sending(w, docs, todo).work = w
             /\ Sending(w, docs, todo).unanswered = {} /\ Sending(w, docs, todo).waiting = {}
  BY <1>1 DEF Sending, Rest, Runs
<1>5. /\ Refreshed \in Runs /\ Refreshed.pc = "snapshot" /\ Refreshed.work = run.work
      /\ Refreshed.todo = {} /\ Refreshed.unanswered = {} /\ Refreshed.waiting = {}
      /\ Refreshed.docs = Rest.docs
  <2>1. run.work \in Work
    BY DEF TypeOK, Runs
  <2> QED BY <1>1, <2>1 DEF Refreshed, Rest, Runs
<1> QED BY <1>1, <1>3, <1>4, <1>5 DEF Rest

LEMMA WantIsKnown ==
  ASSUME NEW w \in Work, NEW docs \in Catalogues
  PROVE  /\ Want(w, docs) \subseteq Known(docs) /\ Known(docs) \subseteq Resources
         /\ Orphans(w, docs) \subseteq Resources
         /\ \A r \in w.refused \cap Known(docs) : r \in Want(w, docs) \/ r \in Orphans(w, docs)
         /\ \A r \in Resources : Chain[r] \cap w.nodes # {} /\ Chain[r] \subseteq Known(docs)
                                   => r \in Want(w, docs)
<1>1. w.nodes \in SUBSET Resources /\ w.refused \subseteq Resources
  BY DEF Work, Nodes
<1>2. Known(docs) \subseteq Resources /\ Orphans(w, docs) \subseteq Resources
  BY <1>1 DEF Known, Orphans
<1>3. Subtree(w.nodes, docs) \subseteq Known(docs)
  <2> DEFINE under == CHOOSE under : UnderIs(under, w.nodes, docs)
  <2>1. UnderIs(under, w.nodes, docs)
    BY UnderExists, Zenon
  <2>2. Subtree(w.nodes, docs) = {c \in Resources : under[c]}
    BY Zenon DEF Subtree, UnderIs
  <2> HIDE DEF under
  <2> QED BY <2>1, <2>2 DEF UnderIs, Known
<1>4. \A r \in (w.refused \cap Known(docs)) \ Orphans(w, docs) : Chain[r] \subseteq Known(docs) /\ r \in Chain[r]
  BY <1>1, ChainFacts DEF Orphans
<1>5. \A r \in Resources : Chain[r] \cap w.nodes # {} /\ Chain[r] \subseteq Known(docs)
                             => r \in Subtree(w.nodes, docs)
  BY <1>1, SubtreeIsWhole
<1> QED BY <1>2, <1>3, <1>4, <1>5 DEF Want

LEMMA PlanInv1 ==
  ASSUME Inv1, Plan
  PROVE  Inv1'
<1> DEFINE orphans == Orphans(owed, cache)
           want == Want(owed, cache)
<1>1. owed \in Work /\ cache \in Catalogues
  BY DEF Inv1, TypeOK
<1>2. orphans \subseteq Resources /\ want \subseteq Known(cache) /\ Known(cache) \subseteq Resources
  BY <1>1, WantIsKnown
<1>3. /\ owed' = Nothing
      /\ UNCHANGED <<source, stream, filled, listening, changes, cache, landed, targetNodes, watch,
                     pending, target, troubles>>
      /\ \/ run' = Listing /\ UNCHANGED <<retry, orphanTries, astray>>
         \/ run' = Listing /\ orphanTries' = NoTries /\ UNCHANGED <<retry, astray>>
         \/ /\ ~WaitIsOver(orphans)
            /\ orphanTries' = NoTries \/ orphanTries' = Waited(orphans)
            /\ retry' = Add(retry, Refused(orphans))
            /\ run' = Rest \/ run' = Sending(owed, cache, want)
            /\ astray' = astray \cup Severed(owed.nodes)
  BY DEF Plan, env, mirror
<1> HIDE DEF orphans, want
<1>4. run' \in Runs
  BY <1>1, <1>2, <1>3, RunFacts DEF Inv1
<1>5. orphanTries' \in [Resources -> 0 .. OrphanTries]
  <2>1. NoTries \in [Resources -> 0 .. OrphanTries]
    BY LimitsAssumption DEF NoTries
  <2>2. ~WaitIsOver(orphans) => Waited(orphans) \in [Resources -> 0 .. OrphanTries]
    BY <1>2, LimitsAssumption DEF Waited, WaitIsOver, Inv1, TypeOK
  <2> QED BY <1>3, <2>1, <2>2 DEF Inv1, TypeOK
<1>6. retry' \in Work /\ owed' \in Work
  BY <1>2, <1>3, WorkFacts DEF Inv1, TypeOK
<1>7. astray' \subseteq Resources
  BY <1>3 DEF Inv1, TypeOK, Severed
<1>8. TypeOK'
  BY <1>3, <1>4, <1>5, <1>6, <1>7 DEF Inv1, TypeOK
<1>9. Steps'
  <2>1. /\ run'.pc # "send" => run'.todo = {} /\ run'.unanswered = {} /\ run'.waiting = {}
        /\ run'.pc = "list" => run'.work.all
        /\ run'.pc \in {"idle", "list", "send"}
        /\ run'.todo \subseteq Known(run'.docs)
    <3>1. CASE run' = Listing
      BY <3>1, RunFacts DEF Inv1
    <3>2. CASE run' = Rest
      BY <3>2, RunFacts DEF Inv1
    <3>3. CASE run' = Sending(owed, cache, want)
      BY <1>1, <1>2, <3>3, RunFacts DEF Inv1
    <3> QED BY <1>3, <3>1, <3>2, <3>3
  <2> QED BY <1>3, <2>1 DEF Inv1, Steps, Known
<1> QED BY <1>8, <1>9 DEF Inv1

LEMMA RefreshIs ==
  ASSUME Inv1, Refresh
  PROVE  /\ Refreshing /\ Refreshing' /\ run' \in Runs /\ run'.docs = Read /\ run'.work = run.work
         /\ run'.todo = {} /\ run'.unanswered = {} /\ run'.waiting = {} /\ run'.work.all
         /\ run'.pc \in {"list", "install"}
         /\ UNCHANGED <<source, stream, filled, listening, changes, cache, landed, targetNodes, watch,
                        owed, pending, retry, orphanTries, target, troubles, astray>>
<1>1. run \in Runs /\ run.pc = "list" /\ Read \in Catalogues
  BY DEF Inv1, TypeOK, Runs, Catalogues, Refresh, Read
<1>2. run.work.all /\ run.todo = {} /\ run.unanswered = {} /\ run.waiting = {}
  BY <1>1 DEF Inv1, Steps, Refreshing
<1>3. \/ run.at + 1 \in Topics /\ run' = [run EXCEPT !.docs = Read, !.at = @ + 1]
      \/ run' = [run EXCEPT !.docs = Read, !.pc = "install"]
  BY DEF Refresh
<1>4. /\ run' \in Runs /\ run'.docs = Read /\ run'.work = run.work /\ run'.todo = run.todo
      /\ run'.unanswered = run.unanswered /\ run'.waiting = run.waiting
      /\ run'.pc \in {"list", "install"}
  BY <1>1, <1>3 DEF Runs
<1> QED BY <1>1, <1>2, <1>4 DEF Refresh, Refreshing, env, mirror, work

(* Installed or not, the work of the pass is still the whole catalogue.    *)
LEMMA RefreshedIs ==
  ASSUME Inv1, Install \/ RefreshFails
  PROVE  /\ Refreshing /\ Refreshing' /\ run' \in Runs /\ run'.docs = [r \in Resources |-> None]
         /\ run'.todo = {} /\ run'.unanswered = {} /\ run'.waiting = {} /\ run'.work.all
         /\ run'.pc = "snapshot"
         /\ UNCHANGED <<source, stream, filled, listening, changes, watch, owed, pending, retry,
                        orphanTries, target>>
         /\ \/ /\ cache' = run.docs /\ run.docs \in Catalogues /\ UNCHANGED troubles
               /\ landed' \subseteq landed /\ targetNodes' \subseteq targetNodes
               /\ astray' = astray \cup Misread(run.docs)
            \/ /\ UNCHANGED <<cache, landed, targetNodes, astray>>
               /\ troubles' \in Nat /\ Within(changes, troubles')
<1>1. run \in Runs /\ Refreshing /\ run' = Refreshed /\ troubles \in Nat
  BY DEF Inv1, TypeOK, Install, RefreshFails, Refreshing
<1>2. run.work.all
  BY <1>1 DEF Inv1, Steps, Refreshing
<1>3. /\ run' \in Runs /\ run'.pc = "snapshot" /\ run'.work = run.work
      /\ run'.todo = {} /\ run'.unanswered = {} /\ run'.waiting = {}
      /\ run'.docs = [r \in Resources |-> None]
  BY <1>1, RunFacts DEF Inv1
<1>4. CASE Install
  BY <1>1, <1>2, <1>3, <1>4 DEF Install, Refreshing, Runs, env, work
<1>5. CASE RefreshFails
  BY <1>1, <1>2, <1>3, <1>5 DEF RefreshFails, Refreshing, Trouble, env, mirror, work
<1> QED BY <1>4, <1>5

LEMMA SnapshotIs ==
  ASSUME Inv1, Snapshot
  PROVE  /\ Refreshing /\ run' \in Runs /\ run'.pc = "send"
         /\ run'.docs = cache /\ run'.todo = Known(cache) /\ run'.work = run.work /\ run'.work.all
         /\ run'.unanswered = {} /\ run'.waiting = {}
         /\ UNCHANGED <<source, stream, filled, listening, changes, cache, landed, targetNodes, watch,
                        owed, pending, retry, orphanTries, target, troubles, astray>>
<1>1. /\ run.work \in Work /\ cache \in Catalogues /\ Known(cache) \in SUBSET Resources /\ Refreshing
      /\ run' = Sending(run.work, cache, Known(cache))
  BY DEF Inv1, TypeOK, Runs, Known, Snapshot, Refreshing
<1>2. run.work.all
  BY <1>1 DEF Inv1, Steps, Refreshing
<1>3. /\ run' \in Runs /\ run'.pc = "send" /\ run'.todo = Known(cache) /\ run'.docs = cache
      /\ run'.work = run.work /\ run'.unanswered = {} /\ run'.waiting = {}
  BY <1>1, RunFacts DEF Inv1
<1> QED BY <1>1, <1>2, <1>3 DEF Snapshot, env, mirror, work

LEMMA RefreshInv1 ==
  ASSUME Inv1, Refresh \/ Install \/ RefreshFails \/ Snapshot
  PROVE  Inv1'
<1>1. CASE Refresh
  <2>1. TypeOK'
    BY <1>1, RefreshIs DEF Inv1, TypeOK
  <2>2. Steps'
    BY <1>1, RefreshIs DEF Inv1, Steps
  <2> QED BY <2>1, <2>2 DEF Inv1
<1>2. CASE Install \/ RefreshFails
  <2>1. Misread(run.docs) \subseteq Resources
    BY DEF Misread
  <2>2. TypeOK'
    BY <1>2, <2>1, RefreshedIs DEF Inv1, TypeOK
  <2>3. Steps'
    BY <1>2, RefreshedIs DEF Inv1, Steps
  <2> QED BY <2>2, <2>3 DEF Inv1
<1>3. CASE Snapshot
  <2>1. TypeOK'
    BY <1>3, SnapshotIs DEF Inv1, TypeOK
  <2>2. ~Refreshing'
    BY <1>3, SnapshotIs DEF Refreshing
  <2>3. Steps'
    BY <1>3, <2>2, SnapshotIs DEF Inv1, Steps, Known
  <2> QED BY <2>1, <2>3 DEF Inv1
<1> QED BY <1>1, <1>2, <1>3

LEMMA DoneIs ==
  ASSUME TypeOK, run.todo # {}, NEW step \in {"send", "post", "posted"}
  PROVE  /\ Current \in run.todo /\ Current \in Resources
         /\ Done(step) \in Runs /\ Done(step) = [run EXCEPT !.pc = step, !.todo = run.todo \ {Current}]
<1>1. run \in Runs /\ run.todo \subseteq Resources
  BY DEF TypeOK, Runs
<1>2. Current \in run.todo
  BY <1>1, CurrentIsOwed
<1> QED BY <1>1, <1>2 DEF Done, Runs

(* A step of the pass from one resource to the next changes the run only   *)
(* in these ways.                                                          *)
LEMMA PassStepIs ==
  ASSUME Inv1, PassStep
  PROVE  /\ run' \in Runs /\ Current \in run.todo /\ Current \in Resources
         /\ run'.work = run.work /\ run'.docs = run.docs /\ run'.unanswered = run.unanswered
         /\ UNCHANGED <<source, stream, filled, listening, changes, cache, landed, targetNodes, watch,
                        owed, pending, retry, orphanTries, target, troubles>>
         /\ \/ /\ run'.pc = "post" /\ run'.silent # GiveUpAfter
               /\ run'.todo = run.todo /\ run'.waiting = run.waiting /\ UNCHANGED astray
            \/ /\ run'.pc = "send" /\ run'.todo = run.todo \ {Current}
               /\ \/ cache[Current] = None /\ run'.waiting = run.waiting /\ UNCHANGED astray
                  \/ /\ astray' = astray \cup (IF Unnoticed(Current) THEN {} ELSE {Current})
                     /\ run'.waiting = run.waiting
                  \/ run'.waiting = run.waiting \cup {Current} /\ UNCHANGED astray
<1>1. run \in Runs /\ run.todo \subseteq Resources /\ run.todo # {} /\ run.silent # GiveUpAfter
  BY DEF Inv1, TypeOK, Runs, PassStep, GivenUp
<1>2. /\ Current \in run.todo /\ Current \in Resources
      /\ Done("send") \in Runs
      /\ Done("send") = [run EXCEPT !.pc = "send", !.todo = run.todo \ {Current}]
  BY <1>1, DoneIs DEF Inv1
<1>3. UNCHANGED <<source, stream, filled, listening, changes, cache, landed, targetNodes, watch,
                  owed, pending, retry, orphanTries, target, troubles>>
  BY DEF PassStep, env, mirror, work
<1>4. \/ run' = [run EXCEPT !.pc = "post"] /\ UNCHANGED astray
      \/ cache[Current] = None /\ run' = Done("send") /\ UNCHANGED astray
      \/ /\ run' = [Done("send") EXCEPT !.refused = @ \cup {Current}]
         /\ astray' = astray \cup (IF Unnoticed(Current) THEN {} ELSE {Current})
      \/ run' = [Done("send") EXCEPT !.waiting = @ \cup {Current}] /\ UNCHANGED astray
  BY Zenon DEF PassStep
<1>5. CASE run' = [run EXCEPT !.pc = "post"] /\ UNCHANGED astray
  BY <1>1, <1>2, <1>3, <1>5 DEF Runs
<1>6. CASE cache[Current] = None /\ run' = Done("send") /\ UNCHANGED astray
  BY <1>1, <1>2, <1>3, <1>6 DEF Runs
<1>7. CASE /\ run' = [Done("send") EXCEPT !.refused = @ \cup {Current}]
           /\ astray' = astray \cup (IF Unnoticed(Current) THEN {} ELSE {Current})
  BY <1>1, <1>2, <1>3, <1>7 DEF Runs
<1>8. CASE run' = [Done("send") EXCEPT !.waiting = @ \cup {Current}] /\ UNCHANGED astray
  BY <1>1, <1>2, <1>3, <1>8 DEF Runs
<1> QED BY <1>4, <1>5, <1>6, <1>7, <1>8

LEMMA PassStepInv1 ==
  ASSUME Inv1, PassStep
  PROVE  Inv1'
<1>1. run' \in Runs /\ run'.pc \in {"post", "send"} /\ run'.todo \subseteq run.todo
      /\ run'.docs = run.docs /\ (run'.pc = "post" => run'.silent # GiveUpAfter /\ run'.todo # {})
  BY PassStepIs
<1>2. UNCHANGED <<source, stream, filled, listening, changes, cache, landed, targetNodes, watch,
                  owed, pending, retry, orphanTries, target, troubles>>
  BY PassStepIs
<1>3. astray' \subseteq Resources
  BY PassStepIs DEF Inv1, TypeOK
<1>4. TypeOK'
  BY <1>1, <1>2, <1>3 DEF Inv1, TypeOK
<1>5. Steps'
  BY <1>1, <1>2 DEF Inv1, Steps, Known
<1> QED BY <1>4, <1>5 DEF Inv1

(* What one POST of the pass may come to.                                  *)
LEMMA PassPostIs ==
  ASSUME Inv1, PassPost
  PROVE  LET r == Current
             doc == run.docs[r]
         IN /\ run' \in Runs /\ r \in run.todo /\ r \in Resources
            /\ run.docs[r] # None /\ doc \in Docs
            /\ run'.work = run.work /\ run'.docs = run.docs /\ run'.waiting = run.waiting
            /\ UNCHANGED <<source, stream, filled, listening, changes, cache, landed, targetNodes, watch,
                           owed, pending, retry, orphanTries>>
            /\ UNCHANGED troubles \/ Trouble
            /\ \/ /\ target' = Put(r, doc) /\ astray' = AfterPost(r, doc)
                  /\ run'.pc = "posted" /\ run'.todo = run.todo
                  /\ run'.unanswered = run.unanswered
               \/ /\ run'.pc = "send" /\ run'.todo = run.todo \ {r} /\ UNCHANGED target
                  /\ \/ astray' = astray \cup (IF Unnoticed(r) THEN {} ELSE {r})
                     \/ astray' = astray \cup {r}
                  /\ run'.unanswered = run.unanswered
               \/ /\ run'.pc = "send" /\ run'.todo = run.todo \ {r}
                  /\ run'.unanswered = run.unanswered \cup {r}
                  /\ \/ UNCHANGED <<target, astray>>
                     \/ target' = Put(r, doc) /\ astray' = AfterPost(r, doc)
<1> DEFINE r == Current
           doc == run.docs[r]
<1>1. run \in Runs /\ run.todo \subseteq Resources /\ run.todo # {} /\ run.silent # GiveUpAfter
      /\ run.pc = "post" /\ run.silent + 1 \in 0 .. GiveUpAfter
  BY LimitsAssumption DEF Inv1, TypeOK, Runs, PassPost, Steps
<1>2. /\ r \in run.todo /\ r \in Resources
      /\ Done("send") \in Runs
      /\ Done("send") = [run EXCEPT !.pc = "send", !.todo = run.todo \ {r}]
  BY <1>1, DoneIs DEF Inv1
<1>3. doc # None /\ doc \in Docs
  BY <1>1, <1>2 DEF Inv1, Steps, Known, Runs, Catalogues
<1>4. UNCHANGED <<source, stream, filled, listening, changes, cache, landed, targetNodes, watch,
                  owed, pending, retry, orphanTries>>
  BY DEF PassPost, env, mirror, work
<1>5. \/ /\ target' = Put(r, doc) /\ astray' = AfterPost(r, doc)
         /\ run' = [run EXCEPT !.pc = "posted", !.silent = 0]
         /\ UNCHANGED troubles
      \/ /\ run' = [Done("send") EXCEPT !.refused = @ \cup {r}, !.silent = 0]
         /\ astray' = astray \cup (IF Unnoticed(r) THEN {} ELSE {r})
         /\ UNCHANGED <<target, troubles>>
      \/ /\ Trouble
         /\ run' = [Done("send") EXCEPT !.refused = @ \cup {r}, !.silent = 0]
         /\ astray' = astray \cup {r}
         /\ UNCHANGED target
      \/ /\ Trouble
         /\ run' = [Done("send") EXCEPT !.unanswered = @ \cup {r}, !.silent = @ + 1]
         /\ \/ UNCHANGED <<target, astray>>
            \/ target' = Put(r, doc) /\ astray' = AfterPost(r, doc)
  BY Zenon DEF PassPost
<1>6. 0 \in 0 .. GiveUpAfter
  BY LimitsAssumption
<1> HIDE DEF r, doc
<1>7. CASE /\ target' = Put(r, doc) /\ astray' = AfterPost(r, doc)
           /\ run' = [run EXCEPT !.pc = "posted", !.silent = 0]
           /\ UNCHANGED troubles
  <2>1. /\ run' \in Runs /\ run'.work = run.work /\ run'.docs = run.docs /\ run'.waiting = run.waiting
        /\ run'.pc = "posted" /\ run'.todo = run.todo /\ run'.unanswered = run.unanswered
    BY <1>1, <1>6, <1>7 DEF Runs
  <2> QED BY <1>2, <1>3, <1>4, <1>7, <2>1 DEF r, doc
<1>8. CASE /\ run' = [Done("send") EXCEPT !.refused = @ \cup {r}, !.silent = 0]
           /\ \/ astray' = astray \cup (IF Unnoticed(r) THEN {} ELSE {r})
              \/ astray' = astray \cup {r}
           /\ UNCHANGED target /\ (UNCHANGED troubles \/ Trouble)
  <2>1. /\ run' \in Runs /\ run'.work = run.work /\ run'.docs = run.docs /\ run'.waiting = run.waiting
        /\ run'.pc = "send" /\ run'.todo = run.todo \ {r} /\ run'.unanswered = run.unanswered
    BY <1>1, <1>2, <1>6, <1>8 DEF Runs
  <2> QED BY <1>2, <1>3, <1>4, <1>8, <2>1 DEF r, doc
<1>9. CASE /\ run' = [Done("send") EXCEPT !.unanswered = @ \cup {r}, !.silent = @ + 1]
           /\ \/ UNCHANGED <<target, astray>>
              \/ target' = Put(r, doc) /\ astray' = AfterPost(r, doc)
           /\ Trouble
  <2>1. /\ run' \in Runs /\ run'.work = run.work /\ run'.docs = run.docs /\ run'.waiting = run.waiting
        /\ run'.pc = "send" /\ run'.todo = run.todo \ {r} /\ run'.unanswered = run.unanswered \cup {r}
    BY <1>1, <1>2, <1>6, <1>9 DEF Runs
  <2> QED BY <1>2, <1>3, <1>4, <1>9, <2>1 DEF r, doc
<1> QED BY <1>5, <1>7, <1>8, <1>9 DEF r, doc

LEMMA PassPostInv1 ==
  ASSUME Inv1, PassPost
  PROVE  Inv1'
<1> DEFINE r == Current
           doc == run.docs[r]
<1>1. /\ run' \in Runs /\ r \in run.todo /\ r \in Resources /\ doc \in Docs
      /\ run'.pc \in {"send", "posted"} /\ run'.todo \subseteq run.todo
      /\ run'.pc = "posted" => run'.todo = run.todo
      /\ run'.docs = run.docs
      /\ UNCHANGED <<source, stream, filled, listening, changes, cache, landed, targetNodes, watch,
                     owed, pending, retry, orphanTries>>
      /\ UNCHANGED troubles \/ Trouble
      /\ UNCHANGED target \/ target' = Put(r, doc)
      /\ \/ astray' = astray \/ astray' = astray \cup {r} \/ astray' = AfterPost(r, doc)
  BY PassPostIs
<1> HIDE DEF r, doc
<1>2. target' \in Catalogues /\ astray' \subseteq Resources
  <2>1. AfterPost(r, doc) \subseteq Resources /\ Put(r, doc) \in Catalogues
    BY <1>1, AstrayIs DEF Inv1
  <2> QED BY <1>1, <2>1 DEF Inv1, TypeOK
<1>3. TypeOK'
  BY <1>1, <1>2 DEF Inv1, TypeOK, Trouble
<1>4. Steps'
  BY <1>1 DEF Inv1, Steps, Known
<1> QED BY <1>3, <1>4 DEF Inv1

LEMMA PassDoneInv1 ==
  ASSUME Inv1, PassPosted \/ PassEnds
  PROVE  Inv1'
<1>1. run \in Runs /\ run.work \in Work /\ run.todo \subseteq Resources
      /\ run.unanswered \subseteq Resources /\ run.waiting \subseteq Resources
  BY DEF Inv1, TypeOK, Runs
<1>2. CASE PassPosted
  <2>1. run.todo # {} /\ run' = Done("send")
    BY <1>2 DEF Inv1, Steps, PassPosted
  <2>2. /\ run' \in Runs /\ run'.pc = "send" /\ run'.todo \subseteq run.todo /\ run'.docs = run.docs
        /\ Current \in Resources
    <3>1. /\ run' = [run EXCEPT !.pc = "send", !.todo = run.todo \ {Current}]
          /\ run' \in Runs /\ Current \in Resources
      BY <2>1, DoneIs DEF Inv1
    <3> QED BY <1>1, <3>1 DEF Runs
  <2>3. TypeOK'
    BY <1>2, <2>2 DEF Inv1, TypeOK, PassPosted, NoteLanded, env, work
  <2>4. Steps'
    BY <1>2, <2>2 DEF Inv1, Steps, PassPosted, NoteLanded, env, work, Known
  <2> QED BY <2>3, <2>4 DEF Inv1
<1>3. CASE PassEnds
  <2>1. run' = Rest /\ run' \in Runs
    BY <1>3, RunFacts DEF Inv1, PassEnds
  <2>2. Unanswered \in Work
    BY <1>1, WorkFacts DEF Unanswered
  <2>3. retry' \in Work /\ pending' \in Work
    BY <1>1, <1>3, <2>2, WorkFacts DEF Inv1, TypeOK, PassEnds
  <2>4. TypeOK'
    BY <1>3, <2>1, <2>3 DEF Inv1, TypeOK, PassEnds, env, mirror
  <2>5. Steps'
    BY <1>3, <2>1, RunFacts DEF Inv1, Steps, PassEnds, env, mirror, Known
  <2> QED BY <2>4, <2>5 DEF Inv1
<1> QED BY <1>2, <1>3

-----------------------------------------------------------------------------
(* The rows.                                                               *)
Inv2 == Inv1 /\ LastRows /\ Dated

(* A change of the source, and what it sends.                              *)
LEMMA SourceIs ==
  ASSUME Inv1, NEW r \in Resources, Register(r) \/ Unregister(r)
  PROVE  \E rs \in SUBSET Resources :
           /\ Change(rs) /\ source' \in Catalogues /\ changes' = changes + 1
           /\ \A c \in Resources \ rs : source'[c] = source[c]
           /\ \A c \in rs : source'[c] \in {None, changes + 1}
<1>0. source \in Catalogues /\ source' \in Catalogues
  BY RegisterInv1 DEF Inv1, TypeOK
<1>1. CASE Register(r)
  <2>1. Change({r}) /\ source' = [source EXCEPT ![r] = changes + 1]
    BY <1>1 DEF Register
  <2>2. changes' = changes + 1
    BY <2>1 DEF Change
  <2>3. \A c \in Resources \ {r} : source'[c] = source[c]
    BY <1>0, <2>1 DEF Catalogues
  <2>4. source'[r] = changes + 1
    BY <1>0, <2>1 DEF Catalogues
  <2> QED BY <1>0, <2>1, <2>2, <2>3, <2>4
<1>2. CASE Unregister(r)
  <2>1. PICK gone \in Cascades(r) : source' = Without(source, gone) /\ Change(gone \cap Known(source))
    BY <1>2 DEF Unregister
  <2>2. changes' = changes + 1
    BY <2>1 DEF Change
  <2>3. \A c \in Resources \ (gone \cap Known(source)) : source'[c] = source[c]
    BY <2>1 DEF Without, Known
  <2>4. \A c \in gone \cap Known(source) : source'[c] = None
    BY <2>1 DEF Without, Known
  <2>5. gone \cap Known(source) \in SUBSET Resources
    BY DEF Known
  <2> QED BY <1>0, <2>1, <2>2, <2>3, <2>4, <2>5
<1> QED BY <1>1, <1>2

LEMMA Appended ==
  ASSUME NEW s \in Seq(Row), NEW u \in Seq(Row)
  PROVE  /\ Len(s \o u) = Len(s) + Len(u) /\ Len(s) \in Nat /\ Len(u) \in Nat
         /\ \A k \in 1 .. Len(s) : (s \o u)[k] = s[k]
         /\ \A k \in Len(s) + 1 .. Len(s \o u) : k - Len(s) \in 1 .. Len(u) /\ (s \o u)[k] = u[k - Len(s)]
         /\ \A k \in 1 .. Len(u) : Len(s) + k \in 1 .. Len(s \o u) /\ (s \o u)[Len(s) + k] = u[k]
         /\ s \o u \in Seq(Row)
<1> HIDE DEF Row
<1>1. /\ s \o u \in Seq(Row) /\ Len(s \o u) = Len(s) + Len(u)
      /\ \A i \in 1 .. Len(s) + Len(u) : (s \o u)[i] = IF i <= Len(s) THEN s[i] ELSE u[i - Len(s)]
  BY ConcatProperties
<1>2. Len(s) \in Nat /\ Len(u) \in Nat
  BY LenProperties
<1> QED BY <1>1, <1>2

LEMMA RegisterRows ==
  ASSUME Inv2, NEW r \in Resources, Register(r) \/ Unregister(r)
  PROVE  LastRows' /\ Dated'
<1>1. PICK rs \in SUBSET Resources :
        /\ Change(rs) /\ source' \in Catalogues /\ changes' = changes + 1
        /\ \A c \in Resources \ rs : source'[c] = source[c]
        /\ \A c \in rs : source'[c] \in {None, changes + 1}
  BY SourceIs DEF Inv2
<1>2. PICK o \in [Topics -> UNION {Orders(Of(t, rs)) : t \in Topics}] :
        /\ \A t \in Topics : o[t] \in Orders(Of(t, rs))
        /\ stream' = [t \in Topics |-> IF t \in listening
                                       THEN stream[t] \o Rows(o[t], source') ELSE <<>>]
  BY <1>1 DEF Change
<1> DEFINE rows(t) == Rows(o[t], source')
<1>3. ASSUME NEW t \in Topics
      PROVE  /\ rows(t) \in Seq(Row) /\ stream[t] \in Seq(Row)
             /\ \A k \in 1 .. Len(rows(t)) :
                  /\ rows(t)[k].res \in rs /\ Topic[rows(t)[k].res] = t
                  /\ rows(t)[k].doc = source'[rows(t)[k].res]
             /\ \A c \in rs : Topic[c] = t => \E k \in 1 .. Len(rows(t)) : rows(t)[k].res = c
  <2>1. stream[t] \in Seq(Row)
    BY DEF Inv2, Inv1, TypeOK
  <2>2. o[t] \in Orders(Of(t, rs)) /\ source' \in Catalogues
    BY <1>1, <1>2
  <2> QED BY <2>1, <2>2, RowsAreWhole
<1>4. /\ changes \in Nat /\ listening' = listening /\ cache' = cache /\ run' = run
      /\ source \in Catalogues /\ cache \in Catalogues /\ run.docs \in Catalogues
  BY <1>1 DEF Inv2, Inv1, TypeOK, Change, mirror, Runs
<1>5. \A t \in Topics : stream'[t] = IF t \in listening THEN stream[t] \o rows(t) ELSE <<>>
  BY <1>2
<1> HIDE DEF rows
<1>6. ASSUME NEW t \in Topics, t \in listening
      PROVE  /\ Len(stream'[t]) = Len(stream[t]) + Len(rows(t)) /\ Len(stream[t]) \in Nat /\ Len(rows(t)) \in Nat
             /\ \A k \in 1 .. Len(stream[t]) : stream'[t][k] = stream[t][k]
             /\ \A k \in Len(stream[t]) + 1 .. Len(stream'[t]) :
                  k - Len(stream[t]) \in 1 .. Len(rows(t)) /\ stream'[t][k] = rows(t)[k - Len(stream[t])]
             /\ \A k \in 1 .. Len(rows(t)) :
                  Len(stream[t]) + k \in 1 .. Len(stream'[t]) /\ stream'[t][Len(stream[t]) + k] = rows(t)[k]
             /\ \A k \in 1 .. Len(stream[t]) : stream[t][k] \in Row
  <2>1. stream'[t] = stream[t] \o rows(t)
    BY <1>5, <1>6
  <2>2. \A k \in 1 .. Len(stream[t]) : stream[t][k] \in Row
    BY <1>3, ElementOfSeq
  <2>3. stream[t] \in Seq(Row) /\ rows(t) \in Seq(Row)
    BY <1>3
  <2> DEFINE old == stream[t]
             new == rows(t)
  <2>4. /\ Len(old \o new) = Len(old) + Len(new) /\ Len(old) \in Nat /\ Len(new) \in Nat
        /\ \A k \in 1 .. Len(old) : (old \o new)[k] = old[k]
        /\ \A k \in Len(old) + 1 .. Len(old \o new) :
             k - Len(old) \in 1 .. Len(new) /\ (old \o new)[k] = new[k - Len(old)]
        /\ \A k \in 1 .. Len(new) :
             Len(old) + k \in 1 .. Len(old \o new) /\ (old \o new)[Len(old) + k] = new[k]
    <3> HIDE DEF old, new
    <3>1. old \in Seq(Row) /\ new \in Seq(Row)
      BY <2>3 DEF old, new
    <3> QED BY <3>1, Appended, Zenon
  <2> QED BY <2>1, <2>2, <2>4, Zenon
<1>7. LastRows'
  <2>1. ASSUME NEW t \in Topics PROVE t \notin listening' => stream'[t] = <<>>
    BY <1>4, <1>5
  <2>2. ASSUME NEW t \in Topics, NEW k \in 1 .. Len(stream'[t])
        PROVE  Topic[stream'[t][k].res] = t /\ Shows(t, k)'
    <3>0. t \in listening
      BY <1>5, <2>2
    <3>1. CASE k > Len(stream[t])
      <4>1. k - Len(stream[t]) \in 1 .. Len(rows(t)) /\ stream'[t][k] = rows(t)[k - Len(stream[t])]
        BY <1>6, <2>2, <3>0, <3>1
      <4>2. Topic[stream'[t][k].res] = t /\ stream'[t][k].doc = source'[stream'[t][k].res]
        BY <1>3, <4>1
      <4> QED BY <4>2 DEF Shows
    <3>2. CASE k <= Len(stream[t])
      <4> DEFINE c == stream[t][k].res
      <4>1. k \in 1 .. Len(stream[t]) /\ stream'[t][k] = stream[t][k] /\ c \in Resources
        BY <1>6, <2>2, <3>0, <3>2 DEF Row
      <4>2. Topic[c] = t /\ Shows(t, k)
        BY <4>1 DEF Inv2, LastRows
      <4>3. ASSUME \A j \in k + 1 .. Len(stream'[t]) : stream'[t][j].res # c
            PROVE  stream'[t][k].doc = source'[c]
        <5>1. c \notin rs
          <6> SUFFICES ASSUME c \in rs PROVE FALSE
            OBVIOUS
          <6>1. PICK i \in 1 .. Len(rows(t)) : rows(t)[i].res = c
            BY <1>3, <4>2
          <6>2. Len(stream[t]) + i \in k + 1 .. Len(stream'[t]) /\ stream'[t][Len(stream[t]) + i].res = c
            BY <1>6, <3>0, <3>2, <6>1
          <6> QED BY <4>3, <6>2
        <5>2. \A j \in k + 1 .. Len(stream[t]) : stream[t][j].res # c
          <6> SUFFICES ASSUME NEW j \in k + 1 .. Len(stream[t]) PROVE stream[t][j].res # c
            OBVIOUS
          <6>1. j \in 1 .. Len(stream[t]) /\ j \in k + 1 .. Len(stream'[t])
            BY <1>6, <3>0
          <6> QED BY <1>6, <3>0, <4>3, <6>1
        <5> QED BY <1>1, <4>1, <4>2, <5>1, <5>2 DEF Shows
      <4> QED BY <4>1, <4>2, <4>3 DEF Shows
    <3>3. Len(stream[t]) \in Nat
      BY <1>6, <3>0
    <3> QED BY <3>1, <3>2, <3>3
  <2> QED BY <2>1, <2>2 DEF LastRows
<1>8. Dated'
  <2>1. ASSUME NEW c \in Resources
        PROVE  source'[c] \in Nat \cup {None} /\ source[c] \in Nat \cup {None} /\ cache[c] \in Nat \cup {None}
               /\ run.docs[c] \in Nat \cup {None}
    BY <1>1, <1>4, Constants DEF Catalogues
  <2>2. ASSUME NEW c \in Resources
        PROVE  /\ source'[c] # None => source'[c] <= changes'
               /\ cache'[c] # None => cache'[c] <= changes'
               /\ run'.docs[c] # None => run'.docs[c] <= changes'
    BY <1>1, <1>4, <2>1 DEF Inv2, Dated
  <2>3. ASSUME NEW t \in Topics, NEW k \in 1 .. Len(stream'[t]), stream'[t][k].doc # None
        PROVE  stream'[t][k].doc <= changes'
    <3>0. t \in listening
      BY <1>5, <2>3
    <3>1. CASE k > Len(stream[t])
      <4>0. k \in Len(stream[t]) + 1 .. Len(stream'[t])
        BY <1>6, <3>0, <3>1
      <4>1. k - Len(stream[t]) \in 1 .. Len(rows(t)) /\ stream'[t][k] = rows(t)[k - Len(stream[t])]
        BY <1>6, <3>0, <4>0
      <4>2. stream'[t][k].res \in Resources /\ stream'[t][k].doc = source'[stream'[t][k].res]
        BY <1>3, <4>1
      <4> QED BY <2>2, <2>3, <4>2
    <3>2. CASE k <= Len(stream[t])
      <4>1. k \in 1 .. Len(stream[t]) /\ stream'[t][k] = stream[t][k] /\ stream[t][k] \in Row
        BY <1>6, <2>3, <3>0, <3>2
      <4>2. stream[t][k].doc <= changes /\ stream[t][k].doc \in Nat
        BY <2>3, <4>1, Constants DEF Inv2, Dated, Row
      <4> QED BY <1>1, <1>4, <4>1, <4>2
    <3>3. Len(stream[t]) \in Nat
      BY <1>6, <3>0
    <3> QED BY <3>1, <3>2, <3>3
  <2> QED BY <2>2, <2>3 DEF Dated
<1> QED BY <1>7, <1>8

LEMMA SubscribeRows ==
  ASSUME Inv2, NEW t \in Topics, Subscribe(t) \/ LoseSocket(t)
  PROVE  LastRows' /\ Dated'
<1>1. UNCHANGED <<source, changes, cache, run>>
  BY DEF Subscribe, LoseSocket, mirror
<1>2. CASE Subscribe(t)
  <2>1. PICK o \in Orders(Of(t, Known(source))) : stream' = [stream EXCEPT ![t] = Rows(o, source)]
    BY <1>2 DEF Subscribe
  <2> DEFINE rows == Rows(o, source)
  <2>2. /\ rows \in Seq(Row)
        /\ \A k \in 1 .. Len(rows) : /\ rows[k].res \in Known(source) /\ Topic[rows[k].res] = t
                                     /\ rows[k].doc = source[rows[k].res]
    <3>1. Known(source) \in SUBSET Resources
      BY DEF Known
    <3> QED BY <3>1, RowsAreWhole DEF Inv2, Inv1, TypeOK
  <2>3. stream'[t] = rows /\ listening' = listening \cup {t} /\ \A u \in Topics \ {t} : stream'[u] = stream[u]
    BY <1>2, <2>1 DEF Inv2, Inv1, TypeOK, Subscribe
  <2> HIDE DEF rows
  <2>4. LastRows'
    <3>1. ASSUME NEW u \in Topics \ {t}
          PROVE  /\ u \notin listening' => stream'[u] = <<>>
                 /\ \A k \in 1 .. Len(stream'[u]) : Topic[stream'[u][k].res] = u /\ Shows(u, k)'
      BY <1>1, <2>3 DEF Inv2, LastRows, Shows
    <3>2. /\ t \notin listening' => stream'[t] = <<>>
          /\ \A k \in 1 .. Len(stream'[t]) : Topic[stream'[t][k].res] = t /\ Shows(t, k)'
      BY <1>1, <2>2, <2>3 DEF Shows
    <3> QED BY <3>1, <3>2 DEF LastRows
  <2>5. Dated'
    BY <1>1, <2>2, <2>3 DEF Inv2, Dated, Known
  <2> QED BY <2>4, <2>5
<1>3. CASE LoseSocket(t)
  <2>1. stream'[t] = <<>> /\ listening' = listening \ {t} /\ \A u \in Topics \ {t} : stream'[u] = stream[u]
    BY <1>3 DEF Inv2, Inv1, TypeOK, LoseSocket
  <2> QED BY <1>1, <2>1 DEF Inv2, LastRows, Shows, Dated
<1> QED BY <1>2, <1>3

LEMMA ForwardRows ==
  ASSUME Inv2, NEW t \in Topics, ForwardRow(t)
  PROVE  /\ LastRows' /\ Dated' /\ stream' = [stream EXCEPT ![t] = Tail(@)]
         /\ cache' = cache \/ cache' = [cache EXCEPT ![Head(stream[t]).res] = Head(stream[t]).doc]
<1> DEFINE row == Head(stream[t])
<1>1. /\ row \in Row /\ Len(stream[t]) \in Nat \ {0} /\ row = stream[t][1] /\ t \in listening
      /\ Len(Tail(stream[t])) = Len(stream[t]) - 1
      /\ \A k \in 1 .. Len(stream[t]) - 1 : Tail(stream[t])[k] = stream[t][k + 1]
  BY HeadIs DEF Inv2, Inv1, ForwardRow
<1>2. stream' = [stream EXCEPT ![t] = Tail(@)]
  BY DEF ForwardRow
<1>3. stream'[t] = Tail(stream[t]) /\ \A u \in Topics \ {t} : stream'[u] = stream[u]
  BY <1>2 DEF Inv2, Inv1, TypeOK
<1>4. UNCHANGED <<source, listening, changes, run>>
  BY DEF ForwardRow
<1>5. cache' = cache \/ cache' = [cache EXCEPT ![row.res] = row.doc]
  BY DEF ForwardRow, Land
<1> HIDE DEF row
<1>6. LastRows'
  <2>1. ASSUME NEW u \in Topics \ {t}
        PROVE  /\ u \notin listening' => stream'[u] = <<>>
               /\ \A k \in 1 .. Len(stream'[u]) : Topic[stream'[u][k].res] = u /\ Shows(u, k)'
    BY <1>3, <1>4 DEF Inv2, LastRows, Shows
  <2>2. ASSUME NEW k \in 1 .. Len(stream'[t])
        PROVE  Topic[stream'[t][k].res] = t /\ Shows(t, k)'
    <3>1. k + 1 \in 1 .. Len(stream[t]) /\ stream'[t][k] = stream[t][k + 1]
      BY <1>1, <1>3
    <3>2. Topic[stream[t][k + 1].res] = t /\ Shows(t, k + 1)
      BY <3>1 DEF Inv2, LastRows
    <3>3. ASSUME \A j \in k + 1 .. Len(stream'[t]) : stream'[t][j].res # stream'[t][k].res,
                 NEW i \in k + 2 .. Len(stream[t])
          PROVE  stream[t][i].res # stream[t][k + 1].res
      <4>1. i - 1 \in k + 1 .. Len(stream'[t]) /\ i - 1 \in 1 .. Len(stream[t]) - 1
        BY <1>1, <1>3, <2>2
      <4>2. stream'[t][i - 1] = stream[t][i]
        BY <1>1, <1>3, <4>1
      <4> QED BY <3>1, <3>3, <4>1, <4>2
    <3>4. k + 2 = (k + 1) + 1
      BY <2>2
    <3> QED BY <1>4, <3>1, <3>2, <3>3, <3>4 DEF Shows
  <2> QED BY <1>1, <1>4, <2>1, <2>2 DEF LastRows
<1>7. Dated'
  <2>1. row.doc # None => row.doc <= changes
    BY <1>1 DEF Inv2, Dated
  <2>2. \A c \in Resources : cache'[c] # None => cache'[c] <= changes
    BY <1>1, <1>5, <2>1 DEF Inv2, Inv1, TypeOK, Catalogues, Dated
  <2>3. ASSUME NEW u \in Topics, NEW k \in 1 .. Len(stream'[u]), stream'[u][k].doc # None
        PROVE  stream'[u][k].doc <= changes
    <3>1. CASE u = t
      <4>1. k + 1 \in 1 .. Len(stream[t]) /\ stream'[t][k] = stream[t][k + 1]
        <5>1. k \in 1 .. Len(stream[t]) - 1
          BY <1>1, <1>3, <2>3, <3>1
        <5> QED BY <1>1, <1>3, <5>1
      <4> QED BY <2>3, <3>1, <4>1 DEF Inv2, Dated
    <3>2. CASE u # t
      BY <1>3, <2>3, <3>2 DEF Inv2, Dated
    <3> QED BY <3>1, <3>2
  <2> QED BY <1>4, <2>2, <2>3 DEF Inv2, Dated
<1> QED BY <1>2, <1>5, <1>6, <1>7 DEF row

(* The other steps leave the rows and the source as they are, and read     *)
(* documents the source or the cache has.                                  *)
LEMMA PlanIs ==
  ASSUME Inv1, Plan
  PROVE  /\ run.pc = "idle" /\ owed' = Nothing
         /\ UNCHANGED <<source, stream, filled, listening, changes, cache, landed, targetNodes, watch,
                        pending, target, troubles>>
         /\ \/ run'.pc = "list" /\ run'.docs = [r \in Resources |-> None] /\ UNCHANGED <<retry, astray>>
            \/ /\ ~owed.all /\ retry' = Add(retry, Refused(Orphans(owed, cache)))
               /\ astray' = astray \cup Severed(owed.nodes)
               /\ \/ Want(owed, cache) = {} /\ run'.docs = [r \in Resources |-> None] /\ run'.pc = "idle"
                  \/ /\ run'.pc = "send" /\ run'.docs = cache /\ run'.work = owed
                     /\ run'.todo = Want(owed, cache)
<1> DEFINE want == Want(owed, cache)
<1>1. owed \in Work /\ cache \in Catalogues
  BY DEF Inv1, TypeOK
<1>2. want \in SUBSET Resources
  BY <1>1, WantIsKnown
<1>3. /\ run.pc = "idle" /\ owed' = Nothing
      /\ UNCHANGED <<source, stream, filled, listening, changes, cache, landed, targetNodes, watch,
                     pending, target, troubles>>
      /\ \/ run' = Listing /\ UNCHANGED <<retry, astray>>
         \/ /\ ~owed.all
            /\ retry' = Add(retry, Refused(Orphans(owed, cache)))
            /\ run' = IF want = {} THEN Rest ELSE Sending(owed, cache, want)
            /\ astray' = astray \cup Severed(owed.nodes)
  BY DEF Plan, env, mirror
<1> HIDE DEF want
<1>4. CASE run' = Listing /\ UNCHANGED <<retry, astray>>
  BY <1>3, <1>4, RunFacts DEF Inv1
<1>5. CASE /\ ~owed.all
           /\ retry' = Add(retry, Refused(Orphans(owed, cache)))
           /\ run' = IF want = {} THEN Rest ELSE Sending(owed, cache, want)
           /\ astray' = astray \cup Severed(owed.nodes)
  <2>1. CASE want = {}
    BY <1>3, <1>5, <2>1, RunFacts DEF Inv1, want
  <2>2. CASE want # {}
    BY <1>1, <1>2, <1>3, <1>5, <2>2, RunFacts DEF Inv1, want
  <2> QED BY <2>1, <2>2
<1> QED BY <1>3, <1>4, <1>5

LEMMA PassEndsIs ==
  ASSUME Inv1, PassEnds
  PROVE  /\ run' = Rest /\ run'.pc = "idle" /\ run'.docs = [r \in Resources |-> None]
         /\ run.pc = "send" /\ (run.todo = {} \/ GivenUp)
         /\ retry' = Add(retry, Unanswered) /\ pending' = Add(pending, Refused(run.waiting))
         /\ UNCHANGED <<source, stream, filled, listening, changes, cache, landed, targetNodes, watch,
                        owed, orphanTries, target, troubles, astray>>
BY RunFacts DEF Inv1, PassEnds, env, mirror

LEMMA OtherRows ==
  ASSUME Inv2, UNCHANGED <<source, stream, listening, changes>>,
         \/ UNCHANGED <<cache, run>>
         \/ Pass \/ RefreshFails
  PROVE  LastRows' /\ Dated'
<1>1. LastRows'
  BY DEF Inv2, LastRows, Shows
<1>2. (\A c \in Resources : cache'[c] = None \/ cache'[c] <= changes)
      /\ (\A c \in Resources : run'.docs[c] = None \/ run'.docs[c] <= changes)
  <2>0. /\ \A c \in Resources : cache[c] = None \/ cache[c] <= changes
        /\ \A c \in Resources : run.docs[c] = None \/ run.docs[c] <= changes
        /\ \A c \in Resources : source[c] = None \/ source[c] <= changes
    BY DEF Inv2, Dated
  <2>1. CASE UNCHANGED <<cache, run>>
    BY <2>0, <2>1
  <2>2. CASE Plan
    <3>1. cache' = cache /\ (run'.docs = cache \/ run'.docs = [r \in Resources |-> None])
      <4>1. run'.docs = cache \/ run'.docs = [r \in Resources |-> None]
        BY <2>2, PlanIs, Zenon DEF Inv2
      <4>2. cache' = cache
        BY <2>2 DEF Plan, mirror
      <4> QED BY <4>1, <4>2
    <3> QED BY <2>0, <3>1
  <2>3. CASE Refresh
    <3>1. run'.docs = Read /\ cache' = cache
      BY <2>3, RefreshIs DEF Inv2
    <3> QED BY <2>0, <3>1 DEF Read
  <2>4. CASE PassStep
    BY <2>0, <2>4, PassStepIs DEF Inv2
  <2>5. CASE PassPost
    BY <2>0, <2>5, PassPostIs DEF Inv2
  <2>6. CASE PassPosted
    <3>1. cache' = cache /\ run'.docs = run.docs
      <4>1. run' = Done("send") /\ run.todo # {} /\ cache' = cache
        BY <2>6 DEF PassPosted, NoteLanded, Inv2, Inv1, Steps
      <4>2. Done("send") = [run EXCEPT !.pc = "send", !.todo = run.todo \ {Current}] /\ run \in Runs
        BY <4>1, DoneIs DEF Inv2, Inv1, TypeOK
      <4> QED BY <4>1, <4>2 DEF Runs
    <3> QED BY <2>0, <3>1
  <2>7. CASE PassEnds
    BY <2>0, <2>7, PassEndsIs DEF Inv2
  <2>8. CASE Install \/ RefreshFails
    <3>1. run'.docs = [r \in Resources |-> None] /\ (cache' = cache \/ cache' = run.docs)
      BY <2>8, RefreshedIs DEF Inv2
    <3> QED BY <2>0, <3>1
  <2>9. CASE Snapshot
    <3>1. run'.docs = cache /\ cache' = cache
      BY <2>9, SnapshotIs DEF Inv2
    <3> QED BY <2>0, <3>1
  <2> QED BY <2>1, <2>2, <2>3, <2>4, <2>5, <2>6, <2>7, <2>8, <2>9 DEF Pass
<1>3. Dated'
  BY <1>2 DEF Inv2, Dated
<1> QED BY <1>1, <1>3

-----------------------------------------------------------------------------
(* The three ways to disagree, and who deals with each.  The cache and the *)
(* source: a row to come.                                                  *)
Heard == \A r \in Resources : cache[r] # source[r] => r \in astray \/ ToHear(r)

(* The target holds what the cache no longer has: its DELETE.              *)
Requested(r, step) == watch[Topic[r]].res = r /\ watch[Topic[r]].pc = step
Removed ==
  \A r \in Resources : cache[r] = None /\ target[r] # None => r \in astray \/ Requested(r, "delete")

(* The target lacks what the cache has, as the source has it: a request of *)
(* the watcher, work that is owed, the pass in progress, or a heartbeat.   *)
(* The pass's work covers what it has still to send, so that it is owed    *)
(* again should the target fall silent.                                    *)
Remaining == IF run.pc = "posted" THEN run.todo \ {Current} ELSE run.todo
InPass(r) ==
  \/ Refreshing
  \/ r \in run.waiting
  \/ (Covers(run.work, r) /\ r \in Remaining \cup run.unanswered)
InHand(r) == r \in astray \/ Requested(r, "post") \/ Owed(r) \/ InPass(r) \/ Unnoticed(r)
Behind(r) == cache[r] # None /\ cache[r] = source[r] /\ target[r] # cache[r]
Handled == \A r \in Resources : Behind(r) => InHand(r)

Inv == Inv2 /\ Heard /\ Removed /\ Handled

LEMMA InvImplies == Inv => NothingForgotten
<1> SUFFICES ASSUME Inv, NEW r \in Resources, target[r] # source[r]
             PROVE  r \in astray \/ ToHear(r) \/ Sent(r) \/ Owed(r) \/ Passing(r) \/ Unnoticed(r)
  BY DEF NothingForgotten
<1>1. CASE cache[r] # source[r]
  BY <1>1 DEF Inv, Heard
<1>2. CASE cache[r] = source[r] /\ cache[r] = None
  BY <1>2 DEF Inv, Removed, Requested, Sent
<1>3. CASE cache[r] = source[r] /\ cache[r] # None
  <2>1. InHand(r)
    BY <1>3 DEF Inv, Handled, Behind
  <2>2. InPass(r) => Passing(r)
    BY DEF InPass, Passing, Remaining
  <2>3. Requested(r, "post") => Sent(r)
    BY DEF Requested, Sent
  <2> QED BY <2>1, <2>2, <2>3 DEF InHand
<1> QED BY <1>1, <1>2, <1>3

LEMMA OwedIs ==
  ASSUME TypeOK, NEW r \in Resources
  PROVE  Owed(r) <=> Covers(owed, r) \/ Covers(pending, r) \/ Covers(retry, r)
<1>1. owed \in Work /\ pending \in Work /\ retry \in Work /\ Add(owed, pending) \in Work
  BY WorkFacts DEF TypeOK
<1> QED BY <1>1, CoversAdd DEF Owed

LEMMA OwedNext ==
  ASSUME TypeOK', NEW r \in Resources
  PROVE  Owed(r)' <=> Covers(owed', r) \/ Covers(pending', r) \/ Covers(retry', r)
<1>1. owed' \in Work /\ pending' \in Work /\ retry' \in Work /\ Add(owed', pending') \in Work
  BY WorkFacts DEF TypeOK
<1>2. Owed(r)' <=> Covers(Add(Add(owed', pending'), retry'), r)
  BY DEF Owed, Covers, Add
<1> QED BY <1>1, <1>2, CoversAdd

LEMMA PostedSame ==
  ASSUME UNCHANGED <<watch, run>>, NEW n
  PROVE  Posted(n)' = Posted(n) /\ Current' = Current
BY DEF Posted, Current

LEMMA PassSame ==
  ASSUME UNCHANGED run, NEW r
  PROVE  InPass(r)' = InPass(r)
BY DEF InPass, Remaining, Current, Refreshing

LEMMA InitInv == Init => Inv
<1> SUFFICES ASSUME Init PROVE Inv
  OBVIOUS
<1>1. Inv1
  BY InitInv1
<1>2. LastRows
  BY DEF Init, LastRows
<1>3. Dated
  BY DEF Init, Dated, Rest
<1>4. Heard
  BY Constants DEF Init, Heard, ToHear
<1>5. Removed /\ Handled
  BY DEF Init, Removed, Handled, Behind
<1> QED BY <1>1, <1>2, <1>3, <1>4, <1>5 DEF Inv, Inv2

LEMMA RegisterInv ==
  ASSUME Inv, NEW r \in Resources, Register(r) \/ Unregister(r)
  PROVE  Heard' /\ Removed' /\ Handled'
<1>1. PICK rs \in SUBSET Resources :
        /\ Change(rs) /\ source' \in Catalogues /\ changes' = changes + 1
        /\ \A c \in Resources \ rs : source'[c] = source[c]
        /\ \A c \in rs : source'[c] \in {None, changes + 1}
  BY SourceIs DEF Inv, Inv2
<1>2. UNCHANGED <<listening, cache, landed, targetNodes, watch, run, owed, pending, retry, target, astray>>
  BY <1>1 DEF Change, mirror, work
<1>3. PICK o \in [Topics -> UNION {Orders(Of(t, rs)) : t \in Topics}] :
        /\ \A t \in Topics : o[t] \in Orders(Of(t, rs))
        /\ stream' = [t \in Topics |-> IF t \in listening
                                       THEN stream[t] \o Rows(o[t], source') ELSE <<>>]
  BY <1>1 DEF Change
<1>4. ASSUME NEW c \in Resources, Topic[c] \in listening, Queued(c) \/ c \in rs
      PROVE  Queued(c)'
  <2> DEFINE t == Topic[c]
             rows == Rows(o[t], source')
  <2>1. t \in Topics
    BY Constants
  <2>2. rows \in Seq(Row) /\ stream[t] \in Seq(Row)
        /\ (c \in rs => \E k \in 1 .. Len(rows) : rows[k].res = c)
    <3>1. stream[t] \in Seq(Row)
      BY <2>1 DEF Inv, Inv2, Inv1, TypeOK
    <3>2. o[t] \in Orders(Of(t, rs)) /\ source' \in Catalogues
      BY <1>1, <1>3, <2>1
    <3> QED BY <2>1, <3>1, <3>2, RowsAreWhole
  <2>3. stream'[t] = stream[t] \o rows
    BY <1>3, <1>4, <2>1
  <2> HIDE DEF rows
  <2>4. /\ Len(stream'[t]) = Len(stream[t]) + Len(rows) /\ Len(stream[t]) \in Nat /\ Len(rows) \in Nat
        /\ \A k \in 1 .. Len(stream[t]) : stream'[t][k] = stream[t][k]
        /\ \A k \in 1 .. Len(rows) : Len(stream[t]) + k \in 1 .. Len(stream'[t])
                                     /\ stream'[t][Len(stream[t]) + k] = rows[k]
    BY <2>2, <2>3, Appended
  <2>5. CASE Queued(c)
    <3>1. PICK k \in 1 .. Len(stream[t]) : stream[t][k].res = c
      BY <2>5 DEF Queued
    <3>2. k \in 1 .. Len(stream'[t]) /\ stream'[t][k].res = c
      BY <2>4, <3>1
    <3> QED BY <3>2 DEF Queued
  <2>6. CASE c \in rs
    <3>1. PICK k \in 1 .. Len(rows) : rows[k].res = c
      BY <2>2, <2>6
    <3> QED BY <2>4, <3>1 DEF Queued
  <2> QED BY <1>4, <2>5, <2>6
<1>5. Heard'
  <2> SUFFICES ASSUME NEW c \in Resources, cache'[c] # source'[c]
               PROVE  (c \in astray \/ ToHear(c))'
    BY DEF Heard
  <2>1. CASE Topic[c] \notin listening
    BY <1>2, <2>1 DEF ToHear
  <2>2. CASE Topic[c] \in listening /\ c \in rs
    BY <1>4, <2>2 DEF ToHear
  <2>3. CASE Topic[c] \in listening /\ c \notin rs
    BY <1>1, <1>2, <1>4, <2>3 DEF ToHear, Inv, Heard
  <2> QED BY <2>1, <2>2, <2>3
<1>6. Removed'
  BY <1>2 DEF Inv, Removed, Requested
<1>7. Handled'
  <2> SUFFICES ASSUME NEW c \in Resources, Behind(c)' PROVE InHand(c)'
    BY DEF Handled
  <2>1. c \notin rs
    <3>1. cache[c] \in Nat \cup {None} /\ (cache[c] # None => cache[c] <= changes) /\ changes \in Nat
      BY Constants DEF Inv, Inv2, Inv1, TypeOK, Catalogues, Dated
    <3> QED BY <1>1, <1>2, <3>1 DEF Behind
  <2>2. InHand(c)
    BY <1>1, <1>2, <2>1 DEF Behind, Inv, Handled
  <2>3. InPass(c)' = InPass(c) /\ Owed(c)' = Owed(c) /\ Requested(c, "post")' = Requested(c, "post")
    BY <1>2, PassSame DEF Owed, Requested
  <2>4. \A n \in Nodes : Lost(n)' = Lost(n)
    BY <1>2, PostedSame DEF Lost, Watched
  <2> QED BY <1>2, <2>2, <2>3, <2>4 DEF InHand, Unnoticed
<1> QED BY <1>5, <1>6, <1>7

LEMMA SubscribeInv ==
  ASSUME Inv, NEW t \in Topics, Subscribe(t) \/ LoseSocket(t)
  PROVE  Heard' /\ Removed' /\ Handled'
<1>1. UNCHANGED <<source, cache, targetNodes, watch, run, owed, pending, retry, target>> /\ astray \subseteq astray'
  BY DEF Subscribe, LoseSocket, mirror, work
<1>2. Removed'
  BY <1>1 DEF Inv, Removed, Requested
<1>3. Handled'
  <2> SUFFICES ASSUME NEW c \in Resources, Behind(c)' PROVE InHand(c)'
    BY DEF Handled
  <2>1. InHand(c)
    BY <1>1 DEF Behind, Inv, Handled
  <2>2. InPass(c)' = InPass(c) /\ Owed(c)' = Owed(c) /\ Requested(c, "post")' = Requested(c, "post")
    BY <1>1, PassSame DEF Owed, Requested
  <2>3. \A n \in Nodes : Lost(n)' = Lost(n)
    BY <1>1, PostedSame DEF Lost, Watched
  <2> QED BY <1>1, <2>1, <2>2, <2>3 DEF InHand, Unnoticed
<1>4. Heard'
  <2> SUFFICES ASSUME NEW c \in Resources, cache'[c] # source'[c]
               PROVE  (c \in astray \/ ToHear(c))'
    BY DEF Heard
  <2>0. Topic[c] \in Topics
    BY Constants
  <2>1. CASE Subscribe(t) /\ Topic[c] = t
    <3>1. CASE source[c] = None
      BY <1>1, <2>1, <3>1 DEF Subscribe, Known
    <3>2. CASE source[c] # None
      <4>1. PICK o \in Orders(Of(t, Known(source))) : stream' = [stream EXCEPT ![t] = Rows(o, source)]
        BY <2>1 DEF Subscribe
      <4>2. Known(source) \in SUBSET Resources /\ c \in Known(source) /\ source \in Catalogues
        BY <3>2 DEF Known, Inv, Inv2, Inv1, TypeOK
      <4>3. \E k \in 1 .. Len(Rows(o, source)) : Rows(o, source)[k].res = c
        BY <2>1, <4>2, RowsAreWhole
      <4>4. stream'[t] = Rows(o, source)
        BY <4>1 DEF Inv, Inv2, Inv1, TypeOK
      <4> QED BY <2>1, <4>3, <4>4 DEF ToHear, Queued
    <3> QED BY <3>1, <3>2
  <2>2. CASE LoseSocket(t) /\ Topic[c] = t
    BY <2>2 DEF LoseSocket, ToHear
  <2>3. CASE Topic[c] # t
    <3>1. stream'[Topic[c]] = stream[Topic[c]] /\ (Topic[c] \in listening' <=> Topic[c] \in listening)
      BY <2>0, <2>3 DEF Inv, Inv2, Inv1, TypeOK, Subscribe, LoseSocket
    <3> QED BY <1>1, <3>1 DEF Inv, Heard, ToHear, Queued
  <2> QED BY <2>1, <2>2, <2>3
<1> QED BY <1>2, <1>3, <1>4

LEMMA ForwardQueue ==
  ASSUME Inv, NEW t \in Topics, ForwardRow(t), NEW c \in Resources
  PROVE  /\ Topic[c] \in listening' <=> Topic[c] \in listening
         /\ Queued(c) => Queued(c)' \/ (c = Head(stream[t]).res /\ Head(stream[t]).doc = source[c])
<1> DEFINE row == Head(stream[t])
<1>1. /\ row \in Row /\ Len(stream[t]) \in Nat \ {0} /\ row = stream[t][1]
      /\ Len(Tail(stream[t])) = Len(stream[t]) - 1
      /\ \A k \in 1 .. Len(stream[t]) - 1 : Tail(stream[t])[k] = stream[t][k + 1]
  BY HeadIs DEF Inv, Inv2, Inv1, ForwardRow
<1>2. stream'[t] = Tail(stream[t]) /\ \A u \in Topics \ {t} : stream'[u] = stream[u]
  BY DEF ForwardRow, Inv, Inv2, Inv1, TypeOK
<1>3. Topic[c] \in listening' <=> Topic[c] \in listening
  BY DEF ForwardRow
<1> HIDE DEF row
<1>4. ASSUME Queued(c), ~Queued(c)' PROVE c = row.res /\ row.doc = source[c]
  <2>1. Topic[c] = t
    BY <1>2, <1>4, Constants DEF Queued
  <2>2. \A k \in 1 .. Len(stream[t]) - 1 : stream[t][k + 1].res # c
    <3> SUFFICES ASSUME NEW k \in 1 .. Len(stream[t]) - 1 PROVE stream[t][k + 1].res # c
      OBVIOUS
    <3>1. k \in 1 .. Len(stream'[t]) /\ stream'[t][k] = stream[t][k + 1]
      BY <1>1, <1>2
    <3> QED BY <1>4, <2>1, <3>1 DEF Queued
  <2>3. \A j \in 2 .. Len(stream[t]) : stream[t][j].res # c
    <3> SUFFICES ASSUME NEW j \in 2 .. Len(stream[t]) PROVE stream[t][j].res # c
      OBVIOUS
    <3>1. j - 1 \in 1 .. Len(stream[t]) - 1 /\ (j - 1) + 1 = j
      BY <1>1
    <3> QED BY <2>2, <3>1
  <2>4. stream[t][1].res = c
    <3>1. PICK k \in 1 .. Len(stream[t]) : stream[t][k].res = c
      BY <1>4, <2>1 DEF Queued
    <3>2. k = 1
      BY <1>1, <2>3, <3>1
    <3> QED BY <3>1, <3>2
  <2>5. 1 \in 1 .. Len(stream[t]) /\ 1 + 1 = 2
    BY <1>1
  <2>6. Shows(t, 1)
    BY <2>5 DEF Inv, Inv2, LastRows
  <2> QED BY <1>1, <2>3, <2>4, <2>5, <2>6 DEF Shows
<1> QED BY <1>3, <1>4 DEF row

LEMMA ForwardInv ==
  ASSUME Inv, NEW t \in Topics, ForwardRow(t)
  PROVE  Heard' /\ Removed' /\ Handled'
<1> DEFINE row == Head(stream[t])
           r == row.res
<1>1. row \in Row /\ r \in Resources /\ row.doc \in Docs \cup {None} /\ Topic[r] = t
  BY HeadIs DEF Inv, Inv2, Inv1, ForwardRow, Row, LastRows
<1>2. /\ watch[t].pc = "idle"
      /\ UNCHANGED <<source, listening, targetNodes, run, owed, retry, target>>
      /\ \/ /\ row.doc # None /\ cache[r] = row.doc
            /\ UNCHANGED <<cache, pending, watch, astray>>
         \/ /\ row.doc # None /\ cache[r] # row.doc
            /\ cache' = [cache EXCEPT ![r] = row.doc]
            /\ pending' = Add(pending, Refused({r})) /\ UNCHANGED <<watch, astray>>
         \/ /\ row.doc # None /\ cache[r] # row.doc
            /\ cache' = [cache EXCEPT ![r] = row.doc]
            /\ Request(t, "post", row) /\ UNCHANGED <<pending, astray>>
         \/ /\ row.doc = None /\ cache[r] = None
            /\ UNCHANGED <<cache, pending, watch, astray>>
         \/ /\ row.doc = None /\ cache[r] # None
            /\ cache' = [cache EXCEPT ![r] = None]
            /\ Request(t, "delete", row) /\ astray' = astray \cup Masked(r)
            /\ UNCHANGED pending
  BY DEF ForwardRow, Land
<1>3. \A c \in Resources :
        /\ Topic[c] \in listening' <=> Topic[c] \in listening
        /\ Queued(c) => Queued(c)' \/ (c = r /\ row.doc = source[c])
  BY ForwardQueue
<1>4. /\ cache \in Catalogues /\ watch \in [Topics -> Requests] /\ TypeOK /\ pending \in Work
      /\ \A c \in Resources : Topic[c] \in Topics
  BY Constants DEF Inv, Inv2, Inv1, TypeOK
<1>5. stream[t][1].res = r /\ 1 \in 1 .. Len(stream[t])
  BY HeadIs DEF Inv, Inv2, Inv1, ForwardRow
<1> HIDE DEF row
<1>6. cache'[r] = row.doc /\ \A c \in Resources \ {r} : cache'[c] = cache[c]
  BY <1>1, <1>2, <1>4 DEF Catalogues
<1>7. /\ \A u \in Topics \ {t} : watch'[u] = watch[u]
      /\ watch'[t].pc \in {"idle", "post", "delete"}
      /\ \/ /\ row.doc # None /\ cache[r] = row.doc /\ astray' = astray /\ watch' = watch
         \/ row.doc # None /\ Covers(pending', r) /\ astray' = astray /\ watch' = watch
         \/ row.doc # None /\ watch'[t].pc = "post" /\ watch'[t].res = r /\ astray' = astray
         \/ row.doc = None /\ cache[r] = None /\ astray' = astray /\ watch' = watch
         \/ /\ row.doc = None /\ cache[r] # None /\ watch'[t].pc = "delete" /\ watch'[t].res = r
            /\ astray' = astray \cup Masked(r)
  <2>1. ASSUME NEW step \in {"post", "delete"}, Request(t, step, row)
        PROVE  /\ \A u \in Topics \ {t} : watch'[u] = watch[u]
               /\ watch'[t].pc = step /\ watch'[t].res = r
    BY <1>1, <1>4, <2>1 DEF Request
  <2>2. pending' = Add(pending, Refused({r})) => Covers(pending', r)
    <3>1. Refused({r}) \in Work /\ Covers(Refused({r}), r)
      BY <1>1, WorkFacts, CoversOf
    <3>2. Covers(Add(pending, Refused({r})), r)
      BY <1>1, <1>4, <3>1, CoversAdd
    <3> QED BY <3>2
  <2> QED BY <1>2, <2>1, <2>2
<1>8. ASSUME NEW c \in Resources, Covers(pending, c) PROVE Covers(pending', c)
  <2>1. Refused({r}) \in Work
    BY <1>1, WorkFacts
  <2>2. pending' = pending \/ pending' = Add(pending, Refused({r}))
    BY <1>2
  <2>3. Covers(Add(pending, Refused({r})), c)
    BY <1>4, <1>8, <2>1, CoversAdd
  <2> QED BY <1>8, <2>2, <2>3 DEF Covers
<1>9. TypeOK' 
  BY ForwardInv1 DEF Inv, Inv2, Inv1
<1> HIDE DEF r
<1>10. Heard'
  <2> SUFFICES ASSUME NEW c \in Resources, cache'[c] # source'[c]
               PROVE  (c \in astray \/ ToHear(c))'
    BY DEF Heard
  <2>1. astray \subseteq astray'
    BY <1>7
  <2>2. CASE c # r
    <3>1. c \in astray \/ Topic[c] \notin listening \/ Queued(c)
      BY <1>2, <1>6, <2>2 DEF Inv, Heard, ToHear
    <3> QED BY <1>3, <2>1, <2>2, <3>1 DEF ToHear
  <2>3. CASE c = r /\ row.doc # source[r]
    <3>1. c \in Resources /\ (Queued(c) => Queued(c)')
      BY <1>3, <2>3
    <3>2. CASE cache[r] # source[r]
      <4>1. c \in astray \/ Topic[c] \notin listening \/ Queued(c)
        BY <2>3, <3>2 DEF Inv, Heard, ToHear
      <4> QED BY <1>3, <2>1, <3>1, <4>1 DEF ToHear
    <3>3. CASE Topic[r] \in listening
      <4>1. Queued(r)
        BY <1>1, <1>4, <1>5 DEF Queued
      <4> QED BY <2>3, <3>1, <4>1 DEF ToHear
    <3> QED BY <1>3, <2>3, <3>2, <3>3 DEF ToHear
  <2>4. CASE c = r /\ row.doc = source[r]
    BY <1>2, <1>6, <2>4
  <2> QED BY <2>2, <2>3, <2>4
<1>11. Removed'
  <2> SUFFICES ASSUME NEW c \in Resources, cache'[c] = None, target'[c] # None
               PROVE  (c \in astray \/ Requested(c, "delete"))'
    BY DEF Removed
  <2>1. CASE c = r
    BY <1>1, <1>2, <1>6, <1>7, <2>1 DEF Inv, Removed, Requested
  <2>2. CASE c # r
    BY <1>2, <1>4, <1>6, <1>7, <2>2 DEF Inv, Removed, Requested
  <2> QED BY <2>1, <2>2
<1>12. ASSUME NEW n \in Nodes, Lost(n)
       PROVE  Lost(n)' \/ (n = r /\ astray' = astray \cup Masked(r))
  <2>1. Posted(n) => Posted(n)'
    BY <1>2, <1>7 DEF Posted, Current
  <2>2. Watched(n)' /\ target'[n] = None
    BY <1>2, <1>12, <2>1 DEF Lost, Watched
  <2>3. CASE cache'[n] # None
    BY <2>2, <2>3 DEF Lost
  <2>4. CASE cache'[n] = None
    BY <1>6, <1>7, <1>12, <2>4 DEF Lost, Nodes
  <2> QED BY <2>3, <2>4
<1>13. Handled'
  <2> SUFFICES ASSUME NEW c \in Resources, Behind(c)' PROVE InHand(c)'
    BY DEF Handled
  <2>1. InPass(c)' = InPass(c) /\ (Owed(c) => Owed(c)') /\ (Covers(pending', c) => Owed(c)')
    <3>1. Covers(owed', c) = Covers(owed, c) /\ Covers(retry', c) = Covers(retry, c)
      BY <1>2 DEF Covers
    <3>2. Owed(c) <=> Covers(owed, c) \/ Covers(pending, c) \/ Covers(retry, c)
      BY <1>4, OwedIs
    <3>3. Owed(c)' <=> Covers(owed', c) \/ Covers(pending', c) \/ Covers(retry', c)
      BY <1>9, OwedNext
    <3> QED BY <1>2, <1>8, <3>1, <3>2, <3>3, PassSame
  <2>2. Unnoticed(c) /\ cache[c] = source[c] /\ cache[c] # None /\ c # r
           => Unnoticed(c)' \/ c \in astray'
    BY <1>12 DEF Unnoticed, Masked, Settled, Under
  <2>3. CASE c # r
    <3>1. Behind(c)
      BY <1>2, <1>6, <2>3 DEF Behind
    <3>2. InHand(c)
      BY <3>1 DEF Inv, Handled
    <3>3. astray \subseteq astray' /\ (Requested(c, "post") => Requested(c, "post")')
      BY <1>2, <1>4, <1>7, <2>3 DEF Requested
    <3> QED BY <2>1, <2>2, <2>3, <3>1, <3>2, <3>3 DEF InHand, Behind
  <2>4. CASE c = r /\ cache[r] = row.doc
    <3>1. Behind(c) /\ row.doc # None
      BY <1>2, <1>6, <2>4 DEF Behind
    <3>2. InHand(c)
      BY <3>1 DEF Inv, Handled
    <3>3. CASE astray' = astray /\ watch' = watch
      <4>1. \A n \in Nodes : Lost(n) => Lost(n)'
        BY <1>6, <2>4, <1>2, <3>3, PostedSame DEF Lost, Watched, Nodes
      <4> QED BY <2>1, <3>2, <3>3, <4>1 DEF InHand, Unnoticed, Requested
    <3>4. CASE Covers(pending', r)
      BY <2>1, <2>4, <3>4 DEF InHand
    <3>5. CASE watch'[t].pc = "post" /\ watch'[t].res = r
      BY <1>1, <2>4, <3>5 DEF InHand, Requested
    <3> QED BY <1>7, <3>1, <3>3, <3>4, <3>5
  <2>5. CASE c = r /\ cache[r] # row.doc
    <3>1. row.doc # None
      BY <1>6, <2>5 DEF Behind
    <3>2. CASE Covers(pending', r)
      BY <2>1, <2>5, <3>2 DEF InHand
    <3>3. CASE watch'[t].pc = "post" /\ watch'[t].res = r
      BY <1>1, <2>5, <3>3 DEF InHand, Requested
    <3> QED BY <1>7, <2>5, <3>1, <3>2, <3>3
  <2> QED BY <2>3, <2>4, <2>5
<1> QED BY <1>10, <1>11, <1>13

(* A POST that the target accepts, on either path.                         *)
LEMMA PutIs ==
  ASSUME TypeOK, NEW r \in Resources, NEW doc \in Docs, UNCHANGED <<source, cache, targetNodes>>,
         target' = Put(r, doc), astray' = AfterPost(r, doc),
         \A n \in Nodes : Posted(n) => Posted(n)'
  PROVE  /\ \A c \in Resources : cache[c] # source[c] /\ c \in astray => c \in astray'
         /\ \A c \in Resources \ {r} :
              /\ target'[c] = target[c] /\ (c \in astray => c \in astray')
              /\ Behind(c) /\ Unnoticed(c) => Unnoticed(c)' \/ c \in astray'
         /\ cache[r] = None => r \in astray'
         /\ Behind(r)' => r \in astray'
<1>1. doc # None /\ target \in Catalogues
  BY Constants DEF TypeOK
<1>2. target'[r] = doc /\ \A c \in Resources \ {r} : target'[c] = target[c]
  BY <1>1 DEF Put, Catalogues
<1>3. astray' = (astray \ Righted(r, doc)) \cup Masked(r) \cup Overtaken(r, doc)
  BY DEF AfterPost
<1>4. \A c \in Resources : cache[c] # source[c] /\ c \in astray => c \in astray'
  BY <1>3 DEF Righted
<1>5. cache[r] # doc => r \in astray'
  BY <1>3 DEF Overtaken
<1>6. \A c \in Resources \ {r} : c \in astray => c \in astray'
  BY <1>3 DEF Righted
<1>7. ASSUME NEW c \in Resources \ {r}, Behind(c), Unnoticed(c)
      PROVE  Unnoticed(c)' \/ c \in astray'
  <2>1. PICK n \in Chain[c] \cap Nodes : Lost(n)
    BY <1>7 DEF Unnoticed
  <2>2. CASE n = r
    <3>1. c \in Settled(r)
      BY <1>7, <2>1, <2>2 DEF Settled, Behind, Under
    <3> QED BY <1>3, <2>1, <2>2, <3>1 DEF Masked
  <2>3. CASE n # r
    <3>1. Lost(n)'
      BY <1>2, <2>1, <2>3 DEF Lost, Watched, Nodes
    <3> QED BY <2>1, <3>1 DEF Unnoticed
  <2> QED BY <2>2, <2>3
<1>8. Behind(r)' => r \in astray'
  BY <1>2, <1>5 DEF Behind
<1> QED BY <1>1, <1>2, <1>4, <1>5, <1>6, <1>7, <1>8

LEMMA LivePostInv ==
  ASSUME Inv, NEW t \in Topics, LivePost(t)
  PROVE  Heard' /\ Removed' /\ Handled'
<1>0. watch[t].res \in Resources /\ watch[t].doc \in Docs
  BY DEF Inv, Inv2, Inv1, TypeOK, Requests, LivePost, Steps
<1> PICK r \in Resources, doc \in Docs : r = watch[t].res /\ doc = watch[t].doc
  BY <1>0
<1>1. /\ Topic[r] = t /\ watch[t].pc = "post"
      /\ watch \in [Topics -> Requests] /\ pending \in Work /\ retry \in Work /\ TypeOK
      /\ \A c \in Resources : Topic[c] \in Topics
  BY Constants DEF Inv, Inv2, Inv1, TypeOK, Requests, LivePost, Steps
<1>2. /\ UNCHANGED <<source, stream, listening, cache, targetNodes, run, owed>>
      /\ \/ /\ target' = Put(r, doc) /\ astray' = AfterPost(r, doc)
            /\ watch' = [watch EXCEPT ![t] = [pc |-> "posted", res |-> r, doc |-> doc]]
            /\ UNCHANGED <<pending, retry>>
         \/ /\ pending' = Add(pending, Refused({r})) /\ watch' = [watch EXCEPT ![t] = Idle]
            /\ UNCHANGED <<target, astray, retry>>
         \/ /\ astray' = astray \cup {r} /\ watch' = [watch EXCEPT ![t] = Idle]
            /\ UNCHANGED <<target, pending, retry>>
         \/ /\ retry' = Add(retry, Refused({r})) /\ watch' = [watch EXCEPT ![t] = Idle]
            /\ \/ UNCHANGED <<target, astray>>
               \/ target' = Put(r, doc) /\ astray' = AfterPost(r, doc)
            /\ UNCHANGED pending
  BY DEF LivePost, RefusalOwed, Request, env, mirror
<1>3. \A u \in Topics \ {t} : watch'[u] = watch[u]
  BY <1>1, <1>2
<1>4. \A n \in Nodes : Posted(n) => Posted(n)'
  BY <1>1, <1>2, <1>3 DEF Posted, Current
<1>5. TypeOK'
  BY LivePostInv1 DEF Inv, Inv2, Inv1
<1>6. \/ target' = Put(r, doc) /\ astray' = AfterPost(r, doc)
      \/ UNCHANGED target /\ astray \subseteq astray'
  BY <1>2
<1>7. ASSUME NEW c \in Resources
      PROVE  /\ cache[c] # source[c] /\ c \in astray => c \in astray'
             /\ c # r => /\ target'[c] = target[c] /\ (c \in astray => c \in astray')
                         /\ Behind(c) /\ Unnoticed(c) => Unnoticed(c)' \/ c \in astray'
             /\ cache[r] = None /\ target'[r] # None => r \in astray' \/ (target[r] # None /\ r \notin astray)
  <2>1. CASE target' = Put(r, doc) /\ astray' = AfterPost(r, doc)
    <3>1. /\ \A d \in Resources : cache[d] # source[d] /\ d \in astray => d \in astray'
          /\ \A d \in Resources \ {r} :
              /\ target'[d] = target[d] /\ (d \in astray => d \in astray')
              /\ Behind(d) /\ Unnoticed(d) => Unnoticed(d)' \/ d \in astray'
          /\ cache[r] = None => r \in astray'
      BY <1>1, <1>2, <1>4, <2>1, PutIs
    <3> QED BY <3>1
  <2>2. CASE UNCHANGED target /\ astray \subseteq astray'
    <3>1. \A n \in Nodes : Lost(n) => Lost(n)'
      BY <1>2, <1>4, <2>2 DEF Lost, Watched
    <3> QED BY <2>2, <3>1 DEF Unnoticed
  <2> QED BY <1>6, <2>1, <2>2
<1>8. ASSUME NEW c \in Resources
      PROVE  /\ InPass(c)' = InPass(c) /\ (Owed(c) => Owed(c)')
             /\ (c = r /\ (pending' = Add(pending, Refused({r})) \/ retry' = Add(retry, Refused({r}))) => Owed(c)')
  <2>1. Refused({r}) \in Work /\ Covers(Refused({r}), r)
    BY <1>1, WorkFacts, CoversOf
  <2>2. Owed(c) <=> Covers(owed, c) \/ Covers(pending, c) \/ Covers(retry, c)
    BY <1>1, OwedIs
  <2>3. Owed(c)' <=> Covers(owed', c) \/ Covers(pending', c) \/ Covers(retry', c)
    BY <1>5, OwedNext
  <2>4. /\ Covers(Add(pending, Refused({r})), c) <=> Covers(pending, c) \/ Covers(Refused({r}), c)
        /\ Covers(Add(retry, Refused({r})), c) <=> Covers(retry, c) \/ Covers(Refused({r}), c)
    BY <1>1, <2>1, CoversAdd
  <2> QED BY <1>2, <2>1, <2>2, <2>3, <2>4, PassSame
<1>9. Heard'
  BY <1>2, <1>7 DEF Inv, Heard, ToHear, Queued
<1>10. Removed'
  <2> SUFFICES ASSUME NEW c \in Resources, cache'[c] = None, target'[c] # None
               PROVE  (c \in astray \/ Requested(c, "delete"))'
    BY DEF Removed
  <2>1. CASE c # r
    BY <1>1, <1>2, <1>3, <1>7, <2>1 DEF Inv, Removed, Requested
  <2>2. CASE c = r
    <3>1. target[r] # None => r \in astray
      BY <1>1, <1>2, <2>2 DEF Inv, Removed, Requested
    <3> QED BY <1>2, <1>7, <2>2, <3>1
  <2> QED BY <2>1, <2>2
<1>11. Handled'
  <2> SUFFICES ASSUME NEW c \in Resources, Behind(c)' PROVE InHand(c)'
    BY DEF Handled
  <2>1. CASE c # r
    <3>1. Behind(c)
      BY <1>2, <1>7, <2>1 DEF Behind
    <3>2. InHand(c)
      BY <3>1 DEF Inv, Handled
    <3>3. Requested(c, "post") => Requested(c, "post")'
      BY <1>1, <1>3, <2>1 DEF Requested
    <3> QED BY <1>7, <1>8, <2>1, <3>1, <3>2, <3>3 DEF InHand
  <2>2. CASE c = r
    <3>1. CASE target' = Put(r, doc) /\ astray' = AfterPost(r, doc)
      <4>1. Behind(r)' => r \in astray'
        BY <1>1, <1>2, <1>4, <3>1, PutIs
      <4> QED BY <2>2, <4>1 DEF InHand
    <3>2. CASE r \in astray' \/ Owed(r)'
      BY <2>2, <3>2 DEF InHand
    <3> QED BY <1>2, <1>8, <2>2, <3>1, <3>2
  <2> QED BY <2>1, <2>2
<1> QED BY <1>9, <1>10, <1>11

LEMMA LivePostedInv ==
  ASSUME Inv, NEW t \in Topics, LivePosted(t)
  PROVE  Heard' /\ Removed' /\ Handled'
<1>1. /\ UNCHANGED <<source, stream, listening, cache, run, owed, pending, retry, target, astray>>
      /\ watch[t].pc = "posted" /\ watch' = [watch EXCEPT ![t] = Idle]
      /\ targetNodes' = targetNodes \cup ({watch[t].res} \cap Nodes)
  BY DEF LivePosted, NoteLanded, env, work
<1>2. \A u \in Topics \ {t} : watch'[u] = watch[u]
  BY <1>1, IdleIs DEF Inv, Inv2, Inv1
<1>3. \A n \in Nodes : Watched(n) => Watched(n)'
  BY <1>1, <1>2 DEF Watched, Posted, Current
<1>4. \A n \in Nodes : Lost(n) => Lost(n)'
  BY <1>1, <1>3 DEF Lost
<1>5. Heard'
  BY <1>1 DEF Inv, Heard, ToHear, Queued
<1>6. \A c \in Resources, step \in {"post", "delete"} : Requested(c, step) => Requested(c, step)'
  BY <1>1, <1>2, Constants DEF Requested
<1>7. Removed'
  BY <1>1, <1>6 DEF Inv, Removed
<1>8. Handled'
  <2> SUFFICES ASSUME NEW c \in Resources, Behind(c)' PROVE InHand(c)'
    BY DEF Handled
  <2>1. InHand(c)
    BY <1>1 DEF Behind, Inv, Handled
  <2>2. InPass(c)' = InPass(c) /\ Owed(c)' = Owed(c)
    BY <1>1, PassSame DEF Owed
  <2> QED BY <1>1, <1>4, <1>6, <2>1, <2>2 DEF InHand, Unnoticed
<1> QED BY <1>5, <1>7, <1>8

LEMMA LiveDeleteInv ==
  ASSUME Inv, NEW t \in Topics, LiveDelete(t)
  PROVE  Heard' /\ Removed' /\ Handled'
<1> DEFINE r == watch[t].res
<1>1. /\ r \in Resources /\ Topic[r] = t /\ watch[t].pc = "delete"
      /\ watch \in [Topics -> Requests] /\ TypeOK
      /\ \A c \in Resources : Topic[c] \in Topics
  BY Constants DEF Inv, Inv2, Inv1, TypeOK, Requests, LiveDelete, Steps
<1>2. PICK gone \in Cascades(r) :
        /\ \/ target' = Without(target, gone) /\ astray' = AfterDelete(r, gone)
           \/ astray' = astray \cup {r} /\ UNCHANGED target
        /\ watch' = [watch EXCEPT ![t] = Idle]
           \/ watch' = [watch EXCEPT ![t] = [pc |-> "deleted", res |-> r, doc |-> watch[t].doc]]
  BY Zenon DEF LiveDelete, Request
<1>3. UNCHANGED <<source, stream, listening, cache, targetNodes, run, owed, pending, retry>>
  BY DEF LiveDelete, env, mirror, work
<1> HIDE DEF r
<1>4. \A u \in Topics \ {t} : watch'[u] = watch[u]
  BY <1>1, <1>2
<1>5. \A n \in Nodes : Posted(n) => Posted(n)'
  BY <1>1, <1>3, <1>4 DEF Posted, Current
<1>6. r \in gone /\ gone \subseteq Resources
  BY <1>1, <1>2, CascadesAre
<1>7. \A c \in Resources : target'[c] = target[c] \/ target'[c] = None
  BY <1>2 DEF Without
<1>8. \A n \in Nodes : Lost(n) => Lost(n)'
  BY <1>3, <1>5, <1>7 DEF Lost, Watched, Nodes
<1>9. \A c \in Resources : c \in astray => c \in astray' \/ (c = r /\ cache[r] = None /\ source[r] = None)
  BY <1>2 DEF AfterDelete, Righted
<1>10. \A c \in Resources : target'[c] # target[c] /\ cache[c] # None /\ cache[c] = source[c] => c \in astray'
  BY <1>2 DEF AfterDelete, Swept, Without
<1>11. target'[r] = None \/ r \in astray'
  BY <1>1, <1>2, <1>6 DEF Without
<1>12. Heard'
  BY <1>3, <1>9 DEF Inv, Heard, ToHear, Queued
<1>13. Removed'
  <2> SUFFICES ASSUME NEW c \in Resources, cache'[c] = None, target'[c] # None
               PROVE  (c \in astray \/ Requested(c, "delete"))'
    BY DEF Removed
  <2>1. CASE c = r
    BY <1>11, <2>1
  <2>2. CASE c # r
    <3>1. target[c] # None
      BY <1>7
    <3>2. c \in astray \/ Requested(c, "delete")
      BY <1>3, <3>1 DEF Inv, Removed
    <3> QED BY <1>1, <1>4, <1>9, <2>2, <3>2 DEF Requested, r
  <2> QED BY <2>1, <2>2
<1>14. Handled'
  <2> SUFFICES ASSUME NEW c \in Resources, Behind(c)' PROVE InHand(c)'
    BY DEF Handled
  <2>1. CASE target'[c] # target[c]
    BY <1>3, <1>10, <2>1 DEF Behind, InHand
  <2>2. CASE target'[c] = target[c]
    <3>1. Behind(c) /\ InHand(c)
      BY <1>3, <2>2 DEF Behind, Inv, Handled
    <3>2. InPass(c)' = InPass(c) /\ Owed(c)' = Owed(c)
      BY <1>3, PassSame DEF Owed
    <3>3. Requested(c, "post") => Requested(c, "post")'
      BY <1>1, <1>4 DEF Requested
    <3>4. c \in astray => c \in astray'
      BY <1>9, <3>1 DEF Behind
    <3> QED BY <1>8, <3>1, <3>2, <3>3, <3>4 DEF InHand, Unnoticed
  <2> QED BY <2>1, <2>2
<1> QED BY <1>12, <1>13, <1>14

LEMMA LiveDeletedInv ==
  ASSUME Inv, NEW t \in Topics, LiveDeleted(t)
  PROVE  Heard' /\ Removed' /\ Handled'
<1> DEFINE r == watch[t].res
<1>1. /\ UNCHANGED <<source, stream, listening, cache, run, owed, pending, retry, target>>
      /\ watch[t].pc = "deleted" /\ watch' = [watch EXCEPT ![t] = Idle]
      /\ targetNodes' = targetNodes \ {r}
      /\ astray' = astray \cup (IF Lost(r) /\ ~Posted(r) THEN Settled(r) ELSE {})
  BY DEF LiveDeleted, env, work
<1>2. \A u \in Topics \ {t} : watch'[u] = watch[u]
  BY <1>1, IdleIs DEF Inv, Inv2, Inv1
<1> HIDE DEF r
<1>3. \A n \in Nodes : Posted(n) => Posted(n)'
  BY <1>1, <1>2 DEF Posted, Current
<1>4. \A n \in Nodes : Lost(n) => Lost(n)' \/ (n = r /\ Lost(r) /\ ~Posted(r))
  BY <1>1, <1>3 DEF Lost, Watched
<1>5. Heard'
  BY <1>1 DEF Inv, Heard, ToHear, Queued
<1>6. \A c \in Resources, step \in {"post", "delete"} : Requested(c, step) => Requested(c, step)'
  BY <1>1, <1>2, Constants DEF Requested
<1>7. Removed'
  BY <1>1, <1>6 DEF Inv, Removed
<1>8. Handled'
  <2> SUFFICES ASSUME NEW c \in Resources, Behind(c)' PROVE InHand(c)'
    BY DEF Handled
  <2>1. Behind(c) /\ InHand(c)
    BY <1>1 DEF Behind, Inv, Handled
  <2>2. InPass(c)' = InPass(c) /\ Owed(c)' = Owed(c)
    BY <1>1, PassSame DEF Owed
  <2>3. Unnoticed(c) => Unnoticed(c)' \/ c \in astray'
    BY <1>1, <1>4, <2>1 DEF Unnoticed, Settled, Under, Behind
  <2> QED BY <1>1, <1>6, <2>1, <2>2, <2>3 DEF InHand
<1> QED BY <1>5, <1>7, <1>8

-----------------------------------------------------------------------------
LEMMA TimersInv ==
  ASSUME Inv, RepairDue \/ RetryDue \/ Probe \/ \E n \in Nodes : Heartbeat(n)
  PROVE  Heard' /\ Removed' /\ Handled'
<1>1. UNCHANGED <<source, stream, listening, cache, watch, run, target, astray>>
  BY DEF RepairDue, RetryDue, Probe, Heartbeat, env, mirror
<1>2. TypeOK /\ TypeOK' /\ owed \in Work /\ pending \in Work /\ retry \in Work
  BY TimersInv1 DEF Inv, Inv2, Inv1, TypeOK
<1>3. \A c \in Resources : Owed(c) => Owed(c)'
  <2> SUFFICES ASSUME NEW c \in Resources, Owed(c) PROVE Owed(c)'
    OBVIOUS
  <2>1. Owed(c) <=> Covers(owed, c) \/ Covers(pending, c) \/ Covers(retry, c)
    BY <1>2, OwedIs
  <2>2. Owed(c)' <=> Covers(owed', c) \/ Covers(pending', c) \/ Covers(retry', c)
    BY <1>2, OwedNext
  <2>3. ASSUME NEW w \in Work, owed' = Add(owed, w)
        PROVE  Covers(owed', c) <=> Covers(owed, c) \/ Covers(w, c)
    BY <1>2, <2>3, CoversAdd
  <2>4. CASE RepairDue
    BY <1>2, <2>1, <2>2, <2>3, <2>4 DEF RepairDue
  <2>5. CASE RetryDue
    BY <1>2, <2>1, <2>2, <2>3, <2>5 DEF RetryDue
  <2>6. CASE Probe
    BY <2>1, <2>2, <2>3, <2>6, WorkFacts DEF Probe
  <2>7. ASSUME NEW n \in Nodes, Heartbeat(n) PROVE Owed(c)'
    BY <2>1, <2>2, <2>3, <2>7, WorkFacts DEF Heartbeat
  <2> QED BY <2>4, <2>5, <2>6, <2>7
<1>4. ASSUME NEW c \in Resources, Unnoticed(c) PROVE Unnoticed(c)' \/ Owed(c)'
  <2>1. PICK n \in Chain[c] \cap Nodes : Lost(n)
    BY <1>4 DEF Unnoticed
  <2>2. Posted(n)' = Posted(n)
    BY <1>1, PostedSame
  <2>3. CASE Heartbeat(n)
    <3>1. SubtreeOf(n) \in Work /\ Covers(SubtreeOf(n), c) /\ owed' = Add(owed, SubtreeOf(n))
      BY <2>1, <2>3, WorkFacts, CoversOf DEF Heartbeat
    <3>2. Covers(owed', c)
      BY <1>2, <3>1, CoversAdd
    <3> QED BY <1>2, <3>2, OwedNext
  <2>4. CASE n \in targetNodes => n \in targetNodes'
    <3>1. Lost(n)'
      BY <1>1, <2>1, <2>2, <2>4 DEF Lost, Watched
    <3> QED BY <2>1, <3>1 DEF Unnoticed
  <2>5. ~Heartbeat(n) => (n \in targetNodes => n \in targetNodes')
    <3>1. CASE RepairDue \/ RetryDue \/ Probe
      BY <3>1 DEF RepairDue, RetryDue, Probe, mirror
    <3>2. ASSUME NEW m \in Nodes, Heartbeat(m), ~Heartbeat(n)
          PROVE  n \in targetNodes => n \in targetNodes'
      BY <3>2 DEF Heartbeat
    <3> QED BY <3>1, <3>2
  <2> QED BY <2>3, <2>4, <2>5
<1>5. Heard' /\ Removed'
  BY <1>1 DEF Inv, Heard, Removed, ToHear, Queued, Requested
<1>6. Handled'
  <2> SUFFICES ASSUME NEW c \in Resources, Behind(c)' PROVE InHand(c)'
    BY DEF Handled
  <2>1. InHand(c)
    BY <1>1 DEF Behind, Inv, Handled
  <2>2. InPass(c)' = InPass(c) /\ Requested(c, "post")' = Requested(c, "post")
    BY <1>1, PassSame DEF Requested
  <2> QED BY <1>1, <1>3, <1>4, <2>1, <2>2 DEF InHand
<1> QED BY <1>5, <1>6

LEMMA EvictInv ==
  ASSUME Inv, NEW n \in Nodes, Evict(n)
  PROVE  Heard' /\ Removed' /\ Handled'
<1>1. /\ UNCHANGED <<source, stream, listening, cache, targetNodes, watch, run, owed, pending, retry>>
      /\ target' = Without(target, Under(n))
      /\ astray' = astray \cup (IF Watched(n) /\ cache[n] # None THEN {} ELSE Swept(Under(n)))
      /\ n \in Resources /\ n \in Under(n)
  BY ChainFacts DEF Evict, env, mirror, work, Nodes, Under
<1>2. \A c \in Resources : target'[c] = IF c \in Under(n) THEN None ELSE target[c]
  BY <1>1 DEF Without
<1>3. \A m \in Nodes : Posted(m)' = Posted(m)
  BY <1>1, PostedSame
<1>4. \A m \in Nodes : Lost(m) => Lost(m)'
  BY <1>1, <1>2, <1>3 DEF Lost, Watched, Nodes
<1>5. Heard' /\ Removed'
  BY <1>1, <1>2 DEF Inv, Heard, Removed, ToHear, Queued, Requested
<1>6. Handled'
  <2> SUFFICES ASSUME NEW c \in Resources, Behind(c)' PROVE InHand(c)'
    BY DEF Handled
  <2>1. CASE target'[c] = target[c]
    <3>1. InHand(c)
      BY <1>1, <2>1 DEF Behind, Inv, Handled
    <3>2. InPass(c)' = InPass(c) /\ Owed(c)' = Owed(c) /\ Requested(c, "post")' = Requested(c, "post")
      BY <1>1, PassSame DEF Owed, Requested
    <3> QED BY <1>1, <1>4, <3>1, <3>2 DEF InHand, Unnoticed
  <2>2. CASE target'[c] # target[c]
    <3>1. c \in Under(n) /\ target[c] # None /\ cache[c] # None /\ cache[c] = source[c]
      BY <1>1, <1>2, <2>2 DEF Behind
    <3>2. CASE Watched(n) /\ cache[n] # None
      <4>1. Lost(n)'
        BY <1>1, <1>2, <1>3, <3>2 DEF Lost, Watched
      <4> QED BY <3>1, <4>1 DEF InHand, Unnoticed, Under
    <3>3. CASE ~(Watched(n) /\ cache[n] # None)
      BY <1>1, <3>1, <3>3 DEF InHand, Swept
    <3> QED BY <3>2, <3>3
  <2> QED BY <2>1, <2>2
<1> QED BY <1>5, <1>6

LEMMA PlanInv ==
  ASSUME Inv, Plan
  PROVE  Heard' /\ Removed' /\ Handled'
<1>1. /\ run.pc = "idle" /\ owed' = Nothing
      /\ UNCHANGED <<source, stream, filled, listening, changes, cache, landed, targetNodes, watch,
                     pending, target, troubles>>
      /\ \/ run'.pc = "list" /\ UNCHANGED <<retry, astray>>
         \/ /\ ~owed.all /\ retry' = Add(retry, Refused(Orphans(owed, cache)))
            /\ astray' = astray \cup Severed(owed.nodes)
            /\ \/ Want(owed, cache) = {} /\ run'.pc = "idle"
               \/ run'.pc = "send" /\ run'.work = owed /\ run'.todo = Want(owed, cache)
  BY PlanIs, Zenon DEF Inv, Inv2
<1>2. /\ TypeOK /\ TypeOK' /\ owed \in Work /\ pending \in Work /\ retry \in Work /\ cache \in Catalogues
      /\ run.todo = {} /\ run.unanswered = {} /\ run.waiting = {}
  BY <1>1, PlanInv1 DEF Inv, Inv2, Inv1, TypeOK, Steps
<1>3. astray \subseteq astray'
  BY <1>1
<1>4. Heard' /\ Removed'
  BY <1>1, <1>3 DEF Inv, Heard, Removed, ToHear, Queued, Requested
<1>5. \A n \in Nodes : Lost(n) => Lost(n)'
  BY <1>1 DEF Lost, Watched, Posted
<1>6. Handled'
  <2> SUFFICES ASSUME NEW c \in Resources, Behind(c)' PROVE InHand(c)'
    BY DEF Handled
  <2>1. Behind(c) /\ InHand(c)
    BY <1>1 DEF Behind, Inv, Handled
  <2>2. ~InPass(c)
    BY <1>1, <1>2 DEF InPass, Remaining, Refreshing
  <2>3. Requested(c, "post")' = Requested(c, "post")
    BY <1>1 DEF Requested
  <2>4. Owed(c) <=> Covers(owed, c) \/ Covers(pending, c) \/ Covers(retry, c)
    BY <1>2, OwedIs
  <2>5. Owed(c)' <=> Covers(owed', c) \/ Covers(pending', c) \/ Covers(retry', c)
    BY <1>2, OwedNext
  <2>6. CASE run'.pc = "list"
    BY <2>6 DEF InHand, InPass, Refreshing
  <2>7. CASE /\ ~owed.all /\ retry' = Add(retry, Refused(Orphans(owed, cache)))
             /\ astray' = astray \cup Severed(owed.nodes)
             /\ \/ Want(owed, cache) = {} /\ run'.pc = "idle"
                \/ run'.pc = "send" /\ run'.work = owed /\ run'.todo = Want(owed, cache)
    <3>1. Refused(Orphans(owed, cache)) \in Work
      BY <1>2, WantIsKnown, WorkFacts
    <3>2. Covers(retry', c) <=> Covers(retry, c) \/ Covers(Refused(Orphans(owed, cache)), c)
      BY <1>2, <2>7, <3>1, CoversAdd
    <3>3. CASE Covers(owed, c)
      <4>1. c \in Want(owed, cache) => InPass(c)'
        BY <2>7, <3>3 DEF InPass, Remaining
      <4>2. c \in Orphans(owed, cache) => Covers(retry', c)
        BY <1>2, <3>2, WantIsKnown, CoversOf
      <4>3. CASE Chain[c] \cap owed.nodes # {}
        <5>1. CASE Chain[c] \subseteq Known(cache)
          <6>1. c \in Want(owed, cache)
            BY <1>2, <4>3, <5>1, WantIsKnown
          <6> QED BY <4>1, <6>1 DEF InHand
        <5>2. CASE ~(Chain[c] \subseteq Known(cache))
          BY <2>1, <2>7, <4>3, <5>2 DEF InHand, Severed, Behind
        <5> QED BY <5>1, <5>2
      <4>4. CASE c \in owed.refused
        <5>1. c \in owed.refused \cap Known(cache)
          BY <2>1, <4>4 DEF Behind, Known
        <5>2. c \in Want(owed, cache) \/ c \in Orphans(owed, cache)
          BY <1>2, <5>1, WantIsKnown
        <5> QED BY <2>5, <4>1, <4>2, <5>2 DEF InHand
      <4> QED BY <2>7, <3>3, <4>3, <4>4 DEF Covers
    <3>4. CASE ~Covers(owed, c)
      BY <1>1, <1>3, <1>5, <2>1, <2>2, <2>3, <2>4, <2>5, <3>2, <3>4 DEF InHand, Unnoticed
    <3> QED BY <3>3, <3>4
  <2> QED BY <1>1, <2>6, <2>7
<1> QED BY <1>4, <1>6

(* Until the snapshot is taken the pass has everything in hand: only what  *)
(* the cache is told matters.                                              *)
LEMMA RefreshInv ==
  ASSUME Inv, Refresh \/ Install \/ RefreshFails \/ Snapshot
  PROVE  Heard' /\ Removed' /\ Handled'
<1>1. CASE Refresh
  <2>1. Heard' /\ Removed'
    BY <1>1, RefreshIs DEF Inv, Inv2, Heard, Removed, ToHear, Queued, Requested
  <2>2. Handled'
    BY <1>1, RefreshIs DEF Inv, Inv2, Handled, InHand, InPass
  <2> QED BY <2>1, <2>2
<1>2. CASE Install \/ RefreshFails
  <2>1. Handled'
    BY <1>2, RefreshedIs DEF Inv, Inv2, Handled, InHand, InPass
  <2>2. /\ UNCHANGED <<source, stream, listening, watch, target>>
        /\ \/ cache' = run.docs /\ astray' = astray \cup Misread(run.docs)
           \/ UNCHANGED <<cache, astray>>
    BY <1>2, RefreshedIs DEF Inv, Inv2
  <2>3. CASE UNCHANGED <<cache, astray>>
    BY <2>1, <2>2, <2>3 DEF Inv, Heard, Removed, ToHear, Queued, Requested
  <2>4. CASE cache' = run.docs /\ astray' = astray \cup Misread(run.docs)
    <3>1. Heard'
      <4> SUFFICES ASSUME NEW c \in Resources, run.docs[c] # source[c], c \notin Misread(run.docs)
                   PROVE  ToHear(c)'
        BY <2>2, <2>4 DEF Heard
      <4> QED BY <2>2 DEF Misread, ToHear, Queued
    <3>2. Removed'
      <4> SUFFICES ASSUME NEW c \in Resources, run.docs[c] = None, c \notin Misread(run.docs),
                          target[c] # None
                   PROVE  c \in astray \/ Requested(c, "delete")'
        BY <2>2, <2>4 DEF Removed
      <4>1. cache[c] = None
        BY DEF Misread
      <4> QED BY <2>2, <4>1 DEF Inv, Removed, Requested
    <3> QED BY <2>1, <3>1, <3>2
  <2> QED BY <2>2, <2>3, <2>4
<1>3. CASE Snapshot
  <2>1. Heard' /\ Removed'
    BY <1>3, SnapshotIs DEF Inv, Inv2, Heard, Removed, ToHear, Queued, Requested
  <2>2. Handled'
    <3> SUFFICES ASSUME NEW c \in Resources, Behind(c)' PROVE InHand(c)'
      BY DEF Handled
    <3>1. c \in Known(cache)
      BY <1>3, SnapshotIs DEF Inv, Inv2, Behind, Known
    <3> QED BY <1>3, <3>1, SnapshotIs DEF Inv, Inv2, InHand, InPass, Remaining, Covers
  <2> QED BY <2>1, <2>2
<1> QED BY <1>1, <1>2, <1>3

LEMMA PassStepInv ==
  ASSUME Inv, PassStep
  PROVE  Heard' /\ Removed' /\ Handled'
<1>0. run.todo # {} /\ run.todo \subseteq Resources /\ run.pc = "send" /\ TypeOK
  BY DEF PassStep, Inv, Inv2, Inv1, TypeOK, Runs
<1> PICK r \in Resources : r = Current
  BY <1>0, DoneIs
<1>1. /\ run'.work = run.work /\ run'.unanswered = run.unanswered
      /\ UNCHANGED <<source, stream, listening, cache, targetNodes, watch, owed, pending, retry, target>>
      /\ \/ /\ run'.pc = "post" /\ run'.todo = run.todo /\ run'.waiting = run.waiting /\ UNCHANGED astray
         \/ /\ run'.pc = "send" /\ run'.todo = run.todo \ {r}
            /\ \/ cache[r] = None /\ run'.waiting = run.waiting /\ UNCHANGED astray
               \/ /\ astray' = astray \cup (IF Unnoticed(r) THEN {} ELSE {r})
                  /\ run'.waiting = run.waiting
               \/ run'.waiting = run.waiting \cup {r} /\ UNCHANGED astray
  BY PassStepIs DEF Inv, Inv2
<1>2. astray \subseteq astray'
  BY <1>1
<1>3. Heard' /\ Removed'
  BY <1>1, <1>2 DEF Inv, Heard, Removed, ToHear, Queued, Requested
<1>4. \A n \in Nodes : Lost(n) => Lost(n)'
  BY <1>0, <1>1 DEF Lost, Watched, Posted
<1>5. \A c \in Resources : Unnoticed(c) => Unnoticed(c)'
  BY <1>4 DEF Unnoticed
<1>6. Handled'
  <2> SUFFICES ASSUME NEW c \in Resources, Behind(c)' PROVE InHand(c)'
    BY DEF Handled
  <2>1. Behind(c) /\ InHand(c)
    BY <1>1 DEF Behind, Inv, Handled
  <2>2. Owed(c)' = Owed(c) /\ Requested(c, "post")' = Requested(c, "post")
    BY <1>1 DEF Owed, Requested
  <2>3. InPass(c) => c \in run.waiting
                     \/ (Covers(run.work, c) /\ c \in run.todo \cup run.unanswered)
    BY <1>0 DEF InPass, Remaining, Refreshing
  <2>4. (c # r \/ run'.todo = run.todo) /\ InPass(c) => InPass(c)'
    BY <1>1, <2>3 DEF InPass, Remaining
  <2>5. CASE c = r /\ run'.todo = run.todo \ {r}
    <3>1. Unnoticed(c) => Unnoticed(c)'
      BY <1>5
    <3>2. r \in run'.waiting => InPass(c)'
      BY <2>5 DEF InPass
    <3>3. cache[c] # None
      BY <2>1 DEF Behind
    <3>4. CASE astray' = astray \cup (IF Unnoticed(r) THEN {} ELSE {r})
      BY <2>5, <3>1, <3>4 DEF InHand
    <3>5. CASE run'.waiting = run.waiting \cup {r}
      BY <3>2, <3>5 DEF InHand
    <3>6. CASE run'.todo = run.todo /\ UNCHANGED astray
      BY <1>5, <2>1, <2>2, <2>4, <3>6 DEF InHand
    <3> QED BY <1>1, <2>5, <3>3, <3>4, <3>5, <3>6
  <2>6. CASE c # r \/ run'.todo = run.todo
    BY <1>2, <1>5, <2>1, <2>2, <2>4, <2>6 DEF InHand
  <2> QED BY <1>1, <2>5, <2>6
<1> QED BY <1>3, <1>6

LEMMA PassPostInv ==
  ASSUME Inv, PassPost
  PROVE  Heard' /\ Removed' /\ Handled'
<1>0. Current \in Resources /\ run.docs[Current] \in Docs
  BY PassPostIs DEF Inv, Inv2
<1> PICK r \in Resources, doc \in Docs : r = Current /\ doc = run.docs[Current]
  BY <1>0
<1>1. /\ run.pc = "post" /\ run'.work = run.work /\ run'.waiting = run.waiting
      /\ UNCHANGED <<source, stream, listening, cache, targetNodes, watch, owed, pending, retry>>
      /\ \/ /\ target' = Put(r, doc) /\ astray' = AfterPost(r, doc)
            /\ run'.pc = "posted" /\ run'.todo = run.todo /\ run'.unanswered = run.unanswered
         \/ /\ run'.pc = "send" /\ run'.todo = run.todo \ {r} /\ UNCHANGED target
            /\ \/ astray' = astray \cup (IF Unnoticed(r) THEN {} ELSE {r})
               \/ astray' = astray \cup {r}
            /\ run'.unanswered = run.unanswered
         \/ /\ run'.pc = "send" /\ run'.todo = run.todo \ {r}
            /\ run'.unanswered = run.unanswered \cup {r}
            /\ \/ UNCHANGED <<target, astray>>
               \/ target' = Put(r, doc) /\ astray' = AfterPost(r, doc)
  BY PassPostIs DEF Inv, Inv2, PassPost
<1>2. TypeOK
  BY DEF Inv, Inv2, Inv1
<1>3. \A n \in Nodes : Posted(n) => Posted(n)'
  BY <1>1 DEF Posted
<1>4. ASSUME target' = Put(r, doc), astray' = AfterPost(r, doc)
      PROVE  /\ \A c \in Resources : cache[c] # source[c] /\ c \in astray => c \in astray'
             /\ \A c \in Resources \ {r} :
                  /\ target'[c] = target[c] /\ (c \in astray => c \in astray')
                  /\ Behind(c) /\ Unnoticed(c) => Unnoticed(c)' \/ c \in astray'
             /\ cache[r] = None => r \in astray'
             /\ Behind(r)' => r \in astray'
  BY <1>1, <1>2, <1>3, <1>4, PutIs
<1>5. CASE target' = Put(r, doc) /\ astray' = AfterPost(r, doc)
  <2>1. Heard'
    BY <1>1, <1>4, <1>5 DEF Inv, Heard, ToHear, Queued
  <2>2. Removed'
    BY <1>1, <1>4, <1>5 DEF Inv, Removed, Requested
  <2>3. Handled'
    <3> SUFFICES ASSUME NEW c \in Resources, Behind(c)' PROVE InHand(c)'
      BY DEF Handled
    <3>1. CASE c = r
      BY <1>4, <1>5, <3>1 DEF InHand
    <3>2. CASE c # r
      <4>1. Behind(c) /\ InHand(c)
        BY <1>1, <1>4, <1>5, <3>2 DEF Behind, Inv, Handled
      <4>2. Owed(c)' = Owed(c) /\ Requested(c, "post")' = Requested(c, "post")
        BY <1>1 DEF Owed, Requested
      <4>3. InPass(c) => c \in run.waiting \/ (Covers(run.work, c) /\ c \in run.todo \cup run.unanswered)
        BY <1>1 DEF InPass, Remaining, Refreshing
      <4>4. run'.pc = "posted" => Current' = r
        BY <1>1 DEF Current
      <4>5. InPass(c) => InPass(c)'
        BY <1>1, <3>2, <4>3, <4>4 DEF InPass, Remaining
      <4> QED BY <1>4, <1>5, <3>2, <4>1, <4>2, <4>5 DEF InHand
    <3> QED BY <3>1, <3>2
  <2> QED BY <2>1, <2>2, <2>3
<1>6. CASE /\ run'.pc = "send" /\ run'.todo = run.todo \ {r} /\ UNCHANGED target
           /\ \/ /\ \/ astray' = astray \cup (IF Unnoticed(r) THEN {} ELSE {r})
                    \/ astray' = astray \cup {r}
                 /\ run'.unanswered = run.unanswered
              \/ UNCHANGED astray /\ run'.unanswered = run.unanswered \cup {r}
  <2>1. astray \subseteq astray'
    BY <1>6
  <2>2. Heard' /\ Removed'
    BY <1>1, <1>6, <2>1 DEF Inv, Heard, Removed, ToHear, Queued, Requested
  <2>3. \A n \in Nodes : Lost(n) => Lost(n)'
    BY <1>1, <1>3, <1>6 DEF Lost, Watched
  <2>4. Handled'
    <3> SUFFICES ASSUME NEW c \in Resources, Behind(c)' PROVE InHand(c)'
      BY DEF Handled
    <3>1. Behind(c) /\ InHand(c)
      BY <1>1, <1>6 DEF Behind, Inv, Handled
    <3>2. Owed(c)' = Owed(c) /\ Requested(c, "post")' = Requested(c, "post")
      BY <1>1 DEF Owed, Requested
    <3>3. InPass(c) => c \in run.waiting \/ (Covers(run.work, c) /\ c \in run.todo \cup run.unanswered)
      BY <1>1 DEF InPass, Remaining, Refreshing
    <3>4. Unnoticed(c) => Unnoticed(c)'
      BY <2>3 DEF Unnoticed
    <3>5. (c # r \/ r \in run'.unanswered) => (InPass(c) => InPass(c)')
      BY <1>1, <1>6, <3>3 DEF InPass, Remaining
    <3>6. c = r /\ r \notin run'.unanswered => c \in astray' \/ Unnoticed(c)'
      BY <1>6, <3>4
    <3> QED BY <1>6, <2>1, <3>1, <3>2, <3>4, <3>5, <3>6 DEF InHand
  <2> QED BY <2>2, <2>4
<1> QED BY <1>1, <1>5, <1>6

LEMMA PassPostedInv ==
  ASSUME Inv, PassPosted
  PROVE  Heard' /\ Removed' /\ Handled'
<1>0. run.todo # {} /\ run \in Runs /\ TypeOK /\ run.pc = "posted"
  BY DEF PassPosted, Inv, Inv2, Inv1, TypeOK, Steps
<1> PICK r \in Resources : r = Current
  BY <1>0, DoneIs
<1>1. /\ UNCHANGED <<source, stream, listening, cache, watch, owed, pending, retry, target, astray>>
      /\ targetNodes' = targetNodes \cup ({r} \cap Nodes)
      /\ run' = Done("send")
  BY DEF PassPosted, NoteLanded, env, work
<1>2. /\ run'.pc = "send" /\ run'.todo = run.todo \ {r} /\ run'.work = run.work
      /\ run'.unanswered = run.unanswered /\ run'.waiting = run.waiting
  <2>1. run' = [run EXCEPT !.pc = "send", !.todo = run.todo \ {r}]
    BY <1>0, <1>1, DoneIs
  <2> QED BY <1>0, <2>1 DEF Runs
<1>3. Heard' /\ Removed'
  BY <1>1 DEF Inv, Heard, Removed, ToHear, Queued, Requested
<1>4. \A n \in Nodes : Lost(n) => Lost(n)'
  <2> SUFFICES ASSUME NEW n \in Nodes, Watched(n) PROVE Watched(n)'
    BY <1>1 DEF Lost
  <2>1. CASE n \in targetNodes
    BY <1>1, <2>1 DEF Watched
  <2>2. CASE n = r
    BY <1>1, <2>2 DEF Watched
  <2>3. CASE \E t \in Topics : watch[t].pc = "posted" /\ watch[t].res = n
    BY <1>1, <2>3 DEF Watched, Posted
  <2> QED BY <2>1, <2>2, <2>3 DEF Watched, Posted
<1>5. Handled'
  <2> SUFFICES ASSUME NEW c \in Resources, Behind(c)' PROVE InHand(c)'
    BY DEF Handled
  <2>1. InHand(c)
    BY <1>1 DEF Behind, Inv, Handled
  <2>2. Owed(c)' = Owed(c) /\ Requested(c, "post")' = Requested(c, "post")
    BY <1>1 DEF Owed, Requested
  <2>3. InPass(c) => InPass(c)'
    BY <1>0, <1>2 DEF InPass, Remaining, Refreshing
  <2> QED BY <1>1, <1>4, <2>1, <2>2, <2>3 DEF InHand, Unnoticed
<1> QED BY <1>3, <1>5

LEMMA PassEndsInv ==
  ASSUME Inv, PassEnds
  PROVE  Heard' /\ Removed' /\ Handled'
<1>1. /\ run' = Rest /\ run'.pc = "idle" /\ run.pc = "send" /\ (run.todo = {} \/ GivenUp)
      /\ retry' = Add(retry, Unanswered) /\ pending' = Add(pending, Refused(run.waiting))
      /\ UNCHANGED <<source, stream, listening, cache, targetNodes, watch, owed, target, astray>>
  BY PassEndsIs DEF Inv, Inv2
<1>2. /\ TypeOK /\ TypeOK' /\ owed \in Work /\ pending \in Work /\ retry \in Work
      /\ run.work \in Work /\ run.unanswered \in SUBSET Resources /\ run.waiting \in SUBSET Resources
  BY PassDoneInv1 DEF Inv, Inv2, Inv1, TypeOK, Runs
<1>3. Refused(run.waiting) \in Work /\ Unanswered \in Work
  BY <1>2, WorkFacts DEF Unanswered
<1>4. Heard' /\ Removed'
  BY <1>1 DEF Inv, Heard, Removed, ToHear, Queued, Requested
<1>5. \A n \in Nodes : Lost(n) => Lost(n)'
  BY <1>1 DEF Lost, Watched, Posted
<1>6. Handled'
  <2> SUFFICES ASSUME NEW c \in Resources, Behind(c)' PROVE InHand(c)'
    BY DEF Handled
  <2>1. InHand(c)
    BY <1>1 DEF Behind, Inv, Handled
  <2>2. Owed(c) <=> Covers(owed, c) \/ Covers(pending, c) \/ Covers(retry, c)
    BY <1>2, OwedIs
  <2>3. Owed(c)' <=> Covers(owed, c) \/ Covers(pending', c) \/ Covers(retry', c)
    BY <1>1, <1>2, OwedNext
  <2>4. /\ Covers(pending', c) <=> Covers(pending, c) \/ Covers(Refused(run.waiting), c)
        /\ Covers(retry', c) <=> Covers(retry, c) \/ Covers(Unanswered, c)
    BY <1>1, <1>2, <1>3, CoversAdd
  <2>5. InPass(c) => Owed(c)'
    <3>1. CASE c \in run.waiting
      BY <1>2, <2>3, <2>4, <3>1, CoversOf
    <3>2. CASE Covers(run.work, c) /\ c \in run.todo \cup run.unanswered
      <4>1. CASE GivenUp
        BY <2>3, <2>4, <3>2, <4>1 DEF Unanswered
      <4>2. CASE ~GivenUp
        <5>1. c \in run.unanswered /\ Unanswered = Refused(run.unanswered)
          BY <1>1, <3>2, <4>2 DEF Unanswered
        <5> QED BY <1>2, <2>3, <2>4, <5>1, CoversOf
      <4> QED BY <4>1, <4>2
    <3> QED BY <1>1, <3>1, <3>2 DEF InPass, Remaining, Refreshing
  <2>6. Requested(c, "post")' = Requested(c, "post")
    BY <1>1 DEF Requested
  <2> QED BY <1>1, <1>5, <2>1, <2>2, <2>3, <2>4, <2>5, <2>6 DEF InHand, Unnoticed
<1> QED BY <1>4, <1>6

-----------------------------------------------------------------------------
LEMMA NextInv ==
  ASSUME Inv, [Next]_vars
  PROVE  Inv'
<1>1. ASSUME NEW r \in Resources, Register(r) \/ Unregister(r) PROVE Inv'
  BY <1>1, RegisterInv1, RegisterRows, RegisterInv DEF Inv, Inv2
<1>2. ASSUME NEW t \in Topics, Subscribe(t) \/ LoseSocket(t) PROVE Inv'
  BY <1>2, SubscribeInv1, SubscribeRows, SubscribeInv DEF Inv, Inv2
<1>3. ASSUME NEW t \in Topics, ForwardRow(t) PROVE Inv'
  BY <1>3, ForwardInv1, ForwardRows, ForwardInv DEF Inv, Inv2
<1>4. ASSUME NEW t \in Topics, LivePost(t) PROVE Inv'
  <2>1. UNCHANGED <<source, stream, listening, changes, cache, run>>
    BY <1>4 DEF LivePost, env, mirror
  <2> QED BY <1>4, <2>1, LivePostInv1, OtherRows, LivePostInv DEF Inv, Inv2
<1>5. ASSUME NEW t \in Topics, LivePosted(t) PROVE Inv'
  <2>1. UNCHANGED <<source, stream, listening, changes, cache, run>>
    BY <1>5 DEF LivePosted, NoteLanded, env
  <2> QED BY <1>5, <2>1, LiveDoneInv1, OtherRows, LivePostedInv DEF Inv, Inv2
<1>6. ASSUME NEW t \in Topics, LiveDelete(t) PROVE Inv'
  <2>1. UNCHANGED <<source, stream, listening, changes, cache, run>>
    BY <1>6 DEF LiveDelete, env, mirror
  <2> QED BY <1>6, <2>1, LiveDeleteInv1, OtherRows, LiveDeleteInv DEF Inv, Inv2
<1>7. ASSUME NEW t \in Topics, LiveDeleted(t) PROVE Inv'
  <2>1. UNCHANGED <<source, stream, listening, changes, cache, run>>
    BY <1>7 DEF LiveDeleted, env
  <2> QED BY <1>7, <2>1, LiveDoneInv1, OtherRows, LiveDeletedInv DEF Inv, Inv2
<1>8. CASE RepairDue \/ RetryDue \/ Probe \/ \E n \in Nodes : Heartbeat(n)
  <2>1. UNCHANGED <<source, stream, listening, changes, cache, run>>
    BY <1>8 DEF RepairDue, RetryDue, Probe, Heartbeat, env, mirror
  <2> QED BY <1>8, <2>1, TimersInv1, OtherRows, TimersInv DEF Inv, Inv2
<1>9. ASSUME NEW n \in Nodes, Evict(n) PROVE Inv'
  <2>1. UNCHANGED <<source, stream, listening, changes, cache, run>>
    BY <1>9 DEF Evict, env, mirror
  <2> QED BY <1>9, <2>1, TimersInv1, OtherRows, EvictInv DEF Inv, Inv2
<1>10. CASE Pass \/ RefreshFails
  <2>1. UNCHANGED <<source, stream, listening, changes>>
    BY <1>10 DEF Pass, Plan, Refresh, Install, Snapshot, RefreshFails, PassStep, PassPost,
                 PassPosted, PassEnds, env
  <2>2. LastRows' /\ Dated'
    BY <1>10, <2>1, OtherRows DEF Inv
  <2>3. CASE Plan
    BY <2>2, <2>3, PlanInv1, PlanInv DEF Inv, Inv2
  <2>4. CASE Refresh \/ Install
    BY <2>2, <2>4, RefreshInv1, RefreshInv DEF Inv, Inv2
  <2>5. CASE RefreshFails \/ Snapshot
    BY <2>2, <2>5, RefreshInv1, RefreshInv DEF Inv, Inv2
  <2>6. CASE PassStep
    BY <2>2, <2>6, PassStepInv1, PassStepInv DEF Inv, Inv2
  <2>7. CASE PassPost
    BY <2>2, <2>7, PassPostInv1, PassPostInv DEF Inv, Inv2
  <2>8. CASE PassPosted
    BY <2>2, <2>8, PassDoneInv1, PassPostedInv DEF Inv, Inv2
  <2>9. CASE PassEnds
    BY <2>2, <2>9, PassDoneInv1, PassEndsInv DEF Inv, Inv2
  <2> QED BY <1>10, <2>3, <2>4, <2>5, <2>6, <2>7, <2>8, <2>9 DEF Pass
<1>11. CASE UNCHANGED vars
  <2>1. UNCHANGED <<source, stream, filled, listening, changes, cache, landed, targetNodes, watch, run,
                    owed, pending, retry, orphanTries, target, troubles, astray>>
    BY <1>11 DEF vars, env, mirror, work
  <2>2. Inv1'
    BY <2>1 DEF Inv, Inv2, Inv1, TypeOK, Steps, Known
  <2>3. LastRows' /\ Dated'
    BY <2>1, OtherRows DEF Inv
  <2>4. Heard' /\ Removed'
    BY <2>1 DEF Inv, Heard, Removed, ToHear, Queued, Requested
  <2>5. Handled'
    <3> SUFFICES ASSUME NEW c \in Resources, Behind(c)' PROVE InHand(c)'
      BY DEF Handled
    <3>1. InHand(c)
      BY <2>1 DEF Behind, Inv, Handled
    <3>2. InPass(c)' = InPass(c) /\ Owed(c)' = Owed(c) /\ Requested(c, "post")' = Requested(c, "post")
      BY <2>1, PassSame DEF Owed, Requested
    <3>3. \A n \in Nodes : Lost(n)' = Lost(n)
      BY <2>1, PostedSame DEF Lost, Watched
    <3> QED BY <2>1, <3>1, <3>2, <3>3 DEF InHand, Unnoticed
  <2> QED BY <2>2, <2>3, <2>4, <2>5 DEF Inv, Inv2
<1> QED BY <1>1, <1>2, <1>3, <1>4, <1>5, <1>6, <1>7, <1>8, <1>9, <1>10, <1>11 DEF Next, Watch

LEMMA Invariant == Spec => []Inv
<1>1. Init => Inv
  BY InitInv
<1>2. Inv /\ [Next]_vars => Inv'
  BY NextInv
<1> QED BY <1>1, <1>2, PTL DEF Spec

(* Every variable keeps its type.                                          *)
THEOREM TypeCorrect == Spec => []TypeOK
<1>1. Inv => TypeOK
  BY DEF Inv, Inv2, Inv1
<1> QED BY <1>1, Invariant, PTL

(* However many resources, collections, changes and troubles: wherever the *)
(* target differs from the source, the resource is astray, or a row, a     *)
(* request, a piece of work, the pass or a heartbeat will deal with it.    *)
THEOREM NothingIsForgotten == Spec => []NothingForgotten
BY InvImplies, Invariant, PTL

(* When the mirror has nothing in hand -- every collection is subscribed,  *)
(* no row is on its way, no watcher and no pass is at work, no work is     *)
(* owed and no heartbeat will find a node gone -- it has not come to rest  *)
(* short of its aim: the target holds what the source holds, except where  *)
(* it is astray.  What remains of KeepsLevel is that it does come to rest. *)
AtRest ==
  /\ listening = Topics /\ run = Rest
  /\ \A t \in Topics : stream[t] = <<>> /\ watch[t].pc = "idle"
  /\ owed = Nothing /\ pending = Nothing /\ retry = Nothing
  /\ \A n \in Nodes : ~Lost(n)

THEOREM RestsLevel ==
  Spec => [](AtRest => \A r \in Resources \ astray : target[r] = source[r])
<1>1. ASSUME NothingForgotten, AtRest, NEW r \in Resources \ astray
      PROVE  target[r] = source[r]
  <2>1. Topic[r] \in Topics
    BY DEF Topics
  <2>2. ~ToHear(r) /\ ~Sent(r)
    BY <1>1, <2>1 DEF AtRest, ToHear, Queued, Sent
  <2>3. ~Owed(r)
    BY <1>1 DEF AtRest, Owed, Covers, Add, Nothing
  <2>4. ~Passing(r)
    BY <1>1 DEF AtRest, Passing, Rest, Refreshing
  <2>5. ~Unnoticed(r)
    BY <1>1 DEF AtRest, Unnoticed
  <2> QED BY <1>1, <2>2, <2>3, <2>4, <2>5 DEF NothingForgotten
<1>2. NothingForgotten =>
        (AtRest => \A r \in Resources \ astray : target[r] = source[r])
  BY <1>1
<1> QED BY <1>2, NothingIsForgotten, PTL
=============================================================================
