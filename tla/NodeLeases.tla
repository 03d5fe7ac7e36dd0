---------------------------- MODULE NodeLeases ----------------------------
(***************************************************************************)
(* What a registry of nodes promises, whatever its locks and handlers: a   *)
(* node is a member on a lease that only heartbeats renew; every other     *)
(* resource hangs off members; a node that leaves, or whose lease lapses,  *)
(* takes with it what hangs below it, and that alone.                      *)
(***************************************************************************)
EXTENDS Naturals

CONSTANTS
  Nodes, Others,  \* resources, by kind
  Deletable,      \* the resources that may be asked to leave
  Term,           \* the ticks a lease lasts
  Nil             \* no lease

Ids == Nodes \cup Others

VARIABLES
  members,  \* the resources registered
  hangs,    \* what each of them hangs off
  age       \* of the lease of each node

Init ==
  /\ members = {}
  /\ hangs = [i \in Ids |-> {}]
  /\ age = [n \in Nodes |-> Nil]

(* A resource enters, or moves, all at once.  To register is to take a     *)
(* lease, to register again is not to renew it.                            *)
Enter(i, parents) ==
  /\ members' = members \cup {i}
  /\ hangs' = [hangs EXCEPT ![i] = parents]
  /\ age' = IF i \in Nodes \ members THEN [age EXCEPT ![i] = 0] ELSE age

NodeEnters == \E n \in Nodes : Enter(n, {})
OtherEnters ==
  \E i \in Others, parents \in (SUBSET members) \ {{}} : Enter(i, parents)

Renew(n) ==
  /\ n \in members
  /\ age' = [age EXCEPT ![n] = 0]
  /\ UNCHANGED <<members, hangs>>

Tick ==
  /\ age' = [n \in Nodes |-> IF age[n] \in 0 .. Term THEN age[n] + 1 ELSE age[n]]
  /\ UNCHANGED <<members, hangs>>

Remove(gone) ==
  /\ members' = members \ gone
  /\ hangs' = [i \in Ids |-> IF i \in gone THEN {} ELSE hangs[i]]
  /\ age' = [n \in Nodes |-> IF n \in gone THEN Nil ELSE age[n]]

(* Nodes leave with all that hangs below them, and with nothing else.      *)
Fall(nodes) ==
  \E gone \in SUBSET members :
    /\ \A i \in members : i \in gone <=> i \in nodes \/ hangs[i] \cap gone # {}
    /\ Remove(gone)

Leave(n) == n \in members \cap Deletable /\ Fall({n})
Drop(i) == i \in members \cap Deletable /\ Remove({i})

Lapsed == {n \in Nodes \cap members : age[n] = Term + 1}
Expire == Lapsed # {} /\ Fall(Lapsed)

Next ==
  \/ NodeEnters \/ OtherEnters
  \/ \E n \in Nodes : Renew(n) \/ Leave(n)
  \/ \E i \in Others : Drop(i)
  \/ Tick \/ Expire

Spec == Init /\ [][Next]_<<members, hangs, age>>
===========================================================================
