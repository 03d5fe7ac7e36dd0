------------------------- MODULE MCRegistryStore -------------------------
(* RegistryStore on small catalogues: the references are free, the rest of *)
(* a body is drawn from the sets below.                                    *)
EXTENDS RegistryStore, TLC

CONSTANTS Vals, Extras, BodyForms, V1Flows

Body(ups, srcs) ==
  [up : ups, src : srcs, val : Vals, extra : Extras, form : BodyForms]

MCBodies ==
  [i \in Ids |->
     CASE i \in Nodes   -> Body({Absent}, {Absent})
       [] i \in Devices -> Body(Nodes, {Absent})
       [] i \in Flows   ->
            Body(IF V1Flows THEN Devices \cup {Absent} ELSE Devices, Sources)
       [] OTHER         -> Body(Devices, {Absent})]

NodesAndDevices == Permutations(Nodes) \cup Permutations(Devices)
Requests == Permutations(Handlers) \cup Permutations(Clients)
              \cup Permutations(Vals) \cup Permutations(Extras)
===========================================================================
