------------------------- MODULE MCRegistryMirror --------------------------
(* RegistryMirror with a node and its device.                              *)
EXTENDS RegistryMirror

CONSTANTS node, device

MCOrder == <<node, device>>
MCTopic == [r \in {node, device} |-> IF r = node THEN 1 ELSE 2]
MCParents == [r \in {node, device} |-> IF r = node THEN {} ELSE {node}]
MCBounds == {<<3, 0>>, <<1, 1>>, <<0, 2>>}
===========================================================================
