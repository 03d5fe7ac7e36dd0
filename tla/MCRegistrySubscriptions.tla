--------------------- MODULE MCRegistrySubscriptions ---------------------
(* RegistrySubscriptions with three writes and one upgrade, or with one    *)
(* write, two upgrades and a peer that stops reading.                      *)
EXTENDS RegistrySubscriptions

MCBounds == {<<3, 0, 1>>, <<1, 1, 2>>}
===========================================================================
