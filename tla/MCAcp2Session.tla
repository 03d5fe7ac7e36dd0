-------------------------- MODULE MCAcp2Session --------------------------
(* Acp2Session with a pool of the lowest ids; values in the .cfg files.   *)
EXTENDS Acp2Session
==========================================================================
