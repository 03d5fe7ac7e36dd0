--------------------------- MODULE MCMtidPool ---------------------------
(* MtidPool with fewer ids than callers; the values are in the .cfg files. *)
EXTENDS MtidPool
=========================================================================
