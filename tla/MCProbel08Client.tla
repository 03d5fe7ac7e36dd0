------------------------- MODULE MCProbel08Client -------------------------
(* Probel08Client on a few calls and frames; values in the .cfg files.    *)
EXTENDS Probel08Client
===========================================================================
