--------------------------- MODULE MCAcp2Plugin ---------------------------
(* Acp2Plugin on a few keys and sessions; values in the .cfg files.       *)
EXTENDS Acp2Plugin
===========================================================================
