------------------------- MODULE MCRegistryPaging -------------------------
(* RegistryPaging with pages shorter than the collection.                  *)
EXTENDS RegistryPaging
===========================================================================
