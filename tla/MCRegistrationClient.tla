----------------------- MODULE MCRegistrationClient -----------------------
(* RegistrationClient with a node and one receiver, and two registries of  *)
(* which the first is advertised under two names.                          *)
EXTENDS RegistrationClient

CONSTANTS node, receiver, one, two

MCOrder == <<node, receiver>>
MCServer == [n \in Names |-> IF n = 2 THEN two ELSE one]
===========================================================================
