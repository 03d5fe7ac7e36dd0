----------------------------- MODULE MtidLoans -----------------------------
(***************************************************************************)
(* What a pool of message ids promises: an id is on loan to one call at a  *)
(* time and is free again when the call returns it, so that none is ever   *)
(* lost; tearing the session down cancels every loan at once.              *)
(***************************************************************************)
CONSTANTS Callers, Mtids, Nil

VARIABLES loan,  \* the id each caller holds
          free,  \* the ids that can be lent
          up     \* the session has not been torn down

Init == loan = [c \in Callers |-> Nil] /\ free = Mtids /\ up = TRUE

Lend(c) ==
  /\ up /\ loan[c] = Nil
  /\ \E m \in free : /\ loan' = [loan EXCEPT ![c] = m]
                      /\ free' = free \ {m}
  /\ UNCHANGED up

Return(c) ==
  /\ loan[c] # Nil
  /\ loan' = [loan EXCEPT ![c] = Nil]
  /\ free' = free \cup {loan[c]}
  /\ UNCHANGED up

Cancel ==
  /\ up /\ up' = FALSE
  /\ loan' = [c \in Callers |-> Nil]
  /\ free' = Mtids

Next == (\E c \in Callers : Lend(c) \/ Return(c)) \/ Cancel

Spec == Init /\ [][Next]_<<loan, free, up>>
============================================================================
