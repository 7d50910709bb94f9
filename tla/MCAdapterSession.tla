--------------------------- MODULE MCAdapterSession ---------------------------
(* The instance of AdapterSession for TLC. *)
EXTENDS AdapterSession

CONSTANTS a, b

MCBytes == [i \in Images |-> IF i = b THEN 2 ELSE 1]
=============================================================================
