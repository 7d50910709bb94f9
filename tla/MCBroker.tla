------------------------------ MODULE MCBroker ------------------------------
(***************************************************************************)
(* Small instances of the broker.  The processes of one kind, the windows  *)
(* and the source ids are interchangeable.                                 *)
(***************************************************************************)
EXTENDS Broker, TLC

Symmetry == Permutations(Windows) \cup Permutations(TerminalHosts)
            \cup Permutations(Nonces \ TerminalHosts)
            \cup Permutations(SourceIds)
=============================================================================
