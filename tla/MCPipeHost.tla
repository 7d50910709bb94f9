------------------------------ MODULE MCPipeHost ------------------------------
(* The instance of PipeHost for TLC: a Windows Terminal and a conhost at a     *)
(* lower integrity level, which may stream but not control.                    *)
EXTENDS PipeHost, TLC

CONSTANTS terminal, conhost, user

\* What follows a command that went astray is not explored: the subscriptions
\* are out of step from there on, and nothing else depends on them.
InOrder == ~astray

\* The two adapters may be exchanged too: the pipe of the adapters lets lower
\* levels in, and nothing else of an adapter looks at its level.
Pipes == Permutations(Conns) \cup Permutations(Procs)
MCUser == [client \in Procs \cup Ctls |-> "me"]
MCIntegrity == (terminal :> 2) @@ (conhost :> 1) @@ (user :> 2)
=============================================================================
