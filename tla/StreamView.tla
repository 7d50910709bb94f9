----------------------------- MODULE StreamView -----------------------------
(***************************************************************************)
(* What viewers of the stream are promised, whatever the broker's policy:  *)
(* at any time at most one terminal is the presenter; a terminal frame     *)
(* appears only while its terminal is the presenter, an accessibility      *)
(* frame only while the stream is live; and pausing revokes the presenter  *)
(* and freezes the view in one step.                                       *)
(***************************************************************************)
EXTENDS Naturals

CONSTANTS Keys, NoKey, Generations, Windows, Sequences

VARIABLES presenter, frozen, view

viewVars == <<presenter, frozen, view>>

TerminalView(k, g, seq) ==
    [source |-> [kind |-> "terminal", key |-> k, generation |-> g],
     sequence |-> seq]
CaptureView(w) ==
    [source |-> [kind |-> "accessibility", window |-> w], sequence |-> 0]
BlankView == [source |-> [kind |-> "none"], sequence |-> 0]

Init == presenter = NoKey /\ frozen = FALSE /\ view = BlankView

\* The presenter changes hands, or the stream is resumed with a presenter.
Elect == /\ presenter' \in Keys \cup {NoKey}
         /\ frozen' = FALSE
         /\ view' = view

Freeze == presenter' = NoKey /\ frozen' = TRUE /\ view' = view

Paint == /\ ~frozen /\ presenter # NoKey
         /\ \E g \in Generations, seq \in Sequences :
               view' = TerminalView(presenter, g, seq)
         /\ UNCHANGED <<presenter, frozen>>

Capture == /\ ~frozen
           /\ \E w \in Windows : view' = CaptureView(w)
           /\ UNCHANGED <<presenter, frozen>>

Next == Elect \/ Freeze \/ Paint \/ Capture

Spec == Init /\ [][Next]_viewVars
=============================================================================
