---------------------------- MODULE BrokerProofs ----------------------------
(***************************************************************************)
(* Proofs about module Broker, for every set of processes, sources and     *)
(* windows, every policy and every bound: the inductive invariant, and     *)
(* what follows from it, the safety invariants, the action properties,     *)
(* that the broker implements StreamView, and what its bookkeeping of      *)
(* full-viewport requests is for: the frame on display is the right one,   *)
(* or the one that will replace it has been asked for.                     *)
(***************************************************************************)
EXTENDS Broker, WellFoundedInduction, TLAPS

-----------------------------------------------------------------------------
(* The selection policy. *)

\* A nonempty set of naturals has a least element.
LEMMA LeastNatural ==
    ASSUME NEW T, T \subseteq Nat, T # {}
    PROVE  \E m \in T : \A n \in T : m =< n
<1>1. PICK m \in T : \A n \in T : ~(<<n, m>> \in OpToRel(<, Nat))
  BY WFMin, NatLessThanWellFounded
<1>2. \A n \in T : ~(n < m)
  BY <1>1 DEF OpToRel
<1>. QED
  BY <1>2

\* The most recently focused member of a nonempty set exists when the focus
\* stamps are bounded by the clock.
LEMMA MostRecentExists ==
    ASSUME NEW srcs, NEW K, K # {}, NEW clock \in Nat,
           \A k \in K : srcs[k].last_focus \in 0..clock
    PROVE  /\ MostRecent(srcs, K) \in K
           /\ \A j \in K :
                 srcs[j].last_focus =< srcs[MostRecent(srcs, K)].last_focus
<1> DEFINE T == {clock - srcs[k].last_focus : k \in K}
<1>1. T \subseteq Nat /\ T # {}
  OBVIOUS
<1>2. PICK m \in T : \A n \in T : m =< n
  BY <1>1, LeastNatural
<1>3. PICK k \in K : m = clock - srcs[k].last_focus
  OBVIOUS
<1>4. ASSUME NEW j \in K
      PROVE  srcs[j].last_focus =< srcs[k].last_focus
  <2>1. m =< clock - srcs[j].last_focus
    BY <1>2
  <2>. QED
    BY <2>1, <1>3
<1>5. k \in Latest(srcs, K)
  BY <1>4 DEF Latest
<1>6. MostRecent(srcs, K) \in Latest(srcs, K)
  BY <1>5 DEF MostRecent
<1>. QED
  BY <1>6 DEF Latest

\* A registry whose focus stamps are bounded by the clock.
Stamped(srcs, clock) ==
    /\ clock \in Nat
    /\ srcs \in [Keys -> Source \cup {Absent}]
    /\ \A k \in Registered(srcs) : srcs[k].last_focus =< clock

\* A registered source's focus stamp never runs ahead of the clock.
LEMMA StampsInRange ==
    ASSUME NEW srcs, NEW clock, Stamped(srcs, clock), NEW k \in Registered(srcs)
    PROVE  srcs[k].last_focus \in 0..clock
  BY DEF Stamped, Registered, Source

\* Pick returns a member of the set or nothing.
LEMMA PickType ==
    ASSUME NEW srcs, NEW clock, Stamped(srcs, clock),
           NEW K, K \subseteq Registered(srcs), NEW sel
    PROVE  Pick(srcs, K, sel) \in K \cup {NoKey}
<1>1. K # {} => MostRecent(srcs, K) \in K
  BY MostRecentExists, StampsInRange DEF Stamped
<1>. QED
  BY <1>1 DEF Pick

\* Asking again with the answer as the selection gives the same answer; no
\* answer stays no answer for a selection that is outside the set or has been
\* focused.
LEMMA PickStable ==
    ASSUME NEW srcs, NEW clock, Stamped(srcs, clock),
           NEW K, K \subseteq Registered(srcs), NEW sel
    PROVE  /\ Pick(srcs, K, sel) # NoKey =>
                Pick(srcs, K, Pick(srcs, K, sel)) = Pick(srcs, K, sel)
           /\ Pick(srcs, K, sel) = NoKey =>
                \A other : \/ other \notin K
                           \/ srcs[other].last_focus # 0
                           => Pick(srcs, K, other) = NoKey
<1>1. NoKey \notin K
  BY OptionAssumption DEF Registered
<1>2. K # {} => MostRecent(srcs, K) \in K
  BY MostRecentExists, StampsInRange DEF Stamped
<1>3. Ambiguous(srcs, K) => K # {}
  BY DEF Ambiguous
<1>4. CASE K = {}
  BY <1>4 DEF Pick
<1>5. CASE K # {} /\ ~Ambiguous(srcs, K)
  BY <1>1, <1>2, <1>5 DEF Pick
<1>6. CASE Ambiguous(srcs, K) /\ sel \in K
  BY <1>1, <1>3, <1>6 DEF Pick
<1>7. CASE Ambiguous(srcs, K) /\ sel \notin K
  BY <1>3, <1>7 DEF Pick, Ambiguous
<1>. QED
  BY <1>4, <1>5, <1>6, <1>7

\* What Pick newly picks was focused at some time or is the only member.
LEMMA PickUnambiguous ==
    ASSUME NEW srcs, NEW clock, Stamped(srcs, clock),
           NEW K, K \subseteq Registered(srcs), NEW sel,
           Pick(srcs, K, sel) \notin {sel, NoKey}
    PROVE  \/ srcs[Pick(srcs, K, sel)].last_focus # 0
           \/ K = {Pick(srcs, K, sel)}
<1> DEFINE m == MostRecent(srcs, K)
<1>1. ~Ambiguous(srcs, K) /\ K # {} /\ Pick(srcs, K, sel) = m
  BY DEF Pick
<1>2. m \in K /\ \A j \in K : srcs[j].last_focus =< srcs[m].last_focus
  BY <1>1, MostRecentExists, StampsInRange DEF Stamped
<1>3. \A j \in K : srcs[j].last_focus \in Nat
  BY StampsInRange DEF Stamped
<1> HIDE DEF m
<1>4. CASE \E j \in K : srcs[j].last_focus # 0
  <2>1. srcs[m].last_focus # 0
    BY <1>2, <1>3, <1>4
  <2>. QED
    BY <1>1, <2>1
<1>5. CASE ~\E j, k \in K : j # k
  BY <1>1, <1>2, <1>5
<1>. QED
  BY <1>1, <1>4, <1>5 DEF Ambiguous

\* The source chosen for the foreground window is visible.
LEMMA ForegroundChoiceType ==
    ASSUME NEW srcs, NEW clock, Stamped(srcs, clock), NEW hwnd, NEW sel
    PROVE  ForegroundChoice(srcs, hwnd, sel) \in Visible(srcs) \cup {NoKey}
<1>1. \A b : /\ Candidates(srcs, hwnd, b) \subseteq Registered(srcs)
             /\ Candidates(srcs, hwnd, b) \subseteq Visible(srcs)
  BY DEF Candidates, Visible
<1>. QED
  BY <1>1, PickType DEF ForegroundChoice

\* Electing again after an election gives the same answer, and where the
\* foreground elects nobody it elects nobody whoever is retained.
LEMMA ForegroundChoiceStable ==
    ASSUME NEW srcs, NEW clock, Stamped(srcs, clock), NEW hwnd, NEW sel
    PROVE  LET f == ForegroundChoice(srcs, hwnd, sel)
           IN  /\ f # NoKey => ForegroundChoice(srcs, hwnd, f) = f
               /\ f = NoKey =>
                    \A other \in Focusable(srcs) \cup {NoKey} :
                        ForegroundChoice(srcs, hwnd, other) = NoKey
<1> DEFINE H == Candidates(srcs, hwnd, TRUE)
           C == Candidates(srcs, hwnd, FALSE)
           host == Pick(srcs, H, sel)
           con  == Pick(srcs, C, sel)
           f == ForegroundChoice(srcs, hwnd, sel)
<1>1. /\ H \subseteq Registered(srcs) /\ C \subseteq Registered(srcs)
      /\ H \cap C = {}
      /\ NoKey \notin H /\ NoKey \notin C
  BY OptionAssumption DEF Candidates, Visible, Registered
<1>2. host \in H \cup {NoKey} /\ con \in C \cup {NoKey}
  BY <1>1, PickType
<1>3. f = IF host # NoKey THEN host ELSE con
  BY DEF ForegroundChoice
<1> HIDE DEF H, C
<1>4. CASE host # NoKey
  <2>1. Pick(srcs, H, host) = host
    BY <1>1, <1>4, PickStable
  <2>. QED
    BY <2>1, <1>3, <1>4 DEF ForegroundChoice, H
<1>5. CASE host = NoKey /\ con # NoKey
  <2>1. con \notin H
    BY <1>1, <1>2, <1>5
  <2>2. Pick(srcs, H, con) = NoKey
    BY <1>1, <1>5, <2>1, PickStable
  <2>3. Pick(srcs, C, con) = con
    BY <1>1, <1>5, PickStable
  <2>. QED
    BY <2>2, <2>3, <1>3, <1>5 DEF ForegroundChoice, H, C
<1>6. CASE host = NoKey /\ con = NoKey
  <2>1. SUFFICES ASSUME NEW other \in Focusable(srcs) \cup {NoKey}
                 PROVE  ForegroundChoice(srcs, hwnd, other) = NoKey
    BY <1>3, <1>6
  <2>2. other = NoKey \/ srcs[other].last_focus # 0
    BY DEF Focusable
  <2>3. Pick(srcs, H, other) = NoKey /\ Pick(srcs, C, other) = NoKey
    BY <1>1, <1>6, <2>2, PickStable
  <2>. QED
    BY <2>3 DEF ForegroundChoice, H, C
<1>. QED
  BY <1>4, <1>5, <1>6

\* A newly elected foreground source was focused at some time or is the only
\* visible one of its kind in its window.
LEMMA ForegroundUnambiguous ==
    ASSUME NEW srcs, NEW clock, Stamped(srcs, clock), NEW hwnd, NEW sel,
           NEW f, f = ForegroundChoice(srcs, hwnd, sel), f \notin {sel, NoKey}
    PROVE  \/ srcs[f].last_focus # 0
           \/ Candidates(srcs, srcs[f].owner_hwnd, IsTerminalHost(f)) = {f}
<1>1. PICK b \in BOOLEAN : f = Pick(srcs, Candidates(srcs, hwnd, b), sel)
  BY DEF ForegroundChoice
<1>2. Candidates(srcs, hwnd, b) \subseteq Registered(srcs)
  BY DEF Candidates, Visible
<1>3. SUFFICES ASSUME Candidates(srcs, hwnd, b) = {f}
               PROVE  Candidates(srcs, srcs[f].owner_hwnd, IsTerminalHost(f)) = {f}
  BY <1>1, <1>2, PickUnambiguous
<1>4. srcs[f].owner_hwnd = hwnd /\ IsTerminalHost(f) = b
  BY <1>3 DEF Candidates
<1>. QED
  BY <1>3, <1>4

\* The policy chooses a visible source or nothing.
LEMMA ChoiceType ==
    ASSUME NEW srcs, NEW clock, Stamped(srcs, clock),
           NEW hwnd, NEW pause, NEW sel
    PROVE  Choice(srcs, hwnd, pause, sel) \in Visible(srcs) \cup {NoKey}
<1>1. Focusable(srcs) \subseteq Registered(srcs)
  BY DEF Focusable, Visible
<1>2. Focusable(srcs) # {} => MostRecent(srcs, Focusable(srcs)) \in Visible(srcs)
  BY <1>1, MostRecentExists, StampsInRange DEF Stamped, Focusable
<1>3. Retained(srcs, sel) \in Visible(srcs) \cup {NoKey}
  BY <1>2 DEF Retained
<1>. QED
  BY <1>3, ForegroundChoiceType DEF Choice

\* The policy is a fixed point: applied to its own answer it gives it again.
LEMMA ChoiceStable ==
    ASSUME NEW srcs, NEW clock, Stamped(srcs, clock),
           NEW hwnd, NEW pause, NEW sel
    PROVE  Choice(srcs, hwnd, pause, Choice(srcs, hwnd, pause, sel))
             = Choice(srcs, hwnd, pause, sel)
<1> DEFINE f == ForegroundChoice(srcs, hwnd, sel)
           F == Focusable(srcs)
<1>0. /\ f # NoKey => ForegroundChoice(srcs, hwnd, f) = f
      /\ f = NoKey => \A other \in F \cup {NoKey} :
                         ForegroundChoice(srcs, hwnd, other) = NoKey
  BY ForegroundChoiceStable
<1> HIDE DEF F
<1>1. CASE pause
  BY <1>1 DEF Choice
<1>2. CASE ~pause /\ f # NoKey
  BY <1>0, <1>2 DEF Choice
<1>3. CASE ~pause /\ f = NoKey /\ ~KeepLastTerminal
  <2>1. Choice(srcs, hwnd, pause, sel) = NoKey
    BY <1>3 DEF Choice
  <2>2. ForegroundChoice(srcs, hwnd, NoKey) = NoKey
    BY <1>0, <1>3
  <2>3. Choice(srcs, hwnd, pause, NoKey) = NoKey
    BY <1>3, <2>2 DEF Choice
  <2>. QED
    BY <2>1, <2>3
<1>4. CASE ~pause /\ f = NoKey /\ KeepLastTerminal
  <2>1. Choice(srcs, hwnd, pause, sel) = Retained(srcs, sel)
    BY <1>4 DEF Choice
  <2>2. CASE sel \in Visible(srcs)
    BY <1>4, <2>1, <2>2 DEF Choice, Retained
  <2>3. CASE sel \notin Visible(srcs) /\ F # {}
    <3>1. Retained(srcs, sel) = MostRecent(srcs, F)
      BY <2>3 DEF Retained, F
    <3>2. F \subseteq Registered(srcs)
      BY DEF F, Focusable, Visible
    <3>3. MostRecent(srcs, F) \in F
      BY <2>3, <3>2, MostRecentExists, StampsInRange DEF Stamped
    <3>4. ForegroundChoice(srcs, hwnd, MostRecent(srcs, F)) = NoKey
      BY <1>0, <1>4, <3>3
    <3>5. Retained(srcs, MostRecent(srcs, F)) = MostRecent(srcs, F)
      BY <3>3 DEF F, Retained, Focusable
    <3>. QED
      BY <1>4, <2>1, <3>1, <3>4, <3>5 DEF Choice
  <2>4. CASE sel \notin Visible(srcs) /\ F = {}
    <3>1. Retained(srcs, sel) = NoKey /\ Retained(srcs, NoKey) = NoKey
      BY <2>4, OptionAssumption DEF F, Retained, Visible, Registered
    <3>2. ForegroundChoice(srcs, hwnd, NoKey) = NoKey
      BY <1>0, <1>4
    <3>3. Choice(srcs, hwnd, pause, NoKey) = NoKey
      BY <1>4, <3>1, <3>2 DEF Choice
    <3>. QED
      BY <2>1, <3>1, <3>3
  <2>. QED
    BY <2>2, <2>3, <2>4
<1>. QED
  BY <1>1, <1>2, <1>3, <1>4

\* Two registries the policy cannot tell apart.
SamePolicyData(srcs, new) ==
    /\ Registered(new) = Registered(srcs)
    /\ \A j \in Registered(srcs) :
          /\ new[j].owner_hwnd = srcs[j].owner_hwnd
          /\ new[j].visible = srcs[j].visible
          /\ new[j].last_focus = srcs[j].last_focus

\* The policy looks at owners, visibility and focus stamps, and at nothing
\* else of a source.
LEMMA PolicyData ==
    ASSUME NEW srcs, NEW new, SamePolicyData(srcs, new),
           NEW hwnd, NEW pause, NEW sel
    PROVE  /\ ForegroundChoice(new, hwnd, sel)
                 = ForegroundChoice(srcs, hwnd, sel)
           /\ Choice(new, hwnd, pause, sel) = Choice(srcs, hwnd, pause, sel)
<1>1. /\ Registered(new) = Registered(srcs)
      /\ \A j \in Registered(srcs) :
            /\ new[j].owner_hwnd = srcs[j].owner_hwnd
            /\ new[j].visible = srcs[j].visible
            /\ new[j].last_focus = srcs[j].last_focus
  BY DEF SamePolicyData
<1>2. Visible(new) = Visible(srcs)
  BY <1>1 DEF Visible
<1>3. \A b : Candidates(new, hwnd, b) = Candidates(srcs, hwnd, b)
  BY <1>1, <1>2 DEF Candidates, Visible
<1>4. Focusable(new) = Focusable(srcs)
  BY <1>1, <1>2 DEF Focusable, Visible
<1>5. ASSUME NEW K, K \subseteq Registered(srcs)
      PROVE  /\ MostRecent(new, K) = MostRecent(srcs, K)
             /\ Pick(new, K, sel) = Pick(srcs, K, sel)
  <2>1. Latest(new, K) = Latest(srcs, K)
    BY <1>1, <1>5 DEF Latest
  <2>2. Ambiguous(new, K) <=> Ambiguous(srcs, K)
    BY <1>1, <1>5 DEF Ambiguous
  <2>3. MostRecent(new, K) = MostRecent(srcs, K)
    BY <2>1 DEF MostRecent
  <2>. QED
    BY <2>2, <2>3 DEF Pick
<1>6. ForegroundChoice(new, hwnd, sel) = ForegroundChoice(srcs, hwnd, sel)
  <2>1. \A b : Candidates(srcs, hwnd, b) \subseteq Registered(srcs)
    BY DEF Candidates, Visible
  <2>. QED
    BY <1>3, <1>5, <2>1 DEF ForegroundChoice
<1>7. Retained(new, sel) = Retained(srcs, sel)
  <2>1. Focusable(srcs) \subseteq Registered(srcs)
    BY DEF Focusable, Visible
  <2>. QED
    BY <1>2, <1>4, <1>5, <2>1 DEF Retained
<1>. QED
  BY <1>6, <1>7 DEF Choice

\* A registry in which one source's frame sequence has advanced.
Framed(srcs, k, seq) == [srcs EXCEPT ![k].last_frame = seq]

\* The policy does not look at frame sequence numbers.
LEMMA PolicyIgnoresFrames ==
    ASSUME NEW srcs, srcs \in [Keys -> Source \cup {Absent}],
           NEW k \in Registered(srcs), NEW seq \in Nat,
           NEW new, new = Framed(srcs, k, seq),
           NEW hwnd, NEW pause, NEW sel
    PROVE  /\ new \in [Keys -> Source \cup {Absent}]
           /\ Registered(new) = Registered(srcs)
           /\ \A j \in Registered(srcs) :
                 /\ new[j].generation = srcs[j].generation
                 /\ new[j].last_focus = srcs[j].last_focus
                 /\ new[j].last_frame = IF j = k THEN seq
                                        ELSE srcs[j].last_frame
           /\ ForegroundChoice(new, hwnd, sel)
                 = ForegroundChoice(srcs, hwnd, sel)
           /\ Choice(new, hwnd, pause, sel) = Choice(srcs, hwnd, pause, sel)
<1>1. /\ k \in Keys /\ srcs[k] \in Source
      /\ new[k] = [srcs[k] EXCEPT !.last_frame = seq]
      /\ \A j \in Keys : j # k => new[j] = srcs[j]
      /\ new \in [Keys -> {new[j] : j \in Keys}]
  BY DEF Registered, Framed
<1>2. new[k] \in Source
  BY <1>1 DEF Source
<1>3. new[k] # Absent /\ srcs[k] # Absent
  BY <1>1, <1>2, NoneAssumption
<1>4. new \in [Keys -> Source \cup {Absent}]
  BY <1>1, <1>2
<1>5. Registered(new) = Registered(srcs)
  BY <1>1, <1>3 DEF Registered
<1>6. \A j \in Registered(srcs) :
        /\ new[j].generation = srcs[j].generation
        /\ new[j].owner_hwnd = srcs[j].owner_hwnd
        /\ new[j].visible = srcs[j].visible
        /\ new[j].last_focus = srcs[j].last_focus
        /\ new[j].last_frame = IF j = k THEN seq ELSE srcs[j].last_frame
  BY <1>1 DEF Registered, Source
<1>7. SamePolicyData(srcs, new)
  BY <1>5, <1>6 DEF SamePolicyData
<1>. QED
  BY <1>4, <1>5, <1>6, <1>7, PolicyData

-----------------------------------------------------------------------------
(* What reselect establishes, from what its caller has stored. *)

\* The registry part of the invariant.
Registry ==
    /\ connections \subseteq Nonces /\ failed \subseteq connections
    /\ \A k \in Keys : k[1] \notin connections => sources[k] = Absent
    /\ Stamped(sources, focus_clock)
    /\ FocusOrder

\* gone names exactly the incarnations that ended; the others keep their
\* generation and the sequence number of their last frame.
EndsIncarnations(gone) ==
    /\ \A k \in Registered(sources) \ gone :
          /\ k \in Registered(sources')
          /\ sources'[k].generation = sources[k].generation
          /\ sources'[k].last_frame = sources[k].last_frame
    /\ \A k \in Registered(sources) \cap gone :
          k \in Registered(sources') =>
             sources'[k].generation # sources[k].generation

\* reselect leaves registered keys in every ledger.
LEMMA ReselectType ==
    ASSUME TypeOK, Stamped(sources', focus_clock'),
           NEW gone, EndsIncarnations(gone), Reselect(gone)
    PROVE  /\ selected' \in Registered(sources') \cup {NoKey}
           /\ subscribed' \subseteq Registered(sources')
           /\ owing' \subseteq Registered(sources')
           /\ pending_full' \in (Keys \X (1..MaxGeneration)) \cup {NoKey}
<1>1. selected' \in Registered(sources') \cup {NoKey}
  BY ChoiceType DEF Reselect, Chosen, Visible
<1>2. subscribed \ gone \subseteq Registered(sources')
      /\ owing \ gone \subseteq Registered(sources')
  BY DEF TypeOK, EndsIncarnations
<1>3. subscribed' \subseteq Registered(sources')
  BY <1>1, <1>2 DEF Reselect, Resubscribe
<1>4. owing' \subseteq Registered(sources')
  BY <1>1, <1>2 DEF Reselect
<1>5. selected' # NoKey =>
        <<selected', sources'[selected'].generation>> \in Keys \X (1..MaxGeneration)
  BY <1>1 DEF Stamped, Registered, Source
<1>6. pending_full' \in (Keys \X (1..MaxGeneration)) \cup {NoKey}
  BY <1>5 DEF Reselect, MustRestore
<1>. QED
  BY <1>1, <1>3, <1>4, <1>6

\* reselect leaves a selection it would not change.
LEMMA ReselectSettles ==
    ASSUME Stamped(sources', focus_clock'), NEW gone, Reselect(gone)
    PROVE  SelectionSettled'
<1>1. selected' = Choice(sources', foreground_hwnd', paused', selected)
  BY DEF Reselect, Chosen
<1>2. Choice(sources', foreground_hwnd', paused', selected') = selected'
  BY <1>1, ChoiceStable
<1>. QED
  BY <1>2 DEF SelectionSettled

\* reselect leaves a memo that is for the selected source, due and unanswered.
LEMMA ReselectRequests ==
    ASSUME TypeOK, PendingFullIsDue, Stamped(sources', focus_clock'),
           NEW gone, EndsIncarnations(gone), Reselect(gone),
           published' = published
    PROVE  PendingFullIsDue'
<1> DEFINE request == <<selected', sources'[selected'].generation>>
           restore == MustRestore(sources', foreground_hwnd', privacy_hold',
                                  selected', published)
<1>1. SUFFICES ASSUME pending_full' # NoKey
               PROVE  restore /\ pending_full' = request /\ selected' \in owing'
  BY DEF PendingFullIsDue
<1>2. restore /\ pending_full' = request
  BY <1>1 DEF Reselect
<1>3. selected' # NoKey
  BY <1>2 DEF MustRestore
<1>4. CASE pending_full # request
  BY <1>2, <1>3, <1>4 DEF Reselect
<1>5. CASE pending_full = request
  <2>1. request # NoKey
    BY <1>1, <1>2
  <2>2. selected \in owing /\ request = <<selected, sources[selected].generation>>
    BY <1>5, <2>1 DEF PendingFullIsDue
  <2>3. selected' = selected /\ sources'[selected].generation = sources[selected].generation
    BY <2>2
  <2>4. selected \in Registered(sources) /\ selected \in Registered(sources')
    BY <1>3, <2>2, <2>3, ReselectType DEF TypeOK
  <2>5. selected \notin gone
    BY <2>3, <2>4 DEF EndsIncarnations
  <2>6. owing \ gone \subseteq owing'
    BY DEF Reselect
  <2>. QED
    BY <1>2, <2>2, <2>3, <2>5, <2>6
<1>. QED
  BY <1>2, <1>4, <1>5

\* reselect moves the subscription with the selection.
LEMMA ReselectSubscribes ==
    ASSUME SubscriptionFollowsSelection, NEW gone, Reselect(gone),
           selected \in gone => selected' # selected
    PROVE  SubscriptionFollowsSelection'
  BY DEF SubscriptionFollowsSelection, Reselect, Resubscribe

-----------------------------------------------------------------------------
(* What each operation makes of the registry. *)

\* What the lemmas below need of the registry.
LEMMA RegistryFacts ==
    ASSUME TypeOK, FocusOrder
    PROVE  Registry
<1>1. Stamped(sources, focus_clock)
  BY DEF TypeOK, FocusOrder, Stamped
<1>. QED
  BY <1>1 DEF TypeOK, Registry

\* source_added ends at most the incarnation it replaces.
LEMMA AddedRegistry ==
    ASSUME Registry, NEW k \in Keys, NEW g \in 1..MaxGeneration,
           NEW w \in Windows, NEW focus \in BOOLEAN, NEW visible \in BOOLEAN,
           SourceAdded(k, g, w, focus, visible)
    PROVE  Registry' /\ EndsIncarnations({k})
<1> DEFINE new == [generation |-> g, owner_hwnd |-> w, focused |-> focus,
                   visible |-> visible,
                   last_focus |-> IF focus THEN focus_clock + 1 ELSE 0,
                   last_frame |-> 0]
<1>1. /\ focus_clock \in Nat
      /\ focus_clock' = IF focus THEN focus_clock + 1 ELSE focus_clock
      /\ connections' = connections /\ failed' = failed
      /\ k[1] \in connections
  BY DEF SourceAdded, Tick, Registry, Stamped, Speaks
<1>2. new \in Source
  BY <1>1 DEF Source
<1>3. /\ sources \in [Keys -> Source \cup {Absent}]
      /\ sources' = [sources EXCEPT ![k] = new]
  BY DEF SourceAdded, Registry, Stamped
<1>4. /\ sources' \in [Keys -> Source \cup {Absent}]
      /\ sources'[k] = new
      /\ \A j \in Keys : j # k => sources'[j] = sources[j]
  BY <1>2, <1>3
<1> HIDE DEF new
<1>5. Registered(sources') = Registered(sources) \cup {k}
  BY <1>2, <1>4, NoneAssumption DEF Registered
<1>6. \A j \in Registered(sources) :
         sources[j] \in Source /\ sources[j].last_focus =< focus_clock
  BY <1>3 DEF Registry, Stamped, Registered
<1>7. new.last_focus = IF focus THEN focus_clock + 1 ELSE 0
  BY DEF new
<1>8. \A j \in Registered(sources') : sources'[j].last_focus =< focus_clock'
  <2>1. \A j \in Registered(sources) : sources[j].last_focus \in Nat
    BY <1>6 DEF Source
  <2>. QED
    BY <1>1, <1>4, <1>5, <1>6, <1>7, <2>1 DEF Registered
<1>9. ASSUME NEW i \in Registered(sources'), NEW j \in Registered(sources'),
             i # j, sources'[i].last_focus # 0
      PROVE  sources'[i].last_focus # sources'[j].last_focus
  <2>1. \A l \in Registered(sources) : sources[l].last_focus \in Nat
    BY <1>6 DEF Source
  <2>2. CASE i # k /\ j # k
    BY <1>4, <1>5, <1>9, <2>2 DEF Registry, FocusOrder, Registered
  <2>3. CASE i = k
    BY <1>1, <1>4, <1>5, <1>6, <1>7, <1>9, <2>1, <2>3 DEF Registered
  <2>4. CASE j = k
    BY <1>1, <1>4, <1>5, <1>6, <1>7, <1>9, <2>1, <2>4 DEF Registered
  <2>. QED
    BY <2>2, <2>3, <2>4
<1>10. FocusOrder'
  BY <1>8, <1>9 DEF FocusOrder
<1>11. Stamped(sources', focus_clock')
  BY <1>1, <1>4, <1>8 DEF Stamped
<1>12. new.generation = g /\ (sources[k] # Absent => sources[k].generation # g)
  <2>1. sources[k] # Absent => g > sources[k].generation /\ sources[k].generation \in Nat
    BY <1>3, BoundAssumption DEF SourceAdded, Source
  <2>2. g \in Nat
    BY BoundAssumption
  <2>. QED
    BY <2>1, <2>2 DEF new
<1>13. EndsIncarnations({k})
  BY <1>4, <1>5, <1>12 DEF EndsIncarnations, Registered
<1>. QED
  BY <1>1, <1>4, <1>10, <1>11, <1>13 DEF Registry

\* source_updated ends no incarnation.
LEMMA UpdatedRegistry ==
    ASSUME Registry, NEW k \in Keys, NEW g \in 1..MaxGeneration,
           NEW w \in Windows, NEW focus \in BOOLEAN, NEW visible \in BOOLEAN,
           SourceUpdated(k, g, w, focus, visible)
    PROVE  Registry' /\ EndsIncarnations({})
<1> DEFINE gained == GainsFocus(k, focus)
           new == [generation |-> g, owner_hwnd |-> w, focused |-> focus,
                   visible |-> visible,
                   last_focus |-> IF gained THEN focus_clock + 1
                                  ELSE sources[k].last_focus,
                   last_frame |-> sources[k].last_frame]
<1>1. /\ focus_clock \in Nat
      /\ focus_clock' = IF gained THEN focus_clock + 1 ELSE focus_clock
      /\ connections' = connections /\ failed' = failed
      /\ k[1] \in connections
  BY DEF SourceUpdated, Tick, Registry, Stamped, Speaks
<1>2. /\ sources \in [Keys -> Source \cup {Absent}]
      /\ sources[k] \in Source /\ sources[k].generation = g
      /\ sources' = [sources EXCEPT ![k] = new]
  BY DEF SourceUpdated, Registry, Stamped
<1>3. new \in Source /\ new.generation = sources[k].generation
      /\ new.last_frame = sources[k].last_frame
      /\ new.last_focus = IF gained THEN focus_clock + 1
                          ELSE sources[k].last_focus
  BY <1>1, <1>2 DEF Source
<1>4. /\ sources' \in [Keys -> Source \cup {Absent}]
      /\ sources'[k] = new
      /\ \A j \in Keys : j # k => sources'[j] = sources[j]
  BY <1>2, <1>3
<1> HIDE DEF new, gained
<1>5. k \in Registered(sources) /\ Registered(sources') = Registered(sources)
  BY <1>2, <1>3, <1>4, NoneAssumption DEF Registered
<1>6. \A j \in Registered(sources) :
         /\ sources[j] \in Source /\ sources[j].last_focus =< focus_clock
         /\ sources[j].last_focus \in Nat
  BY <1>2 DEF Registry, Stamped, Registered, Source
<1>8. \A j \in Registered(sources') : sources'[j].last_focus =< focus_clock'
  BY <1>1, <1>3, <1>4, <1>5, <1>6 DEF Registered
<1>9. ASSUME NEW i \in Registered(sources'), NEW j \in Registered(sources'),
             i # j, sources'[i].last_focus # 0
      PROVE  sources'[i].last_focus # sources'[j].last_focus
  <2>1. \A a, b \in Registered(sources) :
           a # b /\ sources[a].last_focus # 0
             => sources[a].last_focus # sources[b].last_focus
    BY DEF Registry, FocusOrder
  <2>2. CASE i # k /\ j # k
    BY <1>4, <1>5, <1>9, <2>1, <2>2 DEF Registered
  <2>3. CASE i = k
    BY <1>1, <1>3, <1>4, <1>5, <1>6, <1>9, <2>1, <2>3 DEF Registered
  <2>4. CASE j = k
    BY <1>1, <1>3, <1>4, <1>5, <1>6, <1>9, <2>1, <2>4 DEF Registered
  <2>. QED
    BY <2>2, <2>3, <2>4
<1>10. FocusOrder'
  BY <1>8, <1>9 DEF FocusOrder
<1>11. Stamped(sources', focus_clock')
  BY <1>1, <1>4, <1>8 DEF Stamped
<1>13. EndsIncarnations({})
  BY <1>3, <1>4, <1>5 DEF EndsIncarnations, Registered
<1>. QED
  BY <1>1, <1>4, <1>10, <1>11, <1>13 DEF Registry

\* Removal, disconnection, and the calls that leave the registry alone.
LEMMA ShrunkRegistry ==
    ASSUME Registry, NEW gone, gone \subseteq Keys,
           focus_clock' = focus_clock,
           sources' = [k \in Keys |-> IF k \in gone THEN Absent ELSE sources[k]],
           connections' \subseteq Nonces, failed' \subseteq connections',
           \A k \in Keys : k[1] \in connections \ connections' => k \in gone
    PROVE  Registry' /\ EndsIncarnations(gone)
<1>1. Registered(sources') = Registered(sources) \ gone
  BY DEF Registered
<1>2. \A k \in Registered(sources') : sources'[k] = sources[k]
  BY DEF Registered
<1>3. Stamped(sources', focus_clock')
  BY <1>1, <1>2 DEF Registry, Stamped
<1>4. FocusOrder'
  BY <1>1, <1>2 DEF Registry, FocusOrder
<1>5. EndsIncarnations(gone)
  BY <1>1, <1>2 DEF EndsIncarnations
<1>6. \A k \in Keys : k[1] \notin connections' => sources'[k] = Absent
  BY DEF Registry
<1>. QED
  BY <1>3, <1>4, <1>5, <1>6 DEF Registry

-----------------------------------------------------------------------------
(* The inductive invariant.  FocusOrder is what makes the policy's choices *)
(* exist; SelectionSettled is what ties the selection to the registry; and *)
(* PendingFullIsDue needs both to survive a step that does not reselect.   *)

BrokerInv == TypeOK /\ FocusOrder /\ SelectionSettled /\ PendingFullIsDue

\* A new broker.
LEMMA InitBrokerInv == Init => BrokerInv
<1> SUFFICES ASSUME Init PROVE BrokerInv
  OBVIOUS
<1>1. Registered(sources) = {}
  BY DEF Init, Registered
<1>2. TypeOK
  <2>1. 0 \in Epochs
    BY BoundAssumption DEF Epochs
  <2>. QED
    BY <1>1, <2>1 DEF Init, TypeOK, PublishedSource
<1>3. FocusOrder
  BY <1>1 DEF FocusOrder
<1>4. Stamped(sources, focus_clock)
  BY <1>1 DEF Init, Stamped
<1>5. Choice(sources, foreground_hwnd, paused, selected) = NoKey
  BY <1>1, <1>4, ChoiceType DEF Visible
<1>6. SelectionSettled
  BY <1>5 DEF Init, SelectionSettled
<1>7. PendingFullIsDue
  BY DEF Init, PendingFullIsDue
<1>. QED
  BY <1>2, <1>3, <1>6, <1>7 DEF BrokerInv

\* A call of reselect, from the registry and the host state it finds stored.
\* A refusal is forgotten only together with the sources of its connection.
Reselects(gone) ==
    /\ Registry' /\ EndsIncarnations(gone) /\ Reselect(gone)
    /\ \A k \in Registered(sources') : k[1] \in failed => k[1] \in failed'
    /\ UNCHANGED <<screenVars, ticket>>
    /\ foreground_hwnd' \in Windows \cup {NoWindow}
    /\ foreground_epoch' \in Epochs
    /\ privacy_hold' \in BOOLEAN /\ paused' \in BOOLEAN

\* Whatever ends in reselect preserves the invariant.
LEMMA ReselectInv ==
    ASSUME BrokerInv, NEW gone, Reselects(gone)
    PROVE  BrokerInv'
<1> USE DEF Reselects
<1>1. Stamped(sources', focus_clock') /\ FocusOrder'
  BY DEF Registry
<1>2. TypeOK'
  BY <1>1, ReselectType DEF BrokerInv, TypeOK, Registry, Stamped, screenVars
<1>3. SelectionSettled'
  BY <1>1, ReselectSettles
<1>4. PendingFullIsDue'
  BY <1>1, ReselectRequests DEF BrokerInv, screenVars
<1>. QED
  BY <1>1, <1>2, <1>3, <1>4 DEF BrokerInv

\* An accepted sequence number: the frame itself may be published or refused.
LEMMA SequencedInv ==
    ASSUME BrokerInv, NEW k \in Keys, NEW g \in 1..MaxGeneration,
           NEW seq \in 1..MaxSequence,
           sources[k] # Absent, sources[k].generation = g,
           Sequenced(k, g, seq),
           \/ UNCHANGED screenVars
           \/ /\ MayPublish(k)
              /\ published' = Terminal(k, g)
              /\ frame' = [source |-> Terminal(k, g), sequence |-> seq],
           connections' = connections,
           failed' \subseteq connections,
           UNCHANGED <<focus_clock, windowVars, selected, subscribed,
                       privacy_hold, paused, ticket>>
    PROVE  BrokerInv'
<1>1. seq \in Nat /\ k \in Registered(sources)
  BY BoundAssumption DEF Registered
<1>2. sources \in [Keys -> Source \cup {Absent}]
  BY DEF BrokerInv, TypeOK
<1>3. /\ sources' \in [Keys -> Source \cup {Absent}]
      /\ Registered(sources') = Registered(sources)
      /\ \A j \in Registered(sources) :
            /\ sources'[j].generation = sources[j].generation
            /\ sources'[j].last_focus = sources[j].last_focus
      /\ \A sel : ForegroundChoice(sources', foreground_hwnd, sel)
                    = ForegroundChoice(sources, foreground_hwnd, sel)
      /\ \A sel : Choice(sources', foreground_hwnd, paused, sel)
                    = Choice(sources, foreground_hwnd, paused, sel)
  <2>1. sources' = Framed(sources, k, seq)
    BY DEF Sequenced, Framed
  <2>2. ASSUME NEW sel
        PROVE  /\ ForegroundChoice(sources', foreground_hwnd, sel)
                    = ForegroundChoice(sources, foreground_hwnd, sel)
               /\ Choice(sources', foreground_hwnd, paused, sel)
                    = Choice(sources, foreground_hwnd, paused, sel)
    BY <1>1, <1>2, <2>1, PolicyIgnoresFrames
  <2>3. /\ sources' \in [Keys -> Source \cup {Absent}]
        /\ Registered(sources') = Registered(sources)
        /\ \A j \in Registered(sources) :
              /\ sources'[j].generation = sources[j].generation
              /\ sources'[j].last_focus = sources[j].last_focus
    BY <1>1, <1>2, <2>1, PolicyIgnoresFrames
  <2>. QED
    BY <2>2, <2>3
<1>4. FocusOrder'
  BY <1>3 DEF BrokerInv, FocusOrder
<1>5. SelectionSettled'
  BY <1>3 DEF BrokerInv, SelectionSettled, windowVars
<1>6. published' \in PublishedSource /\ frame' \in [source : {published'}, sequence : Nat]
  BY <1>1 DEF BrokerInv, TypeOK, screenVars, Terminal, PublishedSource
<1>7. \A j \in Keys : j[1] \notin connections => sources'[j] = Absent
  BY <1>1, <1>3 DEF BrokerInv, TypeOK, Registered
<1>8. TypeOK'
  BY <1>3, <1>6, <1>7 DEF BrokerInv, TypeOK, Sequenced, windowVars
<1>9. PendingFullIsDue'
  <2>1. SUFFICES ASSUME pending_full' # NoKey
                 PROVE  /\ MustRestore(sources', foreground_hwnd, privacy_hold,
                                       selected, published')
                        /\ pending_full' = <<selected, sources'[selected].generation>>
                        /\ selected \in owing'
    BY DEF PendingFullIsDue, windowVars
  <2>2. pending_full' = pending_full /\ pending_full # <<k, g>>
    BY <2>1 DEF Sequenced
  <2>3. /\ MustRestore(sources, foreground_hwnd, privacy_hold, selected, published)
        /\ pending_full = <<selected, sources[selected].generation>>
        /\ selected \in owing
    BY <2>1, <2>2 DEF BrokerInv, PendingFullIsDue
  <2>4. selected # k /\ selected \in Registered(sources)
    BY <2>2, <2>3 DEF BrokerInv, TypeOK
  <2>5. published' = published
    BY <2>4 DEF MayPublish, screenVars
  <2>6. sources'[selected].generation = sources[selected].generation
    BY <1>3, <2>4
  <2>7. MustRestore(sources', foreground_hwnd, privacy_hold, selected, published')
    BY <1>3, <2>3, <2>5, <2>6 DEF MustRestore
  <2>. QED
    BY <2>2, <2>3, <2>4, <2>6, <2>7 DEF Sequenced
<1>. QED
  BY <1>4, <1>5, <1>8, <1>9 DEF BrokerInv

\* Steps that leave the registry, the window and the selection alone.
LEMMA QuietInv ==
    ASSUME BrokerInv,
           UNCHANGED <<sources, focus_clock, windowVars, selected, subscribed,
                       owing, paused>>,
           connections \subseteq connections', connections' \subseteq Nonces,
           failed' \subseteq connections',
           privacy_hold' \in BOOLEAN,
           ticket' \in Ticket \cup {NoTicket},
           \/ /\ UNCHANGED <<screenVars, pending_full>>
              /\ privacy_hold => privacy_hold'
           \/ /\ pending_full' = NoKey
              /\ published' \in PublishedSource
              /\ frame' \in [source : {published'}, sequence : Nat]
    PROVE  BrokerInv'
<1>1. FocusOrder' /\ SelectionSettled'
  BY DEF BrokerInv, FocusOrder, SelectionSettled, windowVars
<1>2. TypeOK'
  BY DEF BrokerInv, TypeOK, windowVars, screenVars
<1>3. PendingFullIsDue'
  BY DEF BrokerInv, PendingFullIsDue, MustRestore, windowVars, screenVars
<1>. QED
  BY <1>1, <1>2, <1>3 DEF BrokerInv

\* The operations that end in reselect.
Reselecting ==
    \/ \E k \in Keys, g \in 1..MaxGeneration :
          \/ SourceRemoved(k, g)
          \/ \E w \in Windows, focus, visible \in BOOLEAN :
                \/ SourceAdded(k, g, w, focus, visible)
                \/ SourceUpdated(k, g, w, focus, visible)
    \/ HostCall

\* The operations that end in reselect, brought to one form.
LEMMA ReselectingStep ==
    ASSUME BrokerInv, Reselecting
    PROVE  \E gone : Reselects(gone)
<1> USE DEF registryVars
<1>0. Registry
  BY RegistryFacts DEF BrokerInv
<1>1. ASSUME NEW k \in Keys, NEW g \in 1..MaxGeneration, SourceRemoved(k, g)
      PROVE  Reselects({k})
  <2>1. sources' = [j \in Keys |-> IF j \in {k} THEN Absent ELSE sources[j]]
    BY <1>1 DEF SourceRemoved, BrokerInv, TypeOK
  <2>2. Registry' /\ EndsIncarnations({k})
    BY <1>0, <1>1, <2>1, ShrunkRegistry DEF SourceRemoved, Registry
  <2>. QED
    BY <1>1, <2>2 DEF SourceRemoved, Reselects, BrokerInv, TypeOK, windowVars
<1>2. ASSUME NEW k \in Keys, NEW g \in 1..MaxGeneration, NEW w \in Windows,
             NEW focus \in BOOLEAN, NEW visible \in BOOLEAN,
             SourceAdded(k, g, w, focus, visible)
      PROVE  Reselects({k})
  <2>1. Registry' /\ EndsIncarnations({k})
    BY <1>0, <1>2, AddedRegistry
  <2>. QED
    BY <1>2, <2>1 DEF SourceAdded, Reselects, BrokerInv, TypeOK, windowVars
<1>3. ASSUME NEW k \in Keys, NEW g \in 1..MaxGeneration, NEW w \in Windows,
             NEW focus \in BOOLEAN, NEW visible \in BOOLEAN,
             SourceUpdated(k, g, w, focus, visible)
      PROVE  Reselects({})
  <2>1. Registry' /\ EndsIncarnations({})
    BY <1>0, <1>3, UpdatedRegistry
  <2>. QED
    BY <1>3, <2>1 DEF SourceUpdated, Reselects, BrokerInv, TypeOK, windowVars
<1>4. ASSUME NEW w \in Windows \cup {NoWindow}, ForegroundChanged(w)
      PROVE  Reselects({})
  <2>1. sources' = [j \in Keys |-> IF j \in {} THEN Absent ELSE sources[j]]
    BY <1>4 DEF ForegroundChanged, BrokerInv, TypeOK
  <2>2. Registry' /\ EndsIncarnations({})
    BY <1>0, <1>4, <2>1, ShrunkRegistry DEF ForegroundChanged, Registry
  <2>3. foreground_epoch' \in Epochs
    BY <1>4, BoundAssumption DEF ForegroundChanged, NextEpoch, Epochs, BrokerInv, TypeOK
  <2>. QED
    BY <1>4, <2>2, <2>3 DEF ForegroundChanged, Reselects, BrokerInv, TypeOK
<1>5. ASSUME NEW n \in Nonces, Disconnected(n)
      PROVE  Reselects({k \in Keys : k[1] = n})
  <2> DEFINE gone == {k \in Keys : k[1] = n}
  <2>1. sources' = [j \in Keys |-> IF j \in gone THEN Absent ELSE sources[j]]
    BY <1>5 DEF Disconnected
  <2>2. /\ connections' \subseteq Nonces /\ failed' \subseteq connections'
        /\ \A k \in Keys : k[1] \in connections \ connections' => k \in gone
    BY <1>0, <1>5 DEF Disconnected, Registry
  <2>3. focus_clock' = focus_clock /\ gone \subseteq Keys
    BY <1>5 DEF Disconnected
  <2>4. Reselect(gone)
    BY <1>5 DEF Disconnected
  <2>5. \A k \in Registered(sources') : k[1] \in failed => k[1] \in failed'
    BY <1>5 DEF Disconnected, Registered
  <2> HIDE DEF gone
  <2>6. Registry' /\ EndsIncarnations(gone)
    BY <1>0, <2>1, <2>2, <2>3, ShrunkRegistry
  <2>7. Reselects(gone)
    BY <1>5, <2>4, <2>5, <2>6
       DEF Disconnected, Reselects, BrokerInv, TypeOK, windowVars
  <2>. QED
    BY <2>7 DEF gone
<1>6. ASSUME NEW pause \in BOOLEAN, SetPaused(pause) PROVE Reselects({})
  <2>1. sources' = [j \in Keys |-> IF j \in {} THEN Absent ELSE sources[j]]
    BY <1>6 DEF SetPaused, BrokerInv, TypeOK
  <2>2. Registry' /\ EndsIncarnations({})
    BY <1>0, <1>6, <2>1, ShrunkRegistry DEF SetPaused, Registry
  <2>. QED
    BY <1>6, <2>2 DEF SetPaused, Reselects, BrokerInv, TypeOK, windowVars
<1>. QED
  BY <1>1, <1>2, <1>3, <1>4, <1>5, <1>6 DEF Reselecting, HostCall

\* Every operation of the broker preserves the invariant.
LEMMA NextBrokerInv == BrokerInv /\ [Next]_vars => BrokerInv'
<1> SUFFICES ASSUME BrokerInv, [Next]_vars PROVE BrokerInv'
  OBVIOUS
<1> USE DEF registryVars, policyVars
<1>1. CASE Reselecting
  BY <1>1, ReselectingStep, ReselectInv
<1>2. ASSUME NEW n \in Nonces, Hello(n) PROVE BrokerInv'
  BY <1>2, QuietInv DEF Hello, BrokerInv, TypeOK
<1>3. ASSUME NEW k \in Keys, NEW g \in 1..MaxGeneration, SourceAddedRefused(k, g)
      PROVE  BrokerInv'
  BY <1>3, QuietInv DEF SourceAddedRefused, BrokerInv, TypeOK, Speaks
<1>4. ASSUME NEW k \in Keys, NEW g \in 1..MaxGeneration, NEW seq \in 1..MaxSequence,
             FrameAccepted(k, g, seq)
      PROVE  BrokerInv'
  BY <1>4, SequencedInv DEF FrameAccepted, BrokerInv, TypeOK
<1>5. ASSUME NEW k \in Keys, NEW g \in 1..MaxGeneration, NEW seq \in 1..MaxSequence,
             FrameMalformed(k, g, seq)
      PROVE  BrokerInv'
  BY <1>5, SequencedInv DEF FrameMalformed, BrokerInv, TypeOK, Speaks
<1>6. ASSUME NEW k \in Keys, NEW g \in 1..MaxGeneration, NEW seq \in 1..MaxSequence,
             FrameRegressed(k, g, seq)
      PROVE  BrokerInv'
  BY <1>6, QuietInv DEF FrameRegressed, BrokerInv, TypeOK, Speaks
<1>7. CASE AccessibilityTicket
  <2>1. ticket' \in Ticket
    BY <1>7 DEF AccessibilityTicket, Ticket, BrokerInv, TypeOK
  <2>. QED
    BY <1>7, <2>1, QuietInv DEF AccessibilityTicket, BrokerInv, TypeOK
<1>8. ASSUME NEW w \in Windows, PublishAccessibility(w) PROVE BrokerInv'
  <2>1. published' \in PublishedSource /\ frame' \in [source : {published'}, sequence : Nat]
    BY <1>8 DEF PublishAccessibility, Accessibility, PublishedSource
  <2>. QED
    BY <1>8, <2>1, QuietInv DEF PublishAccessibility, BrokerInv, TypeOK
<1>9. CASE AccessibilityBlocked
  BY <1>9, QuietInv DEF AccessibilityBlocked, BrokerInv, TypeOK
<1>10. CASE CaptureDropped
  BY <1>10, QuietInv DEF CaptureDropped, BrokerInv, TypeOK
<1>11. CASE UNCHANGED vars
  BY <1>11, QuietInv DEF vars, BrokerInv, TypeOK
<1>. QED
  BY <1>1, <1>2, <1>3, <1>4, <1>5, <1>6, <1>7, <1>8, <1>9, <1>10, <1>11
     DEF Next, Packet, WorkerCall, Reselecting

\* The inductive invariant holds in every reachable state.
THEOREM BrokerInvariant == Spec => []BrokerInv
  BY InitBrokerInv, NextBrokerInv, PTL DEF Spec

-----------------------------------------------------------------------------
(* What follows from the inductive invariant. *)

\* Type correctness, which includes that the selected source is registered
\* and that no subscription outlives its registration.
THEOREM TypeCorrect == Spec => []TypeOK
  BY BrokerInvariant, PTL DEF BrokerInv

\* No broker operation returns with a selection its policy would change.
THEOREM SelectionIsSettled == Spec => []SelectionSettled
  BY BrokerInvariant, PTL DEF BrokerInv

\* The focus stamps of two sources that were ever focused differ.
THEOREM FocusIsOrdered == Spec => []FocusOrder
  BY BrokerInvariant, PTL DEF BrokerInv

\* A request the broker remembers to have made is still due and unanswered.
THEOREM RememberedRequestIsDue == Spec => []PendingFullIsDue
  BY BrokerInvariant, PTL DEF BrokerInv

-----------------------------------------------------------------------------
(* A step either ends in reselect or leaves the selection alone.  The      *)
(* properties below are proved on each side.                               *)

\* Every step is one of the two.
LEMMA StepShape ==
    ASSUME BrokerInv, [Next]_vars
    PROVE  \/ \E gone : Reselects(gone)
           \/ UNCHANGED <<selected, subscribed, paused>>
<1>1. CASE Reselecting
  BY <1>1, ReselectingStep
<1>2. CASE ~Reselecting
  BY <1>2 DEF Next, Packet, WorkerCall, Reselecting, vars, policyVars,
     registryVars, Hello, SourceAddedRefused, FrameAccepted, FrameMalformed,
     FrameRegressed, AccessibilityTicket, PublishAccessibility,
     AccessibilityBlocked, CaptureDropped
<1>. QED
  BY <1>1, <1>2

-----------------------------------------------------------------------------
(* Subscriptions. *)

\* With one generation per source, a step keeps the subscription on the
\* selection.
LEMMA SubscriptionStep ==
    ASSUME MaxGeneration = 1, BrokerInv, SubscriptionFollowsSelection,
           [Next]_vars
    PROVE  SubscriptionFollowsSelection'
<1>1. ASSUME NEW gone, Reselects(gone) PROVE SubscriptionFollowsSelection'
  <2>1. ASSUME selected \in gone, selected' = selected
        PROVE  selected \notin Registered(sources)
    <3>1. selected' \in Registered(sources') \cup {NoKey}
      BY <1>1, ReselectType DEF BrokerInv, Reselects, Registry
    <3>2. SUFFICES ASSUME selected \in Registered(sources) PROVE FALSE
      OBVIOUS
    <3>3. selected \in Registered(sources')
      BY <2>1, <3>1, <3>2, OptionAssumption DEF Registered
    <3>4. sources'[selected].generation # sources[selected].generation
      BY <1>1, <2>1, <3>2, <3>3 DEF Reselects, EndsIncarnations
    <3>5. sources'[selected] \in Source /\ sources[selected] \in Source
      BY <1>1, <3>2, <3>3
         DEF Reselects, Registry, Stamped, Registered, BrokerInv, TypeOK
    <3>. QED
      BY <3>4, <3>5 DEF Source
  <2>2. Reselect(gone) /\ selected \in Registered(sources) \cup {NoKey}
    BY <1>1 DEF Reselects, BrokerInv, TypeOK
  <2>. QED
    BY <2>1, <2>2 DEF SubscriptionFollowsSelection, Reselect, Resubscribe
<1>2. ASSUME UNCHANGED <<selected, subscribed, paused>>
      PROVE  SubscriptionFollowsSelection'
  BY <1>2 DEF SubscriptionFollowsSelection
<1>. QED
  BY <1>1, <1>2, StepShape

\* As long as no adapter advances the generation of a source (none does),
\* adapters that obey the broker's commands keep exactly the selected engine
\* active.
THEOREM SubscriptionsFollow ==
    ASSUME MaxGeneration = 1
    PROVE  Spec => []SubscriptionFollowsSelection
<1>1. Init => SubscriptionFollowsSelection
  BY DEF Init, SubscriptionFollowsSelection
<1>2. BrokerInv /\ SubscriptionFollowsSelection /\ [Next]_vars
        => SubscriptionFollowsSelection'
  BY SubscriptionStep
<1>. QED
  BY <1>1, <1>2, BrokerInvariant, PTL DEF Spec

-----------------------------------------------------------------------------
(* Selection. *)

\* A visible selected source gives way only to the owner of the foreground
\* window or to a pause, whatever operation moves the selection.
THEOREM RetainsSelection == Spec => RetainedSelection
<1> DEFINE Retains == KeepLastTerminal /\ ~paused'
                        /\ selected \in Visible(sources') /\ selected' # selected
                      => selected' = ForegroundChoice(sources', foreground_hwnd',
                                                      selected)
<1>1. BrokerInv /\ [Next]_vars => Retains
  <2> SUFFICES ASSUME BrokerInv, [Next]_vars PROVE Retains
    OBVIOUS
  <2>1. ASSUME NEW gone, Reselects(gone) PROVE Retains
    BY <2>1 DEF Reselects, Reselect, Chosen, Choice, Retained
  <2>. QED
    BY <2>1, StepShape
<1>2. BrokerInv /\ [Next]_vars => [Retains]_vars
  BY <1>1
<1>. QED
  BY <1>2, BrokerInvariant, PTL DEF Spec, RetainedSelection

\* No election is left to the iteration order of the registry: whom reselect
\* newly selects was focused at some time or has no rival in its window.
THEOREM ElectsUnambiguously == Spec => ElectionIsUnambiguous
<1> DEFINE source == sources'[selected']
           Justified == selected' \notin {selected, NoKey} =>
              \/ source.last_focus # 0
              \/ Candidates(sources', source.owner_hwnd,
                            IsTerminalHost(selected')) = {selected'}
<1>1. BrokerInv /\ [Next]_vars => Justified
  <2> SUFFICES ASSUME BrokerInv, [Next]_vars, selected' \notin {selected, NoKey}
               PROVE  \/ source.last_focus # 0
                      \/ Candidates(sources', source.owner_hwnd,
                                    IsTerminalHost(selected')) = {selected'}
    OBVIOUS
  <2>1. PICK gone : Reselects(gone)
    BY StepShape
  <2>2. Stamped(sources', focus_clock')
    BY <2>1 DEF Reselects, Registry
  <2>3. \/ selected' = ForegroundChoice(sources', foreground_hwnd', selected)
        \/ selected' = Retained(sources', selected)
    BY <2>1 DEF Reselects, Reselect, Chosen, Choice
  <2>4. CASE selected' = ForegroundChoice(sources', foreground_hwnd', selected)
    BY <2>2, <2>4, ForegroundUnambiguous
  <2>5. CASE selected' = Retained(sources', selected)
    <3>1. Focusable(sources') # {} /\ selected' = MostRecent(sources', Focusable(sources'))
      BY <2>5 DEF Retained
    <3>2. Focusable(sources') \subseteq Registered(sources')
      BY DEF Focusable, Visible
    <3>3. selected' \in Focusable(sources')
      BY <2>2, <3>1, <3>2, MostRecentExists, StampsInRange DEF Stamped
    <3>. QED
      BY <3>3 DEF Focusable
  <2>. QED
    BY <2>3, <2>4, <2>5
<1>2. BrokerInv /\ [Next]_vars => [Justified]_vars
  BY <1>1
<1>. QED
  BY <1>2, BrokerInvariant, PTL DEF Spec, ElectionIsUnambiguous

\* What an operator or an adapter does to the registry or the host that can
\* be a reason to move the selection.
Cause ==
    \/ foreground_hwnd' # foreground_hwnd
    \/ paused' # paused
    \/ \E k \in Keys :
          \/ (sources[k] = Absent) # (sources'[k] = Absent)
          \/ /\ sources[k] # Absent /\ sources'[k] # Absent
             /\ \/ sources'[k].owner_hwnd # sources[k].owner_hwnd
                \/ sources'[k].visible # sources[k].visible
                \/ sources'[k].generation # sources[k].generation
                \/ sources'[k].focused /\ ~sources[k].focused

\* Without a cause the policy sees the same data, and its choice stands.
LEMMA NoCauseNoMove ==
    ASSUME BrokerInv, SamePolicyData(sources, sources'),
           UNCHANGED <<foreground_hwnd, paused>>, NEW gone, Reselect(gone)
    PROVE  selected' = selected
<1>1. selected' = Choice(sources', foreground_hwnd, paused, selected)
  BY DEF Reselect, Chosen
<1>2. Choice(sources', foreground_hwnd, paused, selected)
        = Choice(sources, foreground_hwnd, paused, selected)
  BY PolicyData
<1>. QED
  BY <1>1, <1>2 DEF BrokerInv, SelectionSettled

\* A metadata packet that reports no rising focus, no move and no change of
\* visibility leaves the policy's data as they were.
LEMMA UpdateCause ==
    ASSUME BrokerInv, NEW k \in Keys, NEW g \in 1..MaxGeneration,
           NEW w \in Windows, NEW focus \in BOOLEAN, NEW visible \in BOOLEAN,
           SourceUpdated(k, g, w, focus, visible), ~Cause
    PROVE  SamePolicyData(sources, sources')
<1>1. sources \in [Keys -> Source \cup {Absent}] /\ sources[k] # Absent
  BY DEF SourceUpdated, BrokerInv, TypeOK
<1>2. sources[k] \in Source /\ focus_clock \in Nat
  BY <1>1 DEF BrokerInv, TypeOK
<1> DEFINE new == [generation |-> g, owner_hwnd |-> w, focused |-> focus,
                   visible |-> visible,
                   last_focus |-> IF GainsFocus(k, focus) THEN focus_clock + 1
                                  ELSE sources[k].last_focus,
                   last_frame |-> sources[k].last_frame]
<1>3. sources' = [sources EXCEPT ![k] = new]
  BY DEF SourceUpdated
<1>4. new \in Source
  BY <1>2 DEF Source
<1>5. sources'[k] = new /\ \A j \in Keys : j # k => sources'[j] = sources[j]
  BY <1>1, <1>3
<1>6. new # Absent
  BY <1>4, NoneAssumption
<1>7. ~GainsFocus(k, focus)
  BY <1>1, <1>5, <1>6 DEF Cause, GainsFocus
<1>8. /\ new.owner_hwnd = sources[k].owner_hwnd
      /\ new.visible = sources[k].visible
  BY <1>1, <1>5, <1>6 DEF Cause
<1>9. new.last_focus = sources[k].last_focus
  BY <1>7
<1> HIDE DEF new
<1>10. Registered(sources') = Registered(sources)
  BY <1>1, <1>5, <1>6 DEF Registered
<1>. QED
  BY <1>5, <1>8, <1>9, <1>10 DEF SamePolicyData, Registered

\* The selection moves only for a cause: repeated focus metadata, a frame, a
\* refused packet or an accessibility call moves it nowhere.
THEOREM MovesWithCause == Spec => SelectionMovesWithCause
<1>1. ASSUME BrokerInv, [Next]_vars, selected' # selected PROVE Cause
  <2>1. CASE Reselecting
    <3>1. ASSUME NEW k \in Keys, NEW g \in 1..MaxGeneration, SourceRemoved(k, g)
          PROVE  Cause
      <4>1. sources[k] # Absent /\ sources'[k] = Absent
        BY <1>1, <3>1 DEF SourceRemoved, BrokerInv, TypeOK
      <4>. QED
        BY <4>1 DEF Cause
    <3>2. ASSUME NEW k \in Keys, NEW g \in 1..MaxGeneration, NEW w \in Windows,
                 NEW focus \in BOOLEAN, NEW visible \in BOOLEAN,
                 SourceAdded(k, g, w, focus, visible)
          PROVE  Cause
      <4>1. /\ k \in Registered(sources')
            /\ sources'[k].generation = g
        <5>1. Registry
          BY <1>1, RegistryFacts DEF BrokerInv
        <5>2. Registry'
          BY <3>2, <5>1, AddedRegistry
        <5>3. sources \in [Keys -> Source \cup {Absent}] /\ focus_clock \in Nat
          BY <1>1 DEF BrokerInv, TypeOK
        <5>4. sources'[k] \in Source /\ sources'[k].generation = g
          BY <3>2, <5>3 DEF SourceAdded, Source
        <5>. QED
          BY <5>4, NoneAssumption DEF Registered
      <4>2. CASE sources[k] = Absent
        BY <4>1, <4>2 DEF Cause, Registered
      <4>3. CASE sources[k] # Absent
        <5>1. g > sources[k].generation /\ sources[k] \in Source
          BY <1>1, <3>2, <4>3 DEF SourceAdded, BrokerInv, TypeOK
        <5>2. sources'[k].generation # sources[k].generation
          BY <4>1, <5>1 DEF Source
        <5>. QED
          BY <4>1, <4>3, <5>2 DEF Cause, Registered
      <4>. QED
        BY <4>2, <4>3
    <3>3. ASSUME NEW k \in Keys, NEW g \in 1..MaxGeneration, NEW w \in Windows,
                 NEW focus \in BOOLEAN, NEW visible \in BOOLEAN,
                 SourceUpdated(k, g, w, focus, visible)
          PROVE  Cause
      <4>1. SUFFICES ASSUME ~Cause PROVE FALSE
        OBVIOUS
      <4>2. Reselect({}) /\ UNCHANGED <<foreground_hwnd, paused>>
        BY <3>3 DEF SourceUpdated, windowVars
      <4>. QED
        BY <1>1, <3>3, <4>1, <4>2, UpdateCause, NoCauseNoMove
    <3>4. ASSUME NEW w \in Windows \cup {NoWindow}, ForegroundChanged(w)
          PROVE  Cause
      BY <3>4 DEF ForegroundChanged, Cause
    <3>5. ASSUME NEW n \in Nonces, Disconnected(n) PROVE Cause
      <4>1. CASE \E k \in Registered(sources) : k[1] = n
        BY <3>5, <4>1 DEF Disconnected, Cause, Registered
      <4>2. CASE ~\E k \in Registered(sources) : k[1] = n
        <5>1. \A k \in Keys : sources'[k] = sources[k]
          BY <3>5, <4>2 DEF Disconnected, Registered
        <5>2. SamePolicyData(sources, sources')
          BY <5>1 DEF SamePolicyData, Registered
        <5>3. /\ Reselect({k \in Keys : k[1] = n})
              /\ UNCHANGED <<foreground_hwnd, paused>>
          BY <3>5 DEF Disconnected, windowVars
        <5>. QED
          BY <1>1, <5>2, <5>3, NoCauseNoMove
      <4>. QED
        BY <4>1, <4>2
    <3>6. ASSUME NEW pause \in BOOLEAN, SetPaused(pause) PROVE Cause
      BY <3>6 DEF SetPaused, Cause
    <3>. QED
      BY <2>1, <3>1, <3>2, <3>3, <3>4, <3>5, <3>6 DEF Reselecting, HostCall
  <2>2. CASE ~Reselecting
    BY <1>1, <2>2 DEF Next, Packet, WorkerCall, Reselecting, vars, policyVars,
       registryVars, Hello, SourceAddedRefused, FrameAccepted, FrameMalformed,
       FrameRegressed, AccessibilityTicket, PublishAccessibility,
       AccessibilityBlocked, CaptureDropped
  <2>. QED
    BY <2>1, <2>2
<1>2. BrokerInv /\ [Next]_vars => [selected' # selected => Cause]_vars
  BY <1>1
<1>. QED
  BY <1>2, BrokerInvariant, PTL DEF Spec, SelectionMovesWithCause, Cause

-----------------------------------------------------------------------------
(* Accessibility captures. *)

\* While the epoch of a ticket is current, so is its window: the epoch stands
\* for every foreground change since, there and back included.
TicketInv ==
    ticket # NoTicket /\ ticket.epoch = foreground_epoch
      => ticket.window = foreground_hwnd

\* No packet touches the ticket or the foreground window.
LEMMA PacketsKeep == Packet => UNCHANGED <<ticket, windowVars>>
<1>1. \A k, g, w, focus, visible :
         SourceAdded(k, g, w, focus, visible) => UNCHANGED <<ticket, windowVars>>
  BY DEF SourceAdded
<1>2. \A k, g, w, focus, visible :
         SourceUpdated(k, g, w, focus, visible) => UNCHANGED <<ticket, windowVars>>
  BY DEF SourceUpdated
<1>3. \A k, g : SourceAddedRefused(k, g) \/ SourceRemoved(k, g)
                  => UNCHANGED <<ticket, windowVars>>
  BY DEF SourceAddedRefused, SourceRemoved
<1>4. \A k, g, seq : \/ FrameAccepted(k, g, seq)
                     \/ FrameMalformed(k, g, seq)
                     \/ FrameRegressed(k, g, seq)
                     => UNCHANGED <<ticket, windowVars>>
  BY DEF FrameAccepted, FrameMalformed, FrameRegressed
<1>5. \A n : Hello(n) => UNCHANGED <<ticket, windowVars>>
  BY DEF Hello
<1>. QED
  BY <1>1, <1>2, <1>3, <1>4, <1>5, Zenon DEF Packet

\* Only the worker moves its ticket.
LEMMA TicketMoves ==
    ASSUME Next, ticket' # ticket
    PROVE  WorkerCall
<1>1. HostCall => ticket' = ticket
  BY DEF HostCall, ForegroundChanged, Disconnected, SetPaused
<1>. QED
  BY <1>1, PacketsKeep DEF Next

\* Only the foreground hook moves the foreground window and its epoch.
LEMMA WindowMoves ==
    ASSUME Next
    PROVE  \/ UNCHANGED windowVars
           \/ \E w \in Windows \cup {NoWindow} : ForegroundChanged(w)
<1>1. WorkerCall => UNCHANGED windowVars
  BY DEF WorkerCall, AccessibilityTicket, PublishAccessibility,
     AccessibilityBlocked, CaptureDropped
<1>2. HostCall => \/ UNCHANGED windowVars
                  \/ \E w \in Windows \cup {NoWindow} : ForegroundChanged(w)
  BY DEF HostCall, Disconnected, SetPaused
<1>. QED
  BY <1>1, <1>2, PacketsKeep DEF Next

\* A ticket of the current epoch names the window that is in front.
LEMMA TicketStep == TicketInv /\ [Next]_vars => TicketInv'
<1> SUFFICES ASSUME TicketInv, Next \/ UNCHANGED vars PROVE TicketInv'
  OBVIOUS
<1>1. CASE UNCHANGED <<ticket, windowVars>>
  BY <1>1 DEF TicketInv, windowVars
<1>2. ASSUME NEW w \in Windows \cup {NoWindow}, ForegroundChanged(w)
      PROVE  TicketInv'
  BY <1>2 DEF ForegroundChanged, TicketInv
<1>3. CASE WorkerCall
  BY <1>3 DEF WorkerCall, TicketInv, windowVars, AccessibilityTicket,
     PublishAccessibility, AccessibilityBlocked, CaptureDropped
<1>4. CASE UNCHANGED vars
  BY <1>1, <1>4 DEF vars
<1>. QED
  BY <1>1, <1>2, <1>3, <1>4, TicketMoves, WindowMoves

\* A capture reaches the viewers only while the window it was taken for has
\* been in front without interruption and belongs to no terminal.
THEOREM CapturesBelong == Spec => CaptureBelongsToForeground
<1> DEFINE Belongs ==
      published'.kind = "accessibility" /\ ticket' # ticket
          /\ privacy_hold' = FALSE /\ frame' # frame
       => /\ ticket.window = foreground_hwnd
          /\ foreground_hwnd' = foreground_hwnd
          /\ Foreground = NoKey
<1>1. Init => TicketInv
  BY DEF Init, TicketInv
<1>2. TicketInv /\ [Next]_vars => [Belongs]_vars
  <2> SUFFICES ASSUME TicketInv, Next, frame' # frame, ticket' # ticket
               PROVE  /\ ticket.window = foreground_hwnd
                      /\ foreground_hwnd' = foreground_hwnd
                      /\ Foreground = NoKey
    OBVIOUS
  <2>1. WorkerCall
    BY TicketMoves
  <2>2. PICK w \in Windows : PublishAccessibility(w)
    BY <2>1 DEF WorkerCall, AccessibilityTicket, AccessibilityBlocked,
       CaptureDropped, screenVars
  <2>. QED
    BY <2>2 DEF PublishAccessibility, TicketHonoured, TicketInv, windowVars
<1>. QED
  BY <1>1, <1>2, TicketStep, PTL DEF Spec, CaptureBelongsToForeground

-----------------------------------------------------------------------------
(* Refinement. *)

\* A new broker shows what a new view shows.
LEMMA ViewInit == Init => View!Init
  BY DEF Init, View!Init, View!BlankView, Unpublished

\* Every operation that ends in reselect elects a presenter or freezes.
LEMMA ElectOrFreeze ==
    ASSUME BrokerInv, NEW gone, Reselects(gone)
    PROVE  View!Elect \/ View!Freeze
<1>1. selected' \in Keys \cup {NoKey}
  BY ReselectType DEF BrokerInv, Reselects, Registry, Registered
<1>2. frame' = frame /\ paused' \in BOOLEAN
  BY DEF Reselects, screenVars
<1>3. paused' => selected' = NoKey
  BY DEF Reselects, Reselect, Chosen, Choice
<1>. QED
  BY <1>1, <1>2, <1>3 DEF View!Elect, View!Freeze

\* Every step of the broker is a step of the view, or none.
LEMMA ViewStep == BrokerInv /\ [Next]_vars => [View!Next]_(View!viewVars)
<1> SUFFICES ASSUME BrokerInv, [Next]_vars
             PROVE  View!Next \/ UNCHANGED View!viewVars
  OBVIOUS
<1>1. CASE Reselecting
  BY <1>1, ReselectingStep, ElectOrFreeze DEF View!Next
<1>2. ASSUME NEW k \in Keys, NEW g \in 1..MaxGeneration,
             NEW seq \in 1..MaxSequence, FrameAccepted(k, g, seq)
      PROVE  View!Next \/ UNCHANGED View!viewVars
  <2>1. UNCHANGED <<selected, paused>>
    BY <1>2 DEF FrameAccepted
  <2>2. CASE MayPublish(k)
    <3>1. selected = k /\ k # NoKey
      BY <2>2, OptionAssumption DEF MayPublish
    <3>2. ~paused
      BY <3>1 DEF BrokerInv, SelectionSettled, Choice
    <3>3. frame' = View!TerminalView(k, g, seq)
      BY <1>2, <2>2 DEF FrameAccepted, View!TerminalView, Terminal
    <3>. QED
      BY <2>1, <3>1, <3>2, <3>3 DEF View!Next, View!Paint
  <2>3. CASE ~MayPublish(k)
    BY <1>2, <2>1, <2>3 DEF FrameAccepted, screenVars, View!viewVars
  <2>. QED
    BY <2>2, <2>3
<1>3. ASSUME NEW w \in Windows, PublishAccessibility(w)
      PROVE  View!Next \/ UNCHANGED View!viewVars
  <2>1. frame' = View!CaptureView(w) /\ ~paused /\ UNCHANGED <<selected, paused>>
    BY <1>3 DEF PublishAccessibility, TicketHonoured, Accessibility,
       View!CaptureView
  <2>. QED
    BY <2>1 DEF View!Next, View!Capture
<1>4. CASE UNCHANGED <<selected, paused, frame>>
  BY <1>4 DEF View!viewVars
<1>. QED
  BY <1>1, <1>2, <1>3, <1>4 DEF Next, Packet, HostCall, WorkerCall,
     Reselecting, vars, registryVars, policyVars, screenVars, Hello,
     SourceAddedRefused, FrameMalformed, FrameRegressed, AccessibilityTicket,
     AccessibilityBlocked, CaptureDropped

\* The broker implements StreamView: only the presenter's frames appear, an
\* accessibility frame only while the stream is live, and a pause revokes the
\* presenter and freezes the view in the same step.
THEOREM KeepsViewersPromise == Spec => ViewersPromise
  BY BrokerInvariant, ViewInit, ViewStep, PTL DEF Spec, ViewersPromise, View!Spec

-----------------------------------------------------------------------------
(* The owner of the foreground window and the selection. *)

\* While the stream is live, whoever owns the foreground window is selected.
LEMMA ForegroundIsSelected ==
    ASSUME SelectionSettled, ~paused, Foreground # NoKey
    PROVE  selected = Foreground
  BY DEF SelectionSettled, Choice, Foreground

\* A frame moves nothing but a sequence number and the two memos of requests.
LEMMA FrameKeeps ==
    ASSUME BrokerInv, NEW k \in Keys, NEW g \in 1..MaxGeneration,
           NEW seq \in 1..MaxSequence,
           sources[k] # Absent, sources[k].generation = g,
           Sequenced(k, g, seq),
           UNCHANGED <<windowVars, selected>>
    PROVE  /\ Registered(sources') = Registered(sources)
           /\ \A j \in Registered(sources) :
                 /\ sources'[j].generation = sources[j].generation
                 /\ sources'[j].last_frame = IF j = k THEN seq
                                             ELSE sources[j].last_frame
           /\ Foreground' = Foreground
           /\ owing' = owing \ {k}
<1>1. /\ k \in Registered(sources) /\ seq \in Nat
      /\ sources \in [Keys -> Source \cup {Absent}]
  BY BoundAssumption DEF Registered, BrokerInv, TypeOK
<1>2. sources' = Framed(sources, k, seq) /\ owing' = owing \ {k}
  BY DEF Sequenced, Framed
<1>3. /\ Registered(sources') = Registered(sources)
      /\ \A j \in Registered(sources) :
            /\ sources'[j].generation = sources[j].generation
            /\ sources'[j].last_frame = IF j = k THEN seq
                                        ELSE sources[j].last_frame
  BY <1>1, <1>2, PolicyIgnoresFrames
<1>4. /\ ForegroundChoice(sources', foreground_hwnd, selected)
            = ForegroundChoice(sources, foreground_hwnd, selected)
      /\ Choice(sources', foreground_hwnd, paused, selected)
            = Choice(sources, foreground_hwnd, paused, selected)
  BY <1>1, <1>2, PolicyIgnoresFrames
<1>. QED
  BY <1>2, <1>3, <1>4 DEF Foreground, windowVars

\* The steps other than frames and reselections leave the registry, the
\* selection and the requests alone, and forget no refusal; only the
\* accessibility worker's publication touches the screen.
QuietStep ==
    /\ UNCHANGED <<sources, foreground_hwnd, selected, owing, paused>>
    /\ failed \subseteq failed'
    /\ \/ UNCHANGED screenVars
       \/ \E w \in Windows : PublishAccessibility(w)

\* Every step is a reselection, a frame, or quiet.
LEMMA StepKinds ==
    ASSUME BrokerInv, [Next]_vars
    PROVE  \/ \E gone : Reselects(gone)
           \/ \E k \in Keys, g \in 1..MaxGeneration, seq \in 1..MaxSequence :
                 FrameAccepted(k, g, seq) \/ FrameMalformed(k, g, seq)
           \/ QuietStep
<1> USE DEF QuietStep
<1>1. CASE Reselecting
  BY <1>1, ReselectingStep
<1>2. ASSUME NEW n \in Nonces, Hello(n) PROVE QuietStep
  BY <1>2 DEF Hello, windowVars, policyVars
<1>3. ASSUME NEW k \in Keys, NEW g \in 1..MaxGeneration,
             SourceAddedRefused(k, g)
      PROVE  QuietStep
  BY <1>3 DEF SourceAddedRefused, windowVars, policyVars
<1>4. ASSUME NEW k \in Keys, NEW g \in 1..MaxGeneration,
             NEW seq \in 1..MaxSequence, FrameRegressed(k, g, seq)
      PROVE  QuietStep
  BY <1>4 DEF FrameRegressed, windowVars, policyVars
<1>5. CASE WorkerCall
  BY <1>5 DEF WorkerCall, AccessibilityTicket, PublishAccessibility,
     AccessibilityBlocked, CaptureDropped, registryVars, windowVars, policyVars
<1>6. CASE UNCHANGED vars
  BY <1>6 DEF vars, registryVars, windowVars, policyVars
<1>. QED
  BY <1>1, <1>2, <1>3, <1>4, <1>5, <1>6 DEF Next, Packet, Reselecting

-----------------------------------------------------------------------------
(* Hybrid: the terminal in front. *)

\* A reselection leaves the terminal in front on display or asked for.
LEMMA ReselectRestores ==
    ASSUME BrokerInv, NEW gone, Reselects(gone)
    PROVE  ForegroundTerminalIsRestored'
<1>1. BrokerInv'
  BY ReselectInv
<1>2. SUFFICES ASSUME AccessibilityFallback, ~paused', Foreground' # NoKey,
                      published' # Terminal(Foreground',
                                            sources'[Foreground'].generation)
               PROVE  Foreground' \in owing'
  BY DEF ForegroundTerminalIsRestored
<1>3. selected' = Foreground'
  BY <1>1, <1>2 DEF BrokerInv, SelectionSettled, Choice, Foreground
<1>4. MustRestore(sources', foreground_hwnd', privacy_hold', selected', published)
  BY <1>2, <1>3 DEF MustRestore, Reselects, screenVars, Foreground
<1>5. selected' \in Registered(sources')
  BY <1>1, <1>2, <1>3 DEF BrokerInv, TypeOK
<1>6. <<selected', sources'[selected'].generation>> \in Keys \X (1..MaxGeneration)
  BY <1>1, <1>5 DEF BrokerInv, TypeOK, Registered, Source
<1>7. pending_full' # NoKey
  BY <1>4, <1>6, OptionAssumption DEF Reselects, Reselect
<1>8. selected' \in owing'
  BY <1>1, <1>7 DEF BrokerInv, PendingFullIsDue
<1>. QED
  BY <1>3, <1>8

\* Every operation leaves it so: its own frame is what it was asked for, no
\* other source may publish while it is in front, and neither may the
\* accessibility worker.
LEMMA RestoredStep ==
    ASSUME BrokerInv, ForegroundTerminalIsRestored, [Next]_vars
    PROVE  ForegroundTerminalIsRestored'
<1>1. ASSUME NEW gone, Reselects(gone) PROVE ForegroundTerminalIsRestored'
  BY <1>1, ReselectRestores
<1>2. ASSUME NEW k \in Keys, NEW g \in 1..MaxGeneration, NEW seq \in 1..MaxSequence,
             FrameAccepted(k, g, seq) \/ FrameMalformed(k, g, seq)
      PROVE  ForegroundTerminalIsRestored'
  <2>1. /\ sources[k] # Absent /\ sources[k].generation = g
        /\ Sequenced(k, g, seq)
        /\ UNCHANGED <<windowVars, selected, paused>>
        /\ failed \subseteq failed'
    BY <1>2 DEF FrameAccepted, FrameMalformed
  <2>2. /\ \A j \in Registered(sources) :
              sources'[j].generation = sources[j].generation
        /\ Foreground' = Foreground
        /\ owing' = owing \ {k}
    BY <2>1, FrameKeeps
  <2>3. SUFFICES ASSUME AccessibilityFallback, ~paused, Foreground # NoKey,
                        Foreground[1] \notin failed'
                 PROVE  \/ published' = Terminal(Foreground,
                                                 sources'[Foreground].generation)
                        \/ Foreground \in owing'
    BY <2>1, <2>2 DEF ForegroundTerminalIsRestored
  <2>4. selected = Foreground /\ Foreground \in Registered(sources)
    BY <2>3, ForegroundIsSelected DEF BrokerInv, TypeOK
  <2>5. CASE Foreground = k
    <3>1. MayPublish(k)
      BY <2>4, <2>5 DEF MayPublish
    <3>2. k[1] \notin failed'
      BY <2>3, <2>5
    <3>3. published' = Terminal(k, g)
      BY <1>2, <3>1, <3>2 DEF FrameAccepted, FrameMalformed
    <3>. QED
      BY <2>1, <2>2, <2>4, <2>5, <3>3
  <2>6. CASE Foreground # k
    <3>1. ~MayPublish(k)
      BY <2>4, <2>6 DEF MayPublish
    <3>2. published' = published
      BY <1>2, <3>1 DEF FrameAccepted, FrameMalformed, screenVars
    <3>3. \/ published = Terminal(Foreground, sources[Foreground].generation)
          \/ Foreground \in owing
      BY <2>1, <2>3 DEF ForegroundTerminalIsRestored
    <3>. QED
      BY <2>2, <2>4, <2>6, <3>2, <3>3
  <2>. QED
    BY <2>5, <2>6
<1>3. CASE QuietStep
  <2>1. Foreground' = Foreground
    BY <1>3 DEF QuietStep, Foreground
  <2>2. CASE UNCHANGED screenVars
    BY <1>3, <2>1, <2>2 DEF QuietStep, ForegroundTerminalIsRestored, screenVars
  <2>3. ASSUME NEW w \in Windows, PublishAccessibility(w)
        PROVE  ForegroundTerminalIsRestored'
    BY <2>1, <2>3 DEF PublishAccessibility, TicketHonoured,
       ForegroundTerminalIsRestored
  <2>. QED
    BY <1>3, <2>2, <2>3 DEF QuietStep
<1>. QED
  BY <1>1, <1>2, <1>3, StepKinds

\* In hybrid mode a terminal that comes to the front, or is still in front
\* when an accessibility frame was the last one shown, is on display or has
\* been asked for a full viewport; the memo that suppresses repeated requests
\* never suppresses this one.
THEOREM RestoresForeground == Spec => []ForegroundTerminalIsRestored
<1>1. Init => ForegroundTerminalIsRestored
  <2> SUFFICES ASSUME Init PROVE Foreground = NoKey
    BY DEF ForegroundTerminalIsRestored
  <2>1. Stamped(sources, focus_clock) /\ Visible(sources) = {}
    BY DEF Init, Stamped, Registered, Visible
  <2>. QED
    BY <2>1, ForegroundChoiceType DEF Foreground
<1>2. BrokerInv /\ ForegroundTerminalIsRestored /\ [Next]_vars
        => ForegroundTerminalIsRestored'
  BY RestoredStep
<1>. QED
  BY <1>1, <1>2, BrokerInvariant, PTL DEF Spec

-----------------------------------------------------------------------------
(* Without the fallback: the selected terminal. *)

\* Without the fallback the worker is given no ticket.
TicketsNeedFallback == ~AccessibilityFallback => ticket = NoTicket

\* No operation hands one out.
LEMMA NoTicketStep ==
    ASSUME TicketsNeedFallback, [Next]_vars
    PROVE  TicketsNeedFallback'
<1>1. CASE UNCHANGED vars
  BY <1>1 DEF vars, TicketsNeedFallback
<1>2. CASE Next /\ ticket' = ticket
  BY <1>2 DEF TicketsNeedFallback
<1>3. CASE Next /\ ticket' # ticket
  BY <1>3, TicketMoves DEF WorkerCall, TicketsNeedFallback, AccessibilityTicket,
     PublishAccessibility, AccessibilityBlocked, CaptureDropped
<1>. QED
  BY <1>1, <1>2, <1>3

\* A selection that survives a reselection is the same incarnation, when no
\* adapter advances a generation.
LEMMA SurvivorKept ==
    ASSUME MaxGeneration = 1, BrokerInv, NEW gone, Reselects(gone),
           selected' = selected, selected \in Registered(sources')
    PROVE  selected \in Registered(sources) \ gone
<1>1. selected \in Registered(sources)
  BY OptionAssumption DEF BrokerInv, TypeOK, Registered
<1>2. SUFFICES ASSUME selected \in gone PROVE FALSE
  BY <1>1
<1>3. sources'[selected].generation # sources[selected].generation
  BY <1>1, <1>2 DEF Reselects, EndsIncarnations
<1>4. sources'[selected] \in Source /\ sources[selected] \in Source
  BY <1>1 DEF Reselects, Registry, Stamped, Registered, BrokerInv, TypeOK
<1>. QED
  BY <1>3, <1>4 DEF Source

\* Every operation leaves the selected terminal's last frame on display, or
\* a full viewport asked for.
LEMMA PresentedStep ==
    ASSUME MaxGeneration = 1, ~AccessibilityFallback, TicketsNeedFallback,
           BrokerInv, PresentedIsCurrent, [Next]_vars
    PROVE  PresentedIsCurrent'
<1>1. ASSUME NEW gone, Reselects(gone) PROVE PresentedIsCurrent'
  <2>1. SUFFICES ASSUME selected' \in Registered(sources'),
                        selected'[1] \notin failed', selected' \notin owing'
                 PROVE  frame' = [source |-> Terminal(selected',
                                               sources'[selected'].generation),
                                  sequence |-> sources'[selected'].last_frame]
    BY DEF PresentedIsCurrent, MayPublish
  <2>2. selected' = selected
    BY <1>1, <2>1, OptionAssumption DEF Reselects, Reselect, Registered
  <2>3. selected \in Registered(sources) \ gone
    BY <1>1, <2>1, <2>2, SurvivorKept
  <2>4. /\ sources'[selected].generation = sources[selected].generation
        /\ sources'[selected].last_frame = sources[selected].last_frame
        /\ selected[1] \notin failed
    BY <1>1, <2>1, <2>2, <2>3 DEF Reselects, EndsIncarnations
  <2>5. selected \notin owing
    BY <1>1, <2>1, <2>2, <2>3 DEF Reselects, Reselect
  <2>6. MayPublish(selected)
    BY DEF MayPublish
  <2>7. frame = [source |-> Terminal(selected, sources[selected].generation),
                 sequence |-> sources[selected].last_frame]
    BY <2>3, <2>4, <2>5, <2>6 DEF PresentedIsCurrent
  <2>. QED
    BY <1>1, <2>2, <2>4, <2>7 DEF Reselects, screenVars
<1>2. ASSUME NEW k \in Keys, NEW g \in 1..MaxGeneration, NEW seq \in 1..MaxSequence,
             FrameAccepted(k, g, seq) \/ FrameMalformed(k, g, seq)
      PROVE  PresentedIsCurrent'
  <2>1. /\ sources[k] # Absent /\ sources[k].generation = g
        /\ Sequenced(k, g, seq)
        /\ UNCHANGED <<windowVars, selected>>
        /\ failed \subseteq failed'
    BY <1>2 DEF FrameAccepted, FrameMalformed
  <2>2. /\ Registered(sources') = Registered(sources)
        /\ \A j \in Registered(sources) :
              /\ sources'[j].generation = sources[j].generation
              /\ sources'[j].last_frame = IF j = k THEN seq
                                          ELSE sources[j].last_frame
        /\ owing' = owing \ {k}
    BY <2>1, FrameKeeps
  <2>3. SUFFICES ASSUME selected \in Registered(sources),
                        selected[1] \notin failed', selected \notin owing'
                 PROVE  frame' = [source |-> Terminal(selected,
                                               sources'[selected].generation),
                                  sequence |-> sources'[selected].last_frame]
    BY <2>1, <2>2 DEF PresentedIsCurrent, MayPublish
  <2>4. CASE selected = k
    <3>1. MayPublish(k)
      BY <2>4 DEF MayPublish
    <3>2. frame' = [source |-> Terminal(k, g), sequence |-> seq]
      BY <1>2, <2>3, <2>4, <3>1 DEF FrameAccepted, FrameMalformed
    <3>. QED
      BY <2>1, <2>2, <2>3, <2>4, <3>2
  <2>5. CASE selected # k
    <3>1. frame' = frame
      BY <1>2, <2>5 DEF FrameAccepted, FrameMalformed, MayPublish, screenVars
    <3>2. MayPublish(selected)
      BY DEF MayPublish
    <3>3. frame = [source |-> Terminal(selected, sources[selected].generation),
                   sequence |-> sources[selected].last_frame]
      BY <2>1, <2>2, <2>3, <2>5, <3>2 DEF PresentedIsCurrent
    <3>. QED
      BY <2>2, <2>3, <2>5, <3>1, <3>3
  <2>. QED
    BY <2>4, <2>5
<1>3. CASE QuietStep
  <2>1. ~\E w \in Windows : PublishAccessibility(w)
    BY DEF TicketsNeedFallback, PublishAccessibility
  <2>2. UNCHANGED screenVars
    BY <1>3, <2>1 DEF QuietStep
  <2>. QED
    BY <1>3, <2>2 DEF QuietStep, PresentedIsCurrent, MayPublish, screenVars
<1>. QED
  BY <1>1, <1>2, <1>3, StepKinds

\* Without the accessibility fallback, and as long as no adapter advances the
\* generation of a source (none does), what the viewers see of the selected
\* terminal is the last frame it sent, or a newer full viewport is on its way:
\* switching away and back never leaves an old screen on display.
THEOREM PresentsCurrent ==
    ASSUME ~AccessibilityFallback, MaxGeneration = 1
    PROVE  Spec => []PresentedIsCurrent
<1>1. Init => TicketsNeedFallback /\ PresentedIsCurrent
  BY DEF Init, TicketsNeedFallback, PresentedIsCurrent, Registered
<1>2. BrokerInv /\ TicketsNeedFallback /\ PresentedIsCurrent /\ [Next]_vars
        => TicketsNeedFallback' /\ PresentedIsCurrent'
  BY NoTicketStep, PresentedStep
<1>. QED
  BY <1>1, <1>2, BrokerInvariant, PTL DEF Spec
=============================================================================
