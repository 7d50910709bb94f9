------------------------------- MODULE Broker -------------------------------
(***************************************************************************)
(* The native broker: the registry of render-tap sources, the policy that  *)
(* selects one of them, and the gate in front of the published frame.      *)
(* Every public method of NativeBroker runs under one mutex, so it is one  *)
(* action here.  A packet the broker refuses ("bail!") leaves behind       *)
(* whatever it had already assigned; the pipe task then tears the          *)
(* connection down, which is a later, separate step (Disconnected).        *)
(*                                                                         *)
(* Abstracted: titles, grid contents and image blobs.  A frame is its      *)
(* source, its generation and its sequence number; whether its dimensions  *)
(* agree with the metadata and its blobs have arrived is an input.         *)
(* A packet the broker ignores (unknown source, stale generation) is a     *)
(* stuttering step.                                                        *)
(***************************************************************************)
EXTENDS Naturals, FiniteSets

CONSTANTS
    Nonces,                 \* adapter process nonces
    TerminalHosts,          \* those of Windows Terminal; the others are conhost
    SourceIds,              \* source ids inside one adapter
    Windows,                \* top-level windows
    NoWindow,               \* no foreground window
    NoKey,                  \* Option::None for a source key
    Absent,                 \* the registry has no entry
    NoTicket,               \* the accessibility worker holds no ticket
    KeepLastTerminal,       \* policy: keep_last_terminal
    AccessibilityFallback,  \* policy: accessibility_fallback (hybrid)
    MaxGeneration,          \* bound on source generations
    MaxSequence,            \* bound on frame sequence numbers
    MaxFocus,               \* bound on focus_clock
    EpochModulus            \* foreground_epoch wraps here (2^64 in the code)

ASSUME HostAssumption == TerminalHosts \subseteq Nonces
ASSUME PolicyAssumption ==
    /\ KeepLastTerminal \in BOOLEAN
    /\ AccessibilityFallback \in BOOLEAN
    /\ AccessibilityFallback => KeepLastTerminal
ASSUME BoundAssumption ==
    /\ MaxGeneration \in Nat /\ MaxSequence \in Nat
    /\ MaxFocus \in Nat /\ EpochModulus \in Nat \ {0}

Keys == Nonces \X SourceIds

ASSUME OptionAssumption ==
    /\ NoWindow \notin Windows
    /\ NoKey \notin Keys \cup (Keys \X (1..MaxGeneration))

VARIABLES
    connections,      \* nonces whose HELLO the broker accepted
    failed,           \* nonces whose pipe task is unwinding after a refusal
    sources,          \* the registry: key -> Source or Absent
    foreground_hwnd,
    foreground_epoch,
    focus_clock,
    selected,         \* the one source that should be subscribed, or NoKey
    published,        \* identity of the published frame's producer
    frame,            \* the published frame: its producer and sequence
    privacy_hold,     \* privacy_hold_terminal
    pending_full,     \* (key, generation) a full was requested from, or NoKey
    paused,
    subscribed,       \* keys whose engine the issued commands leave active
    owing,            \* keys asked for a full viewport that sent no frame since
    ticket            \* what the accessibility worker holds between two calls

registryVars == <<connections, failed, sources, focus_clock>>
windowVars   == <<foreground_hwnd, foreground_epoch>>
policyVars   == <<selected, pending_full, subscribed, owing>>
screenVars   == <<published, frame>>
vars == <<registryVars, windowVars, policyVars, screenVars,
          privacy_hold, paused, ticket>>

-----------------------------------------------------------------------------
(* Data. *)

Source == [generation : 1..MaxGeneration,
           owner_hwnd : Windows,
           focused : BOOLEAN,
           visible : BOOLEAN,
           last_focus : Nat,
           last_frame : Nat]       \* last_frame_sequence, 0 before the first

Epochs == 0..(EpochModulus - 1)

Ticket == [epoch : Epochs, window : Windows \cup {NoWindow}]

ASSUME NoneAssumption == Absent \notin Source /\ NoTicket \notin Ticket

\* PublishedSource: who produced the frame that is on display.
Unpublished == [kind |-> "none"]
Terminal(k, g) == [kind |-> "terminal", key |-> k, generation |-> g]
Accessibility(w) == [kind |-> "accessibility", window |-> w]

PublishedSource ==
    {Unpublished} \cup [kind : {"terminal"}, key : Keys,
                        generation : 1..MaxGeneration]
                  \cup [kind : {"accessibility"}, window : Windows]

Registered(srcs) == {k \in Keys : srcs[k] # Absent}
Visible(srcs) == {k \in Registered(srcs) : srcs[k].visible}

IsTerminalHost(k) == k[1] \in TerminalHosts

-----------------------------------------------------------------------------
(* Selection policy: pure functions of the registry. *)

\* The members of K that gained focus no earlier than any other, and one.
Latest(srcs, K) ==
    {k \in K : \A j \in K : srcs[j].last_focus =< srcs[k].last_focus}

MostRecent(srcs, K) == CHOOSE k \in Latest(srcs, K) : TRUE

\* Several sources, none of which was ever focused.
Ambiguous(srcs, K) ==
    /\ \E j, k \in K : j # k
    /\ \A k \in K : srcs[k].last_focus = 0

Candidates(srcs, hwnd, terminalHost) ==
    {k \in Visible(srcs) : /\ srcs[k].owner_hwnd = hwnd
                           /\ IsTerminalHost(k) = terminalHost}

\* Defect: ambiguity is not noticed; the registry's iteration order decides.
PickAnyway(srcs, K, sel) == IF K # {} THEN MostRecent(srcs, K) ELSE NoKey

\* Ambiguity freezes the selection: an ambiguous member stays selected, and
\* none is ever chosen.
Pick(srcs, K, sel) ==
    IF Ambiguous(srcs, K)
    THEN IF sel \in K THEN sel ELSE NoKey
    ELSE IF K # {} THEN MostRecent(srcs, K) ELSE NoKey

\* choose_foreground: the source that owns the foreground window, Windows
\* Terminal before conhost.
ForegroundChoice(srcs, hwnd, sel) ==
    LET host == Pick(srcs, Candidates(srcs, hwnd, TRUE), sel)
        con  == Pick(srcs, Candidates(srcs, hwnd, FALSE), sel)
    IN  IF host # NoKey THEN host ELSE con

\* Where keep_last_terminal falls back to when the selected source is gone.
Focusable(srcs) == {k \in Visible(srcs) : srcs[k].last_focus # 0}

\* Defect: the retained source is not preferred to a more recent one.
RetainedByFocusOnly(srcs, sel) ==
    IF Focusable(srcs) # {} THEN MostRecent(srcs, Focusable(srcs)) ELSE NoKey

\* Defect: the retained source is not looked up in the registry.
RetainedThoughGone(srcs, sel) ==
    IF sel # NoKey THEN sel
    ELSE IF Focusable(srcs) # {} THEN MostRecent(srcs, Focusable(srcs))
    ELSE NoKey

Retained(srcs, sel) ==
    IF sel \in Visible(srcs) THEN sel
    ELSE IF Focusable(srcs) # {} THEN MostRecent(srcs, Focusable(srcs))
    ELSE NoKey

Choice(srcs, hwnd, pause, sel) ==
    LET foreground == ForegroundChoice(srcs, hwnd, sel)
    IN  IF pause THEN NoKey
        ELSE IF foreground # NoKey THEN foreground
        ELSE IF KeepLastTerminal THEN Retained(srcs, sel)
        ELSE NoKey

Foreground == ForegroundChoice(sources, foreground_hwnd, selected)

\* Hybrid: the selected terminal must be put back on display, because it is
\* in front (or held for privacy) and another producer's frame is showing.
MustRestore(srcs, hwnd, hold, sel, pub) ==
    /\ AccessibilityFallback
    /\ sel # NoKey
    /\ hold \/ ForegroundChoice(srcs, hwnd, sel) = sel
    /\ pub # Terminal(sel, srcs[sel].generation)

-----------------------------------------------------------------------------
(* reselect, the tail of every operation that can change the selection.    *)
(* Its commands are applied to the two external ledgers: "subscribed" and  *)
(* "owing" are what the adapters hold once the commands have arrived in    *)
(* order.  gone is the set of engines this operation found to be dead or   *)
(* replaced: their subscription ended with them.                           *)

\* Defect: the choice is made before the operation's changes are stored.
ChosenTooEarly == Choice(sources, foreground_hwnd, paused, selected)

Chosen == Choice(sources', foreground_hwnd', paused', selected)

\* Defect: the old selection is not unsubscribed.
ResubscribeOnlyNew(active, old, new) == active \cup ({new} \ {NoKey})

\* Unsubscribe the old selection, subscribe the new one.
Resubscribe(active, old, new) == (active \ {old}) \cup ({new} \ {NoKey})

Reselect(gone) ==
    /\ selected' = Chosen
    /\ LET restore == MustRestore(sources', foreground_hwnd', privacy_hold',
                                  selected', published)
           request == <<selected', sources'[selected'].generation>>
           switch  == selected' # selected
           ask     == switch \/ (restore /\ pending_full # request)
       IN  /\ subscribed' = IF switch
                            THEN Resubscribe(subscribed \ gone, selected,
                                             selected')
                            ELSE subscribed \ gone
           /\ owing' = (owing \ gone) \cup
                       (IF ask THEN {selected'} \ {NoKey} ELSE {})
           /\ pending_full' = IF restore THEN request ELSE NoKey

-----------------------------------------------------------------------------
(* Packets.  Each comes from a connection that is not unwinding. *)

Speaks(n) == n \in connections \ failed

Init ==
    /\ connections = {} /\ failed = {}
    /\ sources = [k \in Keys |-> Absent]
    /\ foreground_hwnd = NoWindow
    /\ foreground_epoch = 0
    /\ focus_clock = 0
    /\ selected = NoKey
    /\ published = Unpublished
    /\ frame = [source |-> Unpublished, sequence |-> 0]
    /\ privacy_hold = FALSE
    /\ pending_full = NoKey
    /\ paused = FALSE
    /\ subscribed = {} /\ owing = {}
    /\ ticket = NoTicket

\* A duplicate HELLO comes from an adapter that reconnected after its old
\* pipe task gave up its route and before that task told the broker: both
\* tasks unwind.
Hello(n) ==
    /\ n \notin failed
    /\ connections' = connections \cup {n}
    /\ failed' = IF n \in connections THEN failed \cup {n} ELSE failed
    /\ UNCHANGED <<sources, focus_clock, windowVars, policyVars, screenVars,
                   privacy_hold, paused, ticket>>

Tick(gained) == IF gained THEN focus_clock + 1 ELSE focus_clock

SourceAdded(k, g, w, focus, visible) ==
    /\ Speaks(k[1])
    /\ sources[k] # Absent => g > sources[k].generation
    /\ focus => focus_clock < MaxFocus
    /\ focus_clock' = Tick(focus)
    /\ sources' = [sources EXCEPT ![k] =
           [generation |-> g, owner_hwnd |-> w, focused |-> focus,
            visible |-> visible,
            last_focus |-> IF focus THEN focus_clock + 1 ELSE 0,
            last_frame |-> 0]]
    /\ UNCHANGED <<connections, failed, windowVars, screenVars,
                   privacy_hold, paused, ticket>>
    /\ Reselect({k})

\* A generation that does not advance is refused before anything changes.
SourceAddedRefused(k, g) ==
    /\ Speaks(k[1])
    /\ sources[k] # Absent /\ g =< sources[k].generation
    /\ failed' = failed \cup {k[1]}
    /\ UNCHANGED <<connections, sources, focus_clock, windowVars, policyVars,
                   screenVars, privacy_hold, paused, ticket>>

\* Defect: a repeated "focused" counts as a new focus.
GainsFocusByLevel(k, focus) == focus

\* The focus bit is a level in every metadata packet; only its rising edge
\* advances the focus order.
GainsFocus(k, focus) == focus /\ ~sources[k].focused

\* An absent optional field is the field's present value.
SourceUpdated(k, g, w, focus, visible) ==
    /\ Speaks(k[1])
    /\ sources[k] # Absent /\ sources[k].generation = g
    /\ LET gained == GainsFocus(k, focus)
       IN  /\ gained => focus_clock < MaxFocus
           /\ focus_clock' = Tick(gained)
           /\ sources' = [sources EXCEPT ![k] =
                  [generation |-> g, owner_hwnd |-> w, focused |-> focus,
                   visible |-> visible,
                   last_focus |-> IF gained THEN focus_clock + 1
                                  ELSE sources[k].last_focus,
                   last_frame |-> sources[k].last_frame]]
    /\ UNCHANGED <<connections, failed, windowVars, screenVars,
                   privacy_hold, paused, ticket>>
    /\ Reselect({})

SourceRemoved(k, g) ==
    /\ Speaks(k[1])
    /\ sources[k] # Absent /\ sources[k].generation = g
    /\ sources' = [sources EXCEPT ![k] = Absent]
    /\ UNCHANGED <<connections, failed, focus_clock, windowVars, screenVars,
                   privacy_hold, paused, ticket>>
    /\ Reselect({k})

\* Defect: in hybrid mode only a held terminal is published.
MayPublishHeldOnly(k) ==
    selected = k /\ (~AccessibilityFallback \/ privacy_hold)

\* Defect: only the pane that has focus is published.
MayPublishFocused(k) == selected = k /\ sources[k].focused

\* Whether a frame of k may reach the viewers: k is selected and, in hybrid
\* mode, k is in front or held.
MayPublish(k) ==
    /\ selected = k
    /\ \/ ~AccessibilityFallback
       \/ privacy_hold
       \/ Foreground = k

\* Defect: the answered request is not cleared.
SequencedStillPending(k, g, seq) ==
    /\ sources' = [sources EXCEPT ![k].last_frame = seq]
    /\ pending_full' = pending_full
    /\ owing' = owing \ {k}

\* What an accepted sequence number does before the frame is looked at.
Sequenced(k, g, seq) ==
    /\ sources' = [sources EXCEPT ![k].last_frame = seq]
    /\ pending_full' = IF pending_full = <<k, g>> THEN NoKey ELSE pending_full
    /\ owing' = owing \ {k}

FrameAccepted(k, g, seq) ==
    /\ Speaks(k[1])
    /\ sources[k] # Absent /\ sources[k].generation = g
    /\ seq > sources[k].last_frame
    /\ Sequenced(k, g, seq)
    /\ IF MayPublish(k)
       THEN /\ published' = Terminal(k, g)
            /\ frame' = [source |-> Terminal(k, g), sequence |-> seq]
       ELSE UNCHANGED screenVars
    /\ UNCHANGED <<connections, failed, focus_clock, windowVars, selected,
                   subscribed, privacy_hold, paused, ticket>>

\* Dimensions that disagree with the metadata, or an image never sent: the
\* sequence number and the pending request are already consumed.
FrameMalformed(k, g, seq) ==
    /\ Speaks(k[1])
    /\ sources[k] # Absent /\ sources[k].generation = g
    /\ seq > sources[k].last_frame
    /\ Sequenced(k, g, seq)
    /\ failed' = failed \cup {k[1]}
    /\ UNCHANGED <<connections, focus_clock, windowVars, selected, subscribed,
                   screenVars, privacy_hold, paused, ticket>>

FrameRegressed(k, g, seq) ==
    /\ Speaks(k[1])
    /\ sources[k] # Absent /\ sources[k].generation = g
    /\ seq =< sources[k].last_frame
    /\ failed' = failed \cup {k[1]}
    /\ UNCHANGED <<connections, sources, focus_clock, windowVars, policyVars,
                   screenVars, privacy_hold, paused, ticket>>

-----------------------------------------------------------------------------
(* Calls of the host: foreground hook, pipe tasks, control plane. *)

NextEpoch == (foreground_epoch + 1) % EpochModulus

\* The epoch does not come around to that of an outstanding ticket: 2^64
\* foreground changes do not fit in one capture.
ForegroundChanged(w) ==
    /\ w # foreground_hwnd
    /\ foreground_hwnd' = w
    /\ ticket # NoTicket => NextEpoch # ticket.epoch
    /\ foreground_epoch' = NextEpoch
    /\ privacy_hold' = FALSE
    /\ UNCHANGED <<registryVars, screenVars, paused, ticket>>
    /\ Reselect({})

Disconnected(n) ==
    /\ n \in connections
    /\ connections' = connections \ {n}
    /\ failed' = failed \ {n}
    /\ sources' = [k \in Keys |-> IF k[1] = n THEN Absent ELSE sources[k]]
    /\ UNCHANGED <<focus_clock, windowVars, screenVars, privacy_hold, paused,
                   ticket>>
    /\ Reselect({k \in Keys : k[1] = n})

SetPaused(pause) ==
    /\ paused # pause
    /\ paused' = pause
    /\ UNCHANGED <<registryVars, windowVars, screenVars, privacy_hold, ticket>>
    /\ Reselect({})

-----------------------------------------------------------------------------
(* Calls of the accessibility worker.  It takes a ticket, captures for a   *)
(* while, and comes back with it.                                          *)

AccessibilityTicket ==
    /\ AccessibilityFallback
    /\ ticket = NoTicket
    /\ ~paused /\ ~privacy_hold /\ Foreground = NoKey
    /\ ticket' = [epoch |-> foreground_epoch, window |-> foreground_hwnd]
    /\ UNCHANGED <<registryVars, windowVars, policyVars, screenVars,
                   privacy_hold, paused>>

\* Defect: the ticket's epoch is not compared.
TicketHonouredAnyEpoch == ~paused /\ Foreground = NoKey

\* Defect: a capture that started before a pause is published during it.
TicketHonouredInPause == foreground_epoch = ticket.epoch /\ Foreground = NoKey

TicketHonoured ==
    /\ ~paused
    /\ foreground_epoch = ticket.epoch
    /\ Foreground = NoKey

PublishAccessibility(w) ==
    /\ ticket # NoTicket /\ TicketHonoured
    /\ privacy_hold' = FALSE
    /\ pending_full' = NoKey
    /\ published' = Accessibility(w)
    /\ frame' = [source |-> Accessibility(w), sequence |-> 0]
    /\ ticket' = NoTicket
    /\ UNCHANGED <<registryVars, windowVars, selected, subscribed, owing,
                   paused>>

AccessibilityBlocked ==
    /\ ticket # NoTicket /\ TicketHonoured
    /\ privacy_hold' = TRUE
    /\ ticket' = NoTicket
    /\ UNCHANGED <<registryVars, windowVars, policyVars, screenVars, paused>>

\* The call was refused, or the capture failed and no call was made.
CaptureDropped ==
    /\ ticket # NoTicket
    /\ ticket' = NoTicket
    /\ UNCHANGED <<registryVars, windowVars, policyVars, screenVars,
                   privacy_hold, paused>>

-----------------------------------------------------------------------------
Packet ==
    \/ \E n \in Nonces : Hello(n)
    \/ \E k \in Keys, g \in 1..MaxGeneration :
          \/ SourceAddedRefused(k, g)
          \/ SourceRemoved(k, g)
          \/ \E w \in Windows, focus, visible \in BOOLEAN :
                \/ SourceAdded(k, g, w, focus, visible)
                \/ SourceUpdated(k, g, w, focus, visible)
          \/ \E seq \in 1..MaxSequence :
                \/ FrameAccepted(k, g, seq)
                \/ FrameMalformed(k, g, seq)
                \/ FrameRegressed(k, g, seq)

HostCall ==
    \/ \E w \in Windows \cup {NoWindow} : ForegroundChanged(w)
    \/ \E n \in Nonces : Disconnected(n)
    \/ \E pause \in BOOLEAN : SetPaused(pause)

WorkerCall ==
    \/ AccessibilityTicket
    \/ \E w \in Windows : PublishAccessibility(w)
    \/ AccessibilityBlocked
    \/ CaptureDropped

Next == Packet \/ HostCall \/ WorkerCall

Spec == Init /\ [][Next]_vars

-----------------------------------------------------------------------------
(* Properties. *)

\* Every variable has its type; the selected source is registered; a
\* connection that unwinds is still in the table.
TypeOK ==
    /\ connections \subseteq Nonces /\ failed \subseteq connections
    /\ sources \in [Keys -> Source \cup {Absent}]
    /\ \A k \in Keys : k[1] \notin connections => sources[k] = Absent
    /\ foreground_hwnd \in Windows \cup {NoWindow}
    /\ foreground_epoch \in Epochs /\ focus_clock \in Nat
    /\ selected \in Registered(sources) \cup {NoKey}
    /\ published \in PublishedSource
    /\ frame \in [source : {published}, sequence : Nat]
    /\ privacy_hold \in BOOLEAN /\ paused \in BOOLEAN
    /\ pending_full \in (Keys \X (1..MaxGeneration)) \cup {NoKey}
    /\ subscribed \subseteq Registered(sources)
    /\ owing \subseteq Registered(sources)
    /\ ticket \in Ticket \cup {NoTicket}

\* No operation that can change the outcome of the policy returns without
\* applying it: at rest the selection is the one the policy would make again
\* from the state it left (handle, foreground_changed, disconnected and
\* set_paused all end in reselect; frame, image and the accessibility calls
\* do not, and must not need to).
SelectionSettled ==
    selected = Choice(sources, foreground_hwnd, paused, selected)

\* Adapters that obey the commands in order keep the selected engine active
\* and every other engine dormant, across switches, removals, disconnections
\* and pauses.  (An adapter never advances the generation of a source.)
SubscriptionFollowsSelection == subscribed = {selected} \ {NoKey}

\* The focus order is strict among the sources that ever had focus, so the
\* iteration order of the registry's hash map cannot decide a selection.
FocusOrder ==
    /\ \A k \in Registered(sources) : sources[k].last_focus =< focus_clock
    /\ \A j, k \in Registered(sources) :
          j # k /\ sources[j].last_focus # 0
             => sources[j].last_focus # sources[k].last_focus

\* A remembered RequestFull (pending_full suppresses repeats) is always for
\* the selected incarnation, still needed, and still unanswered: it can never
\* suppress a request that has to be made.
PendingFullIsDue ==
    pending_full # NoKey =>
        /\ MustRestore(sources, foreground_hwnd, privacy_hold, selected,
                       published)
        /\ pending_full = <<selected, sources[selected].generation>>
        /\ selected \in owing

\* Hybrid: a terminal that owns the foreground window is on display, or has
\* been asked for the full frame that will put it there.
ForegroundTerminalIsRestored ==
    /\ AccessibilityFallback
    /\ ~paused
    /\ Foreground # NoKey
    /\ Foreground[1] \notin failed
    => \/ published = Terminal(Foreground, sources[Foreground].generation)
       \/ Foreground \in owing

\* The frame of a terminal that may publish is the last one it sent, unless
\* a newer full viewport has been asked for and is on its way: switching away
\* and back never leaves an old screen on display.
PresentedIsCurrent ==
    \A k \in Registered(sources) :
        MayPublish(k) /\ k[1] \notin failed =>
            \/ k \in owing
            \/ frame = [source |-> Terminal(k, sources[k].generation),
                        sequence |-> sources[k].last_frame]

\* A selected source that is still visible loses the selection only to the
\* owner of the foreground window or to a pause: an unrelated foreground
\* window never downgrades a retained pane.
RetainedSelection ==
    [][KeepLastTerminal /\ ~paused'
         /\ selected \in Visible(sources') /\ selected' # selected
       => selected' = ForegroundChoice(sources', foreground_hwnd', selected)
      ]_vars

\* Ambiguity is never resolved by chance: a newly selected source was focused
\* at some time, or is the only visible one of its kind in its window.
ElectionIsUnambiguous ==
    [][selected' \notin {selected, NoKey} =>
         LET source == sources'[selected']
         IN  \/ source.last_focus # 0
             \/ Candidates(sources', source.owner_hwnd,
                           IsTerminalHost(selected')) = {selected'}
      ]_vars

\* The selection moves only for a reason the operator caused: a foreground
\* change, a pause or resume, a source that appears, disappears, moves or
\* changes visibility, or a pane that gains focus.  Repeated focus metadata
\* of an old tab is not a reason.
SelectionMovesWithCause ==
    [][selected' # selected =>
         \/ foreground_hwnd' # foreground_hwnd
         \/ paused' # paused
         \/ \E k \in Keys :
               \/ (sources[k] = Absent) # (sources'[k] = Absent)
               \/ /\ sources[k] # Absent /\ sources'[k] # Absent
                  /\ \/ sources'[k].owner_hwnd # sources[k].owner_hwnd
                     \/ sources'[k].visible # sources[k].visible
                     \/ sources'[k].generation # sources[k].generation
                     \/ sources'[k].focused /\ ~sources[k].focused
      ]_vars

\* A capture is put on display only while the window that was in front when
\* its ticket was taken is in front, and no terminal has claimed that window
\* in the meantime.
CaptureBelongsToForeground ==
    [][published'.kind = "accessibility" /\ ticket' # ticket
          /\ privacy_hold' = FALSE /\ frame' # frame
       => /\ ticket.window = foreground_hwnd
          /\ foreground_hwnd' = foreground_hwnd
          /\ Foreground = NoKey
      ]_vars

\* The broker implements the promise made to viewers.
View == INSTANCE StreamView WITH
            presenter <- selected, frozen <- paused, view <- frame,
            Generations <- 1..MaxGeneration, Sequences <- 1..MaxSequence
ViewersPromise == View!Spec
=============================================================================
