-------------------------- MODULE AccessibilityWorker --------------------------
(* The capture worker for windows without an adapter, between the foreground   *)
(* tracker that tells the broker which window is in front and the broker's     *)
(* ticket.  The tracker learns of a change later than the worker's provider    *)
(* does, the tree of a window is read while the window moves, and the privacy  *)
(* policy is asked at both ends of the reading.  In preview mode there is no   *)
(* broker: every capture is wanted, and the window may be selected by filters. *)
EXTENDS Naturals, Sequences, FiniteSets

CONSTANTS
    Windows,        \* top-level windows, one per application
    NoWindow,
    Terminals,      \* windows with a native source
    Name, Executable,   \* of a window's application, as it reports them
    Unknown,        \* an executable that cannot be identified
    Normal,         \* normalize_app: a name without case, path and suffix
    BuiltinDenied,  \* normalised names that are always denied
    DenyApps,       \* names denied by the command line and by privacy.toml
    Matching,       \* windows the filters of the preview match
    Places,         \* positions of a window
    First,          \* windows that may be in front when all begins
    Modes,          \* of {"hybrid", "foreground", "selected"}, the last two preview
    MaxChanges,     \* windows that come in front, open or close
    MaxEvents       \* these, moves, and captures that fail

Apps == Windows \ Terminals
Anything == Windows \cup {NoWindow}

ASSUME WorkerAssumption ==
    /\ NoWindow \notin Windows
    /\ Terminals \subseteq Windows /\ First \subseteq Anything
    /\ Matching \subseteq Windows
    /\ Unknown \notin DOMAIN Normal
    /\ DenyApps \subseteq DOMAIN Normal
    /\ \A w \in Windows : /\ Name[w] \in DOMAIN Normal
                          /\ Executable[w] \in DOMAIN Normal \cup {Unknown}
    /\ MaxChanges \in Nat /\ MaxEvents \in Nat

VARIABLES
    mode,           \* hybrid, or a preview's target
    front,          \* the window really in front
    open,           \* the windows there are
    place,          \* where they are
    tracker,        \* the tracker's start, then whether it polls
    hooked,         \* whether the foreground event is hooked
    events,         \* foreground events not yet delivered to the hook
    previous,       \* the poll's last window
    polled,         \* what the poll has read and not yet told
    gap,            \* whether front changed before the tracker could see it,
                    \* and whether the tracker has learnt of a change since
    known,          \* the broker's foreground window
    epoch,          \* the broker's foreground epoch
    hold,           \* the broker's privacy hold
    worker,         \* where the capture loop is
    ticket,         \* what wanted() gave it
    source,         \* the window it resolved, and where that was
    tree,           \* where the window was when its descendants were read
    moved,          \* places the window took on since it was resolved
    stable,         \* GeometryStabilizer: identity and bounds
    shown,          \* what viewers see
    spent           \* of the changes and events that are bounded

trackerVars == <<tracker, hooked, events, previous, polled, gap>>
brokerVars == <<known, epoch, hold>>
captureVars == <<worker, ticket, source, tree, moved>>
vars == <<mode, front, open, place, trackerVars, brokerVars, captureVars,
          stable, shown, spent>>

Nowhere == [window |-> NoWindow, at |-> 0]
Blank == [window |-> NoWindow, root |-> 0, rest |-> 0, moved |-> FALSE]

Spend ==
    /\ spent.events < MaxEvents
    /\ spent' = [spent EXCEPT !.events = @ + 1]

SpendChange ==
    /\ spent.changes < MaxChanges /\ spent.events < MaxEvents
    /\ spent' = [changes |-> spent.changes + 1, events |-> spent.events + 1]

Init ==
    /\ mode \in Modes
    /\ front \in First
    /\ open = Windows
    /\ place \in [Windows -> {CHOOSE at \in Places : TRUE}]
    /\ tracker = IF mode = "hybrid" THEN "start" ELSE "none"
    /\ hooked = FALSE /\ events = <<>> /\ previous = NoWindow /\ polled = <<>> /\ gap = "none"
    /\ known = NoWindow /\ epoch = 0 /\ hold = FALSE
    /\ worker = "idle" /\ ticket = 0 /\ source = Nowhere /\ tree = 0 /\ moved = 0
    /\ stable = Nowhere
    /\ shown = Blank
    /\ spent = [changes |-> 0, events |-> 0]
-------------------------------------------------------------------------------
(* The privacy policy and the resolution of a window.                          *)

DeniedApps == BuiltinDenied \cup {Normal[name] : name \in DenyApps}
Denied(name) == name \in DOMAIN Normal /\ Normal[name] \in DeniedApps

\* executable_name: the process may be gone, or not for us to open.
Identified(w) == Executable[w] # Unknown

\* Defect: an executable that cannot be identified is let through.
BlocksKnownOnly(w) ==
    IF Denied(Name[w]) \/ Denied(Executable[w]) THEN "blocked" ELSE "visible"

\* PrivacyPolicy::blocks fails when it cannot tell.
Blocks(w) ==
    IF Denied(Name[w]) THEN "blocked"
    ELSE IF ~Identified(w) THEN "error"
    ELSE IF Denied(Executable[w]) THEN "blocked"
    ELSE "visible"

\* window_candidates: an application that cannot be judged fails the list, one
\* that is denied is left out of it.
Candidates == {w \in open \cap Matching : Blocks(w) # "blocked"}

\* resolve_window: the windows a capture may take now, and how it ends without.
Resolved ==
    IF mode # "selected" THEN {front} \cap {w \in Windows : Blocks(w) = "visible"}
    ELSE IF \E w \in Candidates : Blocks(w) = "error" THEN {}
    ELSE Candidates
Refused == mode # "selected" /\ front \in Windows /\ Blocks(front) = "blocked"
Unresolved == ~Refused /\ Cardinality(Resolved) # 1
-------------------------------------------------------------------------------
(* The windows of the desktop.                                                 *)

\* Another window comes in front; with the hook installed there is an event.
\* Before it is, nobody sees a change until the poll has read the window it goes
\* from.
Activate(w) ==
    /\ w # front /\ w \in open \cup {NoWindow}
    /\ SpendChange
    /\ front' = w
    /\ events' = IF hooked THEN Append(events, w) ELSE events
    /\ gap' = IF ~hooked /\ tracker \in {"told", "spawned"} THEN "open" ELSE gap
    /\ UNCHANGED <<mode, open, place, tracker, hooked, previous, polled,
                   brokerVars, captureVars, stable, shown>>

\* In a preview windows open and close.
OpenOrClose(w) ==
    /\ mode = "selected"
    /\ w # front
    /\ SpendChange
    /\ open' = IF w \in open THEN open \ {w} ELSE open \cup {w}
    /\ UNCHANGED <<mode, front, place, trackerVars, brokerVars, captureVars,
                   stable, shown>>

\* Where a window is that no capture resolves makes no difference.
Move(w, at) ==
    /\ Blocks(w) = "visible" /\ at # place[w]
    /\ Spend
    /\ place' = [place EXCEPT ![w] = at]
    /\ moved' = IF worker \in {"resolved", "read"} /\ w = source.window
                THEN moved + 1 ELSE moved
    /\ UNCHANGED <<mode, front, open, trackerVars, brokerVars, worker, ticket,
                   source, tree, stable, shown>>
-------------------------------------------------------------------------------
(* The foreground tracker.                                                     *)

\* NativeBroker::foreground_changed.
Tell(w) ==
    /\ known' = w
    /\ epoch' = IF w = known THEN epoch ELSE epoch + 1
    /\ hold' = (hold /\ w = known)

\* start_named_broker tells the broker the window in front ...
TellFirst ==
    /\ tracker = "start"
    /\ tracker' = "told"
    /\ Tell(front)
    /\ UNCHANGED <<mode, front, open, place, hooked, events, previous, polled, gap,
                   captureVars, stable, shown, spent>>

\* ... and then has a thread hook the event, which may fail or take its time.
Hook ==
    /\ ~hooked
    /\ tracker \in {"told", "spawned", "poll"}
    /\ hooked' = TRUE
    /\ UNCHANGED <<mode, front, open, place, tracker, events, previous, polled,
                   gap, brokerVars, captureVars, stable, shown, spent>>

\* The thread's answer; without one in two seconds a task is spawned to poll.
Answer ==
    /\ tracker = "told"
    /\ \/ hooked /\ tracker' = "hook"
       \/ tracker' = "spawned"
    /\ UNCHANGED <<mode, front, open, place, hooked, events, previous, polled,
                   gap, brokerVars, captureVars, stable, shown, spent>>

\* The poll goes from the window it finds in front.
PollStarts ==
    /\ tracker = "spawned"
    /\ tracker' = "poll"
    /\ previous' = front
    /\ UNCHANGED <<mode, front, open, place, hooked, events, polled, gap,
                   brokerVars, captureVars, stable, shown, spent>>

HookEvent ==
    /\ events # <<>>
    /\ Tell(Head(events))
    /\ events' = Tail(events)
    /\ gap' = IF gap = "open" THEN "past" ELSE gap
    /\ UNCHANGED <<mode, front, open, place, tracker, hooked, previous, polled,
                   captureVars, stable, shown, spent>>

PollReads ==
    /\ tracker = "poll" /\ polled = <<>>
    /\ front # previous
    /\ previous' = front
    /\ polled' = <<front>>
    /\ UNCHANGED <<mode, front, open, place, tracker, hooked, events, gap, brokerVars,
                   captureVars, stable, shown, spent>>

\* Defect: the poll does not tell that no window is in front.
PollTellsWindows ==
    /\ polled # <<>>
    /\ IF polled[1] = NoWindow THEN UNCHANGED brokerVars ELSE Tell(polled[1])
    /\ polled' = <<>>
    /\ gap' = IF gap = "open" THEN "past" ELSE gap
    /\ UNCHANGED <<mode, front, open, place, tracker, hooked, events, previous,
                   captureVars, stable, shown, spent>>

PollTells ==
    /\ polled # <<>>
    /\ Tell(polled[1])
    /\ polled' = <<>>
    /\ gap' = IF gap = "open" THEN "past" ELSE gap
    /\ UNCHANGED <<mode, front, open, place, tracker, hooked, events, previous,
                   captureVars, stable, shown, spent>>
-------------------------------------------------------------------------------
(* The capture loop.                                                           *)

\* accessibility_ticket, and the condition both answers are checked against.
Wanted == known \notin Terminals
\* Defect: the answer is taken whatever changed since its ticket.
CurrentWhenever == mode = "hybrid" => Wanted

Current == mode = "hybrid" => epoch = ticket /\ Wanted

\* What a turn of the loop ends with, and what it keeps until that is told.
Outcome(pc) ==
    /\ worker' = pc
    /\ ticket' = IF pc = "idle" THEN 0 ELSE ticket
    /\ IF pc = "visible" THEN UNCHANGED <<source, tree, moved>>
       ELSE source' = Nowhere /\ tree' = 0 /\ moved' = 0
Forget == stable' = Nowhere

\* wanted(): one turn of the loop.
Wake ==
    /\ worker = "idle"
    /\ mode = "hybrid" => tracker \notin {"start", "told"} /\ Wanted /\ ~hold
    /\ worker' = "wanted"
    /\ ticket' = epoch
    /\ UNCHANGED <<mode, front, open, place, trackerVars, brokerVars, source,
                   tree, moved, stable, shown, spent>>

Resolve ==
    /\ worker = "wanted"
    /\ Cardinality(Resolved) = 1
    /\ \E w \in Resolved : source' = [window |-> w, at |-> place[w]]
    /\ moved' = 0
    /\ worker' = "resolved"
    /\ UNCHANGED <<mode, front, open, place, trackerVars, brokerVars, ticket,
                   tree, stable, shown, spent>>

\* capture_node: the descendants are read one by one after the root.
Traverse ==
    /\ worker = "resolved"
    /\ source.window \in open
    /\ tree' = place[source.window]
    /\ worker' = "read"
    /\ UNCHANGED <<mode, front, open, place, trackerVars, brokerVars, ticket,
                   source, moved, stable, shown, spent>>

\* The policy refuses the window, at either end of the reading.
Refuse ==
    /\ worker \in {"wanted", "read"}
    /\ Refused
    /\ Outcome("blocked")
    /\ UNCHANGED <<mode, front, open, place, trackerVars, brokerVars, stable,
                   shown, spent>>

\* Another window, or the same elsewhere: Unstable.
Discard ==
    /\ worker = "read"
    /\ Cardinality(Resolved) = 1
    /\ \E w \in Resolved : source # [window |-> w, at |-> place[w]]
    /\ Outcome("idle")
    /\ UNCHANGED <<mode, front, open, place, trackerVars, brokerVars, stable,
                   shown, spent>>

\* Defect: the same window is enough, wherever it is.
RecheckAnywhere ==
    /\ worker = "read"
    /\ source.window \in Resolved
    /\ Cardinality(Resolved) = 1
    /\ stable' = source
    /\ Outcome("visible")
    /\ UNCHANGED <<mode, front, open, place, trackerVars, brokerVars, shown,
                   spent>>

\* Defect: a place that is not passed on is not remembered either.
RecheckForgets ==
    /\ worker = "read"
    /\ \E w \in Resolved : source = [window |-> w, at |-> place[w]]
    /\ Cardinality(Resolved) = 1
    /\ stable' = IF stable.window = source.window THEN stable ELSE source
    /\ Outcome(IF stable.window # source.window \/ stable.at = source.at
               THEN "visible" ELSE "idle")
    /\ UNCHANGED <<mode, front, open, place, trackerVars, brokerVars, shown,
                   spent>>

\* Visible; GeometryStabilizer::should_publish remembers where the window is,
\* and passes it on unless it has just arrived there.
Recheck ==
    /\ worker = "read"
    /\ \E w \in Resolved : source = [window |-> w, at |-> place[w]]
    /\ Cardinality(Resolved) = 1
    /\ stable' = source
    /\ Outcome(IF stable.window # source.window \/ stable.at = source.at
               THEN "visible" ELSE "idle")
    /\ UNCHANGED <<mode, front, open, place, trackerVars, brokerVars, shown,
                   spent>>

\* No window, none that can be judged, several, or a provider that fails.
Fail ==
    /\ worker \in {"wanted", "resolved", "read"}
    /\ \/ worker # "resolved" /\ Unresolved /\ UNCHANGED spent
       \/ worker = "resolved" /\ source.window \notin open /\ UNCHANGED spent
       \/ Spend
    /\ Forget
    /\ Outcome("idle")
    /\ UNCHANGED <<mode, front, open, place, trackerVars, brokerVars, shown>>

\* publish_accessibility, or publish_source in a preview.
Publish ==
    /\ worker = "visible"
    /\ shown' = IF Current
                THEN [window |-> source.window, root |-> source.at, rest |-> tree,
                      moved |-> moved > 1]
                ELSE shown
    /\ hold' = (hold /\ ~Current)
    /\ Outcome("idle")
    /\ UNCHANGED <<mode, front, open, place, trackerVars, known, epoch, stable,
                   spent>>

\* accessibility_blocked: the retained terminal is shown meanwhile.
Blocked ==
    /\ worker = "blocked"
    /\ hold' = (hold \/ (mode = "hybrid" /\ Current))
    /\ Forget
    /\ Outcome("idle")
    /\ UNCHANGED <<mode, front, open, place, trackerVars, known, epoch, shown,
                   spent>>

\* The broker publishes a frame of a terminal: external to this module.
TerminalFrame(w) ==
    /\ mode = "hybrid"
    /\ w \in Terminals /\ (known = w \/ hold)
    /\ shown' = [Blank EXCEPT !.window = w]
    /\ UNCHANGED <<mode, front, open, place, trackerVars, brokerVars,
                   captureVars, stable, spent>>

Start == TellFirst \/ Answer
Poll == PollStarts \/ PollReads \/ PollTells
Tracker == Start \/ Hook \/ HookEvent \/ Poll
Capture == Wake \/ Resolve \/ Traverse \/ Refuse \/ Discard \/ Recheck \/ Fail
           \/ Publish \/ Blocked
Desktop ==
    \/ \E w \in Anything : Activate(w)
    \/ \E w \in Windows : OpenOrClose(w) \/ TerminalFrame(w)
    \/ \E w \in Apps, at \in Places : Move(w, at)

Next == Desktop \/ Tracker \/ Capture

Spec == Init /\ [][Next]_vars

\* The loop is a thread of its own, events are delivered, the wait for the hook
\* ends, the poll sleeps for a tenth of a second at most.  Nothing is assumed of
\* the desktop, nor that the hook is ever installed.
Fairness ==
    /\ WF_vars(Capture)
    /\ WF_vars(Start) /\ WF_vars(HookEvent) /\ WF_vars(Poll)

FairSpec == Spec /\ Fairness
-------------------------------------------------------------------------------
(* Properties.                                                                 *)

\* No window is shown whose application is denied under either of its names, or
\* cannot be identified; in a preview neither is one that was not asked for.
OnlyAllowedIsShown ==
    LET w == shown.window IN
    w \in Apps =>
        /\ Executable[w] # Unknown
        /\ ~Denied(Name[w]) /\ ~Denied(Executable[w])
        /\ mode = "selected" => w \in Matching

\* A frame does not mix two places of its window, unless the window left and
\* came back while its tree was read.
CoherentFrame ==
    shown.root # shown.rest => shown.moved

\* However events and polls overtake each other, with the hook, the poll or both,
\* the tracker ends up knowing which window is in front.  The exception is a
\* change that falls into its start, between what the broker is told first and
\* the hook, or the window the poll goes from: it is missed until the next one.
ForegroundIsFollowed == mode = "hybrid" => []<>(gap = "open" \/ known = front)

Capturable == {w \in Apps : Blocks(w) = "visible"}
AtRest(w) == mode = "hybrid" /\ front = w /\ known = w

\* A window that stays in front is shown in the end, as it is: the capture that
\* the stabiliser, a failure or a stale ticket dropped is made up for.
RestingWindowIsShown ==
    \A w \in Capturable :
        <>[](AtRest(w) /\ ~hold)
            => []<>(shown.window = w /\ shown.root = place[w] /\ shown.rest = place[w])

\* The privacy hold is for a denied window that is still in front: a refusal
\* that comes late never keeps a window that may be captured from being so.  A
\* poll may miss the denied window, and the start a change.
HoldIsForTheDenied ==
    hold /\ tracker = "hook" /\ gap = "none" /\ events = <<>>
        => known \in Windows /\ Blocks(known) = "blocked"
=============================================================================
