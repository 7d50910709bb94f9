----------------------------- MODULE WorkerProofs -----------------------------
(* Theorems about AccessibilityWorker: for every desktop, every privacy policy, *)
(* every way to track the foreground and every bound, nothing is shown that the *)
(* policy denies, no frame mixes two places of a window, and a privacy hold is  *)
(* for the window it was meant for.                                             *)
EXTENDS AccessibilityWorker, SequenceTheorems, TLAPS

\* A window that resolve_window may answer with.
Admitted(w) ==
    /\ w \in Windows
    /\ Blocks(w) = "visible"
    /\ mode = "selected" => w \in Matching

\* From its resolution on, the window that is captured is one that is admitted:
\* what is shown was captured, and the second check only ever ends a capture.
CapturesAdmitted ==
    /\ worker \in {"resolved", "read", "visible"} => Admitted(source.window)
    /\ shown.window \in Apps => Admitted(shown.window)

LEMMA Judged ==
    ASSUME NEW w
    PROVE  Blocks(w) \in {"blocked", "error", "visible"}
  BY DEF Blocks

LEMMA ResolvedAreAdmitted ==
    ASSUME NEW w \in Resolved
    PROVE  Admitted(w)
  <1>1. CASE mode # "selected"
    BY <1>1 DEF Resolved, Admitted
  <1>2. CASE mode = "selected"
    <2>1. w \in Candidates /\ ~\E v \in Candidates : Blocks(v) = "error"
      BY <1>2 DEF Resolved
    <2>2. Blocks(w) = "visible"
      BY <2>1, Judged DEF Candidates
    <2>3. w \in Windows \cap Matching
      BY <2>1, WorkerAssumption DEF Candidates
    <2> QED
      BY <2>2, <2>3 DEF Admitted
  <1> QED
    BY <1>1, <1>2

LEMMA AdmittedInit == Init => CapturesAdmitted
  BY WorkerAssumption DEF Init, CapturesAdmitted, Blank, Apps

\* A step that takes up no window and shows none.
LEMMA AdmittedStay ==
    ASSUME CapturesAdmitted, mode' = mode,
           \/ UNCHANGED <<worker, source>>
           \/ worker' \in {"idle", "wanted", "blocked"}
           \/ worker \in {"resolved", "read", "visible"} /\ source' = source,
           shown' = shown
    PROVE  CapturesAdmitted'
  BY DEF CapturesAdmitted, Admitted, Apps, Blocks, Denied, Identified

LEMMA AdmittedNext == CapturesAdmitted /\ [Next]_vars => CapturesAdmitted'
  <1> SUFFICES ASSUME CapturesAdmitted, [Next]_vars PROVE CapturesAdmitted'
    OBVIOUS
  <1>1. ASSUME NEW w, Activate(w) \/ OpenOrClose(w) PROVE CapturesAdmitted'
    BY <1>1, AdmittedStay DEF Activate, OpenOrClose, captureVars
  <1>2. ASSUME NEW w, NEW at, Move(w, at) PROVE CapturesAdmitted'
    BY <1>2, AdmittedStay DEF Move
  <1>3. ASSUME NEW w, TerminalFrame(w) PROVE CapturesAdmitted'
    <2>1. shown'.window = w /\ w \notin Apps /\ mode' = mode
      BY <1>3 DEF TerminalFrame, Blank, Apps
    <2>2. UNCHANGED <<worker, source>>
      BY <1>3 DEF TerminalFrame, captureVars
    <2> QED
      BY <2>1, <2>2 DEF CapturesAdmitted, Admitted, Apps, Blocks, Denied, Identified
  <1>4. CASE Tracker
    <2>1. UNCHANGED <<mode, worker, source, shown>>
      BY <1>4 DEF Tracker, Start, TellFirst, Answer, Hook, HookEvent, Poll, PollStarts,
                  PollReads, PollTells, captureVars
    <2> QED
      BY <2>1, AdmittedStay
  <1>5. CASE Wake
    BY <1>5, AdmittedStay DEF Wake, Outcome
  <1>6. CASE Resolve
    <2>1. PICK w \in Resolved : source' = [window |-> w, at |-> place[w]]
      BY <1>6 DEF Resolve
    <2>2. Admitted(source'.window) /\ UNCHANGED <<mode, shown>>
      BY <1>6, <2>1, ResolvedAreAdmitted DEF Resolve
    <2> QED
      BY <2>2 DEF CapturesAdmitted, Admitted, Apps, Blocks, Denied, Identified
  <1>7. CASE Traverse
    BY <1>7, AdmittedStay DEF Traverse, Outcome
  <1>8. CASE Refuse \/ Discard \/ Fail \/ Blocked
    BY <1>8, AdmittedStay DEF Refuse, Discard, Fail, Blocked, Outcome
  <1>9. CASE Recheck
    BY <1>9, AdmittedStay DEF Recheck, Outcome
  <1>10. CASE Publish
    <2>1. /\ worker = "visible" /\ worker' = "idle" /\ mode' = mode
          /\ shown' = shown \/ shown'.window = source.window
      BY <1>10 DEF Publish, Outcome
    <2> QED
      BY <2>1 DEF CapturesAdmitted, Admitted, Apps, Blocks, Denied, Identified
  <1>11. CASE UNCHANGED vars
    <2>1. UNCHANGED <<mode, worker, source, shown>>
      BY <1>11 DEF vars, captureVars
    <2> QED
      BY <2>1, AdmittedStay
  <1> QED
    BY <1>1, <1>2, <1>3, <1>4, <1>5, <1>6, <1>7, <1>8, <1>9, <1>10, <1>11
       DEF Next, Desktop, Capture

\* What viewers see is never of an application that is denied under either name,
\* or cannot be identified, or was not asked for (accessibility.rs, resolve_window
\* and capture), however the windows change between the two checks of a capture
\* and its publication.
THEOREM ShowsOnlyAllowed == Spec => []OnlyAllowedIsShown
  <1>1. CapturesAdmitted => OnlyAllowedIsShown
    <2> SUFFICES ASSUME CapturesAdmitted, shown.window \in Apps
                 PROVE  /\ Executable[shown.window] # Unknown
                        /\ ~Denied(Name[shown.window])
                        /\ ~Denied(Executable[shown.window])
                        /\ mode = "selected" => shown.window \in Matching
      BY DEF OnlyAllowedIsShown
    <2>1. Admitted(shown.window)
      BY DEF CapturesAdmitted
    <2> QED
      BY <2>1 DEF Admitted, Blocks, Identified
  <1> QED
    BY <1>1, AdmittedInit, AdmittedNext, PTL DEF Spec
-------------------------------------------------------------------------------
(* A capture reads its window three times: its root, its descendants, and its  *)
(* root again.                                                                 *)

Here == place[source.window]

\* How often the window has moved at least, from what the readings saw and where
\* it is: a reading elsewhere takes one move, one elsewhere and back takes two.
MovesAreCounted ==
    /\ moved \in Nat
    /\ worker = "resolved" /\ Here # source.at => moved >= 1
    /\ worker = "read" /\ tree # source.at => moved >= 1
    /\ worker = "read" /\ tree # source.at /\ Here = source.at => moved >= 2
    /\ worker = "visible" /\ tree # source.at => moved >= 2

CoherentInv == MovesAreCounted /\ CoherentFrame

LEMMA CoherentInit == Init => CoherentInv
  BY DEF Init, CoherentInv, MovesAreCounted, CoherentFrame, Blank

LEMMA CoherentStay ==
    ASSUME CoherentInv, UNCHANGED <<place, source, tree, moved, shown>>,
           worker' = worker \/ worker' \in {"idle", "wanted", "blocked"}
    PROVE  CoherentInv'
  BY DEF CoherentInv, MovesAreCounted, CoherentFrame, Here

LEMMA CoherentEnd ==
    ASSUME CoherentInv, NEW pc \in {"idle", "blocked"}, Outcome(pc), shown' = shown
    PROVE  CoherentInv'
  BY DEF Outcome, CoherentInv, MovesAreCounted, CoherentFrame

\* One move more, wherever it leads.
LEMMA MoveKeepsCount ==
    ASSUME CoherentInv, NEW w, NEW at, Move(w, at)
    PROVE  CoherentInv'
  <1>1. UNCHANGED <<worker, source, tree, shown>>
    BY DEF Move
  <1>2. CASE worker \in {"resolved", "read"} /\ w = source.window
    <2>1. moved' = moved + 1
      BY <1>2 DEF Move
    <2> QED
      BY <1>1, <1>2, <2>1 DEF CoherentInv, MovesAreCounted, CoherentFrame
  <1>3. CASE worker \in {"resolved", "read"} /\ w # source.window
    <2>1. moved' = moved /\ Here' = Here
      BY <1>1, <1>3 DEF Move, Here
    <2> QED
      BY <1>1, <1>3, <2>1 DEF CoherentInv, MovesAreCounted, CoherentFrame
  <1>4. CASE worker \notin {"resolved", "read"}
    <2>1. moved' = moved
      BY <1>4 DEF Move
    <2> QED
      BY <1>1, <1>4, <2>1 DEF CoherentInv, MovesAreCounted, CoherentFrame
  <1> QED
    BY <1>2, <1>3, <1>4

LEMMA CoherentNext == CoherentInv /\ [Next]_vars => CoherentInv'
  <1> SUFFICES ASSUME CoherentInv, [Next]_vars PROVE CoherentInv'
    OBVIOUS
  <1>1. ASSUME NEW w, Activate(w) \/ OpenOrClose(w) PROVE CoherentInv'
    BY <1>1, CoherentStay DEF Activate, OpenOrClose, captureVars
  <1>2. ASSUME NEW w, NEW at, Move(w, at) PROVE CoherentInv'
    BY <1>2, MoveKeepsCount
  <1>3. ASSUME NEW w, TerminalFrame(w) PROVE CoherentInv'
    <2>1. /\ shown'.root = shown'.rest
          /\ UNCHANGED <<place, worker, source, tree, moved>>
      BY <1>3 DEF TerminalFrame, Blank, captureVars
    <2> QED
      BY <2>1 DEF CoherentInv, MovesAreCounted, CoherentFrame, Here
  <1>4. CASE Tracker
    <2>1. UNCHANGED <<place, worker, source, tree, moved, shown>>
      BY <1>4 DEF Tracker, Start, TellFirst, Answer, Hook, HookEvent, Poll, PollStarts,
                  PollReads, PollTells, captureVars
    <2> QED
      BY <2>1, CoherentStay
  <1>5. CASE Wake \/ Refuse \/ Discard \/ Fail \/ Blocked
    <2>1. CASE Wake
      BY <2>1, CoherentStay DEF Wake
    <2>2. CASE Refuse \/ Discard \/ Fail \/ Blocked
      BY <2>2, CoherentEnd DEF Refuse, Discard, Fail, Blocked
    <2> QED
      BY <1>5, <2>1, <2>2
  <1>6. CASE Resolve
    <2>1. /\ Here' = source'.at
          /\ moved' = 0 /\ worker' = "resolved" /\ shown' = shown
      BY <1>6 DEF Resolve, Here
    <2> QED
      BY <2>1 DEF CoherentInv, MovesAreCounted, CoherentFrame
  <1>7. CASE Traverse
    <2>1. /\ worker = "resolved" /\ worker' = "read" /\ tree' = Here
          /\ UNCHANGED <<place, source, moved, shown>>
      BY <1>7 DEF Traverse, Here
    <2> QED
      BY <2>1 DEF CoherentInv, MovesAreCounted, CoherentFrame, Here
  <1>8. CASE Recheck
    <2>1. /\ worker = "read" /\ Here = source.at
          /\ UNCHANGED <<place, shown>>
          /\ Outcome("visible") \/ Outcome("idle")
      BY <1>8 DEF Recheck, Here
    <2>2. CASE Outcome("visible")
      BY <2>1, <2>2 DEF Outcome, CoherentInv, MovesAreCounted, CoherentFrame
    <2> QED
      BY <2>1, <2>2, CoherentEnd
  <1>9. CASE Publish
    <2>1. worker = "visible" /\ worker' = "idle" /\ moved' = 0
      BY <1>9 DEF Publish, Outcome
    <2>2. MovesAreCounted'
      BY <2>1 DEF CoherentInv, MovesAreCounted
    <2>3. CASE Current
      <3>1. moved \in Nat /\ (tree # source.at => moved > 1)
        BY <2>1 DEF CoherentInv, MovesAreCounted
      <3>2. /\ shown'.root = source.at /\ shown'.rest = tree
            /\ moved > 1 => shown'.moved
        BY <1>9, <2>3 DEF Publish
      <3> QED
        BY <2>2, <3>1, <3>2 DEF CoherentInv, CoherentFrame
    <2>4. CASE ~Current
      <3>1. shown' = shown
        BY <1>9, <2>4 DEF Publish
      <3> QED
        BY <2>2, <3>1 DEF CoherentInv, CoherentFrame
    <2> QED
      BY <2>3, <2>4
  <1>10. CASE UNCHANGED vars
    <2>1. UNCHANGED <<place, worker, source, tree, moved, shown>>
      BY <1>10 DEF vars, captureVars
    <2> QED
      BY <2>1, CoherentStay
  <1> QED
    BY <1>1, <1>2, <1>3, <1>4, <1>5, <1>6, <1>7, <1>8, <1>9, <1>10
       DEF Next, Desktop, Capture

\* A frame mixes two places of its window only if the window left and came back
\* while it was read: comparing the identity at both ends (accessibility.rs,
\* capture) catches every single move.
THEOREM FramesAreCoherent == Spec => []CoherentFrame
  <1>1. CoherentInv => CoherentFrame
    BY DEF CoherentInv
  <1> QED
    BY <1>1, CoherentInit, CoherentNext, PTL DEF Spec
-------------------------------------------------------------------------------
(* The hook delivers every change after it was installed, in order: what the   *)
(* broker will know once the events are delivered is what is in front now.     *)

DeniedWindow(w) == w \in Windows /\ Blocks(w) = "blocked"
Tracking == hooked /\ tracker \in {"told", "hook"} /\ gap = "none"

\* Before the start is over nothing is captured, and a first reading that no
\* change has overtaken is right until the hook reports the next one.
StartIsQuiet ==
    /\ tracker \in {"start", "told"} => worker = "idle" /\ hold = FALSE
    /\ tracker \in {"start", "told", "hook"} => polled = <<>>
    /\ ~hooked => events = <<>> /\ tracker # "hook"
    /\ tracker = "start" => ~hooked
    /\ tracker = "told" /\ ~hooked /\ gap = "none" => known = front
    /\ mode # "hybrid" => tracker = "none" /\ hold = FALSE
    /\ hooked \in BOOLEAN
    /\ events \in Seq(Anything)
    /\ {epoch, ticket} \subseteq Nat /\ ticket <= epoch

\* The events are the steps from the window that is known to the one in front.
EventsLead ==
    Tracking =>
        /\ events = <<>> => known = front
        /\ events # <<>> => Head(events) # known /\ events[Len(events)] = front
        /\ \A i \in 1..Len(events) - 1 : events[i] # events[i + 1]

\* A refusal counts only for the window in front when it was made: an event
\* that is still to come makes its ticket stale.
RefusalIsForFront ==
    Tracking /\ events = <<>> =>
        /\ worker = "blocked" /\ epoch = ticket => DeniedWindow(known)
        /\ hold => DeniedWindow(known)

HoldInv == StartIsQuiet /\ EventsLead /\ RefusalIsForFront

LEMMA HoldInit == Init => HoldInv
  <1> SUFFICES ASSUME Init PROVE HoldInv
    OBVIOUS
  <1>1. /\ tracker \in {"start", "none"} /\ (mode # "hybrid" => tracker = "none")
        /\ hooked = FALSE /\ events = <<>> /\ polled = <<>>
        /\ epoch = 0 /\ ticket = 0 /\ hold = FALSE /\ worker = "idle"
    BY DEF Init
  <1>2. ~hooked /\ hooked \in BOOLEAN
    BY <1>1
  <1>3. ~Tracking
    BY <1>2, Zenon DEF Tracking
  <1>4. StartIsQuiet
    BY <1>1, <1>2 DEF StartIsQuiet
  <1> QED
    BY <1>3, <1>4 DEF HoldInv, EventsLead, RefusalIsForFront

\* A step of the capture loop that takes no new ticket and is refused nothing.
LEMMA HoldStay ==
    ASSUME HoldInv,
           UNCHANGED <<mode, front, tracker, hooked, events, polled, gap, known, epoch>>,
           ticket' \in {ticket, 0},
           worker' # "blocked" \/ (worker' = worker /\ ticket' = ticket),
           worker # "idle" \/ worker' = worker,
           hold' = hold \/ hold' = FALSE
    PROVE  HoldInv'
  <1>1. {epoch', ticket'} \subseteq Nat /\ ticket' <= epoch'
    BY DEF HoldInv, StartIsQuiet
  <1> QED
    BY <1>1 DEF HoldInv, StartIsQuiet, EventsLead, RefusalIsForFront, Tracking

LEMMA ActivateKeepsHold ==
    ASSUME HoldInv, NEW w \in Anything, Activate(w)
    PROVE  HoldInv'
  <1>1. /\ UNCHANGED <<mode, tracker, hooked, polled, known, epoch, hold, worker,
                       ticket>>
        /\ front' = w /\ w # front
    BY DEF Activate, brokerVars, captureVars
  <1>2. CASE hooked
    <2>1. events' = Append(events, w) /\ events \in Seq(Anything) /\ gap' = gap
      BY <1>2 DEF Activate, HoldInv, StartIsQuiet
    <2>2. /\ events' \in Seq(Anything) /\ Len(events') = Len(events) + 1
          /\ events'[Len(events')] = w /\ events' # <<>>
          /\ \A i \in 1..Len(events) : events'[i] = events[i]
          /\ Head(events') = IF events = <<>> THEN w ELSE Head(events)
      BY <2>1
    <2>3. StartIsQuiet'
      BY <1>1, <1>2, <2>2 DEF HoldInv, StartIsQuiet
    <2>4. EventsLead'
      BY <1>1, <2>1, <2>2 DEF HoldInv, EventsLead, Tracking
    <2>5. RefusalIsForFront'
      BY <2>2 DEF RefusalIsForFront
    <2> QED
      BY <2>3, <2>4, <2>5 DEF HoldInv
  <1>3. CASE ~hooked
    <2>1. events' = events
      BY <1>3 DEF Activate
    <2>2. tracker = "told" => gap' = "open"
      BY <1>3 DEF Activate
    <2> QED
      BY <1>1, <1>3, <2>1, <2>2 DEF HoldInv, StartIsQuiet, EventsLead, RefusalIsForFront,
                              Tracking
  <1> QED
    BY <1>2, <1>3

LEMMA HookEventKeepsHold ==
    ASSUME HoldInv, HookEvent
    PROVE  HoldInv'
  <1>1. /\ UNCHANGED <<mode, front, tracker, hooked, polled, worker, ticket>>
        /\ events # <<>> /\ events' = Tail(events) /\ events \in Seq(Anything)
        /\ known' = Head(events) /\ hooked
        /\ epoch' = (IF Head(events) = known THEN epoch ELSE epoch + 1)
        /\ hold' = (hold /\ Head(events) = known)
        /\ Tracking' => Tracking
    BY DEF HookEvent, Tell, captureVars, Tracking, HoldInv, StartIsQuiet
  <1>2. /\ events' \in Seq(Anything) /\ Len(events') = Len(events) - 1
        /\ \A i \in 1..Len(events') : events'[i] = events[i + 1]
        /\ Head(events) = events[1] /\ Len(events) \in Nat \ {0}
        /\ events' # <<>> => Head(events') = events[2] /\ Len(events) >= 2
        /\ events' = <<>> => Len(events) = 1
    <2>1. events \in Seq(Anything) /\ events # <<>> /\ events' = Tail(events)
      BY <1>1
    <2>2. Len(events) \in Nat \ {0}
      BY <2>1, EmptySeq, LenProperties
    <2>3. /\ events' \in Seq(Anything) /\ Len(events') = Len(events) - 1
          /\ \A i \in 1..Len(events') : events'[i] = events[i + 1]
          /\ Head(events) = events[1]
      BY <2>1, HeadTailProperties
    <2>4. events' # <<>> => Len(events') # 0
      BY <2>3, EmptySeq
    <2>5. events' = <<>> => Len(events') = 0
      BY EmptySeq
    <2>6. events' # <<>> => Head(events') = events'[1] /\ 1 \in 1..Len(events')
      BY <2>2, <2>3, <2>4, HeadTailProperties
    <2>7. events' # <<>> => Head(events') = events[2] /\ Len(events) >= 2
      BY <2>2, <2>3, <2>4, <2>6
    <2>8. events' = <<>> => Len(events) = 1
      BY <2>2, <2>3, <2>5
    <2> QED
      BY <2>2, <2>3, <2>7, <2>8
  <1>3. StartIsQuiet'
    <2>1. {epoch', ticket'} \subseteq Nat /\ ticket' <= epoch'
      BY <1>1 DEF HoldInv, StartIsQuiet
    <2>2. mode' # "hybrid" => tracker' = "none" /\ hold' = FALSE
      BY <1>1 DEF HoldInv, StartIsQuiet
    <2> QED
      BY <1>1, <1>2, <2>1, <2>2 DEF HoldInv, StartIsQuiet
  <1>4. EventsLead'
    BY <1>1, <1>2 DEF HoldInv, EventsLead
  <1>5. RefusalIsForFront'
    <2>1. CASE Tracking
      <3>1. Head(events) # known
        BY <1>1, <2>1 DEF HoldInv, EventsLead
      <3>2. epoch' = epoch + 1 /\ ticket' = ticket
        BY <1>1, <3>1
      <3>3. epoch' # ticket'
        BY <3>2 DEF HoldInv, StartIsQuiet
      <3>4. hold' = FALSE
        BY <1>1, <3>1, Zenon
      <3> QED
        BY <3>3, <3>4 DEF RefusalIsForFront
    <2> QED
      BY <1>1, <2>1 DEF RefusalIsForFront
  <1> QED
    BY <1>3, <1>4, <1>5 DEF HoldInv

\* A poll that tells is never one beside a hook alone.
LEMMA PollKeepsHold ==
    ASSUME HoldInv, PollReads \/ PollTells
    PROVE  HoldInv'
  <1>1. /\ UNCHANGED <<mode, front, tracker, hooked, events, worker, ticket>>
        /\ tracker \notin {"start", "told", "hook"}
    BY DEF PollReads, PollTells, captureVars, HoldInv, StartIsQuiet
  <1>2. {epoch', ticket'} \subseteq Nat /\ ticket' <= epoch'
    BY <1>1 DEF PollReads, PollTells, Tell, brokerVars, HoldInv, StartIsQuiet
  <1>3. mode # "hybrid" => hold' = FALSE
    BY DEF PollReads, PollTells, Tell, brokerVars, HoldInv, StartIsQuiet
  <1> QED
    BY <1>1, <1>2, <1>3 DEF HoldInv, StartIsQuiet, EventsLead, RefusalIsForFront,
                            Tracking

LEMMA StartKeepsHold ==
    ASSUME HoldInv, TellFirst \/ Hook \/ Answer \/ PollStarts
    PROVE  HoldInv'
  <1>1. CASE TellFirst
    <2>1. /\ UNCHANGED <<mode, front, hooked, events, polled, gap, worker, ticket>>
          /\ tracker = "start" /\ tracker' = "told" /\ known' = front
          /\ epoch' \in {epoch, epoch + 1}
          /\ hold' = FALSE
      BY <1>1 DEF TellFirst, Tell, captureVars, HoldInv, StartIsQuiet
    <2> QED
      BY <2>1 DEF HoldInv, StartIsQuiet, EventsLead, RefusalIsForFront, Tracking
  <1>2. CASE Hook
    <2>1. /\ UNCHANGED <<mode, front, tracker, events, polled, gap, known, epoch,
                         hold, worker, ticket>>
          /\ tracker \in {"told", "spawned", "poll"} /\ ~hooked /\ hooked' = TRUE
      BY <1>2 DEF Hook, brokerVars, captureVars
    <2>2. events = <<>> /\ (tracker = "told" => hold = FALSE /\ worker = "idle")
      BY <2>1 DEF HoldInv, StartIsQuiet
    <2>3. tracker = "told" /\ gap = "none" => known = front
      BY <2>1 DEF HoldInv, StartIsQuiet
    <2>4. StartIsQuiet'
      BY <2>1, <2>2 DEF HoldInv, StartIsQuiet
    <2>5. EventsLead' /\ RefusalIsForFront'
      BY <2>1, <2>2, <2>3 DEF EventsLead, RefusalIsForFront, Tracking
    <2> QED
      BY <2>4, <2>5 DEF HoldInv
  <1>3. CASE Answer \/ PollStarts
    <2>1. /\ UNCHANGED <<mode, front, hooked, events, polled, gap, known, epoch,
                         hold, worker, ticket>>
          /\ tracker \in {"told", "spawned"}
          /\ \/ tracker' \in {"spawned", "poll"}
             \/ tracker = "told" /\ tracker' = "hook" /\ hooked
      BY <1>3 DEF Answer, PollStarts, brokerVars, captureVars
    <2>2. StartIsQuiet'
      BY <2>1 DEF HoldInv, StartIsQuiet
    <2>3. EventsLead' /\ RefusalIsForFront'
      BY <2>1 DEF HoldInv, EventsLead, RefusalIsForFront, Tracking
    <2> QED
      BY <2>2, <2>3 DEF HoldInv
  <1> QED
    BY <1>1, <1>2, <1>3

LEMMA WakeKeepsHold ==
    ASSUME HoldInv, Wake
    PROVE  HoldInv'
  <1>1. /\ UNCHANGED <<mode, front, tracker, hooked, events, polled, gap, known,
                       epoch, hold>>
        /\ worker' = "wanted" /\ ticket' = epoch
        /\ mode = "hybrid" => tracker \notin {"start", "told"}
    BY DEF Wake, trackerVars, brokerVars
  <1> QED
    BY <1>1 DEF HoldInv, StartIsQuiet, EventsLead, RefusalIsForFront, Tracking

\* The window that is refused is the one in front, which the broker knows when
\* no event is on its way.
LEMMA RefuseKeepsHold ==
    ASSUME HoldInv, Refuse
    PROVE  HoldInv'
  <1>1. /\ UNCHANGED <<mode, front, tracker, hooked, events, polled, gap, known,
                       epoch, hold, ticket>>
        /\ worker # "idle" /\ worker' = "blocked" /\ DeniedWindow(front)
    BY DEF Refuse, Refused, Outcome, trackerVars, brokerVars, DeniedWindow
  <1> QED
    BY <1>1 DEF HoldInv, StartIsQuiet, EventsLead, RefusalIsForFront, Tracking

LEMMA BlockedKeepsHold ==
    ASSUME HoldInv, Blocked
    PROVE  HoldInv'
  <1>1. /\ UNCHANGED <<mode, front, tracker, hooked, events, polled, gap, known,
                       epoch>>
        /\ worker = "blocked" /\ worker' = "idle" /\ ticket' = 0
    BY DEF Blocked, Outcome, trackerVars
  <1>2. hold' => hold \/ (mode = "hybrid" /\ epoch = ticket)
    BY Zenon DEF Blocked, Current
  <1>3. mode # "hybrid" => hold' = FALSE
    <2>1. mode # "hybrid" => hold = FALSE
      BY DEF HoldInv, StartIsQuiet
    <2> QED
      BY <2>1, Zenon DEF Blocked
  <1>4. StartIsQuiet'
    BY <1>1, <1>3 DEF HoldInv, StartIsQuiet
  <1>5. RefusalIsForFront'
    BY <1>1, <1>2 DEF HoldInv, RefusalIsForFront, Tracking
  <1>6. EventsLead'
    BY <1>1 DEF HoldInv, EventsLead, Tracking
  <1> QED
    BY <1>4, <1>5, <1>6 DEF HoldInv

LEMMA HoldNext == HoldInv /\ [Next]_vars => HoldInv'
  <1> SUFFICES ASSUME HoldInv, [Next]_vars PROVE HoldInv'
    OBVIOUS
  <1>1. ASSUME NEW w \in Anything, Activate(w) PROVE HoldInv'
    BY <1>1, ActivateKeepsHold
  <1>2. ASSUME NEW w, NEW at, OpenOrClose(w) \/ TerminalFrame(w) \/ Move(w, at)
        PROVE  HoldInv'
    BY <1>2, HoldStay DEF OpenOrClose, TerminalFrame, Move, trackerVars, brokerVars,
                          captureVars
  <1>3. CASE Tracker
    BY <1>3, StartKeepsHold, HookEventKeepsHold, PollKeepsHold DEF Tracker, Start, Poll
  <1>4. CASE Wake \/ Refuse \/ Blocked
    BY <1>4, WakeKeepsHold, RefuseKeepsHold, BlockedKeepsHold
  <1>5. CASE Resolve \/ Traverse \/ Discard \/ Recheck \/ Fail
    <2>1. UNCHANGED <<mode, front, tracker, hooked, events, polled, gap, known,
                      epoch, hold>> /\ ticket' \in {ticket, 0}
      BY <1>5 DEF Resolve, Traverse, Discard, Recheck, Fail, Outcome, trackerVars,
                  brokerVars
    <2>2. worker # "idle" /\ worker' # "blocked"
      BY <1>5 DEF Resolve, Traverse, Discard, Recheck, Fail, Outcome
    <2> QED
      BY <2>1, <2>2, HoldStay
  <1>6. CASE Publish
    <2>1. UNCHANGED <<mode, front, tracker, hooked, events, polled, gap, known,
                      epoch>> /\ ticket' = 0
      BY <1>6 DEF Publish, Outcome, trackerVars
    <2>2. worker # "idle" /\ worker' # "blocked" /\ (hold' = hold \/ hold' = FALSE)
      BY <1>6 DEF Publish, Outcome
    <2> QED
      BY <2>1, <2>2, HoldStay
  <1>7. CASE UNCHANGED vars
    BY <1>7, HoldStay DEF vars, trackerVars, brokerVars, captureVars
  <1> QED
    BY <1>1, <1>2, <1>3, <1>4, <1>5, <1>6, <1>7 DEF Next, Desktop, Capture

\* While the hook tells the broker of every change, a hold is for a denied window
\* that is in front: a refusal that comes late (native_broker.rs,
\* accessibility_blocked) never keeps another window from being captured.
THEOREM HoldsAreForTheDenied == Spec => []HoldIsForTheDenied
  <1>1. HoldInv => HoldIsForTheDenied
    BY DEF HoldInv, StartIsQuiet, RefusalIsForFront, HoldIsForTheDenied, Tracking,
           DeniedWindow
  <1> QED
    BY <1>1, HoldInit, HoldNext, PTL DEF Spec
===============================================================================
