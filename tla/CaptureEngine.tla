---------------------------- MODULE CaptureEngine ----------------------------
(***************************************************************************)
(* The Windows Terminal capture engine: three batches handed around        *)
(* without a lock between the target's render thread and the adapter's     *)
(* worker.  A paint fills a batch with the cells of its dirty region; the  *)
(* worker applies batches to its model of the screen and sends the model   *)
(* as a frame.  A newer batch never replaces a queued one: it is dropped,  *)
(* and the drop is to be reconciled by a full repaint.                     *)
(*                                                                         *)
(* One action is one atomic operation on what the threads share, or a run  *)
(* of operations no other thread can tell from one.  The target paints     *)
(* under its console lock, so invalidations fall between paints.           *)
(*                                                                         *)
(* Abstracted: the viewport has one size; a cell's content is the number   *)
(* of the screen change that wrote it; styles, titles, images, counters    *)
(* and the wire are left out, and so is what disableCapture does to a      *)
(* batch being painted (nothing a dead engine queues is sent).             *)
(***************************************************************************)
EXTENDS Naturals

CONSTANTS
    Cells,          \* cells of the viewport
    MaxChanges      \* bound on screen changes

ASSUME CellAssumption == Cells # {}
ASSUME EngineBounds == MaxChanges \in Nat

Batches == 1..3
Null == 0           \* no batch

VARIABLES
    screen,         \* what the terminal shows: cell -> its last change
    changes,        \* screen changes so far
    dirtyArea,      \* cells invalidated since the last paint (hasDirtyArea)
    alive, subscribed, releaseRequested,
    dirty, forceFullDirty, reconcileAfterDrop,
    allocated,      \* the batches exist
    content,        \* batch -> the cells it carries, the screen it saw
    current, pending, free, spare,
    renderer,       \* render thread: where it is in a paint
    activePaint,    \* paints under way
    worker,         \* worker thread: where it is in its loop
    taken,          \* the worker's batch
    matrix          \* the worker's model of the screen

targetVars == <<screen, changes, dirtyArea>>
flagVars   == <<alive, subscribed, releaseRequested>>
dirtyVars  == <<dirty, forceFullDirty>>
slotVars   == <<current, pending, free, spare>>
batchVars  == <<allocated, content>>
renderVars == <<renderer, activePaint>>
workerVars == <<worker, taken, matrix>>
vars == <<targetVars, flagVars, dirtyVars, reconcileAfterDrop,
          slotVars, batchVars, renderVars, workerVars>>

Changes == 0..MaxChanges

\* A cell of the model nobody painted yet.
Blank == MaxChanges + 1
BlankMatrix == [c \in Cells |-> Blank]

Init ==
    /\ screen = [c \in Cells |-> 0] /\ changes = 0 /\ dirtyArea = {}
    /\ alive = TRUE /\ subscribed = FALSE /\ releaseRequested = FALSE
    /\ dirty = TRUE /\ forceFullDirty = TRUE /\ reconcileAfterDrop = FALSE
    /\ allocated = FALSE
    /\ content = [b \in Batches |-> [area |-> {}, saw |-> screen]]
    /\ current = Null /\ pending = Null /\ free = Null /\ spare = Null
    /\ renderer = "idle" /\ activePaint = 0
    /\ worker = "top" /\ taken = Null /\ matrix = BlankMatrix

-----------------------------------------------------------------------------
(* The target. *)

\* The screen changes, and the target invalidates what changed.
Changed(area) ==
    /\ renderer = "idle" /\ alive
    /\ changes < MaxChanges
    /\ changes' = changes + 1
    /\ screen' = [c \in Cells |-> IF c \in area THEN changes' ELSE screen[c]]
    /\ dirty' = TRUE
    /\ UNCHANGED <<flagVars, reconcileAfterDrop, slotVars,
                   batchVars, renderVars, workerVars>>

\* addDirty
Invalidate(area) ==
    /\ Changed(area)
    /\ dirtyArea' = dirtyArea \cup area
    /\ UNCHANGED forceFullDirty

\* markFullDirty: a scroll, a title, a highlight, a system change.
InvalidateAll ==
    /\ Changed(Cells)
    /\ forceFullDirty' = TRUE
    /\ UNCHANGED dirtyArea

\* markDirty: new text, which the target also invalidates.
NotifyNewText ==
    /\ renderer = "idle" /\ alive
    /\ dirty' = TRUE
    /\ UNCHANGED <<targetVars, flagVars, forceFullDirty, reconcileAfterDrop,
                   slotVars, batchVars, renderVars, workerVars>>

\* The worker holds enginesMutex around requestFull.
HoldsRegistry == worker \in {"full", "fullDirty", "fullCall"}

\* hookedDestructor, under enginesMutex: mark dead and park.
Destroy ==
    /\ alive /\ ~HoldsRegistry
    /\ alive' = FALSE /\ subscribed' = FALSE /\ releaseRequested' = TRUE
    /\ UNCHANGED <<targetVars, dirtyVars, reconcileAfterDrop,
                   slotVars, batchVars, renderVars, workerVars>>

-----------------------------------------------------------------------------
(* The render thread. *)

\* StartPaint counts itself in before it looks at the subscription.
StartPaint ==
    /\ renderer = "idle"
    /\ renderer' = "entered"
    /\ activePaint' = activePaint + 1
    /\ UNCHANGED <<targetVars, flagVars, dirtyVars,
                   reconcileAfterDrop, slotVars, batchVars, workerVars>>

\* Defect: an early return does not count the paint out.
StaysEntered == renderer' = "idle" /\ UNCHANGED activePaint

EndsPaint == renderer' = "idle" /\ activePaint' = activePaint - 1

PaintRefused ==
    /\ renderer = "entered"
    /\ ~alive \/ ~subscribed \/ ~dirty
    /\ EndsPaint
    /\ UNCHANGED <<targetVars, flagVars, dirtyVars,
                   reconcileAfterDrop, slotVars, batchVars, workerVars>>

\* Defect: the slots are read, not exchanged.
AcquireShared ==
    current' = (IF free # Null THEN free ELSE spare) /\ UNCHANGED <<free, spare>>

\* acquireFreeBatch
Acquire ==
    /\ current' = IF free # Null THEN free ELSE spare
    /\ free' = Null
    /\ spare' = IF free # Null THEN spare ELSE Null

PaintAccepted ==
    /\ renderer = "entered"
    /\ alive /\ subscribed /\ dirty
    /\ IF current = Null THEN Acquire ELSE UNCHANGED <<current, free, spare>>
    /\ IF current' = Null
       THEN EndsPaint /\ UNCHANGED dirty
       ELSE /\ renderer' = "started" /\ UNCHANGED activePaint
            /\ dirty' = FALSE
    /\ UNCHANGED <<targetVars, flagVars, forceFullDirty,
                   reconcileAfterDrop, pending, batchVars, workerVars>>

\* GetDirtyArea and the paint callbacks: the dirty region, or all of it.
Paint ==
    /\ renderer = "started"
    /\ LET area == IF forceFullDirty \/ dirtyArea = {} THEN Cells ELSE dirtyArea
       IN  content' = [content EXCEPT ![current] =
                          [area |-> area, saw |-> screen]]
    /\ forceFullDirty' = FALSE
    /\ dirtyArea' = {}
    /\ renderer' = "painted"
    /\ UNCHANGED <<screen, changes, flagVars, dirty, activePaint,
                   reconcileAfterDrop, slotVars, allocated, workerVars>>

\* Defect: a discarded paint asks for another, but not for a full one.
DirtyAgain == dirty' = TRUE /\ UNCHANGED forceFullDirty

MarkFullDirty == forceFullDirty' = TRUE /\ dirty' = TRUE

\* EndPaint: the batch overflowed, or a resize overlapped the paint.
PaintDiscarded ==
    /\ renderer = "painted"
    /\ MarkFullDirty
    /\ EndsPaint
    /\ UNCHANGED <<targetVars, flagVars, reconcileAfterDrop,
                   slotVars, batchVars, workerVars>>

\* Defect: the newer batch replaces the queued one.
PublishReplaces == renderer = "painted"

\* EndPaint: the batch is queued if the slot is empty ...
MayQueue == renderer = "painted" /\ pending = Null

Publish ==
    /\ MayQueue
    /\ pending' = current
    /\ renderer' = "published"
    /\ UNCHANGED <<targetVars, flagVars, dirtyVars, activePaint,
                   reconcileAfterDrop, current, free, spare, batchVars,
                   workerVars>>

\* ... and only then is another one made current.
Refill ==
    /\ renderer = "published"
    /\ Acquire
    /\ EndsPaint
    /\ UNCHANGED <<targetVars, flagVars, dirtyVars,
                   reconcileAfterDrop, pending, batchVars, workerVars>>

\* The slot is occupied: this batch is dropped ...
Drop ==
    /\ renderer = "painted" /\ pending # Null
    /\ renderer' = "dropping"
    /\ UNCHANGED <<targetVars, flagVars, dirtyVars, activePaint,
                   reconcileAfterDrop, slotVars, batchVars, workerVars>>

\* Defect: a drop is counted and forgotten.
DropForgotten == UNCHANGED reconcileAfterDrop

DropRemembered == reconcileAfterDrop' = TRUE

\* ... and only then is the worker told.
DropFlagged ==
    /\ renderer = "dropping"
    /\ DropRemembered
    /\ EndsPaint
    /\ UNCHANGED <<targetVars, flagVars, dirtyVars, slotVars,
                   batchVars, workerVars>>

-----------------------------------------------------------------------------
(* The worker: one round of its loop for this engine. *)

\* Defect: buffers are reclaimed without waiting for a paint to end.
DormantAnyway == releaseRequested /\ ~subscribed

Dormant == releaseRequested /\ ~subscribed /\ activePaint = 0

\* reclaimIfDormant; nothing is queued after it.
Reclaim ==
    /\ worker = "top" /\ Dormant
    /\ allocated' = FALSE
    /\ current' = Null /\ pending' = Null /\ free' = Null /\ spare' = Null
    /\ reconcileAfterDrop' = FALSE
    /\ releaseRequested' = FALSE
    /\ matrix' = BlankMatrix
    /\ worker' = "command"
    /\ UNCHANGED <<targetVars, alive, subscribed, dirtyVars,
                   content, renderVars, taken>>

\* A dead engine has no more to do in this round.
SkipDead ==
    /\ worker = "top" /\ ~Dormant /\ ~alive
    /\ worker' = "command"
    /\ UNCHANGED <<targetVars, flagVars, dirtyVars,
                   reconcileAfterDrop, slotVars, batchVars, renderVars, taken,
                   matrix>>

\* takeBatch: first the batch ...
Take ==
    /\ worker = "top" /\ ~Dormant /\ alive
    /\ taken' = pending
    /\ pending' = Null
    /\ worker' = IF pending = Null THEN "command" ELSE "taken"
    /\ UNCHANGED <<targetVars, flagVars, dirtyVars,
                   reconcileAfterDrop, current, free, spare, batchVars,
                   renderVars, matrix>>

NoSlot == free # Null /\ spare # Null

\* Defect: a parked engine is not asked to give its buffers back.
ParkKeeps == subscribed' = FALSE /\ UNCHANGED releaseRequested

\* park: no paints, and the buffers are to be given back.
ParkFlags == subscribed' = FALSE /\ releaseRequested' = TRUE

DisableCapture == ParkFlags /\ alive' = FALSE /\ dirty' = FALSE

\* releaseBatch: into free, else into spare, else the provider is disabled.
Release ==
    /\ taken' = Null
    /\ IF free = Null THEN free' = taken /\ UNCHANGED spare
       ELSE /\ UNCHANGED free
            /\ spare' = IF spare = Null THEN taken ELSE spare
    /\ IF NoSlot THEN DisableCapture ELSE UNCHANGED <<flagVars, dirty>>

MustReconcile == reconcileAfterDrop

\* ... then the flag.  A newer batch was dropped: reject this one too.
Reconcile ==
    /\ worker = "taken" /\ MustReconcile
    /\ reconcileAfterDrop' = FALSE
    /\ Release
    /\ worker' = "redo"
    /\ UNCHANGED <<targetVars, forceFullDirty, current, pending,
                   batchVars, renderVars, matrix>>

\* applyBatch; the model is sent as a frame.
Apply ==
    /\ worker = "taken" /\ ~MustReconcile
    /\ matrix' = [c \in Cells |-> IF c \in content[taken].area
                                  THEN content[taken].saw[c] ELSE matrix[c]]
    /\ worker' = "sent"
    /\ UNCHANGED <<targetVars, flagVars, dirtyVars,
                   reconcileAfterDrop, slotVars, batchVars, renderVars,
                   taken>>

Return ==
    /\ worker = "sent"
    /\ Release
    /\ worker' = "command"
    /\ UNCHANGED <<targetVars, forceFullDirty, reconcileAfterDrop,
                   current, pending, batchVars, renderVars, matrix>>

\* markFullDirty and triggerFullRedraw, of takeBatch and of requestFull.  The
\* former is in the middle of a round, the latter at its end.
Redone == worker' = IF worker \in {"redoDirty", "redoCall"} THEN "command"
                    ELSE "top"

ForceFull ==
    /\ worker \in {"redo", "full"}
    /\ forceFullDirty' = TRUE
    /\ worker' = IF worker = "redo" THEN "redoDirty" ELSE "fullDirty"
    /\ UNCHANGED <<targetVars, flagVars, dirty, reconcileAfterDrop,
                   slotVars, batchVars, renderVars, taken, matrix>>

ForceDirty ==
    /\ worker \in {"redoDirty", "fullDirty"}
    /\ dirty' = TRUE
    /\ IF alive /\ subscribed
       THEN worker' = IF worker = "redoDirty" THEN "redoCall" ELSE "fullCall"
       ELSE Redone
    /\ UNCHANGED <<targetVars, flagVars, forceFullDirty,
                   reconcileAfterDrop, slotVars, batchVars, renderVars,
                   taken, matrix>>

\* The target's TriggerRedrawAll (external) wakes its render thread; it may
\* invalidate every engine first.
RedrawTriggered ==
    /\ worker \in {"redoCall", "fullCall"}
    /\ MarkFullDirty \/ UNCHANGED dirtyVars
    /\ Redone
    /\ UNCHANGED <<targetVars, flagVars, reconcileAfterDrop,
                   slotVars, batchVars, renderVars, taken, matrix>>

-----------------------------------------------------------------------------
(* Commands of the broker, which come at the end of a round. *)

Command(next) ==
    /\ worker = "command"
    /\ worker' = next
    /\ UNCHANGED <<targetVars, forceFullDirty, content, renderVars, taken,
                   matrix, pending>>

\* SUBSCRIBE and REQUEST_FULL: requestFull, which does not ask if the engine
\* is alive.
RequestFull ==
    /\ Command("full")
    /\ IF current = Null
       THEN /\ allocated' = TRUE
            /\ current' = 1 /\ free' = 2 /\ spare' = 3
       ELSE UNCHANGED <<allocated, current, free, spare>>
    /\ subscribed' = TRUE /\ releaseRequested' = FALSE
    /\ reconcileAfterDrop' = FALSE
    /\ UNCHANGED <<alive, dirty>>

\* The same, when the batches cannot be allocated.
AllocationFails ==
    /\ Command("top")
    /\ current = Null
    /\ DisableCapture
    /\ UNCHANGED <<reconcileAfterDrop, allocated, current, free, spare>>

\* UNSUBSCRIBE, or a lost pipe.  (SHUTDOWN, after which the worker ends, is a
\* command this host never sends.)
Park ==
    /\ Command("top")
    /\ ParkFlags
    /\ UNCHANGED <<alive, dirty, reconcileAfterDrop, allocated, current, free,
                   spare>>

NoCommand ==
    /\ worker = "command"
    /\ worker' = "top"
    /\ UNCHANGED <<targetVars, flagVars, dirtyVars,
                   reconcileAfterDrop, slotVars, batchVars, renderVars, taken,
                   matrix>>

-----------------------------------------------------------------------------
Target ==
    \/ \E area \in SUBSET Cells \ {{}} : Invalidate(area)
    \/ InvalidateAll
    \/ NotifyNewText
    \/ Destroy

PaintStep ==
    \/ PaintRefused \/ PaintAccepted \/ Paint \/ PaintDiscarded
    \/ Publish \/ Refill \/ Drop \/ DropFlagged

WorkerStep ==
    \/ Reclaim \/ SkipDead \/ Take \/ Reconcile \/ Apply \/ Return
    \/ ForceFull \/ ForceDirty \/ RedrawTriggered
    \/ RequestFull \/ AllocationFails \/ Park \/ NoCommand

Next == Target \/ StartPaint \/ PaintStep \/ WorkerStep

Spec == Init /\ [][Next]_vars

\* A paint that started ends, and the worker's loop goes around.
FairSpec == Spec /\ WF_vars(PaintStep) /\ WF_vars(WorkerStep)

-----------------------------------------------------------------------------
(* Properties. *)

TargetType ==
    /\ screen \in [Cells -> Changes] /\ changes \in Changes
    /\ dirtyArea \subseteq Cells

FlagType ==
    {alive, subscribed, releaseRequested, dirty, forceFullDirty,
     reconcileAfterDrop, allocated} \subseteq BOOLEAN

PictureType ==
    /\ content \in [Batches -> [area : SUBSET Cells, saw : [Cells -> Changes]]]
    /\ matrix \in [Cells -> Changes \cup {Blank}]

ThreadType ==
    /\ {current, pending, free, spare, taken} \subseteq Batches \cup {Null}
    /\ renderer \in {"idle", "entered", "started", "painted", "published",
                     "dropping"}
    /\ activePaint = IF renderer = "idle" THEN 0 ELSE 1
    /\ worker \in {"top", "taken", "sent", "redo", "redoDirty", "redoCall",
                   "full", "fullDirty", "fullCall", "command"}

\* The types; activePaint never exceeds the one paint a render thread can be
\* in, and counts it exactly (every return of StartPaint and EndPaint).
TypeOK == TargetType /\ FlagType /\ PictureType /\ ThreadType

\* Who owns a batch.  Between queueing a batch and taking another, current
\* is a stale alias of the queued one.
Owners == <<IF renderer = "published" THEN Null ELSE current,
            pending, free, spare, taken>>

\* No batch has two owners: none is painted while it is queued, applied or
\* free, whatever the order of the threads' exchanges (StartPaint, EndPaint,
\* takeBatch, releaseBatch, reclaimIfDormant).
OneOwner ==
    \A i, j \in 1..5 :
        i # j /\ Owners[i] # Null => Owners[i] # Owners[j]

\* Of a live engine no batch is lost, and a paint always has one to fill.
NoBatchLost ==
    allocated /\ alive =>
        /\ Batches \subseteq {Owners[i] : i \in 1..5}
        /\ current # Null

\* Buffers are freed only when nobody can touch them: no paint is past its
\* subscription check, and the worker has returned its batch
\* (reclaimIfDormant against StartPaint and EndPaint).
NoFreedBatch ==
    renderer \notin {"idle", "entered"} \/ taken # Null => allocated

\* What a cell of the model will be once the batches on their way arrive.
Arriving(c) ==
    LET carries(b) == b # Null /\ c \in content[b].area
    IN  IF renderer = "painted" /\ carries(current) THEN content[current].saw[c]
        ELSE IF carries(pending) THEN content[pending].saw[c]
        ELSE IF carries(taken) THEN content[taken].saw[c]
        ELSE matrix[c]

\* The next paint is a full one, or the worker is about to ask for one: it is
\* in the middle of asking, or holds or will take a batch on which it reads
\* the flag of a drop.
FullRepaintDue ==
    \/ forceFullDirty /\ (dirty \/ renderer = "started")
    \/ reconcileAfterDrop /\ (pending # Null \/ worker = "taken")
    \/ worker \in {"redo", "redoDirty", "full", "fullDirty"}

\* A drop that nobody is sure to act on: the slot was taken before the flag
\* is set, and takeBatch reads the flag only with a batch.  In an idle
\* terminal no other batch comes.
DropUnheard ==
    \/ renderer = "dropping"
    \/ reconcileAfterDrop /\ pending = Null /\ worker # "taken"

\* Only a drop the worker has not heard of forgets a change of the screen:
\* otherwise, while subscribed, it is in the model, on its way there, in the
\* region of the next paint, or a full paint is due (addDirty, GetDirtyArea,
\* EndPaint, takeBatch and requestFull together).
LossIsRemembered ==
    subscribed /\ alive /\ ~FullRepaintDue /\ ~DropUnheard =>
        \A c \in Cells :
            \/ Arriving(c) = screen[c]
            \/ /\ dirty \/ renderer = "started"
               /\ dirtyArea = {} \/ c \in dirtyArea

\* The screen a frame was painted from, whole.
Snapshot == matrix = content[taken].saw

\* A whole screen is on its way to the worker.
FullOnItsWay ==
    \/ renderer = "painted" /\ content[current].area = Cells
    \/ pending # Null /\ content[pending].area = Cells

\* A frame that is not the screen of its paint is sent only while a full paint
\* is due or on its way, unless a drop goes unheard: then nothing is sure to
\* correct it (takeBatch, applyBatch and framePayload against EndPaint and
\* requestFull).
BrokenFrameIsRepaired ==
    worker = "sent" /\ alive /\ subscribed =>
        Snapshot \/ FullRepaintDue \/ FullOnItsWay \/ DropUnheard

\* "ask the worker to schedule one full reconciliation as soon as it frees the
\* pending slot" (wt_adapter.cpp 643): a drop of a subscribed engine is
\* reconciled, or at least another paint is asked for.  This is what the
\* comment says, and the code does not keep it.
DropIsReconciled ==
    reconcileAfterDrop ~> ~reconcileAfterDrop \/ dirty \/ ~subscribed \/ ~alive

\* "Both return slots being occupied is an invariant violation" (wt_adapter.cpp
\* 1045): a worker that returns a batch finds free or spare empty. This is what
\* the comment says, and the code does not keep it.
ReleaseFindsASlot == taken # Null => ~NoSlot

\* A parked engine gives its buffers back once its callbacks are quiet (park
\* and reclaimIfDormant, in every round of the worker and while it has no
\* pipe).
DormantIsReclaimed == []<>(~allocated \/ subscribed \/ activePaint > 0)
=============================================================================
