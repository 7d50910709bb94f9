---------------------------- MODULE EngineProofs ----------------------------
(***************************************************************************)
(* The ownership of the batches of CaptureEngine, for every viewport and   *)
(* every number of screen changes.                                         *)
(*                                                                         *)
(* That no batch has two owners is inductive only together with where the  *)
(* batches are while an engine has them: an engine without batches has     *)
(* empty slots, a paint past its checks and a worker with a batch keep     *)
(* them from being reclaimed, and all three are accounted for, except in   *)
(* an engine that lost one and died of it, whose render thread cannot      *)
(* start another paint.                                                    *)
(*                                                                         *)
(* Then what the worker's model of the screen is worth: no change of the   *)
(* screen is forgotten, and a broken frame is corrected.  Up to three      *)
(* batches are on their way to the model, each painted over what the ones  *)
(* before it carry; each of them, applied in its turn, gives the screen it *)
(* was painted from, or a whole screen comes behind it, or a full repaint  *)
(* is due.                                                                 *)
(***************************************************************************)
EXTENDS CaptureEngine, TLAPS

-----------------------------------------------------------------------------
(* The inductive invariant. *)

\* The batch that is being painted, or is to be painted next.
Painted == IF renderer = "published" THEN Null ELSE current

\* OneOwner, pair by pair.
Disjoint ==
    /\ Painted # Null => Painted \notin {pending, free, spare, taken}
    /\ pending # Null => pending \notin {free, spare, taken}
    /\ free # Null => free \notin {spare, taken}
    /\ spare # Null => spare # taken

\* The worker has a batch exactly between takeBatch and releaseBatch.
TakenInRound == taken # Null <=> worker \in {"taken", "sent"}

\* Without batches every slot is empty, and with them current never is.
SlotsFollowAllocation ==
    /\ ~allocated => {current, pending, free, spare, taken} = {Null}
    /\ allocated => current # Null

\* A paint past its checks has batches.
PaintHasBatches == renderer \notin {"idle", "entered"} => allocated

Accounted == Batches \subseteq {Painted, pending, free, spare, taken}

\* Releasing a batch found no slot: the engine is dead, and the render
\* thread is at most about to take one of the two batches left.
LostOne ==
    /\ ~alive
    /\ \/ renderer \in {"idle", "entered"}
       \/ renderer = "published" /\ free # Null /\ spare # Null

Ownership ==
    /\ Disjoint /\ TakenInRound /\ SlotsFollowAllocation /\ PaintHasBatches
    /\ allocated => Accounted \/ LostOne

EngineInv == TypeOK /\ Ownership

-----------------------------------------------------------------------------
(* What the invariant says in the terms of CaptureEngine. *)

\* The pairwise form is the one TLC checks.
LEMMA DisjointIsOneOwner == Disjoint => OneOwner
<1> SUFFICES ASSUME Disjoint, NEW i \in 1..5, NEW j \in 1..5,
                    i # j, Owners[i] # Null
             PROVE  Owners[i] # Owners[j]
  BY DEF OneOwner
<1>1. /\ Owners[1] = Painted /\ Owners[2] = pending /\ Owners[3] = free
      /\ Owners[4] = spare /\ Owners[5] = taken
  BY DEF Owners, Painted
<1>2. i \in {1, 2, 3, 4, 5} /\ j \in {1, 2, 3, 4, 5}
  BY SMT
<1> QED
  BY <1>1, <1>2 DEF Disjoint

\* No batch is lost, in the form TLC checks.
LEMMA AccountedIsNoneLost ==
    Accounted => Batches \subseteq {Owners[i] : i \in 1..5}
<1> SUFFICES ASSUME Accounted, NEW b \in Batches
             PROVE  \E i \in 1..5 : b = Owners[i]
  OBVIOUS
<1>1. /\ Owners[1] = Painted /\ Owners[2] = pending /\ Owners[3] = free
      /\ Owners[4] = spare /\ Owners[5] = taken
  BY DEF Owners, Painted
<1>2. b \in {Painted, pending, free, spare, taken}
  BY DEF Accounted
<1> QED
  BY <1>1, <1>2

-----------------------------------------------------------------------------
(* The initial state. *)

\* An engine starts without batches.
LEMMA InitInv == Init => EngineInv
<1> SUFFICES ASSUME Init PROVE EngineInv
  OBVIOUS
<1>1. TargetType /\ PictureType
  <2>1. 0 \in Changes
    BY EngineBounds DEF Changes
  <2> QED
    BY <2>1 DEF Init, TargetType, PictureType, BlankMatrix
<1>2. FlagType /\ ThreadType
  BY DEF Init, FlagType, ThreadType
<1>3. Ownership
  BY DEF Init, Ownership, Disjoint, TakenInRound, SlotsFollowAllocation,
         PaintHasBatches, Painted, Null
<1> QED
  BY <1>1, <1>2, <1>3 DEF EngineInv, TypeOK

-----------------------------------------------------------------------------
(* Every step preserves the types. *)

\* A change of the screen keeps the screen and its count in their types.
LEMMA ChangedKeepsType ==
    ASSUME TypeOK, NEW area \in SUBSET Cells, Changed(area)
    PROVE  /\ screen' \in [Cells -> Changes] /\ changes' \in Changes
           /\ PictureType' /\ ThreadType'
<1>1. changes' \in Changes
  BY EngineBounds DEF Changed, TypeOK, TargetType, Changes
<1>2. screen' \in [Cells -> Changes]
  BY <1>1 DEF Changed, TypeOK, TargetType
<1>3. PictureType' /\ ThreadType'
  BY DEF Changed, TypeOK, PictureType, ThreadType, slotVars, batchVars,
         renderVars, workerVars, Blank, Changes
<1> QED
  BY <1>1, <1>2, <1>3

\* releaseBatch keeps the slots and the flags in their types.
LEMMA ReleaseKeepsType ==
    ASSUME TypeOK, Release
    PROVE  /\ {free', spare', taken'} \subseteq Batches \cup {Null}
           /\ {alive', subscribed', releaseRequested', dirty'} \subseteq BOOLEAN
<1>1. {free', spare', taken'} \subseteq Batches \cup {Null}
  BY DEF Release, TypeOK, ThreadType
<1>2. {alive', subscribed', releaseRequested', dirty'} \subseteq BOOLEAN
  <2>1. CASE NoSlot
    BY <2>1 DEF Release, DisableCapture, ParkFlags
  <2>2. CASE ~NoSlot
    BY <2>2 DEF Release, TypeOK, FlagType, flagVars
  <2> QED
    BY <2>1, <2>2
<1> QED
  BY <1>1, <1>2

\* The types, given that a worker that applies a batch has one.
LEMMA TypeInductive == EngineInv /\ [Next]_vars => TypeOK'
<1> SUFFICES ASSUME EngineInv, [Next]_vars PROVE TypeOK'
  OBVIOUS
<1> USE DEF EngineInv, TypeOK, TargetType, FlagType, PictureType, ThreadType, targetVars,
        flagVars, dirtyVars, slotVars, batchVars, renderVars, workerVars
<1>1. ASSUME NEW area \in SUBSET Cells, Invalidate(area)
      PROVE  TypeOK'
  BY <1>1, ChangedKeepsType DEF Invalidate, Changed
<1>2. CASE InvalidateAll
  BY <1>2, ChangedKeepsType DEF InvalidateAll, Changed
<1>3. CASE NotifyNewText
  BY <1>3 DEF NotifyNewText
<1>4. CASE Destroy
  BY <1>4 DEF Destroy
<1>5. CASE StartPaint
  BY <1>5 DEF StartPaint
<1>6. CASE PaintRefused
  BY <1>6 DEF PaintRefused, EndsPaint
<1>7. CASE PaintAccepted
  <2>1. {current', free', spare'} \subseteq Batches \cup {Null}
    BY <1>7 DEF PaintAccepted, Acquire
  <2>2. /\ renderer' = IF current' = Null THEN "idle" ELSE "started"
        /\ activePaint' = IF current' = Null THEN 0 ELSE 1
        /\ dirty' \in BOOLEAN
    <3>1. CASE current' = Null
      BY <1>7, <3>1 DEF PaintAccepted, EndsPaint
    <3>2. CASE current' # Null
      BY <1>7, <3>2 DEF PaintAccepted
    <3> QED
      BY <3>1, <3>2
  <2>3. ThreadType'
    <3>1. UNCHANGED <<pending, taken, worker>>
      BY <1>7 DEF PaintAccepted
    <3> QED
      BY <2>1, <2>2, <3>1
  <2>4. FlagType' /\ TargetType' /\ PictureType'
    BY <1>7, <2>2 DEF PaintAccepted
  <2> QED
    BY <2>3, <2>4
<1>8. CASE Paint
  BY <1>8 DEF Paint
<1>9. CASE PaintDiscarded
  BY <1>9 DEF PaintDiscarded, MarkFullDirty, EndsPaint
<1>10. CASE Publish
  BY <1>10 DEF Publish, MayQueue
<1>11. CASE Refill
  BY <1>11 DEF Refill, Acquire, EndsPaint
<1>12. CASE Drop
  BY <1>12 DEF Drop
<1>13. CASE DropFlagged
  BY <1>13 DEF DropFlagged, DropRemembered, EndsPaint
<1>14. CASE Reclaim
  BY <1>14 DEF Reclaim, Dormant, BlankMatrix
<1>15. CASE SkipDead
  BY <1>15 DEF SkipDead, Dormant
<1>16. CASE Take
  BY <1>16 DEF Take, Dormant
<1>17. CASE Reconcile
  <2>1. Release
    BY <1>17 DEF Reconcile
  <2>2. ThreadType'
    BY <1>17, <2>1, ReleaseKeepsType DEF Reconcile
  <2>3. FlagType' /\ TargetType' /\ PictureType'
    BY <1>17, <2>1, ReleaseKeepsType DEF Reconcile
  <2> QED
    BY <2>2, <2>3
<1>18. CASE Apply
  <2>1. taken \in Batches
    BY <1>18 DEF Apply, Ownership, TakenInRound
  <2>2. matrix' \in [Cells -> Changes \cup {Blank}]
    BY <1>18, <2>1 DEF Apply
  <2> QED
    BY <1>18, <2>2 DEF Apply
<1>19. CASE Return
  <2>1. Release
    BY <1>19 DEF Return
  <2>2. ThreadType'
    BY <1>19, <2>1, ReleaseKeepsType DEF Return
  <2>3. FlagType' /\ TargetType' /\ PictureType'
    BY <1>19, <2>1, ReleaseKeepsType DEF Return
  <2> QED
    BY <2>2, <2>3
<1>20. CASE ForceFull
  BY <1>20 DEF ForceFull
<1>21. CASE ForceDirty
  BY <1>21 DEF ForceDirty, Redone
<1>22. CASE RedrawTriggered
  BY <1>22 DEF RedrawTriggered, Redone, MarkFullDirty
<1>23. CASE RequestFull
  <2>1. {current', free', spare'} \subseteq Batches \cup {Null}
    BY <1>23 DEF RequestFull, Batches
  <2> QED
    BY <1>23, <2>1 DEF RequestFull, Command
<1>24. CASE AllocationFails
  BY <1>24 DEF AllocationFails, Command, DisableCapture, ParkFlags
<1>25. CASE Park
  BY <1>25 DEF Park, Command, ParkFlags
<1>26. CASE NoCommand
  BY <1>26 DEF NoCommand
<1>27. CASE UNCHANGED vars
  BY <1>27 DEF vars
<1> QED
  BY <1>1, <1>2, <1>3, <1>4, <1>5, <1>6, <1>7, <1>8, <1>9, <1>10, <1>11,
         <1>12, <1>13, <1>14, <1>15, <1>16, <1>17, <1>18, <1>19, <1>20,
         <1>21, <1>22, <1>23, <1>24, <1>25, <1>26, <1>27 DEF Next, Target,
         PaintStep, WorkerStep

-----------------------------------------------------------------------------
(* Every step preserves the ownership of the batches. *)

\* releaseBatch: the batch goes into an empty slot; when there is none, it is
\* lost with the engine, between the exchange of EndPaint and its refill.
LEMMA ReleaseKeepsOwnership ==
    ASSUME EngineInv, worker \in {"taken", "sent"}, Release,
           worker' \notin {"taken", "sent"},
           UNCHANGED <<current, pending, allocated, renderer>>
    PROVE  Ownership'
<1> USE DEF EngineInv, Ownership, Painted, Null
<1>1. taken # Null /\ allocated
  BY DEF TakenInRound, SlotsFollowAllocation
<1>2. TakenInRound' /\ SlotsFollowAllocation' /\ PaintHasBatches'
  BY <1>1 DEF Release, TakenInRound, SlotsFollowAllocation, PaintHasBatches
<1>3. Disjoint'
  BY <1>1 DEF Disjoint, Release
<1>4. CASE NoSlot
  <2>1. ~alive' /\ UNCHANGED <<free, spare>>
    BY <1>4 DEF Release, NoSlot, DisableCapture
  <2>2. CASE LostOne
    BY <1>1, <1>2, <1>3, <2>1, <2>2 DEF LostOne
  <2>3. CASE Accounted
    <3>1. Painted = Null
      BY <1>1, <1>4 DEF NoSlot, Disjoint, TypeOK, ThreadType, Batches
    <3>2. renderer = "published"
      BY <1>1, <3>1 DEF SlotsFollowAllocation
    <3> QED
      BY <1>2, <1>3, <1>4, <2>1, <3>2 DEF LostOne, NoSlot
  <2> QED
    BY <1>1, <2>2, <2>3
<1>5. CASE ~NoSlot
  <2>1. {Painted', pending', free', spare', taken'} \cup {Null}
           = {Painted, pending, free, spare, taken} \cup {Null}
    BY <1>5 DEF Release, NoSlot
  <2>2. Accounted => Accounted'
    BY <2>1 DEF Accounted, Batches
  <2>3. LostOne => LostOne'
    BY <1>5 DEF LostOne, Release, NoSlot, flagVars
  <2> QED
    BY <1>1, <1>2, <1>3, <2>2, <2>3
<1> QED
  BY <1>4, <1>5

\* Who owns which batch, step by step of both threads.
LEMMA OwnershipInductive == EngineInv /\ [Next]_vars => Ownership'
<1> SUFFICES ASSUME EngineInv, [Next]_vars PROVE Ownership'
  OBVIOUS
<1> USE DEF EngineInv, TypeOK, ThreadType, Ownership, Disjoint, TakenInRound,
        SlotsFollowAllocation, PaintHasBatches, Accounted, LostOne, Painted,
        Null, targetVars, flagVars, dirtyVars, slotVars, batchVars,
        renderVars, workerVars
<1>1. ASSUME NEW area \in SUBSET Cells, Invalidate(area)
      PROVE  Ownership'
  BY <1>1 DEF Invalidate, Changed
<1>2. CASE InvalidateAll
  BY <1>2 DEF InvalidateAll, Changed
<1>3. CASE NotifyNewText
  BY <1>3 DEF NotifyNewText
<1>4. CASE Destroy
  BY <1>4 DEF Destroy
<1>5. CASE StartPaint
  BY <1>5 DEF StartPaint
<1>6. CASE PaintRefused
  BY <1>6 DEF PaintRefused, EndsPaint
<1>7. CASE PaintAccepted
  BY <1>7 DEF PaintAccepted, Acquire, EndsPaint
<1>8. CASE Paint
  BY <1>8 DEF Paint
<1>9. CASE PaintDiscarded
  BY <1>9 DEF PaintDiscarded, EndsPaint
<1>10. CASE Publish
  BY <1>10 DEF Publish, MayQueue
<1>11. CASE Refill
  <2>1. Painted = Null /\ Painted' = current' /\ allocated
    BY <1>11 DEF Refill, EndsPaint
  <2>2. free # Null \/ spare # Null
    <3>1. CASE Accounted
      BY <2>1, <3>1 DEF Batches
    <3>2. CASE LostOne
      BY <1>11, <3>2 DEF Refill
    <3> QED
      BY <2>1, <3>1, <3>2
  <2>3. /\ {current', free', spare'} \cup {Null} = {free, spare} \cup {Null}
        /\ current' # Null
    BY <1>11, <2>2 DEF Refill, Acquire
  <2>4. Disjoint'
    BY <1>11, <2>1 DEF Refill, Acquire
  <2>5. TakenInRound' /\ SlotsFollowAllocation' /\ PaintHasBatches'
    BY <1>11, <2>1, <2>3 DEF Refill, EndsPaint
  <2>6. Accounted => Accounted'
    BY <1>11, <2>1, <2>3 DEF Refill, Batches
  <2>7. LostOne => LostOne'
    BY <1>11 DEF Refill, EndsPaint
  <2> QED
    BY <2>1, <2>4, <2>5, <2>6, <2>7
<1>12. CASE Drop
  BY <1>12 DEF Drop
<1>13. CASE DropFlagged
  BY <1>13 DEF DropFlagged, EndsPaint
<1>14. CASE Reclaim
  BY <1>14 DEF Reclaim, Dormant
<1>15. CASE SkipDead
  BY <1>15 DEF SkipDead
<1>16. CASE Take
  BY <1>16 DEF Take
<1>17. CASE Reconcile
  BY <1>17, ReleaseKeepsOwnership DEF Reconcile
<1>18. CASE Apply
  BY <1>18 DEF Apply
<1>19. CASE Return
  BY <1>19, ReleaseKeepsOwnership DEF Return
<1>20. CASE ForceFull
  BY <1>20 DEF ForceFull
<1>21. CASE ForceDirty
  BY <1>21 DEF ForceDirty, Redone
<1>22. CASE RedrawTriggered
  BY <1>22 DEF RedrawTriggered, Redone
<1>23. CASE RequestFull
  <2>1. CASE current = Null
    <3>1. /\ ~allocated /\ renderer \in {"idle", "entered"}
          /\ pending = Null /\ taken = Null
      BY <2>1
    <3>2. /\ allocated' /\ current' = 1 /\ free' = 2 /\ spare' = 3
          /\ UNCHANGED <<pending, taken, renderer>>
          /\ worker' = "full"
      BY <1>23, <2>1 DEF RequestFull, Command
    <3>3. Painted' = 1
      BY <3>1, <3>2
    <3>4. Accounted'
      BY <3>2, <3>3 DEF Batches
    <3>5. Disjoint'
      BY <3>1, <3>2, <3>3
    <3> QED
      BY <3>1, <3>2, <3>4, <3>5
  <2>2. CASE current # Null
    BY <1>23, <2>2 DEF RequestFull, Command
  <2> QED
    BY <2>1, <2>2
<1>24. CASE AllocationFails
  BY <1>24 DEF AllocationFails, Command, DisableCapture, ParkFlags
<1>25. CASE Park
  BY <1>25 DEF Park, Command, ParkFlags
<1>26. CASE NoCommand
  BY <1>26 DEF NoCommand
<1>27. CASE UNCHANGED vars
  BY <1>27 DEF vars
<1> QED
  BY <1>1, <1>2, <1>3, <1>4, <1>5, <1>6, <1>7, <1>8, <1>9, <1>10, <1>11,
         <1>12, <1>13, <1>14, <1>15, <1>16, <1>17, <1>18, <1>19, <1>20,
         <1>21, <1>22, <1>23, <1>24, <1>25, <1>26, <1>27 DEF Next, Target,
         PaintStep, WorkerStep

-----------------------------------------------------------------------------
(* The theorems. *)

\* The types and the ownership of the batches hold in every state.
THEOREM EngineInvariant == Spec => []EngineInv
<1>1. EngineInv /\ [Next]_vars => EngineInv'
  BY TypeInductive, OwnershipInductive DEF EngineInv
<1> QED
  BY InitInv, <1>1, PTL DEF Spec

\* Every variable keeps its type, and activePaint counts the paint under way
\* (StartPaint and EndPaint).
THEOREM EngineTypeCorrect == Spec => []TypeOK
<1>1. EngineInv => TypeOK
  BY DEF EngineInv
<1> QED
  BY EngineInvariant, <1>1, PTL

\* No batch has two owners, whatever the order of the exchanges of
\* StartPaint, EndPaint, takeBatch, releaseBatch and reclaimIfDormant.
THEOREM BatchesHaveOneOwner == Spec => []OneOwner
<1>1. EngineInv => OneOwner
  BY DisjointIsOneOwner DEF EngineInv, Ownership
<1> QED
  BY EngineInvariant, <1>1, PTL

\* A live engine keeps its three batches, and a paint always has one to fill
\* (acquireFreeBatch, releaseBatch).
THEOREM NoBatchIsLost == Spec => []NoBatchLost
<1>1. EngineInv => NoBatchLost
  <2> SUFFICES ASSUME EngineInv, allocated, alive
               PROVE  /\ Batches \subseteq {Owners[i] : i \in 1..5}
                      /\ current # Null
    BY DEF NoBatchLost
  <2>1. Accounted
    BY DEF EngineInv, Ownership, LostOne
  <2>2. current # Null
    BY DEF EngineInv, Ownership, SlotsFollowAllocation
  <2> QED
    BY <2>1, <2>2, AccountedIsNoneLost
<1> QED
  BY EngineInvariant, <1>1, PTL

\* The buffers are freed only when no paint is past its checks and the worker
\* has returned its batch (reclaimIfDormant).
THEOREM NoBatchIsFreedInUse == Spec => []NoFreedBatch
<1>1. EngineInv => NoFreedBatch
  BY DEF EngineInv, Ownership, PaintHasBatches, SlotsFollowAllocation,
         NoFreedBatch
<1> QED
  BY EngineInvariant, <1>1, PTL

-----------------------------------------------------------------------------
(* The model of the screen: its inductive invariant. *)

\* A cell of the model once the worker's batch is applied ...
Modelled(c) == IF taken # Null /\ c \in content[taken].area
               THEN content[taken].saw[c] ELSE matrix[c]

\* ... and once the queued one is, too.
Queued(c) == IF pending # Null /\ c \in content[pending].area
             THEN content[pending].saw[c] ELSE Modelled(c)

\* A full repaint is asked for and a flag that wakes the render thread is set
\* or about to be set, or a batch was dropped.  FullRepaintDue and DropUnheard
\* say as much, but a paint may consume forceFullDirty before the worker sets
\* dirty.
RepaintDue ==
    \/ /\ forceFullDirty
       /\ dirty \/ renderer = "started" \/ worker \in {"redoDirty", "fullDirty"}
    \/ reconcileAfterDrop \/ renderer = "dropping"
    \/ worker \in {"redo", "full"}

\* A cell that is not on its way is in the region of the next paint.
CellsKept ==
    \A c \in Cells :
        \/ Arriving(c) = screen[c]
        \/ c \in dirtyArea /\ (dirty \/ renderer = "started")

PaintedWhole == renderer = "painted" /\ content[current].area = Cells

\* Each batch gives the screen of its paint, or a whole screen comes behind.
TakenWhole ==
    taken # Null =>
        \/ \A c \in Cells : Modelled(c) = content[taken].saw[c]
        \/ FullOnItsWay

PendingWhole ==
    pending # Null =>
        \/ \A c \in Cells : Queued(c) = content[pending].saw[c]
        \/ PaintedWhole

CurrentWhole ==
    renderer = "painted" =>
        \A c \in Cells : Arriving(c) = content[current].saw[c]

Pictured ==
    \/ RepaintDue
    \/ CellsKept /\ TakenWhole /\ PendingWhole /\ CurrentWhole

\* The batch whose frame is sent is in the model.
Applied ==
    worker = "sent" =>
        \A c \in content[taken].area : matrix[c] = content[taken].saw[c]

PictureInv == Applied /\ (subscribed /\ alive => Pictured)

-----------------------------------------------------------------------------
(* What the invariant says in the terms of CaptureEngine. *)

\* Arriving, in terms of the batches before the one being painted.
LEMMA ArrivingInOrder ==
    ASSUME EngineInv, NEW c \in Cells
    PROVE  Arriving(c) = IF renderer = "painted" /\ c \in content[current].area
                         THEN content[current].saw[c] ELSE Queued(c)
<1>1. renderer = "painted" => current # Null
  BY DEF EngineInv, Ownership, PaintHasBatches, SlotsFollowAllocation
<1>. QED
  BY <1>1 DEF Arriving, Queued, Modelled

\* A repaint that is due in the sense of the invariant is due, unless it is
\* for a drop the worker has not heard of.
LEMMA DueIsDue == RepaintDue => FullRepaintDue \/ DropUnheard
  BY DEF RepaintDue, FullRepaintDue, DropUnheard

\* An engine starts unsubscribed, with nothing applied.
LEMMA InitPicture == Init => PictureInv
  BY DEF Init, PictureInv, Applied

-----------------------------------------------------------------------------
(* Steps that set a flag, and steps that move nothing of the picture. *)

\* A full repaint that is due makes up for everything.
LEMMA DueSuffices ==
    ASSUME worker' # "sent", RepaintDue'
    PROVE  PictureInv'
  BY DEF PictureInv, Applied, Pictured

\* A repaint that is due stays due until the paint that consumes it; only the
\* flags matter.
LEMMA SamePicture ==
    ASSUME EngineInv, PictureInv,
           UNCHANGED <<screen, dirtyArea, content, pending, taken, matrix>>,
           renderer' = "painted" <=> renderer = "painted",
           renderer = "painted" => current' = current,
           subscribed' /\ alive' => subscribed /\ alive,
           worker' = "sent" => worker = "sent",
           RepaintDue => RepaintDue',
           dirty \/ renderer = "started" => dirty' \/ renderer' = "started"
    PROVE  PictureInv'
<1>1. Applied'
  BY DEF PictureInv, Applied
<1>2. SUFFICES ASSUME subscribed, alive, Pictured, ~RepaintDue, ~RepaintDue'
               PROVE  Pictured'
  BY <1>1 DEF PictureInv, Pictured
<1>3. \A c \in Cells : Modelled(c)' = Modelled(c) /\ Queued(c)' = Queued(c)
  BY DEF Modelled, Queued
<1>4. \A c \in Cells : Arriving(c)' = Arriving(c)
  <2>1. CASE renderer = "painted"
    BY <2>1 DEF Arriving
  <2>2. CASE renderer # "painted"
    BY <2>2 DEF Arriving
  <2>. QED
    BY <2>1, <2>2
<1>5. CellsKept'
  BY <1>2, <1>4 DEF Pictured, CellsKept
<1>6. TakenWhole'
  BY <1>2, <1>3 DEF Pictured, TakenWhole, FullOnItsWay
<1>7. PendingWhole'
  BY <1>2, <1>3 DEF Pictured, PendingWhole, PaintedWhole
<1>8. CurrentWhole'
  BY <1>2, <1>4 DEF Pictured, CurrentWhole
<1>. QED
  BY <1>5, <1>6, <1>7, <1>8 DEF Pictured

-----------------------------------------------------------------------------
(* The steps that move the picture. *)

\* addDirty: the changed cells are in the region of the next paint.
LEMMA InvalidateStep ==
    ASSUME EngineInv, PictureInv, NEW area \in SUBSET Cells, Invalidate(area)
    PROVE  PictureInv'
<1> USE DEF Invalidate, Changed, flagVars, slotVars, batchVars, renderVars, workerVars
<1>1. Applied' /\ (subscribed' => subscribed) /\ (alive' => alive)
  BY DEF PictureInv, Applied
<1>2. SUFFICES ASSUME subscribed, alive, Pictured, ~RepaintDue'
               PROVE  Pictured'
  BY <1>1, Zenon DEF PictureInv, Pictured
<1>3. ~RepaintDue
  BY <1>2 DEF RepaintDue
<1>4. \A c \in Cells : /\ Modelled(c)' = Modelled(c)
                       /\ Queued(c)' = Queued(c)
                       /\ Arriving(c)' = Arriving(c)
  BY DEF Modelled, Queued, Arriving
<1>5. CellsKept'
  BY <1>2, <1>3, <1>4 DEF Pictured, CellsKept
<1>6. TakenWhole' /\ PendingWhole' /\ CurrentWhole'
  BY <1>2, <1>3, <1>4 DEF Pictured, TakenWhole, PendingWhole, CurrentWhole,
     FullOnItsWay, PaintedWhole
<1>. QED
  BY <1>5, <1>6 DEF Pictured

\* A paint gives the screen: what it does not paint is already on its way, or
\* it paints everything.
LEMMA PaintStepPicture ==
    ASSUME EngineInv, PictureInv, Paint
    PROVE  PictureInv'
<1> DEFINE area == IF forceFullDirty \/ dirtyArea = {} THEN Cells ELSE dirtyArea
<1>1. /\ renderer = "started" /\ renderer' = "painted"
      /\ UNCHANGED <<screen, flagVars, dirty, reconcileAfterDrop, slotVars,
                     workerVars>>
      /\ dirtyArea' = {} /\ ~forceFullDirty'
  BY DEF Paint
<1>2. current # Null /\ current \in Batches
      /\ current \notin {pending, taken}
  BY <1>1 DEF EngineInv, Ownership, PaintHasBatches, SlotsFollowAllocation,
     Disjoint, Painted, TypeOK, ThreadType
<1>3. /\ content'[current].area = area /\ content'[current].saw = screen
      /\ \A b : b # current => content'[b] = content[b]
  BY <1>2 DEF Paint, EngineInv, TypeOK, PictureType
<1>4. Applied'
  BY <1>1, <1>2, <1>3 DEF PictureInv, Applied, slotVars, workerVars, EngineInv,
     Ownership, TakenInRound
<1>5. SUFFICES ASSUME subscribed, alive, Pictured, ~RepaintDue'
               PROVE  Pictured'
  BY <1>1, <1>4, Zenon DEF PictureInv, Pictured, flagVars
<1>6. \A c \in Cells : Modelled(c)' = Modelled(c) /\ Queued(c)' = Queued(c)
  BY <1>1, <1>2, <1>3 DEF Modelled, Queued, slotVars, workerVars
<1>7. \A c \in Cells : Arriving(c)' = IF c \in area THEN screen[c] ELSE Queued(c)
  <2>1. \A c \in Cells :
           Arriving(c)' = IF c \in content'[current].area
                          THEN content'[current].saw[c] ELSE Queued(c)'
    BY <1>1, <1>2 DEF Arriving, Queued, Modelled, slotVars
  <2>. QED
    BY <1>3, <1>6, <2>1
<1> HIDE DEF area
<1>8. \A c \in Cells \ area : /\ ~RepaintDue
                              /\ Queued(c) = screen[c]
  <2>1. SUFFICES ASSUME NEW c \in Cells \ area
                 PROVE  ~RepaintDue /\ Queued(c) = screen[c]
    OBVIOUS
  <2>2. ~forceFullDirty /\ c \notin dirtyArea
    BY <2>1 DEF area
  <2>3. ~RepaintDue
    BY <1>1, <1>5, <2>2 DEF RepaintDue, workerVars
  <2>4. Arriving(c) = screen[c]
    BY <1>5, <2>2, <2>3 DEF Pictured, CellsKept
  <2>5. Arriving(c) = Queued(c)
    BY <1>1, ArrivingInOrder
  <2>. QED
    BY <2>3, <2>4, <2>5
<1>9. \A c \in Cells : Arriving(c)' = screen[c]
  BY <1>7, <1>8
<1>10. CellsKept' /\ CurrentWhole'
  BY <1>1, <1>3, <1>9 DEF CellsKept, CurrentWhole, slotVars
<1>11. area = Cells \/ ~RepaintDue
  BY <1>8 DEF area, EngineInv, TypeOK, TargetType
<1>12. TakenWhole' /\ PendingWhole'
  <2>1. CASE area = Cells
    BY <1>1, <1>3, <2>1 DEF TakenWhole, PendingWhole, FullOnItsWay,
       PaintedWhole, slotVars
  <2>2. CASE ~RepaintDue
    <3>1. TakenWhole /\ PendingWhole
      BY <1>5, <2>2 DEF Pictured
    <3>2. /\ taken' = taken /\ pending' = pending
          /\ taken # Null => content'[taken] = content[taken]
          /\ pending # Null => content'[pending] = content[pending]
      BY <1>1, <1>2, <1>3 DEF slotVars, workerVars
    <3>3. TakenWhole'
      BY <1>1, <1>6, <3>1, <3>2 DEF TakenWhole, FullOnItsWay
    <3>4. PendingWhole'
      BY <1>1, <1>6, <3>1, <3>2 DEF PendingWhole, PaintedWhole
    <3>. QED
      BY <3>3, <3>4
  <2>. QED
    BY <1>11, <2>1, <2>2
<1>. QED
  BY <1>10, <1>12 DEF Pictured

\* EndPaint queues its batch: what is on its way is the same, one slot later.
LEMMA PublishStepPicture ==
    ASSUME EngineInv, PictureInv, Publish
    PROVE  PictureInv'
<1>1. /\ renderer = "painted" /\ pending = Null
      /\ pending' = current /\ renderer' = "published"
      /\ UNCHANGED <<screen, changes, dirtyArea, alive, subscribed, dirty,
                     forceFullDirty, reconcileAfterDrop, current, content,
                     worker, taken, matrix>>
  BY DEF Publish, MayQueue, targetVars, flagVars, dirtyVars, batchVars, workerVars
<1>2. Applied'
  BY <1>1 DEF PictureInv, Applied
<1>3. SUFFICES ASSUME subscribed, alive, Pictured, ~RepaintDue'
               PROVE  Pictured'
  BY <1>1, <1>2, Zenon DEF PictureInv, Pictured
<1>4. ~RepaintDue
  BY <1>1, <1>3 DEF RepaintDue
<1>5. current # Null
  BY <1>1 DEF EngineInv, Ownership, PaintHasBatches, SlotsFollowAllocation
<1>6. \A c \in Cells : /\ Modelled(c)' = Modelled(c)
                       /\ Queued(c)' = Arriving(c)
                       /\ Arriving(c)' = Arriving(c)
  <2>1. SUFFICES ASSUME NEW c \in Cells
                 PROVE  /\ Modelled(c)' = Modelled(c)
                        /\ Queued(c)' = Arriving(c)
                        /\ Arriving(c)' = Arriving(c)
    OBVIOUS
  <2>2. Modelled(c)' = Modelled(c)
    BY <1>1 DEF Modelled
  <2>3. Queued(c) = Modelled(c)
    BY <1>1 DEF Queued
  <2>4. Arriving(c) = IF c \in content[current].area
                      THEN content[current].saw[c] ELSE Modelled(c)
    BY <1>1, <2>3, ArrivingInOrder
  <2>5. Queued(c)' = IF c \in content[current].area
                     THEN content[current].saw[c] ELSE Modelled(c)
    BY <1>1, <1>5, <2>2 DEF Queued
  <2>6. Arriving(c)' = Queued(c)'
    BY <1>1 DEF Arriving, Queued, Modelled
  <2>. QED
    BY <2>2, <2>4, <2>5, <2>6
<1>7. CellsKept'
  BY <1>1, <1>3, <1>4, <1>6 DEF Pictured, CellsKept
<1>8. TakenWhole'
  BY <1>1, <1>3, <1>4, <1>5, <1>6 DEF Pictured, TakenWhole, FullOnItsWay
<1>9. PendingWhole' /\ CurrentWhole'
  BY <1>1, <1>3, <1>4, <1>6 DEF Pictured, PendingWhole, CurrentWhole
<1>. QED
  BY <1>7, <1>8, <1>9 DEF Pictured

\* takeBatch: the queued batch becomes the worker's.
LEMMA TakeStepPicture ==
    ASSUME EngineInv, PictureInv, Take
    PROVE  PictureInv'
<1>1. /\ taken = Null /\ taken' = pending /\ pending' = Null
      /\ worker = "top"
      /\ worker' = IF pending = Null THEN "command" ELSE "taken"
      /\ UNCHANGED <<screen, dirtyArea, alive, subscribed, dirty,
                     forceFullDirty, reconcileAfterDrop, current, content,
                     renderer, matrix>>
  BY DEF Take, EngineInv, Ownership, TakenInRound, targetVars, flagVars,
     dirtyVars, batchVars, renderVars
<1>2. Applied'
  BY <1>1 DEF Applied
<1>3. SUFFICES ASSUME subscribed, alive, Pictured, ~RepaintDue'
               PROVE  Pictured'
  BY <1>1, <1>2, Zenon DEF PictureInv, Pictured
<1>4. ~RepaintDue
  BY <1>1, <1>3 DEF RepaintDue
<1>5. \A c \in Cells : /\ Modelled(c)' = Queued(c)
                       /\ Queued(c)' = Queued(c)
                       /\ Arriving(c)' = Arriving(c)
  BY <1>1 DEF Modelled, Queued, Arriving
<1>6. CellsKept' /\ CurrentWhole'
  BY <1>1, <1>3, <1>4, <1>5 DEF Pictured, CellsKept, CurrentWhole
<1>7. TakenWhole'
  BY <1>1, <1>3, <1>4, <1>5 DEF Pictured, PendingWhole, TakenWhole,
     PaintedWhole, FullOnItsWay
<1>8. PendingWhole'
  BY <1>1 DEF PendingWhole
<1>. QED
  BY <1>6, <1>7, <1>8 DEF Pictured

\* applyBatch moves the batch's cells into the model.
LEMMA ApplyStepPicture ==
    ASSUME EngineInv, PictureInv, Apply
    PROVE  PictureInv'
<1>1. /\ worker = "taken" /\ worker' = "sent"
      /\ matrix' = [c \in Cells |-> IF c \in content[taken].area
                                    THEN content[taken].saw[c] ELSE matrix[c]]
      /\ UNCHANGED <<screen, dirtyArea, alive, subscribed, dirty,
                     forceFullDirty, reconcileAfterDrop, current, pending,
                     content, renderer, taken>>
  BY DEF Apply, targetVars, flagVars, dirtyVars, slotVars, batchVars, renderVars
<1>2. taken # Null /\ taken \in Batches
  BY <1>1 DEF EngineInv, Ownership, TakenInRound, TypeOK, ThreadType
<1>3. content[taken].area \subseteq Cells
  BY <1>2 DEF EngineInv, TypeOK, PictureType
<1>4. Applied'
  BY <1>1, <1>3 DEF Applied
<1>5. SUFFICES ASSUME subscribed, alive, Pictured, ~RepaintDue'
               PROVE  Pictured'
  BY <1>1, <1>4, Zenon DEF PictureInv, Pictured
<1>6. ~RepaintDue
  BY <1>1, <1>5 DEF RepaintDue
<1>7. \A c \in Cells : Modelled(c)' = Modelled(c)
  BY <1>1, <1>2 DEF Modelled
<1>8. \A c \in Cells : Queued(c)' = Queued(c)
  BY <1>1, <1>7 DEF Queued
<1>9. \A c \in Cells : Arriving(c)' = Arriving(c)
  <2>1. ASSUME NEW c \in Cells
        PROVE  Arriving(c)' = IF renderer = "painted" /\ c \in content[current].area
                              THEN content[current].saw[c] ELSE Queued(c)'
    <3>1. renderer = "painted" => current # Null
      BY DEF EngineInv, Ownership, PaintHasBatches, SlotsFollowAllocation
    <3>. QED
      BY <1>1, <3>1 DEF Arriving, Queued, Modelled
  <2>. QED
    BY <1>8, <2>1, ArrivingInOrder
<1>10. CellsKept' /\ CurrentWhole'
  BY <1>1, <1>5, <1>6, <1>9 DEF Pictured, CellsKept, CurrentWhole
<1>11. TakenWhole'
  BY <1>1, <1>5, <1>6, <1>7 DEF Pictured, TakenWhole, FullOnItsWay
<1>12. PendingWhole'
  BY <1>1, <1>5, <1>6, <1>8 DEF Pictured, PendingWhole, PaintedWhole
<1>. QED
  BY <1>10, <1>11, <1>12 DEF Pictured

\* releaseBatch after a frame: the model already carries the batch.
LEMMA ReturnStepPicture ==
    ASSUME EngineInv, PictureInv, Return
    PROVE  PictureInv'
<1>1. /\ worker = "sent" /\ worker' = "command" /\ taken' = Null
      /\ UNCHANGED <<screen, dirtyArea, forceFullDirty, reconcileAfterDrop,
                     current, pending, content, renderer, matrix>>
  BY DEF Return, Release, targetVars, batchVars, renderVars
<1>2. Applied'
  BY <1>1 DEF Applied
<1>3. alive' => alive /\ (subscribed' => subscribed) /\ dirty' = dirty
  BY DEF Return, Release, DisableCapture, flagVars
<1>4. SUFFICES ASSUME subscribed', alive', subscribed, alive,
                      dirty' = dirty, Pictured, ~RepaintDue'
               PROVE  Pictured'
  BY <1>2, <1>3, Zenon DEF PictureInv, Pictured
<1>5. ~RepaintDue
  BY <1>1, <1>4 DEF RepaintDue
<1>6. \A c \in Cells : Modelled(c)' = Modelled(c)
  BY <1>1 DEF Modelled, PictureInv, Applied
<1>7. \A c \in Cells : Queued(c)' = Queued(c)
  BY <1>1, <1>6 DEF Queued
<1>8. \A c \in Cells : Arriving(c)' = Arriving(c)
  <2>1. ASSUME NEW c \in Cells
        PROVE  Arriving(c)' = IF renderer = "painted" /\ c \in content[current].area
                              THEN content[current].saw[c] ELSE Queued(c)'
    <3>1. renderer = "painted" => current # Null
      BY DEF EngineInv, Ownership, PaintHasBatches, SlotsFollowAllocation
    <3>. QED
      BY <1>1, <3>1 DEF Arriving, Queued, Modelled
  <2>. QED
    BY <1>7, <2>1, ArrivingInOrder
<1>9. CellsKept' /\ CurrentWhole'
  BY <1>1, <1>4, <1>5, <1>8 DEF Pictured, CellsKept, CurrentWhole
<1>10. TakenWhole'
  BY <1>1 DEF TakenWhole
<1>11. PendingWhole'
  BY <1>1, <1>4, <1>5, <1>7 DEF Pictured, PendingWhole, PaintedWhole
<1>. QED
  BY <1>9, <1>10, <1>11 DEF Pictured

-----------------------------------------------------------------------------
(* Every step. *)

\* Every step of the three threads preserves the picture.
LEMMA PictureInductive == EngineInv /\ PictureInv /\ [Next]_vars => PictureInv'
<1> SUFFICES ASSUME EngineInv, PictureInv, [Next]_vars PROVE PictureInv'
  OBVIOUS
<1> USE DEF targetVars, flagVars, dirtyVars, slotVars, batchVars, renderVars,
        workerVars
<1>1. ASSUME NEW area \in SUBSET Cells, Invalidate(area) PROVE PictureInv'
  BY <1>1, InvalidateStep
<1>2. CASE InvalidateAll
  <2>1. RepaintDue' /\ UNCHANGED <<content, matrix, worker, taken>>
    BY <1>2 DEF InvalidateAll, Changed, RepaintDue
  <2>. QED
    BY <2>1 DEF PictureInv, Applied, Pictured
<1>3. CASE NotifyNewText
  BY <1>3, SamePicture DEF NotifyNewText, RepaintDue
<1>4. CASE Destroy
  BY <1>4, SamePicture DEF Destroy, RepaintDue
<1>5. CASE StartPaint
  BY <1>5, SamePicture DEF StartPaint, RepaintDue
<1>6. CASE PaintRefused
  BY <1>6, SamePicture DEF PaintRefused, EndsPaint, RepaintDue
<1>7. CASE PaintAccepted
  BY <1>7, SamePicture DEF PaintAccepted, EndsPaint, RepaintDue
<1>8. CASE Paint
  BY <1>8, PaintStepPicture
<1>9. CASE PaintDiscarded
  <2>1. RepaintDue' /\ UNCHANGED <<content, matrix, worker, taken>>
    BY <1>9 DEF PaintDiscarded, MarkFullDirty, RepaintDue
  <2>. QED
    BY <2>1 DEF PictureInv, Applied, Pictured
<1>10. CASE Publish
  BY <1>10, PublishStepPicture
<1>11. CASE Refill
  BY <1>11, SamePicture DEF Refill, EndsPaint, RepaintDue
<1>12. CASE Drop
  <2>1. RepaintDue' /\ UNCHANGED <<content, matrix, worker, taken>>
    BY <1>12 DEF Drop, RepaintDue
  <2>. QED
    BY <2>1 DEF PictureInv, Applied, Pictured
<1>13. CASE DropFlagged
  BY <1>13, SamePicture DEF DropFlagged, DropRemembered, EndsPaint, RepaintDue
<1>14. CASE Reclaim
  BY <1>14 DEF Reclaim, Dormant, PictureInv, Applied
<1>15. CASE SkipDead
  BY <1>15 DEF SkipDead, PictureInv, Applied
<1>16. CASE Take
  BY <1>16, TakeStepPicture
<1>17. CASE Reconcile
  BY <1>17, DueSuffices DEF Reconcile, RepaintDue
<1>18. CASE Apply
  BY <1>18, ApplyStepPicture
<1>19. CASE Return
  BY <1>19, ReturnStepPicture
<1>20. CASE ForceFull
  BY <1>20, SamePicture DEF ForceFull, RepaintDue
<1>21. CASE ForceDirty
  BY <1>21, SamePicture DEF ForceDirty, Redone, RepaintDue
<1>22. CASE RedrawTriggered
  BY <1>22, SamePicture DEF RedrawTriggered, Redone, MarkFullDirty, RepaintDue
<1>23. CASE RequestFull
  BY <1>23, DueSuffices DEF RequestFull, Command, RepaintDue
<1>24. CASE AllocationFails
  BY <1>24 DEF AllocationFails, Command, DisableCapture, ParkFlags, PictureInv, Applied
<1>25. CASE Park
  BY <1>25 DEF Park, Command, ParkFlags, PictureInv, Applied
<1>26. CASE NoCommand
  BY <1>26, SamePicture DEF NoCommand, RepaintDue
<1>27. CASE UNCHANGED vars
  BY <1>27, SamePicture DEF vars, RepaintDue
<1> QED
  BY <1>1, <1>2, <1>3, <1>4, <1>5, <1>6, <1>7, <1>8, <1>9, <1>10, <1>11,
         <1>12, <1>13, <1>14, <1>15, <1>16, <1>17, <1>18, <1>19, <1>20,
         <1>21, <1>22, <1>23, <1>24, <1>25, <1>26, <1>27 DEF Next, Target,
         PaintStep, WorkerStep

-----------------------------------------------------------------------------
(* The theorems. *)

\* The ownership of the batches and the picture they carry hold in every
\* state.
THEOREM PictureInvariant == Spec => [](EngineInv /\ PictureInv)
<1>1. Init => EngineInv /\ PictureInv
  BY InitInv, InitPicture
<1>2. EngineInv /\ PictureInv /\ [Next]_vars => EngineInv' /\ PictureInv'
  BY TypeInductive, OwnershipInductive, PictureInductive DEF EngineInv
<1>. QED
  BY <1>1, <1>2, PTL DEF Spec

\* Only a drop the worker has not heard of forgets a change of the screen:
\* otherwise, while subscribed, it is in the model, in a batch on its way
\* there, in the region of the next paint, or a full paint is due (addDirty,
\* GetDirtyArea, EndPaint, takeBatch and requestFull together).
THEOREM LossesAreRemembered == Spec => []LossIsRemembered
<1>1. PictureInv => LossIsRemembered
  BY DueIsDue DEF PictureInv, Pictured, CellsKept, LossIsRemembered
<1>. QED
  BY <1>1, PictureInvariant, PTL

\* A frame the worker sends is the screen of its paint, or a full paint is
\* due, or a whole screen is already behind it, or a drop goes unheard: that is
\* the one way a broken frame can be left uncorrected (takeBatch, applyBatch
\* and framePayload against EndPaint and requestFull).
THEOREM BrokenFramesAreRepaired == Spec => []BrokenFrameIsRepaired
<1>1. EngineInv /\ PictureInv => BrokenFrameIsRepaired
  <2> SUFFICES ASSUME EngineInv, PictureInv, worker = "sent", alive, subscribed,
                      ~FullRepaintDue, ~FullOnItsWay, ~DropUnheard
               PROVE  matrix = content[taken].saw
    BY DEF BrokenFrameIsRepaired, Snapshot
  <2>1. taken # Null /\ taken \in Batches
    BY DEF EngineInv, Ownership, TakenInRound, TypeOK, ThreadType
  <2>2. \A c \in Cells : Modelled(c) = content[taken].saw[c]
    BY <2>1, DueIsDue DEF PictureInv, Pictured, TakenWhole
  <2>3. \A c \in Cells : matrix[c] = content[taken].saw[c]
    BY <2>1, <2>2 DEF Modelled, PictureInv, Applied
  <2>4. /\ matrix = [c \in Cells |-> matrix[c]]
        /\ content[taken].saw = [c \in Cells |-> content[taken].saw[c]]
    BY <2>1 DEF EngineInv, TypeOK, PictureType
  <2>. QED
    BY <2>3, <2>4
<1>. QED
  BY <1>1, PictureInvariant, PTL
=============================================================================
