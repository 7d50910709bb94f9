----------------------------- MODULE AdapterSession -----------------------------
(* One process with the adapter, and the broker at the other end of its pipe:   *)
(* what the worker tells of its panes, resizes and image blobs against the      *)
(* broker's registry and image stores.  A frame that disagrees with what the    *)
(* broker knows ends the connection for all panes of the process; the worker    *)
(* reconnects and begins anew.  CaptureEngine has the exchange of batches, the  *)
(* module PipeHost the connections of several processes, Broker the selection.  *)
EXTENDS Naturals, Sequences, FiniteSets, SequencesExt

CONSTANTS
    N,              \* the panes of the process are 1..N
    Busy,           \* those whose screen and size change
    First,          \* the images they show at first
    Images,         \* content keys
    Bytes,          \* what their blobs take
    Cap,            \* IMAGE_STORE_CAP
    MaxEvents       \* new screens, resizes, switches, panes closed, lost pipes

Panes == 1..N
NoPane == 0

\* MAX_IMAGE is a quarter of the cap: no blob is refused for its length.
ASSUME SessionAssumption ==
    /\ N \in Nat \ {0} /\ Cap \in Nat
    /\ Busy \subseteq Panes /\ First \subseteq Images /\ IsFiniteSet(Images)
    /\ Bytes \in [Images -> 1..Cap]
    /\ MaxEvents \in Nat

VARIABLES
    screen,         \* the images each pane has on screen
    layout,         \* how often its viewport was resized: viewportVersion / 2
    dirty,          \* whether the engine is to paint
    streaming,      \* whether the engine is subscribed
    metadata,       \* metadataChanged
    batch,          \* the batch that waits for the worker, if any
    paint,          \* an EndPaint under way: its batch is queued, or dropped
    reconcile,      \* reconcileAfterDrop
    disabled,       \* panes whose engine is not alive any more
    announced,      \* sourceSent
    worker,         \* where the worker is in its loop, and with which pane
    taken,          \* the batch it works on
    sent,           \* sentImages
    link,           \* the pipe: up, broken by the broker's end, or down
    pipe,           \* packets on their way
    commands,       \* Subscribe and Unsubscribe on theirs
    sources,        \* the broker's registry
    front,          \* the pane whose window and tab are in front
    shown,          \* the frame viewers see
    raced,          \* panes resized between their metadata and their batch
    events          \* how many there were

paintVars == <<paint, reconcile, disabled>>
paneVars == <<screen, layout, dirty, streaming, metadata, batch, paintVars>>
workerVars == <<announced, worker, taken, sent>>
brokerVars == <<sources, shown>>
linkVars == <<link, pipe, commands>>
vars == <<paneVars, workerVars, linkVars, brokerVars, front, raced, events>>

\* Two sizes, so that a second resize is back where the first one left.
Size(l) == l % 2

\* What the blobs of images take together: the bytes of each are numbered, and
\* counted over all.
ByteOf(images) == {x \in images \X (1..Cap) : x[2] <= Bytes[x[1]]}
Total(images) == Cardinality(ByteOf(images))

Idle == [layout |-> 0, images |-> {}]
EmptyStore == [entries |-> {}, order |-> <<>>, bytes |-> 0]
Absent == [registered |-> FALSE, size |-> 0, store |-> EmptyStore]
Registered == {p \in Panes : sources[p].registered}

Event == events < MaxEvents /\ events' = events + 1

Init ==
    /\ screen = [p \in Panes |-> IF p \in Busy THEN First ELSE {}]
    /\ layout = [p \in Panes |-> 0]
    /\ dirty = [p \in Panes |-> TRUE]
    /\ streaming = [p \in Panes |-> FALSE]
    /\ metadata = [p \in Panes |-> TRUE]
    /\ batch = [p \in Panes |-> <<>>]
    /\ paint = [p \in Panes |-> "none"]
    /\ reconcile = [p \in Panes |-> FALSE]
    /\ disabled = {}
    /\ announced = [p \in Panes |-> FALSE]
    /\ worker = [step |-> "away", pane |-> 1] /\ taken = Idle /\ sent = {}
    /\ link = "down" /\ pipe = <<>> /\ commands = <<>>
    /\ sources = [p \in Panes |-> Absent]
    /\ front = 1
    /\ shown = [pane |-> NoPane, size |-> 0, images |-> {}, kept |-> FALSE]
    /\ raced = {}
    /\ events = 0
-------------------------------------------------------------------------------
(* ImageStore.                                                                 *)

Stores == [entries : SUBSET Images, order : Seq(Images), bytes : Nat]

\* The loop that makes room is between two turns, or through.
LoopStates == [store : Stores, rotations : Nat]

Settled(s) ==
    \/ s.store.bytes <= Cap
    \/ s.rotations > Len(s.store.order)
    \/ s.store.order = <<>>

Rotated(s) == [store |-> [s.store EXCEPT !.order = Append(Tail(@), Head(@))],
               rotations |-> s.rotations + 1]

\* Defect: what is evicted stays in the count.
DroppedUncounted(s) ==
    [s EXCEPT !.store.entries = @ \ {Head(s.store.order)},
              !.store.order = Tail(@)]

\* What is in the order is among the entries: StoreAccounts.
Dropped(s) ==
    LET oldest == Head(s.store.order)
    IN  [store |-> [entries |-> s.store.entries \ {oldest},
                    order |-> Tail(s.store.order),
                    bytes |-> s.store.bytes - Bytes[oldest]],
         rotations |-> s.rotations]

\* One turn: the oldest goes, unless it is protected and goes round.
Turn(protected) ==
    [s \in LoopStates |->
        IF Settled(s) THEN s
        ELSE IF Head(s.store.order) \in protected THEN Rotated(s)
        ELSE Dropped(s)]

\* Every turn takes one from the order or is one of at most Len rotations: the
\* loop is through after these many, and further turns leave what there is.
Turns(store) == 2 * Len(store.order) + 1

Evict(store, protected) ==
    LET run[n \in Nat] == IF n = 0 THEN [store |-> store, rotations |-> 0]
                          ELSE Turn(protected)[run[n - 1]]
    IN  run[Turns(store)].store

\* ImageStore::insert.
Insert(store, image, protected) ==
    IF image \in store.entries THEN store
    ELSE Evict([entries |-> store.entries \cup {image},
                order |-> Append(store.order, image),
                bytes |-> store.bytes + Bytes[image]], protected)
-------------------------------------------------------------------------------
(* The terminal.                                                               *)

\* The program shows, or hides, images.
Program(p, images) ==
    /\ images # screen[p]
    /\ Event
    /\ screen' = [screen EXCEPT ![p] = images]
    /\ dirty' = [dirty EXCEPT ![p] = TRUE]
    /\ UNCHANGED <<layout, streaming, metadata, batch, paintVars, workerVars,
                   linkVars, brokerVars, front, raced>>

\* UpdateViewport with other dimensions.
UpdateViewport(p) ==
    /\ Event
    /\ layout' = [layout EXCEPT ![p] = @ + 1]
    /\ metadata' = [metadata EXCEPT ![p] = TRUE]
    /\ dirty' = [dirty EXCEPT ![p] = TRUE]
    /\ raced' = IF worker = [step |-> "take", pane |-> p]
                THEN raced \cup {p} ELSE raced
    /\ UNCHANGED <<screen, streaming, batch, paintVars, workerVars, linkVars,
                   brokerVars, front>>

\* A paint transaction up to EndPaint's exchange: its batch is queued, or is
\* dropped as the one before it still waits.  A batch is taken for the whole
\* screen: what a region leaves out is CaptureEngine's subject.
Paint(p) ==
    /\ streaming[p] /\ dirty[p] /\ paint[p] = "none" /\ p \notin disabled
    /\ dirty' = [dirty EXCEPT ![p] = FALSE]
    /\ \/ /\ batch[p] = <<>>
          /\ batch' = [batch EXCEPT ![p] = <<[layout |-> layout[p], images |-> screen[p]]>>]
          /\ paint' = [paint EXCEPT ![p] = "queued"]
       \/ /\ batch[p] # <<>>
          /\ paint' = [paint EXCEPT ![p] = "dropped"]
          /\ UNCHANGED batch
    /\ UNCHANGED <<screen, layout, streaming, metadata, reconcile, disabled,
                   workerVars, linkVars, brokerVars, front, raced, events>>

\* Defect: a drop is not flagged.
EndPaintSilently(p) ==
    /\ paint[p] # "none"
    /\ paint' = [paint EXCEPT ![p] = "none"]
    /\ UNCHANGED <<screen, layout, dirty, streaming, metadata, batch, reconcile,
                   disabled, workerVars, linkVars, brokerVars, front, raced, events>>

\* EndPaint goes on: the slot of a queued batch is refilled, a drop is flagged.
EndPaint(p) ==
    /\ paint[p] # "none"
    /\ paint' = [paint EXCEPT ![p] = "none"]
    /\ reconcile' = [reconcile EXCEPT ![p] = @ \/ paint[p] = "dropped"]
    /\ UNCHANGED <<screen, layout, dirty, streaming, metadata, batch, disabled,
                   workerVars, linkVars, brokerVars, front, raced, events>>

\* hookedDestructor: the pane closes.
Close(p) ==
    /\ p \notin disabled
    /\ Event
    /\ disabled' = disabled \cup {p}
    /\ streaming' = [streaming EXCEPT ![p] = FALSE]
    /\ UNCHANGED <<screen, layout, dirty, metadata, batch, paint, reconcile,
                   workerVars, linkVars, brokerVars, front, raced>>

\* choose and reselect: the pane in front, once it is registered, is selected
\* and told; the one that was is told otherwise, if it is there.
SelectedAmong(s, w) == IF s[w].registered THEN w ELSE NoPane
Selected == SelectedAmong(sources, front)

Reselect ==
    LET next == SelectedAmong(sources', front')
        old == IF Selected \in Registered' THEN Selected ELSE NoPane
        tell(type, p) == IF p = NoPane THEN <<>> ELSE <<[type |-> type, pane |-> p]>>
    IN  commands' = IF next = Selected THEN commands
                    ELSE commands \o tell("unsubscribe", old)
                                  \o tell("subscribe", next)

\* Another tab or window comes in front.
Switch(p) ==
    /\ p # front
    /\ Event
    /\ front' = p
    /\ shown' = [shown EXCEPT !.kept = FALSE]
    /\ UNCHANGED <<paneVars, workerVars, link, pipe, sources, raced>>
    /\ Reselect
-------------------------------------------------------------------------------
(* The adapter's worker.                                                       *)

At(step, p) == worker = [step |-> step, pane |-> p]
Go(step, p) == worker' = [step |-> step, pane |-> p]

\* The loop takes the panes in turn, and then one command.
GoOn(p) == IF p < N THEN Go("metadata", p + 1) ELSE Go("commands", p)

Packet(type, p, size, images) ==
    [type |-> type, pane |-> p, size |-> size, images |-> images]

\* Defect: what the last connection announced counts for this one.
ConnectStillSent ==
    /\ link = "down"
    /\ link' = "up"
    /\ announced' = [p \in Panes |-> FALSE]
    /\ raced' = {}
    /\ Go("metadata", 1)
    /\ UNCHANGED <<paneVars, taken, sent, pipe, commands, brokerVars, front, events>>

Connect ==
    /\ link = "down"
    /\ link' = "up"
    /\ announced' = [p \in Panes |-> FALSE]
    /\ sent' = {}
    /\ raced' = {}
    /\ Go("metadata", 1)
    /\ UNCHANGED <<paneVars, taken, pipe, commands, brokerVars, front, events>>

\* releaseBatch finds a slot for the batch, unless the paint that queued it has
\* not yet refilled its own: then both are occupied, and the provider disables
\* itself (disableCapture).
Unplaced(p) == paint[p] = "queued" /\ batch'[p] = <<>>

\* reclaimIfDormant: a parked engine's batches go, unless a paint is under way.
Parked == {p \in Panes : ~streaming[p]}
Reclaim(panes) ==
    LET dormant == {p \in panes : paint[p] = "none"}
    IN  /\ batch' = [p \in Panes |-> IF p \in dormant THEN <<>> ELSE batch[p]]
        /\ reconcile' = [p \in Panes |-> reconcile[p] /\ p \notin dormant]

\* A write or a peek fails: the batch at hand is released, every engine is
\* parked, and reclaimed.  What is dirty is not read before the next
\* subscription, which paints everything.
HangUp ==
    /\ link = "broken"
    /\ link' = "down"
    /\ streaming' = [p \in Panes |-> FALSE]
    /\ Reclaim(Panes)
    /\ disabled' = disabled \cup {p \in Panes : At("send", p) /\ Unplaced(p)}
    /\ dirty' = [p \in Panes |-> TRUE]
    /\ Go("away", 1)
    /\ UNCHANGED <<screen, layout, metadata, paint, announced, taken, sent, pipe,
                   commands, brokerVars, front, raced, events>>

\* A pane whose engine is not alive is withdrawn, and has no turn any more.
Withdraw(p) ==
    /\ link = "up" /\ At("metadata", p) /\ p \in disabled
    /\ announced' = [announced EXCEPT ![p] = FALSE]
    /\ pipe' = IF announced[p] THEN Append(pipe, Packet("removed", p, 0, {})) ELSE pipe
    /\ Reclaim({p} \cap Parked)
    /\ GoOn(p)
    /\ UNCHANGED <<screen, layout, dirty, streaming, metadata, paint, disabled,
                   taken, sent, link, commands, brokerVars, front, raced, events>>

\* SOURCE_ADDED leaves metadataChanged as it is.
Metadata(p) ==
    /\ link = "up" /\ At("metadata", p) /\ p \notin disabled
    /\ Reclaim({p} \cap Parked)
    /\ announced' = [announced EXCEPT ![p] = TRUE]
    /\ metadata' = [metadata EXCEPT ![p] = @ /\ ~announced[p]]
    /\ pipe' = IF announced[p] /\ ~metadata[p] THEN pipe
               ELSE Append(pipe, Packet(IF announced[p] THEN "updated" ELSE "added",
                                        p, Size(layout[p]), {}))
    /\ IF batch'[p] # <<>> \/ streaming[p] THEN Go("take", p) ELSE GoOn(p)
    /\ UNCHANGED <<screen, layout, dirty, streaming, paint, disabled, taken, sent,
                   link, commands, brokerVars, front, raced, events>>

Released(p) ==
    /\ disabled' = IF Unplaced(p) THEN disabled \cup {p} ELSE disabled
    /\ streaming' = [streaming EXCEPT ![p] = @ /\ ~Unplaced(p)]

\* takeBatch, and applyBatch when its layout is the present one.  With a drop
\* flagged the batch is released, and the next one is to show everything; the
\* flag alone is not looked at.
Take(p) ==
    LET waits == batch[p] # <<>>
        usable == waits /\ ~reconcile[p] /\ batch[p][1].layout = layout[p]
    IN  /\ link = "up" /\ At("take", p)
        /\ batch' = [batch EXCEPT ![p] = <<>>]
        /\ reconcile' = [reconcile EXCEPT ![p] = @ /\ ~waits]
        /\ dirty' = [dirty EXCEPT ![p] = @ \/ (waits /\ reconcile[p])]
        /\ \/ /\ usable
              /\ taken' = batch[p][1] /\ Go("send", p)
              /\ UNCHANGED <<streaming, disabled>>
           \/ /\ waits /\ ~usable
              /\ GoOn(p) /\ Released(p) /\ UNCHANGED taken
           \/ /\ ~waits
              /\ GoOn(p) /\ UNCHANGED <<taken, streaming, disabled>>
        /\ UNCHANGED <<screen, layout, metadata, paint, announced, sent, linkVars,
                       brokerVars, front, raced, events>>

\* The last viewportMatches; every blob the pane has not announced, the frame;
\* and the batch is released.
Send(p) ==
    /\ link = "up" /\ At("send", p)
    /\ LET fresh == {i \in taken.images : <<p, i>> \notin sent}
           blobs == [k \in 1..Cardinality(fresh) |->
                        Packet("blob", p, 0, {SetToSeq(fresh)[k]})]
           frame == Packet("frame", p, Size(taken.layout), taken.images)
       IN  IF taken.layout = layout[p]
           THEN /\ pipe' = pipe \o blobs \o <<frame>>
                /\ sent' = sent \cup {<<p, i>> : i \in fresh}
           ELSE UNCHANGED <<pipe, sent>>
    /\ taken' = Idle
    /\ UNCHANGED batch
    /\ Released(p)
    /\ GoOn(p)
    /\ UNCHANGED <<screen, layout, dirty, metadata, paint, reconcile, announced,
                   link, commands, brokerVars, front, raced, events>>

\* One command of the broker's is read: Subscribe asks for everything, and the
\* flag of an earlier drop goes; Unsubscribe parks the engine.
Command ==
    /\ link = "up" /\ worker.step = "commands"
    /\ Go("metadata", 1)
    /\ IF commands = <<>> THEN UNCHANGED <<streaming, dirty, reconcile, commands>>
       ELSE LET p == Head(commands).pane
                subscribe == Head(commands).type = "subscribe"
            IN  /\ commands' = Tail(commands)
                /\ streaming' = [streaming EXCEPT ![p] = subscribe]
                /\ dirty' = [dirty EXCEPT ![p] = TRUE]
                /\ reconcile' = [reconcile EXCEPT ![p] = @ /\ ~subscribe]
    /\ UNCHANGED <<screen, layout, metadata, batch, paint, disabled, announced,
                   taken, sent, link, pipe, brokerVars, front, raced, events>>
-------------------------------------------------------------------------------
(* The broker.                                                                 *)

Head1 == Head(pipe)
Arrives(type) == link = "up" /\ pipe # <<>> /\ Head1.type = type
Consumed == pipe' = Tail(pipe) /\ UNCHANGED link

\* disconnected: the sources go, what is on display stays.
TornDown ==
    /\ link' = "broken" /\ pipe' = <<>> /\ commands' = <<>>
    /\ sources' = [p \in Panes |-> Absent]
    /\ shown' = [shown EXCEPT !.kept = FALSE]

SourceAdded ==
    /\ Arrives("added") /\ Consumed
    /\ sources' = [sources EXCEPT ![Head1.pane] =
                      [registered |-> TRUE, size |-> Head1.size, store |-> EmptyStore]]
    /\ UNCHANGED <<paneVars, workerVars, shown, front, raced, events>>
    /\ Reselect

\* What is on display stays, but its pane is not selected any more.
SourceRemoved ==
    /\ Arrives("removed") /\ Consumed
    /\ sources' = [sources EXCEPT ![Head1.pane] = Absent]
    /\ shown' = [shown EXCEPT !.kept = @ /\ Head1.pane # Selected]
    /\ UNCHANGED <<paneVars, workerVars, front, raced, events>>
    /\ Reselect

SourceUpdated ==
    /\ Arrives("updated") /\ Consumed
    /\ sources' = [sources EXCEPT ![Head1.pane].size = Head1.size]
    /\ UNCHANGED <<paneVars, workerVars, commands, shown, front, raced, events>>

\* Defect: nothing is protected.
ProtectedNever(p) == {}

\* What is on display is protected if its source is the selected one.
Protected(p) == IF p = Selected THEN shown.images ELSE {}

ImageBlob ==
    /\ Arrives("blob") /\ Consumed
    /\ LET p == Head1.pane
           image == CHOOSE i \in Head1.images : TRUE
       IN  sources' = [sources EXCEPT ![p].store = Insert(@, image, Protected(p))]
    /\ UNCHANGED <<paneVars, workerVars, commands, shown, front, raced, events>>

\* frame: both checks, and the end of the connection when one fails.
Acceptable(frame) ==
    /\ frame.size = sources[frame.pane].size
    /\ frame.images \subseteq sources[frame.pane].store.entries

FrameAccepted ==
    /\ Arrives("frame") /\ Consumed
    /\ Acceptable(Head1)
    /\ shown' = IF Head1.pane = Selected
                THEN [pane |-> Head1.pane, size |-> Head1.size,
                      images |-> Head1.images, kept |-> TRUE]
                ELSE shown
    /\ UNCHANGED <<paneVars, workerVars, commands, sources, front, raced, events>>

FrameRefused ==
    /\ Arrives("frame")
    /\ ~Acceptable(Head1)
    /\ TornDown
    /\ UNCHANGED <<paneVars, workerVars, front, raced, events>>

\* The pipe breaks, or the broker's process ends and another one starts.
Loss ==
    /\ link = "up"
    /\ Event
    /\ TornDown
    /\ UNCHANGED <<paneVars, workerVars, front, raced>>

Terminal ==
    \/ \E p \in Panes : Paint(p) \/ EndPaint(p) \/ Close(p) \/ Switch(p)
    \/ \E p \in Busy : UpdateViewport(p)
    \/ \E p \in Busy, images \in SUBSET Images : Program(p, images)
Worker == Connect \/ HangUp \/ Command
          \/ \E p \in Panes : Withdraw(p) \/ Metadata(p) \/ Take(p) \/ Send(p)
Broker == SourceAdded \/ SourceUpdated \/ SourceRemoved
          \/ ImageBlob \/ FrameAccepted \/ FrameRefused

Next == Terminal \/ Worker \/ Broker \/ Loss

Spec == Init /\ [][Next]_vars

\* The worker's and the broker's loops go on, and the renderer paints what is
\* invalid and ends its paints.  Nothing is assumed of the program, the user or
\* the pipe's failures.
Fairness ==
    /\ WF_vars(Worker) /\ WF_vars(Broker)
    /\ \A p \in Panes : WF_vars(Paint(p) \/ EndPaint(p))

FairSpec == Spec /\ Fairness
-------------------------------------------------------------------------------
(* Properties.                                                                 *)

\* An image store's three parts never drift apart, and stay within the cap
\* whatever is protected.
StoreAccounts ==
    \A p \in Registered :
        LET store == sources[p].store
        IN  /\ ToSet(store.order) = store.entries
            /\ Len(store.order) = Cardinality(store.entries)
            /\ store.bytes = Total(store.entries)
            /\ store.bytes <= Cap

\* As long as the pane on display stays selected, no blob that arrives evicts an
\* image of it: the frames that follow may refer to it without sending it again.
EvictionSparesDisplay ==
    shown.kept => shown.images \subseteq sources[shown.pane].store.entries

\* A frame of the adapter's own is refused only when a resize fell between the
\* metadata and the batch, or the pane announced more over this connection than
\* its store holds.
RefusalHasCause ==
    [][FrameRefused =>
         \/ Head1.pane \in raced
         \/ Total({i \in Images : <<Head1.pane, i>> \in sent}) > Cap]_vars

\* The pane in front is closed or its provider disabled, or its last drop was
\* flagged after the worker had taken the batch it met: the worker looks at the
\* flag with another batch only (CaptureEngine's DropIsReconciled).
GivenUp == front \in disabled \/ (reconcile[front] /\ batch[front] = <<>>)

\* Whatever was refused, evicted, resized, dropped or lost: once the pane in
\* front shows images its store can hold, that screen comes to be on display,
\* and stays; unless the pane is given up for good.
LastScreenIsShown ==
    <>[](Total(screen[front]) <= Cap) /\ []<>~GivenUp
        => <>[](/\ shown.pane = front
                /\ shown.size = Size(layout[front])
                /\ shown.images = screen[front])
=============================================================================
