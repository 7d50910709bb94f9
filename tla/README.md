# Verification of the shellglass Windows render taps

shellglass streams a terminal to viewers. On Windows it takes what it streams
from inside the terminals: adapters injected into Windows Terminal and conhost
processes watch the renderers, and a broker in the stream process selects one
terminal and publishes its frames, with an accessibility capture as the
fallback for other windows. This directory holds TLA+ models of that system,
the TLC configurations that check them on small instances, and proofs checked
by TLAPS.

Line numbers refer to `src/*.rs` and `native/windows/*` of the repository;
`PROJECT.json` maps each definition to the lines it models.

## 1. The system

| component | source | state it keeps | interacts by | module |
|---|---|---|---|---|
| Native broker | `src/native_broker.rs` | connections, source registry, foreground window and epoch, focus clock, selection, published identity, privacy hold, pending full, pause | one mutex; returns commands, publishes frames | `Broker` |
| Image store | `src/native_broker.rs` 58-92 | blobs, order of use, bytes, per source | inside the broker | `AdapterSession` |
| Pipe host | `src/windows_native.rs` | routes (nonce to command queue), active runtime | one task per pipe; a mutex of its own, after the broker's | `PipeHost` |
| Control plane | `src/windows_native.rs`, `src/main.rs` | `DESIRED_PAUSED` | a second pipe | `PipeHost` |
| Foreground tracker | `src/windows_native.rs` | the poll's last window | calls the broker from its own thread | `AccessibilityWorker` |
| Native protocol | `src/native_protocol.rs` | decoder buffer, nonce, sequence | per connection | `NativeProtocol` |
| WT capture engine | `native/windows/wt_adapter.cpp` 562-1169 | three batches, dirty flags, subscription flags, model of the screen | atomics between the target's render thread, its UI thread and the worker | `CaptureEngine` |
| WT adapter session | `native/windows/wt_adapter.cpp` 1589-2126 | announced sources, sent images | pipe to the broker | `AdapterSession`, `NativeProtocol` |
| WT lifecycle hooks | `native/windows/wt_adapter.cpp` 1170-1360 | engine registry, owners, focus | `enginesMutex` | destruction only (`CaptureEngine`) |
| Conhost adapter | `native/windows/conhost_adapter.cpp` | one engine | a newest-wins variant of the above | - |
| Accessibility worker | `src/accessibility.rs` 185-730 | ticket, geometry | a polling loop that calls the broker | `AccessibilityWorker` |
| Reconstruction | `src/accessibility.rs` 731-3215 | none: a tree becomes a frame | called by the worker | `Reconstruction` |
| Injector, profile tool, scripts, fixtures | `native/windows/*` | none | tooling | - |

The packets of an adapter go through its pipe task into the broker; every
broker call returns commands (`Subscribe`, `Unsubscribe`, `RequestFull`),
which are dispatched by nonce to the queue of a pipe task and obeyed by the
adapter's worker. The accessibility worker takes a ticket, captures for up to
seconds, and comes back with it.

### Behaviours that are hard, and what makes them correct

* **Selection.** Any order of packets, foreground changes, disconnections and
  pauses must leave the selection the policy would make; an unrelated window
  must not take a retained pane away; ambiguity must not be resolved by the
  order of a hash map; a level-triggered focus bit must not move it.
* **Publication.** Only the selected terminal is published; in hybrid mode
  only while its window is in front or held for privacy; a capture only for
  the window its ticket was taken for; nothing during a pause; and switching
  away and back must not leave an old screen.
* **Subscription.** Exactly the selected engine is active, across two mutexes,
  command queues, connections that replace each other and a worker that stops.
* **Lock-free capture.** No batch is painted while it is read or freed; no
  screen change is lost when a delta is dropped; a dormant or closed engine
  gives its buffers back.
* **Session.** Resizes fall between a pane's metadata and its batch, images
  are cached on both sides of the pipe with different lifetimes, and one
  refused frame ends the connection of all panes: the screen in front must
  come to be on display all the same.
* **Byte stream.** However the pipe cuts the packets, what is delivered is
  what was written, and glyphs keep their columns.
* **Capture.** Nothing the privacy policy denies is shown although the window
  in front changes under the capture; no frame mixes two places of a window
  that moves; a window that rests is shown in the end.
* **Reconstruction.** Pixels become cells: nothing may be drawn over half of
  a wide glyph, over a neighbour's cell, or be lost in packing and wrapping.

`PROJECT.json` lists each of these under `hazards`, with the line where it
bites and the properties that watch it.

## 2. Modules

| module | contents |
|---|---|
| `StreamView` | the abstract promise to viewers: one presenter at a time, its frames only, and a pause that revokes and freezes in one step |
| `Broker` | the broker, one action per outcome of each public method |
| `BrokerProofs` | its inductive invariant; the theorems on the selection and on what is on display |
| `CaptureEngine` | the Windows Terminal engine, one action per atomic operation of a thread |
| `EngineProofs` | the ownership invariant of the engine, the invariant of the picture, and the theorems |
| `PipeHost` | pipe tasks, foreground thread, control requests and the worker's life around the two mutexes |
| `PipeHostProofs` | the invariant of routes and connections, of the newest command for an adapter and of the pause, and the theorems |
| `AccessibilityWorker` | foreground tracker, capture loop, privacy policy and the broker's ticket |
| `WorkerProofs` | three invariants of the worker, and the theorems |
| `AdapterSession` | an adapter's worker with several panes against the broker's registry and image store |
| `SessionProofs` | the loop that makes room in an image store; the invariants of the session and of refusals, and the theorems |
| `NativeProtocol` | matrix to frame payload, byte stream, decoder, payload checks |
| `ProtocolProofs` | the invariant of the stream and its decoder, the round trip of a frame, and the theorems |
| `DataLemmas` | what the proofs of the session, the protocol and the reconstruction share about sequences, extremes, iteration and folds |
| `TextFlow`, `Canvas`, `Layout`, `Reconstruction` | text measures and wrapping; the canvas; projection, tables and lists; the walk over a tree |
| `ReconstructionProofs` | the invariant of the capture and of the walk, the invariants of the drawing and of what is laid out, and the theorems |
| `MC*` | the instances for TLC: values of constants, symmetry, views, constraints |

Each module models one component at the grain its own hazards need, and stands
for its neighbours by what they may do: `PipeHost` has a broker whose
selection moves freely (the policy is `Broker`'s subject), `Broker` has adapters
that obey commands in order (whether they do is `PipeHost`'s subject),
`AdapterSession` takes a batch as a screen with a layout, queued or dropped (the
single operations of the hand-over are `CaptureEngine`'s subject), and
`NativeProtocol` takes packets as they come.

Modules without a `TypeOK` are typed by their proofs (`HostTypes` in
`PipeHostProofs`, `TypeOK` in `SessionProofs`, `ProtocolInv` in
`ProtocolProofs`) or by the comments at their variables.

### Broker

A broker method runs under one mutex, so it is one action, and the `reselect`
that ends it is part of it. The variables have the names of the fields of
`State`; `privacy_hold` is `privacy_hold_terminal`, `frame` is what the frame
channel shows. A packet that is refused (`bail!`) keeps what it had assigned
before, and marks its connection `failed`; the connection's teardown,
`Disconnected`, comes later and at any time, as the pipe task runs on its own.
Three ledgers stand for the other side: `subscribed` and `owing` are what
adapters hold when they have obeyed the commands in order (who is active, who
owes a full frame), and `ticket` is what the accessibility worker holds between
two calls.

A source is its generation, owner, focus, visibility, focus stamp and last
frame number. Titles, cells and images are left out: whether a frame's
dimensions and blobs are in order is an input (`FrameMalformed`).

### CaptureEngine

The state of one engine (`alive`, `subscribed`, `releaseRequested`, `dirty`,
`forceFullDirty`, `reconcileAfterDrop`, `activePaint`, the slots `current`,
`pending`, `free`, `spare`) and the program counters of the render thread and
of the worker. An action is one atomic operation on what the threads share,
or a run of operations of which no other thread can tell the difference: the
loads at the top of `StartPaint` are one step, the exchange in `EndPaint` and
the `acquireFreeBatch` behind it are two, and so are the exchange of `pending`
and that of `reconcileAfterDrop` in `takeBatch`, and the two stores of
`markFullDirty` when the worker makes them. Memory order is taken as
sequentially consistent, which is what the code's orderings give for these
variables (`subscribed` against `activePaint` is explicitly so).

A cell of the screen is the number of the change that wrote it, a batch
carries a set of cells and the screen it saw, so what is lost or mixed can be
seen. The dirty region is a set of cells where the code keeps a bounding
rectangle: less is painted than by the code, which is the harder case.
External, and modelled from how the adapter uses it: the target paints and
invalidates under its console lock (`renderer = "idle"` in `Changed`), and
its `TriggerRedrawAll` may or may not invalidate every engine. SHUTDOWN, after
which the adapter's worker parks its engines and ends (2102), is left out: this
host never sends it.

`FullRepaintDue` is what is certain to lead to a full paint: the paint that is
next, or the worker in the middle of asking for one, or about to read the flag
of a drop, which it does with a batch only. A drop it may have missed is
`DropUnheard`, and both properties of the picture except it by that name.

### PipeHost

A task is at one of its phases between two lock acquisitions: a connection is
`open` (accepted), `introduced` (its route is entered, under the routes'
mutex), `known` (HELLO has gone through the broker's), `announced` or
`withdrawn`, `leaving` (its route is removed) and `closing` (the broker has
forgotten it, its last commands are not dispatched yet). `BrokerCall` is one
call under the broker's mutex; it leaves the commands it returned in
`pending[t]` (one process to unsubscribe, one to subscribe, `NoOne` for none),
and `Dispatch(t)` hands them to the queues later, under the routes' mutex. That
gap is the point of the module. `queue` is the channel between a dispatcher and
a pipe task, `link` what the adapter believes of its pipe. `Ends` has every way
out of a task's loop, a packet that the decoder or the broker refuses on a pipe
that works included. Control requests run through `ControlRead` (request and runtime),
`ControlStore` (`DESIRED_PAUSED`), `ControlTell` (`set_paused`) and
`ControlAnswer`; the start of the worker through `StreamStart`, `LoadDesired`
and `Publish`.

Four variables are ledgers that the code does not have. `newest[p]` is the task
that holds the newest command for the source of p: set by the call that decided
it, cleared when that task dispatches or the source goes. `astray` says that an
adapter was sent a command that `newest` does not stand behind (`GoesAstray`):
one that a newer command for the same adapter had overtaken; one that was
decided for the source of an earlier connection and finds the process connected
again; or a subscription to a connection that has not announced its source.
Commands in order leave it alone, whatever else changes in the registry.
`missed` says that a pause found no runtime, and `promised` that a pause was answered
that no resume or stop overlapped or followed (`alone`, in the record of the
request, says so of a pause under way: of two requests at the same time either
may have the last word). They let the properties say exactly when the engines
are out of step.

### AccessibilityWorker

The window really in front (`front`), what the tracker knows of it (events in
the hook's queue, and what the poll read; the hook and the poll start on their
own, so there may be either or both), what the broker was told (`known`,
`epoch`, `hold`), and the capture loop at the steps `wanted`, `resolved`,
`read`, `visible` or `blocked`. A window has a place that changes at any time;
a capture remembers the place of the root (`source`) and of the descendants
(`tree`), so a mixed frame can be seen. `Blocks` is the privacy policy with its
three answers (denied, visible, cannot be told); `Resolved` is
`resolve_window` for the three ways to choose a window. In preview mode there
is no broker and every capture is wanted.

### AdapterSession

The worker's round over its panes is `Metadata`, `Take`, `Send` per pane and
`Command` at its end, as in the code's loop; packets travel in `pipe` and
commands back in `commands`. The broker's side has a registered source with its
size and its image store (`entries`, `order`, `bytes`, as the fields of
`ImageStore`; the loop that makes room is a run of `Turn`s, as many as it can
take), and one action per packet, `FrameRefused` included: it tears the
connection down, the worker notices (`HangUp`), and reconnects (`Connect`) with
its caches cleared. `raced` and `shown.kept` are ledgers: panes that were
resized between their metadata and their batch, and whether the pane on display
has stayed selected since.

A paint has two steps, because the worker may come between them. `Paint` goes up
to the exchange in `EndPaint`: its batch is queued, or dropped when the one
before it still waits. `EndPaint` is what follows: a refilled slot, or the flag
`reconcile`. `Take` reads the flag only with a batch, as `takeBatch` does: it
releases that batch, and the next paint is to show everything. A batch that is
released before the paint that queued it has refilled its slot finds both return
slots occupied (`Unplaced`), and the provider disables itself. A pane that is
closed (`Close`, `hookedDestructor`) or disabled is in `disabled`; the worker
withdraws it with SOURCE_REMOVED (`Withdraw`) while the other panes go on, and
the broker selects anew (`SourceRemoved`). A parked engine is reclaimed on the
worker's round unless a paint is under way (`Reclaim`).

### NativeProtocol

The adapter paints glyphs into a row of cells and writes frames and images
after its HELLO; `BrokenPackets` holds one packet for each way to break the
protocol. `Push(n)` gives the decoder the next n units, in every way to cut the
stream, and cuts out all complete packets, as the loop of `Decoder::push` does.
The loop is written as a run of turns over the numbers: each turn takes a
packet, fails, or finds no whole packet left, so as many turns as there are
packets are enough. A packet on the wire carries its `end` in the stream. A
payload is a record of its fields; `decode_payload` is the conjunction of the
checks of each kind. `MatrixArrives` compares glyphs by column at both ends.

`BrokenAssumption` says what a broken packet may be: one that the envelope's or
the payload's checks refuse, or one that is not HELLO and comes first, under
another nonce or with a number that is not new. A second HELLO is `SendAgain`.

### Reconstruction

A pure function in the code, and a walk in the model: `capture` keeps the nodes
within the limits, `draw` visits them one after another, `tree` lists them when
nothing could be drawn. `TextFlow` and `Canvas` have the text and cell
operations, `Layout` the projection of pixels and the packing of tables and
lists. A text is a sequence over `Glyphs`, narrow or wide; `Wide` is any part of
them that spares the signs the code itself writes. What the code does by filtering,
sorting or splitting a list is a set of places put in order (`InOrder`,
`Chosen`, `Split`), a loop with a condition is as many turns as it can need
(`ShrinkTurn`, `GrowTurn`). Roles that are drawn alike are one role.
Arithmetic that the code does in `f64` is exact here. The header of
`Reconstruction` lists the trees that are left out.

## 3. Runs

All bounds are constants of the configurations.

| run | instance | shows |
|---|---|---|
| `broker_keep_last` | keep-last policy; a Windows Terminal and a conhost process with a source each, two windows | types; the selection is settled, followed by the subscription, and retained |
| `broker_foreground_only` | foreground-only policy; two conhost processes that claim one window | what is on display is the last screen of the presenter; ambiguity is not resolved by chance; the selection moves with a cause |
| `broker_hybrid` | hybrid policy; one terminal with two generations, two windows, epochs modulo 3 | a capture belongs to the window of its ticket; the memo of the pending full never suppresses a request that is due; a terminal in front is shown or asked for; `StreamView` is implemented |
| `engine_batches` | two cells, a screen change, any number of commands, fair threads | ownership of batches, no use after free; a screen change is forgotten and a broken frame left alone only by a drop the worker has not heard of; a parked engine gives its buffers back |
| `host_routes` | two adapters at different integrity levels, two pipe instances, a control client; a drop, a foreground change, two requests, two starts | routes and registrations live exactly as long as their connections; engines follow the broker unless a command was overtaken or met another connection; an answered pause stays in force unless it fell into the start |
| `worker_captures` | an editor, a denied password manager, a service that cannot be identified, a terminal; all three modes; a hook, a poll, or both | nothing denied is shown, frames are coherent, holds are for denied windows, the tracker learns the window in front unless the change fell into its start, a window at rest is shown |
| `session` | a busy and an idle pane, images of one and two units in stores of two; two events | the store accounts for its bytes and spares what is on display; a frame is refused only for a raced resize or an overfull store; the last screen is shown unless its pane is given up |
| `protocol` | one row of three columns, three styles and a table of two, three packets | packets arrive whatever the cuts; refusals are deserved; the matrix arrives |
| `rendering` | some seven thousand windows of controls, texts, tables, lists and bare trees on canvases of 8 columns | limits keep a prefix, rows stay whole, cells and entries keep apart, words survive wrapping, the listing shows the focus, controls keep to their place |

Three runs find a behaviour that a document or a comment excludes. The findings
in `PROJECT.json` quote the text.

| run | behaviour |
|---|---|
| `engine_release` | a worker that overtakes `EndPaint` between its exchange and its refill finds both return slots full and disables the provider |
| `engine_drops` | a worker that takes the queued batch after `EndPaint` failed over it, and before the drop is flagged, leaves the dropped delta unreconciled in an idle terminal |
| `host_pause` | a pause is answered and an engine stays subscribed, because the subscription was dispatched after the pause's commands, or the pause fell between the two steps of the start |

`EnginesFollowSelection` and `PauseIsKept` are the other half of `host_pause`:
they hold, and say what the exceptions are. An engine is out of step only after
a command for it was overtaken by a newer one, was sent to a later connection of
its process, or came before the announcement (`GoesAstray`); an answered pause
is not in force only if it fell between the two steps of the start.

### Why the bounds are enough

* **Broker.** The policy compares sources pairwise and looks at one window and
  one generation at a time: two sources that share a window, or one source and
  two windows, meet every comparison; focus stamps up to 3 let either of two
  sources overtake the other and back, two frame numbers let a frame be newer,
  equal or older, and two generations let one be replaced. The wrap of the
  epoch is within the bound; that it does not come around to an outstanding
  ticket (2^64 changes within a capture) is a guard of `ForegroundChanged`.
* **CaptureEngine.** Two cells tell a partial paint from a full one; the first
  full paint and the one change, which any notice of new text paints again, have
  one batch queued and one dropped; commands are not bounded. More changes and
  cells are left to the proofs, of all properties but the liveness.
* **PipeHost.** Two pipes and two adapters let a process reconnect while its old
  task still ends, and the other one take its place; one drop, one foreground
  change, two requests (a pause and what follows it: another, a resume or a stop)
  and two starts cross every such step, a worker that finds adapters of the one
  before it included. The adapters may be exchanged: nothing but the control
  pipe looks at their different levels. The constraint `InOrder` of
  `host_routes` cuts what follows an astray command: from there on the engines
  may be out of step, and no other property depends on them.
  The unbounded case is proved, of all four properties and without `InOrder`;
  several control clients at once are left to the proof.
* **AccessibilityWorker.** Three events, of which two may be changes: two changes
  with a hook that is late let an event and a poll overtake each other, two
  moves let a window leave and come back within a reading, and each has room for
  a move, a change or a failure besides. The hook may be installed at any time
  after the first reading or never, so the tracker comes to use the hook, the
  poll or both. Matching by executable, by name and by neither, and an application that cannot be judged,
  are the four windows. What the loop forgets at the end of a turn is reset
  (`Outcome`), so that turns do not differ by it.
* **AdapterSession.** Sizes alternate between two, so that a second resize is
  back where the first one left; a store holds either of the two images and
  not both, so that a screen fits, evicts or does not fit. Two events (screens,
  resizes, switches, closed panes, lost pipes) cross every step with each other:
  a drop takes one screen painted while the one before it waits, a refusal one
  resize at its place of the round. Paints, drops, commands and disabled
  providers are not bounded. More events are left to the proofs of the safety
  properties.
* **NativeProtocol.** A read is larger than an envelope and smaller than the
  largest packet, so a packet spans reads and a read spans packets. The
  constraint `BrokenOrPainted` keeps painted frames and broken packets in
  separate behaviours: what is painted makes no difference to what is wrong
  with another packet. The proofs are not under it.
* **Reconstruction.** Up to seven nodes against a limit of six, labels that fit,
  that must be elided and that hold a wide glyph at the edge, rectangles that
  overlap, touch and stand out; a preview terminal may have any size, so eight
  columns and three to seven rows are sizes a viewer can have (a streamed
  capture has 20 to 500 columns and 6 to 200 rows). The recursion over a list's
  or a table's entries is the same for the fourth entry as for the third.

### Deadlock

The broker runs check it. In the others it is off because the system may really
stop: a dead engine, a stopped worker or a closed connection is finished, a
drawn frame is done, and inputs are bounded. What must still happen is said by
the liveness properties.

### Fairness

* `CaptureEngine`: a paint that has begun ends (the target calls `EndPaint` for
  every accepted `StartPaint`), and the worker's loop goes around (it never
  waits for a render thread; its pipe writes end with the pipe).
* `AccessibilityWorker`: the capture loop is a thread of its own, the wait for
  the hook ends (two seconds), events are delivered, and a spawned poll starts
  and comes around (100 ms). The hook need not be installed at all. Nothing
  is assumed of the desktop, and no provider must succeed in particular: failures
  are bounded, as a provider that fails for ever shows nothing.
* `AdapterSession`: the worker's and the broker's loops go on, and the renderer
  paints what is invalid and ends its paints. Nothing is assumed of the program,
  the user or the pipe's failures.

Nothing is assumed of the target's output, of commands, or of the start of
another paint. `PipeHost` is checked for safety only: `Quiescent` states say
what must be true when its tasks have come to rest.

## 4. Proofs

Every theorem holds for all values of the constants that satisfy the named
assumption of its module; the bounds are among the constants.

### Broker

`BrokerProofs` holds for every set of processes, sources
and windows, each policy and all bounds, from the assumptions of `Broker`:
terminal hosts are processes, hybrid keeps the last terminal, bounds are
naturals, and the "none" values are not values.

The inductive invariant `BrokerInv` is the conjunction of type correctness,
settledness, the strict focus order and the memo of the pending full, which
need each other: a call that does not reselect preserves settledness only
because the choice is stable under its own answer (`ForegroundChoiceStable`,
`PickStable`), which needs stamps bounded by the clock; the memo is due only
while the selection is settled. Its preservation has one lemma per kind of
call, over the lemmas on the selection policy.

The properties of two adjacent states compare two choices of the policy. That a
choice is the only one of its kind comes from `PickUnambiguous`; that the same
data give the same choice from `SamePolicyData`: the policy is a function of
owners, kinds, focus stamps and visibility, and a call that leaves these alone
leaves the choice alone. `NoCauseNoMove` is the contraposition that
`MovesWithCause` needs: without one of the causes the old selection is the
policy's choice still. For a source key to be told from "none" in those lemmas,
`OptionAssumption` says that `NoKey` is neither a key nor an incarnation.

The second part of `BrokerProofs` is what is on display. `ForegroundTerminalIsRestored` is
inductive together with `BrokerInv`: a terminal comes to own the foreground
only in a call that reselects, and `reselect` asks for the frame unless it is
shown already. `PresentedIsCurrent` is proved without the accessibility
fallback, where nobody but the selected terminal publishes
(`TicketsNeedFallback`), and with `MaxGeneration = 1`: no adapter advances a
generation, and section 5 says what the code does when one would. In hybrid
mode it is not true (section 5: a terminal that was never replaced on display
is not asked), and the runs check it where it is proved.

| theorem | says |
|---|---|
| `TypeCorrect` | types; the selection and the subscriptions are registered |
| `SelectionIsSettled` | no call returns with a selection its policy would change |
| `FocusIsOrdered` | focus stamps of two sources differ |
| `RememberedRequestIsDue` | the memo is for the selected incarnation, due and unanswered |
| `SubscriptionsFollow` | with one generation per source, exactly the selected engine is active |
| `RetainsSelection` | a visible selected source yields only to the foreground or a pause |
| `CapturesBelong` | a capture is shown only in front of the window it was taken for |
| `ElectsUnambiguously` | a newly selected source was focused, or is the only visible one of its kind in its window |
| `MovesWithCause` | the selection moves only for what the operator did or a source became |
| `RestoresForeground` | hybrid: the terminal in front is on display, or asked for its full frame |
| `PresentsCurrent` | the frame of the terminal that may publish is the last it sent, or a newer one is owed |
| `KeepsViewersPromise` | `Broker` implements `StreamView` |

### CaptureEngine

`EngineProofs` holds for every viewport that has a cell and every number of
screen changes. The inductive invariant `EngineInv` is type correctness and
`Ownership`: each batch has one owner (`Disjoint`), the worker has one exactly
between `takeBatch` and `releaseBatch`, an engine without batches has empty
slots and one with them never has an empty `current`, a paint past its checks
has batches, and all three are accounted for. The last part has one exception,
without which it is not inductive and which is the behaviour of
`engine_release`: the batch returned while both slots are occupied is lost,
and the invariant says that the engine is dead by then and that its render
thread can at most finish the paint it is in (`LostOne`). That `Refill` always
finds a batch, and that `Release` fails only then, follow from counting the
owners. Types and ownership are one induction, because the worker's model is
well typed only while the batch it applies exists.

The second part of `EngineProofs` is what the batches carry. `PictureInv`
says of a subscribed engine that a repaint of everything is due (a flag is set,
or a thread is about to set it or has read it and not acted yet) or a batch was
dropped, or else that
each cell is on its way or in the region of the next paint (`CellsKept`), and
that each of the three batches, applied after those before it, gives the screen
of its own paint or has a whole screen behind it (`TakenWhole`, `PendingWhole`,
`CurrentWhole`). The last part is what makes it inductive: a batch may be
dropped at the handover, and the one behind it is then a correction only if it
is whole. Each lemma takes one step of a thread (a cell that changes, a paint
that begins, a batch that is queued, taken or applied); TLC checked the
invariant on the instance of `engine_batches` first.

| theorem | says |
|---|---|
| `EngineTypeCorrect` | types; `activePaint` counts the paint under way |
| `BatchesHaveOneOwner` | no batch has two owners |
| `NoBatchIsLost` | a live engine keeps its batches and can always paint |
| `NoBatchIsFreedInUse` | buffers are not freed under a paint or the worker |
| `LossesAreRemembered` | a change is in the model, on its way, in the next paint's region, or a full paint is due, unless a drop goes unheard |
| `BrokenFramesAreRepaired` | a frame that is not the screen of its paint is sent only while a full paint is due or a whole screen is behind it, or a drop goes unheard |

### PipeHost

`PipeHostProofs` holds for any number of adapters, pipe instances, control
clients, drops, requests and starts. `HostInv` adds to the two properties the
types of connections and routes and that a connection has a process from its
acceptance on. The phases fall into kinds (introduced, greeted, counted on by
nobody); a step within a kind is one lemma (`SameKind`), a step that touches
neither connections nor routes another (`Untouched`), and the steps that cross
kinds (`Introduce`, `Greet`, `Leave`, `Disconnected`, `ControlStop`) have one
each. What carries the proof is that a route is entered only for a process
without one, so the route a teardown removes is the connection's own.

| theorem | says |
|---|---|
| `RoutesStayExclusive` | a process has exactly one route, to the connection that introduced it |
| `ForgetsDeadAdapters` | the broker has no process and no source without a connection |
| `EnginesObey` | in rest the engines run as the broker decided last, unless an adapter was sent a command that a newer one for it had overtaken, or one decided for a source of an earlier connection, or a subscription before it announced its source |
| `PauseStays` | an answered pause is in force in rest, unless it fell into the broker's start |

The second part of `PipeHostProofs` relates the commands on their way to the
decisions that made them, in three inductions on top of `HostInv`.

* `HandsInv`: the task in `newest[p]` holds a command for p, and that command
  says whether p is selected (`NewestIsHeld`); a task that calls the broker
  holds none; a connection has announced its source or nobody has; an adapter
  without a pipe has parked its engine.
* `SelectionInv`: as long as nothing went astray, an adapter that no task holds
  a newer command for has been told whether it is selected (`Told`, which counts
  its queue as obeyed, `WillRun`), and a connection that has announced nothing
  has been told nothing. A call of the broker names every source of which the
  answer changes (`DecisionNames`), so the others stay told; a dispatch tells
  the sources whose newest command it is, and says nothing to the others
  (`DispatchKeepsSelection`, with `CommandsArrive` for the routes); a delivery
  leaves what will run (`LastOfTail`). In rest nothing is held, the queues are
  empty, and `Told` is the property. The restriction to "not astray" is not a
  convenience: the code does lose the order then (section 3, `host_pause`).
* `PauseInv`: a pause that is alone, once stored, arrives: it is in the broker,
  or a request is about to tell the broker, or the broker has yet to load it,
  or it was missed (`PauseArrives`). Before the broker is published nobody is
  served and nothing is selected (`AsleepBeforeUp`).

The three invariants were checked by TLC on two instances before they were
proved: two adapters and two pipes with one control client, and two control
clients with one adapter. The second was needed: with a `promised` that only a
later resume took back, a pause overlapped by a resume was no longer kept.

### AccessibilityWorker

`WorkerProofs` has three independent inductions, for every desktop, policy,
mode and way to track the foreground.

* `CapturesAdmitted`: from its resolution on the captured window is one that
  `resolve_window` may answer with; what is shown was captured.
* `CoherentInv`: a reading of the descendants elsewhere than the root takes at
  least one move since the window was resolved, and finding the root back where
  it was takes two (`MovesAreCounted`); so a single move never passes the check.
* `HoldInv`: the undelivered events are the steps from the window the broker
  knows to the one in front (`EventsLead`), so each of them makes outstanding
  tickets stale; hence a refusal whose ticket is still good is for the window
  in front (`RefusalIsForFront`). `StartIsQuiet` has what precedes the hook.

| theorem | says |
|---|---|
| `ShowsOnlyAllowed` | no window is shown that the policy denies or cannot judge |
| `FramesAreCoherent` | a frame mixes two places only if the window came back within the reading |
| `HoldsAreForTheDenied` | a hold is for a denied window in front, while the hook reports every change |

### AdapterSession

`SessionProofs` holds for any number of panes, any finite set of images, any
sizes of blobs up to the cap, any cap and any number of events.

Its first part is about `ImageStore::insert`. The loop is a run of turns, and
three things are to be shown of it: that the store's parts agree in the end,
that what is protected is spared, and that it makes room although a rotation
makes none. The loop's invariant `LoopInv` says that the parts agree
(`Accounted`), that the entries which went round are the last of the order and
protected, and that twice the length of the order plus the turns so far, less
the rotations, does not exceed twice the length at first, so the turns of `Evict`
are enough (`TurnsLeft`). When there were more rotations than entries, all that
is left is protected; and that fits, because what is on display fitted a store
when it was shown (`DisplayInv`). The induction over the turns is stated with a
set of numbers (`NaturalsClosed` of `DataLemmas`: a number that is missing would
have a least one), and that the run exists is shown from the runs up to n
(`IterationDefined`). The bytes of a set of images are the number of its
numbered bytes, so the sums are counts of disjoint finite sets
(`TotalOfUnion`, `TotalMonotonic`).

`SessionInv` relates the registry to the pipe: a pane's first packet announces
it and none after it does (`OrderInv`), a removal is the last packet of a pane
that has been withdrawn (`RemovedInv`), and what the worker believes it has
announced is registered or on its way, with no removal behind it (`KnownInv`),
so the broker never adds a pane twice and never reads of one it does not know.
With it every store is in order and within the cap, and the images on display
are in the selected pane's store.

`CauseInv` says what the broker will know when it comes to read each packet.
`InEffect(pipe, known, p, k, size)`: the last packet before the k-th that tells a
size of p tells this one, or none does and the broker has it. A frame on its way
has its size in effect at its place, unless its pane raced (`SizeInv`); a pane
that announced no more than its store holds has every image a frame refers to in
the store or before it (`DeliveryInv`, for panes that are not withdrawn), because
a store has nothing that was not announced over this connection (`ContentInv`)
and so never makes room. Writing
leaves what came before (`EffectWritten`, `CarriedWritten`), reading moves it one
place on (`EffectRead`, `CarriedRead`). At the head of the pipe the two say that
the frame is acceptable. TLC checked both invariants on the instance of `session`
first.

| theorem | says |
|---|---|
| `SessionInvariant` | registry, pipe and worker agree; stores and display are in order |
| `StoresAccount` | entries, order and bytes of a store agree, within the cap |
| `EvictionSpares` | nothing on display is evicted while its pane stays selected |
| `CauseInvariant` | a frame will find its size and its images, unless it raced or they are too many |
| `RefusalsHaveCause` | a frame is refused only for one of these two causes |

### NativeProtocol

`ProtocolProofs` holds for viewports of any width `UpdateViewport` takes, any
clusters and hyperlinks, any limits of payload, table and read, any number of
packets and any set of broken packets under `BrokenAssumption`.

`ProtocolInv` has three parts.

* The matrix is `Tiled`: from the first column on a glyph begins where the one
  before it ends, and a continuation stands behind every wide one and nowhere
  else. A line of clusters that begins and ends at glyphs keeps it so
  (`PaintedIsTiled`); this is where the renderer's painting whole glyphs is
  needed, and what makes the cells of a row leave no gap (`GlyphsSideBySide`).
* The packets on the wire lie one after the other, and each is `Own` at its
  place (the adapter's, with a payload that decodes, and with the matrix it was
  written from) or `Rejected` there (it breaks a rule whatever was taken before
  it).
* The decoder `TookAll` packets in front of the one its buffer begins with, all
  of them own, and what was delivered is their messages.

A frame decodes (`FrameDecodes`): its style table has at least one entry and no
more than the limit, each index is within it, links are distinct, and the
columns add up to the row. What is decoded shows the matrix (`RowShowsMatrix`):
the i-th entry of the row is the i-th glyph of the matrix at its column, found
by adding up widths as a viewer does, and its style is the one that was first
used, unless the table is full. The columns are listed by a sorted sequence of
a finite set, whose existence is `OrderExists`; the index of a style is the
place of its first use (`IndexOf`).

One push is a run of turns, like the image store's loop. `LoopInv` is what a
turn keeps (`TurnKeeps`): a decoder that took all before a packet accepts an
own one unless its payload is too long (`DecoderAccepts`), and fails on a
rejected one (`DecoderRejects`). After as many turns as there are packets the
loop has stopped (`DrainEnds`), so nothing complete is left in the buffer. That
the buffer overflows only for a payload without room for a read
(`OverfullIsDeserved`) needs `NothingHeldBack` in the invariant: the units in
the buffer are those of one incomplete packet. TLC checked `ProtocolInv` on the
instance of `protocol` first.

| theorem | says |
|---|---|
| `ProtocolInvariant` | matrix, stream and decoder agree |
| `PacketsAlwaysArrive` | each packet once, in order, by the rules, and none held back |
| `RefusalIsAlwaysDeserved` | a push fails only over a broken packet or a payload without room for a read |
| `MatrixAlwaysArrives` | a decoded frame shows every glyph of the matrix at its column, in its style while the table has room |

### Reconstruction

`ReconstructionProofs` holds for any trees with one root, any labels, any
viewers and any limits on depth and nodes. The capture is a fold over the nodes in document
order; it is shown to be a run of captures, one for each node (`SnapshotRuns`,
from `FoldDefined` of `DataLemmas`). After m nodes (`CapturedUpto`) the nodes
kept are the first of the eligible ones, each at its rank, and until something
was cut off the bound on the depth is the depth of the shallowest hidden node
the next one may lie below (`Passing`); so whether the next node is passed over
tells whether it is eligible (`NextEligible`). After the first that is one too
many nothing is kept any more. A listing's part of the lines is arithmetic
(`TreePart`), about the last node with the focus, which is one that was kept.

`RowsAreWhole` has an invariant of its own, `WholeInv`: the canvas is whole
(`Canvases`: a continuation stands behind each wide glyph and nowhere else),
what is left to draw is an entry with an area (`Tasks`), and the rows of a frame
are full. That the areas are there is needed because a text is drawn into one: a
place left of the canvas, or of no height, would be drawn elsewhere than meant.
The proof has four parts, each about one module.

* Texts: cutting, wrapping and eliding yield texts, and what is cut to a width
  is no wider (`TextFlow`).
* Canvas: each operation that draws keeps a canvas whole. The work is in `Put`
  and `clear_footprint`: to write over either half of a wide glyph is to blank
  the other, also when the new glyph is wide itself and its second column falls
  on the first of a third.
* Layout: a projection that is clipped has an area, widths of columns stay at
  least one while they shrink and grow (`Widths`), the cursor of a table or a
  list only moves down (`Cursors`), and every entry has an area (`Areas`).
* Steps: a visit leaves tasks of the same kind and a whole canvas; a whole
  canvas without its continuations is a row as wide as the canvas, and heading,
  divider and footer are as wide.

Folds over texts, entries and columns are runs over numbers by `FoldStaysIn` of
`DataLemmas`: what each step keeps within a set, the fold is in.

`LayoutKeepsApart` is about the entries themselves, and each of its parts needs
an invariant of a loop.

* Projection: a place is a pair of intervals of cells, between the quotients of
  its edges. Quotients keep the order of what is divided (`DivKeepsOrder`), and
  the scale fits the window to the canvas in both directions although it is
  chosen for the tighter one (`ScaleFits`, by `CoarserFits`), so a
  place is on the canvas (`ProjectedWithin`) and ends where what lies behind it
  begins, or after one cell of its own (`ProjectedApart`).
* Columns: the sums of a sequence of widths from the left (`Adds`, `SumIs`) show
  what a turn of the negotiation does to the sum. After as many turns as the
  code allows, the columns fit or are one cell each (`ShrunkSettles`), and then
  take up what there is (`GrownFills`); together `AllocatedFills`.
* Cells: an entry lies between the sums before and after its column
  (`TableCellIn`, `InLane`), so entries of two columns are apart
  (`LanesApart`). `PackedTables` is the invariant of the packing: what comes
  from the cursor's row of the window is on its row of the canvas, everything
  else is above, hence two rows of the window have two rows of the canvas.
* Rows of a list: the same with `PackedLists`, where an entry may take several
  rows: those of other rows of the window end above the cursor, those of its own
  not below it. It holds because the cursor is put on the last row of an entry
  that was wrapped (`RowAdded`).

`DrawingSparesOthers` needs no invariant but `WholeInv`; what it takes is what
each operation of the canvas may change. `Within` says that a canvas differs
from another only within a rectangle, or in half of a wide glyph the other half
of which is in it, and `Spares` that what was written is as it was. Both are
kept by one operation after another (`WithinMore`, `Span`s of a rectangle), a
line of text by the invariant of its run over the graphemes (`DrawTextWithin`,
`DrawTextSpares`, which need `Whole`: a continuation at the edge belongs to the
glyph before it), and each control is a few lines of text, borders and fills
(`ControlWithin`, `ControlSpares`). That nothing is drawn past the right edge
rests on what wrapping and eliding yield: no line is wider than asked for.

The first statement of this property was false in general, and the instance was
too small to tell: it had a dialog's title in the first row of the dialog's
bounds, where one that is packed in a list has its place in another row, and it
did not except wide glyphs that straddle the edge of a place. It was corrected,
and says now of every control what it said of cells of a table.

`LayoutInv` adds to `WholeInv` that a spatial frame is shown with the canvas and
the window it was drawn with, so all this holds as long as it is shown. TLC
checked what it adds on the instance of `rendering` first.

| theorem | says |
|---|---|
| `ReconstructionInvariant` | what is kept is a run of captures over the whole window, and stays |
| `SnapshotIsAlwaysPrefix` | the snapshot is the beginning of the document within the limits, and says whether there was more |
| `FocusIsAlwaysShown` | a listing contains the node with the focus and uses its rows |
| `DrawingInvariant` | the canvas is whole and what is left to draw has a place |
| `RowsAreAlwaysWhole` | no half of a wide glyph without the other; a frame has the viewer's rows, each as wide as the viewer |
| `LayoutInvariant` | a spatial frame is shown with what it was drawn with |
| `LayoutAlwaysKeepsApart` | neighbours, cells of a table and rows of a list never overlap; columns take up the table's width |
| `DrawingAlwaysSparesOthers` | no control leaves its place but those that may be longer; labels that flow, separators and borders overwrite nothing |

### What is not proved

Every safety property of `Broker`, `CaptureEngine`, `PipeHost`,
`AccessibilityWorker`, `AdapterSession` and `NativeProtocol` is proved;
`PresentedIsCurrent` only for the modes it is checked in. Checked by TLC only:

* of `Reconstruction`, `WrapKeepsWords`: the lemmas say how wide a wrapped line
  is, this says what the lines contain together, which is a statement by
  induction over the words, the lines and the graphemes at once;
* liveness under fairness.

## 5. Behaviours without a property

Met while modelling; the code does these things, no property promises the
contrary, and none of them is hidden by a model.

Broker:

* A privacy hold is set without a reselect (`native_broker.rs` 294), so a held
  terminal that has sent nothing since is not asked for a full frame.
* In hybrid mode a terminal that was never replaced on display is not asked
  for a full frame when its window returns (446): viewers see an older screen
  until it paints.
* `foreground_changed` returns early for the same window (225): a handle that
  is reused by another window at once is not noticed.
* A selected source that is replaced by a newer generation under the same id is
  not subscribed to (483 compares keys); neither adapter advances a generation,
  which is why `SubscriptionFollowsSelection` is stated for sources that keep
  theirs.
* A retained source that was never focused is not selected again after a pause
  (569).

Engine and session (`wt_adapter.cpp`):

* A drop flagged after the worker took the queued batch is not heard of until
  another batch comes (654, 1025), so an idle terminal stays behind: a finding
  (`DropIsReconciled`). `LossIsRemembered` and `BrokenFrameIsRepaired` except
  it by the name of `DropUnheard`, `LastScreenIsShown` by that of `GivenUp`:
  nothing is sure to correct what it lost, or a frame broken before it, and the
  screen of a pane in front may stay an old one.
* A worker that releases a batch before the paint that queued it has refilled
  its slot disables the provider (1048), and its pane is withdrawn: a finding
  (`ReleaseFindsASlot`), which `LastScreenIsShown` excepts as it does a closed
  pane (`GivenUp`).
* A paint between the stores of `subscribed` and `forceFullDirty` sends a
  partial first frame (984).
* `takeBatch` calls the renderer without `enginesMutex`, after a check of
  `alive` that may be old (1033).
* A `SUBSCRIBE` that crosses the destructor allocates batches for a dead engine
  until the pipe is lost (982).
* A screen with more images than the store holds is refused at every attempt:
  the process reconnects for ever. `LastScreenIsShown` excepts it. An image of
  16 MiB is encoded (1481) although a payload of 16 MiB has no room for its
  header.
* A narrow glyph painted over either half of a wide one leaves the other half
  in the matrix (1609); the model assumes that the renderer paints whole glyphs
  (`WholeGlyphs`).
* `framePayload` takes `enginesMutex` and then the console lock (1698); the
  hooks take `enginesMutex` under whatever lock the target holds.
* When the allocation of a batch fails the engine is disabled (976).
* In conhost the newest batch wins (`conhost_adapter.cpp` 487): the delta it
  replaces is dropped at the handover, where the engine of Windows Terminal
  drops the newer one.

Protocol:

* The buffer's limit is checked before complete packets are cut out, so whether
  a packet near the limit is accepted depends on how the pipe cuts the stream
  (`native_protocol.rs` 240); `RefusalIsDeserved` says by how much.
* Good packets in front of a bad one in the same read are dropped with it
  (258).

Worker:

* A change between the tracker's first reading and its hook, or the window its
  poll goes from (`windows_native.rs` 195-200, 520), is missed: the broker has
  the wrong window in front until the next change. `gap` marks these states, and
  `ForegroundIsFollowed` excepts them.
* After a poll missed a denied window, or the start a change, a hold may stay
  for a window that may be captured; it is not captured until the next change.
* A window that leaves and comes back between the two checks is not noticed:
  its frame may mix two places.

Rendering (`accessibility.rs`):

* A mark of no width after a wide grapheme is placed on its continuation (843).
* A wide glyph in a line of one column is dropped; lines of spaces only vanish
  in `wrap_flow_text`.
* Table cells that come column by column are packed by their order; more
  columns than the table is wide overflow it; the depth limit, unlike the node
  limit, is not reported.
* A second entry on the source row of a wrapped bullet lands on the bullet's
  last row; inline fragments are joined without a separator.

## 6. Plan

What is left, most useful first.

1. `ConhostEngine`: the newest-wins hand-over, with `CaptureEngine`'s ownership
   as the common abstract specification.
2. `EngineRegistry`: attachment and late recovery of several controls; needs the
   contract of the target's object layout.
3. The viewport seqlock with its odd versions.
4. The proof of `WrapKeepsWords`, from an invariant of the loops of the
   wrapping: the graphemes on the lines so far are those of the words so far.

## 7. Not modelled

* The conhost adapter (see the plan) and the attachment hooks, which depend on
  memory layouts of other programs.
* Titles, colours and the text of diagnostics; marks of no
  width, tabs and the limits on the length of a field in the reconstruction;
  the trees its header lists.
* Process creation, injection, profile generation, command-line parsing and
  test tooling: sequential calls to Windows without state of their own.
* Performance counters and logging.
