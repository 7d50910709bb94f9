------------------------------- MODULE PipeHost -------------------------------
(* The host of the broker: the tasks that serve the adapters' pipes, the       *)
(* foreground thread and the tasks that serve control requests.  All of them   *)
(* call the broker under its mutex and hand the commands it returns to the     *)
(* adapters' queues afterwards, under the mutex of the routes: between the two *)
(* any other task may run.  The broker itself is abstracted to who is          *)
(* connected, whose source is registered and which is selected: its policy is  *)
(* the subject of Broker.  An adapter has one source, named like its process.  *)
EXTENDS Naturals, Sequences, FiniteSets

CONSTANTS
    Procs,          \* adapter processes (their nonces)
    Conns,          \* instances of the adapter pipe
    Ctls,           \* instances of the control pipe
    Hook,           \* the thread of the foreground hook
    NoOne,          \* no process, no connection
    User,           \* whose each process and control client is ...
    Integrity,      \* ... and its integrity level
    BrokerUser, BrokerIntegrity,
    MaxDrops,       \* pipes closed by adapters, packets refused, sources withdrawn
    MaxEvents,      \* foreground changes
    MaxRequests,    \* control requests
    MaxStarts       \* times the detached worker is started

Tasks == Conns \cup Ctls \cup {Hook}

ASSUME HostAssumption ==
    /\ NoOne \notin Procs \cup Tasks
    /\ Hook \notin Conns \cup Ctls
    /\ Conns \cap Ctls = {}
    /\ BrokerIntegrity \in Nat
    /\ Integrity \in [Procs \cup Ctls -> Nat]
    /\ DOMAIN User = Procs \cup Ctls
    /\ {MaxDrops, MaxEvents, MaxRequests, MaxStarts} \subseteq Nat

VARIABLES
    host,           \* "down", or how far the worker's start has come
    desired,        \* DESIRED_PAUSED
    conn,           \* per connection: its phase and the process behind it
    routes,         \* Runtime::routes: the connection that serves a process
    queue,          \* commands sent to a connection task and not yet written
    pending,        \* commands a task got from the broker and still holds
    connected,      \* the broker's connections
    registered,     \* the broker's sources
    selected,       \* the broker's selection
    paused,         \* the broker's pause
    link,           \* the pipe an adapter believes it is connected by
    active,         \* adapters whose engine is subscribed
    ctl,            \* per control request: its phase, command and runtime
    newest,         \* per process: the task that holds the newest command for
                    \* its source, until it dispatches it or the source goes
    astray,         \* an adapter was sent a command that the newest one for its
                    \* source did not follow
    missed,         \* a pause found no runtime to tell
    promised,       \* a pause was answered that no resume overlapped or followed
    bounds          \* drops, foreground changes, requests and starts so far

brokerVars == <<connected, registered, selected, paused>>
handVars == <<pending, newest>>
vars == <<host, desired, conn, routes, queue, pending, connected, registered,
          selected, paused, link, active, ctl, newest, astray, missed,
          promised, bounds>>

Phases == {"free", "open", "introduced", "known", "announced",
           "withdrawn", "leaving", "closing"}
Requests == {"pause", "resume", "stop"}
Idle == [phase |-> "free", proc |-> NoOne]
NoRequest == [phase |-> "free", request |-> "pause", found |-> FALSE,
              alone |-> FALSE]
Nothing == [unsubscribe |-> NoOne, subscribe |-> NoOne]
NoRoutes == [p \in {} |-> NoOne]
Greeted(c) == conn[c].phase \in {"known", "announced", "withdrawn"}
Served(c) == Greeted(c) \/ conn[c].phase = "introduced"
Without(p) == [q \in DOMAIN routes \ {p} |-> routes[q]]

Count(what, limit) ==
    /\ bounds[what] < limit
    /\ bounds' = [bounds EXCEPT ![what] = @ + 1]

Init ==
    /\ host = "down"
    /\ desired = FALSE
    /\ conn = [c \in Conns |-> Idle]
    /\ routes = NoRoutes
    /\ queue = [c \in Conns |-> <<>>]
    /\ pending = [t \in Tasks |-> Nothing]
    /\ connected = {} /\ registered = {} /\ selected = NoOne /\ paused = FALSE
    /\ link = [p \in Procs |-> NoOne]
    /\ active = {}
    /\ ctl = [k \in Ctls |-> NoRequest]
    /\ newest = [p \in Procs |-> NoOne]
    /\ astray = FALSE /\ missed = FALSE /\ promised = FALSE
    /\ bounds = [drops |-> 0, events |-> 0, requests |-> 0, starts |-> 0]
-------------------------------------------------------------------------------
(* The broker, and the way from its answer to the queues.                      *)

\* reselect: whom the broker tells to unsubscribe and then whom to subscribe
\* when its selection becomes s.  If it stays, the broker may ask for a full
\* viewport, which an adapter obeys like Subscribe.
\* Defect: the engine that is not selected any more is not told.
DecisionForNewOnly(sources, s, full) ==
    [unsubscribe |-> NoOne,
     subscribe |-> IF s = selected /\ ~full THEN NoOne ELSE s]

Decision(sources, s, full) ==
    IF s = selected THEN [Nothing EXCEPT !.subscribe = IF full THEN s ELSE NoOne]
    ELSE [unsubscribe |-> IF selected \in sources THEN selected ELSE NoOne,
          subscribe |-> s]

\* Whose adapters the commands are for.
Named(commands) == {commands.unsubscribe, commands.subscribe} \ {NoOne}

\* A call of task t that leaves these sources: the mutex is released with it,
\* the commands stay with t.  Which source is selected is the broker's choice.
BrokerCall(t, sources, pause) ==
    /\ registered' = sources
    /\ paused' = pause
    /\ \E s \in sources \cup {NoOne}, full \in BOOLEAN :
          /\ pause => s = NoOne
          /\ selected' = s
          /\ pending' = [pending EXCEPT ![t] = Decision(sources, s, full)]
    /\ newest' = [p \in Procs |->
                     IF p \in Named(pending'[t]) THEN t
                     ELSE IF p \in registered \ sources THEN NoOne
                     ELSE newest[p]]

\* Runtime::dispatch, under the routes' mutex: a command without a route is
\* dropped, one for a task that has left its loop is never read.
Route(command) ==
    LET sent(op, c) ==
            IF /\ command[op] \in DOMAIN routes
               /\ routes[command[op]] = c /\ Served(c)
            THEN <<op>> ELSE <<>>
    IN  [c \in Conns |-> queue[c] \o sent("unsubscribe", c) \o sent("subscribe", c)]

\* A command is followed by the newest one for the source of its process as long
\* as that one is still to be dispatched.  It is not if it was overtaken, or was
\* decided for a source that is gone, when it is sent to a source; nor is one
\* that subscribes when it is sent to a connection without a source as yet.
GoesAstray(t) ==
    \E p \in Named(pending[t]) \cap DOMAIN routes :
        LET phase == conn[routes[p]].phase IN
        \/ phase = "announced" /\ newest[p] = NoOne
        \/ phase \in {"introduced", "known"} /\ pending[t].subscribe = p

Dispatch(t) ==
    /\ pending[t] # Nothing
    /\ queue' = Route(pending[t])
    /\ pending' = [pending EXCEPT ![t] = Nothing]
    /\ newest' = [p \in Procs |-> IF newest[p] = t THEN NoOne ELSE newest[p]]
    /\ astray' = (astray \/ GoesAstray(t))
    /\ conn' = IF t \in Conns /\ conn[t].phase = "closing"
               THEN [conn EXCEPT ![t] = Idle] ELSE conn
    /\ UNCHANGED <<host, desired, routes, brokerVars, link, active, ctl,
                   missed, promised, bounds>>
-------------------------------------------------------------------------------
(* An adapter's pipe, from its connection to its teardown.                     *)

\* create_user_pipe: a second host is refused the first instance of its pipe;
\* the access list lets the host's own user in, at any integrity.
CreatePipe == host = "down"
MayOpen(client) == User[client] = BrokerUser

\* verify_client: who may talk to the broker at all.
VerifyClient(client, allowLower) ==
    /\ User[client] = BrokerUser
    /\ Integrity[client] <= BrokerIntegrity
    /\ allowLower \/ Integrity[client] = BrokerIntegrity

\* accept_loop: a fresh instance is waiting, the connected one gets a task, and
\* the task goes on only with a client it may talk to.
Accept(p, c) ==
    /\ host = "up"
    /\ MayOpen(p) /\ VerifyClient(p, TRUE)
    /\ link[p] = NoOne
    /\ conn[c] = Idle
    /\ link' = [link EXCEPT ![p] = c]
    /\ conn' = [conn EXCEPT ![c] = [phase |-> "open", proc |-> p]]
    /\ UNCHANGED <<host, desired, routes, queue, brokerVars, handVars, active,
                   ctl, astray, missed, promised, bounds>>

\* The task ends before it has a nonce: no HELLO in five seconds, another first
\* packet, a pipe at its end, or a process that is connected already.  Nothing
\* of the broker's is torn down.
Dismiss(c) ==
    /\ conn[c].phase = "open"
    /\ conn' = [conn EXCEPT ![c] = Idle]
    /\ UNCHANGED <<host, desired, routes, queue, brokerVars, handVars, link,
                   active, ctl, astray, missed, promised, bounds>>

\* Defect: the route of a process that is connected already is replaced.
IntroduceAnyway(c) ==
    /\ conn[c].phase = "open"
    /\ link[conn[c].proc] = c
    /\ routes' = [p \in DOMAIN routes \cup {conn[c].proc} |->
                     IF p = conn[c].proc THEN c ELSE routes[p]]
    /\ conn' = [conn EXCEPT ![c].phase = "introduced"]
    /\ UNCHANGED <<host, desired, queue, brokerVars, handVars, link, active,
                   ctl, astray, missed, promised, bounds>>

\* HELLO, first half: the route is entered under the routes' mutex.
Introduce(c) ==
    /\ conn[c].phase = "open"
    /\ link[conn[c].proc] = c
    /\ conn[c].proc \notin DOMAIN routes
    /\ routes' = [p \in DOMAIN routes \cup {conn[c].proc} |->
                     IF p = conn[c].proc THEN c ELSE routes[p]]
    /\ conn' = [conn EXCEPT ![c].phase = "introduced"]
    /\ UNCHANGED <<host, desired, queue, brokerVars, handVars, link, active,
                   ctl, astray, missed, promised, bounds>>

\* HELLO, second half: the broker enters the process.
Greet(c) ==
    LET p == conn[c].proc IN
    /\ conn[c].phase = "introduced"
    /\ p \notin connected
    /\ connected' = connected \cup {p}
    /\ conn' = [conn EXCEPT ![c].phase = "known"]
    /\ UNCHANGED <<host, desired, routes, queue, registered, selected, paused,
                   handVars, link, active, ctl, astray, missed, promised, bounds>>

Free(c) == Greeted(c) /\ pending[c] = Nothing

\* SOURCE_ADDED, SOURCE_REMOVED and what changes the election (metadata).  A
\* broker that does not know the process any more refuses all of them (Leave).
Announce(c) ==
    LET p == conn[c].proc IN
    /\ conn[c].phase = "known" /\ Free(c)
    /\ link[p] = c /\ p \in connected
    /\ conn' = [conn EXCEPT ![c].phase = "announced"]
    /\ BrokerCall(c, registered \cup {p}, paused)
    /\ UNCHANGED <<host, desired, routes, queue, connected, link, active, ctl,
                   astray, missed, promised, bounds>>

Withdraw(c) ==
    LET p == conn[c].proc IN
    /\ conn[c].phase = "announced" /\ Free(c)
    /\ link[p] = c /\ p \in connected
    /\ conn' = [conn EXCEPT ![c].phase = "withdrawn"]
    /\ Count("drops", MaxDrops)
    /\ active' = active \ {p}
    /\ BrokerCall(c, registered \ {p}, paused)
    /\ UNCHANGED <<host, desired, routes, queue, connected, link, ctl,
                   astray, missed, promised>>

\* The loop ends with a nonce: the broker knows the process of a second HELLO
\* already, or that of another packet no more; the pipe is at its end or fails;
\* or the decoder or the broker refuses a packet.
Ends(c) ==
    \/ /\ \/ conn[c].phase = "introduced" /\ conn[c].proc \in connected
          \/ Free(c) /\ (link[conn[c].proc] # c \/ conn[c].proc \notin connected)
       /\ UNCHANGED bounds
    \/ Free(c) /\ Count("drops", MaxDrops)

\* Defect: an error leaves the task by "?", past the teardown.
LeaveAtOnce(c) ==
    LET p == conn[c].proc IN
    /\ Ends(c)
    /\ conn' = [conn EXCEPT ![c] = Idle]
    /\ routes' = Without(p)
    /\ queue' = [queue EXCEPT ![c] = <<>>]
    /\ UNCHANGED <<host, desired, brokerVars, handVars, link, active, ctl,
                   astray, missed, promised>>

\* The teardown begins with the route: until then the task is like one that has
\* not yet left its loop.
Leave(c) ==
    LET p == conn[c].proc IN
    /\ Ends(c)
    /\ routes' = Without(p)
    /\ conn' = [conn EXCEPT ![c].phase = "leaving"]
    /\ queue' = [queue EXCEPT ![c] = <<>>]
    /\ UNCHANGED <<host, desired, brokerVars, handVars, link, active, ctl,
                   astray, missed, promised>>

\* The next command is written to the pipe, and the adapter obeys it.
Deliver(c) ==
    LET op == Head(queue[c])
        p == conn[c].proc
    IN  /\ Free(c) /\ queue[c] # <<>>
        /\ queue' = [queue EXCEPT ![c] = Tail(@)]
        /\ active' = IF link[p] # c THEN active
                     ELSE IF op = "unsubscribe" THEN active \ {p}
                     ELSE IF conn[c].phase = "announced" THEN active \cup {p}
                     ELSE active
        /\ UNCHANGED <<host, desired, conn, routes, brokerVars, handVars, link,
                       ctl, astray, missed, promised, bounds>>

\* The teardown goes on with the broker; the pipe is closed when the task
\* returns, after its last commands are dispatched.
Disconnected(c) ==
    LET p == conn[c].proc IN
    /\ conn[c].phase = "leaving"
    /\ connected' = connected \ {p}
    /\ BrokerCall(c, registered \ {p}, paused)
    /\ conn' = [conn EXCEPT ![c] = IF pending'[c] = Nothing THEN Idle
                                   ELSE [@ EXCEPT !.phase = "closing"]]
    /\ UNCHANGED <<host, desired, routes, queue, link, active, ctl,
                   astray, missed, promised, bounds>>

\* The adapter finds its pipe closed, and parks its engine.
Notice(p) ==
    /\ link[p] # NoOne /\ conn[link[p]].proc # p
    /\ link' = [link EXCEPT ![p] = NoOne]
    /\ active' = active \ {p}
    /\ UNCHANGED <<host, desired, conn, routes, queue, brokerVars, handVars,
                   ctl, astray, missed, promised, bounds>>

\* A write of the adapter fails and it closes its end.
Drop(p) ==
    /\ link[p] # NoOne
    /\ Count("drops", MaxDrops)
    /\ link' = [link EXCEPT ![p] = NoOne]
    /\ active' = active \ {p}
    /\ UNCHANGED <<host, desired, conn, routes, queue, brokerVars, handVars,
                   ctl, astray, missed, promised>>
-------------------------------------------------------------------------------
(* The foreground thread, the control requests and the worker's life.          *)

\* foreground_callback, foreground_poll_fallback: one thread, one call at a time.
ForegroundChanged ==
    /\ host = "up"
    /\ pending[Hook] = Nothing
    /\ Count("events", MaxEvents)
    /\ BrokerCall(Hook, registered, paused)
    /\ UNCHANGED <<host, desired, conn, routes, queue, connected, link, active,
                   ctl, astray, missed, promised>>

OnlyPauses == \A j \in Ctls : ctl[j].phase # "free" => ctl[j].request = "pause"

\* control_connection: the request is read, and the runtime looked up.  A pause
\* is alone as long as no resume or stop is under way at the same time.
ControlRead(k, request) ==
    /\ host # "down"
    /\ ctl[k].phase = "free"
    /\ MayOpen(k) /\ VerifyClient(k, FALSE)
    /\ Count("requests", MaxRequests)
    /\ ctl' = [j \in Ctls |->
                  IF j = k THEN [phase |-> "read", request |-> request,
                                 found |-> (host = "up"), alone |-> OnlyPauses]
                  ELSE [ctl[j] EXCEPT !.alone = @ /\ request = "pause"]]
    /\ promised' = (promised /\ request = "pause")
    /\ UNCHANGED <<host, desired, conn, routes, queue, brokerVars, handVars,
                   link, active, astray, missed>>

ControlStore(k) ==
    /\ ctl[k].phase = "read" /\ ctl[k].request \in {"pause", "resume"}
    /\ desired' = (ctl[k].request = "pause")
    /\ missed' = (~ctl[k].found /\ host # "control")
    /\ ctl' = [ctl EXCEPT ![k].phase = IF ctl[k].found THEN "stored" ELSE "told"]
    /\ UNCHANGED <<host, conn, routes, queue, brokerVars, handVars, link,
                   active, astray, promised, bounds>>

\* set_paused, in the runtime that was found.
ControlTell(k) ==
    /\ ctl[k].phase = "stored"
    /\ ctl' = [ctl EXCEPT ![k].phase = "told"]
    /\ BrokerCall(k, registered, ctl[k].request = "pause")
    /\ UNCHANGED <<host, desired, conn, routes, queue, connected, link, active,
                   astray, missed, promised, bounds>>

ControlAnswer(k) ==
    /\ ctl[k].phase = "told" /\ pending[k] = Nothing
    /\ ctl' = [ctl EXCEPT ![k] = NoRequest]
    /\ promised' = (promised \/ (ctl[k].request = "pause" /\ ctl[k].alone))
    /\ UNCHANGED <<host, desired, conn, routes, queue, brokerVars, handVars,
                   link, active, astray, missed, bounds>>

\* stop: the process exits, and everything it held is gone.  The adapters
\* notice by their pipes.
ControlStop(k) ==
    /\ ctl[k].phase = "read" /\ ctl[k].request = "stop"
    /\ host' = "down"
    /\ desired' = FALSE
    /\ conn' = [c \in Conns |-> Idle]
    /\ routes' = NoRoutes
    /\ queue' = [c \in Conns |-> <<>>]
    /\ pending' = [t \in Tasks |-> Nothing]
    /\ connected' = {} /\ registered' = {} /\ selected' = NoOne /\ paused' = FALSE
    /\ ctl' = [j \in Ctls |-> NoRequest]
    /\ newest' = [p \in Procs |-> NoOne]
    /\ astray' = FALSE /\ missed' = FALSE /\ promised' = FALSE
    /\ UNCHANGED <<link, active, bounds>>

\* stream start: refused while a worker answers; the worker opens its control
\* pipe first.
StreamStart ==
    /\ CreatePipe
    /\ Count("starts", MaxStarts)
    /\ host' = "control"
    /\ UNCHANGED <<desired, conn, routes, queue, brokerVars, handVars, link,
                   active, ctl, astray, missed, promised>>

\* Defect: a pause that came before the broker is not remembered.
LoadNothing ==
    /\ host = "control"
    /\ host' = "loaded"
    /\ UNCHANGED <<desired, conn, routes, queue, brokerVars, handVars, link,
                   active, ctl, astray, missed, promised, bounds>>

\* start_named_broker: the new broker takes the pause that is wanted ...
LoadDesired ==
    /\ host = "control"
    /\ host' = "loaded"
    /\ paused' = desired
    /\ UNCHANGED <<desired, conn, routes, queue, connected, registered, selected,
                   handVars, link, active, ctl, astray, missed, promised, bounds>>

\* ... and is published for the control requests to find.
Publish ==
    /\ host = "loaded"
    /\ host' = "up"
    /\ UNCHANGED <<desired, conn, routes, queue, brokerVars, handVars, link,
                   active, ctl, astray, missed, promised, bounds>>

ConnectionStep(c) ==
    \/ Dismiss(c) \/ Introduce(c) \/ Greet(c)
    \/ Announce(c) \/ Withdraw(c) \/ Leave(c) \/ Deliver(c) \/ Disconnected(c)
ControlStep(k) ==
    \/ \E request \in Requests : ControlRead(k, request)
    \/ ControlStore(k) \/ ControlTell(k) \/ ControlAnswer(k) \/ ControlStop(k)
AdapterStep(p) == Notice(p) \/ Drop(p) \/ \E c \in Conns : Accept(p, c)

Next ==
    \/ StreamStart \/ LoadDesired \/ Publish \/ ForegroundChanged
    \/ \E c \in Conns : ConnectionStep(c)
    \/ \E k \in Ctls : ControlStep(k)
    \/ \E p \in Procs : AdapterStep(p)
    \/ \E t \in Tasks : Dispatch(t)

Spec == Init /\ [][Next]_vars
-------------------------------------------------------------------------------
(* Properties.                                                                 *)

\* A process has one route, to the one connection that introduced it and has
\* not been torn down: a second connection of the same process is dismissed
\* without taking the route of the first with it.
RoutesAreExclusive ==
    /\ \A p \in DOMAIN routes : conn[routes[p]].proc = p /\ Served(routes[p])
    /\ \A c \in Conns : Served(c) => /\ conn[c].proc \in DOMAIN routes
                                    /\ routes[conn[c].proc] = c

\* A connection that ends, for whatever reason, takes its process and its
\* source out of the broker: no dead source stays to be selected.
DeadAdapterIsForgotten ==
    /\ registered \subseteq connected
    /\ \A p \in connected : \E c \in Conns :
          /\ conn[c].proc = p
          /\ Greeted(c) \/ conn[c].phase = "leaving"

\* No task is between two of its steps.
Quiescent ==
    /\ host = "up"
    /\ \A t \in Tasks : pending[t] = Nothing
    /\ \A c \in Conns : /\ Greeted(c) \/ conn[c] = Idle
                        /\ queue[c] = <<>>
    /\ \A k \in Ctls : ctl[k].phase = "free"
    /\ \A p \in Procs : link[p] # NoOne => conn[link[p]].proc = p

\* What an adapter does is what the broker decided last, unless it was sent a
\* command that was overtaken by a newer one for it, or decided for a source of
\* an earlier connection, or before it announced its source: in every other
\* order of the two mutexes, and over teardowns, reconnections and restarts, the
\* selected engine runs and no other.
EnginesFollowSelection ==
    Quiescent /\ ~astray =>
        \A p \in registered : link[p] # NoOne => (p \in active <=> p = selected)

\* "paused" is answered when the broker has stopped every engine, and it stays
\* so until a resume: unless the request fell between the start's two steps.
PauseIsKept ==
    Quiescent /\ promised /\ ~missed =>
        /\ paused /\ selected = NoOne
        /\ ~astray => active \cap registered = {}

\* docs/windows-render-taps.md 980: "A global pause must stop subscriptions".
PauseStopsSubscriptions ==
    Quiescent /\ promised => paused /\ active = {}
=============================================================================
