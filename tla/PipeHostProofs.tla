---------------------------- MODULE PipeHostProofs ----------------------------
(* Theorems about PipeHost: for every set of adapters, pipes and control       *)
(* clients and every bound, routes belong to the connections that entered them *)
(* and no process outlives its connections in the broker.                      *)
EXTENDS PipeHost, TLAPS

\* The inductive invariant: the connections and the routes keep their types,
\* and with them both properties are preserved by every step.
HostTypes ==
    /\ conn \in [Conns -> [phase : Phases, proc : Procs \cup {NoOne}]]
    /\ routes \in [DOMAIN routes -> Conns]
    /\ connected \subseteq Procs

\* A connection has a process from the moment it is accepted.
ConnectionsHaveProcess ==
    \A c \in Conns : conn[c].phase # "free" => conn[c].proc \in Procs

\* The phases in which the broker may know the process of a connection.
Counted == {"known", "announced", "withdrawn", "leaving"}

HostInv ==
    /\ HostTypes
    /\ ConnectionsHaveProcess
    /\ RoutesAreExclusive
    /\ DeadAdapterIsForgotten

\* A step that leaves the connections, the routes and the broker's connections
\* as they are preserves the invariant.
LEMMA Untouched ==
    ASSUME HostInv, UNCHANGED <<conn, routes, connected>>,
           registered' \subseteq connected
    PROVE  HostInv'
  BY DEF HostInv, HostTypes, ConnectionsHaveProcess, RoutesAreExclusive,
         DeadAdapterIsForgotten, Served, Greeted

\* So does one that moves a connection between two phases of the same kind:
\* introduced stays introduced, greeted stays greeted, and a connection nobody
\* counts on stays one.
LEMMA SameKind ==
    ASSUME HostInv, UNCHANGED <<routes, connected>>,
           registered' \subseteq connected,
           NEW c \in Conns, NEW new \in [phase : Phases, proc : Procs \cup {NoOne}],
           conn' = [conn EXCEPT ![c] = new],
           new.phase # "free" => new.proc \in Procs,
           \/ /\ new.proc = conn[c].proc
              /\ conn[c].phase \in {"known", "announced", "withdrawn"}
              /\ new.phase \in {"known", "announced", "withdrawn"}
           \/ /\ conn[c].phase \in {"free", "open", "closing"}
              /\ new.phase \in {"free", "open", "closing"}
    PROVE  HostInv'
  <1>1. /\ conn'[c] = new
        /\ \A d \in Conns \ {c} : conn'[d] = conn[d]
    BY DEF HostInv, HostTypes
  <1>2. HostTypes'
    BY DEF HostInv, HostTypes
  <1>3. ConnectionsHaveProcess'
    BY <1>1 DEF HostInv, ConnectionsHaveProcess
  <1>4. RoutesAreExclusive'
    BY <1>1 DEF HostInv, HostTypes, RoutesAreExclusive, Served, Greeted
  <1>5. DeadAdapterIsForgotten'
    BY <1>1 DEF HostInv, DeadAdapterIsForgotten, Greeted
  <1> QED
    BY <1>2, <1>3, <1>4, <1>5 DEF HostInv

LEMMA HostInit == Init => HostInv
  BY DEF Init, HostInv, HostTypes, ConnectionsHaveProcess, RoutesAreExclusive,
         DeadAdapterIsForgotten, Served, Greeted, Idle, NoRoutes, Phases

\* The route is entered only for a process that has none.
LEMMA IntroduceKeeps ==
    ASSUME HostInv, NEW c \in Conns, Introduce(c)
    PROVE  HostInv'
  <1> DEFINE p == conn[c].proc
  <1> USE DEF HostInv
  <1>1. /\ conn'[c] = [conn[c] EXCEPT !.phase = "introduced"]
        /\ \A d \in Conns \ {c} : conn'[d] = conn[d]
        /\ UNCHANGED <<connected, registered>>
        /\ conn[c].phase = "open" /\ p \in Procs
    BY DEF HostTypes, Introduce, ConnectionsHaveProcess, brokerVars
  <1>2. /\ DOMAIN routes' = DOMAIN routes \cup {p} /\ p \notin DOMAIN routes
        /\ routes'[p] = c
        /\ \A q \in DOMAIN routes : routes'[q] = routes[q]
    BY DEF Introduce
  <1>3. HostTypes'
    BY <1>1 DEF HostTypes, Introduce, Phases
  <1>4. ConnectionsHaveProcess'
    BY <1>1 DEF ConnectionsHaveProcess, HostTypes
  <1>5. conn'[c].proc = p /\ conn'[c].phase = "introduced"
    BY <1>1 DEF HostTypes
  <1>6. RoutesAreExclusive'
    BY <1>1, <1>2, <1>5 DEF RoutesAreExclusive, Served, Greeted, HostTypes
  <1>7. DeadAdapterIsForgotten'
    BY <1>1 DEF DeadAdapterIsForgotten, Greeted
  <1> QED
    BY <1>3, <1>4, <1>6, <1>7

LEMMA GreetKeeps ==
    ASSUME HostInv, NEW c \in Conns, Greet(c)
    PROVE  HostInv'
  <1> DEFINE p == conn[c].proc
  <1> USE DEF HostInv
  <1>1. /\ conn'[c] = [conn[c] EXCEPT !.phase = "known"]
        /\ \A d \in Conns \ {c} : conn'[d] = conn[d]
        /\ conn[c].phase = "introduced" /\ p \in Procs
        /\ UNCHANGED <<routes, registered>> /\ connected' = connected \cup {p}
    BY DEF HostTypes, Greet, ConnectionsHaveProcess
  <1>2. conn'[c].proc = p /\ conn'[c].phase = "known"
    BY <1>1 DEF HostTypes
  <1>3. HostTypes'
    BY <1>1 DEF HostTypes, Greet, Phases
  <1>4. ConnectionsHaveProcess'
    BY <1>1, <1>2 DEF ConnectionsHaveProcess
  <1>5. Served(c) /\ Served(c)' /\ \A d \in Conns \ {c} : Served(d)' <=> Served(d)
    BY <1>1, <1>2 DEF Served, Greeted
  <1>6. RoutesAreExclusive'
    BY <1>1, <1>2, <1>5 DEF RoutesAreExclusive, HostTypes
  <1>7. DeadAdapterIsForgotten'
    <2>1. ASSUME NEW q \in connected'
          PROVE  \E d \in Conns : conn'[d].proc = q /\ conn'[d].phase \in Counted
      <3>1. CASE q = p
        BY <1>2, <3>1 DEF Counted
      <3>2. CASE q # p
        <4>1. PICK d \in Conns : /\ conn[d].proc = q
                                 /\ Greeted(d) \/ conn[d].phase = "leaving"
          BY <1>1, <3>2 DEF DeadAdapterIsForgotten
        <4> QED
          BY <1>1, <3>2, <4>1 DEF Greeted, Counted
      <3> QED
        BY <3>1, <3>2
    <2> QED
      BY <1>1, <2>1 DEF DeadAdapterIsForgotten, Greeted, Counted
  <1> QED
    BY <1>3, <1>4, <1>6, <1>7

\* The route that is removed is the connection's own.
LEMMA LeaveKeeps ==
    ASSUME HostInv, NEW c \in Conns, Leave(c)
    PROVE  HostInv'
  <1> DEFINE p == conn[c].proc
  <1> USE DEF HostInv
  <1>1. /\ conn'[c] = [conn[c] EXCEPT !.phase = "leaving"]
        /\ \A d \in Conns \ {c} : conn'[d] = conn[d]
        /\ Served(c) /\ p \in Procs
        /\ UNCHANGED <<connected, registered>>
    BY DEF HostTypes, Leave, Ends, ConnectionsHaveProcess, Free, Served, Greeted, brokerVars
  <1>2. conn'[c].proc = p /\ conn'[c].phase = "leaving"
    BY <1>1 DEF HostTypes
  <1>3. /\ DOMAIN routes' = DOMAIN routes \ {p}
        /\ \A q \in DOMAIN routes \ {p} : routes'[q] = routes[q]
        /\ routes[p] = c
    BY <1>1 DEF Leave, Without, RoutesAreExclusive
  <1>4. HostTypes'
    BY <1>1 DEF HostTypes, Leave, Phases, Without
  <1>5. ConnectionsHaveProcess'
    BY <1>1, <1>2 DEF ConnectionsHaveProcess
  <1>6. \A d \in Conns \ {c} : Served(d) => conn[d].proc # p
    BY <1>3 DEF RoutesAreExclusive
  <1>7. RoutesAreExclusive'
    BY <1>1, <1>2, <1>3, <1>6 DEF RoutesAreExclusive, Served, Greeted, HostTypes
  <1>8. DeadAdapterIsForgotten'
    <2>1. ASSUME NEW q \in connected
          PROVE  \E d \in Conns : conn'[d].proc = q /\ conn'[d].phase \in Counted
      <3>1. PICK d \in Conns : /\ conn[d].proc = q
                               /\ Greeted(d) \/ conn[d].phase = "leaving"
        BY DEF DeadAdapterIsForgotten
      <3> QED
        BY <1>1, <1>2, <3>1 DEF Greeted, Counted
    <2> QED
      BY <1>1, <2>1 DEF DeadAdapterIsForgotten, Greeted, Counted
  <1> QED
    BY <1>4, <1>5, <1>7, <1>8

\* The process whose connection is given up is the one that is forgotten.
LEMMA DisconnectedKeeps ==
    ASSUME HostInv, NEW c \in Conns, Disconnected(c)
    PROVE  HostInv'
  <1> DEFINE p == conn[c].proc
  <1> USE DEF HostInv
  <1>1. /\ conn'[c] \in {Idle, [conn[c] EXCEPT !.phase = "closing"]}
        /\ \A d \in Conns \ {c} : conn'[d] = conn[d]
        /\ conn[c].phase = "leaving" /\ p \in Procs
        /\ routes' = routes /\ connected' = connected \ {p}
        /\ registered' = registered \ {p}
    BY DEF HostTypes, Disconnected, ConnectionsHaveProcess, BrokerCall
  <1>2. conn'[c].phase \in {"free", "closing"} /\ conn'[c].proc \in {p, NoOne}
    BY <1>1 DEF HostTypes, Idle
  <1>3. HostTypes'
    BY <1>1 DEF HostTypes, Disconnected, Phases, Idle
  <1>4. ConnectionsHaveProcess'
    BY <1>1 DEF ConnectionsHaveProcess, HostTypes, Idle
  <1>5. RoutesAreExclusive'
    BY <1>1, <1>2 DEF RoutesAreExclusive, Served, Greeted, HostTypes
  <1>6. DeadAdapterIsForgotten'
    BY <1>1 DEF DeadAdapterIsForgotten, Greeted
  <1> QED
    BY <1>3, <1>4, <1>5, <1>6

LEMMA AcceptKeeps ==
    ASSUME HostInv, NEW p \in Procs, NEW c \in Conns, Accept(p, c)
    PROVE  HostInv'
  <1>1. [phase |-> "open", proc |-> p] \in [phase : Phases, proc : Procs \cup {NoOne}]
    BY DEF Phases
  <1>2. /\ conn[c].phase = "free"
        /\ UNCHANGED <<routes, connected>>
        /\ registered' \subseteq connected
    BY DEF HostInv, DeadAdapterIsForgotten, Accept, Idle, brokerVars
  <1>3. conn' = [conn EXCEPT ![c] = [phase |-> "open", proc |-> p]]
    BY DEF Accept
  <1> QED
    BY <1>1, <1>2, <1>3, SameKind

LEMMA DismissKeeps ==
    ASSUME HostInv, NEW c \in Conns, Dismiss(c)
    PROVE  HostInv'
  <1>1. Idle \in [phase : Phases, proc : Procs \cup {NoOne}] /\ Idle.phase = "free"
    BY DEF Idle, Phases
  <1>2. /\ conn[c].phase = "open" /\ conn' = [conn EXCEPT ![c] = Idle]
        /\ UNCHANGED <<routes, connected>> /\ registered' \subseteq connected
    BY DEF HostInv, DeadAdapterIsForgotten, Dismiss, brokerVars
  <1> QED
    BY <1>1, <1>2, SameKind

\* SOURCE_ADDED and SOURCE_REMOVED.
LEMMA SourcesKeep ==
    ASSUME HostInv, NEW c \in Conns, Announce(c) \/ Withdraw(c)
    PROVE  HostInv'
  <1>1. PICK phase \in {"announced", "withdrawn"} :
            conn' = [conn EXCEPT ![c].phase = phase]
    BY DEF Announce, Withdraw
  <1>2. /\ conn[c] \in [phase : Phases, proc : Procs \cup {NoOne}]
        /\ conn[c].phase \in {"known", "announced", "withdrawn"}
        /\ conn[c].proc \in Procs
        /\ UNCHANGED <<routes, connected>> /\ registered' \subseteq connected
    BY DEF HostInv, HostTypes, ConnectionsHaveProcess, DeadAdapterIsForgotten,
           Announce, Withdraw, BrokerCall
  <1> DEFINE new == [conn[c] EXCEPT !.phase = phase]
  <1>3. /\ new \in [phase : Phases, proc : Procs \cup {NoOne}]
        /\ new.proc = conn[c].proc /\ new.phase = phase
    BY <1>1, <1>2 DEF Phases
  <1>4. conn' = [conn EXCEPT ![c] = new]
    BY <1>1
  <1> QED
    BY <1>2, <1>3, <1>4, SameKind

\* Only a task in its last step, which has given its process up, changes phase.
LEMMA DispatchKeeps ==
    ASSUME HostInv, NEW t \in Tasks, Dispatch(t)
    PROVE  HostInv'
  <1>1. UNCHANGED <<routes, connected>> /\ registered' \subseteq connected
    BY DEF HostInv, DeadAdapterIsForgotten, Dispatch, brokerVars
  <1>2. CASE t \in Conns /\ conn[t].phase = "closing"
    <2>1. conn' = [conn EXCEPT ![t] = Idle]
      BY <1>2 DEF Dispatch
    <2>2. Idle \in [phase : Phases, proc : Procs \cup {NoOne}] /\ Idle.phase = "free"
      BY DEF Idle, Phases
    <2> QED
      BY <1>1, <1>2, <2>1, <2>2, SameKind
  <1>3. CASE ~(t \in Conns /\ conn[t].phase = "closing")
    <2>1. conn' = conn
      BY <1>3 DEF Dispatch
    <2> QED
      BY <1>1, <2>1, Untouched
  <1> QED
    BY <1>2, <1>3

\* A stopped worker has neither connections nor routes.
LEMMA StopKeeps ==
    ASSUME HostInv, NEW k \in Ctls, ControlStop(k)
    PROVE  HostInv'
  BY DEF ControlStop, HostInv, HostTypes, ConnectionsHaveProcess,
         RoutesAreExclusive, DeadAdapterIsForgotten, Served, Greeted, Idle,
         NoRoutes, Phases

LEMMA HostNext == HostInv /\ [Next]_vars => HostInv'
  <1> SUFFICES ASSUME HostInv, [Next]_vars PROVE HostInv'
    OBVIOUS
  <1>1. CASE StreamStart \/ LoadDesired \/ Publish \/ ForegroundChanged
    <2>1. UNCHANGED <<conn, routes, connected>> /\ registered' \subseteq connected
      BY <1>1 DEF HostInv, DeadAdapterIsForgotten, StreamStart, LoadDesired,
                  Publish, ForegroundChanged, BrokerCall, brokerVars
    <2> QED
      BY <2>1, Untouched
  <1>2. ASSUME NEW c \in Conns, ConnectionStep(c) PROVE HostInv'
    <2>1. CASE Deliver(c)
      <3>1. UNCHANGED <<conn, routes, connected>> /\ registered' \subseteq connected
        BY <2>1 DEF HostInv, DeadAdapterIsForgotten, Deliver, brokerVars
      <3> QED
        BY <3>1, Untouched
    <2> QED
      BY <1>2, <2>1, DismissKeeps, IntroduceKeeps, GreetKeeps, SourcesKeep,
         LeaveKeeps, DisconnectedKeeps DEF ConnectionStep
  <1>3. ASSUME NEW k \in Ctls, ControlStep(k) PROVE HostInv'
    <2>1. CASE ControlStop(k)
      BY <2>1, StopKeeps
    <2>2. CASE ~ControlStop(k)
      <3>1. UNCHANGED <<conn, routes, connected>> /\ registered' \subseteq connected
        BY <1>3, <2>2 DEF HostInv, DeadAdapterIsForgotten, ControlStep,
              ControlRead, ControlStore, ControlTell, ControlAnswer, BrokerCall,
              brokerVars
      <3> QED
        BY <3>1, Untouched
    <2> QED
      BY <2>1, <2>2
  <1>4. ASSUME NEW p \in Procs, AdapterStep(p) PROVE HostInv'
    <2>1. CASE Notice(p) \/ Drop(p)
      <3>1. UNCHANGED <<conn, routes, connected>> /\ registered' \subseteq connected
        BY <2>1 DEF HostInv, DeadAdapterIsForgotten, Notice, Drop, brokerVars
      <3> QED
        BY <3>1, Untouched
    <2> QED
      BY <1>4, <2>1, AcceptKeeps DEF AdapterStep
  <1>5. ASSUME NEW t \in Tasks, Dispatch(t) PROVE HostInv'
    BY <1>5, DispatchKeeps
  <1>6. CASE UNCHANGED vars
    <2>1. UNCHANGED <<conn, routes, connected>> /\ registered' \subseteq connected
      BY <1>6 DEF HostInv, DeadAdapterIsForgotten, vars, brokerVars
    <2> QED
      BY <2>1, Untouched
  <1> QED
    BY <1>1, <1>2, <1>3, <1>4, <1>5, <1>6 DEF Next

THEOREM HostInvariant == Spec => []HostInv
  BY HostInit, HostNext, PTL DEF Spec

\* A process has one route, to the one connection that introduced it and is not
\* torn down (windows_native.rs, connection), whatever connects and when.
THEOREM RoutesStayExclusive == Spec => []RoutesAreExclusive
  <1>1. HostInv => RoutesAreExclusive
    BY DEF HostInv
  <1> QED
    BY <1>1, HostInvariant, PTL

\* The broker forgets every process whose connections have ended, in whatever
\* order the ends of their tasks fall.
THEOREM ForgetsDeadAdapters == Spec => []DeadAdapterIsForgotten
  <1>1. HostInv => DeadAdapterIsForgotten
    BY DEF HostInv
  <1> QED
    BY <1>1, HostInvariant, PTL

-------------------------------------------------------------------------------
(* The engines follow the broker's last decision, and an answered pause stays  *)
(* in force.                                                                   *)
(*                                                                             *)
(* A process is told of the broker's decisions by commands that tasks hold     *)
(* between the two mutexes.  As long as the newest of them for a process is    *)
(* held, it says what the broker has decided; once it is dispatched, and       *)
(* nothing went astray, the process has been told so, and commands that        *)
(* are dispatched later do not concern it.  A process whose source was just    *)
(* added has been told nothing, and is not selected.                           *)

-------------------------------------------------------------------------------
(* The commands on their way.                                                  *)

Ops == {"unsubscribe", "subscribe"}
Commands == [unsubscribe : Procs \cup {NoOne}, subscribe : Procs \cup {NoOne}]
ControlRecords == [phase : {"free", "read", "stored", "told"},
                   request : Requests, found : BOOLEAN, alone : BOOLEAN]

CommandTypes ==
    /\ registered \subseteq Procs
    /\ selected \in registered \cup {NoOne}
    /\ queue \in [Conns -> Seq(Ops)]
    /\ pending \in [Tasks -> Commands]
    /\ newest \in [Procs -> Tasks \cup {NoOne}]
    /\ link \in [Procs -> Conns \cup {NoOne}]
    /\ active \subseteq Procs
    /\ ctl \in [Ctls -> ControlRecords]

\* The task with the newest command for a process holds one, and it says whether
\* the process is selected.
NewestIsHeld ==
    \A p \in Procs : newest[p] # NoOne =>
        /\ p \in Named(pending[newest[p]])
        /\ pending[newest[p]].subscribe = p <=> p = selected

\* A task calls the broker only when it holds no commands.
CallersHoldNothing ==
    /\ \A c \in Conns : ~Greeted(c) /\ conn[c].phase # "closing" => pending[c] = Nothing
    /\ \A k \in Ctls : ctl[k].phase # "told" => pending[k] = Nothing

\* A connection has announced the source of its process, or nobody has.
SourcesAreAnnounced ==
    \A c \in Conns : conn[c].phase \in {"known", "withdrawn"}
                        => conn[c].proc \notin registered

\* A disconnected adapter has parked its engine.
ParkedWithoutLink == \A p \in Procs : link[p] = NoOne => p \notin active

HandsInv ==
    /\ CommandTypes /\ NewestIsHeld /\ CallersHoldNothing
    /\ SourcesAreAnnounced /\ ParkedWithoutLink

\* A connection that has announced nothing has not been told to run.
UntoldBeforeAnnounced ==
    \A c \in Conns :
        /\ conn[c].phase \notin {"announced", "withdrawn"}
             => \A i \in 1..Len(queue[c]) : queue[c][i] = "unsubscribe"
        /\ conn[c].phase \in {"open", "introduced", "known"} /\ link[conn[c].proc] = c
             => conn[c].proc \notin active

\* What an adapter does once it has obeyed the commands in its queue.
WillRun(c) == IF queue[c] = <<>> THEN conn[c].proc \in active
              ELSE queue[c][Len(queue[c])] = "subscribe"

\* An adapter that no task holds a newer command for has been told whether it is
\* selected.
Told ==
    \A c \in Conns :
        /\ conn[c].phase = "announced" /\ conn[c].proc \in registered
        /\ link[conn[c].proc] = c
        /\ newest[conn[c].proc] = NoOne
        => (WillRun(c) <=> conn[c].proc = selected)

SelectionInv == ~astray => UntoldBeforeAnnounced /\ Told

-------------------------------------------------------------------------------
(* The pause.                                                                  *)

Busy(k) == ctl[k].phase # "free"

\* Before the broker is published nobody is served, and nothing is selected.
AsleepBeforeUp ==
    /\ host # "up" => /\ \A c \in Conns : conn[c].phase = "free"
                      /\ selected = NoOne
                      /\ \A k \in Ctls : Busy(k) => ~ctl[k].found
    /\ host = "down" => ~promised /\ \A k \in Ctls : ~Busy(k)
    /\ \A k \in Ctls : ctl[k].phase = "stored" => ctl[k].found

\* A pause that is wanted is in force, or will be: by a request that is about
\* to tell the broker, or by the broker that is about to start.
PauseArrives ==
    /\ desired
    /\ \/ paused \/ missed \/ host = "control"
       \/ \E k \in Ctls : ctl[k].phase = "stored"

\* A pause that is alone has no resume beside it, and once it is stored, or
\* promised, it arrives.
PausesArrive ==
    /\ \A k \in Ctls : Busy(k) /\ ctl[k].alone /\ ctl[k].request = "pause" => OnlyPauses
    /\ \A k \in Ctls : /\ ctl[k].phase \in {"stored", "told"}
                       /\ ctl[k].alone /\ ctl[k].request = "pause"
                       => PauseArrives
    /\ promised => OnlyPauses /\ PauseArrives

PauseInv ==
    /\ AsleepBeforeUp
    /\ paused => selected = NoOne
    /\ PausesArrive

-------------------------------------------------------------------------------
(* The commands the tasks hold.                                                *)

LEMMA TaskKinds ==
    /\ Conns \subseteq Tasks /\ Ctls \subseteq Tasks /\ Hook \in Tasks
    /\ Conns \cap Ctls = {} /\ Hook \notin Conns \cup Ctls
    /\ NoOne \notin Procs /\ NoOne \notin Tasks
    /\ Nothing \in Commands
  BY HostAssumption DEF Tasks, Nothing, Commands

\* What a decision names is registered, and it says who is selected now; of the
\* others nothing has changed.
LEMMA DecisionNames ==
    ASSUME CommandTypes, NEW sources, sources \subseteq Procs,
           NEW s \in sources \cup {NoOne}, NEW full \in BOOLEAN
    PROVE  /\ Decision(sources, s, full) \in Commands
           /\ \A p \in Named(Decision(sources, s, full)) :
                 Decision(sources, s, full).subscribe = p <=> p = s
           /\ \A p \in sources \ Named(Decision(sources, s, full)) :
                 p = selected <=> p = s
           /\ \A p \in Procs \ Named(Decision(sources, s, full)) :
                 p \notin registered \ sources => (p = selected <=> p = s)
  <1>1. CASE s = selected
    <2>1. /\ Decision(sources, s, full).unsubscribe = NoOne
          /\ Decision(sources, s, full).subscribe \in {s, NoOne}
          /\ Decision(sources, s, full) \in Commands
      BY <1>1 DEF CommandTypes, Decision, Commands, Nothing
    <2> QED
      BY <1>1, <2>1 DEF Named
  <1>2. CASE s # selected
    <2>1. Decision(sources, s, full)
            = [unsubscribe |-> IF selected \in sources THEN selected ELSE NoOne,
               subscribe |-> s]
      BY <1>2 DEF Decision
    <2>2. s \in Procs \cup {NoOne} /\ selected \in registered \cup {NoOne}
      BY DEF CommandTypes
    <2>3. NoOne \notin Procs
      BY TaskKinds
    <2> QED
      BY <1>2, <2>1, <2>2, <2>3 DEF Named, Commands
  <1> QED
    BY <1>1, <1>2

\* A task that calls the broker holds the newest commands for the processes they
\* name.
LEMMA CallKeepsHands ==
    ASSUME CommandTypes, NewestIsHeld, NEW t \in Tasks, pending[t] = Nothing,
           NEW sources, NEW pause, sources \subseteq Procs,
           BrokerCall(t, sources, pause)
    PROVE  /\ registered' = sources
           /\ selected' \in registered' \cup {NoOne}
           /\ pending' \in [Tasks -> Commands]
           /\ \A u \in Tasks \ {t} : pending'[u] = pending[u]
           /\ newest' \in [Procs -> Tasks \cup {NoOne}]
           /\ NewestIsHeld'
           /\ \A p \in sources : newest'[p] = NoOne =>
                 newest[p] = NoOne /\ (p = selected' <=> p = selected)
  <1>1. PICK s \in sources \cup {NoOne}, full \in BOOLEAN :
            /\ selected' = s
            /\ pending' = [pending EXCEPT ![t] = Decision(sources, s, full)]
    BY DEF BrokerCall
  <1> DEFINE new == Decision(sources, s, full)
  <1>2. /\ registered' = sources
        /\ newest' = [p \in Procs |->
                        IF p \in Named(pending'[t]) THEN t
                        ELSE IF p \in registered \ sources THEN NoOne
                        ELSE newest[p]]
    BY DEF BrokerCall
  <1>3. /\ new \in Commands
        /\ \A p \in Named(new) : new.subscribe = p <=> p = s
        /\ \A p \in sources \ Named(new) : p = selected <=> p = s
        /\ \A p \in Procs \ Named(new) :
              p \notin registered \ sources => (p = selected <=> p = s)
    BY DecisionNames
  <1> HIDE DEF new
  <1>4. /\ pending' \in [Tasks -> Commands]
        /\ pending'[t] = new
        /\ \A u \in Tasks \ {t} : pending'[u] = pending[u]
    BY <1>1, <1>3 DEF CommandTypes, new
  <1>5. newest' \in [Procs -> Tasks \cup {NoOne}]
    BY <1>2 DEF CommandTypes
  <1>6. NoOne \notin Tasks
    BY TaskKinds
  <1>7. ASSUME NEW p \in Procs, newest'[p] # NoOne
        PROVE  /\ p \in Named(pending'[newest'[p]])
               /\ pending'[newest'[p]].subscribe = p <=> p = selected'
    <2>1. CASE p \in Named(new)
      BY <1>1, <1>2, <1>3, <1>4, <2>1
    <2>2. CASE p \notin Named(new)
      <3>1. newest'[p] = newest[p] /\ p \notin registered \ sources
        BY <1>2, <1>4, <1>7, <2>2
      <3>2. p \in Named(pending[newest[p]]) /\ newest[p] \in Tasks
        BY <1>7, <3>1 DEF NewestIsHeld, CommandTypes
      <3>3. newest[p] # t
        BY <3>2, TaskKinds DEF Named, Nothing
      <3>4. pending'[newest[p]] = pending[newest[p]]
        BY <1>4, <3>2, <3>3
      <3> QED
        BY <1>1, <1>3, <1>7, <2>2, <3>1, <3>2, <3>4 DEF NewestIsHeld
    <2> QED
      BY <2>1, <2>2
  <1>8. ASSUME NEW p \in sources, newest'[p] = NoOne
        PROVE  newest[p] = NoOne /\ (p = selected' <=> p = selected)
    <2>1. p \in Procs /\ p \notin Named(new) /\ newest[p] = NoOne
      BY <1>2, <1>4, <1>6, <1>8
    <2> QED
      BY <1>1, <1>3, <2>1
  <1>9. NewestIsHeld'
    BY <1>7 DEF NewestIsHeld
  <1> QED
    BY <1>1, <1>2, <1>4, <1>5, <1>8, <1>9

\* A task that dispatches holds no commands any more.
LEMMA DispatchKeepsHands ==
    ASSUME CommandTypes, NewestIsHeld, NEW t \in Tasks, Dispatch(t)
    PROVE  /\ pending' \in [Tasks -> Commands]
           /\ pending'[t] = Nothing
           /\ \A u \in Tasks \ {t} : pending'[u] = pending[u]
           /\ newest' \in [Procs -> Tasks \cup {NoOne}]
           /\ NewestIsHeld'
  <1>1. /\ pending' \in [Tasks -> Commands] /\ pending'[t] = Nothing
        /\ \A u \in Tasks \ {t} : pending'[u] = pending[u]
    BY TaskKinds DEF Dispatch, CommandTypes
  <1>2. newest' = [p \in Procs |-> IF newest[p] = t THEN NoOne ELSE newest[p]]
    BY DEF Dispatch
  <1>3. newest' \in [Procs -> Tasks \cup {NoOne}]
    BY <1>2 DEF CommandTypes
  <1>4. ASSUME NEW p \in Procs, newest'[p] # NoOne
        PROVE  newest'[p] = newest[p] /\ newest[p] \in Tasks \ {t}
    BY <1>2, <1>4 DEF CommandTypes
  <1>5. selected' = selected
    BY DEF Dispatch, brokerVars
  <1>6. NewestIsHeld'
    BY <1>1, <1>4, <1>5 DEF NewestIsHeld
  <1> QED
    BY <1>1, <1>3, <1>6

-------------------------------------------------------------------------------
(* What the tasks hold, whatever has gone astray.                              *)

LEMMA HandsInit == Init => HandsInv
  BY TaskKinds DEF Init, HandsInv, CommandTypes, NewestIsHeld, CallersHoldNothing,
     SourcesAreAnnounced, ParkedWithoutLink, ControlRecords, NoRequest, Requests,
     Idle, Greeted

LEMMA StopKeepsHands ==
    ASSUME HandsInv, NEW k \in Ctls, ControlStop(k)
    PROVE  HandsInv'
  BY TaskKinds DEF ControlStop, HandsInv, CommandTypes, NewestIsHeld,
     CallersHoldNothing, SourcesAreAnnounced, ParkedWithoutLink, ControlRecords,
     NoRequest, Requests, Idle, Greeted

\* A step that leaves commands and selection alone keeps the invariant if it
\* keeps what the connections, the adapters and the requests have to do with it.
LEMMA QuietKeepsHands ==
    ASSUME HandsInv, UNCHANGED handVars, UNCHANGED <<registered, selected>>,
           queue' \in [Conns -> Seq(Ops)],
           link' \in [Procs -> Conns \cup {NoOne}],
           active' \subseteq Procs,
           ctl' \in [Ctls -> ControlRecords],
           \A k \in Ctls : (ctl'[k].phase = "told") \/ (ctl[k].phase # "told")
                           \/ pending[k] = Nothing,
           \A c \in Conns :
              \/ conn'[c] = conn[c]
              \/ /\ pending[c] = Nothing
                 /\ conn'[c].phase \notin {"known", "withdrawn"}
                       \/ conn'[c].proc \notin registered,
           \A p \in Procs : link'[p] = NoOne => p \notin active'
    PROVE  HandsInv'
  <1>1. CommandTypes'
    BY DEF HandsInv, CommandTypes, handVars
  <1>2. NewestIsHeld'
    BY DEF HandsInv, NewestIsHeld, handVars
  <1>3. CallersHoldNothing'
    BY DEF HandsInv, CallersHoldNothing, Greeted, handVars
  <1>4. SourcesAreAnnounced'
    BY DEF HandsInv, SourcesAreAnnounced
  <1>5. ParkedWithoutLink'
    BY DEF ParkedWithoutLink
  <1> QED
    BY <1>1, <1>2, <1>3, <1>4, <1>5 DEF HandsInv

\* The steps of the connections that call no broker.
LEMMA PhasesKeepHands ==
    ASSUME HostInv, HandsInv, NEW c \in Conns,
           \/ Dismiss(c) \/ Introduce(c) \/ Greet(c) \/ Leave(c) \/ Deliver(c)
           \/ \E p \in Procs : Accept(p, c)
    PROVE  HandsInv'
  <1>1. /\ UNCHANGED handVars /\ UNCHANGED <<registered, selected, ctl>>
    BY DEF Dismiss, Introduce, Greet, Leave, Deliver, Accept, brokerVars
  <1>2. queue' \in [Conns -> Seq(Ops)]
    <2>1. CASE Deliver(c)
      <3>1. Tail(queue[c]) \in Seq(Ops)
        BY <2>1 DEF HandsInv, CommandTypes, Deliver
      <3> QED
        BY <2>1, <3>1 DEF HandsInv, CommandTypes, Deliver
    <2>2. CASE ~Deliver(c)
      <3>1. queue' = queue \/ queue' = [queue EXCEPT ![c] = <<>>]
        BY <2>2 DEF Dismiss, Introduce, Greet, Leave, Accept
      <3>2. <<>> \in Seq(Ops)
        OBVIOUS
      <3> QED
        BY <3>1, <3>2 DEF HandsInv, CommandTypes
    <2> QED
      BY <2>1, <2>2
  <1>3. /\ link' \in [Procs -> Conns \cup {NoOne}] /\ active' \subseteq Procs
        /\ \A p \in Procs : link'[p] = NoOne => p \notin active'
    <2>1. CASE Deliver(c)
      <3>1. /\ link' = link /\ active' \subseteq active \cup {conn[c].proc}
            /\ active' = active \/ link[conn[c].proc] = c
        BY <2>1 DEF Deliver
      <3>2. conn[c].proc \in Procs
        BY <2>1 DEF HostInv, ConnectionsHaveProcess, Deliver, Free, Greeted
      <3> QED
        BY <3>1, <3>2, TaskKinds DEF HandsInv, CommandTypes, ParkedWithoutLink
    <2>2. CASE \E p \in Procs : Accept(p, c)
      BY <2>2, TaskKinds DEF HandsInv, CommandTypes, ParkedWithoutLink, Accept
    <2>3. CASE ~Deliver(c) /\ ~\E p \in Procs : Accept(p, c)
      <3>1. UNCHANGED <<link, active>>
        BY <2>3 DEF Dismiss, Introduce, Greet, Leave
      <3> QED
        BY <3>1 DEF HandsInv, CommandTypes, ParkedWithoutLink
    <2> QED
      BY <2>1, <2>2, <2>3
  <1>4. /\ pending[c] = Nothing /\ \A d \in Conns \ {c} : conn'[d] = conn[d]
        /\ \/ conn'[c] = conn[c]
           \/ conn'[c].phase \notin {"known", "withdrawn"}
           \/ conn'[c].proc \notin registered
    <2>1. CASE Deliver(c)
      BY <2>1 DEF Deliver, Free
    <2>2. CASE Greet(c)
      <3>1. /\ conn' = [conn EXCEPT ![c].phase = "known"]
            /\ conn[c].phase = "introduced" /\ conn[c].proc \notin connected
        BY <2>2 DEF Greet
      <3>2. conn[c].proc \notin registered /\ conn'[c].proc = conn[c].proc
        BY <3>1 DEF HostInv, HostTypes, DeadAdapterIsForgotten
      <3> QED
        BY <3>1, <3>2 DEF HandsInv, CallersHoldNothing, Greeted, HostInv, HostTypes
    <2>3. CASE Dismiss(c)
      BY <2>3 DEF Dismiss, Idle, HandsInv, CallersHoldNothing, Greeted, HostInv, HostTypes
    <2>4. CASE Introduce(c)
      BY <2>4 DEF Introduce, HandsInv, CallersHoldNothing, Greeted, HostInv, HostTypes
    <2>5. CASE Leave(c)
      BY <2>5 DEF Leave, Ends, Free, HandsInv, CallersHoldNothing, Greeted, HostInv, HostTypes
    <2>6. CASE \E p \in Procs : Accept(p, c)
      BY <2>6 DEF Accept, Idle, HandsInv, CallersHoldNothing, Greeted, HostInv, HostTypes
    <2> QED
      BY <2>1, <2>2, <2>3, <2>4, <2>5, <2>6
  <1>5. ctl' \in [Ctls -> ControlRecords]
    BY <1>1 DEF HandsInv, CommandTypes
  <1> QED
    BY <1>1, <1>2, <1>3, <1>4, <1>5, QuietKeepsHands

LEMMA AdaptersKeepHands ==
    ASSUME HandsInv, NEW p \in Procs, Notice(p) \/ Drop(p)
    PROVE  HandsInv'
  <1>1. /\ UNCHANGED handVars /\ UNCHANGED <<registered, selected, ctl, queue, conn>>
        /\ link' = [link EXCEPT ![p] = NoOne] /\ active' = active \ {p}
    BY DEF Notice, Drop, brokerVars
  <1>2. /\ queue' \in [Conns -> Seq(Ops)] /\ ctl' \in [Ctls -> ControlRecords]
        /\ link' \in [Procs -> Conns \cup {NoOne}] /\ active' \subseteq Procs
        /\ \A q \in Procs : link'[q] = NoOne => q \notin active'
    BY <1>1 DEF HandsInv, CommandTypes, ParkedWithoutLink
  <1> QED
    BY <1>1, <1>2, QuietKeepsHands

\* The control requests, up to the call of the broker and after it, and the
\* worker's start.
LEMMA ControlKeepsHands ==
    ASSUME HandsInv,
           \/ StreamStart \/ LoadDesired \/ Publish \/ UNCHANGED vars
           \/ \E k \in Ctls : \/ \E request \in Requests : ControlRead(k, request)
                              \/ ControlStore(k) \/ ControlAnswer(k)
    PROVE  HandsInv'
  <1>1. /\ UNCHANGED handVars
        /\ UNCHANGED <<registered, selected, queue, conn, link, active>>
    BY DEF StreamStart, LoadDesired, Publish, ControlRead, ControlStore,
           ControlAnswer, brokerVars, handVars, vars
  <1>2. /\ queue' \in [Conns -> Seq(Ops)]
        /\ link' \in [Procs -> Conns \cup {NoOne}] /\ active' \subseteq Procs
        /\ \A q \in Procs : link'[q] = NoOne => q \notin active'
    BY <1>1 DEF HandsInv, CommandTypes, ParkedWithoutLink
  <1>3. /\ ctl' \in [Ctls -> ControlRecords]
        /\ \A k \in Ctls : (ctl'[k].phase = "told") \/ (ctl[k].phase # "told")
                           \/ pending[k] = Nothing
    <2> USE DEF HandsInv, CommandTypes, ControlRecords
    <2>1. CASE StreamStart \/ LoadDesired \/ Publish \/ UNCHANGED vars
      BY <2>1 DEF StreamStart, LoadDesired, Publish, vars
    <2>2. CASE \E k \in Ctls, request \in Requests : ControlRead(k, request)
      <3>1. PICK k \in Ctls, request \in Requests : ControlRead(k, request)
        BY <2>2
      <3>2. ASSUME NEW j \in Ctls
            PROVE  /\ ctl'[j] \in ControlRecords
                   /\ (ctl'[j].phase = "told") \/ (ctl[j].phase # "told")
        <4>1. CASE j = k
          BY <3>1, <4>1 DEF ControlRead, OnlyPauses
        <4>2. CASE j # k
          <5>1. ctl'[j] = [ctl[j] EXCEPT !.alone = @ /\ request = "pause"]
            BY <3>1, <4>2 DEF ControlRead
          <5> QED
            BY <5>1
        <4> QED
          BY <4>1, <4>2
      <3>3. ctl' = [j \in Ctls |-> ctl'[j]]
        BY <3>1 DEF ControlRead
      <3> QED
        BY <3>2, <3>3
    <2>3. CASE \E k \in Ctls : ControlStore(k)
      BY <2>3 DEF ControlStore
    <2>4. CASE \E k \in Ctls : ControlAnswer(k)
      BY <2>4 DEF ControlAnswer, NoRequest, Requests
    <2> QED
      BY <2>1, <2>2, <2>3, <2>4
  <1> QED
    BY <1>1, <1>2, <1>3, QuietKeepsHands

LEMMA DispatchHands ==
    ASSUME HostInv, HandsInv, NEW t \in Tasks, Dispatch(t)
    PROVE  HandsInv'
  <1>1. /\ pending' \in [Tasks -> Commands] /\ pending'[t] = Nothing
        /\ \A u \in Tasks \ {t} : pending'[u] = pending[u]
        /\ newest' \in [Procs -> Tasks \cup {NoOne}]
        /\ NewestIsHeld'
    BY DispatchKeepsHands DEF HandsInv
  <1>2. /\ UNCHANGED <<registered, selected, link, active, ctl>>
        /\ \A c \in Conns : conn'[c] = conn[c] \/ (c = t /\ conn'[c].phase = "free")
    BY DEF Dispatch, brokerVars, HostInv, HostTypes, Idle
  <1>3. queue' \in [Conns -> Seq(Ops)]
    <2>1. <<>> \in Seq(Ops) /\ <<"unsubscribe">> \in Seq(Ops) /\ <<"subscribe">> \in Seq(Ops)
      BY DEF Ops
    <2>2. \A c \in Conns : \E a, b \in Seq(Ops) : queue'[c] = (queue[c] \o a) \o b
      BY <2>1 DEF Dispatch, Route
    <2>3. ASSUME NEW c \in Conns PROVE queue'[c] \in Seq(Ops)
      <3>1. PICK a, b \in Seq(Ops) : queue'[c] = (queue[c] \o a) \o b
        BY <2>2
      <3>2. queue[c] \in Seq(Ops)
        BY DEF HandsInv, CommandTypes
      <3>3. queue[c] \o a \in Seq(Ops)
        BY <3>2
      <3> QED
        BY <3>1, <3>3
    <2> QED
      BY <2>3 DEF Dispatch, Route
  <1>4. CommandTypes'
    BY <1>1, <1>2, <1>3 DEF HandsInv, CommandTypes
  <1>5. CallersHoldNothing'
    BY <1>1, <1>2, TaskKinds DEF HandsInv, CallersHoldNothing, Greeted
  <1>6. SourcesAreAnnounced' /\ ParkedWithoutLink'
    BY <1>2 DEF HandsInv, SourcesAreAnnounced, ParkedWithoutLink
  <1> QED
    BY <1>1, <1>4, <1>5, <1>6 DEF HandsInv

\* The calls of the broker by the foreground thread and the control requests,
\* which leave the sources as they are.
LEMMA ElectionsKeepHands ==
    ASSUME HostInv, HandsInv, NEW t \in Tasks,
           \/ ForegroundChanged /\ t = Hook
           \/ t \in Ctls /\ ControlTell(t)
    PROVE  HandsInv' /\ pending[t] = Nothing
  <1>1. PICK pause : BrokerCall(t, registered, pause)
    BY DEF ForegroundChanged, ControlTell
  <1>2. pending[t] = Nothing
    BY DEF ForegroundChanged, ControlTell, HandsInv, CallersHoldNothing
  <1>3. /\ registered' \subseteq Procs /\ selected' \in registered' \cup {NoOne}
        /\ pending' \in [Tasks -> Commands]
        /\ \A u \in Tasks \ {t} : pending'[u] = pending[u]
        /\ newest' \in [Procs -> Tasks \cup {NoOne}]
        /\ NewestIsHeld'
    BY <1>1, <1>2, CallKeepsHands DEF HandsInv, CommandTypes
  <1>4. /\ UNCHANGED <<conn, queue, link, active>> /\ registered' = registered
        /\ \A k \in Ctls : k # t => ctl'[k] = ctl[k]
        /\ t \in Ctls => ctl'[t] = [ctl[t] EXCEPT !.phase = "told"]
        /\ ctl' \in [Ctls -> ControlRecords]
    <2>1. ctl \in [Ctls -> ControlRecords]
      BY DEF HandsInv, CommandTypes
    <2>2. CASE ForegroundChanged /\ t = Hook
      BY <2>1, <2>2, TaskKinds DEF ForegroundChanged, BrokerCall
    <2>3. CASE t \in Ctls /\ ControlTell(t)
      <3>1. [ctl[t] EXCEPT !.phase = "told"] \in ControlRecords
        BY <2>1, <2>3 DEF ControlRecords
      <3>2. ctl' = [ctl EXCEPT ![t] = [ctl[t] EXCEPT !.phase = "told"]]
        BY <2>1, <2>3 DEF ControlTell
      <3> QED
        BY <2>1, <2>3, <3>1, <3>2 DEF ControlTell, BrokerCall
    <2> QED
      BY <2>2, <2>3
  <1>5. CommandTypes'
    BY <1>3, <1>4 DEF HandsInv, CommandTypes
  <1>6. CallersHoldNothing'
    <2>1. \A c \in Conns : c # t /\ c \in Tasks
      BY TaskKinds
    <2>2. t \in Ctls => ctl'[t].phase = "told"
      BY <1>4 DEF HandsInv, CommandTypes, ControlRecords
    <2> QED
      BY <1>3, <1>4, <2>1, <2>2, TaskKinds DEF HandsInv, CallersHoldNothing, Greeted
  <1>7. SourcesAreAnnounced' /\ ParkedWithoutLink'
    BY <1>4 DEF HandsInv, SourcesAreAnnounced, ParkedWithoutLink
  <1> QED
    BY <1>2, <1>3, <1>5, <1>6, <1>7 DEF HandsInv

\* The calls of a connection, which change the sources.
LEMMA SourcesKeepHands ==
    ASSUME HostInv, HandsInv, NEW c \in Conns,
           Announce(c) \/ Withdraw(c) \/ Disconnected(c)
    PROVE  HandsInv' /\ pending[c] = Nothing
  <1> DEFINE p == conn[c].proc
  <1>1. PICK sources : /\ sources \in {registered \cup {p}, registered \ {p}}
                       /\ BrokerCall(c, sources, paused)
    BY DEF Announce, Withdraw, Disconnected
  <1>2. pending[c] = Nothing /\ p \in Procs /\ conn[c].phase # "free"
    BY DEF Announce, Withdraw, Disconnected, Free, HandsInv, CallersHoldNothing,
           Greeted, HostInv, ConnectionsHaveProcess
  <1>3. sources \subseteq Procs
    BY <1>1, <1>2 DEF HandsInv, CommandTypes
  <1>4. /\ registered' \subseteq Procs /\ selected' \in registered' \cup {NoOne}
        /\ pending' \in [Tasks -> Commands]
        /\ \A u \in Tasks \ {c} : pending'[u] = pending[u]
        /\ newest' \in [Procs -> Tasks \cup {NoOne}]
        /\ NewestIsHeld'
    BY <1>1, <1>2, <1>3, TaskKinds, CallKeepsHands DEF HandsInv
  <1>5. /\ UNCHANGED <<queue, link, ctl>> /\ active' \subseteq active
        /\ \A d \in Conns \ {c} : conn'[d] = conn[d]
    BY DEF Announce, Withdraw, Disconnected, HostInv, HostTypes
  <1>6. CommandTypes'
    BY <1>4, <1>5 DEF HandsInv, CommandTypes
  <1>7. CallersHoldNothing'
    <2>1. Greeted(c)' \/ conn'[c].phase = "closing" \/ pending'[c] = Nothing
      BY DEF Announce, Withdraw, Disconnected, Greeted, HostInv, HostTypes
    <2>2. \A d \in Conns : d \in Tasks /\ (d = c \/ pending'[d] = pending[d])
      BY <1>4, TaskKinds
    <2>3. \A k \in Ctls : pending'[k] = pending[k]
      BY <1>4, TaskKinds
    <2> QED
      BY <1>5, <2>1, <2>2, <2>3 DEF HandsInv, CallersHoldNothing, Greeted
  <1>8. SourcesAreAnnounced'
    <2>1. CASE Announce(c)
      <3>1. conn[c].phase = "known" /\ conn'[c].phase = "announced"
            /\ registered' = registered \cup {p}
        BY <2>1 DEF Announce, BrokerCall, HostInv, HostTypes
      <3>2. \A d \in Conns \ {c} : conn[d].phase \in {"known", "withdrawn"} => conn[d].proc # p
        BY <3>1 DEF HostInv, RoutesAreExclusive, Served, Greeted
      <3> QED
        BY <1>5, <3>1, <3>2 DEF HandsInv, SourcesAreAnnounced
    <2>2. CASE Withdraw(c)
      <3>1. conn'[c].proc = p /\ registered' = registered \ {p}
        BY <2>2 DEF Withdraw, BrokerCall, HostInv, HostTypes
      <3> QED
        BY <1>5, <3>1 DEF HandsInv, SourcesAreAnnounced
    <2>3. CASE Disconnected(c)
      <3>1. conn'[c].phase \in {"free", "closing"} /\ registered' = registered \ {p}
        BY <2>3 DEF Disconnected, BrokerCall, HostInv, HostTypes, Idle
      <3> QED
        BY <1>5, <3>1 DEF HandsInv, SourcesAreAnnounced
    <2> QED
      BY <2>1, <2>2, <2>3
  <1>9. ParkedWithoutLink'
    BY <1>5 DEF HandsInv, ParkedWithoutLink
  <1> QED
    BY <1>2, <1>4, <1>6, <1>7, <1>8, <1>9 DEF HandsInv

LEMMA HandsNext == HostInv /\ HandsInv /\ [Next]_vars => HandsInv'
  <1> SUFFICES ASSUME HostInv, HandsInv, [Next]_vars PROVE HandsInv'
    OBVIOUS
  <1>1. CASE StreamStart \/ LoadDesired \/ Publish \/ UNCHANGED vars
    BY <1>1, ControlKeepsHands
  <1>2. CASE ForegroundChanged
    <2>1. PICK t \in Tasks : t = Hook
      BY TaskKinds
    <2> QED
      BY <1>2, <2>1, ElectionsKeepHands
  <1>3. ASSUME NEW c \in Conns, ConnectionStep(c) PROVE HandsInv'
    BY <1>3, PhasesKeepHands, SourcesKeepHands DEF ConnectionStep
  <1>4. ASSUME NEW k \in Ctls, ControlStep(k) PROVE HandsInv'
    <2>1. k \in Tasks
      BY TaskKinds
    <2>2. CASE ControlTell(k)
      BY <2>1, <2>2, ElectionsKeepHands
    <2>3. CASE ControlStop(k)
      BY <2>3, StopKeepsHands
    <2>4. CASE ~ControlTell(k) /\ ~ControlStop(k)
      BY <1>4, <2>4, ControlKeepsHands DEF ControlStep
    <2> QED
      BY <2>2, <2>3, <2>4
  <1>5. ASSUME NEW p \in Procs, AdapterStep(p) PROVE HandsInv'
    BY <1>5, AdaptersKeepHands, PhasesKeepHands DEF AdapterStep
  <1>6. ASSUME NEW t \in Tasks, Dispatch(t) PROVE HandsInv'
    BY <1>6, DispatchHands
  <1> QED
    BY <1>1, <1>2, <1>3, <1>4, <1>5, <1>6 DEF Next

-------------------------------------------------------------------------------
(* What the adapters have been told, as long as nothing has gone astray.       *)

LEMMA SelectionInit == Init => SelectionInv
  BY DEF Init, SelectionInv, UntoldBeforeAnnounced, Told, Idle

LEMMA StopKeepsSelection ==
    ASSUME NEW k \in Ctls, ControlStop(k)
    PROVE  SelectionInv'
  BY DEF ControlStop, SelectionInv, UntoldBeforeAnnounced, Told, Idle

\* A step that leaves commands and selection alone keeps the invariant if the
\* adapters that count run on as before.
LEMMA QuietKeepsSelection ==
    ASSUME SelectionInv, UNCHANGED handVars, UNCHANGED <<registered, selected, astray>>,
           ~astray => \A c \in Conns :
              conn'[c].phase = "announced" /\ link'[conn'[c].proc] = c
                 => /\ conn'[c] = conn[c] /\ link[conn[c].proc] = c
                    /\ WillRun(c)' <=> WillRun(c),
           ~astray /\ UntoldBeforeAnnounced => UntoldBeforeAnnounced'
    PROVE  SelectionInv'
  <1>1. ~astray => Told'
    BY DEF SelectionInv, Told, handVars
  <1> QED
    BY <1>1 DEF SelectionInv

\* The last command of a queue is the last of what follows the first.
LEMMA LastOfTail ==
    ASSUME NEW q \in Seq(Ops), q # <<>>
    PROVE  /\ Tail(q) = <<>> => q[Len(q)] = Head(q)
           /\ Tail(q) # <<>> => Tail(q)[Len(Tail(q))] = q[Len(q)]
  <1>1. Len(q) \in Nat /\ Len(q) > 0 /\ Tail(q) \in Seq(Ops) /\ Len(Tail(q)) = Len(q) - 1
        /\ Head(q) = q[1]
    OBVIOUS
  <1>2. \A i \in 1..Len(Tail(q)) : Tail(q)[i] = q[i + 1]
    OBVIOUS
  <1>3. Tail(q) # <<>> => Len(Tail(q)) # 0
    BY <1>1
  <1>4. Tail(q) = <<>> => Len(q) = 1
    BY <1>1
  <1>5. Tail(q) # <<>> => Len(Tail(q)) \in 1..Len(Tail(q)) /\ Len(Tail(q)) + 1 = Len(q)
    BY <1>1, <1>3
  <1> QED
    BY <1>1, <1>2, <1>4, <1>5

\* The next command is obeyed: the adapter does what it was going to do.
LEMMA DeliverKeepsSelection ==
    ASSUME HostInv, HandsInv, SelectionInv, NEW c \in Conns, Deliver(c)
    PROVE  SelectionInv'
  <1> DEFINE p == conn[c].proc
  <1>1. /\ UNCHANGED handVars /\ UNCHANGED <<registered, selected, astray, conn, link>>
        /\ queue[c] \in Seq(Ops) /\ queue[c] # <<>>
        /\ queue' = [queue EXCEPT ![c] = Tail(@)]
        /\ queue \in [Conns -> Seq(Ops)]
    BY DEF Deliver, brokerVars, HandsInv, CommandTypes
  <1>2. /\ queue'[c] = Tail(queue[c])
        /\ \A d \in Conns \ {c} : queue'[d] = queue[d]
    BY <1>1
  <1>3. active' \subseteq active \cup {p} /\ active \subseteq active' \cup {p}
        /\ (active' = active \/ link[p] = c)
    BY DEF Deliver
  <1>4. ASSUME ~astray, NEW d \in Conns, conn[d].phase = "announced", link[conn[d].proc] = d
        PROVE  WillRun(d)' <=> WillRun(d)
    <2>1. CASE d # c
      <3>1. conn[d].proc \in active' <=> conn[d].proc \in active
        BY <1>3, <1>4, <2>1
      <3> QED
        BY <1>1, <1>2, <2>1, <3>1 DEF WillRun
    <2>2. CASE d = c /\ Tail(queue[c]) # <<>>
      BY <1>1, <1>2, <2>2, LastOfTail DEF WillRun
    <2>3. CASE d = c /\ Tail(queue[c]) = <<>>
      <3>1. queue[c][Len(queue[c])] = Head(queue[c]) /\ Head(queue[c]) \in Ops
        BY <1>1, <2>3, LastOfTail
      <3>2. p \in active' <=> Head(queue[c]) = "subscribe"
        BY <1>4, <2>3, <3>1 DEF Deliver, Ops
      <3> QED
        BY <1>1, <1>2, <2>3, <3>1, <3>2 DEF WillRun
    <2> QED
      BY <2>1, <2>2, <2>3
  <1>5. ASSUME ~astray, UntoldBeforeAnnounced PROVE UntoldBeforeAnnounced'
    <2>1. active' \subseteq active \/ conn[c].phase = "announced"
      BY DEF Deliver
    <2>2. ASSUME NEW d \in Conns, conn[d].phase \in {"open", "introduced", "known"},
                 link[conn[d].proc] = d
          PROVE  conn[d].proc \notin active'
      <3>1. conn[d].proc \notin active
        BY <1>5, <2>2 DEF UntoldBeforeAnnounced
      <3> QED
        BY <1>3, <2>1, <2>2, <3>1
    <2>3. /\ Len(queue[c]) \in Nat /\ Len(queue'[c]) = Len(queue[c]) - 1
          /\ \A i \in 1..Len(queue'[c]) :
                queue'[c][i] = queue[c][i + 1] /\ i + 1 \in 1..Len(queue[c])
      BY <1>1, <1>2
    <2>4. ASSUME NEW d \in Conns, conn[d].phase \notin {"announced", "withdrawn"}
          PROVE  \A i \in 1..Len(queue'[d]) : queue'[d][i] = "unsubscribe"
      <3>1. \A i \in 1..Len(queue[d]) : queue[d][i] = "unsubscribe"
        BY <1>5, <2>4 DEF UntoldBeforeAnnounced
      <3> QED
        BY <1>2, <2>3, <3>1
    <2> QED
      BY <1>1, <2>2, <2>4 DEF UntoldBeforeAnnounced
  <1> QED
    BY <1>1, <1>4, <1>5, QuietKeepsSelection

\* The other steps of the connections that call no broker.
LEMMA PhasesKeepSelection ==
    ASSUME HostInv, HandsInv, SelectionInv, NEW c \in Conns,
           \/ Dismiss(c) \/ Introduce(c) \/ Greet(c) \/ Leave(c)
           \/ \E p \in Procs : Accept(p, c)
    PROVE  SelectionInv'
  <1>1. /\ UNCHANGED handVars /\ UNCHANGED <<registered, selected, astray, active>>
    BY DEF Dismiss, Introduce, Greet, Leave, Accept, brokerVars
  <1>2. /\ \A d \in Conns \ {c} : conn'[d] = conn[d] /\ queue'[d] = queue[d]
        /\ conn'[c].phase \notin {"announced", "withdrawn"}
        /\ queue'[c] = queue[c] \/ queue'[c] = <<>>
    <2>1. queue' = queue \/ queue' = [queue EXCEPT ![c] = <<>>]
      BY DEF Dismiss, Introduce, Greet, Leave, Accept
    <2>2. /\ \A d \in Conns \ {c} : conn'[d] = conn[d]
          /\ conn'[c].phase \in {"free", "open", "introduced", "known", "leaving"}
      <3>1. CASE \E p \in Procs : Accept(p, c)
        BY <3>1 DEF Accept, HostInv, HostTypes
      <3>2. CASE Dismiss(c)
        BY <3>2 DEF Dismiss, HostInv, HostTypes, Idle
      <3>3. CASE Introduce(c) \/ Greet(c) \/ Leave(c)
        BY <3>3 DEF Introduce, Greet, Leave, HostInv, HostTypes
      <3> QED
        BY <3>1, <3>2, <3>3
    <2> QED
      BY <2>1, <2>2 DEF HandsInv, CommandTypes
  <1>3. \A d \in Conns \ {c} : conn[d].phase # "free" /\ link'[conn[d].proc] = d
           => link[conn[d].proc] = d
    <2>1. CASE \E p \in Procs : Accept(p, c)
      <3>1. \A d \in Conns : conn[d].phase # "free" => conn[d].proc \in Procs
        BY DEF HostInv, ConnectionsHaveProcess
      <3> QED
        BY <2>1, <3>1 DEF Accept, HandsInv, CommandTypes
    <2>2. CASE ~\E p \in Procs : Accept(p, c)
      BY <2>2 DEF Dismiss, Introduce, Greet, Leave
    <2> QED
      BY <2>1, <2>2
  <1>4. \A d \in Conns : conn'[d].phase = "announced" /\ link'[conn'[d].proc] = d
           => /\ conn'[d] = conn[d] /\ link[conn[d].proc] = d
              /\ WillRun(d)' <=> WillRun(d)
    BY <1>1, <1>2, <1>3 DEF WillRun
  <1>5. ASSUME ~astray, UntoldBeforeAnnounced PROVE UntoldBeforeAnnounced'
    <2>1. ASSUME conn'[c].phase \in {"open", "introduced", "known"},
                 link'[conn'[c].proc] = c
          PROVE  conn'[c].proc \notin active
      <3>1. CASE \E p \in Procs : Accept(p, c)
        BY <3>1 DEF Accept, HostInv, HostTypes, HandsInv, ParkedWithoutLink
      <3>2. CASE Introduce(c)
        BY <1>5, <2>1, <3>2 DEF Introduce, UntoldBeforeAnnounced, HostInv, HostTypes
      <3>3. CASE Greet(c)
        BY <1>5, <2>1, <3>3 DEF Greet, UntoldBeforeAnnounced, HostInv, HostTypes
      <3>4. CASE Dismiss(c) \/ Leave(c)
        BY <2>1, <3>4 DEF Dismiss, Leave, Idle, HostInv, HostTypes
      <3> QED
        BY <3>1, <3>2, <3>3, <3>4
    <2>2. \A i \in 1..Len(queue'[c]) : queue'[c][i] = "unsubscribe"
      <3>1. CASE Leave(c)
        <4>1. queue'[c] = <<>> /\ Len(<<>>) = 0
          BY <3>1 DEF Leave, HandsInv, CommandTypes
        <4> QED
          BY <4>1
      <3>2. CASE ~Leave(c)
        <4>1. queue' = queue
          BY <3>2 DEF Dismiss, Introduce, Greet, Accept
        <4>2. conn[c].phase \in {"free", "open", "introduced"}
          <5>1. CASE \E p \in Procs : Accept(p, c)
            BY <5>1 DEF Accept, Idle
          <5>2. CASE Dismiss(c) \/ Introduce(c) \/ Greet(c)
            BY <5>2 DEF Dismiss, Introduce, Greet
          <5> QED
            BY <3>2, <5>1, <5>2
        <4> QED
          BY <1>5, <4>1, <4>2 DEF UntoldBeforeAnnounced
      <3> QED
        BY <3>1, <3>2
    <2> QED
      BY <1>1, <1>2, <1>3, <1>5, <2>1, <2>2 DEF UntoldBeforeAnnounced
  <1> QED
    BY <1>1, <1>4, <1>5, QuietKeepsSelection

LEMMA AdaptersKeepSelection ==
    ASSUME HostInv, HandsInv, SelectionInv, NEW p \in Procs, Notice(p) \/ Drop(p)
    PROVE  SelectionInv'
  <1>1. /\ UNCHANGED handVars
        /\ UNCHANGED <<registered, selected, astray, queue, conn>>
        /\ link' = [link EXCEPT ![p] = NoOne] /\ active' = active \ {p}
    BY DEF Notice, Drop, brokerVars
  <1>2. link'[p] = NoOne /\ \A q \in Procs \ {p} : link'[q] = link[q]
    BY <1>1 DEF HandsInv, CommandTypes
  <1>3. \A d \in Conns : conn[d].phase # "free" => conn[d].proc \in Procs
    BY DEF HostInv, ConnectionsHaveProcess
  <1>4. \A d \in Conns : conn[d].phase # "free" /\ link'[conn[d].proc] = d
           => conn[d].proc # p /\ link[conn[d].proc] = d
    <2>1. NoOne \notin Conns
      BY TaskKinds
    <2>2. ASSUME NEW d \in Conns, NEW q \in Procs, link'[q] = d
          PROVE  q # p /\ link[q] = d
      BY <1>2, <2>1, <2>2
    <2> QED
      BY <1>3, <2>2
  <1>5. \A d \in Conns : conn'[d].phase = "announced" /\ link'[conn'[d].proc] = d
           => /\ conn'[d] = conn[d] /\ link[conn[d].proc] = d
              /\ WillRun(d)' <=> WillRun(d)
    BY <1>1, <1>4 DEF WillRun
  <1>6. UntoldBeforeAnnounced => UntoldBeforeAnnounced'
    BY <1>1, <1>4 DEF UntoldBeforeAnnounced
  <1> QED
    BY <1>1, <1>5, <1>6, QuietKeepsSelection

LEMMA ControlKeepsSelection ==
    ASSUME SelectionInv,
           \/ StreamStart \/ LoadDesired \/ Publish \/ UNCHANGED vars
           \/ \E k \in Ctls : \/ \E request \in Requests : ControlRead(k, request)
                              \/ ControlStore(k) \/ ControlAnswer(k)
    PROVE  SelectionInv'
  <1>1. /\ UNCHANGED handVars
        /\ UNCHANGED <<registered, selected, astray, queue, conn, link, active>>
    BY DEF StreamStart, LoadDesired, Publish, ControlRead, ControlStore,
           ControlAnswer, brokerVars, handVars, vars
  <1>2. \A c \in Conns : WillRun(c)' <=> WillRun(c)
    BY <1>1 DEF WillRun
  <1>3. UntoldBeforeAnnounced => UntoldBeforeAnnounced'
    BY <1>1 DEF UntoldBeforeAnnounced
  <1> QED
    BY <1>1, <1>2, <1>3, QuietKeepsSelection

\* The foreground thread and the control requests.
LEMMA ElectionsKeepSelection ==
    ASSUME HostInv, HandsInv, SelectionInv, NEW t \in Tasks,
           \/ ForegroundChanged /\ t = Hook
           \/ t \in Ctls /\ ControlTell(t)
    PROVE  SelectionInv'
  <1>1. PICK pause : BrokerCall(t, registered, pause)
    BY DEF ForegroundChanged, ControlTell
  <1>2. pending[t] = Nothing /\ registered \subseteq Procs
        /\ selected \in registered \cup {NoOne}
    BY ElectionsKeepHands DEF HandsInv, CommandTypes
  <1>3. UNCHANGED <<conn, queue, link, active, astray>>
    BY DEF ForegroundChanged, ControlTell
  <1>4. ~astray' => UntoldBeforeAnnounced'
    BY <1>3 DEF SelectionInv, UntoldBeforeAnnounced
  <1>5. ASSUME ~astray' PROVE Told'
    <2>1. Told
      BY <1>3, <1>5 DEF SelectionInv
    <2>2. /\ registered' = registered
          /\ \A p \in registered : newest'[p] = NoOne =>
                newest[p] = NoOne /\ (p = selected' <=> p = selected)
      BY <1>1, <1>2, CallKeepsHands DEF HandsInv
    <2>3. \A c \in Conns : WillRun(c)' <=> WillRun(c)
      BY <1>3 DEF WillRun
    <2> QED
      BY <1>3, <2>1, <2>2, <2>3 DEF Told
  <1> QED
    BY <1>4, <1>5 DEF SelectionInv

\* SOURCE_ADDED, SOURCE_REMOVED and the end of a connection.
LEMMA SourcesKeepSelection ==
    ASSUME HostInv, HandsInv, SelectionInv, NEW c \in Conns,
           Announce(c) \/ Withdraw(c) \/ Disconnected(c)
    PROVE  SelectionInv'
  <1> DEFINE p == conn[c].proc
  <1>1. PICK sources : /\ sources \in {registered \cup {p}, registered \ {p}}
                       /\ Announce(c) => sources = registered \cup {p}
                       /\ ~Announce(c) => sources = registered \ {p}
                       /\ BrokerCall(c, sources, paused)
    BY DEF Announce, Withdraw, Disconnected
  <1>2. /\ pending[c] = Nothing /\ p \in Procs /\ c \in Tasks
        /\ registered \subseteq Procs /\ selected \in registered \cup {NoOne}
    BY SourcesKeepHands, TaskKinds DEF Announce, Withdraw, Disconnected, Free,
       Greeted, HostInv, ConnectionsHaveProcess, HandsInv, CommandTypes
  <1>3. /\ UNCHANGED <<queue, link, astray>>
        /\ active' \subseteq active /\ active \subseteq active' \cup {p}
        /\ \A d \in Conns \ {c} : conn'[d] = conn[d]
        /\ active' = active \/ link[p] = c
    BY DEF Announce, Withdraw, Disconnected, HostInv, HostTypes
  <1>4. /\ Announce(c) => /\ conn'[c].phase = "announced" /\ conn'[c].proc = p
                          /\ conn[c].phase = "known" /\ link[p] = c /\ active' = active
        /\ Withdraw(c) => conn'[c].phase = "withdrawn" /\ link[p] = c
        /\ Disconnected(c) => /\ conn'[c].phase \in {"free", "closing"}
                              /\ conn[c].phase = "leaving" /\ active' = active
    BY DEF Announce, Withdraw, Disconnected, HostInv, HostTypes, Idle
  <1>5. ASSUME ~astray' PROVE UntoldBeforeAnnounced'
    <2>1. UntoldBeforeAnnounced
      BY <1>3, <1>5 DEF SelectionInv
    <2> QED
      BY <1>3, <1>4, <2>1 DEF UntoldBeforeAnnounced
  <1>6. ASSUME ~astray' PROVE Told'
    <2>1. Told /\ UntoldBeforeAnnounced
      BY <1>3, <1>6 DEF SelectionInv
    <2>2. sources \subseteq Procs
      BY <1>1, <1>2
    <2>3. /\ registered' = sources
          /\ \A q \in sources : newest'[q] = NoOne =>
                newest[q] = NoOne /\ (q = selected' <=> q = selected)
      BY <1>1, <1>2, <2>2, CallKeepsHands DEF HandsInv
    <2>4. ASSUME NEW d \in Conns, conn'[d].phase = "announced",
                 conn'[d].proc \in sources, link'[conn'[d].proc] = d,
                 newest'[conn'[d].proc] = NoOne
          PROVE  WillRun(d)' <=> conn'[d].proc = selected'
      <3>1. CASE d = c
        <4>1. Announce(c) /\ p \notin registered
          BY <1>4, <2>4, <3>1 DEF HandsInv, SourcesAreAnnounced
        <4>2. (\A i \in 1..Len(queue[c]) : queue[c][i] = "unsubscribe") /\ p \notin active
          BY <1>4, <2>1, <4>1 DEF UntoldBeforeAnnounced
        <4>3. queue[c] # <<>> => queue[c][Len(queue[c])] = "unsubscribe"
          <5>1. queue[c] \in Seq(Ops)
            BY DEF HandsInv, CommandTypes
          <5>2. queue[c] # <<>> => Len(queue[c]) \in 1..Len(queue[c])
            BY <5>1
          <5> QED
            BY <4>2, <5>2
        <4>4. ~WillRun(c)'
          BY <1>3, <1>4, <4>1, <4>2, <4>3 DEF WillRun
        <4>5. p # selected'
          BY <1>2, <1>4, <2>3, <2>4, <3>1, <4>1, TaskKinds
        <4> QED
          BY <1>4, <3>1, <4>1, <4>4, <4>5
      <3>2. CASE d # c
        <4>1. /\ conn'[d] = conn[d] /\ link[conn[d].proc] = d
              /\ conn[d].phase = "announced"
          BY <1>3, <2>4, <3>2
        <4>2. /\ conn[d].proc \in registered
              /\ link[p] = c => conn[d].proc # p
          BY <1>1, <1>2, <1>4, <2>2, <2>4, <3>2, <4>1
        <4>3. WillRun(d)' <=> WillRun(d)
          BY <1>3, <4>1, <4>2 DEF WillRun
        <4>4. newest[conn[d].proc] = NoOne /\ (conn[d].proc = selected' <=> conn[d].proc = selected)
          BY <2>3, <2>4, <4>1
        <4>5. WillRun(d) <=> conn[d].proc = selected
          BY <2>1, <4>1, <4>2, <4>4 DEF Told
        <4> QED
          BY <4>1, <4>3, <4>4, <4>5
      <3> QED
        BY <3>1, <3>2
    <2> QED
      BY <2>3, <2>4 DEF Told
  <1> QED
    BY <1>5, <1>6 DEF SelectionInv

\* What a queue ends with when commands are added to it.
LEMMA LastOfSent ==
    ASSUME NEW q \in Seq(Ops), NEW op \in Ops
    PROVE  /\ q \o <<>> = q
           /\ q \o <<op>> \in Seq(Ops) /\ q \o <<op>> # <<>>
           /\ (q \o <<op>>)[Len(q \o <<op>>)] = op
  <1>1. q \o <<>> = q
    OBVIOUS
  <1>2. q \o <<op>> \in Seq(Ops) /\ Len(q \o <<op>>) = Len(q) + 1
    OBVIOUS
  <1>3. (q \o <<op>>)[Len(q) + 1] = op
    OBVIOUS
  <1>4. q \o <<op>> # <<>>
    BY <1>2
  <1> QED
    BY <1>1, <1>2, <1>3, <1>4

\* The commands of a task reach the processes they name, and nobody else; one
\* that subscribes reaches no connection without a source, or it went astray.
LEMMA CommandsArrive ==
    ASSUME HostInv, HandsInv, NEW t \in Tasks, Dispatch(t), ~astray', NEW c \in Conns
    PROVE  /\ conn[c].phase \notin {"announced", "withdrawn"} =>
                queue'[c] = queue[c] \/ queue'[c] = Append(queue[c], "unsubscribe")
           /\ conn[c].phase = "announced" =>
                LET p == conn[c].proc IN
                IF p \in Named(pending[t])
                THEN /\ newest[p] # NoOne /\ queue'[c] # <<>>
                     /\ queue'[c][Len(queue'[c])] = "subscribe" <=> pending[t].subscribe = p
                ELSE queue'[c] = queue[c]
  <1> DEFINE Hit(op) == /\ pending[t][op] \in DOMAIN routes
                        /\ routes[pending[t][op]] = c /\ Served(c)
             first == IF Hit("unsubscribe") THEN <<"unsubscribe">> ELSE <<>>
             second == IF Hit("subscribe") THEN <<"subscribe">> ELSE <<>>
  <1>1. queue'[c] = (queue[c] \o first) \o second
    BY DEF Dispatch, Route
  <1>2. /\ queue[c] \in Seq(Ops) /\ "subscribe" \in Ops /\ "unsubscribe" \in Ops
        /\ pending[t] \in Commands
    BY DEF HandsInv, CommandTypes, Ops
  <1>3. ~GoesAstray(t)
    BY DEF Dispatch
  <1>4. ASSUME Hit("subscribe")
        PROVE  conn[c].phase \in {"announced", "withdrawn"}
    <2>1. /\ pending[t].subscribe \in DOMAIN routes /\ routes[pending[t].subscribe] = c
          /\ conn[c].phase \in {"introduced", "known", "announced", "withdrawn"}
      BY <1>4 DEF Served, Greeted
    <2>2. conn[c].proc = pending[t].subscribe /\ conn[c].proc # NoOne
      BY <2>1, TaskKinds DEF HostInv, RoutesAreExclusive, ConnectionsHaveProcess
    <2> QED
      BY <1>3, <2>1, <2>2 DEF GoesAstray, Named
  <1>5. ASSUME conn[c].phase = "announced", NEW op \in Ops
        PROVE  Hit(op) <=> pending[t][op] = conn[c].proc
    BY <1>5 DEF HostInv, RoutesAreExclusive, Served, Greeted
  <1>6. conn[c].phase = "announced" =>
           /\ Hit("unsubscribe") \/ Hit("subscribe") <=> conn[c].proc \in Named(pending[t])
           /\ Hit("subscribe") <=> pending[t].subscribe = conn[c].proc
    <2>1. conn[c].phase = "announced" => conn[c].proc \in Procs /\ conn[c].proc # NoOne
      BY TaskKinds DEF HostInv, ConnectionsHaveProcess
    <2> QED
      BY <1>2, <1>5, <2>1 DEF Named
  <1>7. conn[c].phase = "announced" /\ conn[c].proc \in Named(pending[t])
           => newest[conn[c].proc] # NoOne
    BY <1>3 DEF GoesAstray, HostInv, RoutesAreExclusive, Served, Greeted
  <1> HIDE DEF Hit
  <1>8. ~Hit("unsubscribe") /\ ~Hit("subscribe") => queue'[c] = queue[c]
    BY <1>1, <1>2, LastOfSent
  <1>9. ASSUME Hit("unsubscribe"), ~Hit("subscribe")
        PROVE  /\ queue'[c] = Append(queue[c], "unsubscribe") /\ queue'[c] # <<>>
               /\ queue'[c][Len(queue'[c])] = "unsubscribe"
    <2>1. queue[c] \o <<"unsubscribe">> \in Seq(Ops)
      BY <1>2, LastOfSent
    <2>2. (queue[c] \o <<"unsubscribe">>) \o <<>> = queue[c] \o <<"unsubscribe">>
      BY <1>2, <2>1, LastOfSent
    <2>3. queue'[c] = queue[c] \o <<"unsubscribe">>
      BY <1>1, <1>9, <2>2
    <2>4. Append(queue[c], "unsubscribe") = queue[c] \o <<"unsubscribe">>
      BY <1>2
    <2> QED
      BY <1>2, <2>3, <2>4, LastOfSent
  <1>10. Hit("subscribe") => queue'[c] # <<>> /\ queue'[c][Len(queue'[c])] = "subscribe"
    <2>1. queue[c] \o first \in Seq(Ops)
      BY <1>2, LastOfSent
    <2>2. Hit("subscribe") => queue'[c] = (queue[c] \o first) \o <<"subscribe">>
      BY <1>1
    <2> HIDE DEF first
    <2> QED
      BY <1>2, <2>1, <2>2, LastOfSent
  <1>11. conn[c].phase \notin {"announced", "withdrawn"} =>
            queue'[c] = queue[c] \/ queue'[c] = Append(queue[c], "unsubscribe")
    BY <1>4, <1>8, <1>9
  <1>12. ASSUME conn[c].phase = "announced"
         PROVE  IF conn[c].proc \in Named(pending[t])
                THEN /\ newest[conn[c].proc] # NoOne /\ queue'[c] # <<>>
                     /\ queue'[c][Len(queue'[c])] = "subscribe"
                          <=> pending[t].subscribe = conn[c].proc
                ELSE queue'[c] = queue[c]
    <2>1. CASE Hit("subscribe")
      BY <1>6, <1>7, <1>10, <1>12, <2>1
    <2>2. CASE ~Hit("subscribe") /\ Hit("unsubscribe")
      BY <1>6, <1>7, <1>9, <1>12, <2>2
    <2>3. CASE ~Hit("subscribe") /\ ~Hit("unsubscribe")
      BY <1>6, <1>8, <1>12, <2>3
    <2> QED
      BY <2>1, <2>2, <2>3
  <1> QED
    BY <1>11, <1>12

\* The newest command for a process is dispatched: its adapter is told whether
\* it is selected.
LEMMA DispatchKeepsSelection ==
    ASSUME HostInv, HandsInv, SelectionInv, NEW t \in Tasks, Dispatch(t)
    PROVE  SelectionInv'
  <1>1. /\ UNCHANGED <<registered, selected, link, active, routes>>
        /\ \A c \in Conns : (conn'[c] = conn[c])
                           \/ (conn'[c] = Idle /\ conn[c].phase = "closing")
        /\ astray => astray'
    BY DEF Dispatch, brokerVars, HostInv, HostTypes
  <1>2. ASSUME ~astray' PROVE UntoldBeforeAnnounced'
    <2>1. UntoldBeforeAnnounced
      BY <1>1, <1>2 DEF SelectionInv
    <2>2. ASSUME NEW c \in Conns, conn'[c].phase \notin {"announced", "withdrawn"}
          PROVE  \A i \in 1..Len(queue'[c]) : queue'[c][i] = "unsubscribe"
      <3>1. conn[c].phase \notin {"announced", "withdrawn"}
        BY <1>1, <2>2
      <3>2. /\ queue[c] \in Seq(Ops) /\ "unsubscribe" \in Ops
            /\ \A i \in 1..Len(queue[c]) : queue[c][i] = "unsubscribe"
        BY <2>1, <3>1 DEF UntoldBeforeAnnounced, HandsInv, CommandTypes, Ops
      <3>3. queue'[c] = queue[c] \/ queue'[c] = Append(queue[c], "unsubscribe")
        BY <1>2, <3>1, CommandsArrive
      <3> QED
        BY <3>2, <3>3
    <2>3. \A c \in Conns : /\ conn'[c].phase \in {"open", "introduced", "known"}
                            /\ link'[conn'[c].proc] = c
                            => conn'[c].proc \notin active'
      BY <1>1, <2>1 DEF UntoldBeforeAnnounced, Idle
    <2> QED
      BY <2>2, <2>3 DEF UntoldBeforeAnnounced
  <1>3. ASSUME ~astray' PROVE Told'
    <2>1. Told
      BY <1>1, <1>3 DEF SelectionInv
    <2>2. newest' = [p \in Procs |-> IF newest[p] = t THEN NoOne ELSE newest[p]]
      BY DEF Dispatch
    <2>3. ASSUME NEW c \in Conns, conn'[c].phase = "announced",
                 conn'[c].proc \in registered, link'[conn'[c].proc] = c,
                 newest'[conn'[c].proc] = NoOne
          PROVE  WillRun(c)' <=> conn'[c].proc = selected
      <3> DEFINE p == conn[c].proc
      <3>1. /\ conn'[c] = conn[c] /\ link[p] = c /\ conn[c].phase = "announced"
            /\ p \in Procs /\ p \in registered
        BY <1>1, <2>3 DEF Idle, HandsInv, CommandTypes
      <3>2. newest[p] = t \/ newest[p] = NoOne
        BY <2>2, <2>3, <3>1
      <3>3. CASE newest[p] = t
        <4>1. /\ p \in Named(pending[t])
              /\ pending[t].subscribe = p <=> p = selected
          BY <3>1, <3>3, TaskKinds DEF HandsInv, NewestIsHeld
        <4>2. /\ queue'[c] # <<>>
              /\ queue'[c][Len(queue'[c])] = "subscribe" <=> pending[t].subscribe = p
          BY <1>3, <3>1, <4>1, CommandsArrive
        <4> QED
          BY <3>1, <4>1, <4>2 DEF WillRun
      <3>4. CASE newest[p] = NoOne
        <4>1. queue'[c] = queue[c]
          BY <1>3, <3>1, <3>4, CommandsArrive
        <4>2. WillRun(c) <=> p = selected
          BY <2>1, <3>1, <3>4 DEF Told
        <4> QED
          BY <1>1, <3>1, <4>1, <4>2 DEF WillRun
      <3> QED
        BY <3>2, <3>3, <3>4
    <2> QED
      BY <1>1, <2>3 DEF Told
  <1> QED
    BY <1>2, <1>3 DEF SelectionInv

LEMMA SelectionNext == HostInv /\ HandsInv /\ SelectionInv /\ [Next]_vars => SelectionInv'
  <1> SUFFICES ASSUME HostInv, HandsInv, SelectionInv, [Next]_vars PROVE SelectionInv'
    OBVIOUS
  <1>1. CASE StreamStart \/ LoadDesired \/ Publish \/ UNCHANGED vars
    BY <1>1, ControlKeepsSelection
  <1>2. CASE ForegroundChanged
    <2>1. PICK t \in Tasks : t = Hook
      BY TaskKinds
    <2> QED
      BY <1>2, <2>1, ElectionsKeepSelection
  <1>3. ASSUME NEW c \in Conns, ConnectionStep(c) PROVE SelectionInv'
    BY <1>3, DeliverKeepsSelection, PhasesKeepSelection, SourcesKeepSelection
    DEF ConnectionStep
  <1>4. ASSUME NEW k \in Ctls, ControlStep(k) PROVE SelectionInv'
    <2>1. k \in Tasks
      BY TaskKinds
    <2>2. CASE ControlTell(k)
      BY <2>1, <2>2, ElectionsKeepSelection
    <2>3. CASE ControlStop(k)
      BY <2>3, StopKeepsSelection
    <2>4. CASE ~ControlTell(k) /\ ~ControlStop(k)
      BY <1>4, <2>4, ControlKeepsSelection DEF ControlStep
    <2> QED
      BY <2>2, <2>3, <2>4
  <1>5. ASSUME NEW p \in Procs, AdapterStep(p) PROVE SelectionInv'
    BY <1>5, AdaptersKeepSelection, PhasesKeepSelection DEF AdapterStep
  <1>6. ASSUME NEW t \in Tasks, Dispatch(t) PROVE SelectionInv'
    BY <1>6, DispatchKeepsSelection
  <1> QED
    BY <1>1, <1>2, <1>3, <1>4, <1>5, <1>6 DEF Next

\* In rest nobody holds a command: every adapter has been told whether it is
\* selected, and has obeyed.
LEMMA RestShowsSelection ==
    ASSUME HostInv, HandsInv, SelectionInv
    PROVE  EnginesFollowSelection
  <1> SUFFICES ASSUME Quiescent, ~astray, NEW p \in registered, link[p] # NoOne
               PROVE  p \in active <=> p = selected
    BY DEF EnginesFollowSelection
  <1>1. PICK c \in Conns : link[p] = c /\ p \in Procs /\ conn[c].proc = p
    BY DEF HandsInv, CommandTypes, Quiescent
  <1>2. conn[c].phase = "announced"
    BY <1>1, TaskKinds DEF Quiescent, Greeted, Idle, HandsInv, SourcesAreAnnounced
  <1>3. newest[p] = NoOne
    <2>1. ASSUME newest[p] # NoOne PROVE FALSE
      <3>1. newest[p] \in Tasks /\ p \in Named(pending[newest[p]])
        BY <1>1, <2>1 DEF HandsInv, CommandTypes, NewestIsHeld
      <3>2. pending[newest[p]] = Nothing
        BY <3>1 DEF Quiescent
      <3> QED
        BY <3>1, <3>2 DEF Named, Nothing
    <2> QED
      BY <2>1
  <1> QED
    BY <1>1, <1>2, <1>3 DEF SelectionInv, Told, WillRun, Quiescent

\* In rest the engines run as the broker decided last (windows_native.rs,
\* dispatch and connection), unless some adapter was sent a command that a newer
\* one for it had overtaken, or that was decided for a source of an earlier
\* connection, or a subscription before it announced its source.
THEOREM EnginesObey == Spec => []EnginesFollowSelection
  <1>1. Init => HostInv /\ HandsInv /\ SelectionInv
    BY HostInit, HandsInit, SelectionInit
  <1>2. HostInv /\ HandsInv /\ SelectionInv /\ [Next]_vars
           => (HostInv /\ HandsInv /\ SelectionInv)'
    BY HostNext, HandsNext, SelectionNext
  <1>3. HostInv /\ HandsInv /\ SelectionInv => EnginesFollowSelection
    BY RestShowsSelection
  <1> QED
    BY <1>1, <1>2, <1>3, PTL DEF Spec

-------------------------------------------------------------------------------
(* The pause.                                                                  *)

LEMMA PauseInit == Init => PauseInv
  BY DEF Init, PauseInv, AsleepBeforeUp, PausesArrive, PauseArrives, Busy, NoRequest, Idle

LEMMA StopKeepsPause ==
    ASSUME NEW k \in Ctls, ControlStop(k)
    PROVE  PauseInv'
  BY DEF ControlStop, PauseInv, AsleepBeforeUp, PausesArrive, PauseArrives, Busy,
     NoRequest, Idle

\* A step that leaves the requests, the start and the pause alone.
LEMMA QuietKeepsPause ==
    ASSUME PauseInv, UNCHANGED <<host, desired, ctl, missed, promised, paused>>,
           paused => selected' = NoOne,
           host # "up" => /\ selected' = NoOne
                          /\ \A c \in Conns : conn[c].phase = "free" => conn'[c].phase = "free"
    PROVE  PauseInv'
  <1>1. PauseArrives => PauseArrives'
    BY DEF PauseArrives
  <1>2. OnlyPauses => OnlyPauses'
    BY DEF OnlyPauses
  <1>3. AsleepBeforeUp'
    BY DEF PauseInv, AsleepBeforeUp, Busy
  <1>4. PausesArrive'
    BY <1>1, <1>2 DEF PauseInv, PausesArrive, Busy
  <1> QED
    BY <1>3, <1>4 DEF PauseInv

LEMMA ConnectionsKeepPause ==
    ASSUME HostInv, PauseInv, NEW c \in Conns, ConnectionStep(c)
    PROVE  PauseInv'
  <1>1. UNCHANGED <<host, desired, ctl, missed, promised, paused>>
    BY DEF ConnectionStep, Dismiss, Introduce, Greet, Announce, Withdraw, Leave,
       Deliver, Disconnected, BrokerCall, brokerVars
  <1>2. paused => selected' = NoOne
    <2>1. CASE Announce(c) \/ Withdraw(c) \/ Disconnected(c)
      <3>1. PICK sources : BrokerCall(c, sources, paused)
        BY <2>1 DEF Announce, Withdraw, Disconnected
      <3> QED
        BY <3>1 DEF BrokerCall
    <2>2. CASE ~(Announce(c) \/ Withdraw(c) \/ Disconnected(c))
      <3>1. selected' = selected
        BY <2>2 DEF ConnectionStep, Dismiss, Introduce, Greet, Leave, Deliver, brokerVars
      <3> QED
        BY <3>1 DEF PauseInv
    <2> QED
      BY <2>1, <2>2
  <1>3. conn[c].phase # "free"
    BY DEF ConnectionStep, Dismiss, Introduce, Greet, Announce, Withdraw, Leave,
       Ends, Deliver, Disconnected, Free, Greeted
  <1>4. host = "up"
    BY <1>3 DEF PauseInv, AsleepBeforeUp
  <1> QED
    BY <1>1, <1>2, <1>4, QuietKeepsPause

LEMMA TasksKeepPause ==
    ASSUME HostInv, PauseInv,
           \/ \E t \in Tasks : Dispatch(t)
           \/ \E p \in Procs : AdapterStep(p)
           \/ ForegroundChanged
           \/ UNCHANGED vars
    PROVE  PauseInv'
  <1>1. CASE ForegroundChanged
    <2>1. UNCHANGED <<host, desired, ctl, missed, promised, paused>> /\ host = "up"
      BY <1>1 DEF ForegroundChanged, BrokerCall
    <2>2. paused => selected' = NoOne
      BY <1>1 DEF ForegroundChanged, BrokerCall
    <2> QED
      BY <2>1, <2>2, QuietKeepsPause
  <1>2. CASE ~ForegroundChanged
    <2>1. UNCHANGED <<host, desired, ctl, missed, promised, paused, selected>>
      BY <1>2 DEF Dispatch, AdapterStep, Notice, Drop, Accept, brokerVars, vars
    <2>2. host # "up" => \A c \in Conns : conn[c].phase = "free" => conn'[c].phase = "free"
      <3>1. CASE \E t \in Tasks : Dispatch(t)
        BY <3>1 DEF Dispatch, HostInv, HostTypes, Idle
      <3>2. CASE ~\E t \in Tasks : Dispatch(t)
        BY <1>2, <3>2 DEF AdapterStep, Notice, Drop, Accept, vars
      <3> QED
        BY <3>1, <3>2
    <2>3. paused => selected = NoOne
      BY DEF PauseInv
    <2>4. host # "up" => selected = NoOne
      BY DEF PauseInv, AsleepBeforeUp
    <2> QED
      BY <2>1, <2>2, <2>3, <2>4, QuietKeepsPause
  <1> QED
    BY <1>1, <1>2

\* The worker's start: the new broker takes a pause that is wanted already.
LEMMA StartKeepsPause ==
    ASSUME PauseInv, StreamStart \/ LoadDesired \/ Publish
    PROVE  PauseInv'
  <1>1. UNCHANGED <<desired, ctl, missed, promised, conn, selected>>
    BY DEF StreamStart, LoadDesired, Publish, brokerVars
  <1>2. CASE StreamStart
    <2>1. host = "down" /\ host' = "control" /\ paused' = paused
      BY <1>2 DEF StreamStart, CreatePipe, brokerVars
    <2> QED
      BY <1>1, <2>1 DEF PauseInv, AsleepBeforeUp, PausesArrive, PauseArrives, Busy, OnlyPauses
  <1>3. CASE LoadDesired
    <2>1. host = "control" /\ host' = "loaded" /\ paused' = desired
      BY <1>3 DEF LoadDesired
    <2>2. PauseArrives => PauseArrives'
      BY <1>1, <2>1 DEF PauseArrives
    <2> QED
      BY <1>1, <2>1, <2>2 DEF PauseInv, AsleepBeforeUp, PausesArrive, Busy, OnlyPauses
  <1>4. CASE Publish
    <2>1. host = "loaded" /\ host' = "up" /\ paused' = paused
      BY <1>4 DEF Publish, brokerVars
    <2>2. PauseArrives => PauseArrives'
      BY <1>1, <2>1 DEF PauseArrives
    <2> QED
      BY <1>1, <2>1, <2>2 DEF PauseInv, AsleepBeforeUp, PausesArrive, Busy, OnlyPauses
  <1> QED
    BY <1>2, <1>3, <1>4

\* A resume or a stop takes "alone" from the pauses beside it.
LEMMA ReadKeepsPause ==
    ASSUME HandsInv, PauseInv, NEW k \in Ctls, NEW request \in Requests,
           ControlRead(k, request)
    PROVE  PauseInv'
  <1>1. /\ UNCHANGED <<host, desired, missed, paused, conn, selected>>
        /\ host # "down" /\ ctl[k].phase = "free"
        /\ ctl'[k] = [phase |-> "read", request |-> request, found |-> (host = "up"),
                      alone |-> OnlyPauses]
        /\ \A j \in Ctls \ {k} :
              ctl'[j] = [ctl[j] EXCEPT !.alone = @ /\ request = "pause"]
        /\ promised' = (promised /\ request = "pause")
    BY DEF ControlRead, brokerVars
  <1>2. /\ ctl'[k].phase = "read" /\ ctl'[k].request = request
        /\ ctl'[k].found = (host = "up") /\ (ctl'[k].alone => OnlyPauses)
    BY <1>1
  <1>3. \A j \in Ctls \ {k} : /\ ctl'[j].phase = ctl[j].phase
                              /\ ctl'[j].request = ctl[j].request
                              /\ ctl'[j].found = ctl[j].found
                              /\ ctl'[j].alone => ctl[j].alone /\ request = "pause"
    BY <1>1 DEF HandsInv, CommandTypes, ControlRecords
  <1>4. AsleepBeforeUp'
    BY <1>1, <1>2, <1>3 DEF PauseInv, AsleepBeforeUp, Busy
  <1>5. PauseArrives => PauseArrives'
    BY <1>1, <1>3 DEF PauseArrives
  <1>6. OnlyPauses /\ request = "pause" => OnlyPauses'
    BY <1>2, <1>3 DEF OnlyPauses
  <1>7. PausesArrive'
    BY <1>1, <1>2, <1>3, <1>5, <1>6 DEF PauseInv, PausesArrive, Busy
  <1> QED
    BY <1>1, <1>4, <1>7 DEF PauseInv

\* A pause is stored before the runtime that was found is told; one that found
\* none is left to the broker's start, or has missed it.
LEMMA StoreKeepsPause ==
    ASSUME HandsInv, PauseInv, NEW k \in Ctls, ControlStore(k)
    PROVE  PauseInv'
  <1>1. /\ UNCHANGED <<host, promised, paused, conn, selected>>
        /\ ctl[k].phase = "read" /\ ctl[k].request \in {"pause", "resume"}
        /\ desired' = (ctl[k].request = "pause")
        /\ missed' = (~ctl[k].found /\ host # "control")
        /\ ctl' = [ctl EXCEPT ![k].phase = IF ctl[k].found THEN "stored" ELSE "told"]
    BY DEF ControlStore, brokerVars
  <1>2. /\ \A j \in Ctls \ {k} : ctl'[j] = ctl[j]
        /\ ctl'[k].phase = IF ctl[k].found THEN "stored" ELSE "told"
        /\ ctl'[k].request = ctl[k].request /\ ctl'[k].found = ctl[k].found
        /\ ctl'[k].alone = ctl[k].alone
    BY <1>1 DEF HandsInv, CommandTypes, ControlRecords
  <1>3. AsleepBeforeUp'
    BY <1>1, <1>2 DEF PauseInv, AsleepBeforeUp, Busy
  <1>4. OnlyPauses <=> OnlyPauses'
    BY <1>1, <1>2 DEF OnlyPauses
  <1>5. OnlyPauses => ctl[k].request = "pause"
    BY <1>1 DEF OnlyPauses
  <1>6. ctl[k].request = "pause" => PauseArrives'
    BY <1>1, <1>2 DEF PauseArrives
  <1>7. PausesArrive'
    <2>1. ASSUME NEW j \in Ctls, Busy(j)', ctl'[j].alone, ctl'[j].request = "pause"
          PROVE  OnlyPauses
      <3>1. Busy(j) /\ ctl[j].alone /\ ctl[j].request = "pause"
        BY <1>1, <1>2, <2>1 DEF Busy
      <3> QED
        BY <3>1 DEF PauseInv, PausesArrive
    <2>2. ASSUME NEW j \in Ctls, ctl'[j].phase \in {"stored", "told"}, ctl'[j].alone,
                 ctl'[j].request = "pause"
          PROVE  PauseArrives'
      BY <1>5, <1>6, <2>1, <2>2 DEF Busy
    <2>3. promised' => OnlyPauses /\ PauseArrives'
      BY <1>1, <1>5, <1>6 DEF PauseInv, PausesArrive
    <2> QED
      BY <1>4, <2>1, <2>2, <2>3 DEF PausesArrive
  <1> QED
    BY <1>1, <1>3, <1>7 DEF PauseInv

\* The broker is told: of a pause only, as long as one is alone or promised.
LEMMA TellKeepsPause ==
    ASSUME HandsInv, PauseInv, NEW k \in Ctls, ControlTell(k)
    PROVE  PauseInv'
  <1>1. /\ UNCHANGED <<host, desired, missed, promised, conn>>
        /\ ctl[k].phase = "stored"
        /\ ctl' = [ctl EXCEPT ![k].phase = "told"]
        /\ paused' = (ctl[k].request = "pause")
        /\ paused' => selected' = NoOne
    BY DEF ControlTell, BrokerCall
  <1>2. /\ \A j \in Ctls \ {k} : ctl'[j] = ctl[j]
        /\ ctl'[k].phase = "told"
        /\ ctl'[k].request = ctl[k].request /\ ctl'[k].found = ctl[k].found
        /\ ctl'[k].alone = ctl[k].alone
    BY <1>1 DEF HandsInv, CommandTypes, ControlRecords
  <1>3. host = "up"
    BY <1>1 DEF PauseInv, AsleepBeforeUp, Busy
  <1>4. AsleepBeforeUp'
    BY <1>1, <1>2, <1>3 DEF PauseInv, AsleepBeforeUp
  <1>5. OnlyPauses <=> OnlyPauses'
    BY <1>1, <1>2 DEF OnlyPauses
  <1>6. OnlyPauses => ctl[k].request = "pause"
    BY <1>1 DEF OnlyPauses
  <1>7. PauseArrives /\ OnlyPauses => PauseArrives'
    BY <1>1, <1>6 DEF PauseArrives
  <1>8. PausesArrive'
    <2>1. ASSUME NEW j \in Ctls, Busy(j)', ctl'[j].alone, ctl'[j].request = "pause"
          PROVE  OnlyPauses
      <3>1. Busy(j) /\ ctl[j].alone /\ ctl[j].request = "pause"
        BY <1>1, <1>2, <2>1 DEF Busy
      <3> QED
        BY <3>1 DEF PauseInv, PausesArrive
    <2>2. ASSUME NEW j \in Ctls, ctl'[j].phase \in {"stored", "told"}, ctl'[j].alone,
                 ctl'[j].request = "pause"
          PROVE  PauseArrives'
      <3>1. OnlyPauses
        BY <2>1, <2>2 DEF Busy
      <3>2. /\ ctl[j].phase \in {"stored", "told"} /\ ctl[j].alone
            /\ ctl[j].request = "pause"
        BY <1>1, <1>2, <2>2
      <3>3. PauseArrives
        BY <3>2 DEF PauseInv, PausesArrive
      <3> QED
        BY <1>7, <3>1, <3>3
    <2>3. promised' => OnlyPauses /\ PauseArrives'
      BY <1>1, <1>7 DEF PauseInv, PausesArrive
    <2> QED
      BY <1>5, <2>1, <2>2, <2>3 DEF PausesArrive
  <1> QED
    BY <1>1, <1>4, <1>8 DEF PauseInv

\* The answer promises what a pause that was alone has brought about.
LEMMA AnswerKeepsPause ==
    ASSUME HandsInv, PauseInv, NEW k \in Ctls, ControlAnswer(k)
    PROVE  PauseInv'
  <1>1. /\ UNCHANGED <<host, desired, missed, paused, conn, selected>>
        /\ ctl[k].phase = "told"
        /\ ctl' = [ctl EXCEPT ![k] = NoRequest]
        /\ promised' = (promised \/ (ctl[k].request = "pause" /\ ctl[k].alone))
    BY DEF ControlAnswer, brokerVars
  <1>2. /\ \A j \in Ctls \ {k} : ctl'[j] = ctl[j]
        /\ ctl'[k] = NoRequest
    BY <1>1 DEF HandsInv, CommandTypes
  <1>3. AsleepBeforeUp'
    BY <1>1, <1>2 DEF PauseInv, AsleepBeforeUp, Busy, NoRequest
  <1>4. OnlyPauses => OnlyPauses'
    BY <1>2 DEF OnlyPauses, NoRequest
  <1>5. PauseArrives => PauseArrives'
    BY <1>1, <1>2 DEF PauseArrives
  <1>6. promised' => OnlyPauses /\ PauseArrives
    <2>1. CASE promised
      BY <2>1 DEF PauseInv, PausesArrive
    <2>2. CASE ctl[k].request = "pause" /\ ctl[k].alone
      BY <1>1, <2>2 DEF PauseInv, PausesArrive, Busy
    <2>3. CASE ~promised /\ ~(ctl[k].request = "pause" /\ ctl[k].alone)
      BY <1>1, <2>3
    <2> QED
      BY <2>1, <2>2, <2>3
  <1>7. PausesArrive'
    <2>1. ASSUME NEW j \in Ctls, Busy(j)'
          PROVE  j # k /\ ctl'[j] = ctl[j] /\ Busy(j)
      BY <1>2, <2>1 DEF Busy, NoRequest
    <2>2. \A j \in Ctls : ctl'[j].phase \in {"stored", "told"} => Busy(j)'
      BY DEF Busy
    <2> QED
      BY <1>4, <1>5, <1>6, <2>1, <2>2 DEF PauseInv, PausesArrive
  <1> QED
    BY <1>1, <1>3, <1>7 DEF PauseInv

LEMMA PauseNext == HostInv /\ HandsInv /\ PauseInv /\ [Next]_vars => PauseInv'
  <1> SUFFICES ASSUME HostInv, HandsInv, PauseInv, [Next]_vars PROVE PauseInv'
    OBVIOUS
  <1>1. CASE StreamStart \/ LoadDesired \/ Publish
    BY <1>1, StartKeepsPause
  <1>2. ASSUME NEW c \in Conns, ConnectionStep(c) PROVE PauseInv'
    BY <1>2, ConnectionsKeepPause
  <1>3. ASSUME NEW k \in Ctls, ControlStep(k) PROVE PauseInv'
    BY <1>3, ReadKeepsPause, StoreKeepsPause, TellKeepsPause, AnswerKeepsPause,
       StopKeepsPause DEF ControlStep
  <1>4. CASE \/ \E t \in Tasks : Dispatch(t)
             \/ \E p \in Procs : AdapterStep(p)
             \/ ForegroundChanged
             \/ UNCHANGED vars
    BY <1>4, TasksKeepPause
  <1> QED
    BY <1>1, <1>2, <1>3, <1>4 DEF Next

\* In rest an answered pause is in force, and has stopped every engine.
LEMMA RestKeepsPause ==
    ASSUME HandsInv, PauseInv, EnginesFollowSelection
    PROVE  PauseIsKept
  <1> SUFFICES ASSUME Quiescent, promised, ~missed
               PROVE  /\ paused /\ selected = NoOne
                      /\ ~astray => active \cap registered = {}
    BY DEF PauseIsKept
  <1>1. paused
    BY DEF Quiescent, PauseInv, PausesArrive, PauseArrives
  <1>2. selected = NoOne
    BY <1>1 DEF PauseInv
  <1>3. ASSUME ~astray, NEW p \in active \cap registered PROVE FALSE
    <2>1. p \in Procs /\ link[p] # NoOne
      BY DEF HandsInv, CommandTypes, ParkedWithoutLink
    <2>2. p = selected
      BY <1>3, <2>1 DEF EnginesFollowSelection
    <2> QED
      BY <1>2, <2>1, <2>2, TaskKinds
  <1> QED
    BY <1>1, <1>2, <1>3

\* A pause that was answered, and that no resume overlapped or followed, stays
\* in force (windows_native.rs, control_connection and start_named_broker),
\* unless it fell between the two steps of the broker's start.
THEOREM PauseStays == Spec => []PauseIsKept
  <1>1. Init => HostInv /\ HandsInv /\ PauseInv
    BY HostInit, HandsInit, PauseInit
  <1>2. HostInv /\ HandsInv /\ PauseInv /\ [Next]_vars => (HostInv /\ HandsInv /\ PauseInv)'
    BY HostNext, HandsNext, PauseNext
  <1>3. HandsInv /\ PauseInv /\ EnginesFollowSelection => PauseIsKept
    BY RestKeepsPause
  <1> QED
    BY <1>1, <1>2, <1>3, EnginesObey, PTL DEF Spec

===============================================================================
