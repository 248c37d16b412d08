-------------------------------- MODULE Actors --------------------------------
(***************************************************************************)
(* Actors: their creation, the restarts of their Workers, the routes their *)
(* owners hold, and the calls (control.py, node.py, core.py,               *)
(* actor_client.py, actor_state.py, actor_worker.py).                      *)
(*                                                                         *)
(* The GCS holds the lock of an Actor through the whole of a create or of  *)
(* an exit report, with the RPCs they make to the Node and to the owner;   *)
(* a request that fails is answered as retryable and sent again.  Every    *)
(* change of an Actor's route has a new route epoch, by which the owner    *)
(* orders what it is told and fences the calls of older routes: what it is *)
(* told may be late, and older than what it knows.                         *)
(*                                                                         *)
(* An Actor has one caller here, its owner.                                *)
(***************************************************************************)
EXTENDS NodeDeaths

CONSTANTS
    Actors,
    Driver,         \* the Driver's Core, an owner
    OwnerOf,        \* the Driver, or the Worker that created it
    Restarts,       \* max_restarts of each
    Calls,          \* method calls, numbered
    CallOf          \* the Actor each is made on

ASSUME ActorsAssumption ==
    /\ 0 \notin Nodes     \* it stands for none
    /\ Driver \notin Workers \cup Nodes /\ OwnerOf \in [Actors -> Workers \cup {Driver}]
    /\ Restarts \in [Actors -> Nat]
    \* only the Driver may own a restartable Actor (core.py create_actor)
    /\ \A a \in Actors : OwnerOf[a] # Driver => Restarts[a] = 0
    /\ Calls \subseteq Nat /\ IsFiniteSet(Calls) /\ CallOf \in [Calls -> Actors]
    /\ \A u \in Uses : u.actors \subseteq Actors

VARIABLES
    actor,      \* the GCS record: state, generation, route epoch, Node, frozen
                \* reservation's Node and epoch
    exited,     \* generations whose exit the GCS has accepted
    alock,      \* where the handler that holds an Actor's lock is
    pubs,       \* _node_failure_publications: Actors whose owner has yet to know
    fails,      \* Actors the handler of a Node death has yet to examine, and to publish
    worker,     \* each generation's Worker: "none", "live" or "gone"
    queue,      \* exit reports each Node has yet to see acknowledged, oldest first
    lostCalls,  \* how many RPCs failed
    client,     \* the owner's route: state, generation, epoch
    creating,   \* the owner's create: "no", "asking", "retry", "returned"
    reply,      \* its answer on its way: what the GCS read when it answered
    installs,   \* routes on their way to an owner that may arrive at any time, or never
    sequence,   \* the next sequence number of a call
    call,       \* what each call was sent with: generation, epoch, sequence
    inflight,   \* calls of the present route that are not settled
    outcome,    \* what was published of each call
    records,    \* calls a generation's mailbox knows
    ready,      \* those admitted, in order
    ran         \* executions of a generation, in order

gcsVars == <<actor, exited, alock, pubs, fails>>
workerVars == <<worker, queue>>
clientVars == <<client, creating, sequence, reply, installs>>
callVars == <<call, inflight, outcome>>
mailVars == <<records, ready, ran>>
actorVars == <<gcsVars, workerVars, lostCalls, clientVars, callVars, mailVars>>

Gens(a) == 0..Restarts[a]
NoRecord == [state |-> "none", gen |-> 0, route |-> 0, node |-> 0, target |-> 0, next |-> 0]
NoRoute == [state |-> "none", gen |-> 0, route |-> 0]
OwnerUp(a) == OwnerOf[a] = Driver \/ OwnerOf[a] \in up

ActorInit ==
    /\ actor = [a \in Actors |-> NoRecord] /\ exited = [a \in Actors |-> {}]
    /\ alock = [a \in Actors |-> "free"] /\ pubs = {}
    /\ fails = [n \in Nodes |-> [see |-> {}, tell |-> {}, on |-> FALSE]]
    /\ worker = [a \in Actors |-> [g \in Gens(a) |-> "none"]]
    /\ queue = [n \in Nodes |-> <<>>] /\ lostCalls = 0
    /\ client = [a \in Actors |-> NoRoute] /\ creating = [a \in Actors |-> "no"]
    /\ sequence = [a \in Actors |-> 0] /\ reply = [a \in Actors |-> NoRoute] /\ installs = {}
    /\ call = [c \in Calls |-> <<>>] /\ inflight = {} /\ outcome = [c \in Calls |-> {}]
    /\ records = [a \in Actors |-> [g \in Gens(a) |-> {}]]
    /\ ready = [a \in Actors |-> [g \in Gens(a) |-> <<>>]] /\ ran = ready

\* The Worker of a generation, on the Node it was reserved on.
Runs(a, g) == worker[a][g] = "live" /\ actor[a].target \in up

Snapshot(a) == [state |-> actor[a].state, gen |-> actor[a].gen, route |-> actor[a].route]

\* Bounded: an RPC that fails, or a Worker that fails to start.
Lose == lostCalls < use.lost /\ lostCalls' = lostCalls + 1
NoLoss == UNCHANGED lostCalls

-----------------------------------------------------------------------------
(* The owner's route: ActorClientTable *)

routeVars == <<client, sequence, inflight, outcome>>

\* Mutant of InstallRoute: what comes last is the route.
InstallLast(a, s) ==
    /\ client' = [client EXCEPT ![a] = s]
    /\ UNCHANGED <<sequence, inflight, outcome>>

\* install: an older route is not taken, a newer one fences the calls of older ones.
InstallRoute(a, s) ==
    IF s.route <= client[a].route
    THEN UNCHANGED routeVars
    ELSE LET fenced == {c \in inflight : CallOf[c] = a /\ call[c].route < s.route} IN
         /\ client' = [client EXCEPT ![a] = s]
         /\ sequence' = IF s.gen = client[a].gen THEN sequence ELSE [sequence EXCEPT ![a] = 0]
         /\ inflight' = inflight \ fenced
         /\ outcome' = [c \in Calls |-> outcome[c] \cup (IF c \in fenced THEN {"died"} ELSE {})]

\* An epoch the owner has with other contents is a ValueError: the route is not installed.
Accepts(a, s) == s.route = client[a].route => s = client[a]

\* An RPC that brings a route is given up: it may be applied all the same, late, or lost.
Astray(a, s) == Lose /\ installs' = installs \cup {<<a, s>>}

\* _install_snapshot, acknowledged by the owner.
Acked(a, s) == OwnerUp(a) /\ Accepts(a, s) /\ InstallRoute(a, s) /\ NoLoss /\ UNCHANGED installs

\* _install_snapshot, of which the GCS has no acknowledgement.
NotAcked(a, s) ==
    /\ Astray(a, s) \/ (NoLoss /\ UNCHANGED installs /\ (OwnerUp(a) => ~Accepts(a, s)))
    /\ UNCHANGED routeVars

\* install_actor_state, or the answer to get_actor_state: the route may long be an older one.
ReceiveLate(a, s) ==
    /\ <<a, s>> \in installs /\ OwnerUp(a) /\ InstallRoute(a, s)
    /\ installs' = installs \ {<<a, s>>}
    /\ UNCHANGED <<deathVars, gcsVars, workerVars, lostCalls, creating, reply, call, mailVars>>

\* create_actor registers a CREATING route and asks; it asks again when told to retry.
CreateActor(a) ==
    /\ a \in use.actors /\ OwnerUp(a) /\ creating[a] \in {"no", "retry"}
    /\ creating' = [creating EXCEPT ![a] = "asking"]
    /\ client' = [client EXCEPT ![a].state = IF @ = "none" THEN "CREATING" ELSE @]
    /\ UNCHANGED <<deathVars, gcsVars, workerVars, lostCalls, sequence, reply, installs, callVars, mailVars>>

\* The answer arrives.  A later generation's, or a refusal, makes the owner ask for the
\* state, which may have moved on; and a newer route may have been installed meanwhile.
TakeReply(a) ==
    LET s == reply[a] IN
    /\ s # NoRoute /\ OwnerUp(a) /\ reply' = [reply EXCEPT ![a] = NoRoute]
    /\ \/ /\ InstallRoute(a, s) /\ NoLoss
          /\ creating' = [creating EXCEPT ![a] = IF client'[a] = s THEN "returned" ELSE "retry"]
       \/ /\ Lose \/ (s.gen > 0 /\ Snapshot(a) # s /\ NoLoss)
          /\ creating' = [creating EXCEPT ![a] = "retry"] /\ UNCHANGED routeVars
    /\ UNCHANGED <<deathVars, gcsVars, workerVars, installs, call, mailVars>>

\* begin_call
Submit(c) ==
    LET a == CallOf[c] IN
    /\ OwnerUp(a) /\ call[c] = <<>> /\ creating[a] = "returned" /\ client[a].state = "ALIVE"
    /\ \A d \in Calls : CallOf[d] = a /\ d < c => call[d] # <<>>
    /\ call' = [call EXCEPT ![c] = [gen |-> client[a].gen, route |-> client[a].route, seq |-> sequence[a]]]
    /\ sequence' = [sequence EXCEPT ![a] = @ + 1]
    /\ inflight' = inflight \cup {c}
    /\ UNCHANGED <<deathVars, gcsVars, workerVars, lostCalls, client, creating, reply, installs, outcome, mailVars>>

Executed(c) ==
    LET r == ran[CallOf[c]][call[c].gen] IN \E i \in DOMAIN r : r[i] = c

\* Mutant of Publish: the answer is published whatever became of the route.
PublishAnyway(c) ==
    /\ call[c] # <<>> /\ OwnerUp(CallOf[c]) /\ Executed(c)
    /\ inflight' = inflight \ {c} /\ outcome' = [outcome EXCEPT ![c] = @ \cup {"value"}]
    /\ UNCHANGED <<deathVars, gcsVars, workerVars, lostCalls, clientVars, call, mailVars>>

\* The answer of a call arrives: can_publish, finish_call.
Publish(c) ==
    /\ c \in inflight /\ OwnerUp(CallOf[c]) /\ Executed(c)
    /\ client[CallOf[c]].state = "ALIVE" /\ client[CallOf[c]].route = call[c].route
    /\ inflight' = inflight \ {c} /\ outcome' = [outcome EXCEPT ![c] = @ \cup {"value"}]
    /\ UNCHANGED <<deathVars, gcsVars, workerVars, lostCalls, clientVars, call, mailVars>>

\* A call that failed to reach its Worker has its owner ask the GCS for the state.
QueryState(c) ==
    /\ c \in inflight /\ OwnerUp(CallOf[c]) /\ Astray(CallOf[c], Snapshot(CallOf[c]))
    /\ UNCHANGED <<deathVars, gcsVars, workerVars, routeVars, creating, reply, call, mailVars>>

\* The deadline of a call: ActorUnavailable, unless it has another outcome already.
GiveUpCall(c) ==
    /\ c \in inflight /\ OwnerUp(CallOf[c]) /\ Lose
    /\ inflight' = inflight \ {c} /\ outcome' = [outcome EXCEPT ![c] = @ \cup {"unavailable"}]
    /\ UNCHANGED <<deathVars, gcsVars, workerVars, clientVars, call, mailVars>>

-----------------------------------------------------------------------------
(* The Actor's Worker: ActorMailbox *)

\* The calls known that follow the admitted ones without a gap, in their order.
Admitted(a, g, known) ==
    LET n == CHOOSE n \in 0..Cardinality(known) :
                /\ \A i \in 0..(n - 1) : \E c \in known : call[c].seq = i
                /\ ~\E c \in known : call[c].seq = n
    IN  [i \in 1..n |-> CHOOSE c \in known : call[c].seq = i - 1]

workRest == <<deathVars, gcsVars, workerVars, lostCalls, clientVars, callVars>>

\* submit_call: a request, which may be a replay, or one its caller gave up on.
Deliver(c) ==
    LET a == CallOf[c]  g == call[c].gen IN
    /\ call[c] # <<>> /\ Runs(a, g) /\ c \notin records[a][g]
    /\ records' = [records EXCEPT ![a][g] = @ \cup {c}]
    /\ ready' = [ready EXCEPT ![a][g] = Admitted(a, g, records'[a][g])]
    /\ UNCHANGED <<workRest, ran>>

\* _drain_mailbox: one call at a time.
Execute(a, g) ==
    /\ Runs(a, g) /\ Len(ran[a][g]) < Len(ready[a][g])
    /\ ran' = [ran EXCEPT ![a][g] = Append(@, ready[a][g][Len(@) + 1])]
    /\ UNCHANGED <<workRest, records, ready>>

\* _handle_unexpected_actor_worker_exit: the Node retains the exact report.
ActorExit(a, g) ==
    /\ Runs(a, g) /\ exits < use.exits
    /\ worker' = [worker EXCEPT ![a][g] = "gone"]
    /\ queue' = [queue EXCEPT ![actor[a].target] = Append(@, <<a, g>>)]
    /\ exits' = exits + 1
    /\ UNCHANGED <<use, up, history, handler, driverVars, nodeVars, fenceVars, gcsVars, lostCalls,
                   clientVars, callVars, mailVars>>

-----------------------------------------------------------------------------
(* The GCS: ActorCoordinator and ActorRegistry *)

gcsRest == <<deathVars, queue, mailVars, call>>

\* create, of an Actor that is being created, or whose outcome is known.
BeginCreate(a) ==
    /\ creating[a] = "asking" /\ alock[a] = "free" /\ reply[a] = NoRoute
    /\ \/ /\ actor[a].state \in {"none", "CREATING"}
          /\ actor' = [actor EXCEPT ![a].state = "CREATING"]
          /\ alock' = [alock EXCEPT ![a] = IF actor[a].target = 0 THEN "choose" ELSE "reserve"]
          /\ UNCHANGED <<creating, reply>>
       \/ /\ actor[a].state = "RESTARTING" /\ creating' = [creating EXCEPT ![a] = "retry"]
          /\ UNCHANGED <<actor, alock, reply>>
       \/ /\ actor[a].state \in {"ALIVE", "DEAD"} /\ reply' = [reply EXCEPT ![a] = Snapshot(a)]
          /\ UNCHANGED <<actor, alock, creating>>
    /\ UNCHANGED <<gcsRest, exited, pubs, fails, worker, lostCalls, client, sequence, installs, inflight, outcome>>

\* _create_once: a live Node with room is chosen once, and the reservation frozen; with
\* no room now the create is to be asked again, and with no feasible Node it fails.
Choose(a) ==
    /\ alock[a] = "choose"
    /\ \/ \E n \in live :
            /\ actor' = [actor EXCEPT ![a].target = n, ![a].next = 1]
            /\ alock' = [alock EXCEPT ![a] = "reserve"]
       \/ /\ live # {} /\ UNCHANGED actor
          /\ alock' = [alock EXCEPT ![a] = "free"]
       \/ /\ actor' = [actor EXCEPT ![a].state = "DEAD", ![a].route = @ + 1]
          /\ alock' = [alock EXCEPT ![a] = "free"]
    /\ UNCHANGED <<gcsRest, exited, pubs, fails, worker, lostCalls, clientVars, inflight, outcome>>

\* reserve_actor_worker at the Node: a generation is spawned once, its answer replayed.
Spawned(a, g) == worker' = [worker EXCEPT ![a][g] = IF @ = "none" THEN "live" ELSE @]

\* finish: the Worker is accepted, or could not start, or the answer is lost.
Reserve(a) ==
    LET n == actor[a].target
        ok == [actor[a] EXCEPT !.state = "ALIVE", !.route = actor[a].next, !.node = n]
        bad == [actor[a] EXCEPT !.state = "DEAD", !.route = @ + 1] IN
    /\ alock[a] = "reserve" /\ alock' = [alock EXCEPT ![a] = "free"]
    /\ \/ /\ n \in live \cap up /\ Spawned(a, 0)
          /\ actor' = [actor EXCEPT ![a] = ok] /\ NoLoss
       \/ /\ n \in live \cap up /\ worker[a][0] = "none" /\ UNCHANGED worker /\ Lose
          /\ actor' = [actor EXCEPT ![a] = bad]
       \/ /\ n \in live \cap up /\ Spawned(a, 0) /\ Lose /\ UNCHANGED actor
       \/ /\ n \notin live \cap up /\ UNCHANGED <<worker, actor>> /\ NoLoss
    /\ UNCHANGED <<gcsRest, exited, pubs, fails, clientVars, inflight, outcome>>

\* The oldest report of a Node; the rest wait for its acknowledgement.
Reporting(n, a, g) == queue[n] # <<>> /\ Head(queue[n]) = <<a, g>> /\ n \in up /\ alock[a] = "free"

exitRest == <<deathVars, pubs, fails, worker, lostCalls, clientVars, callVars, mailVars>>

\* accept_worker_exit: only the exact live generation is reduced, once; a replay
\* goes on from where the last one stopped.
ReportExit(n, a, g) ==
    LET r == actor[a]
        next == [r EXCEPT !.node = 0, !.route = @ + 1] IN
    /\ Reporting(n, a, g)
    /\ \/ /\ g \in exited[a]
          /\ alock' = [alock EXCEPT ![a] = IF r.state = "RESTARTING" THEN "tell" ELSE "publish"]
          /\ UNCHANGED <<actor, exited>>
       \/ /\ g \notin exited[a] /\ r.state = "ALIVE" /\ r.gen = g /\ r.node = n /\ n \in live
          /\ exited' = [exited EXCEPT ![a] = @ \cup {g}]
          /\ \/ /\ g < Restarts[a]
                /\ actor' = [actor EXCEPT ![a] =
                      [next EXCEPT !.state = "RESTARTING", !.gen = g + 1, !.next = r.route + 2]]
                /\ alock' = [alock EXCEPT ![a] = "tell"]
             \/ /\ g = Restarts[a]
                /\ actor' = [actor EXCEPT ![a] = [next EXCEPT !.state = "DEAD"]]
                /\ alock' = [alock EXCEPT ![a] = "publish"]
    /\ UNCHANGED <<exitRest, queue>>

\* _install_snapshot of RESTARTING: without it the restart does not go on.
TellOwner(a) ==
    /\ alock[a] = "tell"
    /\ \/ Acked(a, Snapshot(a)) /\ alock' = [alock EXCEPT ![a] = "respawn"]
       \/ NotAcked(a, Snapshot(a)) /\ alock' = [alock EXCEPT ![a] = "free"]
    /\ UNCHANGED <<gcsRest, actor, exited, pubs, fails, worker, creating, reply>>

\* The reservation of the next generation on the same Node: publish_restart or fail_restart.
Respawn(a) ==
    LET r == actor[a]
        ok == [r EXCEPT !.state = "ALIVE", !.route = r.next, !.node = r.target]
        bad == [r EXCEPT !.state = "DEAD", !.route = r.next] IN
    /\ alock[a] = "respawn"
    /\ \/ /\ r.target \in live \cap up /\ Spawned(a, r.gen) /\ NoLoss
          /\ actor' = [actor EXCEPT ![a] = ok] /\ alock' = [alock EXCEPT ![a] = "publish"]
       \/ /\ r.target \in live \cap up /\ worker[a][r.gen] = "none" /\ UNCHANGED worker /\ Lose
          /\ actor' = [actor EXCEPT ![a] = bad] /\ alock' = [alock EXCEPT ![a] = "publish"]
       \/ /\ r.target \in live \cap up /\ Spawned(a, r.gen) /\ Lose
          /\ UNCHANGED actor /\ alock' = [alock EXCEPT ![a] = "free"]
       \/ /\ r.target \notin live \cap up /\ UNCHANGED <<worker, actor>> /\ NoLoss
          /\ alock' = [alock EXCEPT ![a] = "free"]
    /\ UNCHANGED <<gcsRest, exited, pubs, fails, clientVars, inflight, outcome>>

\* _install_snapshot of the outcome, then the acknowledgement of the report.
PublishOutcome(n, a, g) ==
    /\ alock[a] = "publish" /\ queue[n] # <<>> /\ Head(queue[n]) = <<a, g>>
    /\ alock' = [alock EXCEPT ![a] = "free"]
    /\ \/ Acked(a, Snapshot(a)) /\ queue' \in {queue, [queue EXCEPT ![n] = Tail(@)]}
       \/ NotAcked(a, Snapshot(a)) /\ UNCHANGED queue
    /\ UNCHANGED <<deathVars, actor, exited, pubs, fails, worker, creating, reply, call, mailVars>>

-----------------------------------------------------------------------------
(* A Node death: the last part of report_node_death *)

deathRest == <<processVars, history, handler, driverVars, nodeVars, fenceVars, exited, alock,
               workerVars, call, creating, reply, mailVars>>

\* The Actors on record; then each in turn, under its lock.
ListActors(n) ==
    /\ handler[n] = "actors" /\ ~fails[n].on
    /\ fails' = [fails EXCEPT ![n] =
           [see |-> {a \in Actors : actor[a].state # "none"}, tell |-> {}, on |-> TRUE]]
    /\ UNCHANGED <<deathRest, actor, pubs, lostCalls, installs, routeVars>>

\* fail_actor_on_node: an Actor routed to, or reserved on, the Node.
FailActor(n, a) ==
    /\ handler[n] = "actors" /\ a \in fails[n].see /\ alock[a] = "free"
    /\ IF actor[a].state \in {"CREATING", "ALIVE", "RESTARTING"} /\ actor[a].target = n
       THEN /\ actor' = [actor EXCEPT ![a].state = "DEAD", ![a].node = 0, ![a].next = 0,
                                      ![a].route = @ + 1]
            /\ pubs' = pubs \cup {a}
       ELSE UNCHANGED <<actor, pubs>>
    /\ fails' = [fails EXCEPT ![n].see = @ \ {a},
                              ![n].tell = IF fails[n].see = {a} THEN pubs' ELSE @]
    /\ UNCHANGED <<deathRest, lostCalls, installs, routeVars>>

\* _flush_node_failure_publications: every pending one is tried once.  What is pushed is
\* the snapshot that was kept, of a record that is DEAD for good.
TellDead(n, a) ==
    /\ handler[n] = "actors" /\ fails[n].see = {} /\ a \in fails[n].tell
    /\ fails' = [fails EXCEPT ![n].tell = @ \ {a}]
    /\ \/ Acked(a, Snapshot(a)) /\ pubs' = pubs \ {a}
       \/ NotAcked(a, Snapshot(a)) /\ UNCHANGED pubs
    /\ UNCHANGED <<deathRest, actor>>

\* node_failure_states_converged, and the answer to the Driver.
AnswerDeath(n) ==
    /\ fails[n].on /\ fails[n].see = {} /\ fails[n].tell = {}
    /\ Answer(n, pubs = {})
    /\ fails' = [fails EXCEPT ![n].on = FALSE]
    /\ UNCHANGED <<actor, exited, alock, pubs, workerVars, lostCalls, clientVars, callVars, mailVars>>

-----------------------------------------------------------------------------
ActorStep(a) ==
    \/ CreateActor(a) \/ TakeReply(a) \/ BeginCreate(a) \/ Choose(a) \/ Reserve(a) \/ TellOwner(a) \/ Respawn(a)
    \/ \E g \in Gens(a) : Execute(a, g) \/ ActorExit(a, g)
    \/ \E g \in Gens(a), n \in Nodes : ReportExit(n, a, g) \/ PublishOutcome(n, a, g)

CallStep(c) == Submit(c) \/ Publish(c) \/ QueryState(c) \/ GiveUpCall(c) \/ Deliver(c)

ActorDeath(n) == ListActors(n) \/ AnswerDeath(n) \/ \E a \in Actors : FailActor(n, a) \/ TellDead(n, a)

ActorNext ==
    \/ \E a \in Actors : ActorStep(a)
    \/ \E c \in Calls : CallStep(c)
    \/ \E m \in installs : ReceiveLate(m[1], m[2])
    \/ \E n \in Nodes : ActorDeath(n)

-----------------------------------------------------------------------------
States == {"none", "CREATING", "ALIVE", "RESTARTING", "DEAD"}
Routes == [state : States, gen : Nat, route : Nat]

ActorTypeOK ==
    /\ actor \in [Actors -> [state : States, gen : Nat, route : Nat, node : Nodes \cup {0},
                             target : Nodes \cup {0}, next : Nat]]
    /\ exited \in [Actors -> SUBSET Nat]
    /\ \A a \in Actors : exited[a] \subseteq Gens(a) /\ actor[a].gen \in Gens(a)
    /\ alock \in [Actors -> {"free", "choose", "reserve", "tell", "respawn", "publish"}]
    /\ pubs \subseteq Actors /\ lostCalls \in 0..use.lost
    /\ client \in [Actors -> Routes] /\ reply \in [Actors -> Routes] /\ installs \subseteq Actors \X Routes
    /\ creating \in [Actors -> {"no", "asking", "retry", "returned"}]
    /\ inflight \subseteq Calls
    /\ outcome \in [Calls -> SUBSET {"value", "died", "unavailable"}]

\* Once the Driver has a converged report of a Node's death no Actor is routed to it,
\* not even one whose creation was choosing its Node at the time (control.py
\* ActorCoordinator.fail_node).
DeathReachesActors ==
    \A a \in Actors :
        /\ actor[a].state \in {"CREATING", "ALIVE", "RESTARTING"} => actor[a].target \notin recorded
        /\ actor[a].node \notin recorded

\* An accepted exit the Node has yet to see acknowledged.
Owed(a) == \E n \in Nodes : \E i \in DOMAIN queue[n] : queue[n][i][1] = a /\ queue[n][i][2] \in exited[a]

OwnerKnows(a) == client[a] = Snapshot(a) \/ ~OwnerUp(a)

\* What an owner has or may yet receive of an Actor.
Given(a) == {s \in {client[a], reply[a]} \cup {m[2] : m \in {m \in installs : m[1] = a}} : s.route # 0}

\* Whatever was lost, and in whichever order the owner is told: what it has or may yet
\* receive is no newer than the record, and one route epoch never stands for two routes;
\* what is late undoes nothing of what the GCS had acknowledged: the owner has fenced
\* the old generation when the next one's Worker is reserved, and knows the outcome of an
\* exit, or of a Node's death, that is no longer owed to it (control.py fail_restart,
\* _report_worker_exit_locked, fail_node; core.py create_actor; actor_client.py install).
RoutesAgree ==
    /\ ActorTypeOK
    /\ DeathReachesActors
    /\ \A a \in Actors :
          /\ \A s \in Given(a) : s.route <= actor[a].route
          /\ \A s, t \in Given(a) \cup {Snapshot(a)} : s.route = t.route => s = t
          /\ alock[a] = "respawn" => OwnerKnows(a)
          /\ a \notin pubs /\ ~Owed(a) /\ exited[a] # {} => OwnerKnows(a)
          /\ a \notin pubs /\ actor[a].state = "DEAD" /\ actor[a].next = 0 /\ actor[a].target # 0 => OwnerKnows(a)

\* A call executes at most once, and those of one generation in the order they were
\* made, whatever was sent again or arrived late; and it has one outcome: what was
\* published as died, or unavailable, is never also published with its value
\* (actor_state.py ActorMailbox, actor_client.py can_publish).
CallsOnceInOrder ==
    /\ \A a \in Actors : \A g \in Gens(a) : \A i, j \in DOMAIN ran[a][g] :
          i < j => call[ran[a][g][i]].seq < call[ran[a][g][j]].seq
    /\ \A c \in Calls : Cardinality(outcome[c]) <= 1
=============================================================================
