--------------------------- MODULE WorkerLifecycle ---------------------------
(***************************************************************************)
(* One worker process: start, connection to RabbitMQ, channels and          *)
(* consumers, the loss of the connection and the reconnect, SIGTERM, exit.  *)
(*                                                                          *)
(* main() is task 0; the reconnect that follows the loss of connection c is *)
(* task c.  Connections are numbered in the order they open.  A promise     *)
(* that the loss of a connection rejects runs its continuation before any   *)
(* other event, so the loss and the failure of the setup are one step.      *)
(*                                                                          *)
(* Outside the code: the broker (what is not acknowledged over a channel    *)
(* that ends is queued again; a close is answered) and the platform, which  *)
(* restarts a process that failed, up to MaxRetries times.                  *)
(***************************************************************************)
EXTENDS Integers, FiniteSets

CONSTANTS
    Messages,
    MaxTries,    \* attempts of one connectRabbitMQ (10 in the code)
    MaxRetries,  \* restarts the platform grants (3 in railway.worker.toml)
    MaxLosses    \* bound: connections lost while the broker is up, outages

ASSUME LifecycleAssumption ==
    MaxTries \in Nat \ {0} /\ MaxRetries \in Nat /\ MaxLosses \in Nat

Conns == 1..(MaxLosses + 1)
None == 0
Tasks == Conns \cup {None}

VARIABLES
    broker,      \* reachable
    exit,        \* "no" while the process lives, then its exit code
    stop,        \* where gracefulShutdown is, and what it is closing
    task,        \* program counter, failed attempts and connection of a task
    conns,       \* "unused", "open" or "closed"
    channels,    \* connections whose three channels are open
    active,      \* activeConnection
    activeChans, \* the connection activeChannels belong to
    prisma,      \* activePrisma is set
    consumers,   \* connection and queue of each consumer
    loops,       \* connections a dispatch loop publishes to
    queue,       \* messages waiting
    handlers,    \* running handlers: message, connection, phase
    failures, losses,
    \* Histories: connections opened after the signal, those that dead-lettered
    \* a message no handler had seen, those open when the process exited with 0.
    late, dropped, leaked

process == <<exit, failures, leaked>>
network == <<broker, losses>>
links == <<conns, channels, active, activeChans, consumers, loops, late>>
work == <<queue, handlers, dropped>>
vars == <<process, network, stop, task, links, prisma, work>>

Off == [pc |-> "off", tries |-> 0, conn |-> None]
Running == [at |-> "no", what |-> None]
shutdownRequested == stop # Running

Started == [t \in Tasks |-> IF t = None THEN [Off EXCEPT !.pc = "redis"] ELSE Off]
Unused == [c \in Conns |-> "unused"]

Init ==
    /\ exit = "no" /\ stop = Running /\ task = Started
    /\ conns = Unused /\ channels = {} /\ active = None /\ activeChans = None
    /\ consumers = {} /\ loops = {} /\ late = {}
    /\ prisma = TRUE /\ handlers = {} /\ dropped = {} /\ leaked = {}
    /\ queue = Messages /\ broker = TRUE /\ failures = 0 /\ losses = 0

-----------------------------------------------------------------------------
(* The end of the process, and of connections and channels.                  *)

Unacked(gone) == {h.msg : h \in {x \in handlers : x.conn \in gone}}

\* process.exit(code), or an unhandled rejection: sockets close, and the
\* broker queues again what was not acknowledged.
Exit(code) ==
    /\ exit' = code
    /\ leaked' = IF code = "zero" THEN {c \in Conns : conns[c] = "open"} ELSE leaked
    /\ failures' = IF code = "one" THEN failures + 1 ELSE failures
    /\ queue' = queue \cup Unacked(channels) /\ handlers' = {}
    /\ UNCHANGED <<network, stop, task, links, prisma, dropped>>

\* Connection c is gone: its channels are too.  A handler runs on.
Drop(c) ==
    /\ conns' = [conns EXCEPT ![c] = "closed"]
    /\ channels' = channels \ {c}
    /\ queue' = queue \cup Unacked({c} \cap channels)
    /\ handlers' = {[h EXCEPT !.acks = h.acks /\ h.conn # c] : h \in handlers}

InSetup(t) == task[t].pc \in {"channels", "topology", "orders", "payments"}
Building(c) == {t \in Tasks : InSetup(t) /\ task[t].conn = c}

\* Mutant: a failed setup connects again by itself, as the close handler does.
LoseConnectionRetried(c) ==
    /\ exit = "no" /\ conns[c] = "open" /\ losses < MaxLosses
    /\ losses' = losses + 1
    /\ Drop(c) /\ active' = None
    /\ task' = [t \in Tasks |-> IF t = c \/ t \in Building(c)
                                THEN [Off EXCEPT !.pc = "connect"] ELSE task[t]]
    /\ UNCHANGED <<broker, process, stop, activeChans, consumers, loops, late, prisma, dropped>>

\* The close handler and the pending calls of the setup: a failed main() ends
\* the process, a failed reconnect too unless it is shutting down.
LoseConnection(c) ==
    /\ exit = "no" /\ conns[c] = "open"
    /\ \/ ~broker /\ UNCHANGED losses
       \/ broker /\ losses < MaxLosses /\ losses' = losses + 1
    /\ UNCHANGED broker
    /\ LET failing == Building(c) IN
       IF failing # {} /\ (None \in failing \/ ~shutdownRequested)
       THEN /\ exit' = "one" /\ failures' = failures + 1
            /\ queue' = queue \cup Unacked(channels) /\ handlers' = {}
            /\ UNCHANGED <<leaked, stop, task, links, prisma, dropped>>
       ELSE /\ Drop(c)
            /\ task' = [t \in Tasks |->
                  IF t \in failing THEN Off
                  ELSE IF t = c /\ ~shutdownRequested THEN [Off EXCEPT !.pc = "connect"]
                  ELSE task[t]]
            /\ active' = IF shutdownRequested THEN active ELSE None
            /\ UNCHANGED <<process, stop, activeChans, consumers, loops, late, prisma, dropped>>

-----------------------------------------------------------------------------
(* main, reconnect, connectRabbitMQ, setupChannelsAndConsumers.              *)

\* Mutant: the exception is only logged.
ThrowLogged(t) ==
    /\ task' = [task EXCEPT ![t] = Off]
    /\ UNCHANGED <<process, network, stop, links, prisma, work>>

\* The exception of a task: main().catch and reconnect's catch.
Throw(t) ==
    IF t = None \/ ~shutdownRequested THEN Exit("one")
    ELSE /\ task' = [task EXCEPT ![t] = Off]
         /\ UNCHANGED <<process, network, stop, links, prisma, work>>

At(t, pc) == exit = "no" /\ task[t].pc = pc
Goto(t, pc) == task' = [task EXCEPT ![t].pc = pc]

\* await activeRedis.connect()
ConnectRedis ==
    /\ At(None, "redis")
    /\ \/ Goto(None, "connect") /\ UNCHANGED <<process, network, stop, links, prisma, work>>
       \/ Throw(None)

\* One turn of connectRabbitMQ up to amqp.connect, or the loop's end.
Dial(t) ==
    /\ At(t, "connect")
    /\ \/ shutdownRequested /\ Throw(t)
       \/ /\ ~shutdownRequested /\ Goto(t, "dialing")
          /\ UNCHANGED <<process, network, stop, links, prisma, work>>

\* A connection: the caller makes it active whatever happened meanwhile.
Connected(t) ==
    /\ At(t, "dialing") /\ broker
    /\ \E c \in Conns :
        /\ conns[c] = "unused" /\ \A d \in Conns : d < c => conns[d] # "unused"
        /\ conns' = [conns EXCEPT ![c] = "open"]
        /\ active' = c
        /\ late' = IF shutdownRequested THEN late \cup {c} ELSE late
        /\ task' = [task EXCEPT ![t] = [pc |-> "channels", tries |-> 0, conn |-> c]]
    /\ UNCHANGED <<process, network, stop, channels, activeChans, consumers, loops, prisma, work>>

\* A failed attempt: sleep and try again, or give up.
Refused(t) ==
    /\ At(t, "dialing") /\ ~broker
    /\ \/ task[t].tries + 1 >= MaxTries /\ Throw(t)
       \/ /\ task[t].tries + 1 < MaxTries
          /\ task' = [task EXCEPT ![t].pc = "connect", ![t].tries = @ + 1]
          /\ UNCHANGED <<process, network, stop, links, prisma, work>>

CreateChannels(t) ==
    LET c == task[t].conn IN
    /\ At(t, "channels") /\ conns[c] = "open"
    /\ channels' = channels \cup {c} /\ activeChans' = c
    /\ Goto(t, "topology")
    /\ UNCHANGED <<process, network, stop, conns, active, consumers, loops, late, prisma, work>>

\* The rest of the setup calls the channels, which a shutdown may have closed.
ChannelsGone(t) ==
    /\ exit = "no" /\ InSetup(t) /\ task[t].pc # "channels"
    /\ task[t].conn \notin channels
    /\ Throw(t)

EnsureTopologies(t) ==
    LET c == task[t].conn IN
    /\ At(t, "topology") /\ c \in channels
    /\ loops' = loops \cup {c} /\ Goto(t, "orders")
    /\ UNCHANGED <<process, network, stop, conns, channels, active, activeChans,
                   consumers, late, prisma, work>>

Consume(t) ==
    LET c == task[t].conn IN
    /\ c \in channels
    /\ \/ At(t, "orders") /\ Goto(t, "payments") /\ consumers' = consumers \cup {<<c, "orders">>}
       \/ At(t, "payments") /\ Goto(t, "off") /\ consumers' = consumers \cup {<<c, "payments">>}
    /\ UNCHANGED <<process, network, stop, conns, channels, active, activeChans,
                   loops, late, prisma, work>>

-----------------------------------------------------------------------------
(* The consumers.                                                            *)

Deliver(m) ==
    /\ exit = "no" /\ m \in queue
    /\ \E c \in channels :
        /\ \E name \in {"orders", "payments"} : <<c, name>> \in consumers
        /\ queue' = queue \ {m}
        /\ handlers' = handlers \cup {[msg |-> m, conn |-> c, acks |-> TRUE, phase |-> "dedup"]}
    /\ UNCHANGED <<process, network, stop, task, links, prisma, dropped>>

\* After the duplicate check: handle...Message(activePrisma!, ...).  Without a
\* client it throws, and the message is rejected without requeue; a reject (or
\* ack) over a closed channel throws again and ends the process.
Take(h) ==
    /\ exit = "no" /\ h \in handlers /\ h.phase = "dedup"
    /\ \/ /\ prisma
          /\ handlers' = (handlers \ {h}) \cup {[h EXCEPT !.phase = "work"]}
          /\ UNCHANGED <<process, network, stop, task, links, prisma, queue, dropped>>
       \/ /\ ~prisma /\ h.acks
          /\ handlers' = handlers \ {h} /\ dropped' = dropped \cup {h.conn}
          /\ UNCHANGED <<process, network, stop, task, links, prisma, queue>>
       \/ ~prisma /\ ~h.acks /\ Exit("one")

\* The handler returns or throws: ack or reject.
Settle(h) ==
    /\ exit = "no" /\ h \in handlers /\ h.phase = "work"
    /\ \/ /\ h.acks /\ handlers' = handlers \ {h}
          /\ UNCHANGED <<process, network, stop, task, links, prisma, queue, dropped>>
       \/ ~h.acks /\ Exit("one")

-----------------------------------------------------------------------------
(* gracefulShutdown, one step up to each await.                              *)

\* Mutant: the database goes before the channels.
SignalDatabaseFirst ==
    /\ exit = "no" /\ ~shutdownRequested
    /\ stop' = [at |-> "channels", what |-> activeChans] /\ prisma' = FALSE
    /\ UNCHANGED <<process, network, task, links, work>>

Signal ==
    /\ exit = "no" /\ ~shutdownRequested
    /\ stop' = [at |-> "channels", what |-> activeChans]
    /\ UNCHANGED <<process, network, task, links, prisma, work>>

\* What the signal found in activeChannels is closed; what a setup has put
\* there since is forgotten.
CloseChannels ==
    /\ exit = "no" /\ stop.at = "channels"
    /\ channels' = channels \ {stop.what} /\ activeChans' = None
    /\ queue' = queue \cup Unacked({stop.what} \cap channels)
    /\ handlers' = {[h EXCEPT !.acks = h.acks /\ h.conn # stop.what] : h \in handlers}
    /\ stop' = IF active = None THEN [at |-> "prisma", what |-> None]
               ELSE [at |-> "connection", what |-> active]
    /\ UNCHANGED <<process, network, task, conns, active, consumers, loops, late, prisma, dropped>>

\* The setup that was using the connection fails; the close handler returns.
CloseConnection ==
    LET c == stop.what
        failing == Building(c)
    IN
    /\ exit = "no" /\ stop.at = "connection"
    /\ IF None \in failing THEN Exit("one")
       ELSE /\ Drop(c)
            /\ task' = [t \in Tasks |-> IF t \in failing THEN Off ELSE task[t]]
            /\ active' = None
            /\ stop' = [at |-> "prisma", what |-> None]
            /\ UNCHANGED <<process, network, activeChans, consumers, loops, late, prisma, dropped>>

DisconnectPrisma ==
    /\ exit = "no" /\ stop.at = "prisma"
    /\ prisma' = FALSE /\ stop' = [at |-> "redis", what |-> None]
    /\ UNCHANGED <<process, network, task, links, work>>

QuitRedis ==
    /\ exit = "no" /\ stop.at = "redis"
    /\ Exit("zero")

-----------------------------------------------------------------------------
(* The broker and the platform.                                              *)

Outage ==
    /\ broker /\ losses < MaxLosses
    /\ broker' = FALSE /\ losses' = losses + 1
    /\ UNCHANGED <<process, stop, task, links, prisma, work>>

BackUp ==
    /\ ~broker /\ (exit = "no" => \A c \in Conns : conns[c] # "open")
    /\ broker' = TRUE
    /\ UNCHANGED <<process, losses, stop, task, links, prisma, work>>

Restart ==
    /\ exit = "one" /\ failures <= MaxRetries
    /\ exit' = "no" /\ stop' = Running /\ task' = Started
    /\ conns' = Unused /\ channels' = {} /\ active' = None /\ activeChans' = None
    /\ consumers' = {} /\ loops' = {} /\ late' = {}
    /\ prisma' = TRUE /\ handlers' = {} /\ dropped' = {} /\ leaked' = {}
    /\ UNCHANGED <<network, failures, queue>>

TaskStep(t) ==
    \/ Dial(t) \/ Connected(t) \/ Refused(t)
    \/ CreateChannels(t) \/ ChannelsGone(t) \/ EnsureTopologies(t) \/ Consume(t)
Handling == \E h \in handlers : Take(h) \/ Settle(h)
Stopping == CloseChannels \/ CloseConnection \/ DisconnectPrisma \/ QuitRedis

Next ==
    \/ ConnectRedis \/ \E t \in Tasks : TaskStep(t)
    \/ \E m \in Messages : Deliver(m)
    \/ Handling \/ Signal \/ Stopping
    \/ \E c \in Conns : LoseConnection(c)
    \/ Outage \/ BackUp \/ Restart

\* The event loop runs what it has queued; connection attempts end; the
\* platform restarts what it has decided to restart.
Fairness ==
    /\ WF_vars(ConnectRedis) /\ \A t \in Tasks : WF_vars(TaskStep(t))
    /\ WF_vars(Handling) /\ WF_vars(Stopping) /\ WF_vars(Restart)

Spec == Init /\ [][Next]_vars /\ Fairness
=============================================================================
