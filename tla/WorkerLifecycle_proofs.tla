------------------------ MODULE WorkerLifecycle_proofs ------------------------
(* Proofs about WorkerLifecycle for any number of messages, attempts,        *)
(* restarts, outages and lost connections.                                   *)
EXTENDS WorkerLifecycleProperties, FiniteSetTheorems, TLAPS

-----------------------------------------------------------------------------
(* The inductive invariant.                                                  *)

Setup == {"channels", "topology", "orders", "payments"}
TaskSet == [pc : {"off", "redis", "connect", "dialing"} \cup Setup,
            tries : 0..MaxTries, conn : Tasks]
StopSet == [at : {"no", "channels", "connection", "prisma", "redis"}, what : Tasks]
HandlerSet == [msg : Messages, conn : Conns, acks : BOOLEAN, phase : {"dedup", "work"}]

ProcessTyped ==
    /\ broker \in BOOLEAN /\ exit \in {"no", "zero", "one"}
    /\ stop \in StopSet /\ (stop.at = "no" => stop = Running)
    /\ stop.at = "connection" => stop.what \in Conns
    /\ task \in [Tasks -> TaskSet] /\ prisma \in BOOLEAN

LinksTyped ==
    /\ conns \in [Conns -> {"unused", "open", "closed"}]
    /\ channels \subseteq Conns /\ active \in Tasks /\ activeChans \in Tasks
    /\ consumers \subseteq Conns \X {"orders", "payments"} /\ loops \subseteq Conns

WorkTyped == queue \subseteq Messages /\ handlers \subseteq HandlerSet

\* A task that is not off is the only one, and an open connection is the one
\* it builds on.
OneTask ==
    exit = "no" => \A t, u \in Tasks : task[t].pc # "off" /\ task[u].pc # "off" => t = u

OneOpen == \A c, d \in Conns : conns[c] = "open" /\ conns[d] = "open" => c = d

TaskTrue(r, cs) ==
    /\ r.pc # "off" => \A c \in Conns : cs[c] = "open" => r.pc \in Setup /\ r.conn = c
    /\ r.pc \in Setup => \E c \in Conns : r.conn = c /\ cs[c] = "open"

TasksTrue == exit = "no" => \A t \in Tasks : TaskTrue(task[t], conns)

\* Channels are those of open connections, and an ack needs one.
ChannelsTrue ==
    /\ \A c \in channels : conns[c] = "open"
    /\ \A h \in handlers : h.acks => h.conn \in channels

\* gracefulShutdown has yet to close every connection it could have known.
Known ==
    exit = "no" => \A c \in Conns :
        conns[c] = "open" /\ c \notin late =>
            \/ stop.at \in {"no", "channels"} /\ active = c
            \/ stop.at = "connection" /\ stop.what = c

PrismaLast == exit = "no" => prisma \/ stop.at = "redis"

LifecycleInv == /\ ProcessTyped /\ LinksTyped /\ WorkTyped /\ OneTask /\ OneOpen
                /\ TasksTrue /\ ChannelsTrue /\ Known /\ PrismaLast
                /\ OnlyLateConnectionsSuffer

-----------------------------------------------------------------------------
(* Facts about the data.                                                     *)

LEMMA ConnsAreTasks ==
  /\ None \in Tasks /\ None \notin Conns /\ \A c \in Conns : c \in Tasks
  /\ 1 \in Conns
  BY LifecycleAssumption DEF Tasks, Conns, None

LEMMA OffTyped == Off \in TaskSet /\ Off.pc = "off"
  BY LifecycleAssumption, ConnsAreTasks DEF Off, TaskSet

LEMMA RunningTyped == Running \in StopSet /\ Running.at = "no"
  BY ConnsAreTasks DEF Running, StopSet

LEMMA UnackedTyped ==
  ASSUME handlers \subseteq HandlerSet, NEW gone
  PROVE  Unacked(gone) \subseteq Messages
  BY DEF Unacked, HandlerSet

-----------------------------------------------------------------------------
(* Steps that several actions share.                                         *)

LEMMA ExitKeeps ==
  ASSUME LifecycleInv, NEW code \in {"one", "zero"}, Exit(code),
         code = "zero" => \A c \in Conns : conns[c] = "open" => c \in late
  PROVE  LifecycleInv'
  <1> USE DEF LifecycleInv
  <1>1. /\ exit' = code /\ handlers' = {} /\ queue' = queue \cup Unacked(channels)
        /\ UNCHANGED <<broker, stop, task, conns, channels, active, activeChans,
                       consumers, loops, late, prisma, dropped>>
        /\ leaked' = IF code = "zero" THEN {c \in Conns : conns[c] = "open"} ELSE leaked
    BY DEF Exit, network, links
  <1>2. exit' # "no"
    BY <1>1
  <1>3. ProcessTyped' /\ LinksTyped'
    BY <1>1 DEF ProcessTyped, LinksTyped
  <1>4. WorkTyped'
    BY <1>1, UnackedTyped DEF WorkTyped
  <1>5. OneTask' /\ TasksTrue' /\ Known' /\ PrismaLast'
    BY <1>2 DEF OneTask, TasksTrue, Known, PrismaLast
  <1>6. OneOpen' /\ ChannelsTrue'
    BY <1>1 DEF OneOpen, ChannelsTrue
  <1>7. OnlyLateConnectionsSuffer'
    BY <1>1 DEF OnlyLateConnectionsSuffer
  <1> QED BY <1>3, <1>4, <1>5, <1>6, <1>7

\* A task moves on, or ends, and leaves the connections alone.
LEMMA TaskKeeps ==
  ASSUME LifecycleInv, NEW t \in Tasks, NEW r \in TaskSet,
         task' = [task EXCEPT ![t] = r], task[t].pc # "off",
         \/ r.pc = "off"
         \/ r.pc \in Setup /\ task[t].pc \in Setup /\ r.conn = task[t].conn
         \/ r.pc \notin Setup /\ task[t].pc \notin Setup,
         exit = "no", UNCHANGED <<exit, stop, broker, prisma, conns, late>>
  PROVE  ProcessTyped' /\ OneTask' /\ OneOpen' /\ TasksTrue'
  <1> USE DEF LifecycleInv
  <1>1. ProcessTyped'
    BY DEF ProcessTyped
  <1>2. task \in [Tasks -> TaskSet]
    BY DEF ProcessTyped
  <1>3. task'[t] = r /\ \A u \in Tasks : u # t => task'[u] = task[u]
    BY <1>2
  <1>4. \A u \in Tasks : task[u].pc # "off" => u = t
    BY DEF OneTask
  <1>5. OneTask'
    BY <1>3, <1>4 DEF OneTask
  <1>6. OneOpen'
    BY DEF OneOpen
  <1>7. TaskTrue(r, conns)
    BY DEF TasksTrue, TaskTrue, Setup
  <1>8. TasksTrue'
    BY <1>3, <1>7 DEF TasksTrue
  <1> QED BY <1>1, <1>5, <1>6, <1>8

\* The rest, when no connection opens or closes.
LEMMA RestKeeps ==
  ASSUME LifecycleInv, exit = "no",
         UNCHANGED <<exit, stop, prisma, conns, active, late, handlers, dropped, leaked>>,
         channels \subseteq channels', \A c \in channels' : conns[c] = "open"
  PROVE  ChannelsTrue' /\ Known' /\ PrismaLast' /\ OnlyLateConnectionsSuffer'
  BY DEF LifecycleInv, ChannelsTrue, Known, PrismaLast, OnlyLateConnectionsSuffer

LEMMA ThrowKeeps ==
  ASSUME LifecycleInv, NEW t \in Tasks, exit = "no", task[t].pc # "off", Throw(t)
  PROVE  LifecycleInv'
  <1>1. CASE Exit("one")
    BY <1>1, ExitKeeps
  <1>2. CASE /\ task' = [task EXCEPT ![t] = Off]
             /\ UNCHANGED <<process, network, stop, links, prisma, work>>
    <2>1. UNCHANGED <<exit, leaked, broker, stop, prisma, conns, channels, active,
                      activeChans, consumers, loops, late, queue, handlers, dropped>>
      BY <1>2 DEF process, network, links, work
    <2>2. ProcessTyped' /\ OneTask' /\ OneOpen' /\ TasksTrue'
      BY <1>2, <2>1, OffTyped, TaskKeeps
    <2>3. \A c \in channels : conns[c] = "open"
      BY DEF LifecycleInv, ChannelsTrue
    <2>4. ChannelsTrue' /\ Known' /\ PrismaLast' /\ OnlyLateConnectionsSuffer'
      BY <2>1, <2>3, RestKeeps
    <2>5. LinksTyped' /\ WorkTyped'
      BY <2>1 DEF LifecycleInv, LinksTyped, WorkTyped
    <2> QED BY <2>2, <2>4, <2>5 DEF LifecycleInv
  <1> QED BY <1>1, <1>2 DEF Throw

-----------------------------------------------------------------------------
(* main, reconnect, connectRabbitMQ and the setup.                           *)

\* A step of one task that opens and closes no connection.
LEMMA StepKeeps ==
  ASSUME LifecycleInv, NEW t \in Tasks, NEW r \in TaskSet,
         task' = [task EXCEPT ![t] = r], task[t].pc # "off",
         \/ r.pc = "off"
         \/ r.pc \in Setup /\ task[t].pc \in Setup /\ r.conn = task[t].conn
         \/ r.pc \notin Setup /\ task[t].pc \notin Setup,
         exit = "no",
         UNCHANGED <<exit, leaked, broker, stop, prisma, conns, active, late,
                     queue, handlers, dropped>>,
         channels \subseteq channels', channels' \subseteq Conns,
         \A c \in channels' : conns[c] = "open",
         activeChans' \in Tasks, loops' \subseteq Conns,
         consumers' \subseteq Conns \X {"orders", "payments"}
  PROVE  LifecycleInv'
  <1>1. ProcessTyped' /\ OneTask' /\ OneOpen' /\ TasksTrue'
    BY TaskKeeps
  <1>2. ChannelsTrue' /\ Known' /\ PrismaLast' /\ OnlyLateConnectionsSuffer'
    BY RestKeeps
  <1>3. LinksTyped' /\ WorkTyped'
    BY DEF LifecycleInv, LinksTyped, WorkTyped
  <1> QED BY <1>1, <1>2, <1>3 DEF LifecycleInv

LEMMA TaskOf ==
  ASSUME LifecycleInv, NEW t \in Tasks
  PROVE  task[t] \in TaskSet
  BY DEF LifecycleInv, ProcessTyped

LEMMA LinksAsTheyWere ==
  ASSUME LifecycleInv
  PROVE  /\ channels \subseteq Conns /\ activeChans \in Tasks /\ loops \subseteq Conns
         /\ consumers \subseteq Conns \X {"orders", "payments"}
         /\ \A c \in channels : conns[c] = "open"
  BY DEF LifecycleInv, LinksTyped, ChannelsTrue

LEMMA MoveOnKeeps ==
  ASSUME LifecycleInv, NEW t \in Tasks, NEW r \in TaskSet,
         task' = [task EXCEPT ![t] = r], task[t].pc # "off",
         \/ r.pc = "off"
         \/ r.pc \in Setup /\ task[t].pc \in Setup /\ r.conn = task[t].conn
         \/ r.pc \notin Setup /\ task[t].pc \notin Setup,
         exit = "no", UNCHANGED <<process, network, stop, links, prisma, work>>
  PROVE  LifecycleInv'
  <1>1. UNCHANGED <<exit, leaked, broker, stop, prisma, conns, channels, active,
                    activeChans, consumers, loops, late, queue, handlers, dropped>>
    BY DEF process, network, links, work
  <1> QED BY <1>1, LinksAsTheyWere, StepKeeps

LEMMA DialKeeps ==
  ASSUME LifecycleInv, NEW t \in Tasks, Dial(t) PROVE LifecycleInv'
  <1>1. exit = "no" /\ task[t].pc = "connect"
    BY DEF Dial, At
  <1>2. CASE Throw(t)
    BY <1>1, <1>2, ThrowKeeps
  <1>3. CASE /\ Goto(t, "dialing")
             /\ UNCHANGED <<process, network, stop, links, prisma, work>>
    <2> DEFINE r == [task[t] EXCEPT !.pc = "dialing"]
    <2>1. r \in TaskSet /\ r.pc = "dialing"
      BY TaskOf DEF TaskSet
    <2>2. task' = [task EXCEPT ![t] = r]
      BY <1>3 DEF Goto
    <2>3. r.pc \notin Setup /\ task[t].pc \notin Setup
      BY <1>1, <2>1 DEF Setup
    <2> HIDE DEF r
    <2> QED BY <1>1, <1>3, <2>1, <2>2, <2>3, MoveOnKeeps
  <1> QED BY <1>2, <1>3 DEF Dial

LEMMA RedisKeeps ==
  ASSUME LifecycleInv, ConnectRedis PROVE LifecycleInv'
  <1> DEFINE t == None
  <1>1. exit = "no" /\ task[t].pc = "redis" /\ t \in Tasks
    BY ConnsAreTasks DEF ConnectRedis, At
  <1>2. CASE Throw(t)
    BY <1>1, <1>2, ThrowKeeps
  <1>3. CASE /\ Goto(t, "connect")
             /\ UNCHANGED <<process, network, stop, links, prisma, work>>
    <2> DEFINE r == [task[t] EXCEPT !.pc = "connect"]
    <2>1. r \in TaskSet /\ r.pc = "connect"
      BY <1>1, TaskOf DEF TaskSet
    <2>2. task' = [task EXCEPT ![t] = r]
      BY <1>3 DEF Goto
    <2>3. r.pc \notin Setup /\ task[t].pc \notin Setup
      BY <1>1, <2>1 DEF Setup
    <2> HIDE DEF r, t
    <2> QED BY <1>1, <1>3, <2>1, <2>2, <2>3, MoveOnKeeps
  <1> QED BY <1>2, <1>3 DEF ConnectRedis

LEMMA RefusedKeeps ==
  ASSUME LifecycleInv, NEW t \in Tasks, Refused(t) PROVE LifecycleInv'
  <1>1. exit = "no" /\ task[t].pc = "dialing"
    BY DEF Refused, At
  <1>2. CASE Throw(t)
    BY <1>1, <1>2, ThrowKeeps
  <1>3. CASE /\ task[t].tries + 1 < MaxTries
             /\ task' = [task EXCEPT ![t].pc = "connect", ![t].tries = @ + 1]
             /\ UNCHANGED <<process, network, stop, links, prisma, work>>
    <2> DEFINE n == task[t].tries + 1
               r == [task[t] EXCEPT !.pc = "connect", !.tries = n]
    <2>1. n \in 0..MaxTries
      BY <1>3, TaskOf, LifecycleAssumption DEF TaskSet
    <2>2. task' = [task EXCEPT ![t] = r]
      BY <1>3 DEF LifecycleInv, ProcessTyped
    <2> HIDE DEF n
    <2>3. r \in TaskSet /\ r.pc = "connect"
      <3>1. task[t] \in TaskSet
        BY TaskOf
      <3> QED BY <2>1, <3>1 DEF TaskSet
    <2>4. r.pc \notin Setup /\ task[t].pc \notin Setup
      BY <1>1, <2>3 DEF Setup
    <2> HIDE DEF r
    <2> QED BY <1>1, <1>3, <2>2, <2>3, <2>4, MoveOnKeeps
  <1> QED BY <1>2, <1>3 DEF Refused

LEMMA ChannelsKeep ==
  ASSUME LifecycleInv, NEW t \in Tasks, CreateChannels(t) PROVE LifecycleInv'
  <1> DEFINE c == task[t].conn
             r == [task[t] EXCEPT !.pc = "topology"]
  <1>1. /\ exit = "no" /\ task[t].pc = "channels" /\ conns[c] = "open"
        /\ channels' = channels \cup {c} /\ activeChans' = c
        /\ task' = [task EXCEPT ![t] = r]
        /\ UNCHANGED <<exit, leaked, broker, stop, prisma, conns, active,
                       consumers, loops, late, queue, handlers, dropped>>
    BY DEF CreateChannels, At, Goto, process, network, work
  <1>2. r \in TaskSet /\ r.pc = "topology" /\ r.conn = task[t].conn
    BY TaskOf DEF TaskSet, Setup
  <1>3. r.pc \in Setup /\ task[t].pc \in Setup
    BY <1>1, <1>2 DEF Setup
  <1>4. c \in Conns
    BY <1>1, <1>3 DEF LifecycleInv, TasksTrue, TaskTrue
  <1> HIDE DEF r
  <1> QED BY <1>1, <1>2, <1>3, <1>4, ConnsAreTasks, LinksAsTheyWere, StepKeeps

LEMMA GoneKeeps ==
  ASSUME LifecycleInv, NEW t \in Tasks, ChannelsGone(t) PROVE LifecycleInv'
  BY ThrowKeeps DEF ChannelsGone, InSetup

LEMMA TopologiesKeep ==
  ASSUME LifecycleInv, NEW t \in Tasks, EnsureTopologies(t) PROVE LifecycleInv'
  <1> DEFINE r == [task[t] EXCEPT !.pc = "orders"]
  <1>1. /\ exit = "no" /\ task[t].pc = "topology" /\ task[t].conn \in channels
        /\ loops' = loops \cup {task[t].conn}
        /\ task' = [task EXCEPT ![t] = r]
        /\ UNCHANGED <<exit, leaked, broker, stop, prisma, conns, channels, active,
                       activeChans, consumers, late, queue, handlers, dropped>>
    BY DEF EnsureTopologies, At, Goto, process, network, work
  <1>2. r \in TaskSet /\ r.pc = "orders" /\ r.conn = task[t].conn
    BY TaskOf DEF TaskSet, Setup
  <1>3. r.pc \in Setup /\ task[t].pc \in Setup
    BY <1>1, <1>2 DEF Setup
  <1> HIDE DEF r
  <1> QED BY <1>1, <1>2, <1>3, LinksAsTheyWere, StepKeeps

LEMMA ConsumeKeeps ==
  ASSUME LifecycleInv, NEW t \in Tasks, Consume(t) PROVE LifecycleInv'
  <1>1. PICK pc \in {"payments", "off"}, name \in {"orders", "payments"} :
          /\ exit = "no" /\ task[t].pc \in {"orders", "payments"}
          /\ task[t].conn \in channels
          /\ consumers' = consumers \cup {<<task[t].conn, name>>}
          /\ task' = [task EXCEPT ![t].pc = pc]
          /\ UNCHANGED <<exit, leaked, broker, stop, prisma, conns, channels, active,
                         activeChans, loops, late, queue, handlers, dropped>>
    BY DEF Consume, At, Goto, process, network, work
  <1> DEFINE r == [task[t] EXCEPT !.pc = pc]
  <1>2. r \in TaskSet /\ r.pc = pc /\ r.conn = task[t].conn
    BY TaskOf DEF TaskSet, Setup
  <1>3. (r.pc = "off" \/ r.pc \in Setup) /\ task[t].pc \in Setup
    BY <1>1, <1>2 DEF Setup
  <1>4. task' = [task EXCEPT ![t] = r]
    BY <1>1
  <1>5. task[t].conn \in Conns
    BY <1>1, LinksAsTheyWere
  <1>6. consumers' \subseteq Conns \X {"orders", "payments"}
    BY <1>1, <1>5, LinksAsTheyWere
  <1>7. task[t].pc # "off"
    BY <1>1
  <1> HIDE DEF r
  <1> QED BY <1>1, <1>2, <1>3, <1>4, <1>6, <1>7, LinksAsTheyWere, StepKeeps

LEMMA ConnectedKeeps ==
  ASSUME LifecycleInv, NEW t \in Tasks, Connected(t) PROVE LifecycleInv'
  <1>1. PICK c \in Conns :
          /\ conns[c] = "unused"
          /\ conns' = [conns EXCEPT ![c] = "open"] /\ active' = c
          /\ late' = IF shutdownRequested THEN late \cup {c} ELSE late
          /\ task' = [task EXCEPT ![t] = [pc |-> "channels", tries |-> 0, conn |-> c]]
    BY DEF Connected
  <1>2. /\ exit = "no" /\ task[t].pc = "dialing"
        /\ UNCHANGED <<exit, leaked, broker, stop, prisma, channels, activeChans,
                       consumers, loops, queue, handlers, dropped>>
    BY DEF Connected, At, process, network, work
  <1> DEFINE r == [pc |-> "channels", tries |-> 0, conn |-> c]
  <1>3. r \in TaskSet /\ r.pc = "channels" /\ r.conn = c
    BY LifecycleAssumption, ConnsAreTasks DEF TaskSet, Setup
  <1>4. task' = [task EXCEPT ![t] = r]
    BY <1>1
  <1> HIDE DEF r
  <1>5. task[t].pc # "off" /\ task[t].pc \notin Setup
    BY <1>2 DEF Setup
  <1>6. \A d \in Conns : conns[d] # "open"
    BY <1>2, <1>5 DEF LifecycleInv, TasksTrue, TaskTrue
  <1>7. conns'[c] = "open" /\ \A d \in Conns : conns'[d] = "open" => d = c
    BY <1>1, <1>6 DEF LifecycleInv, LinksTyped
  <1>8. task'[t] = r /\ \A u \in Tasks : u # t => task'[u] = task[u] /\ task[u].pc = "off"
    BY <1>2, <1>4, <1>5 DEF LifecycleInv, ProcessTyped, OneTask
  <1>9. ProcessTyped'
    BY <1>2, <1>3, <1>4 DEF LifecycleInv, ProcessTyped
  <1>10. LinksTyped' /\ WorkTyped'
    BY <1>1, <1>2, ConnsAreTasks DEF LifecycleInv, LinksTyped, WorkTyped
  <1>11. OneTask' /\ OneOpen'
    BY <1>7, <1>8 DEF OneTask, OneOpen
  <1>12. TasksTrue'
    <2>1. TaskTrue(r, conns')
      BY <1>3, <1>7 DEF TaskTrue, Setup
    <2>2. ASSUME NEW u \in Tasks, u # t PROVE TaskTrue(task'[u], conns')
      BY <1>8, <2>2 DEF TaskTrue, Setup
    <2> QED BY <1>8, <2>1, <2>2 DEF TasksTrue
  <1>13. channels = {}
    BY <1>6, LinksAsTheyWere
  <1>14. ChannelsTrue'
    BY <1>2, <1>13 DEF LifecycleInv, ChannelsTrue
  <1>15. Known'
    <2>1. CASE shutdownRequested
      BY <1>1, <1>7, <2>1 DEF Known
    <2>2. CASE ~shutdownRequested
      <3>1. stop'.at = "no"
        BY <1>2, <2>2, RunningTyped DEF shutdownRequested
      <3> QED BY <1>1, <1>7, <3>1 DEF Known
    <2> QED BY <2>1, <2>2
  <1>16. PrismaLast' /\ OnlyLateConnectionsSuffer'
    BY <1>1, <1>2 DEF LifecycleInv, PrismaLast, OnlyLateConnectionsSuffer
  <1> QED BY <1>9, <1>10, <1>11, <1>12, <1>14, <1>15, <1>16 DEF LifecycleInv

-----------------------------------------------------------------------------
(* The loss and the end of connections and channels.                         *)

\* A handler that can ack no more over the channels that are gone.
Cut(gone) == {[h EXCEPT !.acks = h.acks /\ h.conn # gone] : h \in handlers}

LEMMA CutEffect ==
  ASSUME handlers \subseteq HandlerSet, NEW gone,
         NEW hs, hs = Cut(gone)
  PROVE  /\ hs \subseteq HandlerSet
         /\ \A x \in hs : \E h \in handlers :
               x.conn = h.conn /\ (x.acks => h.acks /\ h.conn # gone)
  <1>1. ASSUME NEW h \in handlers, NEW x, x = [h EXCEPT !.acks = h.acks /\ h.conn # gone]
        PROVE  /\ x \in HandlerSet /\ x.conn = h.conn
               /\ x.acks => h.acks /\ h.conn # gone
    <2>1. h \in HandlerSet
      OBVIOUS
    <2> DEFINE b == h.acks /\ h.conn # gone
    <2>2. b \in BOOLEAN
      OBVIOUS
    <2> HIDE DEF b
    <2>3. x = [h EXCEPT !.acks = b]
      BY <1>1 DEF b
    <2>4. x \in HandlerSet /\ x.conn = h.conn /\ x.acks = b
      BY <2>1, <2>2, <2>3 DEF HandlerSet
    <2> QED BY <2>4 DEF b
  <1> QED BY <1>1 DEF Cut

\* Connection c closes; the tasks that built on it end, and task u may begin
\* to connect if there is no other.
LEMMA DropKeeps ==
  ASSUME LifecycleInv, exit = "no", NEW c \in Conns, Drop(c),
         NEW u \in Tasks, conns[c] = "open" \/ task' = [t \in Tasks |->
            IF t \in Building(c) THEN Off ELSE task[t]],
         \/ task' = [t \in Tasks |-> IF t \in Building(c) THEN Off ELSE task[t]]
         \/ task' = [t \in Tasks |-> IF t \in Building(c) THEN Off
                                     ELSE IF t = u THEN [Off EXCEPT !.pc = "connect"]
                                     ELSE task[t]],
         UNCHANGED <<exit, broker, prisma, activeChans, consumers, loops, late>>,
         stop' \in StopSet, stop'.at = "no" => stop' = Running,
         stop'.at = "connection" => stop'.what \in Conns, active' \in Tasks
  PROVE  /\ ProcessTyped' /\ LinksTyped' /\ WorkTyped' /\ OneTask' /\ OneOpen'
         /\ TasksTrue' /\ ChannelsTrue'
         /\ conns' = [conns EXCEPT ![c] = "closed"]
  <1> USE DEF LifecycleInv
  <1>1. /\ conns' = [conns EXCEPT ![c] = "closed"] /\ channels' = channels \ {c}
        /\ queue' = queue \cup Unacked({c} \cap channels)
        /\ handlers' = Cut(c)
    BY DEF Drop, Cut
  <1>2. /\ handlers' \subseteq HandlerSet
        /\ \A x \in handlers' : \E h \in handlers :
               x.conn = h.conn /\ (x.acks => h.acks /\ h.conn # c)
    BY <1>1, CutEffect DEF WorkTyped
  <1>3. \A d \in Conns : conns'[d] = "open" <=> conns[d] = "open" /\ d # c
    BY <1>1 DEF LinksTyped
  <1>4. \A t \in Tasks : task[t] \in TaskSet
    BY DEF ProcessTyped
  <1> DEFINE fresh == [Off EXCEPT !.pc = "connect"]
  <1>5. fresh \in TaskSet /\ fresh.pc = "connect"
    BY OffTyped DEF TaskSet
  <1> HIDE DEF fresh
  <1>6. \A t \in Tasks : \/ task'[t] = Off
                         \/ task'[t] = task[t] /\ t \notin Building(c)
                         \/ task'[t] = fresh /\ t = u /\ conns[c] = "open"
    BY DEF fresh
  <1>7. task' \in [Tasks -> TaskSet]
    BY <1>4, <1>5, OffTyped DEF fresh
  <1>8. ProcessTyped'
    BY <1>7 DEF ProcessTyped
  <1>9. LinksTyped'
    BY <1>1 DEF LinksTyped
  <1>10. WorkTyped'
    BY <1>1, <1>2, UnackedTyped DEF WorkTyped
  <1>11. OneOpen'
    BY <1>3 DEF OneOpen
  <1>12. ChannelsTrue'
    BY <1>1, <1>2, <1>3, LinksAsTheyWere DEF ChannelsTrue
  <1>13. \A t \in Tasks : task[t].pc # "off" /\ conns[c] = "open" => t \in Building(c)
    BY DEF TasksTrue, TaskTrue, Building, InSetup, Setup
  <1>14. OneTask'
    <2> SUFFICES ASSUME NEW t \in Tasks, NEW v \in Tasks,
                        task'[t].pc # "off", task'[v].pc # "off"
                 PROVE  t = v
      BY DEF OneTask
    <2> QED BY <1>6, <1>13, OffTyped DEF OneTask
  <1>15. TasksTrue'
    <2> SUFFICES ASSUME NEW t \in Tasks PROVE TaskTrue(task'[t], conns')
      BY DEF TasksTrue
    <2>1. CASE task'[t] = Off
      BY <2>1, OffTyped DEF TaskTrue, Setup
    <2>2. CASE task'[t] = task[t] /\ t \notin Building(c)
      <3>1. TaskTrue(task[t], conns)
        BY DEF TasksTrue
      <3>2. task[t].pc \in Setup => task[t].conn # c
        BY <2>2 DEF Building, InSetup, Setup
      <3> QED BY <1>3, <2>2, <3>1, <3>2 DEF TaskTrue
    <2>3. CASE task'[t] = fresh /\ conns[c] = "open"
      <3>1. \A d \in Conns : conns'[d] # "open"
        BY <1>3, <2>3 DEF OneOpen
      <3> QED BY <1>5, <2>3, <3>1 DEF TaskTrue, Setup
    <2> QED BY <1>6, <2>1, <2>2, <2>3
  <1> QED BY <1>1, <1>8, <1>9, <1>10, <1>11, <1>12, <1>14, <1>15

LEMMA LoseKeeps ==
  ASSUME LifecycleInv, NEW c \in Conns, LoseConnection(c) PROVE LifecycleInv'
  <1> DEFINE failing == Building(c)
  <1>1. exit = "no" /\ conns[c] = "open" /\ broker' = broker
    BY DEF LoseConnection
  <1>2. CASE /\ exit' = "one" /\ failures' = failures + 1
             /\ queue' = queue \cup Unacked(channels) /\ handlers' = {}
             /\ UNCHANGED <<leaked, stop, task, links, prisma, dropped>>
    <2>1. exit' # "no"
      BY <1>2
    <2>2. ProcessTyped' /\ LinksTyped'
      BY <1>1, <1>2 DEF LifecycleInv, ProcessTyped, LinksTyped, links
    <2>3. WorkTyped'
      BY <1>2, UnackedTyped DEF LifecycleInv, WorkTyped
    <2>4. OneTask' /\ TasksTrue' /\ Known' /\ PrismaLast'
      BY <2>1 DEF OneTask, TasksTrue, Known, PrismaLast
    <2>5. OneOpen' /\ ChannelsTrue' /\ OnlyLateConnectionsSuffer'
      BY <1>2 DEF LifecycleInv, OneOpen, ChannelsTrue, OnlyLateConnectionsSuffer, links
    <2> QED BY <2>2, <2>3, <2>4, <2>5 DEF LifecycleInv
  <1>3. CASE /\ Drop(c)
             /\ task' = [t \in Tasks |->
                   IF t \in failing THEN Off
                   ELSE IF t = c /\ ~shutdownRequested THEN [Off EXCEPT !.pc = "connect"]
                   ELSE task[t]]
             /\ active' = IF shutdownRequested THEN active ELSE None
             /\ UNCHANGED <<process, stop, activeChans, consumers, loops, late, prisma, dropped>>
    <2>1. UNCHANGED <<exit, leaked, stop, activeChans, consumers, loops, late, prisma, dropped>>
      BY <1>3 DEF process
    <2>2. active' \in Tasks /\ c \in Tasks
      BY <1>3, ConnsAreTasks DEF LifecycleInv, LinksTyped
    <2>3. /\ stop' \in StopSet /\ (stop'.at = "no" => stop' = Running)
          /\ stop'.at = "connection" => stop'.what \in Conns
      BY <2>1 DEF LifecycleInv, ProcessTyped
    <2>4. \/ task' = [t \in Tasks |-> IF t \in failing THEN Off ELSE task[t]]
          \/ task' = [t \in Tasks |-> IF t \in failing THEN Off
                                      ELSE IF t = c THEN [Off EXCEPT !.pc = "connect"]
                                      ELSE task[t]]
      BY <1>3
    <2>5. /\ ProcessTyped' /\ LinksTyped' /\ WorkTyped' /\ OneTask' /\ OneOpen'
          /\ TasksTrue' /\ ChannelsTrue'
          /\ conns' = [conns EXCEPT ![c] = "closed"]
      BY <1>1, <1>3, <2>1, <2>2, <2>3, <2>4, DropKeeps
    <2>6. \A d \in Conns : conns'[d] # "open"
      BY <1>1, <2>5 DEF LifecycleInv, OneOpen, LinksTyped
    <2>7. Known' /\ PrismaLast' /\ OnlyLateConnectionsSuffer'
      BY <2>1, <2>6 DEF LifecycleInv, Known, PrismaLast, OnlyLateConnectionsSuffer
    <2> QED BY <2>5, <2>7 DEF LifecycleInv
  <1> QED BY <1>2, <1>3 DEF LoseConnection

LEMMA CloseConnectionKeeps ==
  ASSUME LifecycleInv, CloseConnection PROVE LifecycleInv'
  <1> DEFINE c == stop.what
             failing == Building(c)
             next == [at |-> "prisma", what |-> None]
  <1>1. exit = "no" /\ stop.at = "connection"
    BY DEF CloseConnection
  <1>2. CASE Exit("one")
    BY <1>2, ExitKeeps
  <1>3. CASE /\ Drop(c)
             /\ task' = [t \in Tasks |-> IF t \in failing THEN Off ELSE task[t]]
             /\ active' = None /\ stop' = next
             /\ UNCHANGED <<process, network, activeChans, consumers, loops, late, prisma, dropped>>
    <2>1. UNCHANGED <<exit, leaked, broker, activeChans, consumers, loops, late, prisma, dropped>>
      BY <1>3 DEF process, network
    <2>2. stop' \in StopSet /\ stop'.at = "prisma" /\ active' \in Tasks
      BY <1>3, ConnsAreTasks DEF StopSet
    <2>3. c \in Conns
      BY <1>1 DEF LifecycleInv, ProcessTyped
    <2>4. /\ ProcessTyped' /\ LinksTyped' /\ WorkTyped' /\ OneTask' /\ OneOpen'
          /\ TasksTrue' /\ ChannelsTrue'
          /\ conns' = [conns EXCEPT ![c] = "closed"]
      BY <1>1, <1>3, <2>1, <2>2, <2>3, ConnsAreTasks, DropKeeps
    <2>5. \A d \in Conns : conns'[d] = "open" => d \in late
      BY <1>1, <2>3, <2>4 DEF LifecycleInv, Known, LinksTyped
    <2>6. Known' /\ PrismaLast' /\ OnlyLateConnectionsSuffer'
      BY <1>1, <2>1, <2>5 DEF LifecycleInv, Known, PrismaLast, OnlyLateConnectionsSuffer
    <2> QED BY <2>4, <2>6 DEF LifecycleInv
  <1> QED BY <1>2, <1>3 DEF CloseConnection

LEMMA CloseChannelsKeeps ==
  ASSUME LifecycleInv, CloseChannels PROVE LifecycleInv'
  <1> DEFINE c == stop.what
             next == IF active = None THEN [at |-> "prisma", what |-> None]
                     ELSE [at |-> "connection", what |-> active]
  <1>1. /\ exit = "no" /\ stop.at = "channels" /\ stop' = next
        /\ channels' = channels \ {c} /\ activeChans' = None
        /\ queue' = queue \cup Unacked({c} \cap channels)
        /\ handlers' = Cut(c)
        /\ UNCHANGED <<exit, leaked, broker, task, conns, active, consumers, loops, late,
                       prisma, dropped>>
    BY DEF CloseChannels, Cut, process, network
  <1>2. active \in Tasks /\ channels \subseteq Conns
    BY DEF LifecycleInv, LinksTyped
  <1>3. /\ stop' \in StopSet /\ stop'.at \in {"prisma", "connection"}
        /\ stop'.at = "connection" => active # None /\ stop'.what = active
        /\ stop'.at = "connection" => stop'.what \in Conns
        /\ stop'.at = "prisma" => active = None
    BY <1>1, <1>2, ConnsAreTasks DEF StopSet, Tasks
  <1>4. /\ handlers' \subseteq HandlerSet
        /\ \A x \in handlers' : \E h \in handlers :
               x.conn = h.conn /\ (x.acks => h.acks /\ h.conn # c)
    BY <1>1, CutEffect DEF LifecycleInv, WorkTyped
  <1>5. ProcessTyped'
    BY <1>1, <1>3 DEF LifecycleInv, ProcessTyped
  <1>6. LinksTyped'
    BY <1>1, ConnsAreTasks DEF LifecycleInv, LinksTyped
  <1>7. WorkTyped'
    BY <1>1, <1>4, UnackedTyped DEF LifecycleInv, WorkTyped
  <1>8. OneTask' /\ OneOpen' /\ TasksTrue'
    BY <1>1 DEF LifecycleInv, OneTask, OneOpen, TasksTrue
  <1>9. ChannelsTrue'
    BY <1>1, <1>4 DEF LifecycleInv, ChannelsTrue
  <1>10. Known'
    BY <1>1, <1>3, ConnsAreTasks DEF LifecycleInv, Known
  <1>11. PrismaLast' /\ OnlyLateConnectionsSuffer'
    BY <1>1 DEF LifecycleInv, PrismaLast, OnlyLateConnectionsSuffer
  <1> QED BY <1>5, <1>6, <1>7, <1>8, <1>9, <1>10, <1>11 DEF LifecycleInv

-----------------------------------------------------------------------------
(* The consumers, the rest of the shutdown, and what is outside.             *)

\* Handlers come and go while tasks, connections and the shutdown stand still.
LEMMA HandlersKeep ==
  ASSUME LifecycleInv,
         UNCHANGED <<exit, leaked, broker, stop, task, links, prisma>>,
         queue' \subseteq Messages, handlers' \subseteq HandlerSet,
         \A h \in handlers' : h.acks => h.conn \in channels, dropped' \subseteq late
  PROVE  LifecycleInv'
  <1> USE DEF LifecycleInv, links
  <1>1. ProcessTyped' /\ LinksTyped' /\ WorkTyped'
    BY DEF ProcessTyped, LinksTyped, WorkTyped
  <1>2. OneTask' /\ OneOpen' /\ TasksTrue'
    BY DEF OneTask, OneOpen, TasksTrue
  <1>3. ChannelsTrue' /\ Known' /\ PrismaLast'
    BY DEF ChannelsTrue, Known, PrismaLast
  <1>4. OnlyLateConnectionsSuffer'
    BY DEF OnlyLateConnectionsSuffer
  <1> QED BY <1>1, <1>2, <1>3, <1>4

LEMMA WorkAsItWas ==
  ASSUME LifecycleInv
  PROVE  /\ queue \subseteq Messages /\ handlers \subseteq HandlerSet
         /\ \A h \in handlers : h.acks => h.conn \in channels
         /\ dropped \subseteq late /\ channels \subseteq Conns
  BY DEF LifecycleInv, WorkTyped, ChannelsTrue, LinksTyped, OnlyLateConnectionsSuffer

LEMMA DeliverKeeps ==
  ASSUME LifecycleInv, NEW m \in Messages, Deliver(m) PROVE LifecycleInv'
  <1>1. PICK c \in channels :
          /\ queue' = queue \ {m}
          /\ handlers' = handlers \cup
                {[msg |-> m, conn |-> c, acks |-> TRUE, phase |-> "dedup"]}
    BY DEF Deliver
  <1>2. UNCHANGED <<exit, leaked, broker, stop, task, links, prisma, dropped>>
    BY DEF Deliver, process, network
  <1> DEFINE x == [msg |-> m, conn |-> c, acks |-> TRUE, phase |-> "dedup"]
  <1>3. x \in HandlerSet /\ x.conn = c
    BY WorkAsItWas DEF HandlerSet
  <1>4. handlers' = handlers \cup {x}
    BY <1>1
  <1> HIDE DEF x
  <1> QED BY <1>1, <1>2, <1>3, <1>4, WorkAsItWas, HandlersKeep

LEMMA TakeKeeps ==
  ASSUME LifecycleInv, NEW h \in handlers, Take(h) PROVE LifecycleInv'
  <1>1. CASE Exit("one")
    BY <1>1, ExitKeeps
  <1>2. CASE /\ prisma
             /\ handlers' = (handlers \ {h}) \cup {[h EXCEPT !.phase = "work"]}
             /\ UNCHANGED <<process, network, stop, task, links, prisma, queue, dropped>>
    <2>1. h \in HandlerSet
      BY WorkAsItWas
    <2> DEFINE x == [h EXCEPT !.phase = "work"]
    <2>2. x \in HandlerSet /\ x.conn = h.conn /\ x.acks = h.acks
      BY <2>1 DEF HandlerSet
    <2>3. handlers' = (handlers \ {h}) \cup {x}
      BY <1>2
    <2>4. UNCHANGED <<exit, leaked, broker, stop, task, links, prisma, queue, dropped>>
      BY <1>2 DEF process, network
    <2> HIDE DEF x
    <2> QED BY <2>2, <2>3, <2>4, WorkAsItWas, HandlersKeep
  <1>3. CASE /\ exit = "no" /\ ~prisma /\ h.acks
             /\ handlers' = handlers \ {h} /\ dropped' = dropped \cup {h.conn}
             /\ UNCHANGED <<process, network, stop, task, links, prisma, queue>>
    <2>1. h.conn \in late
      <3>1. stop.at = "redis"
        BY <1>3 DEF LifecycleInv, PrismaLast
      <3>2. conns[h.conn] = "open" /\ h.conn \in Conns
        BY <1>3, WorkAsItWas, LinksAsTheyWere
      <3> QED BY <1>3, <3>1, <3>2 DEF LifecycleInv, Known
    <2>2. UNCHANGED <<exit, leaked, broker, stop, task, links, prisma, queue>>
      BY <1>3 DEF process, network
    <2> QED BY <1>3, <2>1, <2>2, WorkAsItWas, HandlersKeep
  <1> QED BY <1>1, <1>2, <1>3 DEF Take

LEMMA SettleKeeps ==
  ASSUME LifecycleInv, NEW h \in handlers, Settle(h) PROVE LifecycleInv'
  <1>1. CASE Exit("one")
    BY <1>1, ExitKeeps
  <1>2. CASE /\ handlers' = handlers \ {h}
             /\ UNCHANGED <<process, network, stop, task, links, prisma, queue, dropped>>
    <2>1. UNCHANGED <<exit, leaked, broker, stop, task, links, prisma, queue, dropped>>
      BY <1>2 DEF process, network
    <2> QED BY <1>2, <2>1, WorkAsItWas, HandlersKeep
  <1> QED BY <1>1, <1>2 DEF Settle

\* A step of the shutdown that closes nothing, or of the broker.
LEMMA ShutdownKeeps ==
  ASSUME LifecycleInv, exit = "no",
         UNCHANGED <<exit, leaked, task, links, work>>,
         broker' \in BOOLEAN, prisma' \in BOOLEAN, stop' \in StopSet,
         stop'.at = "no" => stop' = Running,
         stop'.at = "connection" => stop'.what \in Conns,
         \/ stop' = stop /\ prisma' = prisma
         \/ stop.at = "no" /\ stop'.at = "channels" /\ prisma' = prisma
         \/ stop.at = "prisma" /\ stop'.at = "redis"
  PROVE  LifecycleInv'
  <1> USE DEF LifecycleInv, links, work
  <1>1. ProcessTyped' /\ LinksTyped' /\ WorkTyped'
    BY DEF ProcessTyped, LinksTyped, WorkTyped
  <1>2. OneTask' /\ OneOpen' /\ TasksTrue'
    BY DEF OneTask, OneOpen, TasksTrue
  <1>3. ChannelsTrue'
    BY DEF ChannelsTrue
  <1>4. Known'
    BY DEF Known
  <1>5. PrismaLast'
    BY DEF PrismaLast
  <1>6. OnlyLateConnectionsSuffer'
    BY DEF OnlyLateConnectionsSuffer
  <1> QED BY <1>1, <1>2, <1>3, <1>4, <1>5, <1>6

LEMMA ProcessAsItWas ==
  ASSUME LifecycleInv
  PROVE  /\ broker \in BOOLEAN /\ prisma \in BOOLEAN /\ stop \in StopSet
         /\ stop.at = "no" => stop = Running
         /\ stop.at = "connection" => stop.what \in Conns
  BY DEF LifecycleInv, ProcessTyped

LEMMA SignalKeeps ==
  ASSUME LifecycleInv, Signal PROVE LifecycleInv'
  <1>1. /\ exit = "no" /\ stop = Running
        /\ stop' = [at |-> "channels", what |-> activeChans]
        /\ UNCHANGED <<exit, leaked, broker, task, links, prisma, work>>
    BY DEF Signal, shutdownRequested, process, network
  <1>2. stop' \in StopSet /\ stop'.at = "channels"
    BY <1>1, LinksAsTheyWere DEF StopSet
  <1>3. /\ broker' \in BOOLEAN /\ prisma' \in BOOLEAN /\ stop.at = "no"
        /\ UNCHANGED <<exit, leaked, task, links, work>>
    BY <1>1, RunningTyped, ProcessAsItWas
  <1> QED BY <1>1, <1>2, <1>3, ShutdownKeeps

LEMMA DisconnectKeeps ==
  ASSUME LifecycleInv, DisconnectPrisma PROVE LifecycleInv'
  <1>1. /\ exit = "no" /\ stop.at = "prisma" /\ prisma' = FALSE
        /\ stop' = [at |-> "redis", what |-> None]
        /\ UNCHANGED <<exit, leaked, broker, task, links, work>>
    BY DEF DisconnectPrisma, process, network
  <1>2. stop' \in StopSet /\ stop'.at = "redis"
    BY <1>1, ConnsAreTasks DEF StopSet
  <1> QED BY <1>1, <1>2, ProcessAsItWas, ShutdownKeeps

LEMMA QuitKeeps ==
  ASSUME LifecycleInv, QuitRedis PROVE LifecycleInv'
  <1>1. \A c \in Conns : conns[c] = "open" => c \in late
    BY DEF QuitRedis, LifecycleInv, Known
  <1> QED BY <1>1, ExitKeeps DEF QuitRedis

LEMMA BrokerKeeps ==
  ASSUME LifecycleInv, Outage \/ BackUp PROVE LifecycleInv'
  <1>1. /\ broker' \in BOOLEAN
        /\ UNCHANGED <<exit, leaked, stop, task, links, prisma, work>>
    BY DEF Outage, BackUp, process
  <1>2. CASE exit = "no"
    BY <1>1, <1>2, ProcessAsItWas, ShutdownKeeps
  <1>3. CASE exit # "no"
    <2>1. ProcessTyped' /\ LinksTyped' /\ WorkTyped'
      BY <1>1 DEF LifecycleInv, ProcessTyped, LinksTyped, WorkTyped, links, work
    <2>2. OneTask' /\ TasksTrue' /\ Known' /\ PrismaLast'
      BY <1>1, <1>3 DEF OneTask, TasksTrue, Known, PrismaLast
    <2>3. OneOpen' /\ ChannelsTrue' /\ OnlyLateConnectionsSuffer'
      BY <1>1 DEF LifecycleInv, OneOpen, ChannelsTrue, OnlyLateConnectionsSuffer,
                  links, work
    <2> QED BY <2>1, <2>2, <2>3 DEF LifecycleInv
  <1> QED BY <1>2, <1>3

LEMMA StartTyped ==
  /\ Started \in [Tasks -> TaskSet] /\ Started[None].pc = "redis"
  /\ \A t \in Tasks : t # None => Started[t].pc = "off"
  /\ Unused \in [Conns -> {"unused"}]
  <1> DEFINE r == [Off EXCEPT !.pc = "redis"]
  <1>1. r \in TaskSet /\ r.pc = "redis"
    BY OffTyped DEF TaskSet
  <1>2. Started = [t \in Tasks |-> IF t = None THEN r ELSE Off]
    BY DEF Started
  <1> HIDE DEF r
  <1> QED BY <1>1, <1>2, OffTyped, ConnsAreTasks DEF Unused

\* A process that starts: with the tables of the broker as they are.
LEMMA FreshKeeps ==
  ASSUME broker \in BOOLEAN, queue \subseteq Messages, exit = "no", stop = Running,
         task = Started, conns = Unused, channels = {}, active = None,
         activeChans = None, consumers = {}, loops = {}, prisma = TRUE,
         handlers = {}, dropped = {}, leaked = {}
  PROVE  LifecycleInv
  <1>1. ProcessTyped
    BY RunningTyped, StartTyped DEF ProcessTyped
  <1>2. LinksTyped /\ WorkTyped
    BY ConnsAreTasks, StartTyped DEF LinksTyped, WorkTyped
  <1>3. \A c \in Conns : conns[c] # "open"
    BY StartTyped
  <1>4. OneTask
    BY StartTyped DEF OneTask
  <1>5. OneOpen /\ ChannelsTrue /\ Known
    BY <1>3 DEF OneOpen, ChannelsTrue, Known
  <1>6. TasksTrue
    <2> SUFFICES ASSUME NEW t \in Tasks PROVE TaskTrue(Started[t], conns)
      BY DEF TasksTrue
    <2>1. Started[t].pc \in {"redis", "off"}
      BY StartTyped
    <2> QED BY <1>3, <2>1 DEF TaskTrue, Setup
  <1>7. PrismaLast /\ OnlyLateConnectionsSuffer
    BY DEF PrismaLast, OnlyLateConnectionsSuffer
  <1> QED BY <1>1, <1>2, <1>4, <1>5, <1>6, <1>7 DEF LifecycleInv

LEMMA InitLifecycle == Init => LifecycleInv
  BY FreshKeeps DEF Init

LEMMA RestartKeeps ==
  ASSUME LifecycleInv, Restart PROVE LifecycleInv'
  <1>1. /\ broker' \in BOOLEAN /\ queue' \subseteq Messages /\ exit' = "no"
        /\ stop' = Running /\ task' = Started /\ conns' = Unused /\ channels' = {}
        /\ active' = None /\ activeChans' = None /\ consumers' = {} /\ loops' = {}
        /\ prisma' = TRUE /\ handlers' = {} /\ dropped' = {} /\ leaked' = {}
    BY WorkAsItWas, ProcessAsItWas DEF Restart, network
  <1>2. ProcessTyped'
    BY <1>1, RunningTyped, StartTyped DEF ProcessTyped
  <1>3. LinksTyped' /\ WorkTyped'
    BY <1>1, ConnsAreTasks, StartTyped DEF LinksTyped, WorkTyped
  <1>4. \A c \in Conns : conns'[c] # "open"
    BY <1>1, StartTyped
  <1>5. OneTask'
    BY <1>1, StartTyped DEF OneTask
  <1>6. OneOpen' /\ ChannelsTrue' /\ Known'
    BY <1>1, <1>4 DEF OneOpen, ChannelsTrue, Known
  <1>7. TasksTrue'
    <2> SUFFICES ASSUME NEW t \in Tasks PROVE TaskTrue(Started[t], conns')
      BY <1>1 DEF TasksTrue
    <2>1. Started[t].pc \in {"redis", "off"}
      BY StartTyped
    <2> QED BY <1>4, <2>1 DEF TaskTrue, Setup
  <1>8. PrismaLast' /\ OnlyLateConnectionsSuffer'
    BY <1>1 DEF PrismaLast, OnlyLateConnectionsSuffer
  <1> QED BY <1>2, <1>3, <1>5, <1>6, <1>7, <1>8 DEF LifecycleInv

LEMMA StutterKeeps ==
  ASSUME LifecycleInv, UNCHANGED vars PROVE LifecycleInv'
  <1> USE DEF LifecycleInv, vars, process, network, links, work
  <1>1. ProcessTyped' /\ LinksTyped' /\ WorkTyped'
    BY DEF ProcessTyped, LinksTyped, WorkTyped
  <1>2. OneTask' /\ OneOpen' /\ TasksTrue' /\ ChannelsTrue'
    BY DEF OneTask, OneOpen, TasksTrue, ChannelsTrue
  <1>3. Known' /\ PrismaLast' /\ OnlyLateConnectionsSuffer'
    BY DEF Known, PrismaLast, OnlyLateConnectionsSuffer
  <1> QED BY <1>1, <1>2, <1>3

LEMMA NextLifecycle == LifecycleInv /\ [Next]_vars => LifecycleInv'
  <1> SUFFICES ASSUME LifecycleInv, [Next]_vars PROVE LifecycleInv'
    OBVIOUS
  <1>1. ASSUME NEW t \in Tasks, TaskStep(t) PROVE LifecycleInv'
    BY <1>1, DialKeeps, ConnectedKeeps, RefusedKeeps, ChannelsKeep, GoneKeeps,
       TopologiesKeep, ConsumeKeeps DEF TaskStep
  <1>2. CASE Handling
    BY <1>2, TakeKeeps, SettleKeeps DEF Handling
  <1>3. CASE Stopping
    BY <1>3, CloseChannelsKeeps, CloseConnectionKeeps, DisconnectKeeps, QuitKeeps
       DEF Stopping
  <1>4. CASE UNCHANGED vars
    BY <1>4, StutterKeeps
  <1> QED BY <1>1, <1>2, <1>3, <1>4, RedisKeeps, DeliverKeeps, SignalKeeps, LoseKeeps,
             BrokerKeeps, RestartKeeps DEF Next

-----------------------------------------------------------------------------
(* The theorems.                                                             *)

LEMMA AtMostOne ==
  ASSUME NEW S, \A x, y \in S : x = y
  PROVE  Cardinality(S) <= 1
  <1>1. CASE S = {}
    BY <1>1, FS_EmptySet
  <1>2. CASE S # {}
    <2>1. PICK x \in S : TRUE
      BY <1>2
    <2>2. S = {x}
      BY <2>1
    <2> QED BY <2>2, FS_Singleton
  <1> QED BY <1>1, <1>2

\* Type correctness of the worker, through any losses and restarts.
THEOREM LifecycleTypeCorrect == Spec => []LifecycleTypeOK
  <1>1. LifecycleInv => LifecycleTypeOK
    BY DEF LifecycleInv, ProcessTyped, LinksTyped, WorkTyped, TaskSet, StopSet, Setup,
           LifecycleTypeOK
  <1> QED BY <1>1, InitLifecycle, NextLifecycle, PTL DEF Spec

\* reconnect and setupChannelsAndConsumers never run twice at a time, and the
\* worker never holds two connections.
THEOREM WorkerHasOneConnection == Spec => []SoleConnection
  <1>1. LifecycleInv => SoleConnection
    <2> SUFFICES ASSUME LifecycleInv PROVE SoleConnection
      OBVIOUS
    <2>1. Cardinality({c \in Conns : conns[c] = "open"}) <= 1
      BY AtMostOne DEF LifecycleInv, OneOpen
    <2>2. ASSUME exit = "no"
          PROVE  Cardinality({t \in Tasks : task[t].pc # "off"}) <= 1
      BY <2>2, AtMostOne DEF LifecycleInv, OneTask
    <2> QED BY <2>1, <2>2 DEF SoleConnection
  <1> QED BY <1>1, InitLifecycle, NextLifecycle, PTL DEF Spec

\* gracefulShutdown leaves no connection it knew of open, and no message of
\* one is dead-lettered unseen.
THEOREM ShutdownHarmsOnlyTheLate == Spec => []OnlyLateConnectionsSuffer
  <1>1. LifecycleInv => OnlyLateConnectionsSuffer
    BY DEF LifecycleInv
  <1> QED BY <1>1, InitLifecycle, NextLifecycle, PTL DEF Spec
=============================================================================
