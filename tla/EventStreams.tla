---------------------------- MODULE EventStreams ----------------------------
(***************************************************************************)
(* Server-sent events: the streams a process has open, and the updates of   *)
(* orders that OrdersService broadcasts to them after its commits.          *)
(*                                                                          *)
(* The clients are a Map in the memory of one API process; a broadcast      *)
(* walks over it in one go (next() only queues), so it never meets a change *)
(* of the Map.  A command broadcasts after its audit row and its idemSet,   *)
(* two awaits after its commit.                                             *)
(*                                                                          *)
(* Abstracted: heartbeats; what an event says beyond its order and its      *)
(* place in the order of commits; the guards, see Sessions.                 *)
(***************************************************************************)
EXTENDS Integers, Sequences, FiniteSets, SequencesExt, ApiProcesses

CONSTANTS
    Clients,
    MaxCommits, MaxConnects, MaxCrashes   \* bounds on a run

VARIABLES
    conn,     \* connection of each client: phase, tenant, process
    clients,  \* EventsService.clients of each process: clients subscribed
    pending,  \* commands committed and not yet broadcast: <<process, commit>>
    commits,  \* the tenant of each committed change of an order, in order
    connects, crashes,
    \* Histories: the commits each client heard of since it subscribed, those
    \* broadcast before, and those broadcast at all, with their process;
    \* connections closed before their handler ran.
    heard, before, told, early

streamVars == <<conn, clients, pending, commits, connects, crashes,
                heard, before, told, early>>
feed == <<pending, commits, told>>

Away == [phase |-> "away"]

StreamsInit ==
    /\ conn = [c \in Clients |-> Away]
    /\ clients = [p \in Replicas |-> {}]
    /\ pending = {} /\ told = {} /\ commits = <<>> /\ early = {}
    /\ heard = [c \in Clients |-> <<>>] /\ before = [c \in Clients |-> {}]
    /\ connects = 0 /\ crashes = 0

-----------------------------------------------------------------------------
(* Streams.                                                                  *)

\* GET /events/stream reaches the guards, which wait for the database.  Each
\* connection of a client has a clientId of its own.
Connect(c, p, t) ==
    /\ conn[c] = Away /\ c \notin UNION {clients[d] : d \in Replicas}
    /\ connects < MaxConnects /\ connects' = connects + 1
    /\ conn' = [conn EXCEPT ![c] =
          [phase |-> "guards", tenant |-> t, process |-> p]]
    /\ early' = early \ {c}
    /\ UNCHANGED <<clients, feed, crashes, heard, before>>

\* The handler: the listener for the end of the connection, and addClient,
\* whose Observable registers the client when it is subscribed to.  The
\* connection may have ended in the meantime: nobody tells the handler.
Subscribe(c) ==
    LET p == conn[c].process IN
    /\ conn[c].phase \in {"guards", "hungup"}
    /\ clients' = [clients EXCEPT ![p] = @ \cup {c}]
    /\ conn' = [conn EXCEPT ![c].phase =
          IF conn[c].phase = "guards" THEN "open" ELSE "ghost"]
    /\ heard' = [heard EXCEPT ![c] = <<>>]
    /\ before' = [before EXCEPT ![c] = told]
    /\ UNCHANGED <<feed, connects, crashes, early>>

\* The connection ends before its handler runs.
HangUpEarly(c) ==
    /\ conn[c].phase = "guards"
    /\ conn' = [conn EXCEPT ![c].phase = "hungup"]
    /\ early' = early \cup {c}
    /\ UNCHANGED <<clients, feed, connects, crashes, heard, before>>

\* Mutant: the client stays in the Map.
HangUpForgotten(c) ==
    /\ conn[c].phase = "open"
    /\ conn' = [conn EXCEPT ![c].phase = "ghost"]
    /\ UNCHANGED <<clients, feed, connects, crashes, heard, before, early>>

\* removeClient, and the teardown of the Observable that complete() runs.
HangUp(c) ==
    /\ conn[c].phase = "open"
    /\ clients' = [clients EXCEPT ![conn[c].process] = @ \ {c}]
    /\ conn' = [conn EXCEPT ![c] = Away]
    /\ UNCHANGED <<feed, connects, crashes, heard, before, early>>

-----------------------------------------------------------------------------
(* Updates.                                                                  *)

\* A command of OrdersService commits.
CommitCommand(p, t) ==
    /\ Len(commits) < MaxCommits
    /\ commits' = Append(commits, t)
    /\ pending' = pending \cup {<<p, Len(commits')>>}
    /\ UNCHANGED <<conn, clients, told, connects, crashes, heard, before, early>>

\* The worker reserves or cancels an order: it has no streams to tell.
CommitWorker(t) ==
    /\ Len(commits) < MaxCommits
    /\ commits' = Append(commits, t)
    /\ UNCHANGED <<conn, clients, pending, told, connects, crashes, heard,
                   before, early>>

\* Mutant: everybody in the Map is told.
BroadcastToAll(p, n) ==
    /\ <<p, n>> \in pending
    /\ pending' = pending \ {<<p, n>>}
    /\ told' = told \cup {<<p, n>>}
    /\ heard' = [c \in Clients |->
          IF c \in clients[p] THEN Append(heard[c], n) ELSE heard[c]]
    /\ UNCHANGED <<conn, clients, commits, connects, crashes, before, early>>

Broadcast(p, n) ==
    /\ <<p, n>> \in pending
    /\ pending' = pending \ {<<p, n>>}
    /\ told' = told \cup {<<p, n>>}
    /\ heard' = [c \in Clients |->
          IF c \in clients[p] /\ conn[c].tenant = commits[n]
          THEN Append(heard[c], n) ELSE heard[c]]
    /\ UNCHANGED <<conn, clients, commits, connects, crashes, before, early>>

\* idemSet fails: the command is answered with an error and not broadcast.
LoseBroadcast(p, n) ==
    /\ <<p, n>> \in pending /\ crashes < MaxCrashes /\ crashes' = crashes + 1
    /\ pending' = pending \ {<<p, n>>}
    /\ UNCHANGED <<conn, clients, commits, told, connects, heard, before, early>>

\* A process ends: its Map, its connections and its commands are gone.
Crash(p) ==
    /\ crashes < MaxCrashes /\ crashes' = crashes + 1
    /\ clients' = [clients EXCEPT ![p] = {}]
    /\ pending' = {x \in pending : x[1] # p}
    /\ conn' = [c \in Clients |->
          IF conn[c] = Away THEN Away
          ELSE IF conn[c].process = p THEN Away ELSE conn[c]]
    /\ UNCHANGED <<commits, told, connects, heard, before, early>>

StreamsNext ==
    \/ \E c \in Clients, p \in Replicas, t \in Tenants : Connect(c, p, t)
    \/ \E c \in Clients : Subscribe(c) \/ HangUpEarly(c) \/ HangUp(c)
    \/ \E p \in Replicas, t \in Tenants : CommitCommand(p, t)
    \/ \E t \in Tenants : CommitWorker(t)
    \/ \E x \in pending : Broadcast(x[1], x[2]) \/ LoseBroadcast(x[1], x[2])
    \/ \E p \in Replicas : Crash(p)

StreamsSpec == StreamsInit /\ [][StreamsNext]_streamVars

-----------------------------------------------------------------------------
(* Properties.                                                               *)

\* An open stream has carried every update of its tenant that its process has
\* broadcast since the subscription, once each, and nothing else: neither
\* another tenant's updates nor what other processes or the worker did.
HeardExactly ==
    \A c \in Clients : conn[c].phase = "open" =>
        /\ IsInjective(heard[c])
        /\ ToSet(heard[c]) =
              {n \in DOMAIN commits :
                  /\ <<conn[c].process, n>> \in told \ before[c]
                  /\ commits[n] = conn[c].tenant}

\* The Map of a process holds its open streams, and besides them only clients
\* that hung up while the guards were asking the database: removeClient ran
\* for every other one.
GhostsHungUpEarly ==
    \A p \in Replicas, c \in Clients :
        /\ c \in clients[p] /\ conn[c].phase # "open" => c \in early
        /\ conn[c].phase = "open" /\ conn[c].process = p => c \in clients[p]
=============================================================================
