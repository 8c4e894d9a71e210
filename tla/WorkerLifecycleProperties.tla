---------------------- MODULE WorkerLifecycleProperties ----------------------
(* What a worker keeps through reconnects and a shutdown.                    *)
EXTENDS WorkerLifecycle

LifecycleTypeOK ==
    /\ broker \in BOOLEAN /\ exit \in {"no", "zero", "one"}
    /\ stop.at \in {"no", "channels", "connection", "prisma", "redis"}
    /\ stop.what \in Tasks
    /\ \A t \in Tasks :
          /\ task[t].pc \in {"off", "redis", "connect", "dialing", "channels",
                             "topology", "orders", "payments"}
          /\ task[t].tries \in 0..MaxTries /\ task[t].conn \in Tasks
    /\ conns \in [Conns -> {"unused", "open", "closed"}]
    /\ channels \subseteq Conns /\ active \in Tasks /\ activeChans \in Tasks
    /\ consumers \subseteq Conns \X {"orders", "payments"} /\ loops \subseteq Conns
    /\ queue \subseteq Messages

\* However connections are lost during a start, a setup or a reconnect, the
\* worker holds one connection at most and one task builds on it: the close
\* handler and a failing setup never both reconnect.
SoleConnection ==
    /\ Cardinality({c \in Conns : conns[c] = "open"}) <= 1
    /\ exit = "no" => Cardinality({t \in Tasks : task[t].pc # "off"}) <= 1

\* A message is dead-lettered before any handler has looked at it, or a
\* connection left open by a clean exit, only over a connection that a
\* reconnect opened after the signal: gracefulShutdown closes all it knew of,
\* channels before the database.
OnlyLateConnectionsSuffer == dropped \cup leaked \subseteq late

Serving ==
    /\ exit = "no"
    /\ \E c \in channels : c \in loops /\ {<<c, "orders">>, <<c, "payments">>} \subseteq consumers

\* Whatever is lost, and when, the worker serves again as soon as the broker
\* stays up, unless it was told to stop or the platform has used up its
\* restarts: no lost connection leaves a living process without consumers.
ServesAgain ==
    []<>(Serving \/ ~broker \/ shutdownRequested \/ failures > MaxRetries)
=============================================================================
