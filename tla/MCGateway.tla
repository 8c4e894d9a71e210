----------------------------- MODULE MCGateway -----------------------------
(* Values for the constants of Gateway.cfg.  Sign-in and guards, the limiter *)
(* and the streams share no state: one initial state or another says which   *)
(* of them runs.                                                             *)
EXTENDS Sessions, RateLimitProperties, EventStreams

CONSTANTS t1, boss, ops

Home == [u \in Users |-> t1]
UserRoles == (boss :> {"admin"}) @@ (ops :> {"ops"})
WatchedRoutes == {InventoryRoutes.createAdjustment, AdminRoutes.getChaos}

\* A policy switched off, and one an operator wrote badly.
OperatorEdits == {
    [enabled |-> FALSE, effect |-> "ALLOW", regions |-> {}, plans |-> {}],
    [enabled |-> TRUE, effect |-> "ALLOW", regions |-> Malformed,
     plans |-> {"starter", "custom"}]}

VARIABLE scene

\* Bound of the limiter: four calls within two ticks, or fewer over more time.
RateBudget == calls + clock <= 6

MCInit ==
    /\ SessionsInit /\ RateInit /\ StreamsInit
    /\ scene \in {"sessions", "limiter", "streams"}
    /\ scene = "limiter" \/ \A r \in Replicas : skew[r] = 0
MCNext ==
    /\ UNCHANGED scene
    /\ \/ scene = "sessions" /\ SessionsNext /\ UNCHANGED <<rateVars, streamVars>>
       \/ scene = "limiter" /\ RateNext /\ RateBudget'
          /\ UNCHANGED <<sessionVars, streamVars>>
       \/ scene = "streams" /\ StreamsNext /\ UNCHANGED <<sessionVars, rateVars>>
MCSpec == MCInit /\ [][MCNext]_<<sessionVars, rateVars, streamVars, scene>>

Symmetries ==
    Permutations(Replicas) \cup Permutations(Requests) \cup Permutations(Clients)
=============================================================================
