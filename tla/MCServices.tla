----------------------------- MODULE MCServices -----------------------------
(* Values for the constants of Services.cfg.  Lists and webhooks share no    *)
(* state: the initial state says which of them runs.                         *)
EXTENDS Listing, Webhooks, TLC

VARIABLE scene

\* Lists meet in the cache only, where keys are compared as a whole: those that
\* meet are cached, and their queries differ in one part at most.
DifferInOne(p, q) ==
    Cardinality({f \in {"tenant", "limit", "filtered"} : p[f] # q[f]}) <= 1
MeetInCache ==
    \A r \in Readers : Walking(r) =>
        /\ \A e \in cache : DifferInOne(walk[r].query, e.key)
        /\ \A s \in Readers \ {r} : Walking(s) =>
              walk[r].cached /\ DifferInOne(walk[r].query, walk[s].query)

MCInit == ListingInit /\ WebhooksInit /\ scene \in {"lists", "webhooks"}
MCNext ==
    /\ UNCHANGED scene
    /\ \/ scene = "lists" /\ ListingNext /\ MeetInCache' /\ UNCHANGED hookVars
       \/ scene = "webhooks" /\ WebhooksNext /\ UNCHANGED listVars
MCSpec == MCInit /\ [][MCNext]_<<listVars, hookVars, scene>>

Symmetries == Permutations(Readers) \cup Permutations(Pollers) \cup Permutations(Events)
                \cup Permutations(Tenants)
=============================================================================
