------------------------------- MODULE Webhooks -------------------------------
(***************************************************************************)
(* Webhook endpoints, and the deliveries that pollers post to them:         *)
(* WebhooksService and the worker's processWebhookDeliveries.  A poller     *)
(* claims nothing: it works on a copy of the pending rows, with the attempts*)
(* they had when it read them, and writes over whatever is there.           *)
(*                                                                          *)
(* A batch holds up to fifty rows in order; here all of them, in any order. *)
(* Outside the code: the endpoints, operators who switch one off, and who   *)
(* calls the pollers (nothing in src/ does).                                *)
(***************************************************************************)
EXTENDS Integers, FiniteSets

CONSTANTS
    Endpoints, Events, Pollers,
    MAX_ATTEMPTS,          \* 5 in the code
    MaxPosts, MaxDeaths    \* bounds on a run

ASSUME WebhooksAssumption ==
    MAX_ATTEMPTS \in Nat \ {0} /\ MaxPosts \in Nat /\ MaxDeaths \in Nat

Deliveries == Events \X Endpoints
EndpointOf(d) == d[2]

VARIABLES
    endpoint,   \* "none", "active" or "inactive"
    row,        \* delivery rows: status and attempts
    found,      \* endpoints an enqueueDelivery has read, per event
    poller,     \* step, rows still to do, row at work, answer of the endpoint
    \* Histories: posts made, deliveries an endpoint accepted, deliveries two
    \* pollers held at a time, pollers that died before recording an answer.
    posts, accepted, shared, deaths

histories == <<posts, accepted, shared, deaths>>
hookVars == <<endpoint, row, found, poller, histories>>

NoRow == [status |-> "none", attempts |-> 0]
NoCopy == [delivery |-> <<>>, attempts |-> 0]
Waiting == [step |-> "poll", batch |-> {}, copy |-> NoCopy, answer |-> "none"]
NotAsked == {<<>>}

WebhooksInit ==
    /\ endpoint = [e \in Endpoints |-> "none"]
    /\ row = [d \in Deliveries |-> NoRow]
    /\ found = [ev \in Events |-> NotAsked]
    /\ poller = [p \in Pollers |-> Waiting]
    /\ posts = [d \in Deliveries |-> 0]
    /\ accepted = {} /\ shared = {} /\ deaths = 0

-----------------------------------------------------------------------------
(* WebhooksService.                                                          *)

registerEndpoint(e) ==
    /\ endpoint[e] = "none" /\ \A d \in Deliveries : EndpointOf(d) = e => posts[d] = 0
    /\ endpoint' = [endpoint EXCEPT ![e] = "active"]
    /\ UNCHANGED <<row, found, poller, histories>>

\* The rows of an endpoint go with it.
deleteEndpoint(e) ==
    /\ endpoint[e] # "none"
    /\ endpoint' = [endpoint EXCEPT ![e] = "none"]
    /\ row' = [d \in Deliveries |-> IF EndpointOf(d) = e THEN NoRow ELSE row[d]]
    /\ UNCHANGED <<found, poller, histories>>

SwitchOff(e) ==
    /\ endpoint[e] = "active"
    /\ endpoint' = [endpoint EXCEPT ![e] = "inactive"]
    /\ UNCHANGED <<row, found, poller, histories>>

\* enqueueDelivery: the endpoints, then a row for each; none when one of them
\* is gone by then.
FindEndpoints(ev) ==
    /\ found[ev] = NotAsked
    /\ found' = [found EXCEPT ![ev] = {e \in Endpoints : endpoint[e] = "active"}]
    /\ found'[ev] # {}
    /\ UNCHANGED <<endpoint, row, poller, histories>>

CreateRows(ev) ==
    /\ found[ev] \notin {NotAsked, {}}
    /\ found' = [found EXCEPT ![ev] = {}]
    /\ row' = IF \E e \in found[ev] : endpoint[e] = "none" THEN row
              ELSE [d \in Deliveries |->
                      IF d[1] = ev /\ EndpointOf(d) \in found[ev]
                      THEN [status |-> "PENDING", attempts |-> 0] ELSE row[d]]
    /\ UNCHANGED <<endpoint, poller, histories>>

-----------------------------------------------------------------------------
(* processDeliveries and processWebhookDeliveries.                           *)

Due(d) == row[d].status = "PENDING" /\ row[d].attempts < MAX_ATTEMPTS
Copy(d) == [delivery |-> d, attempts |-> row[d].attempts]
Holds(p, d) == \E c \in poller[p].batch \cup {poller[p].copy} : c.delivery = d

Poll(p) ==
    LET due == {d \in Deliveries : Due(d)} IN
    /\ poller[p].step = "poll" /\ due # {}
    /\ poller' = [poller EXCEPT ![p] = [Waiting EXCEPT !.step = "look",
                                                       !.batch = {Copy(d) : d \in due}]]
    /\ shared' = shared \cup {d \in due : \E q \in Pollers \ {p} : Holds(q, d)}
    /\ UNCHANGED <<endpoint, row, found, posts, accepted, deaths>>

\* The next row of the batch: is its endpoint still there, and active?
Look(p) ==
    /\ poller[p].step = "look"
    /\ \E c \in poller[p].batch :
          poller' = [poller EXCEPT
              ![p].batch = @ \ {c}, ![p].copy = c,
              ![p].step = IF endpoint[EndpointOf(c.delivery)] = "active"
                          THEN "post" ELSE "cancel"]
    /\ UNCHANGED <<endpoint, row, found, histories>>

Onwards(p) ==
    poller' = [poller EXCEPT ![p] =
        IF @.batch = {} THEN Waiting ELSE [@ EXCEPT !.step = "look", !.copy = NoCopy]]

\* An update of a row that is gone throws; nothing catches it, the poller ends.
Ends(p) == poller' = [poller EXCEPT ![p] = [Waiting EXCEPT !.step = "ended"]]

Cancel(p) ==
    LET d == poller[p].copy.delivery IN
    /\ poller[p].step = "cancel"
    /\ \/ row[d] = NoRow /\ Ends(p) /\ UNCHANGED row
       \/ row[d] # NoRow /\ Onwards(p) /\ row' = [row EXCEPT ![d].status = "CANCELLED"]
    /\ UNCHANGED <<endpoint, found, histories>>

\* fetch: answered in time or not; without an answer the endpoint may or may
\* not have taken it.
Post(p) ==
    LET d == poller[p].copy.delivery IN
    /\ poller[p].step = "post" /\ posts[d] < MaxPosts
    /\ posts' = [posts EXCEPT ![d] = @ + 1]
    /\ \E answer \in {"ok", "error", "lost"} :
          /\ poller' = [poller EXCEPT ![p].step = "record", ![p].answer = answer]
          /\ accepted' \in {accepted \cup IF answer = "error" THEN {} ELSE {d},
                            accepted \cup IF answer = "ok" THEN {d} ELSE {}}
    /\ UNCHANGED <<endpoint, row, found, shared, deaths>>

\* Mutant: the attempts are not written back.
markFailedUncounted(copy) ==
    [status |-> IF copy.attempts + 1 >= MAX_ATTEMPTS THEN "FAILED" ELSE "PENDING",
     attempts |-> copy.attempts]

markFailed(copy) ==
    [status |-> IF copy.attempts + 1 >= MAX_ATTEMPTS THEN "FAILED" ELSE "PENDING",
     attempts |-> copy.attempts + 1]

\* Mutant: any answer is a delivery.
OutcomeUnchecked(copy, answer) ==
    IF answer # "lost" THEN [status |-> "DELIVERED", attempts |-> copy.attempts + 1]
    ELSE markFailed(copy)

Outcome(copy, answer) ==
    IF answer = "ok" THEN [status |-> "DELIVERED", attempts |-> copy.attempts + 1]
    ELSE markFailed(copy)

\* When the row is gone the update fails, and markFailed after it.
Record(p) ==
    LET copy == poller[p].copy IN
    /\ poller[p].step = "record"
    /\ \/ row[copy.delivery] = NoRow /\ Ends(p) /\ UNCHANGED row
       \/ /\ row[copy.delivery] # NoRow /\ Onwards(p)
          /\ row' = [row EXCEPT ![copy.delivery] = Outcome(copy, poller[p].answer)]
    /\ UNCHANGED <<endpoint, found, histories>>

\* shouldStop, or the end of the process, and a new start.
StartAgain(p) ==
    /\ poller[p].step # "poll" /\ deaths < MaxDeaths
    /\ deaths' = IF poller[p].step = "record" THEN deaths + 1 ELSE deaths
    /\ poller' = [poller EXCEPT ![p] = Waiting]
    /\ UNCHANGED <<endpoint, row, found, posts, accepted, shared>>

WebhooksNext ==
    \/ \E e \in Endpoints : registerEndpoint(e) \/ deleteEndpoint(e) \/ SwitchOff(e)
    \/ \E ev \in Events : FindEndpoints(ev) \/ CreateRows(ev)
    \/ \E p \in Pollers :
          Poll(p) \/ Look(p) \/ Cancel(p) \/ Post(p) \/ Record(p) \/ StartAgain(p)

WebhooksSpec == WebhooksInit /\ [][WebhooksNext]_hookVars

-----------------------------------------------------------------------------
(* Properties.                                                               *)

\* However pollers overwrite each other, a row says what came of it: DELIVERED
\* only when the endpoint took it, FAILED only after MAX_ATTEMPTS posts,
\* CANCELLED only when the endpoint is switched off; and attempts never counts
\* a post that was not made.
OutcomesAreEarned ==
    \A d \in Deliveries :
        /\ row[d].attempts <= posts[d]
        /\ row[d].status = "DELIVERED" => d \in accepted
        /\ row[d].status = "FAILED" => posts[d] >= MAX_ATTEMPTS
        /\ row[d].status = "CANCELLED" => endpoint[EndpointOf(d)] = "inactive"

\* An endpoint gets a delivery more than MAX_ATTEMPTS times only when two
\* pollers held it at a time, whose stale copies take the count back, or when
\* a poller died between a post and its record.
RetriesAreCounted ==
    \A d \in Deliveries \ shared : posts[d] <= MAX_ATTEMPTS + deaths
=============================================================================
