------------------------------ MODULE Sessions ------------------------------
(***************************************************************************)
(* Sign-in, key rotation and the guards in front of every handler.          *)
(*                                                                          *)
(* A token is a snapshot of what its user may do; JwtAuthGuard, TenantGuard *)
(* and PermissionsGuard decide on the snapshot alone, AbacGuard on the plan *)
(* of the snapshot and the policy row of the moment.  The signing key and   *)
(* the one before it are read from the environment when a replica starts.   *)
(*                                                                          *)
(* Outside the repository's code, and bounded: the operator who edits       *)
(* tenants, policies and role permissions and rotates the key.              *)
(* Abstracted: passwords, the signature (a token names its key), the audit  *)
(* rows of refusals, which change nothing else; RS256, which has one key.   *)
(***************************************************************************)
EXTENDS AccessRules, ApiProcesses

CONSTANTS
    Users, Admins,
    Handlers,             \* requests served at a time
    HomeOf, RolesOf,      \* the tenant and the roles of each user
    Plans, FirstPlan,     \* plans a tenant may have, and has at first
    Edits,                \* policy rows an operator may write
    Watched,              \* bound: permissions asked for and edited
    TokenLife,            \* TOKEN_EXPIRES_SECONDS
    NoToken, NoLogin,
    MaxTime, MaxTokens, MaxRotations, MaxEdits  \* bounds on a run

ASSUME SessionsAssumption ==
    /\ Admins \subseteq Users /\ Watched \subseteq RoutePerms
    /\ HomeOf \in [Users -> Tenants] /\ FirstPlan \in Plans
    /\ RolesOf \in [Users -> SUBSET Roles]
    /\ TokenLife \in Nat \ {0} /\ MaxTime \in Nat
    \* A global administrator belongs to every tenant and has the role admin.
    /\ "*" \notin Tenants /\ \A u \in Admins : "admin" \in RolesOf[u]
    /\ Replicas # {}

VARIABLES
    now,
    planOf,         \* tenants.plan
    rolePerms,      \* role_permissions
    policy,         \* policies, by permission
    key,            \* generation of JWT_SECRET; JWT_SECRET_PREVIOUS is key - 1
    running,        \* the generation each replica started with
    settled,        \* when the last replica caught up with the key
    tokens, login,  \* tokens issued, sign-ins under way
    req,            \* requests past the first three guards
    edits,
    \* Histories: when each user last lost each permission, each tenant
    \* last left each plan.
    lostAt, leftAt

rights == <<planOf, rolePerms, policy, edits, lostAt, leftAt>>
secrets == <<key, running, settled>>
sessionVars == <<now, rights, secrets, tokens, login, req>>

LongAgo == -(2 * TokenLife) - MaxTime - 1

\* resolvePerms.
PermsOf(u) == UNION {rolePerms[role] : role \in RolesOf[u]}

IdleRequest == [phase |-> "idle", token |-> NoToken]

SessionsInit ==
    /\ now = 0
    /\ planOf = [t \in Tenants |-> FirstPlan]
    /\ rolePerms = ShippedPerms
    /\ policy = ShippedPolicy
    /\ key = 0 /\ running = [r \in Replicas |-> 0] /\ settled = LongAgo
    /\ tokens = {}
    /\ login = [u \in Users |-> NoLogin]
    /\ req = [q \in Handlers |-> IdleRequest]
    /\ edits = 0
    /\ lostAt = [u \in Users |-> [p \in Permissions |-> LongAgo]]
    /\ leftAt = [t \in Tenants |-> [p \in Plans |-> LongAgo]]

Tick ==
    /\ now < MaxTime /\ now' = now + 1
    /\ UNCHANGED <<rights, secrets, tokens, login, req>>

-----------------------------------------------------------------------------
(* AuthService.issueToken.                                                   *)

\* The account, then its tenant: an administrator names the tenant.
StartLogin(u, r, t) ==
    /\ login[u] = NoLogin
    /\ Cardinality(tokens) + Cardinality({v \in Users : login[v] # NoLogin})
          < MaxTokens
    /\ u \in Admins \/ t = HomeOf[u]
    /\ login' = [login EXCEPT ![u] =
          [replica |-> r, plan |-> planOf[t], began |-> now]]
    /\ UNCHANGED <<now, rights, secrets, tokens, req>>

\* The roles and what they permit now, signed with the replica's key.
FinishLogin(u) ==
    /\ login[u] # NoLogin
    /\ tokens' = tokens \cup {
          [sub |-> u, tid |-> IF u \in Admins THEN "*" ELSE HomeOf[u],
           roles |-> RolesOf[u], perms |-> PermsOf(u),
           plan |-> login[u].plan, region |-> "region-a",
           iat |-> now, began |-> login[u].began,
           key |-> running[login[u].replica]]}
    /\ login' = [login EXCEPT ![u] = NoLogin]
    /\ UNCHANGED <<now, rights, secrets, req>>

-----------------------------------------------------------------------------
(* The guards.                                                               *)

\* Mutant: expiration is not checked on the path of the previous key.
AcceptsExpired(r, tok) ==
    \/ now < tok.iat + TokenLife /\ tok.key = running[r]
    \/ tok.key = running[r] - 1

\* Mutant: the previous key is forgotten.
AcceptsCurrentOnly(r, tok) ==
    now < tok.iat + TokenLife /\ tok.key = running[r]

\* JwtStrategy: the current key, then the previous one.
Accepts(r, tok) ==
    /\ now < tok.iat + TokenLife
    /\ tok.key \in {running[r], running[r] - 1}

\* JwtAuthGuard, TenantGuard and PermissionsGuard read nothing but the token.
\* checked is a history: when they did.
Call(q, r, tok, t, perm) ==
    /\ req[q].phase = "idle"
    /\ Accepts(r, tok)
    /\ TenantGuard(tok, t)
    /\ PermissionsGuard(tok, perm)
    /\ req' = [req EXCEPT ![q] =
          [phase |-> "guards", token |-> tok, replica |-> r, tenant |-> t,
           perm |-> perm, checked |-> now]]
    /\ UNCHANGED <<now, rights, secrets, tokens, login>>

\* AbacGuard reads the policy row; the handler runs, or the answer is 403.
AskPolicy(q) ==
    /\ req[q].phase = "guards"
    /\ req' = [req EXCEPT ![q] =
          IF AbacGuard(req[q].token, policy[req[q].perm])
          THEN [req[q] EXCEPT !.phase = "handler"] ELSE IdleRequest]
    /\ UNCHANGED <<now, rights, secrets, tokens, login>>

Answer(q) ==
    /\ req[q].phase = "handler"
    /\ req' = [req EXCEPT ![q] = IdleRequest]
    /\ UNCHANGED <<now, rights, secrets, tokens, login>>

-----------------------------------------------------------------------------
(* Operators and deployments.                                                *)

OneMoreEdit == edits < MaxEdits /\ edits' = edits + 1

ChangePlan(t, plan) ==
    /\ plan # planOf[t] /\ OneMoreEdit
    /\ planOf' = [planOf EXCEPT ![t] = plan]
    /\ leftAt' = [leftAt EXCEPT ![t][planOf[t]] = now]
    /\ UNCHANGED <<now, rolePerms, policy, lostAt, secrets, tokens, login, req>>

EditPolicy(p, row) ==
    /\ policy[p] # row /\ OneMoreEdit
    /\ policy' = [policy EXCEPT ![p] = row]
    /\ UNCHANGED <<now, planOf, rolePerms, lostAt, leftAt, secrets, tokens,
                   login, req>>

RevokePerm(role, p) ==
    /\ p \in rolePerms[role] /\ OneMoreEdit
    /\ rolePerms' = [rolePerms EXCEPT ![role] = @ \ {p}]
    /\ lostAt' = [u \in Users |->
          IF p \in PermsOf(u) /\ p \notin UNION {rolePerms'[ro] : ro \in RolesOf[u]}
          THEN [lostAt[u] EXCEPT ![p] = now] ELSE lostAt[u]]
    /\ UNCHANGED <<now, planOf, policy, leftAt, secrets, tokens, login, req>>

\* The seed, which staging runs at every start: it grants what it ships and
\* takes nothing away, and writes every policy back; tenants keep their plan.
Reseed ==
    /\ rolePerms' = [role \in Roles |-> rolePerms[role] \cup ShippedPerms[role]]
    /\ policy' = ShippedPolicy
    /\ UNCHANGED <<now, planOf, edits, lostAt, leftAt, secrets, tokens, login,
                   req>>

\* The operator rotates again only when every replica runs with the new key
\* and the tokens of the key that is about to go have expired.
Rotate ==
    /\ key < MaxRotations
    /\ \A r \in Replicas : running[r] = key
    /\ now >= settled + TokenLife
    /\ key' = key + 1
    /\ UNCHANGED <<now, rights, running, settled, tokens, login, req>>

\* A replica stops, and what it was doing with it, and starts again.
Restart(r) ==
    /\ running' = [running EXCEPT ![r] = key]
    /\ settled' = IF running # running' /\ \A s \in Replicas : running'[s] = key
                  THEN now ELSE settled
    /\ login' = [u \in Users |->
          IF login[u] = NoLogin THEN NoLogin
          ELSE IF login[u].replica = r THEN NoLogin ELSE login[u]]
    /\ req' = [q \in Handlers |->
          IF req[q].phase = "idle" THEN IdleRequest
          ELSE IF req[q].replica = r THEN IdleRequest ELSE req[q]]
    /\ UNCHANGED <<now, rights, key, tokens>>

-----------------------------------------------------------------------------
SessionsNext ==
    \/ Tick \/ Rotate \/ Reseed
    \/ \E u \in Users : FinishLogin(u)
    \/ \E u \in Users, r \in Replicas, t \in Tenants : StartLogin(u, r, t)
    \/ \E q \in Handlers, r \in Replicas, tok \in tokens, t \in Tenants,
          perm \in Watched : Call(q, r, tok, t, perm)
    \/ \E q \in Handlers : AskPolicy(q) \/ Answer(q)
    \/ \E t \in Tenants, plan \in Plans : ChangePlan(t, plan)
    \/ \E p \in Watched, row \in Edits : EditPolicy(p, row)
    \/ \E role \in Roles, p \in Watched : RevokePerm(role, p)
    \/ \E r \in Replicas : Restart(r)

SessionsSpec == SessionsInit /\ [][SessionsNext]_sessionVars

-----------------------------------------------------------------------------
(* Properties.                                                               *)

TokenTyped(tok) ==
    /\ tok.sub \in Users /\ tok.iat \in 0..now /\ tok.began \in 0..tok.iat
    /\ tok.perms \subseteq Permissions /\ tok.plan \in Plans
    /\ tok.key \in 0..key

\* Type correctness.
SessionsTypeOK ==
    /\ now \in 0..MaxTime /\ edits \in 0..MaxEdits
    /\ planOf \in [Tenants -> Plans]
    /\ rolePerms \in [Roles -> SUBSET Permissions]
    /\ DOMAIN policy = Permissions
    /\ key \in 0..MaxRotations /\ running \in [Replicas -> 0..key]
    /\ settled \in {LongAgo} \cup 0..now
    /\ \A tok \in tokens : TokenTyped(tok)
    /\ \A q \in Handlers : req[q].phase # "idle" => req[q].token \in tokens
    /\ \A u \in Users : login[u] # NoLogin => login[u].began \in 0..now

\* A handler runs for a user who holds the permission of its route, or held
\* it less than the life of a token before the token was checked; on the plan
\* its tenant has, or had then (and while the user signed in); and for no
\* other tenant than the user's.  Administrators are not bound by this.
AdmissionsJustified ==
    \A q \in Handlers :
        LET tok == req[q].token
            since == req[q].checked - TokenLife
        IN  req[q].phase = "handler" /\ ~IsAdmin(tok) =>
              /\ req[q].tenant = HomeOf[tok.sub]
              /\ \/ req[q].perm \in PermsOf(tok.sub)
                 \/ lostAt[tok.sub][req[q].perm] > since
              /\ \/ tok.plan = planOf[req[q].tenant]
                 \/ leftAt[req[q].tenant][tok.plan] > since - (tok.iat - tok.began)

\* Whatever an operator writes into a policy, a tenant that moves to a higher
\* plan loses no access.
HigherPlansKeepAccess ==
    \A p \in Watched, a, b \in DOMAIN Tiers :
        Tiers[a] <= Tiers[b] /\ PolicyAdmits(policy[p], a, "")
            => PolicyAdmits(policy[p], b, "")

\* Rotating the key ends no session: an unexpired token is refused only by a
\* replica that has not been restarted since the key that signed it came in.
SessionsSurviveRotation ==
    \A tok \in tokens, r \in Replicas :
        now < tok.iat + TokenLife => Accepts(r, tok) \/ running[r] < tok.key
=============================================================================
