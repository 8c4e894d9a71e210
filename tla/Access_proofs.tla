---------------------------- MODULE Access_proofs ----------------------------
(* Proofs about Sessions for every set of users, tenants and replicas, every *)
(* token life, and any number of sign-ins, rotations and edits; and about    *)
(* EventStreams for every number of clients and processes, and any number of *)
(* commits, connections and crashes.                                         *)
EXTENDS Sessions, EventStreams, SequenceTheorems, TLAPS

-----------------------------------------------------------------------------
(* Sessions: the inductive invariant.                                        *)

TokenSet == [sub : Users, tid : Tenants \cup {"*"}, roles : SUBSET Roles,
             perms : SUBSET Permissions, plan : Plans, region : {"region-a"},
             iat : Int, began : Int, key : Int]
LoginSet == [replica : Replicas, plan : Plans, began : Int]
RequestSet == [phase : {"guards", "handler"}, token : TokenSet,
               replica : Replicas, tenant : Tenants, perm : Watched,
               checked : Int]

SecretsTyped ==
    /\ now \in Int /\ key \in Int /\ settled \in Int /\ settled <= now
    /\ running \in [Replicas -> {key - 1, key}]

RightsTyped ==
    /\ planOf \in [Tenants -> Plans]
    /\ rolePerms \in [Roles -> SUBSET Permissions]
    /\ lostAt \in [Users -> [Permissions -> Int]]
    /\ leftAt \in [Tenants -> [Plans -> Int]]

WorkTyped ==
    /\ tokens \subseteq TokenSet
    /\ login \in [Users -> LoginSet \cup {NoLogin}]
    /\ req \in [Handlers -> RequestSet \cup {IdleRequest}]

Typed == SecretsTyped /\ RightsTyped /\ WorkTyped

\* A token no key generation of which is known has expired; and when every
\* replica has caught up, those of older generations were signed before.
KeysRotate ==
    /\ \A tok \in tokens :
          /\ tok.iat <= now /\ tok.key <= key
          /\ now < tok.iat + TokenLife => tok.key >= key - 1
    /\ (\A r \in Replicas : running[r] = key) =>
          \A tok \in tokens : tok.key < key => tok.iat <= settled

\* What a token says was true when it was issued (its plan: when the sign-in
\* began), and what is no longer true has been lost since.
PlanKept(u, plan, began) ==
    plan = planOf[HomeOf[u]] \/ leftAt[HomeOf[u]][plan] >= began

PermsKept(tok) ==
    \A p \in tok.perms : p \in PermsOf(tok.sub) \/ lostAt[tok.sub][p] >= tok.iat

\* The same, of the state after a step.
PlanKeptAfter(u, plan, began) ==
    plan = planOf'[HomeOf[u]] \/ leftAt'[HomeOf[u]][plan] >= began

TokensTrue ==
    \A tok \in tokens :
        /\ tok.tid = IF tok.sub \in Admins THEN "*" ELSE HomeOf[tok.sub]
        /\ tok.roles = RolesOf[tok.sub]
        /\ tok.began <= tok.iat /\ tok.iat <= now
        /\ PermsKept(tok)
        /\ tok.sub \notin Admins => PlanKept(tok.sub, tok.plan, tok.began)

LoginsTrue ==
    \A u \in Users : login[u] # NoLogin =>
        /\ login[u] \in LoginSet /\ login[u].began <= now
        /\ u \notin Admins => PlanKept(u, login[u].plan, login[u].began)

RequestsChecked ==
    \A q \in Handlers : req[q].phase # "idle" =>
        /\ req[q] \in RequestSet
        /\ req[q].token \in tokens
        /\ req[q].checked < req[q].token.iat + TokenLife
        /\ TenantGuard(req[q].token, req[q].tenant)
        /\ PermissionsGuard(req[q].token, req[q].perm)

RightsInv == TokensTrue /\ LoginsTrue /\ RequestsChecked

-----------------------------------------------------------------------------
(* Types.                                                                    *)

LEMMA SeedTyped == ShippedPerms \in [Roles -> SUBSET Permissions]
  BY DEF ShippedPerms, Roles, Permissions

LEMMA LongAgoType == LongAgo \in Int /\ LongAgo <= 0
  BY SessionsAssumption DEF LongAgo

LEMMA PermsHeld ==
  ASSUME NEW u \in Users, NEW p
  PROVE  p \in PermsOf(u) <=> \E role \in RolesOf[u] : p \in rolePerms[role]
  BY DEF PermsOf

LEMMA PermsTyped == ASSUME RightsTyped, NEW u \in Users
                    PROVE  PermsOf(u) \subseteq Permissions
  BY PermsHeld, SessionsAssumption DEF RightsTyped

\* The token FinishLogin adds.
Issued(u) ==
    [sub |-> u, tid |-> IF u \in Admins THEN "*" ELSE HomeOf[u],
     roles |-> RolesOf[u], perms |-> PermsOf(u), plan |-> login[u].plan,
     region |-> "region-a", iat |-> now, began |-> login[u].began,
     key |-> running[login[u].replica]]

LEMMA IssuedAdded ==
  ASSUME NEW u \in Users, FinishLogin(u)
  PROVE  /\ tokens' = tokens \cup {Issued(u)}
         /\ UNCHANGED <<now, key, settled, running>>
         /\ UNCHANGED <<planOf, rolePerms, lostAt, leftAt, req>>
         /\ login' = [login EXCEPT ![u] = NoLogin] /\ login[u] # NoLogin
  BY DEF FinishLogin, Issued, secrets, rights

LEMMA IssuedFields ==
  ASSUME NEW u \in Users
  PROVE  /\ Issued(u).sub = u
         /\ Issued(u).tid = (IF u \in Admins THEN "*" ELSE HomeOf[u])
         /\ Issued(u).roles = RolesOf[u] /\ Issued(u).perms = PermsOf(u)
         /\ Issued(u).plan = login[u].plan /\ Issued(u).iat = now
         /\ Issued(u).began = login[u].began
         /\ Issued(u).key = running[login[u].replica]
  BY DEF Issued

LEMMA InitTyped == SessionsInit => Typed
  <1> SUFFICES ASSUME SessionsInit PROVE Typed
    OBVIOUS
  <1>1. SecretsTyped
    BY LongAgoType DEF SessionsInit, SecretsTyped
  <1>2. RightsTyped
    BY LongAgoType, SeedTyped, SessionsAssumption DEF SessionsInit, RightsTyped
  <1>3. WorkTyped
    BY DEF SessionsInit, WorkTyped
  <1> QED BY <1>1, <1>2, <1>3 DEF Typed

LEMMA NextTyped == Typed /\ [SessionsNext]_sessionVars => Typed'
  <1> SUFFICES ASSUME Typed, [SessionsNext]_sessionVars PROVE Typed'
    OBVIOUS
  <1> USE DEF Typed, SecretsTyped, RightsTyped, WorkTyped, rights, secrets
  <1>1. CASE Tick
    BY <1>1 DEF Tick
  <1>2. CASE Rotate
    BY <1>2 DEF Rotate
  <1>3. CASE Reseed
    BY <1>3, SeedTyped DEF Reseed
  <1>4. ASSUME NEW u \in Users, FinishLogin(u) PROVE Typed'
    <2>1. login[u] \in LoginSet
      BY <1>4 DEF FinishLogin
    <2>2. running[login[u].replica] \in Int
      BY <2>1 DEF LoginSet
    <2>3. Issued(u) \in TokenSet
      BY <2>1, <2>2, PermsTyped, SessionsAssumption DEF TokenSet, LoginSet, Issued
    <2> QED BY <1>4, <2>3, IssuedAdded, ZenonT(60)
  <1>5. ASSUME NEW u \in Users, NEW r \in Replicas, NEW t \in Tenants,
               StartLogin(u, r, t)
        PROVE  Typed'
    <2>1. [replica |-> r, plan |-> planOf[t], began |-> now] \in LoginSet
      BY DEF LoginSet
    <2> QED BY <1>5, <2>1 DEF StartLogin
  <1>6. ASSUME NEW q \in Handlers, NEW r \in Replicas, NEW tok \in tokens,
               NEW t \in Tenants, NEW perm \in Watched, Call(q, r, tok, t, perm)
        PROVE  Typed'
    <2>1. [phase |-> "guards", token |-> tok, replica |-> r, tenant |-> t,
           perm |-> perm, checked |-> now] \in RequestSet
      BY DEF RequestSet
    <2> QED BY <1>6, <2>1 DEF Call
  <1>7. ASSUME NEW q \in Handlers, AskPolicy(q) PROVE Typed'
    <2>1. req[q] \in RequestSet
      BY <1>7 DEF AskPolicy, IdleRequest
    <2>2. [req[q] EXCEPT !.phase = "handler"] \in RequestSet
      BY <2>1 DEF RequestSet
    <2> QED BY <1>7, <2>2 DEF AskPolicy
  <1>8. ASSUME NEW q \in Handlers, Answer(q) PROVE Typed'
    BY <1>8 DEF Answer
  <1>9. ASSUME NEW t \in Tenants, NEW plan \in Plans, ChangePlan(t, plan)
        PROVE  Typed'
    BY <1>9 DEF ChangePlan, OneMoreEdit
  <1>10. ASSUME NEW p \in Watched, NEW row \in Edits, EditPolicy(p, row)
         PROVE  Typed'
    BY <1>10 DEF EditPolicy, OneMoreEdit
  <1>11. ASSUME NEW role \in Roles, NEW p \in Watched, RevokePerm(role, p)
         PROVE  Typed'
    <2>1. rolePerms' \in [Roles -> SUBSET Permissions]
      BY <1>11 DEF RevokePerm
    <2>2. lostAt' \in [Users -> [Permissions -> Int]]
      BY <1>11 DEF RevokePerm
    <2> QED BY <1>11, <2>1, <2>2 DEF RevokePerm, OneMoreEdit
  <1>12. ASSUME NEW r \in Replicas, Restart(r) PROVE Typed'
    BY <1>12 DEF Restart
  <1>13. CASE UNCHANGED sessionVars
    BY <1>13 DEF sessionVars
  <1> QED BY <1>1, <1>2, <1>3, <1>4, <1>5, <1>6, <1>7, <1>8, <1>9, <1>10,
             <1>11, <1>12, <1>13 DEF SessionsNext

-----------------------------------------------------------------------------
(* Keys.                                                                     *)

LEMMA InitKeys == SessionsInit => KeysRotate
  BY DEF SessionsInit, KeysRotate

LEMMA NextKeys ==
  Typed /\ KeysRotate /\ [SessionsNext]_sessionVars => KeysRotate'
  <1> SUFFICES ASSUME Typed, KeysRotate, [SessionsNext]_sessionVars
               PROVE  KeysRotate'
    OBVIOUS
  <1>a. /\ TokenLife \in Nat /\ Replicas # {}
        /\ \A tok \in tokens : tok.iat \in Int /\ tok.key \in Int
        /\ now \in Int /\ key \in Int /\ settled \in Int /\ settled <= now
        /\ running \in [Replicas -> {key - 1, key}]
    BY SessionsAssumption DEF Typed, WorkTyped, SecretsTyped, TokenSet
  <1>1. CASE Tick
    BY <1>1, <1>a DEF Tick, KeysRotate, secrets
  <1>2. CASE Rotate
    <2>1. /\ tokens' = tokens /\ now' = now /\ key' = key + 1
          /\ \A r \in Replicas : running'[r] = key
      BY <1>2 DEF Rotate
    <2>2. \A tok \in tokens : tok.key < key => ~(now < tok.iat + TokenLife)
      BY <1>2, <1>a DEF Rotate, KeysRotate
    <2>3. ~ \A r \in Replicas : running'[r] = key'
      BY <2>1, <1>a
    <2> QED BY <2>1, <2>2, <2>3, <1>a DEF KeysRotate
  <1>3. ASSUME NEW u \in Users, FinishLogin(u) PROVE KeysRotate'
    <2>1. login[u] \in LoginSet
      BY <1>3 DEF FinishLogin, Typed, WorkTyped
    <2>2. Issued(u).iat = now /\ Issued(u).key \in {key - 1, key}
          /\ ((\A r \in Replicas : running[r] = key) => Issued(u).key = key)
      BY <2>1, <1>a, IssuedFields DEF LoginSet
    <2> QED BY <1>3, <2>2, <1>a, IssuedAdded DEF KeysRotate
  <1>4. ASSUME NEW r \in Replicas, Restart(r) PROVE KeysRotate'
    <2>1. UNCHANGED <<now, key, tokens>>
      BY <1>4 DEF Restart
    <2>2. settled' \in {now, settled} /\ (settled' # now => running' = running
              \/ ~ \A s \in Replicas : running'[s] = key)
      BY <1>4 DEF Restart
    <2> QED BY <2>1, <2>2, <1>a DEF KeysRotate
  <1>5. CASE UNCHANGED <<now, secrets, tokens>>
    BY <1>5 DEF KeysRotate, secrets
  <1>6. ASSUME NEW u \in Users, NEW r \in Replicas, NEW t \in Tenants,
               StartLogin(u, r, t)
        PROVE  KeysRotate'
    BY <1>5, <1>6 DEF StartLogin
  <1>7. ASSUME NEW q \in Handlers, AskPolicy(q) \/ Answer(q) PROVE KeysRotate'
    BY <1>5, <1>7 DEF AskPolicy, Answer
  <1>8. ASSUME NEW q \in Handlers, NEW r \in Replicas, NEW tok \in tokens,
               NEW t \in Tenants, NEW perm \in Watched, Call(q, r, tok, t, perm)
        PROVE  KeysRotate'
    BY <1>5, <1>8 DEF Call
  <1>9. ASSUME NEW t \in Tenants, NEW plan \in Plans, ChangePlan(t, plan)
        PROVE  KeysRotate'
    BY <1>5, <1>9 DEF ChangePlan
  <1>10. ASSUME NEW p \in Watched, NEW row \in Edits, EditPolicy(p, row)
         PROVE  KeysRotate'
    BY <1>5, <1>10 DEF EditPolicy
  <1>11. ASSUME NEW role \in Roles, NEW p \in Watched, RevokePerm(role, p)
         PROVE  KeysRotate'
    BY <1>5, <1>11 DEF RevokePerm
  <1>12. CASE Reseed
    BY <1>5, <1>12 DEF Reseed
  <1>13. CASE UNCHANGED sessionVars
    BY <1>5, <1>13 DEF sessionVars
  <1> QED BY <1>1, <1>2, <1>3, <1>4, <1>6, <1>7, <1>8, <1>9, <1>10, <1>11,
             <1>12, <1>13 DEF SessionsNext

LEMMA RotationFromKeys == Typed /\ KeysRotate => SessionsSurviveRotation
  <1> SUFFICES ASSUME Typed, KeysRotate, NEW tok \in tokens, NEW r \in Replicas,
                      now < tok.iat + TokenLife
               PROVE  Accepts(r, tok) \/ running[r] < tok.key
    BY DEF SessionsSurviveRotation
  <1>1. tok.key \in Int /\ key \in Int /\ running[r] \in {key - 1, key}
    BY DEF Typed, WorkTyped, SecretsTyped, TokenSet
  <1>2. tok.key <= key /\ tok.key >= key - 1
    BY DEF KeysRotate
  <1> QED BY <1>1, <1>2 DEF Accepts

-----------------------------------------------------------------------------
(* Rights.                                                                   *)

LEMMA InitRights == SessionsInit => RightsInv
  BY DEF SessionsInit, RightsInv, TokensTrue, LoginsTrue, RequestsChecked,
         IdleRequest

\* Whatever is edited, a permission held or lost since `d' stays so.
LEMMA PermsFollowed ==
  ASSUME Typed, [SessionsNext]_sessionVars, NEW u \in Users,
         NEW p \in Permissions, NEW d \in Int, d <= now,
         p \in PermsOf(u) \/ lostAt[u][p] >= d
  PROVE  p \in PermsOf(u)' \/ lostAt'[u][p] >= d
  <1>a. /\ RolesOf[u] \subseteq Roles /\ now \in Int
        /\ lostAt[u] \in [Permissions -> Int]
        /\ lostAt \in [Users -> [Permissions -> Int]]
        /\ rolePerms \in [Roles -> SUBSET Permissions]
    BY SessionsAssumption DEF Typed, RightsTyped, SecretsTyped
  <1>1. CASE Reseed
    <2>1. lostAt' = lostAt /\ \A role \in Roles : rolePerms[role] \subseteq rolePerms'[role]
      BY <1>1 DEF Reseed
    <2> QED BY <2>1, <1>a DEF PermsOf
  <1>2. ASSUME NEW role \in Roles, NEW x \in Watched, RevokePerm(role, x)
        PROVE  p \in PermsOf(u)' \/ lostAt'[u][p] >= d
    <2>1. /\ rolePerms' = [rolePerms EXCEPT ![role] = @ \ {x}]
          /\ lostAt'[u] = IF x \in PermsOf(u)
                             /\ x \notin UNION {rolePerms'[ro] : ro \in RolesOf[u]}
                          THEN [lostAt[u] EXCEPT ![x] = now] ELSE lostAt[u]
      BY <1>2 DEF RevokePerm
    <2>2. PermsOf(u)' = UNION {rolePerms'[ro] : ro \in RolesOf[u]}
      BY DEF PermsOf
    <2>3. \A y : y # x /\ y \in PermsOf(u) => y \in PermsOf(u)'
      BY <2>1, <1>a DEF PermsOf
    <2>4. x \in Permissions
      BY <1>2, <1>a DEF RevokePerm
    <2>5. CASE p = x
      BY <2>1, <2>2, <2>4, <2>5, <1>a
    <2>6. CASE p # x
      BY <2>1, <2>3, <2>4, <2>6, <1>a
    <2> QED BY <2>5, <2>6
  <1>3. CASE UNCHANGED <<rolePerms, lostAt>>
    BY <1>3 DEF PermsOf
  <1> QED BY <1>1, <1>2, <1>3 DEF SessionsNext, sessionVars, rights, Tick, Rotate,
             FinishLogin, StartLogin, Call, AskPolicy, Answer, ChangePlan,
             EditPolicy, Restart

\* Whatever is edited, a plan had since `d', or left since, stays so.
LEMMA PlansFollowed ==
  ASSUME Typed, [SessionsNext]_sessionVars, NEW u \in Users,
         NEW plan \in Plans, NEW d \in Int, d <= now, PlanKept(u, plan, d)
  PROVE  PlanKeptAfter(u, plan, d)
  <1>a. /\ HomeOf[u] \in Tenants /\ now \in Int
        /\ leftAt \in [Tenants -> [Plans -> Int]]
        /\ planOf \in [Tenants -> Plans]
    BY SessionsAssumption DEF Typed, RightsTyped, SecretsTyped
  <1>1. ASSUME NEW t \in Tenants, NEW pl \in Plans, ChangePlan(t, pl)
        PROVE  PlanKeptAfter(u, plan, d)
    <2>1. /\ planOf' = [planOf EXCEPT ![t] = pl]
          /\ leftAt' = [leftAt EXCEPT ![t][planOf[t]] = now]
      BY <1>1 DEF ChangePlan
    <2>2. leftAt'[HomeOf[u]][plan] =
             IF t = HomeOf[u] /\ plan = planOf[t] THEN now
             ELSE leftAt[HomeOf[u]][plan]
      BY <2>1, <1>a
    <2> QED BY <2>1, <2>2, <1>a DEF PlanKept, PlanKeptAfter
  <1>2. CASE UNCHANGED <<planOf, leftAt>>
    BY <1>2 DEF PlanKept, PlanKeptAfter
  <1> QED BY <1>1, <1>2 DEF SessionsNext, sessionVars, rights, Tick, Rotate,
             FinishLogin, StartLogin, Call, AskPolicy, Answer, Reseed,
             EditPolicy, RevokePerm, Restart

LEMMA TokenTrueStays ==
  ASSUME Typed, TokensTrue, [SessionsNext]_sessionVars, NEW tok \in tokens,
         now <= now', now' \in Int
  PROVE  /\ tok.iat <= now'
         /\ PermsKept(tok)'
         /\ tok.sub \notin Admins => PlanKeptAfter(tok.sub, tok.plan, tok.began)
  <1>1. /\ tok.sub \in Users /\ tok.plan \in Plans /\ tok.iat \in Int
        /\ tok.began \in Int /\ tok.perms \subseteq Permissions
        /\ now \in Int
    BY DEF Typed, WorkTyped, SecretsTyped, TokenSet
  <1>2. /\ tok.began <= tok.iat /\ tok.iat <= now
        /\ \A p \in tok.perms : p \in PermsOf(tok.sub) \/ lostAt[tok.sub][p] >= tok.iat
        /\ tok.sub \notin Admins => PlanKept(tok.sub, tok.plan, tok.began)
    BY DEF TokensTrue, PermsKept
  <1>3. \A p \in tok.perms : p \in PermsOf(tok.sub)' \/ lostAt'[tok.sub][p] >= tok.iat
    BY <1>1, <1>2, PermsFollowed
  <1>4. tok.sub \notin Admins => PlanKeptAfter(tok.sub, tok.plan, tok.began)
    <2>1. tok.began <= now
      BY <1>1, <1>2
    <2> QED BY <1>1, <1>2, <2>1, PlansFollowed
  <1>5. tok.iat <= now'
    BY <1>1, <1>2
  <1>6. PermsKept(tok)'
    BY <1>3 DEF PermsKept
  <1> QED BY <1>4, <1>5, <1>6

LEMMA ClockForward ==
  ASSUME Typed, [SessionsNext]_sessionVars PROVE now' \in Int /\ now <= now'
  <1>1. now \in Int
    BY DEF Typed, SecretsTyped
  <1>2. now' = now + 1 \/ now' = now
    BY DEF SessionsNext, sessionVars, Tick, Rotate, Reseed, FinishLogin,
           StartLogin, Call, AskPolicy, Answer, ChangePlan, EditPolicy,
           RevokePerm, Restart
  <1> QED BY <1>1, <1>2

LEMMA NextTokensTrue ==
  ASSUME Typed, RightsInv, [SessionsNext]_sessionVars PROVE TokensTrue'
  <1>1. ASSUME NEW tok \in tokens
        PROVE  /\ tok.tid = IF tok.sub \in Admins THEN "*" ELSE HomeOf[tok.sub]
               /\ tok.roles = RolesOf[tok.sub]
               /\ tok.began <= tok.iat /\ tok.iat <= now'
               /\ PermsKept(tok)'
               /\ tok.sub \notin Admins => PlanKeptAfter(tok.sub, tok.plan, tok.began)
    <2>1. TokensTrue
      BY DEF RightsInv
    <2> QED BY <2>1, ClockForward, TokenTrueStays DEF TokensTrue
  <1>2. ASSUME NEW u \in Users, FinishLogin(u) PROVE TokensTrue'
    <2>1. login[u] # NoLogin /\ login[u] \in LoginSet /\ login[u].began <= now
          /\ (u \notin Admins => PlanKept(u, login[u].plan, login[u].began))
      BY <1>2 DEF RightsInv, LoginsTrue, FinishLogin
    <2>2. u \notin Admins => PlanKeptAfter(u, login[u].plan, login[u].began)
      BY <1>2, <2>1, IssuedAdded DEF PlanKept, PlanKeptAfter
    <2>3. now \in Int /\ now' = now /\ PermsOf(u)' = PermsOf(u)
      BY <1>2, IssuedAdded DEF PermsOf, Typed, SecretsTyped
    <2>4. ASSUME NEW tok, tok = Issued(u)
          PROVE  /\ tok.tid = IF tok.sub \in Admins THEN "*" ELSE HomeOf[tok.sub]
                 /\ tok.roles = RolesOf[tok.sub]
                 /\ tok.began <= tok.iat /\ tok.iat <= now'
                 /\ PermsKept(tok)'
                 /\ tok.sub \notin Admins =>
                       PlanKeptAfter(tok.sub, tok.plan, tok.began)
      <3>1. /\ tok.sub = u /\ tok.tid = (IF u \in Admins THEN "*" ELSE HomeOf[u])
            /\ tok.roles = RolesOf[u] /\ tok.perms = PermsOf(u)
            /\ tok.plan = login[u].plan /\ tok.iat = now
            /\ tok.began = login[u].began
        BY <2>4, IssuedFields
      <3>2. PermsKept(tok)'
        BY <2>3, <3>1 DEF PermsKept
      <3> QED BY <2>1, <2>2, <2>3, <3>1, <3>2
    <2>7. tokens' = tokens \cup {Issued(u)}
      BY <1>2, IssuedAdded
    <2>8. ASSUME NEW tok \in tokens'
          PROVE  /\ tok.tid = IF tok.sub \in Admins THEN "*" ELSE HomeOf[tok.sub]
                 /\ tok.roles = RolesOf[tok.sub]
                 /\ tok.began <= tok.iat /\ tok.iat <= now'
                 /\ PermsKept(tok)'
                 /\ tok.sub \notin Admins =>
                       PlanKeptAfter(tok.sub, tok.plan, tok.began)
      <3>1. CASE tok \in tokens
        BY <1>1, <3>1
      <3>2. CASE tok = Issued(u)
        BY <2>4, <3>2
      <3> QED BY <2>7, <3>1, <3>2
    <2> QED BY <2>8 DEF TokensTrue, PlanKept, PlanKeptAfter
  <1>3. CASE tokens' = tokens
    BY <1>1, <1>3 DEF TokensTrue, PlanKept, PlanKeptAfter
  <1> QED BY <1>2, <1>3 DEF SessionsNext, sessionVars, Tick, Rotate, Reseed,
             StartLogin, Call, AskPolicy, Answer, ChangePlan, EditPolicy,
             RevokePerm, Restart

LEMMA NextLoginsTrue ==
  ASSUME Typed, RightsInv, [SessionsNext]_sessionVars PROVE LoginsTrue'
  <1> DEFINE Kept(u) == /\ login[u] \in LoginSet /\ login[u].began <= now'
                        /\ u \notin Admins =>
                             PlanKeptAfter(u, login[u].plan, login[u].began)
  <1>a. now \in Int /\ now <= now' /\ now' \in Int
    BY ClockForward DEF Typed, SecretsTyped
  <1>1. ASSUME NEW u \in Users, login[u] # NoLogin PROVE Kept(u)
    <2>1. /\ login[u] \in LoginSet /\ login[u].began <= now
          /\ login[u].began \in Int /\ login[u].plan \in Plans
          /\ u \notin Admins => PlanKept(u, login[u].plan, login[u].began)
      BY <1>1 DEF RightsInv, LoginsTrue, LoginSet
    <2>2. login[u].began <= now'
      BY <1>a, <2>1
    <2> QED BY <2>1, <2>2, PlansFollowed
  <1>2. ASSUME NEW u \in Users, NEW r \in Replicas, NEW t \in Tenants,
               StartLogin(u, r, t)
        PROVE  LoginsTrue'
    <2> DEFINE new == [replica |-> r, plan |-> planOf[t], began |-> now]
    <2>1. new \in LoginSet /\ new.began = now /\ new.plan = planOf[t]
      BY <1>a DEF Typed, RightsTyped, LoginSet
    <2>2. u \notin Admins => PlanKeptAfter(u, new.plan, new.began)
      BY <1>2, <2>1 DEF StartLogin, PlanKeptAfter, rights
    <2>3. /\ login' = [login EXCEPT ![u] = new] /\ now' = now
          /\ login \in [Users -> LoginSet \cup {NoLogin}]
      BY <1>2 DEF StartLogin, Typed, WorkTyped
    <2> HIDE DEF new
    <2>4. ASSUME NEW v \in Users, login'[v] # NoLogin
          PROVE  /\ login'[v] \in LoginSet /\ login'[v].began <= now'
                 /\ v \notin Admins =>
                      PlanKeptAfter(v, login'[v].plan, login'[v].began)
      <3>1. CASE v = u
        BY <1>a, <2>1, <2>2, <2>3, <3>1
      <3>2. CASE v # u
        <4>1. login'[v] = login[v]
          BY <2>3, <3>2
        <4> QED BY <1>1, <2>4, <4>1
      <3> QED BY <3>1, <3>2
    <2> QED BY <2>4 DEF LoginsTrue, PlanKept, PlanKeptAfter
  <1>3. CASE \A u \in Users : login'[u] \in {login[u], NoLogin}
    <2>1. ASSUME NEW u \in Users, login'[u] # NoLogin
          PROVE  /\ login'[u] \in LoginSet /\ login'[u].began <= now'
                 /\ u \notin Admins =>
                      PlanKeptAfter(u, login'[u].plan, login'[u].began)
      <3>1. login'[u] = login[u]
        BY <1>3, <2>1
      <3> QED BY <1>1, <2>1, <3>1
    <2> QED BY <2>1 DEF LoginsTrue, PlanKept, PlanKeptAfter
  <1>4. ASSUME NEW u \in Users, FinishLogin(u) PROVE LoginsTrue'
    BY <1>3, <1>4, IssuedAdded DEF Typed, WorkTyped
  <1>5. ASSUME NEW r \in Replicas, Restart(r) PROVE LoginsTrue'
    BY <1>3, <1>5 DEF Restart
  <1>6. CASE UNCHANGED login
    BY <1>3, <1>6
  <1> QED BY <1>2, <1>4, <1>5, <1>6 DEF SessionsNext, sessionVars, Tick, Rotate,
             Reseed, Call, AskPolicy, Answer, ChangePlan, EditPolicy, RevokePerm

LEMMA NextRequestsChecked ==
  ASSUME Typed, RightsInv, [SessionsNext]_sessionVars PROVE RequestsChecked'
  <1> DEFINE Sound(rq) == /\ rq \in RequestSet /\ rq.token \in tokens
                          /\ rq.checked < rq.token.iat + TokenLife
                          /\ TenantGuard(rq.token, rq.tenant)
                          /\ PermissionsGuard(rq.token, rq.perm)
  <1>1. \A q \in Handlers : req[q].phase # "idle" => Sound(req[q])
    BY DEF RightsInv, RequestsChecked
  <1>2. tokens \subseteq tokens'
    BY IssuedAdded DEF SessionsNext, sessionVars, Tick, Rotate, Reseed,
       StartLogin, Call, AskPolicy, Answer, ChangePlan, EditPolicy,
       RevokePerm, Restart
  <1>3. ASSUME NEW q \in Handlers, NEW r \in Replicas, NEW tok \in tokens,
               NEW t \in Tenants, NEW perm \in Watched, Call(q, r, tok, t, perm)
        PROVE  \A p \in Handlers : req'[p].phase # "idle" => Sound(req'[p])
    <2> DEFINE new == [phase |-> "guards", token |-> tok, replica |-> r,
                       tenant |-> t, perm |-> perm, checked |-> now]
    <2>1. new \in RequestSet
      BY DEF Typed, WorkTyped, SecretsTyped, RequestSet
    <2>2. Sound(new)
      BY <1>3, <2>1 DEF Call, Accepts
    <2>3. req' = [req EXCEPT ![q] = new] /\ DOMAIN req = Handlers
      BY <1>3 DEF Call, Typed, WorkTyped
    <2> HIDE DEF new, Sound
    <2> QED BY <1>1, <2>2, <2>3
  <1>4. ASSUME NEW q \in Handlers, AskPolicy(q)
        PROVE  \A p \in Handlers : req'[p].phase # "idle" => Sound(req'[p])
    <2> DEFINE moved == [req[q] EXCEPT !.phase = "handler"]
    <2>1. req[q].phase # "idle"
      BY <1>4 DEF AskPolicy
    <2>2. Sound(moved)
      BY <1>1, <2>1 DEF RequestSet
    <2>3. /\ DOMAIN req = Handlers
          /\ req' = [req EXCEPT ![q] = moved] \/ req' = [req EXCEPT ![q] = IdleRequest]
      BY <1>4 DEF AskPolicy, Typed, WorkTyped
    <2>4. IdleRequest.phase = "idle"
      BY DEF IdleRequest
    <2> HIDE DEF moved, Sound
    <2> QED BY <1>1, <2>2, <2>3, <2>4
  <1>5. ASSUME \A q \in Handlers : req'[q] \in {req[q], IdleRequest}
        PROVE  \A q \in Handlers : req'[q].phase # "idle" => Sound(req'[q])
    <2>1. IdleRequest.phase = "idle"
      BY DEF IdleRequest
    <2>2. ASSUME NEW q \in Handlers, req'[q].phase # "idle" PROVE Sound(req'[q])
      <3>1. req'[q] = req[q]
        BY <1>5, <2>1, <2>2
      <3> QED BY <1>1, <2>2, <3>1
    <2> QED BY <2>2
  <1>6. ASSUME NEW q \in Handlers, Answer(q)
        PROVE  \A p \in Handlers : req'[p] \in {req[p], IdleRequest}
    BY <1>6 DEF Answer, Typed, WorkTyped
  <1>7. ASSUME NEW r \in Replicas, Restart(r)
        PROVE  \A p \in Handlers : req'[p] \in {req[p], IdleRequest}
    <2>1. ASSUME NEW p \in Handlers PROVE req'[p] \in {req[p], IdleRequest}
      BY <1>7 DEF Restart
    <2> QED BY <2>1
  <1>8. ASSUME UNCHANGED req
        PROVE  \A q \in Handlers : req'[q].phase # "idle" => Sound(req'[q])
    BY <1>5, <1>8
  <1>9. \A q \in Handlers : req'[q].phase # "idle" => Sound(req'[q])
    <2>1. ASSUME NEW u \in Users, FinishLogin(u) PROVE UNCHANGED req
      BY <2>1, IssuedAdded
    <2> HIDE DEF Sound
    <2> QED BY <1>3, <1>4, <1>5, <1>6, <1>7, <1>8, <2>1
        DEF SessionsNext, sessionVars, Tick, Rotate, Reseed, StartLogin,
            ChangePlan, EditPolicy, RevokePerm
  <1> QED BY <1>2, <1>9 DEF RequestsChecked

LEMMA NextRights ==
  Typed /\ RightsInv /\ [SessionsNext]_sessionVars => RightsInv'
  BY NextTokensTrue, NextLoginsTrue, NextRequestsChecked DEF RightsInv

LEMMA JustifiedFromRights == Typed /\ RightsInv => AdmissionsJustified
  <1> SUFFICES ASSUME Typed, RightsInv, NEW q \in Handlers,
                      req[q].phase = "handler", ~IsAdmin(req[q].token)
               PROVE  LET tok == req[q].token
                          since == req[q].checked - TokenLife
                      IN  /\ req[q].tenant = HomeOf[tok.sub]
                          /\ \/ req[q].perm \in PermsOf(tok.sub)
                             \/ lostAt[tok.sub][req[q].perm] > since
                          /\ \/ tok.plan = planOf[req[q].tenant]
                             \/ leftAt[req[q].tenant][tok.plan] >
                                    since - (tok.iat - tok.began)
    BY DEF AdmissionsJustified
  <1> DEFINE tok == req[q].token
  <1>1. /\ req[q] \in RequestSet /\ tok \in tokens
        /\ req[q].checked < tok.iat + TokenLife
        /\ TenantGuard(tok, req[q].tenant) /\ PermissionsGuard(tok, req[q].perm)
    BY DEF RightsInv, RequestsChecked
  <1>2. /\ tok.sub \in Users /\ tok.plan \in Plans /\ tok.iat \in Int
        /\ tok.began \in Int /\ tok.perms \subseteq Permissions
        /\ req[q].checked \in Int /\ TokenLife \in Int
        /\ req[q].tenant \in Tenants
    BY <1>1, SessionsAssumption DEF Typed, WorkTyped, TokenSet, RequestSet
  <1>3. /\ tok.tid = IF tok.sub \in Admins THEN "*" ELSE HomeOf[tok.sub]
        /\ tok.roles = RolesOf[tok.sub] /\ tok.began <= tok.iat
        /\ PermsKept(tok)
        /\ tok.sub \notin Admins => PlanKept(tok.sub, tok.plan, tok.began)
    BY <1>1 DEF RightsInv, TokensTrue
  <1>4. tok.sub \notin Admins
    BY <1>3, SessionsAssumption DEF IsAdmin
  <1>5. req[q].tenant = HomeOf[tok.sub]
    BY <1>1, <1>2, <1>3, <1>4, SessionsAssumption DEF TenantGuard
  <1>6. req[q].perm \in tok.perms
    BY <1>1 DEF PermissionsGuard
  <1>7. /\ lostAt[tok.sub][req[q].perm] \in Int
        /\ leftAt[HomeOf[tok.sub]][tok.plan] \in Int
    BY <1>2, <1>5, <1>6 DEF Typed, RightsTyped
  <1>8. \/ req[q].perm \in PermsOf(tok.sub)
        \/ lostAt[tok.sub][req[q].perm] >= tok.iat
    BY <1>3, <1>6 DEF PermsKept
  <1>9. \/ tok.plan = planOf[HomeOf[tok.sub]]
        \/ leftAt[HomeOf[tok.sub]][tok.plan] >= tok.began
    BY <1>3, <1>4 DEF PlanKept
  <1> HIDE DEF tok
  <1>10. \/ req[q].perm \in PermsOf(tok.sub)
         \/ lostAt[tok.sub][req[q].perm] > req[q].checked - TokenLife
    BY <1>1, <1>2, <1>7, <1>8
  <1>11. \/ tok.plan = planOf[req[q].tenant]
         \/ leftAt[req[q].tenant][tok.plan] >
                req[q].checked - TokenLife - (tok.iat - tok.began)
    BY <1>1, <1>2, <1>5, <1>7, <1>9
  <1> QED BY <1>5, <1>10, <1>11 DEF tok

-----------------------------------------------------------------------------
(* The theorems.                                                             *)

\* Rotating the signing key ends no session, however often it is rotated and
\* in whatever order the replicas restart.
THEOREM RotationEndsNoSession == SessionsSpec => []SessionsSurviveRotation
  <1>1. SessionsInit => Typed /\ KeysRotate
    BY InitTyped, InitKeys
  <1>2. Typed /\ KeysRotate /\ [SessionsNext]_sessionVars
          => (Typed /\ KeysRotate)'
    BY NextTyped, NextKeys
  <1>3. Typed /\ KeysRotate => SessionsSurviveRotation
    BY RotationFromKeys
  <1> QED BY <1>1, <1>2, <1>3, PTL DEF SessionsSpec

\* Whoever runs a handler was entitled to it less than the life of a token
\* before the guards let him in, and in no tenant but his own.
THEOREM HandlersRunForTheEntitled == SessionsSpec => []AdmissionsJustified
  <1>1. SessionsInit => Typed /\ RightsInv
    BY InitTyped, InitRights
  <1>2. Typed /\ RightsInv /\ [SessionsNext]_sessionVars => (Typed /\ RightsInv)'
    BY NextTyped, NextRights
  <1>3. Typed /\ RightsInv => AdmissionsJustified
    BY JustifiedFromRights
  <1> QED BY <1>1, <1>2, <1>3, PTL DEF SessionsSpec

\* No edit of a policy and no plan list makes a higher plan worth less.
THEOREM HigherPlansNeverLoseAccess == SessionsSpec => []HigherPlansKeepAccess
  <1>1. ASSUME NEW row, NEW a \in DOMAIN Tiers, NEW b \in DOMAIN Tiers,
               Tiers[a] <= Tiers[b], PolicyAdmits(row, a, "")
        PROVE  PolicyAdmits(row, b, "")
    <2>1. ASSUME NEW plan \in DOMAIN Tiers
          PROVE  NormalPlan(plan) = plan /\ Tiers[plan] \in Int
      <3>1. DOMAIN Tiers = {"free", "starter", "pro", "enterprise"}
        BY DEF Tiers
      <3>2. /\ Tiers["free"] = 0 /\ Tiers["starter"] = 1
            /\ Tiers["pro"] = 2 /\ Tiers["enterprise"] = 3
        BY DEF Tiers
      <3>3. Tiers[plan] \in Int
        BY <3>1, <3>2
      <3>4. NormalPlan(plan) = plan
        BY <3>1 DEF NormalPlan
      <3> QED BY <3>3, <3>4
    <2>2. \A plans : PlanAllowed(a, plans) => PlanAllowed(b, plans)
      <3>1. ASSUME NEW plans, a \in plans PROVE PlanAllowed(b, plans)
        BY <3>1, <1>1 DEF PlanAllowed
      <3>2. ASSUME NEW plans, NEW p \in plans \cap DOMAIN Tiers,
                   Tiers[a] >= Tiers[p]
            PROVE  PlanAllowed(b, plans)
        <4> DEFINE lower == Tiers[p]  mid == Tiers[a]  upper == Tiers[b]
        <4>1. lower \in Int /\ mid \in Int /\ upper \in Int
          BY <2>1
        <4>2. mid >= lower /\ mid <= upper
          BY <1>1, <3>2
        <4> HIDE DEF lower, mid, upper
        <4>3. upper >= lower
          BY <4>1, <4>2
        <4> USE DEF lower, upper
        <4> QED BY <4>3 DEF PlanAllowed
      <3> QED BY <3>1, <3>2 DEF PlanAllowed
    <2> QED BY <1>1, <2>1, <2>2 DEF PolicyAdmits
  <1>2. HigherPlansKeepAccess
    BY <1>1 DEF HigherPlansKeepAccess
  <1> QED BY <1>2, PTL


-----------------------------------------------------------------------------
(* EventStreams: the inductive invariant.                                    *)

ConnSet == [phase : {"guards", "hungup", "open", "ghost"},
            tenant : Tenants, process : Replicas]

StreamsTyped ==
    /\ conn \in [Clients -> ConnSet \cup {Away}]
    /\ clients \in [Replicas -> SUBSET Clients]
    /\ commits \in Seq(Tenants)
    /\ pending \subseteq Replicas \X (1..Len(commits))
    /\ told \subseteq Replicas \X (1..Len(commits))
    /\ heard \in [Clients -> Seq(Nat)]
    /\ before \in [Clients -> SUBSET told]

\* A client is in the Map of the process its connection leads to, from its
\* subscription to the end of the connection, or for ever if that came first.
MapsTrue ==
    /\ \A p \in Replicas : \A c \in clients[p] :
          conn[c].phase \in {"open", "ghost"} /\ conn[c].process = p
    /\ \A c \in Clients :
          /\ conn[c].phase = "open" => c \in clients[conn[c].process]
          /\ conn[c].phase \in {"hungup", "ghost"} => c \in early

\* No commit is broadcast twice.
ToldOnce == pending \cap told = {}

StreamsInv == StreamsTyped /\ MapsTrue /\ ToldOnce /\ HeardExactly

-----------------------------------------------------------------------------
(* What has been heard.                                                      *)

LEMMA HeardNothing == IsInjective(<<>>) /\ ToSet(<<>>) = {}
  BY DEF IsInjective, ToSet

LEMMA HeardOneMore ==
  ASSUME NEW s \in Seq(Nat), NEW n \in Nat
  PROVE  /\ Append(s, n) \in Seq(Nat)
         /\ ToSet(Append(s, n)) = ToSet(s) \cup {n}
         /\ IsInjective(s) /\ n \notin ToSet(s) => IsInjective(Append(s, n))
  <1> DEFINE t == Append(s, n)
  <1>1. /\ t \in Seq(Nat) /\ Len(t) = Len(s) + 1 /\ Len(s) \in Nat
        /\ \A i \in 1..Len(s) : t[i] = s[i]
        /\ t[Len(s) + 1] = n
        /\ DOMAIN s = 1..Len(s) /\ DOMAIN t = 1..Len(t)
    BY AppendProperties
  <1> HIDE DEF t
  <1>2. ToSet(t) = ToSet(s) \cup {n}
    <2>1. ASSUME NEW x \in ToSet(t) PROVE x \in ToSet(s) \cup {n}
      <3>1. PICK i \in DOMAIN t : x = t[i]
        BY <2>1 DEF ToSet
      <3>2. CASE i = Len(s) + 1
        BY <1>1, <3>1, <3>2
      <3>3. CASE i \in DOMAIN s
        BY <1>1, <3>1, <3>3 DEF ToSet
      <3> QED BY <1>1, <3>1, <3>2, <3>3
    <2>2. ASSUME NEW x \in ToSet(s) PROVE x \in ToSet(t)
      <3>1. PICK i \in DOMAIN s : x = s[i]
        BY <2>2 DEF ToSet
      <3>2. i \in DOMAIN t /\ t[i] = x
        BY <1>1, <3>1
      <3> QED BY <3>2 DEF ToSet
    <2>3. n \in ToSet(t)
      <3>1. Len(s) + 1 \in DOMAIN t
        BY <1>1
      <3> QED BY <1>1, <3>1 DEF ToSet
    <2> QED BY <2>1, <2>2, <2>3
  <1>3. ASSUME IsInjective(s), n \notin ToSet(s) PROVE IsInjective(t)
    <2>1. ASSUME NEW i \in DOMAIN t, NEW j \in DOMAIN t, t[i] = t[j] PROVE i = j
      <3>1. \A k \in DOMAIN s : s[k] # n
        BY <1>3 DEF ToSet
      <3> QED BY <1>1, <1>3, <2>1, <3>1, SMTT(30) DEF IsInjective
    <2> QED BY <2>1 DEF IsInjective
  <1> QED BY <1>1, <1>2, <1>3 DEF t

LEMMA OneMoreCommit ==
  ASSUME StreamsTyped, NEW t \in Tenants, commits' = Append(commits, t)
  PROVE  /\ commits' \in Seq(Tenants) /\ Len(commits') = Len(commits) + 1
         /\ Len(commits) \in Nat /\ DOMAIN commits = 1..Len(commits)
         /\ DOMAIN commits' = 1..(Len(commits) + 1)
         /\ \A n \in 1..Len(commits) : commits'[n] = commits[n]
         /\ 1..Len(commits) \subseteq 1..Len(commits')
  <1>1. commits \in Seq(Tenants)
    BY DEF StreamsTyped
  <1> QED BY <1>1, AppendProperties

-----------------------------------------------------------------------------
(* Types and the Map.                                                        *)

LEMMA InitStreams == StreamsInit => StreamsInv
  <1> SUFFICES ASSUME StreamsInit PROVE StreamsInv
    OBVIOUS
  <1>1. \A c \in Clients : conn[c].phase = "away"
    BY DEF StreamsInit, Away
  <1>2. StreamsTyped /\ ToldOnce
    BY DEF StreamsInit, StreamsTyped, ToldOnce
  <1>3. MapsTrue /\ HeardExactly
    BY <1>1 DEF StreamsInit, MapsTrue, HeardExactly
  <1> QED BY <1>2, <1>3 DEF StreamsInv

LEMMA NextStreamsTyped ==
  ASSUME StreamsInv, [StreamsNext]_streamVars PROVE StreamsTyped'
  <1> USE DEF StreamsInv, StreamsTyped, feed
  <1>1. ASSUME NEW c \in Clients, NEW p \in Replicas, NEW t \in Tenants,
               Connect(c, p, t)
        PROVE  StreamsTyped'
    <2>1. [phase |-> "guards", tenant |-> t, process |-> p] \in ConnSet
      BY DEF ConnSet
    <2> QED BY <1>1, <2>1 DEF Connect
  <1>2. ASSUME NEW c \in Clients, Subscribe(c) PROVE StreamsTyped'
    <2>1. conn[c] \in ConnSet
      BY <1>2 DEF Subscribe, Away
    <2> DEFINE ph == IF conn[c].phase = "guards" THEN "open" ELSE "ghost"
    <2>2. ph \in {"open", "ghost"}
      OBVIOUS
    <2>3. conn' = [conn EXCEPT ![c] = [conn[c] EXCEPT !.phase = ph]]
      BY <1>2 DEF Subscribe
    <2> HIDE DEF ph
    <2>4. [conn[c] EXCEPT !.phase = ph] \in ConnSet
      BY <2>1, <2>2 DEF ConnSet
    <2>5. conn' \in [Clients -> ConnSet \cup {Away}]
      BY <2>3, <2>4
    <2>6. clients' \in [Replicas -> SUBSET Clients]
      BY <1>2 DEF Subscribe
    <2>7. heard' \in [Clients -> Seq(Nat)]
      BY <1>2 DEF Subscribe
    <2> QED BY <1>2, <2>5, <2>6, <2>7 DEF Subscribe
  <1>3. ASSUME NEW c \in Clients, HangUpEarly(c) PROVE StreamsTyped'
    <2>1. conn[c] \in ConnSet
      BY <1>3 DEF HangUpEarly, Away
    <2>2. [conn[c] EXCEPT !.phase = "hungup"] \in ConnSet
      BY <2>1 DEF ConnSet
    <2> QED BY <1>3, <2>2 DEF HangUpEarly
  <1>4. ASSUME NEW c \in Clients, HangUp(c) PROVE StreamsTyped'
    BY <1>4 DEF HangUp
  <1>5. ASSUME NEW p \in Replicas, NEW t \in Tenants, CommitCommand(p, t)
        PROVE  StreamsTyped'
    <2>1. commits' = Append(commits, t) /\ Len(commits') \in 1..Len(commits')
      BY <1>5, OneMoreCommit DEF CommitCommand
    <2> QED BY <1>5, <2>1, OneMoreCommit DEF CommitCommand
  <1>6. ASSUME NEW t \in Tenants, CommitWorker(t) PROVE StreamsTyped'
    <2>1. commits' = Append(commits, t)
      BY <1>6 DEF CommitWorker
    <2> QED BY <1>6, <2>1, OneMoreCommit DEF CommitWorker
  <1>7. ASSUME NEW x \in pending, Broadcast(x[1], x[2]) PROVE StreamsTyped'
    <2>1. x \in Replicas \X (1..Len(commits)) /\ x = <<x[1], x[2]>> /\ x[2] \in Nat
      OBVIOUS
    <2>2. heard' \in [Clients -> Seq(Nat)]
      BY <1>7, <2>1, HeardOneMore DEF Broadcast
    <2> QED BY <1>7, <2>1, <2>2 DEF Broadcast
  <1>8. ASSUME NEW x \in pending, LoseBroadcast(x[1], x[2]) PROVE StreamsTyped'
    BY <1>8 DEF LoseBroadcast
  <1>9. ASSUME NEW p \in Replicas, Crash(p) PROVE StreamsTyped'
    BY <1>9 DEF Crash
  <1>10. CASE UNCHANGED streamVars
    BY <1>10 DEF streamVars
  <1> QED BY <1>1, <1>2, <1>3, <1>4, <1>5, <1>6, <1>7, <1>8, <1>9, <1>10
          DEF StreamsNext

LEMMA NextMapsTrue ==
  ASSUME StreamsInv, [StreamsNext]_streamVars PROVE MapsTrue'
  <1> USE DEF MapsTrue
  <1>a. /\ conn \in [Clients -> ConnSet \cup {Away}] /\ MapsTrue
        /\ clients \in [Replicas -> SUBSET Clients] /\ Away.phase = "away"
    BY DEF StreamsInv, StreamsTyped, Away
  <1>b. \A c \in Clients : conn[c].phase = "open" => conn[c].process \in Replicas
    BY <1>a DEF ConnSet
  <1>1. ASSUME NEW c \in Clients, NEW p \in Replicas, NEW t \in Tenants,
               Connect(c, p, t)
        PROVE  MapsTrue'
    BY <1>1, <1>a DEF Connect
  <1>2. ASSUME NEW c \in Clients, Subscribe(c) PROVE MapsTrue'
    <2>1. conn[c] \in ConnSet /\ conn[c].process \in Replicas
      BY <1>2, <1>a DEF Subscribe, ConnSet
    <2>2. /\ conn'[c].process = conn[c].process
          /\ conn'[c].phase = IF conn[c].phase = "guards" THEN "open" ELSE "ghost"
          /\ \A d \in Clients : d # c => conn'[d] = conn[d]
      BY <1>2, <1>a, <2>1 DEF Subscribe, ConnSet
    <2>3. /\ clients' = [clients EXCEPT ![conn[c].process] = @ \cup {c}]
          /\ early' = early
          /\ conn[c].phase # "guards" => c \in early
      BY <1>2, <1>a DEF Subscribe
    <2>4. \A p \in Replicas : clients'[p] =
             IF p = conn[c].process THEN clients[p] \cup {c} ELSE clients[p]
      BY <1>a, <2>3
    <2> QED BY <1>a, <2>1, <2>2, <2>3, <2>4
  <1>3. ASSUME NEW c \in Clients, HangUpEarly(c) PROVE MapsTrue'
    <2>1. conn[c] \in ConnSet
      BY <1>3, <1>a DEF HangUpEarly
    <2>2. /\ conn'[c].phase = "hungup"
          /\ \A d \in Clients : d # c => conn'[d] = conn[d]
          /\ clients' = clients /\ early' = early \cup {c}
      BY <1>3, <1>a, <2>1 DEF HangUpEarly, ConnSet
    <2>3. \A p \in Replicas : c \notin clients[p]
      BY <1>3, <1>a DEF HangUpEarly
    <2> QED BY <1>a, <2>2, <2>3
  <1>4. ASSUME NEW c \in Clients, HangUp(c) PROVE MapsTrue'
    <2>1. conn'[c] = Away /\ \A d \in Clients : d # c => conn'[d] = conn[d]
      BY <1>4, <1>a DEF HangUp
    <2>2. \A p \in Replicas : clients'[p] =
             IF p = conn[c].process THEN clients[p] \ {c} ELSE clients[p]
      BY <1>4, <1>a DEF HangUp
    <2>3. early' = early
      BY <1>4 DEF HangUp
    <2>4. ASSUME NEW p \in Replicas, NEW d \in clients'[p]
          PROVE  conn'[d].phase \in {"open", "ghost"} /\ conn'[d].process = p
      <3>1. d \in clients[p] /\ d \in Clients
        BY <1>a, <2>2
      <3>2. conn[d].phase \in {"open", "ghost"} /\ conn[d].process = p
        BY <1>a, <3>1
      <3>3. d # c
        BY <2>2, <3>2
      <3> QED BY <2>1, <3>1, <3>2, <3>3
    <2>5. ASSUME NEW d \in Clients
          PROVE  /\ conn'[d].phase = "open" => d \in clients'[conn'[d].process]
                 /\ conn'[d].phase \in {"hungup", "ghost"} => d \in early'
      <3>1. CASE d = c
        BY <1>a, <2>1, <3>1
      <3>2. CASE d # c
        <4>1. conn'[d] = conn[d]
          BY <2>1, <3>2
        <4>2. conn[d].phase = "open" => d \in clients'[conn[d].process]
          BY <1>a, <1>b, <2>2, <3>2, ZenonT(60)
        <4>3. conn[d].phase \in {"hungup", "ghost"} => d \in early
          BY <1>a
        <4> QED BY <2>3, <4>1, <4>2, <4>3
      <3> QED BY <3>1, <3>2
    <2> QED BY <2>4, <2>5
  <1>5. ASSUME NEW p \in Replicas, Crash(p) PROVE MapsTrue'
    <2>1. \A d \in Clients : conn'[d] =
             IF conn[d] = Away THEN Away
             ELSE IF conn[d].process = p THEN Away ELSE conn[d]
      BY <1>5 DEF Crash
    <2>2. \A q \in Replicas : clients'[q] = IF q = p THEN {} ELSE clients[q]
      BY <1>5, <1>a DEF Crash
    <2>3. early' = early
      BY <1>5 DEF Crash
    <2>4. ASSUME NEW q \in Replicas, NEW d \in clients'[q]
          PROVE  conn'[d].phase \in {"open", "ghost"} /\ conn'[d].process = q
      BY <1>a, <2>1, <2>2
    <2>5. ASSUME NEW d \in Clients
          PROVE  /\ conn'[d].phase = "open" => d \in clients'[conn'[d].process]
                 /\ conn'[d].phase \in {"hungup", "ghost"} => d \in early'
      <3>1. CASE conn'[d] = Away
        BY <1>a, <3>1
      <3>2. CASE conn'[d] # Away
        <4>1. conn'[d] = conn[d] /\ conn[d].process # p
          BY <2>1, <3>2
        <4> QED BY <1>a, <1>b, <2>2, <2>3, <4>1
      <3> QED BY <3>1, <3>2
    <2> QED BY <2>4, <2>5
  <1>6. CASE UNCHANGED <<conn, clients, early>>
    BY <1>6, <1>a
  <1> QED BY <1>1, <1>2, <1>3, <1>4, <1>5, <1>6 DEF StreamsNext, streamVars,
             CommitCommand, CommitWorker, Broadcast, LoseBroadcast

LEMMA NextToldOnce ==
  ASSUME StreamsInv, [StreamsNext]_streamVars PROVE ToldOnce'
  <1>1. ASSUME NEW p \in Replicas, NEW t \in Tenants, CommitCommand(p, t)
        PROVE  ToldOnce'
    <2>1. /\ Len(commits') = Len(commits) + 1 /\ Len(commits) \in Nat
          /\ told \subseteq Replicas \X (1..Len(commits)) /\ pending \cap told = {}
      BY <1>1, OneMoreCommit DEF CommitCommand, StreamsInv, StreamsTyped, ToldOnce
    <2>2. <<p, Len(commits')>> \notin told
      BY <2>1
    <2> QED BY <1>1, <2>1, <2>2 DEF CommitCommand, ToldOnce
  <1>2. ASSUME NEW x \in pending, Broadcast(x[1], x[2]) PROVE ToldOnce'
    BY <1>2 DEF Broadcast, StreamsInv, ToldOnce
  <1>3. CASE told' = told /\ pending' \subseteq pending
    BY <1>3 DEF StreamsInv, ToldOnce
  <1> QED BY <1>1, <1>2, <1>3 DEF StreamsNext, streamVars, feed, Connect,
             Subscribe, HangUpEarly, HangUp, CommitWorker, LoseBroadcast, Crash

-----------------------------------------------------------------------------
(* What an open stream has carried.                                          *)

\* A step that says nothing to a stream owes it nothing.
LEMMA NothingOwed ==
  ASSUME StreamsInv, NEW c \in Clients, conn[c].phase = "open",
         conn'[c] = conn[c], heard'[c] = heard[c], before'[c] = before[c],
         told' = told, commits' = commits
  PROVE  /\ IsInjective(heard'[c])
         /\ ToSet(heard'[c]) =
               {n \in DOMAIN commits' :
                   /\ <<conn'[c].process, n>> \in told' \ before'[c]
                   /\ commits'[n] = conn'[c].tenant}
  BY DEF StreamsInv, HeardExactly

LEMMA NextHeardExactly ==
  ASSUME StreamsInv, [StreamsNext]_streamVars PROVE HeardExactly'
  <1> DEFINE Carried(c) ==
        /\ IsInjective(heard'[c])
        /\ ToSet(heard'[c]) =
              {n \in DOMAIN commits' :
                  /\ <<conn'[c].process, n>> \in told' \ before'[c]
                  /\ commits'[n] = conn'[c].tenant}
  <1> SUFFICES ASSUME NEW c \in Clients, conn'[c].phase = "open" PROVE Carried(c)
    BY DEF HeardExactly
  <1>a. /\ conn \in [Clients -> ConnSet \cup {Away}] /\ Away.phase = "away"
        /\ heard \in [Clients -> Seq(Nat)] /\ before \in [Clients -> SUBSET told]
        /\ told \subseteq Replicas \X (1..Len(commits)) /\ pending \cap told = {}
        /\ pending \subseteq Replicas \X (1..Len(commits))
        /\ commits \in Seq(Tenants) /\ DOMAIN commits = 1..Len(commits)
    BY DEF StreamsInv, StreamsTyped, ToldOnce, Away
  <1>b. conn[c].phase = "open" =>
          /\ IsInjective(heard[c])
          /\ ToSet(heard[c]) = {n \in DOMAIN commits :
                 /\ <<conn[c].process, n>> \in told \ before[c]
                 /\ commits[n] = conn[c].tenant}
    BY DEF StreamsInv, HeardExactly
  <1>1. ASSUME conn[c].phase = "open", conn'[c] = conn[c], heard'[c] = heard[c],
               before'[c] = before[c], told' = told, commits' = commits
        PROVE  Carried(c)
    BY <1>1, NothingOwed
  <1>2. ASSUME NEW d \in Clients, NEW p \in Replicas, NEW t \in Tenants,
               Connect(d, p, t)
        PROVE  Carried(c)
    BY <1>1, <1>2, <1>a DEF Connect, feed
  <1>3. ASSUME NEW d \in Clients, Subscribe(d) PROVE Carried(c)
    <2>1. CASE d = c
      <3>1. heard'[c] = <<>> /\ before'[c] = told /\ told' = told
        BY <1>3, <1>a, <2>1 DEF Subscribe, feed
      <3> QED BY <3>1, HeardNothing
    <2>2. CASE d # c
      BY <1>1, <1>3, <1>a, <2>2 DEF Subscribe, feed
    <2> QED BY <2>1, <2>2
  <1>4. ASSUME NEW d \in Clients, HangUpEarly(d) \/ HangUp(d) PROVE Carried(c)
    <2>1. d # c
      <3>1. ASSUME HangUpEarly(d), d = c PROVE FALSE
        <4>1. conn[c] \in ConnSet
          BY <3>1, <1>a DEF HangUpEarly
        <4> QED BY <3>1, <4>1, <1>a DEF HangUpEarly, ConnSet
      <3> QED BY <1>4, <1>a, <3>1 DEF HangUp
    <2> QED BY <1>1, <1>4, <1>a, <2>1 DEF HangUpEarly, HangUp, feed
  <1>5. ASSUME NEW t \in Tenants, commits' = Append(commits, t),
               UNCHANGED <<conn, told, heard, before>>
        PROVE  Carried(c)
    <2>1. /\ DOMAIN commits' = 1..(Len(commits) + 1) /\ Len(commits) \in Nat
          /\ \A n \in 1..Len(commits) : commits'[n] = commits[n]
      BY <1>5, OneMoreCommit DEF StreamsInv
    <2>2. \A q : <<q, Len(commits) + 1>> \notin told
      BY <1>a, <2>1
    <2>3. {n \in DOMAIN commits' : /\ <<conn[c].process, n>> \in told \ before[c]
                                   /\ commits'[n] = conn[c].tenant}
            = {n \in DOMAIN commits : /\ <<conn[c].process, n>> \in told \ before[c]
                                      /\ commits[n] = conn[c].tenant}
      BY <1>a, <2>1, <2>2
    <2> QED BY <1>5, <1>b, <2>3
  <1>6. ASSUME NEW x \in pending, Broadcast(x[1], x[2]) PROVE Carried(c)
    <2> DEFINE p == x[1]
               n == x[2]
    <2>1. /\ x = <<p, n>> /\ p \in Replicas /\ n \in 1..Len(commits) /\ n \in Nat
          /\ <<p, n>> \notin told
      <3>1. x \in Replicas \X (1..Len(commits)) /\ x \notin told
        BY <1>a
      <3>2. x = <<x[1], x[2]>> /\ x[1] \in Replicas /\ x[2] \in 1..Len(commits)
        BY <3>1
      <3> QED BY <3>1, <3>2
    <2>2. /\ told' = told \cup {<<p, n>>} /\ UNCHANGED <<conn, commits, before>>
          /\ heard'[c] = IF c \in clients[p] /\ conn[c].tenant = commits[n]
                         THEN Append(heard[c], n) ELSE heard[c]
      BY <1>6 DEF Broadcast
    <2>3. /\ c \in clients[conn[c].process]
          /\ \A q \in Replicas : c \in clients[q] => conn[c].process = q
      BY <2>2 DEF StreamsInv, MapsTrue
    <2> HIDE DEF p, n
    <2>4. <<p, n>> \notin before[c] /\ heard[c] \in Seq(Nat)
      BY <1>a, <2>1
    <2>5. CASE conn[c].process = p /\ conn[c].tenant = commits[n]
      <3>1. heard'[c] = Append(heard[c], n)
        BY <2>2, <2>3, <2>5
      <3>2. n \notin ToSet(heard[c])
        BY <1>b, <2>1, <2>2, <2>5
      <3>3. /\ IsInjective(heard'[c])
            /\ ToSet(heard'[c]) = ToSet(heard[c]) \cup {n}
        BY <1>b, <2>1, <2>2, <2>4, <3>1, <3>2, HeardOneMore
      <3>4. {m \in DOMAIN commits : /\ <<p, m>> \in told' \ before[c]
                                    /\ commits[m] = conn[c].tenant}
              = {m \in DOMAIN commits : /\ <<p, m>> \in told \ before[c]
                                        /\ commits[m] = conn[c].tenant} \cup {n}
        BY <1>a, <2>1, <2>2, <2>4, <2>5
      <3> QED BY <1>b, <2>2, <2>5, <3>3, <3>4
    <2>6. CASE ~(conn[c].process = p /\ conn[c].tenant = commits[n])
      <3>1. heard'[c] = heard[c]
        BY <2>1, <2>2, <2>3, <2>6
      <3>2. {m \in DOMAIN commits : /\ <<conn[c].process, m>> \in told' \ before[c]
                                    /\ commits[m] = conn[c].tenant}
              = {m \in DOMAIN commits : /\ <<conn[c].process, m>> \in told \ before[c]
                                        /\ commits[m] = conn[c].tenant}
        BY <2>2, <2>6
      <3> QED BY <1>b, <2>2, <3>1, <3>2
    <2> QED BY <2>5, <2>6
  <1>7. ASSUME NEW p \in Replicas, Crash(p) PROVE Carried(c)
    <2>1. conn'[c] = conn[c]
      BY <1>7, <1>a DEF Crash
    <2> QED BY <1>1, <1>7, <2>1 DEF Crash
  <1>8. ASSUME NEW x \in pending, LoseBroadcast(x[1], x[2]) PROVE Carried(c)
    BY <1>1, <1>8 DEF LoseBroadcast
  <1>9. ASSUME NEW p \in Replicas, NEW t \in Tenants, CommitCommand(p, t)
        PROVE  Carried(c)
    BY <1>5, <1>9 DEF CommitCommand
  <1>10. ASSUME NEW t \in Tenants, CommitWorker(t) PROVE Carried(c)
    BY <1>5, <1>10 DEF CommitWorker
  <1>11. CASE UNCHANGED streamVars
    BY <1>1, <1>11 DEF streamVars
  <1> HIDE DEF Carried
  <1> QED BY <1>2, <1>3, <1>4, <1>6, <1>7, <1>8, <1>9, <1>10, <1>11 DEF StreamsNext

LEMMA NextStreams == StreamsInv /\ [StreamsNext]_streamVars => StreamsInv'
  BY NextStreamsTyped, NextMapsTrue, NextToldOnce, NextHeardExactly DEF StreamsInv

LEMMA GhostsFromMaps == StreamsInv => GhostsHungUpEarly
  BY DEF StreamsInv, StreamsTyped, MapsTrue, GhostsHungUpEarly

-----------------------------------------------------------------------------
(* The theorems.                                                             *)

\* Whatever connects, hangs up, commits and crashes, an open stream carries
\* each update of its tenant that its process broadcasts once, and no other.
THEOREM StreamsCarryTheirOwn == StreamsSpec => []HeardExactly
  <1>1. StreamsInv => HeardExactly
    BY DEF StreamsInv
  <1> QED BY <1>1, InitStreams, NextStreams, PTL DEF StreamsSpec

\* Only a client that hung up before its handler ran stays in a Map.
THEOREM MapsForgetTheGone == StreamsSpec => []GhostsHungUpEarly
  <1> QED BY InitStreams, NextStreams, GhostsFromMaps, PTL DEF StreamsSpec
=============================================================================
