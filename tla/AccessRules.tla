---------------------------- MODULE AccessRules ----------------------------
(***************************************************************************)
(* What the guards of the API decide, as pure operators: the permission of  *)
(* every route, the tenant and permission checks on the claims of a token,  *)
(* the plan and region rules of AbacGuard, and the tables the seed ships.   *)
(*                                                                          *)
(* Abstracted: claims and lists are taken trimmed and in lower case, as the *)
(* guard makes them; a list of a policy that is no JSON array is Malformed. *)
(***************************************************************************)
EXTENDS Integers, FiniteSets

CONSTANT Malformed

-----------------------------------------------------------------------------
(* The routes behind all four guards, by controller, and their permissions.  *)

OrderRoutes == [
    create |-> "orders:write", confirm |-> "orders:write",
    ship |-> "orders:write", deliver |-> "orders:write",
    cancel |-> "orders:write", getOne |-> "orders:read",
    list |-> "orders:read"]

InventoryRoutes == [
    list |-> "inventory:read",
    createAdjustment |-> "inventory:write",
    listAdjustments |-> "inventory:read"]

ProductRoutes == [
    getCategories |-> "products:read",
    getPriceRange |-> "products:read",
    list |-> "products:read", getOne |-> "products:read",
    create |-> "products:write", update |-> "products:write",
    remove |-> "products:write"]

ImportRoutes == [
    importProducts |-> "admin:write",
    importInventory |-> "admin:write",
    importOrders |-> "admin:write"]

WebhookRoutes == [
    register |-> "webhooks:write", list |-> "webhooks:read",
    remove |-> "webhooks:write", deliveries |-> "webhooks:read"]

AdminRoutes == [getChaos |-> "admin:write",
                setChaos |-> "admin:write"]

EventRoutes == [stream |-> "orders:read",
                getClientCount |-> "orders:read"]

AuditRoutes == [list |-> "audit:read", export |-> "audit:read"]

AnalyticsRoutes == [
    getDemand |-> "analytics:read",
    getAnomalies |-> "analytics:read",
    getInventoryForecast |-> "analytics:read"]

ExportRoutes == [
    exportOrders |-> "analytics:read",
    exportProducts |-> "analytics:read",
    exportInventory |-> "analytics:read"]

AssistantRoutes == [
    getForCustomer |-> "analytics:read",
    getTrending |-> "analytics:read",
    getFrequentlyBoughtTogether |-> "analytics:read",
    getPersonalizedFeed |-> "analytics:read"]

SearchRoutes == [searchOrders |-> "analytics:read",
                 searchProducts |-> "analytics:read"]

Asked(routes) == {routes[r] : r \in DOMAIN routes}
RoutePerms == UNION {
    Asked(OrderRoutes), Asked(InventoryRoutes), Asked(ProductRoutes),
    Asked(ImportRoutes), Asked(WebhookRoutes), Asked(AdminRoutes),
    Asked(EventRoutes), Asked(AuditRoutes), Asked(AnalyticsRoutes),
    Asked(ExportRoutes), Asked(AssistantRoutes), Asked(SearchRoutes)}

-----------------------------------------------------------------------------
(* The tables of the seed.                                                   *)

Permissions == {
    "orders:write", "orders:read", "inventory:read", "inventory:write",
    "products:read", "products:write", "admin:write", "billing:write",
    "profile:read", "analytics:read", "audit:read", "webhooks:read",
    "webhooks:write"}

Roles == {"admin", "ops", "sales"}

ShippedPerms == [
    admin |-> Permissions,
    ops |-> Permissions \ {"admin:write", "billing:write"},
    sales |-> {"orders:read", "inventory:read", "products:read",
               "profile:read", "analytics:read"}]

Paid == {"pro", "enterprise"}
PaidPermissions == {
    "orders:write", "inventory:write", "products:write", "analytics:read",
    "audit:read", "webhooks:read", "webhooks:write"}

ShippedPolicy == [p \in Permissions |->
    [enabled |-> TRUE, effect |-> "ALLOW", regions |-> {},
     plans |-> IF p = "admin:write" THEN {"enterprise"}
               ELSE IF p \in PaidPermissions THEN Paid ELSE {}]]

-----------------------------------------------------------------------------
(* The guards.                                                               *)

Tiers == [free |-> 0, starter |-> 1, pro |-> 2, enterprise |-> 3]

NormalPlan(raw) ==
    CASE raw = "" -> "free"
      [] raw = "professional" -> "pro"
      [] OTHER -> raw

NormalRegion(raw) == IF raw \in {"", "us-east-1"} THEN "region-a" ELSE raw

\* parseJsonArray: what is no array restricts nothing.
Parsed(list) == IF list = Malformed THEN {} ELSE list

\* Mutant: the plans of the list and no others.
PlanAllowedListed(plan, plans) == plan \in plans

\* The listed plans, and every known plan from the lowest known one upwards.
PlanAllowed(plan, plans) ==
    \/ plan \in plans
    \/ /\ plan \in DOMAIN Tiers
       /\ \E p \in plans \cap DOMAIN Tiers : Tiers[plan] >= Tiers[p]

IsAdmin(claims) == claims.tid = "*" /\ "admin" \in claims.roles

TenantGuard(claims, tenant) == claims.tid \in {"*", tenant}

PermissionsGuard(claims, perm) == IsAdmin(claims) \/ perm \in claims.perms

PolicyAdmits(policy, rawPlan, rawRegion) ==
    LET plans == Parsed(policy.plans)
        regions == Parsed(policy.regions)
    IN  /\ policy.enabled /\ policy.effect = "ALLOW"
        /\ plans = {} \/ PlanAllowed(NormalPlan(rawPlan), plans)
        /\ regions = {} \/ NormalRegion(rawRegion) \in regions

AbacGuard(claims, policy) ==
    IsAdmin(claims) \/ PolicyAdmits(policy, claims.plan, claims.region)
=============================================================================
