------------------------------ MODULE Access ------------------------------
(***************************************************************************)
(* Who may do what in a distributor: the permission matrix, what the      *)
(* routes of each controller require, the tenant context that TenantGuard *)
(* puts into a request, PermissionsGuard, and the branch scope of a query.*)
(***************************************************************************)
EXTENDS Integers

CONSTANTS Branches

Roles == {"OWNER", "ADMIN", "MANAGER", "SALES", "STOCKIST"}
InvitableRoles == Roles \ {"OWNER"}

NONE == 0
READ == 1
WRITE == 2
FULL == 3
Levels == NONE..FULL

Modules == {"branches", "products", "stock", "movements", "team", "billing", "company"}

Grants(branches, products, stock, movements, team, billing, company) ==
    [branches |-> branches, products |-> products, stock |-> stock,
     movements |-> movements, team |-> team, billing |-> billing, company |-> company]

PermissionMatrix ==
    [OWNER    |-> Grants(FULL, FULL,  FULL,  FULL,  FULL, FULL,  FULL),
     ADMIN    |-> Grants(FULL, FULL,  FULL,  FULL,  FULL, WRITE, WRITE),
     MANAGER  |-> Grants(READ, WRITE, WRITE, WRITE, READ, NONE,  READ),
     SALES    |-> Grants(NONE, READ,  READ,  WRITE, NONE, NONE,  READ),
     STOCKIST |-> Grants(NONE, READ,  WRITE, WRITE, NONE, NONE,  READ)]

-----------------------------------------------------------------------------
(* What a handler requires.  Open handlers only go through TenantGuard.   *)
Requires(module, level) == [module |-> module, level |-> level]
Reads(module) == Requires(module, READ)
Writes(module) == Requires(module, WRITE)
Open == Requires("company", NONE)

TeamRoutes ==
    [list |-> Reads("team"), rolesMatrix |-> Reads("team"),
     invite |-> Writes("team"), update |-> Writes("team"),
     remove |-> Writes("team"), resendInvite |-> Writes("team")]

ProductRoutes ==
    [list |-> Reads("products"), categories |-> Reads("products"),
     create |-> Writes("products"), update |-> Writes("products"),
     duplicate |-> Writes("products"), remove |-> Writes("products")]

BranchRoutes ==
    [list |-> Open, create |-> Writes("branches"),
     update |-> Writes("branches"), remove |-> Writes("branches")]

OnboardingRoutes == [createBranch |-> Writes("branches")]

MovementRoutes ==
    [list |-> Reads("movements"), create |-> Writes("movements"),
     reverse |-> Writes("movements")]

StockRoutes == [list |-> Reads("stock")]
AlertRoutes == [list |-> Reads("stock")]
DashboardRoutes == [summary |-> Open]
CompanyRoutes == [get |-> Reads("company"), update |-> Writes("company")]
MeRoutes == [getContext |-> Open, updatePreferences |-> Open]

BillingRoutes ==
    [listPlans |-> Reads("billing"), getSubscription |-> Reads("billing"),
     listInvoices |-> Reads("billing"), downloadInvoice |-> Reads("billing")]

-----------------------------------------------------------------------------
(* The tenant context.  A null allowedBranchIds is every branch.          *)
FullAccessRoles == {"OWNER", "ADMIN"}

Contexts == [role: Roles, allowed: SUBSET Branches, readOnly: BOOLEAN]

ContextOf(role, branches, readOnly) ==
    [role |-> role,
     allowed |-> IF role \in FullAccessRoles THEN Branches ELSE branches,
     readOnly |-> readOnly]

(* Mutant: the subscription is not looked at.                             *)
AdmitsUnpaid(ctx, need) ==
    PermissionMatrix[ctx.role][need.module] >= need.level

(* PermissionsGuard.canActivate                                           *)
Admits(ctx, need) ==
    /\ PermissionMatrix[ctx.role][need.module] >= need.level
    /\ ctx.readOnly => need.level <= READ

(* What getContext tells the client that it may do.                       *)
CappedToRead(grants) == [mod \in Modules |-> IF grants[mod] < READ THEN grants[mod] ELSE READ]

ContextPermissions(ctx) ==
    IF ctx.readOnly THEN CappedToRead(PermissionMatrix[ctx.role])
                    ELSE PermissionMatrix[ctx.role]

(* resolveBranchScope and assertBranchInScope, for branches of the tenant *)
InScope(ctx, b) == b \in ctx.allowed
=============================================================================
