--------------------------- MODULE WorkspaceProofs --------------------------
(***************************************************************************)
(* Theorems about Access and Workspace: what the permissions guarantee    *)
(* for every context, and what every request of a distributor keeps to,   *)
(* for any members, branches, products and requests, without the bounds   *)
(* that a run needs.                                                      *)
(***************************************************************************)
EXTENDS Workspace, FiniteSetTheorems, WellFoundedInduction, TLAPS

-----------------------------------------------------------------------------
(* The permission matrix.                                                 *)
LEMMA MatrixType ==
    ASSUME NEW role \in Roles, NEW mod \in Modules
    PROVE  PermissionMatrix[role][mod] \in Levels
  BY SMT DEF PermissionMatrix, Grants, Roles, Modules, Levels, NONE, READ, WRITE, FULL

(* me.service.ts getContext: what the client is told that it may do is    *)
(* exactly what PermissionsGuard will admit, for every role, module and   *)
(* level, in a paid and in a read-only account.                           *)
THEOREM ContextTellsTheTruth ==
    ASSUME NEW ctx \in Contexts, NEW mod \in Modules, NEW level \in Levels
    PROVE  Admits(ctx, Requires(mod, level)) <=> ContextPermissions(ctx)[mod] >= level
<1>1. PermissionMatrix[ctx.role][mod] \in Levels
  BY MatrixType DEF Contexts
<1>2. ctx.readOnly \in BOOLEAN
  BY DEF Contexts
<1>3. CASE ctx.readOnly
  BY <1>1, <1>3 DEF Admits, Requires, ContextPermissions, CappedToRead, Levels, NONE, READ, FULL
<1>4. CASE ~ctx.readOnly
  BY <1>1, <1>4 DEF Admits, Requires, ContextPermissions
<1> QED
  BY <1>2, <1>3, <1>4

ReadingRoutes ==
    {TeamRoutes.list, TeamRoutes.rolesMatrix, ProductRoutes.list, ProductRoutes.categories,
     BranchRoutes.list, MovementRoutes.list, StockRoutes.list, AlertRoutes.list,
     DashboardRoutes.summary, CompanyRoutes.get, MeRoutes.getContext, BillingRoutes.listPlans,
     BillingRoutes.getSubscription, BillingRoutes.listInvoices, BillingRoutes.downloadInvoice}

TenantWideWrites ==
    {TeamRoutes.invite, TeamRoutes.update, TeamRoutes.remove, TeamRoutes.resendInvite,
     BranchRoutes.create, BranchRoutes.update, BranchRoutes.remove,
     OnboardingRoutes.createBranch, CompanyRoutes.update}

ScopedWrites ==
    {ProductRoutes.create, ProductRoutes.update, ProductRoutes.duplicate, ProductRoutes.remove,
     MovementRoutes.create, MovementRoutes.reverse}

LEMMA ReadingNeed ==
    ASSUME NEW need \in ReadingRoutes
    PROVE  need.module \in Modules /\ need.level \in {NONE, READ}
  BY DEF ReadingRoutes, TeamRoutes, ProductRoutes, BranchRoutes, MovementRoutes, StockRoutes,
         AlertRoutes, DashboardRoutes, CompanyRoutes, MeRoutes, BillingRoutes,
         Writes, Reads, Requires, Open, Modules

LEMMA WritingNeed ==
    ASSUME NEW need \in TenantWideWrites \cup ScopedWrites
    PROVE  need.level = WRITE
  BY DEF TenantWideWrites, ScopedWrites, TeamRoutes, BranchRoutes, OnboardingRoutes,
         CompanyRoutes, ProductRoutes, MovementRoutes, Writes, Reads, Requires, Open

(* The deployment guide: a suspended or cancelled account is read-only.   *)
(* No role loses a route that reads when the account becomes read-only,   *)
(* and no role keeps one that writes the distributor's data.              *)
THEOREM ReadOnlyAccountOnlyReads ==
    ASSUME NEW role \in Roles, NEW branches \in SUBSET Branches
    PROVE  /\ \A need \in ReadingRoutes :
                 Admits(ContextOf(role, branches, TRUE), need)
                     <=> Admits(ContextOf(role, branches, FALSE), need)
           /\ \A need \in TenantWideWrites \cup ScopedWrites :
                 ~Admits(ContextOf(role, branches, TRUE), need)
<1>1. ASSUME NEW need \in ReadingRoutes
      PROVE  Admits(ContextOf(role, branches, TRUE), need)
                 <=> Admits(ContextOf(role, branches, FALSE), need)
  BY ReadingNeed DEF Admits, ContextOf, NONE, READ
<1>2. ASSUME NEW need \in TenantWideWrites \cup ScopedWrites
      PROVE  ~Admits(ContextOf(role, branches, TRUE), need)
  BY WritingNeed DEF Admits, ContextOf, READ, WRITE
<1> QED
  BY <1>1, <1>2

LEMMA TenantWideNeed ==
    ASSUME NEW need \in TenantWideWrites
    PROVE  need.module \in {"team", "branches", "company"} /\ need.level = WRITE
  BY DEF TenantWideWrites, TeamRoutes, BranchRoutes, OnboardingRoutes, CompanyRoutes,
         Writes, Reads, Requires, Open

LEMMA FullAccess ==
    ASSUME NEW ctx \in Contexts, NEW need, Admits(ctx, need),
           need.module \in {"team", "branches", "company"}, need.level = WRITE
    PROVE  ctx.role \in FullAccessRoles /\ ~ctx.readOnly
<1>1. PermissionMatrix[ctx.role][need.module] >= 2
  BY DEF Admits, WRITE
<1>2. ctx.role \in Roles
  BY DEF Contexts
<1>3. ctx.role \in FullAccessRoles
  BY <1>1, <1>2, SMT DEF PermissionMatrix, Grants, Roles, NONE, READ, WRITE, FULL, FullAccessRoles
<1>4. ~ctx.readOnly
  BY DEF Admits, READ, WRITE
<1> QED
  BY <1>3, <1>4

LEMMA BillingReaders ==
    ASSUME NEW ctx \in Contexts, Admits(ctx, Reads("billing"))
    PROVE  ctx.role \in FullAccessRoles
<1>1. PermissionMatrix[ctx.role]["billing"] >= 1
  BY DEF Admits, Reads, Requires, READ
<1>2. ctx.role \in Roles
  BY DEF Contexts
<1> QED
  BY <1>1, <1>2, SMT DEF PermissionMatrix, Grants, Roles, NONE, READ, WRITE, FULL, FullAccessRoles

(* team.service.ts, branches.service.ts, company.service.ts and           *)
(* billing.service.ts never look at the branches of who calls: they need  *)
(* not, because every route of theirs that writes, and every billing      *)
(* route, admits only members that see every branch.                      *)
THEOREM TenantWideRoutesSeeAll ==
    ASSUME NEW role \in Roles, NEW branches \in SUBSET Branches, NEW ro \in BOOLEAN,
           NEW need \in TenantWideWrites \cup {BillingRoutes[k] : k \in DOMAIN BillingRoutes},
           Admits(ContextOf(role, branches, ro), need)
    PROVE  ContextOf(role, branches, ro).allowed = Branches
<1>1. ContextOf(role, branches, ro) \in Contexts
  BY DEF ContextOf, Contexts
<1>2. CASE need \in TenantWideWrites
  BY <1>1, <1>2, TenantWideNeed, FullAccess DEF ContextOf
<1>3. CASE need \in {BillingRoutes[k] : k \in DOMAIN BillingRoutes}
  <2>1. need = Reads("billing")
    BY <1>3 DEF BillingRoutes
  <2> QED
    BY <1>1, <2>1, BillingReaders DEF ContextOf
<1> QED
  BY <1>2, <1>3

LEMMA ProductWriters ==
    ASSUME NEW ctx \in Contexts, Admits(ctx, Writes("products"))
    PROVE  ctx.role \in {"OWNER", "ADMIN", "MANAGER"} /\ ~ctx.readOnly
<1>1. PermissionMatrix[ctx.role]["products"] >= 2
  BY DEF Admits, Writes, Requires, WRITE
<1>2. ctx.role \in Roles
  BY DEF Contexts
<1>3. ctx.role \in {"OWNER", "ADMIN", "MANAGER"}
  BY <1>1, <1>2, SMT DEF PermissionMatrix, Grants, Roles, NONE, READ, WRITE, FULL
<1>4. ~ctx.readOnly
  BY DEF Admits, Writes, Requires, READ, WRITE
<1> QED
  BY <1>3, <1>4

LEMMA MovementWriters ==
    ASSUME NEW ctx \in Contexts, Admits(ctx, Writes("movements"))
    PROVE  ~ctx.readOnly
  BY DEF Admits, Writes, Requires, READ, WRITE
-----------------------------------------------------------------------------
(* The inductive invariant: rows and contexts keep their types, and the   *)
(* context of a request that no change of rights overtook is what its     *)
(* member, who is still active, is entitled to now.                       *)
GuardedRequests ==
    [at : {"guarded"}, member : Members, ctx : Contexts, stale : BOOLEAN]

InviteRequests ==
    [at : {"invite"}, member : Members, ctx : Contexts, stale : BOOLEAN, target : Members,
     moved : BOOLEAN]

ContextsTyped ==
    \A r \in Requests :
        /\ req[r].at = "guarded" => req[r] \in GuardedRequests
        /\ req[r].at = "invite" => req[r] \in InviteRequests
        /\ req[r].at = "merge" => req[r].member \in Members

InvitesAdmitted ==
    \A r \in Requests : req[r].at = "invite" => Admits(req[r].ctx, Writes("team"))

ContextsFresh ==
    \A r \in Requests : req[r].at \in UnderWay /\ ~req[r].stale =>
        req[r].ctx = RightsOf(req[r].member) /\ member[req[r].member].status = "active"

MembersTyped == member \in [Members -> MemberRows]

LevelsTyped ==
    /\ DOMAIN stock \subseteq Cells
    /\ stock \in [DOMAIN stock -> Int]

BranchesTyped == activeBranches \subseteq Branches

PrefsTyped == prefs = [m \in Members |-> prefs[m]]

IInv ==
    /\ DOMAIN req = Requests
    /\ req = [r \in Requests |-> req[r]]
    /\ readOnly \in BOOLEAN
    /\ ContextsTyped
    /\ ContextsFresh
    /\ InvitesAdmitted
    /\ MembersTyped
    /\ BranchesTyped
    /\ LevelsTyped
    /\ PrefsTyped

LEMMA InitInv == Init => IInv
<1> SUFFICES ASSUME Init PROVE IInv
  OBVIOUS
<1>1. ContextsTyped /\ ContextsFresh /\ InvitesAdmitted
  BY DEF Init, ContextsTyped, ContextsFresh, InvitesAdmitted, UnderWay, Idle
<1>2. MembersTyped
  BY DEF Init, MembersTyped
<1>3. LevelsTyped
  <2>1. PICK existing \in SUBSET Products : stock \in [existing \X Branches -> 0..MaxLevel]
    BY DEF Init
  <2> QED
    BY <2>1, LevelsAssumption DEF LevelsTyped, Cells
<1>4. PrefsTyped
  BY DEF Init, PrefsTyped
<1>5. BranchesTyped
  BY DEF Init, BranchesTyped
<1> QED
  BY <1>1, <1>2, <1>3, <1>4, <1>5 DEF Init, IInv

(* What a step leaves of the other requests: they are where they were,    *)
(* and may have been overtaken.                                           *)
Follows(others) ==
    /\ DOMAIN others = Requests /\ others = [q \in Requests |-> others[q]]
    /\ \A q \in Requests :
          /\ others[q].at = req[q].at
          /\ req[q].at \notin UnderWay => others[q] = req[q]
          /\ req[q].at \in UnderWay =>
                /\ others[q] \in GuardedRequests \cup InviteRequests
                /\ others[q].member = req[q].member /\ others[q].ctx = req[q].ctx
                /\ others[q].stale \/ others[q].stale = req[q].stale

LEMMA UnderWayTyped ==
    ASSUME IInv, NEW r \in Requests, req[r].at \in UnderWay
    PROVE  /\ req[r] \in GuardedRequests \cup InviteRequests
           /\ req[r].ctx \in Contexts /\ req[r].member \in Members /\ req[r].stale \in BOOLEAN
  BY DEF IInv, ContextsTyped, UnderWay, GuardedRequests, InviteRequests

LEMMA SameFollows == IInv => Follows(req)
  BY UnderWayTyped DEF Follows, IInv

LEMMA OvertakenFollows ==
    ASSUME IInv, NEW ms
    PROVE  /\ Follows(Overtaken(ms))
           /\ \A q \in Requests :
                 req[q].at \in UnderWay /\ req[q].member \in ms => Overtaken(ms)[q].stale
<1>1. ASSUME NEW q \in Requests, req[q].at \in UnderWay
      PROVE  LET new == [req[q] EXCEPT !.stale = TRUE]
             IN  /\ new \in GuardedRequests \cup InviteRequests /\ new.at = req[q].at
                 /\ new.member = req[q].member /\ new.ctx = req[q].ctx /\ new.stale
  <2>1. CASE req[q] \in GuardedRequests
    BY <2>1 DEF GuardedRequests
  <2>2. CASE req[q] \in InviteRequests
    BY <2>2 DEF InviteRequests
  <2> QED
    BY <1>1, <2>1, <2>2, UnderWayTyped
<1>2. \A q \in Requests : Overtaken(ms)[q] =
        IF req[q].at \in UnderWay /\ req[q].member \in ms
          THEN [req[q] EXCEPT !.stale = TRUE] ELSE req[q]
  BY DEF Overtaken
<1>3. DOMAIN Overtaken(ms) = Requests /\ Overtaken(ms) = [q \in Requests |-> Overtaken(ms)[q]]
  BY DEF Overtaken
<1>4. ASSUME NEW q \in Requests
      PROVE  /\ Overtaken(ms)[q].at = req[q].at
             /\ req[q].at \notin UnderWay => Overtaken(ms)[q] = req[q]
             /\ req[q].at \in UnderWay =>
                   /\ Overtaken(ms)[q] \in GuardedRequests \cup InviteRequests
                   /\ Overtaken(ms)[q].member = req[q].member
                   /\ Overtaken(ms)[q].ctx = req[q].ctx
                   /\ Overtaken(ms)[q].stale \/ Overtaken(ms)[q].stale = req[q].stale
             /\ req[q].at \in UnderWay /\ req[q].member \in ms => Overtaken(ms)[q].stale
  <2>1. CASE req[q].at \in UnderWay /\ req[q].member \in ms
    BY <1>1, <1>2, <2>1
  <2>2. CASE ~(req[q].at \in UnderWay /\ req[q].member \in ms)
    <3>1. Overtaken(ms)[q] = req[q]
      BY <1>2, <2>2
    <3> QED BY <2>2, <3>1, UnderWayTyped
  <2> QED BY <2>1, <2>2
<1> QED
  BY <1>3, <1>4 DEF Follows

(* The rights that a request is judged by are those its guards found.     *)
LEMMA RightsKept ==
    ASSUME IInv, NEW r \in Requests, req[r].at \in UnderWay
    PROVE  (IF req[r].stale THEN req[r].ctx ELSE RightsOf(req[r].member)) = req[r].ctx
  BY DEF IInv, ContextsFresh

(* An answered request, while the others follow.                          *)
LEMMA AnswerKeepsContexts ==
    ASSUME IInv, NEW r \in Requests, NEW others, Follows(others),
           req' = [others EXCEPT ![r] = Idle]
    PROVE  /\ DOMAIN req' = Requests /\ req' = [q \in Requests |-> req'[q]]
           /\ req'[r] = Idle /\ \A q \in Requests \ {r} : req'[q] = others[q]
           /\ ContextsTyped'
           /\ \A q \in Requests \ {r} : req'[q] = Idle => req[q].at = "idle"
<1>1. /\ DOMAIN req' = Requests /\ req' = [q \in Requests |-> req'[q]]
      /\ req'[r] = Idle /\ \A q \in Requests \ {r} : req'[q] = others[q]
  BY DEF Follows
<1>2. \A q \in Requests \ {r} : req'[q] = Idle => req[q].at = "idle"
  BY <1>1 DEF Follows, Idle
<1>3. ASSUME NEW q \in Requests
      PROVE  /\ req'[q].at = "guarded" => req'[q] \in GuardedRequests
             /\ req'[q].at = "invite" => req'[q] \in InviteRequests
             /\ req'[q].at = "merge" => req'[q].member \in Members
  <2>1. CASE q = r
    BY <1>1, <2>1 DEF Idle
  <2>2. CASE q # r
    <3>1. req'[q] = others[q]
      BY <1>1, <2>2
    <3>2. CASE req[q].at \in UnderWay
      BY <3>1, <3>2 DEF Follows, GuardedRequests, InviteRequests, UnderWay
    <3>3. CASE req[q].at \notin UnderWay
      BY <3>1, <3>3 DEF Follows, IInv, ContextsTyped
    <3> QED BY <3>2, <3>3
  <2> QED BY <2>1, <2>2
<1>4. ContextsTyped'
  BY <1>3 DEF ContextsTyped
<1> QED
  BY <1>1, <1>2, <1>4

(* Who is overtaken is stale; the others' members keep their rights.      *)
LEMMA FreshKept ==
    ASSUME IInv,
           \A q \in Requests : req'[q].at \in UnderWay =>
               \/ req'[q].stale
               \/ /\ req[q].at \in UnderWay /\ req[q].stale = req'[q].stale
                  /\ req'[q].member = req[q].member /\ req'[q].ctx = req[q].ctx
                  /\ member'[req[q].member] = member[req[q].member] /\ readOnly' = readOnly
    PROVE  ContextsFresh'
  BY DEF IInv, ContextsFresh, RightsOf

(* Opening rows keeps the levels there are, and types the new ones.       *)
LEMMA OpenRowsTyped ==
    ASSUME IInv, NEW cells \in SUBSET Cells, NEW first \in [Branches -> Int],
           stock' = Opened(stock, cells, first)
    PROVE  /\ LevelsTyped'
           /\ DOMAIN stock' = DOMAIN stock \cup cells
           /\ \A c \in DOMAIN stock : stock'[c] = stock[c]
           /\ \A c \in cells \ DOMAIN stock : stock'[c] = first[c[2]]
<1>1. LevelsTyped /\ DOMAIN stock' = DOMAIN stock \cup cells
  BY DEF IInv, Opened
<1>2. \A c \in DOMAIN stock' : stock'[c] = IF c \in DOMAIN stock THEN stock[c] ELSE first[c[2]]
  BY <1>1 DEF Opened
<1>3. \A c \in DOMAIN stock' : stock'[c] \in Int
  <2>1. \A c \in cells : first[c[2]] \in Int
    BY DEF Cells
  <2> QED
    BY <1>1, <1>2, <2>1 DEF LevelsTyped
<1>4. DOMAIN stock' \subseteq Cells
  BY <1>1 DEF LevelsTyped
<1>5. stock' \in [DOMAIN stock' -> Int]
  BY <1>3 DEF Opened
<1> QED
  BY <1>1, <1>2, <1>4, <1>5 DEF LevelsTyped

LEMMA PostTyped ==
    ASSUME IInv, NEW m, Post(m)
    PROVE  /\ LevelsTyped'
           /\ DOMAIN stock' = DOMAIN stock
           /\ \A c \in DOMAIN stock : c # m.cell => stock'[c] = stock[c]
           /\ m.cell \in DOMAIN stock => stock'[m.cell] = stock[m.cell] + m.qty
<1>1. stock' = [stock EXCEPT ![m.cell] = stock[m.cell] + m.qty]
  BY DEF Post
<1>2. stock[m.cell] + m.qty \in Int
  BY LevelsAssumption DEF Post
<1> QED
  BY <1>1, <1>2 DEF IInv, LevelsTyped
-----------------------------------------------------------------------------
(* What each kind of change may touch.                                    *)
LEMMA NothingIsJustified ==
    ASSUME NEW r, NEW rights, UNCHANGED Preserved
    PROVE  Justified(r, rights)
  BY DEF Justified, Preserved, Touched

LEMMA PostJustified ==
    ASSUME IInv, NEW ctx, ~ctx.readOnly, NEW m, Post(m), InScope(ctx, m.cell[2]),
           ctx.role = "SALES" => m.qty \in Int /\ m.qty < 0,
           NEW n
    PROVE  Justified(n, ctx)
<1>1. UNCHANGED <<member, product, activeBranches>>
  BY DEF Post
<1>2. \A c \in Touched : c = m.cell /\ c \in DOMAIN stock
  BY PostTyped DEF Touched
<1>3. ctx.role = "SALES" => \A c \in Touched : stock'[c] < stock[c]
  BY <1>2, PostTyped DEF IInv, LevelsTyped
<1> QED
  BY <1>1, <1>2, <1>3 DEF Justified

(* Rows are opened at 0, or in scope.                                     *)
LEMMA OpeningJustified ==
    ASSUME IInv, NEW ctx, ~ctx.readOnly, ctx.role \in {"OWNER", "ADMIN", "MANAGER"},
           NEW cells \in SUBSET Cells, NEW first \in [Branches -> Int],
           \A b \in Branches : InScope(ctx, b) \/ first[b] = 0,
           stock' = Opened(stock, cells, first),
           UNCHANGED member,
           activeBranches' # activeBranches => ctx.role \in {"OWNER", "ADMIN"},
           NEW n
    PROVE  Justified(n, ctx)
<1>1. \A c \in Touched : c \in cells \ DOMAIN stock /\ stock'[c] = first[c[2]]
  <2>1. /\ DOMAIN stock' = DOMAIN stock \cup cells
        /\ \A c \in DOMAIN stock : stock'[c] = stock[c]
        /\ \A c \in cells \ DOMAIN stock : stock'[c] = first[c[2]]
    BY OpenRowsTyped
  <2> QED
    BY <2>1 DEF Touched
<1>2. \A c \in Touched :
        InScope(ctx, c[2]) \/ (c \notin DOMAIN stock /\ stock'[c] = 0)
  BY <1>1 DEF Cells
<1>3. ctx.role # "SALES"
  OBVIOUS
<1> QED
  BY <1>2, <1>3 DEF Justified

LEMMA MemberJustified ==
    ASSUME IInv, NEW r \in Requests, req[r].at \in UnderWay, req[r].ctx \in Contexts,
           Admits(req[r].ctx, Writes("team")), NEW m \in Members, NEW row, SetMember(m, row),
           CanManage(r, m) \/ Reinvites(r, m)
    PROVE  Justified(r, req[r].ctx)
<1>1. req[r].ctx.role \in {"OWNER", "ADMIN"} /\ ~req[r].ctx.readOnly
  <2>1. Writes("team").module = "team" /\ Writes("team").level = WRITE
    BY DEF Writes, Requires
  <2> QED
    BY <2>1, FullAccess DEF FullAccessRoles
<1>2. \A n \in Members : member'[n] # member[n] => n = m
  BY DEF SetMember, IInv, MembersTyped
<1>3. \A n \in Members :
        member'[n] # member[n] /\ (n = req[r].member \/ member[n].role = "OWNER")
            => Reinvites(r, n)
  BY <1>2 DEF CanManage
<1>4. UNCHANGED <<stock, product>>
  BY DEF SetMember
<1>5. Touched = {}
  BY <1>4 DEF Touched
<1> QED
  BY <1>1, <1>3, <1>4, <1>5 DEF Justified
-----------------------------------------------------------------------------
(* Each action keeps the invariant and justifies the answer it gives.     *)
Sound == IInv' /\ AnswersJustified /\ ChangesKept

LEMMA HandleFacts ==
    ASSUME IInv, NEW r \in Requests, NEW need, NEW others, Follows(others),
           Handle(r, need, others)
    PROVE  /\ req[r].at \in UnderWay /\ req[r].ctx \in Contexts /\ req[r].member \in Members
           /\ Admits(req[r].ctx, need)
           /\ readOnly' = readOnly
           /\ req' = [others EXCEPT ![r] = Idle]
  BY UnderWayTyped DEF Handle, UnderWay

(* An answer while the others follow, and are stale where their members'  *)
(* rows change.                                                           *)
LEMMA AnswerSound ==
    ASSUME IInv, NEW r \in Requests, req[r].at \in UnderWay, NEW others, Follows(others),
           req' = [others EXCEPT ![r] = Idle], readOnly' = readOnly,
           \A q \in Requests : req[q].at \in UnderWay =>
               others[q].stale \/ member'[req[q].member] = member[req[q].member],
           MembersTyped', BranchesTyped', LevelsTyped', PrefsTyped',
           Justified(r, req[r].ctx)
    PROVE  Sound
<1>1. /\ DOMAIN req' = Requests /\ req' = [q \in Requests |-> req'[q]]
      /\ req'[r] = Idle /\ \A q \in Requests \ {r} : req'[q] = others[q]
      /\ ContextsTyped'
      /\ \A q \in Requests \ {r} : req'[q] = Idle => req[q].at = "idle"
  BY AnswerKeepsContexts
<1>2. ContextsFresh'
  <2> SUFFICES ASSUME NEW q \in Requests, req'[q].at \in UnderWay
               PROVE  \/ req'[q].stale
                      \/ /\ req[q].at \in UnderWay /\ req[q].stale = req'[q].stale
                         /\ req'[q].member = req[q].member /\ req'[q].ctx = req[q].ctx
                         /\ member'[req[q].member] = member[req[q].member]
                         /\ readOnly' = readOnly
    BY FreshKept
  <2>1. q # r
    BY <1>1 DEF Idle, UnderWay
  <2>2. req'[q] = others[q] /\ req[q].at \in UnderWay
    BY <1>1, <2>1 DEF Follows
  <2> QED
    BY <2>2 DEF Follows
<1>3. IInv'
  <2>1. InvitesAdmitted'
    BY <1>1 DEF Follows, IInv, InvitesAdmitted, Idle, UnderWay
  <2> QED
    BY <1>1, <1>2, <2>1 DEF IInv
<1>4. AnswersJustified
  BY <1>1, RightsKept DEF AnswersJustified, UnderWay
<1>5. ChangesKept
  BY <1>1 DEF ChangesKept, UnderWay
<1> QED
  BY <1>3, <1>4, <1>5 DEF Sound

LEMMA HandleSound ==
    ASSUME IInv, NEW r \in Requests, NEW need, Handle(r, need, req), UNCHANGED member,
           BranchesTyped', LevelsTyped', PrefsTyped',
           Justified(r, req[r].ctx)
    PROVE  Sound
<1>1. MembersTyped'
  BY DEF IInv, MembersTyped
<1> QED
  BY <1>1, SameFollows, HandleFacts, AnswerSound

LEMMA CreateMovementSound ==
    ASSUME IInv, NEW r \in Requests, NEW type \in Types, NEW c, NEW qty \in Nat,
           type # "AJUSTE" => qty > 0,
           CreateMovement(r, type, c, qty)
    PROVE  Sound
<1> DEFINE m == Movement(type, c, Delta(type, c, qty))
<1>1. Handle(r, Writes("movements"), req)
  BY DEF CreateMovement, MovementRoutes
<1>2. Post(m) /\ m.cell = c /\ m.qty = Delta(type, c, qty)
  BY DEF CreateMovement, Movement
<1>3. InScope(req[r].ctx, m.cell[2])
  BY <1>2 DEF CreateMovement
<1>4. req[r].ctx.role = "SALES" => m.qty \in Int /\ m.qty < 0
  BY <1>2 DEF CreateMovement, Delta
<1>5. ~req[r].ctx.readOnly
  BY <1>1, SameFollows, HandleFacts, MovementWriters
<1>6. Justified(r, req[r].ctx)
  BY <1>2, <1>3, <1>4, <1>5, PostJustified
<1>7. LevelsTyped'
  BY <1>2, PostTyped
<1>8. member' = member /\ BranchesTyped' /\ PrefsTyped'
  BY <1>2 DEF Post, IInv, BranchesTyped, PrefsTyped
<1> QED
  BY <1>1, <1>6, <1>7, <1>8, HandleSound

LEMMA ReverseMovementSound ==
    ASSUME IInv, NEW r \in Requests, NEW m, ReverseMovement(r, m)
    PROVE  Sound
<1> DEFINE n == Movement(m.type, m.cell, -m.qty)
<1>1. Handle(r, Writes("movements"), req)
  BY DEF ReverseMovement, MovementRoutes
<1>2. Post(n) /\ n.cell = m.cell
  BY DEF ReverseMovement, Movement
<1>3. InScope(req[r].ctx, n.cell[2]) /\ req[r].ctx.role # "SALES"
  BY <1>2 DEF ReverseMovement
<1>4. ~req[r].ctx.readOnly
  BY <1>1, SameFollows, HandleFacts, MovementWriters
<1>5. Justified(r, req[r].ctx)
  BY <1>2, <1>3, <1>4, PostJustified
<1>6. LevelsTyped'
  BY <1>2, PostTyped
<1>7. member' = member /\ BranchesTyped' /\ PrefsTyped'
  BY <1>2 DEF Post, IInv, BranchesTyped, PrefsTyped
<1> QED
  BY <1>1, <1>5, <1>6, <1>7, HandleSound

LEMMA CreateProductSound ==
    ASSUME IInv, NEW r \in Requests, NEW p \in Products,
           NEW bs \in SUBSET Branches, NEW initial \in [bs -> Quantities],
           NEW isActive \in BOOLEAN, CreateProduct(r, p, isActive, initial)
    PROVE  Sound
<1> DEFINE cells == {p} \X activeBranches
           first == Over(Empty, initial)
<1>1. Handle(r, Writes("products"), req)
  BY DEF CreateProduct, ProductRoutes
<1>2. cells \in SUBSET Cells
  BY DEF IInv, BranchesTyped, Cells
<1>3. first \in [Branches -> Int]
  <2>1. Quantities \subseteq Int
    BY LevelsAssumption
  <2>2. \A b \in DOMAIN initial : initial[b] \in Int
    BY <2>1
  <2> QED
    BY <2>2 DEF Over, Empty
<1>4. stock' = Opened(stock, cells, first)
  BY DEF CreateProduct, OpenRows
<1>5. \A b \in Branches : InScope(req[r].ctx, b) \/ first[b] = 0
  BY DEF CreateProduct, Over, Empty
<1>6. UNCHANGED <<member, activeBranches, prefs>>
  BY DEF CreateProduct
<1>7. ~req[r].ctx.readOnly /\ req[r].ctx.role \in {"OWNER", "ADMIN", "MANAGER"}
  BY <1>1, SameFollows, HandleFacts, ProductWriters
<1>8. Justified(r, req[r].ctx)
  BY <1>2, <1>3, <1>4, <1>5, <1>6, <1>7, OpeningJustified
<1>9. LevelsTyped'
  BY <1>2, <1>3, <1>4, OpenRowsTyped
<1>10. member' = member /\ BranchesTyped' /\ PrefsTyped'
  BY <1>6 DEF IInv, BranchesTyped, PrefsTyped
<1> QED
  BY <1>1, <1>8, <1>9, <1>10, HandleSound

LEMMA UpdateProductSound ==
    ASSUME IInv, NEW r \in Requests, NEW p \in Products, NEW to \in BOOLEAN,
           UpdateProduct(r, p, to)
    PROVE  Sound
<1> DEFINE cells == IF to THEN {p} \X activeBranches ELSE {}
<1>1. Handle(r, Writes("products"), req)
  BY DEF UpdateProduct, ProductRoutes
<1>2. cells \in SUBSET Cells
  BY DEF IInv, BranchesTyped, Cells
<1>3. Empty \in [Branches -> Int] /\ \A b \in Branches : Empty[b] = 0
  BY DEF Empty
<1>4. stock' = Opened(stock, cells, Empty)
  BY DEF UpdateProduct, OpenRows
<1>5. UNCHANGED <<member, activeBranches, prefs>>
  BY DEF UpdateProduct
<1>6. ~req[r].ctx.readOnly /\ req[r].ctx.role \in {"OWNER", "ADMIN", "MANAGER"}
  BY <1>1, SameFollows, HandleFacts, ProductWriters
<1>7. Justified(r, req[r].ctx)
  BY <1>2, <1>3, <1>4, <1>5, <1>6, OpeningJustified
<1>8. LevelsTyped'
  BY <1>2, <1>3, <1>4, OpenRowsTyped
<1>9. member' = member /\ BranchesTyped' /\ PrefsTyped'
  BY <1>5 DEF IInv, BranchesTyped, PrefsTyped
<1> QED
  BY <1>1, <1>7, <1>8, <1>9, HandleSound

LEMMA UpdateBranchSound ==
    ASSUME IInv, NEW r \in Requests, NEW b \in Branches, NEW to \in BOOLEAN,
           UpdateBranch(r, b, to)
    PROVE  Sound
<1> DEFINE cells == IF to THEN ActiveProducts \X {b} ELSE {}
<1>1. Handle(r, Writes("branches"), req)
  BY DEF UpdateBranch, BranchRoutes
<1>2. cells \in SUBSET Cells
  BY DEF ActiveProducts, Cells
<1>3. Empty \in [Branches -> Int] /\ \A x \in Branches : Empty[x] = 0
  BY DEF Empty
<1>4. stock' = Opened(stock, cells, Empty)
  BY DEF UpdateBranch, OpenRows
<1>5. UNCHANGED <<member, product, prefs>>
  BY DEF UpdateBranch
<1>6. ~req[r].ctx.readOnly /\ req[r].ctx.role \in {"OWNER", "ADMIN"}
  <2>1. Writes("branches").module = "branches" /\ Writes("branches").level = WRITE
    BY DEF Writes, Requires
  <2> QED
    BY <1>1, <2>1, SameFollows, HandleFacts, FullAccess DEF FullAccessRoles
<1>7. Justified(r, req[r].ctx)
  BY <1>2, <1>3, <1>4, <1>5, <1>6, OpeningJustified
<1>8. LevelsTyped'
  BY <1>2, <1>3, <1>4, OpenRowsTyped
<1>9. BranchesTyped'
  BY DEF UpdateBranch, IInv, BranchesTyped
<1>10. member' = member /\ PrefsTyped'
  BY <1>5 DEF IInv, PrefsTyped
<1> QED
  BY <1>1, <1>7, <1>8, <1>9, <1>10, HandleSound

LEMMA SetMemberSound ==
    ASSUME IInv, NEW r \in Requests, req[r].at \in UnderWay,
           Admits(req[r].ctx, Writes("team")), NEW m \in Members,
           CanManage(r, m) \/ Reinvites(r, m), NEW row \in MemberRows, SetMember(m, row),
           req' = [Overtaken({m}) EXCEPT ![r] = Idle], readOnly' = readOnly
    PROVE  Sound
<1>1. Justified(r, req[r].ctx)
  BY UnderWayTyped, MemberJustified
<1>2. MembersTyped'
  BY DEF SetMember, IInv, MembersTyped
<1>3. BranchesTyped' /\ LevelsTyped' /\ PrefsTyped'
  BY DEF SetMember, IInv, BranchesTyped, LevelsTyped, PrefsTyped
<1>4. \A q \in Requests : req[q].at \in UnderWay =>
        Overtaken({m})[q].stale \/ member'[req[q].member] = member[req[q].member]
  <2>1. \A n \in Members : n # m => member'[n] = member[n]
    BY DEF SetMember, IInv, MembersTyped
  <2> QED
    BY <2>1, UnderWayTyped, OvertakenFollows
<1> QED
  BY <1>1, <1>2, <1>3, <1>4, OvertakenFollows, AnswerSound

LEMMA UpdateMemberSound ==
    ASSUME IInv, NEW r \in Requests, NEW m \in Members, NEW role \in InvitableRoles,
           NEW branches \in SUBSET Branches, UpdateMember(r, m, role, branches)
    PROVE  Sound
<1> DEFINE row == [member[m] EXCEPT !.role = role, !.branches = BranchesFor(role, branches)]
<1>1. /\ Handle(r, Writes("team"), Overtaken({m})) /\ CanManage(r, m) /\ SetMember(m, row)
  BY DEF UpdateMember, TeamRoutes
<1>2. row \in MemberRows
  BY DEF InvitableRoles, BranchesFor, MemberRows, IInv, MembersTyped
<1> QED
  BY <1>1, <1>2, OvertakenFollows, HandleFacts, SetMemberSound

LEMMA RemoveMemberSound ==
    ASSUME IInv, NEW r \in Requests, NEW m \in Members, RemoveMember(r, m)
    PROVE  Sound
<1> DEFINE row == [member[m] EXCEPT !.status = "out"]
<1>1. Handle(r, Writes("team"), Overtaken({m})) /\ CanManage(r, m) /\ SetMember(m, row)
  BY DEF RemoveMember, TeamRoutes
<1>2. row \in MemberRows
  BY DEF IInv, MembersTyped, MemberRows
<1> QED
  BY <1>1, <1>2, OvertakenFollows, HandleFacts, SetMemberSound

(* The guards of an invite ran when it was looked up: its right to write  *)
(* the team is part of what a request at "invite" is known to have.       *)
LEMMA InviteWriteSound ==
    ASSUME IInv, NEW r \in Requests, NEW role \in InvitableRoles,
           NEW branches \in SUBSET Branches, NEW status \in {"invited", "active"},
           InviteWrite(r, role, branches, status)
    PROVE  Sound
<1> DEFINE m == req[r].target
           row == [role |-> role, branches |-> BranchesFor(role, branches), status |-> status]
<1>1. /\ req[r].at = "invite" /\ Reinvites(r, m) /\ SetMember(m, row) /\ readOnly' = readOnly
      /\ req' = [Overtaken({m}) EXCEPT ![r] = Idle]
  BY DEF InviteWrite, Reinvites
<1>2. m \in Members /\ req[r].at \in UnderWay /\ Admits(req[r].ctx, Writes("team"))
  BY <1>1 DEF IInv, ContextsTyped, InviteRequests, InvitesAdmitted, UnderWay
<1>3. row \in MemberRows
  BY DEF InvitableRoles, BranchesFor, MemberRows
<1> HIDE DEF m, row
<1> QED
  BY <1>1, <1>2, <1>3, SetMemberSound

LEMMA ResendInviteSound ==
    ASSUME IInv, NEW r \in Requests, NEW m \in Members, ResendInvite(r, m)
    PROVE  Sound
<1>1. Handle(r, Writes("team"), req) /\ UNCHANGED data
  BY DEF ResendInvite, TeamRoutes
<1>2. UNCHANGED Preserved /\ UNCHANGED <<member, activeBranches, stock, prefs>>
  BY <1>1 DEF data, Preserved
<1>3. BranchesTyped' /\ LevelsTyped' /\ PrefsTyped'
  BY <1>2 DEF IInv, BranchesTyped, LevelsTyped, PrefsTyped
<1> QED
  BY <1>1, <1>2, <1>3, NothingIsJustified, HandleSound

(* Steps that change none of the data and answer nothing that writes.     *)
LEMMA OnlyRequests ==
    ASSUME IInv, UNCHANGED data, readOnly' \in BOOLEAN,
           DOMAIN req' = Requests, req' = [r \in Requests |-> req'[r]],
           ContextsTyped', ContextsFresh', InvitesAdmitted',
           \A r \in Requests : req'[r] = Idle => req[r].at # "merge"
    PROVE  Sound
<1>1. IInv'
  BY DEF data, IInv, MembersTyped, BranchesTyped, LevelsTyped, PrefsTyped
<1>2. UNCHANGED Preserved
  BY DEF data, Preserved
<1>3. AnswersJustified
  BY <1>2, NothingIsJustified DEF AnswersJustified
<1>4. ChangesKept
  BY DEF ChangesKept
<1> QED
  BY <1>1, <1>3, <1>4 DEF Sound

LEMMA GuardSound ==
    ASSUME IInv, NEW r \in Requests, NEW m \in Members, Guard(r, m)
    PROVE  Sound
<1> DEFINE new == [at |-> "guarded", member |-> m, ctx |-> RightsOf(m), stale |-> FALSE]
<1>1. new \in GuardedRequests
  BY DEF ContextOf, Contexts, RightsOf, IInv, MembersTyped, MemberRows, GuardedRequests
<1>2. req' = [req EXCEPT ![r] = new] /\ UNCHANGED <<data, readOnly>>
  BY DEF Guard
<1>3. DOMAIN req' = Requests /\ req' = [q \in Requests |-> req'[q]]
      /\ req'[r] = new /\ \A q \in Requests \ {r} : req'[q] = req[q]
  BY <1>2 DEF IInv
<1>4. ContextsTyped' /\ InvitesAdmitted'
  <2>2. new.at = "guarded"
    OBVIOUS
  <2> HIDE DEF new
  <2>1. ContextsTyped'
    BY <1>1, <1>3, <2>2 DEF IInv, ContextsTyped
  <2>3. InvitesAdmitted'
    BY <2>2, <1>3 DEF IInv, InvitesAdmitted
  <2> QED
    BY <2>1, <2>3
<1>5. ContextsFresh'
  <2>1. member[m].status = "active" /\ UNCHANGED <<member, readOnly>>
    BY <1>2 DEF Guard, data
  <2>2. RightsOf(m)' = RightsOf(m)
    BY <2>1 DEF RightsOf
  <2>3. \A q \in Requests \ {r} : RightsOf(req[q].member)' = RightsOf(req[q].member)
    BY <2>1, <1>3 DEF RightsOf
  <2> QED
    BY <1>3, <2>1, <2>2, <2>3 DEF IInv, ContextsFresh, RightsOf
<1>6. \A q \in Requests : req'[q] = Idle => req[q].at # "merge"
  BY <1>3 DEF Idle
<1> QED
  BY <1>2, <1>3, <1>4, <1>5, <1>6, OnlyRequests DEF IInv

(* A step that leaves the rights of all members, and moves a request that *)
(* is under way without losing what its guards found.                     *)
LEMMA FreshWhileRightsStay ==
    ASSUME IInv, UNCHANGED <<member, readOnly>>,
           \A q \in Requests : req'[q].at \in UnderWay =>
               /\ req[q].at \in UnderWay /\ req'[q].stale = req[q].stale
               /\ req'[q].member = req[q].member /\ req'[q].ctx = req[q].ctx
    PROVE  ContextsFresh'
  BY FreshKept

LEMMA LeaveSound ==
    ASSUME IInv, NEW r \in Requests, Leave(r)
    PROVE  Sound
<1>1. req' = [req EXCEPT ![r] = Idle] /\ UNCHANGED <<data, readOnly>> /\ req[r].at # "merge"
  BY DEF Leave, UnderWay
<1>2. /\ DOMAIN req' = Requests /\ req' = [q \in Requests |-> req'[q]] /\ ContextsTyped'
      /\ req'[r] = Idle /\ \A q \in Requests \ {r} : req'[q] = req[q]
  BY <1>1, SameFollows, AnswerKeepsContexts
<1>3. ContextsFresh'
  BY <1>1, <1>2, FreshWhileRightsStay DEF data, Idle, UnderWay
<1>4. InvitesAdmitted'
  BY <1>2 DEF IInv, InvitesAdmitted, Idle
<1>5. \A q \in Requests : req'[q] = Idle => req[q].at # "merge"
  BY <1>1, <1>2 DEF Idle
<1> QED
  BY <1>1, <1>2, <1>3, <1>4, <1>5, OnlyRequests DEF IInv

LEMMA InviteSound ==
    ASSUME IInv, NEW r \in Requests, NEW m \in Members, Invite(r, m)
    PROVE  Sound
<1> DEFINE new == [at |-> "invite", member |-> req[r].member, ctx |-> req[r].ctx,
                   stale |-> req[r].stale, target |-> m, moved |-> FALSE]
<1>1. /\ req[r].at \in UnderWay /\ req' = [req EXCEPT ![r] = new]
      /\ UNCHANGED <<data, readOnly>> /\ Admits(req[r].ctx, Writes("team"))
  BY DEF Invite, UnderWay, TeamRoutes
<1>2. /\ DOMAIN req' = Requests /\ req' = [q \in Requests |-> req'[q]]
      /\ req'[r] = new /\ \A q \in Requests \ {r} : req'[q] = req[q]
  BY <1>1 DEF IInv
<1>3. new \in InviteRequests
  BY <1>1, UnderWayTyped DEF InviteRequests
<1>4. ContextsTyped' /\ InvitesAdmitted'
  BY <1>1, <1>2, <1>3 DEF IInv, ContextsTyped, InvitesAdmitted
<1>5. ContextsFresh'
  BY <1>1, <1>2, FreshWhileRightsStay DEF data
<1>6. \A q \in Requests : req'[q] = Idle => req[q].at # "merge"
  BY <1>2 DEF Idle
<1> QED
  BY <1>1, <1>2, <1>4, <1>5, <1>6, OnlyRequests DEF IInv

LEMMA ConfirmEmailChangeSound ==
    ASSUME IInv, NEW m \in Members, ConfirmEmailChange(m)
    PROVE  Sound
<1>1. /\ DOMAIN req' = Requests /\ req' = [q \in Requests |-> req'[q]]
      /\ \A q \in Requests :
            req'[q] = IF q \in Invites(m) THEN [req[q] EXCEPT !.moved = TRUE] ELSE req[q]
  BY DEF ConfirmEmailChange
<1>2. ASSUME NEW q \in Requests, q \in Invites(m)
      PROVE  /\ req'[q] \in InviteRequests /\ req[q].at = "invite"
             /\ req'[q].stale = req[q].stale /\ req'[q].member = req[q].member
             /\ req'[q].ctx = req[q].ctx
  BY <1>1, <1>2 DEF Invites, IInv, ContextsTyped, InviteRequests
<1>3. \A q \in Requests : q \notin Invites(m) => req'[q] = req[q]
  BY <1>1
<1>4. ContextsTyped' /\ InvitesAdmitted'
  BY <1>2, <1>3 DEF IInv, ContextsTyped, InvitesAdmitted, InviteRequests
<1>5. UNCHANGED <<data, readOnly>>
  BY DEF ConfirmEmailChange
<1>6. ContextsFresh'
  BY <1>2, <1>3, <1>5, FreshWhileRightsStay DEF data, UnderWay
<1>7. \A q \in Requests : req'[q] = Idle => req[q].at # "merge"
  BY <1>2, <1>3 DEF Idle
<1> QED
  BY <1>1, <1>4, <1>5, <1>6, <1>7, OnlyRequests DEF IInv

(* Who accepts was no active member, so that no request of theirs that is *)
(* not stale is under way.                                                *)
LEMMA AcceptInviteSound ==
    ASSUME IInv, NEW m \in Members, AcceptInvite(m)
    PROVE  Sound
<1> DEFINE row == [member[m] EXCEPT !.status = "active"]
<1>1. /\ member[m].status = "invited" /\ SetMember(m, row) /\ UNCHANGED <<readOnly, req>>
  BY DEF AcceptInvite
<1>2. MembersTyped' /\ \A n \in Members : n # m => member'[n] = member[n]
  BY <1>1 DEF SetMember, IInv, MembersTyped, MemberRows
<1>3. ContextsFresh'
  <2>1. ASSUME NEW q \in Requests, req[q].at \in UnderWay, ~req[q].stale
        PROVE  member'[req[q].member] = member[req[q].member]
    BY <1>1, <1>2, <2>1, UnderWayTyped DEF IInv, ContextsFresh
  <2> QED
    BY <1>1, <2>1, FreshKept
<1>4. /\ BranchesTyped' /\ LevelsTyped' /\ PrefsTyped' /\ ContextsTyped' /\ InvitesAdmitted'
      /\ DOMAIN req' = Requests /\ req' = [q \in Requests |-> req'[q]] /\ readOnly' \in BOOLEAN
  BY <1>1 DEF SetMember, IInv, BranchesTyped, LevelsTyped, PrefsTyped, ContextsTyped,
              InvitesAdmitted
<1>5. \A q \in Requests : req'[q] = Idle => req[q].at = "idle"
  BY <1>1 DEF Idle
<1>6. AnswersJustified /\ ChangesKept
  BY <1>5 DEF AnswersJustified, ChangesKept, UnderWay
<1> QED
  BY <1>2, <1>3, <1>4, <1>6 DEF Sound, IInv

LEMMA UpdatePreferencesSound ==
    ASSUME IInv, NEW r \in Requests, NEW dto, UpdatePreferences(r, dto)
    PROVE  Sound
<1> DEFINE new == [at |-> "merge", member |-> req[r].member, dto |-> dto,
                   stored |-> prefs[req[r].member]]
<1>1. /\ req' = [req EXCEPT ![r] = new] /\ req[r].at \in UnderWay
      /\ UNCHANGED <<data, readOnly>>
  BY DEF UpdatePreferences, UnderWay
<1>2. req[r].member \in Members
  BY <1>1, UnderWayTyped
<1>3. /\ DOMAIN req' = Requests /\ req' = [q \in Requests |-> req'[q]]
      /\ req'[r] = new /\ \A q \in Requests \ {r} : req'[q] = req[q]
  BY <1>1 DEF IInv
<1>4. ContextsTyped' /\ InvitesAdmitted'
  BY <1>2, <1>3 DEF IInv, ContextsTyped, InvitesAdmitted
<1>5. ContextsFresh'
  BY <1>1, <1>3, FreshWhileRightsStay DEF data, UnderWay
<1>6. \A q \in Requests : req'[q] = Idle => req[q].at # "merge"
  BY <1>3 DEF Idle
<1> QED
  BY <1>1, <1>3, <1>4, <1>5, <1>6, OnlyRequests DEF IInv

(* The merge keeps what the request does not name: an overlay over the    *)
(* defaults has all their keys, and takes from the dto only the dto's.    *)
LEMMA MergeKeepsTheRest ==
    ASSUME NEW dto, NEW stored, NEW k \in PreferenceKeys \ DOMAIN dto
    PROVE  WithDefaults(Merged(dto, stored))[k] = WithDefaults(stored)[k]
<1>1. DOMAIN WithDefaults(stored) = PreferenceKeys
  BY DEF WithDefaults, Over, PreferenceKeys
<1>2. DOMAIN Merged(dto, stored) = PreferenceKeys
  BY <1>1 DEF Merged, Over
<1>3. Merged(dto, stored)[k] = WithDefaults(stored)[k]
  BY <1>1 DEF Merged, Over
<1>4. WithDefaults(Merged(dto, stored))[k] = Merged(dto, stored)[k]
  BY <1>2 DEF WithDefaults, Over, PreferenceKeys
<1> QED
  BY <1>3, <1>4

LEMMA UpdatePreferencesWriteSound ==
    ASSUME IInv, NEW r \in Requests, UpdatePreferencesWrite(r)
    PROVE  Sound
<1> DEFINE m == req[r].member
<1>1. m \in Members
  BY DEF UpdatePreferencesWrite, IInv, ContextsTyped
<1>2. prefs' = [prefs EXCEPT ![m] = Merged(req[r].dto, req[r].stored)]
  BY DEF UpdatePreferencesWrite
<1>3. PrefsTyped' /\ prefs'[m] = Merged(req[r].dto, req[r].stored)
  BY <1>1, <1>2 DEF IInv, PrefsTyped
<1>4. UNCHANGED <<readOnly, member, activeBranches, product, stock, cancelable>>
  BY DEF UpdatePreferencesWrite
<1>5. req' = [req EXCEPT ![r] = Idle]
  BY DEF UpdatePreferencesWrite
<1>6. IInv'
  <2>1. /\ DOMAIN req' = Requests /\ req' = [q \in Requests |-> req'[q]] /\ ContextsTyped'
        /\ req'[r] = Idle /\ \A q \in Requests \ {r} : req'[q] = req[q]
    BY <1>5, SameFollows, AnswerKeepsContexts
  <2>2. ContextsFresh'
    BY <1>4, <2>1, FreshWhileRightsStay DEF Idle, UnderWay
  <2>3. InvitesAdmitted'
    BY <2>1 DEF IInv, InvitesAdmitted, Idle
  <2> QED
    BY <1>3, <1>4, <2>1, <2>2, <2>3 DEF IInv, MembersTyped, BranchesTyped, LevelsTyped
<1>7. AnswersJustified
  BY <1>4, NothingIsJustified DEF AnswersJustified, Preserved
<1>8. \A q \in Requests \ {r} : req'[q] = Idle => req[q].at = "idle"
  BY <1>5 DEF IInv, Idle
<1>9. ChangeKept(r)
  BY <1>3, MergeKeepsTheRest DEF ChangeKept
<1>10. ChangesKept
  BY <1>8, <1>9 DEF ChangesKept
<1> QED
  BY <1>6, <1>7, <1>10 DEF Sound

LEMMA ChangeSubscriptionSound ==
    ASSUME IInv, ChangeSubscription
    PROVE  Sound
<1>1. UNCHANGED data /\ req' = Overtaken(Members) /\ readOnly' \in BOOLEAN
  BY DEF ChangeSubscription, IInv
<1>2. /\ Follows(req')
      /\ \A q \in Requests : req[q].at \in UnderWay => req'[q].stale
  BY <1>1, UnderWayTyped, OvertakenFollows
<1>3. ContextsTyped'
  BY <1>2 DEF Follows, IInv, ContextsTyped, GuardedRequests, InviteRequests, UnderWay
<1>4. ContextsFresh' /\ InvitesAdmitted'
  BY <1>2 DEF Follows, ContextsFresh, IInv, InvitesAdmitted, UnderWay
<1>5. \A q \in Requests : req'[q] = Idle => req[q].at # "merge"
  BY <1>2 DEF Follows, Idle
<1> QED
  BY <1>1, <1>2, <1>3, <1>4, <1>5, OnlyRequests DEF Follows

LEMMA AgeSound ==
    ASSUME IInv, Age
    PROVE  Sound
<1>1. UNCHANGED <<member, product, activeBranches, stock, prefs, req, readOnly>>
  BY DEF Age
<1>2. IInv'
  BY <1>1 DEF IInv, ContextsTyped, ContextsFresh, InvitesAdmitted, RightsOf, MembersTyped,
              BranchesTyped, LevelsTyped, PrefsTyped
<1>3. \A r \in Requests : req'[r] = Idle => req[r].at = "idle"
  BY <1>1 DEF Idle
<1> QED
  BY <1>2, <1>3 DEF Sound, AnswersJustified, ChangesKept, UnderWay

-----------------------------------------------------------------------------
LEMMA HandlersSound ==
    ASSUME IInv, NEW r \in Requests, HandleMovement(r) \/ HandleProduct(r) \/ HandleTeam(r)
    PROVE  Sound
<1>1. CASE HandleMovement(r)
  <2>1. CASE \E c \in DOMAIN stock, type \in {"ENTRADA", "SAIDA"}, qty \in Quantities :
                CreateMovement(r, type, c, qty)
    BY <2>1, CreateMovementSound, LevelsAssumption DEF Types
  <2>2. CASE \E c \in DOMAIN stock, qty \in 0..MaxLevel : CreateMovement(r, "AJUSTE", c, qty)
    BY <2>2, CreateMovementSound, LevelsAssumption DEF Types
  <2>3. CASE \E m \in BagToSet(cancelable) : ReverseMovement(r, m)
    BY <2>3, ReverseMovementSound
  <2> QED
    BY <1>1, <2>1, <2>2, <2>3 DEF HandleMovement
<1>2. CASE HandleProduct(r)
  BY <1>2, CreateProductSound, UpdateProductSound DEF HandleProduct
<1>3. CASE HandleTeam(r)
  BY <1>3, UpdateMemberSound, RemoveMemberSound, ResendInviteSound, InviteSound,
     InviteWriteSound DEF HandleTeam
<1> QED
  BY <1>1, <1>2, <1>3

LEMMA StepSound ==
    ASSUME IInv, Next
    PROVE  Sound
<1>1. CASE ChangeSubscription \/ Age \/ \E m \in Members : AcceptInvite(m) \/ ConfirmEmailChange(m)
  BY <1>1, ChangeSubscriptionSound, AgeSound, AcceptInviteSound, ConfirmEmailChangeSound
<1>2. ASSUME NEW r \in Requests, NEW m \in Members, Guard(r, m)
      PROVE  Sound
  BY <1>2, GuardSound
<1>3. ASSUME NEW r \in Requests, Leave(r)
      PROVE  Sound
  BY <1>3, LeaveSound
<1>4. ASSUME NEW r \in Requests, HandleMovement(r) \/ HandleProduct(r) \/ HandleTeam(r)
      PROVE  Sound
  BY <1>4, HandlersSound
<1>5. ASSUME NEW r \in Requests, NEW b \in Branches, NEW to \in BOOLEAN, UpdateBranch(r, b, to)
      PROVE  Sound
  BY <1>5, UpdateBranchSound
<1>6. ASSUME NEW r \in Requests, NEW dto \in Changes, UpdatePreferences(r, dto)
      PROVE  Sound
  BY <1>6, UpdatePreferencesSound
<1>7. ASSUME NEW r \in Requests, UpdatePreferencesWrite(r)
      PROVE  Sound
  BY <1>7, UpdatePreferencesWriteSound
<1> QED
  BY <1>1, <1>2, <1>3, <1>4, <1>5, <1>6, <1>7 DEF Next

LEMMA StutterKeeps == IInv /\ UNCHANGED vars => IInv'
  BY DEF IInv, vars, data, ContextsTyped, ContextsFresh, InvitesAdmitted, RightsOf,
         MembersTyped, BranchesTyped, LevelsTyped, PrefsTyped

(* Rows and contexts keep their types, and whatever requests run and in   *)
(* whichever order they take effect, the context of a request under way   *)
(* is what its member is entitled to now, unless a change of rights       *)
(* overtook it.                                                           *)
THEOREM Invariance == Spec => []IInv
<1>1. IInv /\ [Next]_vars => IInv'
  BY StepSound, StutterKeeps DEF Sound
<1> QED
  BY InitInv, <1>1, PTL DEF Spec

(* The deployment guide's read-only account and the roles' limits, for    *)
(* every request: what an answer changes is allowed by what its member is *)
(* entitled to at that moment, or, where a change of rights overtook the  *)
(* request, at its guards; and only an invite that a change of e-mail or  *)
(* a removal overtook changes its sender's own row or an owner's.         *)
THEOREM AccessAlwaysJustified == Spec => AccessJustified
<1>1. IInv /\ [Next]_vars => [AnswersJustified]_vars
  BY StepSound DEF Sound
<1> QED
  BY Invariance, <1>1, PTL DEF Spec, AccessJustified

(* me.service.ts updatePreferences: a merge loses only to another write.  *)
THEOREM PreferencesAlwaysKept == Spec => PreferencesKept
<1>1. IInv /\ [Next]_vars => [ChangesKept]_vars
  BY StepSound DEF Sound
<1> QED
  BY Invariance, <1>1, PTL DEF Spec, PreferencesKept
-----------------------------------------------------------------------------
(* The rest of the types: the levels of the history have the same rows,   *)
(* and the bags hold movements of rows there are.                         *)
LevelsBounded ==
    /\ DOMAIN opening = DOMAIN stock
    /\ \A c \in DOMAIN stock : stock[c] \in 0..MaxLevel /\ opening[c] \in 0..MaxLevel

MovementTyped(m) ==
    m.type \in Types /\ m.cell \in DOMAIN stock /\ m.qty \in (-MaxLevel)..MaxLevel

BagsTyped == \A m \in DOMAIN journal \cup DOMAIN cancelable : MovementTyped(m)

ProductsTyped == product \in [Products -> {"none", "active", "inactive"}]

PrefsStored == \A m \in Members : DOMAIN prefs[m] \in {{}, PreferenceKeys}

RequestsTyped ==
    \A r \in Requests : req[r] = Idle \/ req[r].at \in {"guarded", "invite", "merge"}

Shapes ==
    /\ LevelsBounded
    /\ BagsTyped
    /\ ProductsTyped
    /\ PrefsStored
    /\ RequestsTyped
    /\ writes \in 0..MaxWrites

LEMMA ShapesGiveTypes ==
    ASSUME IInv, Shapes
    PROVE  TypeOK
  BY DEF IInv, ContextsTyped, GuardedRequests, InviteRequests, UnderWay, Idle, MembersTyped, LevelsTyped, BranchesTyped, Shapes, LevelsBounded,
         BagsTyped, MovementTyped, ProductsTyped, PrefsStored, RequestsTyped, TypeOK

LEMMA ShapesInit == Init => Shapes
<1> SUFFICES ASSUME Init PROVE Shapes
  OBVIOUS
<1>1. PICK existing \in SUBSET Products :
        /\ product = [p \in Products |-> IF p \in existing THEN "active" ELSE "none"]
        /\ stock \in [existing \X Branches -> 0..MaxLevel]
  BY DEF Init
<1>2. LevelsBounded /\ ProductsTyped
  BY <1>1 DEF Init, LevelsBounded, ProductsTyped
<1>3. BagsTyped
  BY DEF Init, BagsTyped, EmptyBag, SetToBag
<1>4. PrefsStored
  BY DEF Init, PrefsStored
<1>5. RequestsTyped
  BY DEF Init, RequestsTyped, Idle
<1>6. writes \in 0..MaxWrites
  BY LevelsAssumption DEF Init
<1> QED
  BY <1>2, <1>3, <1>4, <1>5, <1>6 DEF Shapes

(* What every handled request does to its own state and to the count.     *)
LEMMA AnswerTyped ==
    ASSUME IInv, Shapes, NEW r \in Requests, NEW others, Follows(others),
           req' = [others EXCEPT ![r] = Idle]
    PROVE  RequestsTyped'
  BY AnswerKeepsContexts DEF Follows, Shapes, RequestsTyped, UnderWay

LEMMA HandleTyped ==
    ASSUME IInv, Shapes, NEW r \in Requests, NEW need, Handle(r, need, req)
    PROVE  RequestsTyped' /\ writes' \in 0..MaxWrites
<1>1. req' = [req EXCEPT ![r] = Idle] /\ Written
  BY DEF Handle
<1>2. RequestsTyped'
  BY <1>1, SameFollows, AnswerTyped
<1>3. writes' \in 0..MaxWrites
  BY <1>1, LevelsAssumption DEF Written, Shapes
<1> QED
  BY <1>2, <1>3

(* A movement on a row that exists keeps level and journal in their types.*)
LEMMA PostShapes ==
    ASSUME IInv, Shapes, NEW m, Post(m),
           m.type \in Types, m.cell \in DOMAIN stock, m.qty \in Int
    PROVE  /\ LevelsBounded' /\ ProductsTyped' /\ PrefsStored'
           /\ MovementTyped(m)'
           /\ \A n \in DOMAIN journal' : MovementTyped(n)'
           /\ \A n \in DOMAIN cancelable : MovementTyped(n)'
<1>1. /\ stock' = [stock EXCEPT ![m.cell] = stock[m.cell] + m.qty]
      /\ stock[m.cell] + m.qty \in 0..MaxLevel
      /\ UNCHANGED <<product, prefs, opening>>
  BY DEF Post
<1>2. DOMAIN stock' = DOMAIN stock
  BY <1>1
<1>3. stock'[m.cell] = stock[m.cell] + m.qty
  BY PostTyped
<1>4. \A c \in DOMAIN stock : stock'[c] \in 0..MaxLevel
  BY <1>1, <1>3, PostTyped DEF Shapes, LevelsBounded
<1>5. LevelsBounded'
  BY <1>1, <1>2, <1>4 DEF Shapes, LevelsBounded
<1>6. ProductsTyped' /\ PrefsStored'
  BY <1>1 DEF Shapes, ProductsTyped, PrefsStored
<1>7. m.qty \in (-MaxLevel)..MaxLevel
  <2>1. stock[m.cell] \in 0..MaxLevel
    BY DEF Shapes, LevelsBounded
  <2> QED
    BY <1>1, <2>1, LevelsAssumption
<1>8. MovementTyped(m)'
  BY <1>2, <1>7 DEF MovementTyped
<1>9. \A n \in DOMAIN journal \cup DOMAIN cancelable : MovementTyped(n)'
  BY <1>2 DEF Shapes, BagsTyped, MovementTyped
<1>10. DOMAIN journal' \subseteq DOMAIN journal \cup {m}
  BY DEF Post, (+), SetToBag
<1> QED
  BY <1>5, <1>6, <1>8, <1>9, <1>10

(* A movement that is entered is of a row that exists, by a whole number. *)
LEMMA CreateMovementPosts ==
    ASSUME IInv, NEW r \in Requests, NEW type \in Types, NEW c \in DOMAIN stock,
           NEW qty \in Nat, CreateMovement(r, type, c, qty)
    PROVE  \E m : /\ Post(m) /\ cancelable' = cancelable (+) SetToBag({m})
                  /\ m.type \in Types /\ m.cell \in DOMAIN stock /\ m.qty \in Int
<1>1. PICK m : m = Movement(type, c, Delta(type, c, qty))
  OBVIOUS
<1>2. Post(m) /\ cancelable' = cancelable (+) SetToBag({m})
  BY <1>1 DEF CreateMovement
<1>3. m.type = type /\ m.cell = c /\ m.qty = Delta(type, c, qty)
  BY <1>1 DEF Movement
<1>4. Delta(type, c, qty) \in Int
  <2>1. stock[c] \in Int
    BY DEF IInv, LevelsTyped
  <2>2. CASE type = "ENTRADA"
    BY <2>2 DEF Delta
  <2>3. CASE type = "SAIDA"
    BY <2>3 DEF Delta
  <2>4. CASE type = "AJUSTE"
    BY <2>1, <2>4 DEF Delta
  <2> QED
    BY <2>2, <2>3, <2>4 DEF Types
<1> QED
  BY <1>2, <1>3, <1>4

LEMMA CreateMovementShapes ==
    ASSUME IInv, Shapes, NEW r \in Requests, NEW type \in Types, NEW c \in DOMAIN stock,
           NEW qty \in Nat, CreateMovement(r, type, c, qty)
    PROVE  Shapes'
<1>1. PICK m : /\ Post(m) /\ cancelable' = cancelable (+) SetToBag({m})
               /\ m.type \in Types /\ m.cell \in DOMAIN stock /\ m.qty \in Int
  BY CreateMovementPosts
<1>2. Handle(r, MovementRoutes.create, req)
  BY DEF CreateMovement
<1>3. /\ LevelsBounded' /\ ProductsTyped' /\ PrefsStored'
      /\ MovementTyped(m)'
      /\ \A n \in DOMAIN journal' : MovementTyped(n)'
      /\ \A n \in DOMAIN cancelable : MovementTyped(n)'
  BY <1>1, PostShapes
<1>4. DOMAIN cancelable' \subseteq DOMAIN cancelable \cup {m}
  BY <1>1 DEF (+), SetToBag
<1>5. BagsTyped'
  BY <1>3, <1>4 DEF BagsTyped
<1> QED
  BY <1>2, <1>3, <1>5, HandleTyped DEF Shapes

LEMMA ReverseMovementPosts ==
    ASSUME Shapes, NEW r \in Requests, NEW m \in DOMAIN cancelable, ReverseMovement(r, m)
    PROVE  \E n : Post(n) /\ n.type \in Types /\ n.cell \in DOMAIN stock /\ n.qty \in Int
<1>1. PICK n : n = Movement(m.type, m.cell, -m.qty)
  OBVIOUS
<1>2. MovementTyped(m)
  BY DEF Shapes, BagsTyped
<1>3. n.type = m.type /\ n.cell = m.cell /\ n.qty = -m.qty
  BY <1>1 DEF Movement
<1>4. n.type \in Types /\ n.cell \in DOMAIN stock /\ n.qty \in Int
  BY <1>2, <1>3, LevelsAssumption DEF MovementTyped
<1> QED
  BY <1>1, <1>4 DEF ReverseMovement

LEMMA ReverseMovementShapes ==
    ASSUME IInv, Shapes, NEW r \in Requests, NEW m \in DOMAIN cancelable, ReverseMovement(r, m)
    PROVE  Shapes'
<1>1. PICK n : Post(n) /\ n.type \in Types /\ n.cell \in DOMAIN stock /\ n.qty \in Int
  BY ReverseMovementPosts
<1>2. Handle(r, MovementRoutes.reverse, req) /\ cancelable' = cancelable (-) SetToBag({m})
  BY DEF ReverseMovement
<1>3. /\ LevelsBounded' /\ ProductsTyped' /\ PrefsStored'
      /\ \A x \in DOMAIN journal' : MovementTyped(x)'
      /\ \A x \in DOMAIN cancelable : MovementTyped(x)'
  BY <1>1, PostShapes
<1>4. DOMAIN cancelable' \subseteq DOMAIN cancelable
  BY <1>2 DEF (-), SetToBag
<1>5. BagsTyped'
  BY <1>3, <1>4 DEF BagsTyped
<1> QED
  BY <1>2, <1>3, <1>5, HandleTyped DEF Shapes

(* Rows open in both maps at once, at levels the first ones allow.        *)
LEMMA OpenRowsShapes ==
    ASSUME IInv, Shapes, NEW cells \in SUBSET Cells, NEW first \in [Branches -> 0..MaxLevel],
           OpenRows(cells, first), UNCHANGED <<journal, cancelable, prefs>>
    PROVE  LevelsBounded' /\ BagsTyped' /\ PrefsStored'
<1>1. stock' = Opened(stock, cells, first) /\ opening' = Opened(opening, cells, first)
  BY DEF OpenRows
<1>2. DOMAIN opening = DOMAIN stock
  BY DEF Shapes, LevelsBounded
<1>3. DOMAIN stock' = DOMAIN stock \cup cells /\ DOMAIN opening' = DOMAIN stock \cup cells
  BY <1>1, <1>2 DEF Opened
<1>4. \A c \in cells : first[c[2]] \in 0..MaxLevel
  BY DEF Cells
<1>5. \A c \in DOMAIN stock \cup cells :
        /\ stock'[c] = IF c \in DOMAIN stock THEN stock[c] ELSE first[c[2]]
        /\ opening'[c] = IF c \in DOMAIN stock THEN opening[c] ELSE first[c[2]]
  BY <1>1, <1>2 DEF Opened
<1>6. LevelsBounded'
  BY <1>3, <1>4, <1>5 DEF Shapes, LevelsBounded
<1>7. BagsTyped'
  BY <1>3 DEF Shapes, BagsTyped, MovementTyped
<1>8. PrefsStored'
  BY DEF Shapes, PrefsStored
<1> QED
  BY <1>6, <1>7, <1>8

LEMMA EmptyLevels == Empty \in [Branches -> 0..MaxLevel]
  BY LevelsAssumption DEF Empty

(* Whoever opens rows opens them within the products and branches, and at *)
(* levels that the bound allows.                                          *)
RowsOpen ==
    /\ \E cells \in SUBSET Cells, first \in [Branches -> 0..MaxLevel] : OpenRows(cells, first)
    /\ UNCHANGED <<journal, cancelable, prefs>>

LEMMA CreateProductOpens ==
    ASSUME IInv, NEW r \in Requests, NEW p \in Products,
           NEW bs \in SUBSET Branches, NEW initial \in [bs -> Quantities],
           NEW isActive \in BOOLEAN, CreateProduct(r, p, isActive, initial)
    PROVE  RowsOpen
<1> DEFINE cells == {p} \X activeBranches
           first == Over(Empty, initial)
<1>1. OpenRows(cells, first) /\ UNCHANGED <<journal, cancelable, prefs>>
  BY DEF CreateProduct
<1>2. cells \in SUBSET Cells
  BY DEF IInv, BranchesTyped, Cells
<1>3. first \in [Branches -> 0..MaxLevel]
  <2>1. \A b \in bs : initial[b] \in 0..MaxLevel
    <3>1. \A b \in bs : initial[b] \in 1..MaxLevel
      BY LevelsAssumption
    <3> QED
      BY <3>1, LevelsAssumption
  <2>2. DOMAIN Empty = Branches /\ \A b \in Branches : Empty[b] \in 0..MaxLevel
    BY LevelsAssumption DEF Empty
  <2>3. first = [b \in Branches |-> IF b \in bs THEN initial[b] ELSE Empty[b]]
    BY <2>2 DEF Over
  <2> QED
    BY <2>1, <2>2, <2>3
<1> HIDE DEF cells, first
<1> QED
  BY <1>1, <1>2, <1>3 DEF RowsOpen

LEMMA UpdateProductOpens ==
    ASSUME IInv, NEW r \in Requests, NEW p \in Products, NEW to \in BOOLEAN,
           UpdateProduct(r, p, to)
    PROVE  RowsOpen
<1> DEFINE cells == IF to THEN {p} \X activeBranches ELSE {}
<1>1. OpenRows(cells, Empty) /\ UNCHANGED <<journal, cancelable, prefs>>
  BY DEF UpdateProduct
<1>2. cells \in SUBSET Cells
  BY DEF IInv, BranchesTyped, Cells
<1> HIDE DEF cells
<1> QED
  BY <1>1, <1>2, EmptyLevels DEF RowsOpen

LEMMA UpdateBranchOpens ==
    ASSUME NEW r \in Requests, NEW b \in Branches, NEW to \in BOOLEAN, UpdateBranch(r, b, to)
    PROVE  RowsOpen
<1> DEFINE cells == IF to THEN ActiveProducts \X {b} ELSE {}
<1>1. OpenRows(cells, Empty) /\ UNCHANGED <<journal, cancelable, prefs>>
  BY DEF UpdateBranch
<1>2. cells \in SUBSET Cells
  BY DEF ActiveProducts, Cells
<1> HIDE DEF cells
<1> QED
  BY <1>1, <1>2, EmptyLevels DEF RowsOpen

LEMMA ProductShapes ==
    ASSUME IInv, Shapes, NEW r \in Requests, HandleProduct(r)
    PROVE  Shapes'
<1>1. RowsOpen
  BY CreateProductOpens, UpdateProductOpens DEF HandleProduct
<1>2. LevelsBounded' /\ BagsTyped' /\ PrefsStored'
  BY <1>1, OpenRowsShapes DEF RowsOpen
<1>3. /\ \E need : Handle(r, need, req)
      /\ \E p \in Products, a \in BOOLEAN : product' = [product EXCEPT ![p] = Flag(a)]
  BY DEF HandleProduct, CreateProduct, UpdateProduct
<1>4. ProductsTyped'
  BY <1>3 DEF Shapes, ProductsTyped, Flag
<1> QED
  BY <1>2, <1>3, <1>4, HandleTyped DEF Shapes

LEMMA UpdateBranchShapes ==
    ASSUME IInv, Shapes, NEW r \in Requests, NEW b \in Branches, NEW to \in BOOLEAN,
           UpdateBranch(r, b, to)
    PROVE  Shapes'
<1>1. LevelsBounded' /\ BagsTyped' /\ PrefsStored'
  BY UpdateBranchOpens, OpenRowsShapes DEF RowsOpen
<1>2. (\E need : Handle(r, need, req)) /\ UNCHANGED product
  BY DEF UpdateBranch
<1> QED
  BY <1>1, <1>2, HandleTyped DEF Shapes, ProductsTyped

(* Steps that leave products, levels, movements and preferences alone.    *)
LEMMA DataShapes ==
    ASSUME Shapes, UNCHANGED <<product, stock, journal, cancelable, prefs, opening>>
    PROVE  LevelsBounded' /\ BagsTyped' /\ ProductsTyped' /\ PrefsStored'
  BY DEF Shapes, LevelsBounded, BagsTyped, MovementTyped, ProductsTyped, PrefsStored

LEMMA CountTyped ==
    ASSUME Shapes, Written \/ UNCHANGED writes
    PROVE  writes' \in 0..MaxWrites
  BY LevelsAssumption DEF Written, Shapes

LEMMA TeamShapes ==
    ASSUME IInv, Shapes, NEW r \in Requests, HandleTeam(r)
    PROVE  Shapes'
<1>1. /\ Written \/ UNCHANGED writes
      /\ UNCHANGED <<product, stock, journal, cancelable, prefs, opening>>
  BY DEF HandleTeam, UpdateMember, RemoveMember, ResendInvite, Invite, InviteWrite, Handle,
         SetMember, data
<1>2. \/ \E others : Follows(others) /\ req' = [others EXCEPT ![r] = Idle]
      \/ \E m \in Members : Invite(r, m)
  BY SameFollows, OvertakenFollows
     DEF HandleTeam, UpdateMember, RemoveMember, ResendInvite, InviteWrite, Handle
<1>3. RequestsTyped'
  <2>1. CASE \E m \in Members : Invite(r, m)
    BY <2>1 DEF Invite, IInv, Shapes, RequestsTyped
  <2> QED
    BY <1>2, <2>1, AnswerTyped
<1> QED
  BY <1>1, <1>3, CountTyped, DataShapes DEF Shapes

LEMMA GuardShapes ==
    ASSUME IInv, Shapes, NEW r \in Requests,
           Leave(r) \/ (\E m \in Members : Guard(r, m))
    PROVE  Shapes'
<1>1. RequestsTyped'
  BY DEF Leave, Guard, IInv, Shapes, RequestsTyped, Idle
<1>2. UNCHANGED <<data, writes>>
  BY DEF Leave, Guard
<1> QED
  BY <1>1, <1>2, DataShapes DEF data, Shapes

LEMMA UpdatePreferencesShapes ==
    ASSUME IInv, Shapes, NEW r \in Requests, NEW dto, UpdatePreferences(r, dto)
    PROVE  Shapes'
<1>1. /\ req' = [req EXCEPT ![r] = [at |-> "merge", member |-> req[r].member, dto |-> dto,
                                    stored |-> prefs[req[r].member]]]
      /\ Written /\ UNCHANGED data
  BY DEF UpdatePreferences
<1>2. RequestsTyped'
  BY <1>1 DEF IInv, Shapes, RequestsTyped
<1>3. writes' \in 0..MaxWrites
  BY <1>1, CountTyped
<1> QED
  BY <1>1, <1>2, <1>3, DataShapes DEF data, Shapes

LEMMA UpdatePreferencesWriteShapes ==
    ASSUME IInv, Shapes, NEW r \in Requests, UpdatePreferencesWrite(r)
    PROVE  Shapes'
<1> DEFINE m == req[r].member
           merged == Merged(req[r].dto, req[r].stored)
<1>1. /\ prefs' = [prefs EXCEPT ![m] = merged]
      /\ req' = [req EXCEPT ![r] = Idle]
      /\ UNCHANGED <<product, stock, journal, cancelable, opening, writes>>
  BY DEF UpdatePreferencesWrite
<1>2. DOMAIN merged = PreferenceKeys
  BY DEF Merged, WithDefaults, Over, PreferenceKeys
<1> HIDE DEF merged
<1>3. PrefsStored'
  BY <1>1, <1>2 DEF IInv, PrefsTyped, Shapes, PrefsStored
<1>4. RequestsTyped'
  BY <1>1 DEF IInv, Shapes, RequestsTyped, Idle
<1>5. LevelsBounded' /\ BagsTyped' /\ ProductsTyped'
  BY <1>1 DEF Shapes, LevelsBounded, BagsTyped, MovementTyped, ProductsTyped
<1> QED
  BY <1>1, <1>3, <1>4, <1>5 DEF Shapes

LEMMA AgeShapes ==
    ASSUME Shapes, Age
    PROVE  Shapes'
<1>1. writes' \in 0..MaxWrites
  BY CountTyped DEF Age
<1>2. /\ DOMAIN journal' \subseteq DOMAIN journal
      /\ opening' \in {opening, stock}
      /\ UNCHANGED <<product, stock, cancelable, prefs, req>>
  BY DEF Age, EmptyBag, SetToBag
<1>3. LevelsBounded'
  BY <1>2 DEF Shapes, LevelsBounded
<1>4. BagsTyped' /\ ProductsTyped' /\ PrefsStored' /\ RequestsTyped'
  BY <1>2 DEF Shapes, BagsTyped, MovementTyped, ProductsTyped, PrefsStored, RequestsTyped
<1> QED
  BY <1>1, <1>3, <1>4 DEF Shapes

Outside == ChangeSubscription \/ \E m \in Members : AcceptInvite(m) \/ ConfirmEmailChange(m)

LEMMA OutsideShapes ==
    ASSUME IInv, Shapes, Outside
    PROVE  Shapes'
<1>1. Written /\ UNCHANGED <<product, stock, journal, cancelable, prefs, opening>>
  BY DEF Outside, ChangeSubscription, AcceptInvite, ConfirmEmailChange, SetMember, data
<1>2. RequestsTyped'
  <2>1. CASE ChangeSubscription
    BY <2>1, OvertakenFollows
       DEF ChangeSubscription, Follows, Shapes, RequestsTyped, UnderWay, Idle
  <2>2. CASE \E m \in Members : AcceptInvite(m)
    BY <2>2 DEF AcceptInvite, Shapes, RequestsTyped
  <2>3. CASE \E m \in Members : ConfirmEmailChange(m)
    <3>1. \A q \in Requests :
            req'[q] = req[q] \/ (req[q] \in InviteRequests
                                   /\ req'[q] = [req[q] EXCEPT !.moved = TRUE])
      BY <2>3 DEF ConfirmEmailChange, Invites, IInv, ContextsTyped
    <3> QED
      BY <3>1 DEF Shapes, RequestsTyped, InviteRequests
  <2> QED
    BY <2>1, <2>2, <2>3 DEF Outside
<1> QED
  BY <1>1, <1>2, CountTyped, DataShapes DEF Shapes

LEMMA MovementShapes ==
    ASSUME IInv, Shapes, NEW r \in Requests, HandleMovement(r)
    PROVE  Shapes'
<1>1. CASE \E c \in DOMAIN stock, type \in {"ENTRADA", "SAIDA"}, qty \in Quantities :
              CreateMovement(r, type, c, qty)
  BY <1>1, CreateMovementShapes, LevelsAssumption DEF Types
<1>2. CASE \E c \in DOMAIN stock, qty \in 0..MaxLevel : CreateMovement(r, "AJUSTE", c, qty)
  BY <1>2, CreateMovementShapes, LevelsAssumption DEF Types
<1>3. CASE \E m \in BagToSet(cancelable) : ReverseMovement(r, m)
  BY <1>3, ReverseMovementShapes DEF BagToSet
<1> QED
  BY <1>1, <1>2, <1>3 DEF HandleMovement

LEMMA StepShapes ==
    ASSUME IInv, Shapes, [Next]_vars
    PROVE  Shapes'
<1>1. CASE UNCHANGED vars
  BY <1>1, DataShapes DEF vars, data, Shapes, RequestsTyped
<1>2. CASE Age \/ Outside
  BY <1>2, AgeShapes, OutsideShapes
<1>3. ASSUME NEW r \in Requests, Leave(r) \/ (\E m \in Members : Guard(r, m))
      PROVE  Shapes'
  BY <1>3, GuardShapes
<1>4. ASSUME NEW r \in Requests, HandleMovement(r)
      PROVE  Shapes'
  BY <1>4, MovementShapes
<1>5. ASSUME NEW r \in Requests, HandleProduct(r)
      PROVE  Shapes'
  BY <1>5, ProductShapes
<1>6. ASSUME NEW r \in Requests, NEW b \in Branches, NEW to \in BOOLEAN, UpdateBranch(r, b, to)
      PROVE  Shapes'
  BY <1>6, UpdateBranchShapes
<1>7. ASSUME NEW r \in Requests, HandleTeam(r)
      PROVE  Shapes'
  BY <1>7, TeamShapes
<1>8. ASSUME NEW r \in Requests, NEW dto \in Changes, UpdatePreferences(r, dto)
      PROVE  Shapes'
  BY <1>8, UpdatePreferencesShapes
<1>9. ASSUME NEW r \in Requests, UpdatePreferencesWrite(r)
      PROVE  Shapes'
  BY <1>9, UpdatePreferencesWriteShapes
<1> QED
  BY <1>1, <1>2, <1>3, <1>4, <1>5, <1>6, <1>7, <1>8, <1>9 DEF Next, Outside

(* No level is negative, every movement that the dashboard counts or that *)
(* can still be cancelled is of a row that exists, and what is stored of  *)
(* a member's preferences is nothing or a value for every key.            *)
THEOREM TypeCorrect == Spec => []TypeOK
<1>1. Init => IInv /\ Shapes
  BY InitInv, ShapesInit
<1>2. IInv /\ Shapes /\ [Next]_vars => (IInv /\ Shapes)'
  BY StepSound, StutterKeeps, StepShapes DEF Sound
<1>3. IInv /\ Shapes => TypeOK
  BY ShapesGiveTypes
<1> QED
  BY <1>1, <1>2, <1>3, PTL DEF Spec
-----------------------------------------------------------------------------
(* Sums over finite sets.                                                 *)

(* A finite set is good when it is as soon as all its strict subsets are. *)
LEMMA SubsetInduction ==
    ASSUME NEW S, IsFiniteSet(S), NEW Good,
           \A T \in SUBSET S : (\A U \in (SUBSET T) \ {T} : U \in Good) => T \in Good
    PROVE  S \in Good
<1> DEFINE Bad == {T \in SUBSET S : T \notin Good}
<1>1. SUFFICES ASSUME Bad # {} PROVE FALSE
  OBVIOUS
<1>2. Bad \subseteq FiniteSubsetsOf(S)
  BY FS_FiniteSubsetsOfFinite
<1>3. PICK T \in Bad : \A U \in Bad : <<U, T>> \notin StrictSubsetOrdering(S)
  <2> HIDE DEF Bad
  <2> QED BY <1>1, <1>2, FS_StrictSubsetOrderingWellFounded, WFMin
<1>4. ASSUME NEW U \in (SUBSET T) \ {T}
      PROVE  U \in Good
  <2>1. <<U, T>> \in (SUBSET S) \X (SUBSET S) /\ U \subseteq T /\ U # T
    OBVIOUS
  <2>2. <<U, T>> \in StrictSubsetOrdering(S)
    BY <2>1 DEF StrictSubsetOrdering
  <2> QED BY <1>3, <2>2
<1> QED BY <1>4

(* A finite set is good when {} is, and adding an element keeps it so.    *)
LEMMA ElementInduction ==
    ASSUME NEW S, IsFiniteSet(S), NEW Good, {} \in Good,
           \A T \in SUBSET S, x \in S : T \in Good /\ x \notin T => T \cup {x} \in Good
    PROVE  S \in Good
<1>1. ASSUME NEW T \in SUBSET S, \A U \in (SUBSET T) \ {T} : U \in Good
      PROVE  T \in Good
  <2>1. CASE T = {}
    BY <2>1
  <2>2. ASSUME NEW x \in T
        PROVE  T \in Good
    <3>1. T \ {x} \in (SUBSET T) \ {T} /\ T = (T \ {x}) \cup {x}
      BY <2>2
    <3>2. T \ {x} \in Good /\ T \ {x} \in SUBSET S /\ x \in S /\ x \notin T \ {x}
      BY <1>1, <2>2, <3>1
    <3>3. (T \ {x}) \cup {x} \in Good
      BY <3>2
    <3> QED BY <3>1, <3>3
  <2> QED BY <2>1, <2>2
<1> QED BY <1>1, SubsetInduction

-----------------------------------------------------------------------------
(* SumFunctionOnSet picks the elements one by one.                        *)
Pick(s) == CHOOSE x \in s : TRUE
Folded(f, g, s) == IF s = {} THEN 0 ELSE f[Pick(s)] + g[s \ {Pick(s)}]
Folds(f, S, g) == g = [s \in SUBSET S |-> Folded(f, g, s)]
Sum(f, S) == SumFunctionOnSet(f, S)

LEMMA FoldsAgree ==
    ASSUME NEW f, NEW S, NEW T, NEW g, NEW h, Folds(f, S, g), Folds(f, T, h),
           NEW U \in SUBSET (S \cap T), IsFiniteSet(U)
    PROVE  g[U] = h[U]
<1> DEFINE Good == {V \in SUBSET U : g[V] = h[V]}
<1>1. ASSUME NEW V \in SUBSET U, \A W \in (SUBSET V) \ {V} : W \in Good
      PROVE  V \in Good
  <2>1. g[V] = Folded(f, g, V) /\ h[V] = Folded(f, h, V)
    BY DEF Folds
  <2>2. CASE V = {}
    BY <2>1, <2>2 DEF Folded
  <2>3. CASE V # {}
    <3>1. Pick(V) \in V
      BY <2>3 DEF Pick
    <3>2. V \ {Pick(V)} \in (SUBSET V) \ {V}
      BY <3>1
    <3>3. g[V \ {Pick(V)}] = h[V \ {Pick(V)}]
      BY <1>1, <3>2
    <3> QED BY <2>1, <2>3, <3>3 DEF Folded
  <2> QED BY <2>2, <2>3
<1>2. U \in Good
  <2> HIDE DEF Good
  <2> QED BY <1>1, SubsetInduction
<1> QED BY <1>2

LEMMA FoldExists ==
    ASSUME NEW f, NEW S, IsFiniteSet(S)
    PROVE  \E g : Folds(f, S, g)
<1> DEFINE Good == {T \in SUBSET S : \E g : Folds(f, T, g)}
           Fold(T) == CHOOSE g : Folds(f, T, g)
<1>1. ASSUME NEW T \in SUBSET S, \A U \in (SUBSET T) \ {T} : U \in Good
      PROVE  T \in Good
  <2> DEFINE at(s) == Fold(s)[s]
             g == [s \in SUBSET T |->
                     IF s = {} THEN 0 ELSE f[Pick(s)] + at(s \ {Pick(s)})]
  <2>1. ASSUME NEW s \in SUBSET T, s # {}
        PROVE  g[s \ {Pick(s)}] = at(s \ {Pick(s)})
    <3> DEFINE t == s \ {Pick(s)}
               u == t \ {Pick(t)}
    <3>1. Pick(s) \in s
      BY <2>1 DEF Pick
    <3>2. t \in (SUBSET T) \ {T} /\ Folds(f, t, Fold(t))
      <4>1. t \in (SUBSET T) \ {T}
        BY <3>1
      <4> QED BY <1>1, <4>1
    <3>3. at(t) = Folded(f, Fold(t), t)
      BY <3>2 DEF Folds
    <3>4. CASE t = {}
      BY <3>2, <3>3, <3>4 DEF Folded
    <3>5. CASE t # {}
      <4>1. Pick(t) \in t
        BY <3>5 DEF Pick
      <4>2. u \in (SUBSET T) \ {T} /\ Folds(f, u, Fold(u)) /\ u \in SUBSET (t \cap u)
        <5>1. u \in (SUBSET T) \ {T} /\ u \in SUBSET (t \cap u)
          BY <3>1, <3>2, <4>1
        <5> QED BY <1>1, <5>1
      <4>3. IsFiniteSet(u)
        BY <4>2, FS_Subset
      <4>4. Fold(t)[u] = at(u)
        <5> HIDE DEF t, u, Fold
        <5> QED BY <3>2, <4>2, <4>3, FoldsAgree
      <4>5. g[t] = f[Pick(t)] + at(u)
        BY <3>2, <3>5
      <4> QED BY <3>3, <3>5, <4>4, <4>5 DEF Folded
    <3> QED BY <3>4, <3>5
  <2>2. Folds(f, T, g)
    <3>1. \A s \in SUBSET T : g[s] = Folded(f, g, s)
      <4> SUFFICES ASSUME NEW s \in SUBSET T PROVE g[s] = Folded(f, g, s)
        OBVIOUS
      <4>1. g[s] = IF s = {} THEN 0 ELSE f[Pick(s)] + at(s \ {Pick(s)})
        OBVIOUS
      <4> HIDE DEF g
      <4> QED BY <2>1, <4>1 DEF Folded
    <3>2. g = [s \in SUBSET T |-> g[s]]
      OBVIOUS
    <3> HIDE DEF g
    <3> QED BY <3>1, <3>2 DEF Folds
  <2> QED BY <2>2
<1>2. S \in Good
  <2> HIDE DEF Good
  <2> QED BY <1>1, SubsetInduction
<1> QED BY <1>2

LEMMA SumIsFold ==
    ASSUME NEW f, NEW S, IsFiniteSet(S), NEW T, NEW g, Folds(f, T, g), S \subseteq T
    PROVE  Sum(f, S) = g[S]
<1>1. Sum(f, S) = (CHOOSE h : Folds(f, S, h))[S]
  BY Zenon DEF Sum, SumFunctionOnSet, FoldFunctionOnSet, MapThenFoldSet, Folds, Folded, Pick
<1>2. PICK h : h = CHOOSE k : Folds(f, S, k)
  OBVIOUS
<1>3. Folds(f, S, h)
  BY <1>2, FoldExists
<1>4. h[S] = g[S]
  BY <1>3, FoldsAgree
<1> QED BY <1>1, <1>2, <1>4

LEMMA SumEmpty == ASSUME NEW f PROVE Sum(f, {}) = 0
<1>1. IsFiniteSet({})
  BY FS_EmptySet
<1>2. PICK g : Folds(f, {}, g)
  BY <1>1, FoldExists
<1>3. g[{}] = 0
  BY <1>2 DEF Folds, Folded
<1> QED BY <1>1, <1>2, <1>3, SumIsFold

LEMMA SumUnfolds ==
    ASSUME NEW f, NEW S, IsFiniteSet(S), S # {}
    PROVE  \E x \in S : x = Pick(S) /\ Sum(f, S) = f[x] + Sum(f, S \ {x})
<1>1. PICK g : Folds(f, S, g)
  BY FoldExists
<1>2. Pick(S) \in S
  BY DEF Pick
<1>3. g[S] = f[Pick(S)] + g[S \ {Pick(S)}]
  BY <1>1 DEF Folds, Folded
<1>4. IsFiniteSet(S \ {Pick(S)})
  BY FS_RemoveElement
<1>5. Sum(f, S \ {Pick(S)}) = g[S \ {Pick(S)}]
  BY <1>1, <1>4, SumIsFold
<1>6. Sum(f, S) = g[S]
  BY <1>1, SumIsFold
<1> QED BY <1>2, <1>3, <1>5, <1>6

(* Sums of integers: the order in which the elements are taken is no      *)
(* matter.                                                                *)
Ints(f, S) == \A x \in S : f[x] \in Int

LEMMA SumTakes ==
    ASSUME NEW f, NEW S, IsFiniteSet(S), Ints(f, S)
    PROVE  /\ Sum(f, S) \in Int
           /\ \A x \in S : Sum(f, S) = f[x] + Sum(f, S \ {x})
<1> DEFINE Good == {T \in SUBSET S : /\ Sum(f, T) \in Int
                                     /\ \A x \in T : Sum(f, T) = f[x] + Sum(f, T \ {x})}
<1>1. ASSUME NEW T \in SUBSET S, \A U \in (SUBSET T) \ {T} : U \in Good
      PROVE  T \in Good
  <2>1. IsFiniteSet(T)
    BY FS_Subset
  <2>2. CASE T = {}
    BY <2>2, SumEmpty
  <2>3. CASE T # {}
    <3>1. PICK y \in T : Sum(f, T) = f[y] + Sum(f, T \ {y})
      BY <2>1, <2>3, SumUnfolds
    <3>2. \A x \in T : T \ {x} \in Good
      BY <1>1
    <3>3. \A x \in T : Sum(f, T \ {x}) \in Int /\ f[x] \in Int
      BY <3>2 DEF Ints
    <3>4. ASSUME NEW x \in T, x # y
          PROVE  Sum(f, T) = f[x] + Sum(f, T \ {x})
      <4>1. Sum(f, T \ {y}) = f[x] + Sum(f, (T \ {y}) \ {x})
        BY <3>2, <3>4
      <4>2. Sum(f, T \ {x}) = f[y] + Sum(f, (T \ {x}) \ {y})
        BY <3>2, <3>4
      <4>3. (T \ {x}) \ {y} = (T \ {y}) \ {x}
        OBVIOUS
      <4>4. PICK U : U = (T \ {y}) \ {x}
        OBVIOUS
      <4>5. Sum(f, U) \in Int
        <5>1. U \in (SUBSET T) \ {T}
          BY <4>4
        <5> QED BY <1>1, <5>1
      <4>6. /\ Sum(f, T \ {y}) = f[x] + Sum(f, U)
            /\ Sum(f, T \ {x}) = f[y] + Sum(f, U)
        BY <4>1, <4>2, <4>3, <4>4
      <4> HIDE DEF Good
      <4> QED BY <3>1, <3>3, <4>5, <4>6
    <3>5. Sum(f, T) \in Int
      <4> HIDE DEF Good
      <4> QED BY <3>1, <3>3
    <3> QED BY <3>1, <3>4, <3>5
  <2> QED BY <2>2, <2>3
<1>2. S \in Good
  <2> HIDE DEF Good
  <2> QED BY <1>1, SubsetInduction
<1> QED BY <1>2

LEMMA SumAdds ==
    ASSUME NEW f, NEW S, IsFiniteSet(S), NEW x, x \notin S, Ints(f, S \cup {x})
    PROVE  Sum(f, S \cup {x}) = f[x] + Sum(f, S)
<1>1. IsFiniteSet(S \cup {x}) /\ (S \cup {x}) \ {x} = S
  BY FS_AddElement
<1> QED BY <1>1, SumTakes

LEMMA SumSame ==
    ASSUME NEW f, NEW g, NEW S, IsFiniteSet(S), Ints(f, S), \A x \in S : f[x] = g[x]
    PROVE  Sum(f, S) = Sum(g, S)
<1> DEFINE Good == {T \in SUBSET S : Sum(f, T) = Sum(g, T)}
<1>1. {} \in Good
  BY SumEmpty
<1>2. ASSUME NEW T \in SUBSET S, NEW x \in S, T \in Good, x \notin T
      PROVE  T \cup {x} \in Good
  <2>1. IsFiniteSet(T) /\ Ints(f, T \cup {x}) /\ Ints(g, T \cup {x})
    BY FS_Subset DEF Ints
  <2> QED BY <1>2, <2>1, SumAdds
<1>3. S \in Good
  <2> HIDE DEF Good
  <2> QED BY <1>1, <1>2, ElementInduction
<1> QED BY <1>3

(* The sum of the pointwise sums.                                         *)
LEMMA SumPlus ==
    ASSUME NEW f, NEW g, NEW h, NEW S, IsFiniteSet(S), Ints(f, S), Ints(g, S),
           \A x \in S : h[x] = f[x] + g[x]
    PROVE  Sum(h, S) = Sum(f, S) + Sum(g, S)
<1> DEFINE Good == {T \in SUBSET S : Sum(h, T) = Sum(f, T) + Sum(g, T)}
<1>1. {} \in Good
  BY SumEmpty
<1>2. ASSUME NEW T \in SUBSET S, NEW x \in S, T \in Good, x \notin T
      PROVE  T \cup {x} \in Good
  <2>1. /\ IsFiniteSet(T)
        /\ Ints(f, T \cup {x}) /\ Ints(g, T \cup {x}) /\ Ints(h, T \cup {x})
        /\ Ints(f, T) /\ Ints(g, T)
    BY FS_Subset DEF Ints
  <2>2. /\ Sum(f, T \cup {x}) = f[x] + Sum(f, T)
        /\ Sum(g, T \cup {x}) = g[x] + Sum(g, T)
        /\ Sum(h, T \cup {x}) = h[x] + Sum(h, T)
    BY <1>2, <2>1, SumAdds
  <2>3. f[x] \in Int /\ g[x] \in Int /\ Sum(f, T) \in Int /\ Sum(g, T) \in Int
    BY <2>1, SumTakes DEF Ints
  <2>4. Sum(h, T) = Sum(f, T) + Sum(g, T) /\ h[x] = f[x] + g[x]
    BY <1>2
  <2>5. Sum(h, T \cup {x}) = Sum(f, T \cup {x}) + Sum(g, T \cup {x})
    <3> HIDE DEF Good
    <3> QED BY <2>2, <2>3, <2>4
  <2> QED BY <2>5
<1>3. S \in Good
  <2> HIDE DEF Good
  <2> QED BY <1>1, <1>2, ElementInduction
<1> QED BY <1>3

LEMMA SumUnion ==
    ASSUME NEW f, NEW S, NEW T, IsFiniteSet(S), IsFiniteSet(T), S \cap T = {}, Ints(f, S \cup T)
    PROVE  Sum(f, S \cup T) = Sum(f, S) + Sum(f, T)
<1> DEFINE Good == {U \in SUBSET S : Sum(f, U \cup T) = Sum(f, U) + Sum(f, T)}
<1>0. Sum(f, T) \in Int
  BY SumTakes DEF Ints
<1>1. {} \in Good
  BY <1>0, SumEmpty
<1>2. ASSUME NEW U \in SUBSET S, NEW x \in S, U \in Good, x \notin U
      PROVE  U \cup {x} \in Good
  <2>1. IsFiniteSet(U) /\ IsFiniteSet(U \cup T)
    BY FS_Subset, FS_Union
  <2>2. Ints(f, U) /\ Ints(f, U \cup {x}) /\ Ints(f, (U \cup T) \cup {x}) /\ f[x] \in Int
    BY DEF Ints
  <2>3. Sum(f, U \cup {x}) = f[x] + Sum(f, U) /\ Sum(f, U) \in Int
    BY <1>2, <2>1, <2>2, SumAdds, SumTakes
  <2>4. x \notin U \cup T
    BY <1>2
  <2>5. Sum(f, (U \cup T) \cup {x}) = f[x] + Sum(f, U \cup T)
    BY <2>1, <2>2, <2>4, SumAdds
  <2>6. (U \cup T) \cup {x} = (U \cup {x}) \cup T
    OBVIOUS
  <2>7. Sum(f, U \cup T) = Sum(f, U) + Sum(f, T)
    BY <1>2
  <2>9. Sum(f, (U \cup {x}) \cup T) = f[x] + Sum(f, U \cup T)
    BY <2>5, <2>6, Zenon
  <2>8. Sum(f, (U \cup {x}) \cup T) = Sum(f, U \cup {x}) + Sum(f, T)
    <3> HIDE DEF Good
    <3> QED BY <1>0, <2>2, <2>3, <2>7, <2>9
  <2> QED BY <2>8
<1>3. S \in Good
  <2> HIDE DEF Good
  <2> QED BY <1>1, <1>2, ElementInduction
<1> QED BY <1>3

(* One element changes by d: so does the sum.                             *)
LEMMA SumChanges ==
    ASSUME NEW f, NEW g, NEW S, IsFiniteSet(S), Ints(f, S), NEW x \in S, NEW d \in Int,
           g[x] = f[x] + d, \A y \in S \ {x} : g[y] = f[y]
    PROVE  Sum(g, S) = Sum(f, S) + d
<1>1. Ints(g, S) /\ Ints(f, S \ {x}) /\ IsFiniteSet(S \ {x})
  BY FS_RemoveElement DEF Ints
<1>2. Sum(f, S \ {x}) = Sum(g, S \ {x})
  BY <1>1, SumSame
<1>3. Sum(f, S) = f[x] + Sum(f, S \ {x}) /\ Sum(g, S) = g[x] + Sum(g, S \ {x})
  BY <1>1, SumTakes
<1>4. f[x] \in Int /\ Sum(f, S \ {x}) \in Int
  BY <1>1, SumTakes DEF Ints
<1> QED BY <1>2, <1>3, <1>4

(* The group of each element of B is summed up, then the groups.          *)
Group(S, key, b) == {x \in S : key[x] = b}
Grouped(S, key, B) == {x \in S : key[x] \in B}

LEMMA SumOfGroups ==
    ASSUME NEW f, NEW S, IsFiniteSet(S), Ints(f, S), NEW B, IsFiniteSet(B), NEW key, NEW r,
           \A b \in B : r[b] = Sum(f, Group(S, key, b))
    PROVE  Sum(r, B) = Sum(f, Grouped(S, key, B)) /\ Ints(r, B)
<1> DEFINE Good == {T \in SUBSET B : Sum(r, T) = Sum(f, Grouped(S, key, T))}
<1>1. /\ \A T : IsFiniteSet(Grouped(S, key, T)) /\ Ints(f, Grouped(S, key, T))
      /\ \A b : IsFiniteSet(Group(S, key, b)) /\ Ints(f, Group(S, key, b))
  BY FS_Subset DEF Ints, Group, Grouped
<1>2. Ints(r, B)
  BY <1>1, SumTakes DEF Ints
<1>3. {} \in Good
  <2>1. Grouped(S, key, {}) = {}
    BY DEF Grouped
  <2> QED BY <2>1, SumEmpty
<1>4. ASSUME NEW T \in SUBSET B, NEW b \in B, T \in Good, b \notin T
      PROVE  T \cup {b} \in Good
  <2>1. PICK U : U = Grouped(S, key, T)
    OBVIOUS
  <2>2. PICK G : G = Group(S, key, b)
    OBVIOUS
  <2>3. Grouped(S, key, T \cup {b}) = U \cup G /\ U \cap G = {} /\ U \cup G \subseteq S
    BY <1>4, <2>1, <2>2 DEF Group, Grouped
  <2>4. Sum(r, T \cup {b}) = r[b] + Sum(r, T)
    <3>1. IsFiniteSet(T) /\ Ints(r, T \cup {b})
      BY <1>2, FS_Subset DEF Ints
    <3> QED BY <1>4, <3>1, SumAdds
  <2>5. Sum(f, U \cup G) = Sum(f, U) + Sum(f, G) /\ Sum(f, U) \in Int /\ Sum(f, G) \in Int
    <3>1. IsFiniteSet(U) /\ Ints(f, U) /\ IsFiniteSet(G) /\ Ints(f, G)
      BY <1>1, <2>1, <2>2
    <3> QED BY <2>3, <3>1, SumUnion, SumTakes DEF Ints
  <2>6. r[b] = Sum(f, G) /\ Sum(r, T) = Sum(f, U)
    BY <1>4, <2>1, <2>2
  <2>7. Sum(r, T \cup {b}) = Sum(f, U \cup G)
    BY <2>4, <2>5, <2>6
  <2> QED BY <2>3, <2>7
<1>5. B \in Good
  <2> HIDE DEF Good
  <2> QED BY <1>3, <1>4, ElementInduction
<1> QED BY <1>2, <1>5

LEMMA CountIsSum ==
    ASSUME NEW S, IsFiniteSet(S), NEW one, \A x \in S : one[x] = 1
    PROVE  Sum(one, S) = Cardinality(S)
<1> DEFINE Good == {T \in SUBSET S : Sum(one, T) = Cardinality(T)}
<1>1. {} \in Good
  BY SumEmpty, FS_EmptySet
<1>2. ASSUME NEW T \in SUBSET S, NEW x \in S, T \in Good, x \notin T
      PROVE  T \cup {x} \in Good
  <2>1. IsFiniteSet(T) /\ Ints(one, T \cup {x})
    BY FS_Subset DEF Ints
  <2>2. Sum(one, T \cup {x}) = 1 + Sum(one, T)
    BY <1>2, <2>1, SumAdds
  <2>3. Cardinality(T \cup {x}) = Cardinality(T) + 1 /\ Cardinality(T) \in Nat
    BY <1>2, <2>1, FS_AddElement, FS_CardinalityType
  <2> QED BY <1>2, <2>2, <2>3
<1>3. S \in Good
  <2> HIDE DEF Good
  <2> QED BY <1>1, <1>2, ElementInduction
<1> QED BY <1>3

LEMMA SumAtLeast ==
    ASSUME NEW f, NEW S, IsFiniteSet(S), NEW k \in Nat, \A x \in S : f[x] \in Int /\ f[x] >= k
    PROVE  Sum(f, S) \in Int /\ Sum(f, S) >= Cardinality(S) * k
<1> DEFINE Good == {T \in SUBSET S : Sum(f, T) \in Int /\ Sum(f, T) >= Cardinality(T) * k}
<1>1. {} \in Good
  BY SumEmpty, FS_EmptySet
<1>2. ASSUME NEW T \in SUBSET S, NEW x \in S, T \in Good, x \notin T
      PROVE  T \cup {x} \in Good
  <2>1. IsFiniteSet(T) /\ Ints(f, T \cup {x})
    BY FS_Subset DEF Ints
  <2>2. Sum(f, T \cup {x}) = f[x] + Sum(f, T)
    BY <1>2, <2>1, SumAdds
  <2>3. Cardinality(T \cup {x}) = Cardinality(T) + 1 /\ Cardinality(T) \in Nat
    BY <1>2, <2>1, FS_AddElement, FS_CardinalityType
  <2>4. PICK n \in Nat : n = Cardinality(T)
    BY <2>3
  <2>5. (n + 1) * k = n * k + k /\ n * k \in Nat
    OBVIOUS
  <2>6. Sum(f, T) \in Int /\ Sum(f, T) >= n * k /\ f[x] \in Int /\ f[x] >= k
    BY <1>2, <2>4
  <2>7. Sum(f, T \cup {x}) \in Int /\ Sum(f, T \cup {x}) >= (n + 1) * k
    <3> HIDE DEF Good
    <3> QED BY <2>2, <2>5, <2>6
  <2> QED BY <2>3, <2>4, <2>7
<1>3. S \in Good
  <2> HIDE DEF Good
  <2> QED BY <1>1, <1>2, ElementInduction
<1> QED BY <1>3
-----------------------------------------------------------------------------
(* The period of the dashboard, row by row: the level of a row is the one *)
(* it had when the period or the row began, and what the movements moved. *)
JournalCounts ==
    /\ IsFiniteSet(DOMAIN journal)
    /\ \A m \in DOMAIN journal : journal[m] \in Nat \ {0}

LevelsExplained ==
    \A c \in DOMAIN stock :
        stock[c] = opening[c] + QtySum(journal, {m \in DOMAIN journal : m.cell = c})

Reconciled == JournalCounts /\ LevelsExplained

Moved(j) == [m \in DOMAIN j |-> m.qty * j[m]]

LEMMA QtySumIsSum ==
    ASSUME NEW j, IsFiniteSet(DOMAIN j), \A m \in DOMAIN j : m.qty \in Int /\ j[m] \in Int,
           NEW ms \in SUBSET DOMAIN j
    PROVE  QtySum(j, ms) = Sum(Moved(j), ms) /\ IsFiniteSet(ms) /\ Ints(Moved(j), ms)
<1> DEFINE moved == [m \in ms |-> m.qty * j[m]]
<1>1. QtySum(j, ms) = Sum(moved, ms)
  <2>1. DOMAIN moved = ms
    OBVIOUS
  <2> QED BY <2>1, Zenon DEF QtySum, SumFunction, Sum
<1>2. IsFiniteSet(ms)
  BY FS_Subset
<1>3. \A m \in ms : moved[m] = m.qty * j[m] /\ Moved(j)[m] = m.qty * j[m] /\ m.qty * j[m] \in Int
  BY DEF Moved
<1>4. Ints(moved, ms) /\ Ints(Moved(j), ms) /\ \A m \in ms : moved[m] = Moved(j)[m]
  BY <1>3 DEF Ints
<1> HIDE DEF moved
<1> QED BY <1>1, <1>2, <1>4, SumSame

LEMMA JournalTyped ==
    ASSUME Shapes, JournalCounts
    PROVE  /\ IsFiniteSet(DOMAIN journal)
           /\ \A m \in DOMAIN journal : m.qty \in Int /\ journal[m] \in Int
  BY LevelsAssumption DEF Shapes, BagsTyped, MovementTyped, JournalCounts

LEMMA InitReconciled == Init => Reconciled
<1> SUFFICES ASSUME Init PROVE Reconciled
  OBVIOUS
<1>1. DOMAIN journal = {}
  BY DEF Init, EmptyBag, SetToBag
<1>2. JournalCounts
  BY <1>1, FS_EmptySet DEF JournalCounts
<1>3. ASSUME NEW c \in DOMAIN stock
      PROVE  QtySum(journal, {m \in DOMAIN journal : m.cell = c}) = 0
  <2>1. {m \in DOMAIN journal : m.cell = c} = {}
    BY <1>1
  <2>2. QtySum(journal, {}) = 0
    BY <1>1, FS_EmptySet, QtySumIsSum, SumEmpty
  <2> QED BY <2>1, <2>2
<1>4. opening = stock /\ \A c \in DOMAIN stock : stock[c] \in Int
  BY InitInv DEF Init, IInv, LevelsTyped
<1> QED BY <1>2, <1>3, <1>4 DEF Reconciled, LevelsExplained

(* One movement more, or once more.                                       *)
LEMMA PostedJournal ==
    ASSUME NEW m, Post(m)
    PROVE  /\ DOMAIN journal' = DOMAIN journal \cup {m}
           /\ \A n \in DOMAIN journal : n # m => journal'[n] = journal[n] + 0
           /\ m \in DOMAIN journal => journal'[m] = journal[m] + 1
           /\ m \notin DOMAIN journal => journal'[m] = 1
<1>1. PICK one : one = [n \in {m} |-> 1]
  OBVIOUS
<1>2. journal' = journal (+) one
  BY <1>1 DEF Post, SetToBag
<1>3. DOMAIN one = {m} /\ one[m] = 1
  BY <1>1
<1>4. DOMAIN journal' = DOMAIN journal \cup {m}
  BY <1>2, <1>3 DEF (+)
<1>5. \A n \in DOMAIN journal \cup {m} :
        journal'[n] = (IF n \in DOMAIN journal THEN journal[n] ELSE 0)
                          + (IF n \in DOMAIN one THEN one[n] ELSE 0)
  BY <1>2, <1>3 DEF (+)
<1> QED BY <1>3, <1>4, <1>5

LEMMA PostReconciles ==
    ASSUME IInv, Shapes, Reconciled, NEW m, Post(m), m.cell \in DOMAIN stock, m.qty \in Int
    PROVE  Reconciled'
<1>0. /\ DOMAIN journal' = DOMAIN journal \cup {m}
      /\ \A n \in DOMAIN journal : n # m => journal'[n] = journal[n] + 0
      /\ m \in DOMAIN journal => journal'[m] = journal[m] + 1
      /\ m \notin DOMAIN journal => journal'[m] = 1
  BY PostedJournal
<1>1. /\ IsFiniteSet(DOMAIN journal)
      /\ \A n \in DOMAIN journal : n.qty \in Int /\ journal[n] \in Int
  BY JournalTyped DEF Reconciled
<1>2. JournalCounts'
  <2>1. IsFiniteSet(DOMAIN journal')
    BY <1>1, <1>0, FS_AddElement
  <2>2. \A n \in DOMAIN journal' : journal'[n] \in Nat \ {0}
    BY <1>0 DEF Reconciled, JournalCounts
  <2> QED BY <2>1, <2>2 DEF JournalCounts
<1>3. /\ IsFiniteSet(DOMAIN journal')
      /\ \A n \in DOMAIN journal' : n.qty \in Int /\ journal'[n] \in Int
  BY <1>1, <1>2, <1>0 DEF JournalCounts
<1>4. UNCHANGED opening /\ DOMAIN opening = DOMAIN stock
      /\ \A c \in DOMAIN opening : opening[c] \in Int
  BY DEF Post, Shapes, LevelsBounded
<1>5. ASSUME NEW c \in DOMAIN stock
      PROVE  stock'[c] = opening[c] + QtySum(journal', {n \in DOMAIN journal' : n.cell = c})
  <2>1. PICK old : old = {n \in DOMAIN journal : n.cell = c}
    OBVIOUS
  <2>2. PICK new : new = {n \in DOMAIN journal' : n.cell = c}
    OBVIOUS
  <2>3. PICK f : f = Moved(journal)
    OBVIOUS
  <2>4. PICK g : g = Moved(journal')
    OBVIOUS
  <2>5. /\ QtySum(journal, old) = Sum(f, old) /\ IsFiniteSet(old) /\ Ints(f, old)
    BY <1>1, <2>1, <2>3, QtySumIsSum
  <2>6. /\ QtySum(journal', new) = Sum(g, new) /\ IsFiniteSet(new) /\ Ints(g, new)
    BY <1>3, <2>2, <2>4, QtySumIsSum
  <2>7. stock[c] = opening[c] + Sum(f, old) /\ opening[c] \in Int /\ Sum(f, old) \in Int
    BY <1>4, <2>1, <2>5, SumTakes DEF Reconciled, LevelsExplained
  <2>8. /\ \A n \in DOMAIN journal : f[n] = n.qty * journal[n]
        /\ \A n \in DOMAIN journal' : g[n] = n.qty * journal'[n]
    BY <2>3, <2>4 DEF Moved
  <2>9. \A n \in DOMAIN journal \ {m} : g[n] = f[n]
    <3>1. \A n \in DOMAIN journal \ {m} : journal'[n] = journal[n]
      BY <1>0, <1>1
    <3> QED BY <1>0, <2>8, <3>1
  <2>10. CASE c # m.cell
    <3>1. new = old
      BY <2>1, <2>2, <2>10, <1>0
    <3>2. \A n \in old : f[n] = g[n]
      BY <2>1, <2>9, <2>10
    <3>3. Sum(f, old) = Sum(g, old)
      BY <2>5, <3>2, SumSame
    <3>4. stock'[c] = stock[c]
      BY <2>10, PostTyped
    <3> QED BY <2>2, <2>6, <2>7, <3>1, <3>3, <3>4
  <2>11. CASE c = m.cell
    <3>1. stock'[c] = stock[c] + m.qty
      BY <2>11, PostTyped
    <3>2. Sum(g, new) = Sum(f, old) + m.qty
      <4>1. CASE m \in DOMAIN journal
        <5>1. new = old /\ m \in old
          BY <2>1, <2>2, <2>11, <4>1, <1>0
        <5>2. g[m] = f[m] + m.qty
          <6>1. PICK k \in Int : k = journal[m]
            BY <1>1, <4>1
          <6>2. PICK q \in Int : q = m.qty
            OBVIOUS
          <6>3. q * (k + 1) = q * k + q
            OBVIOUS
          <6>4. f[m] = q * k /\ g[m] = q * (k + 1)
            BY <2>8, <4>1, <6>1, <6>2, <1>0
          <6> QED BY <6>2, <6>3, <6>4
        <5>3. \A n \in old \ {m} : g[n] = f[n]
          BY <2>1, <2>9
        <5> QED BY <2>5, <5>1, <5>2, <5>3, SumChanges
      <4>2. CASE m \notin DOMAIN journal
        <5>1. new = old \cup {m} /\ m \notin old
          BY <2>1, <2>2, <2>11, <4>2, <1>0
        <5>2. g[m] = m.qty
          BY <2>8, <4>2, <1>0
        <5>3. Sum(g, new) = g[m] + Sum(g, old)
          BY <2>5, <2>6, <5>1, SumAdds
        <5>4. Sum(f, old) = Sum(g, old)
          <6>1. \A n \in old : f[n] = g[n]
            BY <2>1, <2>9, <4>2
          <6> QED BY <2>5, <6>1, SumSame
        <5> QED BY <2>7, <5>2, <5>3, <5>4
      <4> QED BY <4>1, <4>2
    <3> QED BY <2>2, <2>6, <2>7, <3>1, <3>2
  <2> QED BY <2>10, <2>11
<1>6. DOMAIN stock' = DOMAIN stock
  BY PostTyped
<1>7. LevelsExplained'
  BY <1>4, <1>5, <1>6 DEF LevelsExplained
<1> QED BY <1>2, <1>7 DEF Reconciled

(* A row that opens has no movement yet, and opens at the same level in   *)
(* both.                                                                  *)
LEMMA OpenRowsReconciles ==
    ASSUME IInv, Shapes, Reconciled, NEW cells \in SUBSET Cells,
           NEW first \in [Branches -> 0..MaxLevel], OpenRows(cells, first), UNCHANGED journal
    PROVE  Reconciled'
<1>1. stock' = Opened(stock, cells, first) /\ opening' = Opened(opening, cells, first)
  BY DEF OpenRows
<1>2. DOMAIN opening = DOMAIN stock
  BY DEF Shapes, LevelsBounded
<1>3. DOMAIN stock' = DOMAIN stock \cup cells
  BY <1>1 DEF Opened
<1>4. \A c \in DOMAIN stock \cup cells :
        /\ stock'[c] = IF c \in DOMAIN stock THEN stock[c] ELSE first[c[2]]
        /\ opening'[c] = IF c \in DOMAIN stock THEN opening[c] ELSE first[c[2]]
  BY <1>1, <1>2 DEF Opened
<1>5. ASSUME NEW c \in DOMAIN stock \cup cells
      PROVE  stock'[c] = opening'[c] + QtySum(journal, {m \in DOMAIN journal : m.cell = c})
  <2>1. CASE c \in DOMAIN stock
    BY <1>4, <2>1 DEF Reconciled, LevelsExplained
  <2>2. CASE c \notin DOMAIN stock
    <3>1. {m \in DOMAIN journal : m.cell = c} = {}
      BY <2>2 DEF Shapes, BagsTyped, MovementTyped
    <3>2. QtySum(journal, {}) = 0
      BY JournalTyped, QtySumIsSum, SumEmpty DEF Reconciled
    <3>3. first[c[2]] \in Int
      BY <2>2 DEF Cells
    <3>4. stock'[c] = first[c[2]] /\ opening'[c] = first[c[2]]
      BY <1>4, <2>2
    <3>5. QtySum(journal, {m \in DOMAIN journal : m.cell = c}) = 0
      BY <3>1, <3>2
    <3> QED BY <3>3, <3>4, <3>5
  <2> QED BY <2>1, <2>2
<1>6. LevelsExplained'
  BY <1>3, <1>5 DEF LevelsExplained
<1> QED BY <1>6 DEF Reconciled, JournalCounts

LEMMA AgeReconciles ==
    ASSUME IInv, Age
    PROVE  Reconciled'
<1>1. DOMAIN journal' = {} /\ opening' = stock /\ stock' = stock
  BY DEF Age, EmptyBag, SetToBag
<1>2. JournalCounts'
  BY <1>1, FS_EmptySet DEF JournalCounts
<1>3. ASSUME NEW c \in DOMAIN stock
      PROVE  QtySum(journal', {m \in DOMAIN journal' : m.cell = c}) = 0
  <2>1. {m \in DOMAIN journal' : m.cell = c} = {}
    BY <1>1
  <2>2. QtySum(journal', {}) = 0
    BY <1>1, FS_EmptySet, QtySumIsSum, SumEmpty
  <2> QED BY <2>1, <2>2
<1>4. \A c \in DOMAIN stock : stock[c] \in Int
  BY DEF IInv, LevelsTyped
<1>5. LevelsExplained'
  BY <1>1, <1>3, <1>4 DEF LevelsExplained
<1> QED BY <1>2, <1>5 DEF Reconciled

LEMMA OthersReconcile ==
    ASSUME Reconciled, UNCHANGED <<stock, opening, journal>>
    PROVE  Reconciled'
<1>1. JournalCounts'
  BY DEF Reconciled, JournalCounts
<1>2. LevelsExplained'
  BY DEF Reconciled, LevelsExplained
<1> QED BY <1>1, <1>2 DEF Reconciled

LEMMA MovementReconciles ==
    ASSUME IInv, Shapes, Reconciled, NEW r \in Requests, HandleMovement(r)
    PROVE  Reconciled'
<1> SUFFICES \E m : Post(m) /\ m.type \in Types /\ m.cell \in DOMAIN stock /\ m.qty \in Int
  BY PostReconciles
<1>1. CASE \E c \in DOMAIN stock, type \in {"ENTRADA", "SAIDA"}, qty \in Quantities :
              CreateMovement(r, type, c, qty)
  <2>1. \A qty \in Quantities : qty \in Nat
    BY LevelsAssumption
  <2>2. PICK c \in DOMAIN stock, type \in {"ENTRADA", "SAIDA"}, qty \in Quantities :
          CreateMovement(r, type, c, qty)
    BY <1>1
  <2> QED BY <2>1, <2>2, CreateMovementPosts DEF Types
<1>2. CASE \E c \in DOMAIN stock, qty \in 0..MaxLevel : CreateMovement(r, "AJUSTE", c, qty)
  <2>1. \A qty \in 0..MaxLevel : qty \in Nat
    BY LevelsAssumption
  <2>2. PICK c \in DOMAIN stock, qty \in 0..MaxLevel : CreateMovement(r, "AJUSTE", c, qty)
    BY <1>2
  <2> QED BY <2>1, <2>2, CreateMovementPosts DEF Types
<1>3. CASE \E m \in BagToSet(cancelable) : ReverseMovement(r, m)
  BY <1>3, ReverseMovementPosts DEF BagToSet
<1> QED BY <1>1, <1>2, <1>3 DEF HandleMovement

LEMMA StepReconciles ==
    ASSUME IInv, Shapes, Reconciled, [Next]_vars
    PROVE  Reconciled'
<1>1. CASE UNCHANGED <<stock, opening, journal>>
  BY <1>1, OthersReconcile
<1>2. CASE Age
  BY <1>2, AgeReconciles
<1>3. ASSUME NEW r \in Requests, HandleMovement(r)
      PROVE  Reconciled'
  BY <1>3, MovementReconciles
<1>4. CASE RowsOpen
  BY <1>4, OpenRowsReconciles DEF RowsOpen
<1>5. ASSUME NEW r \in Requests, HandleProduct(r)
      PROVE  Reconciled'
  BY <1>4, <1>5, CreateProductOpens, UpdateProductOpens DEF HandleProduct
<1>6. ASSUME NEW r \in Requests, NEW b \in Branches, NEW to \in BOOLEAN, UpdateBranch(r, b, to)
      PROVE  Reconciled'
  BY <1>4, <1>6, UpdateBranchOpens
<1>7. ASSUME NEW r \in Requests, HandleTeam(r)
      PROVE  Reconciled'
  BY <1>1, <1>7 DEF HandleTeam, UpdateMember, RemoveMember, ResendInvite, Invite, InviteWrite,
                    SetMember, data
<1>8. CASE \E r \in Requests :
             \/ Leave(r) \/ \E m \in Members : Guard(r, m)
             \/ \E dto \in Changes : UpdatePreferences(r, dto)
             \/ UpdatePreferencesWrite(r)
  BY <1>1, <1>8 DEF Leave, Guard, UpdatePreferences, UpdatePreferencesWrite, data
<1>9. CASE UNCHANGED vars \/ Outside
  BY <1>1, <1>9 DEF Outside, ChangeSubscription, AcceptInvite, ConfirmEmailChange, SetMember,
                    vars, data
<1> QED
  BY <1>2, <1>3, <1>5, <1>6, <1>7, <1>8, <1>9 DEF Next, Outside

-----------------------------------------------------------------------------
(* From the rows to the figures of any scope.                             *)
LEMMA RowsFinite ==
    ASSUME IInv, Shapes
    PROVE  /\ IsFiniteSet(DOMAIN stock)
           /\ Ints(stock, DOMAIN stock) /\ \A c \in DOMAIN stock : stock[c] >= 0
<1>1. IsFiniteSet(Cells)
  BY FiniteAssumption, FS_Product DEF Cells
<1>2. IsFiniteSet(DOMAIN stock)
  BY <1>1, FS_Subset DEF IInv, LevelsTyped
<1>3. \A c \in DOMAIN stock : stock[c] \in 0..MaxLevel
  BY DEF Shapes, LevelsBounded
<1> QED BY <1>2, <1>3, LevelsAssumption DEF Ints

LEMMA SumNone ==
    ASSUME NEW f, NEW S, IsFiniteSet(S), \A x \in S : f[x] = 0
    PROVE  Sum(f, S) = 0
<1>1. Ints(f, S) /\ \A x \in S : f[x] = f[x] + f[x]
  BY DEF Ints
<1>2. PICK n : n = Sum(f, S)
  OBVIOUS
<1>3. n = n + n
  BY <1>1, <1>2, SumPlus
<1>4. n \in Int
  BY <1>1, <1>2, SumTakes
<1>5. \A k \in Int : k = k + k => k = 0
  OBVIOUS
<1> QED BY <1>2, <1>3, <1>4, <1>5

(* Zeros may be left out.                                                 *)
LEMMA SumOfThoseShown ==
    ASSUME NEW f, NEW S, IsFiniteSet(S), Ints(f, S), NEW T \in SUBSET S,
           \A x \in S \ T : f[x] = 0
    PROVE  Sum(f, T) = Sum(f, S)
<1>1. IsFiniteSet(T) /\ IsFiniteSet(S \ T) /\ T \cap (S \ T) = {} /\ S = T \cup (S \ T)
  BY FS_Subset
<1>2. Sum(f, S) = Sum(f, T) + Sum(f, S \ T)
  BY <1>1, SumUnion
<1>3. Sum(f, S \ T) = 0
  BY <1>1, SumNone
<1>4. Sum(f, T) \in Int
  BY <1>1, SumTakes DEF Ints
<1> QED BY <1>2, <1>3, <1>4

LEMMA CountOfGroups ==
    ASSUME NEW S, IsFiniteSet(S), NEW B, IsFiniteSet(B), NEW key, NEW r,
           \A x \in S : key[x] \in B,
           \A b \in B : r[b] = Cardinality(Group(S, key, b))
    PROVE  Sum(r, B) = Cardinality(S)
<1>1. PICK one : one = [x \in S |-> 1]
  OBVIOUS
<1>2. Ints(one, S) /\ \A x \in S : one[x] = 1
  BY <1>1 DEF Ints
<1>3. \A b \in B : r[b] = Sum(one, Group(S, key, b))
  <2>1. ASSUME NEW b \in B
        PROVE  IsFiniteSet(Group(S, key, b)) /\ \A x \in Group(S, key, b) : one[x] = 1
    BY <1>2, FS_Subset DEF Group
  <2> QED BY <2>1, CountIsSum
<1>4. Sum(r, B) = Sum(one, Grouped(S, key, B))
  BY <1>2, <1>3, SumOfGroups
<1>5. Grouped(S, key, B) = S
  BY DEF Grouped
<1> QED BY <1>2, <1>4, <1>5, CountIsSum

Row(b) == BranchRow(stock, journal, ActiveProducts, activeBranches, b)
Rows(scope) == StockByBranch(stock, journal, ActiveProducts, activeBranches, scope)
BranchOf == [c \in DOMAIN stock |-> c[2]]
AtLevel(scope, level) ==
    {c \in Operational(CellsIn(stock, scope), ActiveProducts, activeBranches) :
        LevelAt(stock, c) = level}

LEMMA RowsShown ==
    ASSUME NEW scope \in SUBSET Branches
    PROVE  /\ \A b \in scope :
                 b \in DOMAIN Rows(scope) <=> b \in activeBranches \/ Row(b).items > 0
           /\ DOMAIN Rows(scope) \in SUBSET scope
           /\ \A b \in DOMAIN Rows(scope) : Rows(scope)[b] = Row(b)
           /\ IsFiniteSet(scope) /\ IsFiniteSet(DOMAIN Rows(scope))
<1>1. /\ DOMAIN Rows(scope) = {b \in scope : b \in activeBranches \/ Row(b).items > 0}
      /\ \A b \in DOMAIN Rows(scope) : Rows(scope)[b] = Row(b)
  BY DEF Rows, StockByBranch, Row
<1>2. DOMAIN Rows(scope) \in SUBSET scope
  BY <1>1
<1> QED BY <1>1, <1>2, FiniteAssumption, FS_Subset

LEMMA SumOverIsSum ==
    ASSUME NEW rows, NEW field, IsFiniteSet(DOMAIN rows), NEW r, Ints(r, DOMAIN rows),
           \A b \in DOMAIN rows : rows[b][field] = r[b]
    PROVE  SumOver(rows, field) = Sum(r, DOMAIN rows)
<1> DEFINE column == [b \in DOMAIN rows |-> rows[b][field]]
<1>1. DOMAIN column = DOMAIN rows /\ \A b \in DOMAIN rows : column[b] = r[b]
  OBVIOUS
<1>2. SumOver(rows, field) = Sum(column, DOMAIN rows)
  BY <1>1, Zenon DEF SumOver, SumFunction, Sum
<1> HIDE DEF column
<1> QED BY <1>1, <1>2, SumSame DEF Ints

LEMMA CellsGrouped ==
    /\ \A b : CellsIn(stock, {b}) = Group(DOMAIN stock, BranchOf, b)
    /\ \A scope : CellsIn(stock, scope) = Grouped(DOMAIN stock, BranchOf, scope)
<1>1. ASSUME NEW b
      PROVE  CellsIn(stock, {b}) = Group(DOMAIN stock, BranchOf, b)
  BY DEF CellsIn, Group, BranchOf
<1>2. ASSUME NEW scope
      PROVE  CellsIn(stock, scope) = Grouped(DOMAIN stock, BranchOf, scope)
  BY DEF CellsIn, Grouped, BranchOf
<1> QED BY <1>1, <1>2

LEMMA RowItems ==
    ASSUME IInv, Shapes, NEW b
    PROVE  /\ Row(b).items = Sum(stock, Group(DOMAIN stock, BranchOf, b))
           /\ Row(b).items \in Int /\ Row(b).items >= 0
<1>1. PICK G : G = Group(DOMAIN stock, BranchOf, b)
  OBVIOUS
<1>2. Row(b).items = Sum(stock, G)
  <2>1. Row(b).items = Total(stock, CellsIn(stock, {b}))
    BY DEF Row, BranchRow
  <2>2. CellsIn(stock, {b}) = G
    BY <1>1, CellsGrouped
  <2> QED BY <2>1, <2>2 DEF Total, Sum
<1>3. G \subseteq DOMAIN stock
  BY <1>1 DEF Group
<1>4. IsFiniteSet(G) /\ \A c \in G : stock[c] \in Int /\ stock[c] >= 0
  BY <1>3, RowsFinite, FS_Subset DEF Ints
<1>5. Sum(stock, G) \in Int /\ Sum(stock, G) >= Cardinality(G) * 0
  BY <1>4, SumAtLeast
<1>6. Cardinality(G) * 0 = 0
  BY <1>4, FS_CardinalityType
<1> QED BY <1>1, <1>2, <1>5, <1>6

(* An inactive branch that is left out has nothing in stock.              *)
LEMMA ItemsAddUp ==
    ASSUME IInv, Shapes, NEW scope \in SUBSET Branches
    PROVE  Total(stock, CellsIn(stock, scope)) = SumOver(Rows(scope), "items")
<1>1. PICK shown : shown = DOMAIN Rows(scope)
  OBVIOUS
<1>2. PICK r : r = [b \in scope |-> Row(b).items]
  OBVIOUS
<1>3. \A b \in scope : r[b] = Row(b).items /\ r[b] \in Int
  BY <1>2, RowItems
<1>4. \A b \in scope : r[b] = Sum(stock, Group(DOMAIN stock, BranchOf, b))
  BY <1>3, RowItems
<1>5. Sum(r, scope) = Sum(stock, Grouped(DOMAIN stock, BranchOf, scope))
  <2>1. IsFiniteSet(DOMAIN stock) /\ Ints(stock, DOMAIN stock) /\ IsFiniteSet(scope)
    BY RowsFinite, RowsShown
  <2> QED BY <1>4, <2>1, SumOfGroups
<1>6. Ints(r, scope) /\ \A b \in scope \ shown : r[b] = 0
  <2>1. \A b \in scope \ shown : ~(Row(b).items > 0)
    BY <1>1, RowsShown
  <2>2. \A b \in scope \ shown : Row(b).items \in Int /\ Row(b).items >= 0
    BY RowItems
  <2>3. \A b \in scope \ shown : r[b] = 0
    BY <1>3, <2>1, <2>2
  <2> QED BY <1>3, <2>3 DEF Ints
<1>7. Sum(r, shown) = Sum(r, scope)
  BY <1>1, <1>6, RowsShown, SumOfThoseShown
<1>8. SumOver(Rows(scope), "items") = Sum(r, shown)
  <2>1. \A b \in shown : Rows(scope)[b]["items"] = r[b]
    BY <1>1, <1>3, RowsShown
  <2>2. Ints(r, shown) /\ IsFiniteSet(shown)
    BY <1>1, <1>3, RowsShown DEF Ints
  <2> QED BY <1>1, <2>1, <2>2, SumOverIsSum
<1> QED BY <1>5, <1>7, <1>8, CellsGrouped DEF Total, Sum

LEMMA LevelCases ==
    ASSUME IInv, Shapes, NEW c \in DOMAIN stock
    PROVE  /\ LevelAt(stock, c) = "out" <=> stock[c] <= 0
           /\ LevelAt(stock, c) = "low" <=> stock[c] > 0 /\ stock[c] < MinStock[c[1]]
           /\ LevelAt(stock, c) \in {"out", "low", "ok"}
<1>1. stock[c] \in Int
  BY DEF IInv, LevelsTyped
<1> QED BY <1>1 DEF LevelAt, LevelFor

(* The SQL of the dashboard counts, branch by branch, what the stock page *)
(* counts by level.                                                       *)
LEMMA RowCounts ==
    ASSUME IInv, Shapes, NEW scope, NEW b \in scope
    PROVE  /\ Row(b).lowCount = Cardinality(Group(AtLevel(scope, "low"), BranchOf, b))
           /\ Row(b).outCount = Cardinality(Group(AtLevel(scope, "out"), BranchOf, b))
<1> DEFINE ofActive == {c \in CellsIn(stock, {b}) : c[1] \in ActiveProducts}
           low == {c \in ofActive : stock[c] > 0 /\ stock[c] < MinStock[c[1]]}
           out == {c \in ofActive : stock[c] <= 0}
<1>1. /\ Row(b).lowCount = IF b \in activeBranches THEN Cardinality(low) ELSE 0
      /\ Row(b).outCount = IF b \in activeBranches THEN Cardinality(out) ELSE 0
  BY DEF Row, BranchRow
<1>2. CASE b \in activeBranches
  <2>1. low = Group(AtLevel(scope, "low"), BranchOf, b)
    BY <1>2, LevelCases DEF Group, AtLevel, Operational, CellsIn, BranchOf
  <2>2. out = Group(AtLevel(scope, "out"), BranchOf, b)
    BY <1>2, LevelCases DEF Group, AtLevel, Operational, CellsIn, BranchOf
  <2> HIDE DEF low, out
  <2> QED BY <1>1, <1>2, <2>1, <2>2
<1>3. CASE b \notin activeBranches
  <2>1. \A level : Group(AtLevel(scope, level), BranchOf, b) = {}
    BY <1>3 DEF Group, AtLevel, Operational, CellsIn, BranchOf
  <2> HIDE DEF low, out
  <2> QED BY <1>1, <1>3, <2>1, FS_EmptySet
<1> QED BY <1>2, <1>3

LEMMA CountsAddUp ==
    ASSUME IInv, Shapes, NEW scope \in SUBSET Branches, NEW level, NEW field,
           \A b \in DOMAIN Rows(scope) :
               Row(b)[field] = Cardinality(Group(AtLevel(scope, level), BranchOf, b))
    PROVE  SumOver(Rows(scope), field) = Cardinality(AtLevel(scope, level))
<1>1. PICK S : S = AtLevel(scope, level)
  OBVIOUS
<1>2. PICK shown : shown = DOMAIN Rows(scope)
  OBVIOUS
<1>3. PICK r : r = [b \in shown |-> Cardinality(Group(S, BranchOf, b))]
  OBVIOUS
<1>4. S \subseteq DOMAIN stock /\ \A c \in S : c[2] \in scope \cap activeBranches
  BY <1>1 DEF AtLevel, Operational, CellsIn
<1>5. IsFiniteSet(S)
  BY <1>4, RowsFinite, FS_Subset
<1>6. \A c \in S : BranchOf[c] \in shown
  <2>1. \A c \in S : BranchOf[c] = c[2]
    BY <1>4 DEF BranchOf
  <2>2. \A b \in scope \cap activeBranches : b \in shown
    BY <1>2, RowsShown
  <2> QED BY <1>4, <2>1, <2>2
<1>7. \A b \in shown : r[b] = Cardinality(Group(S, BranchOf, b))
  BY <1>3
<1>8. Sum(r, shown) = Cardinality(S)
  BY <1>2, <1>5, <1>6, <1>7, RowsShown, CountOfGroups
<1>9. Ints(r, shown)
  <2>1. \A b \in shown : IsFiniteSet(Group(S, BranchOf, b))
    BY <1>5, FS_Subset DEF Group
  <2> QED BY <1>7, <2>1, FS_CardinalityType DEF Ints
<1>10. \A b \in shown : Rows(scope)[b][field] = r[b]
  BY <1>1, <1>2, <1>7, RowsShown
<1>11. SumOver(Rows(scope), field) = Sum(r, shown)
  <2>1. IsFiniteSet(DOMAIN Rows(scope))
    BY RowsShown
  <2> QED BY <1>2, <1>9, <1>10, <2>1, SumOverIsSum
<1> QED BY <1>1, <1>8, <1>11

LEMMA AddUp ==
    ASSUME IInv, Shapes, NEW scope \in SUBSET Branches
    PROVE  BranchesAddUp(scope)
<1>1. PICK summary : summary = Summary(stock, ActiveProducts, activeBranches, scope)
  OBVIOUS
<1>2. /\ summary.totalItems = Total(stock, CellsIn(stock, scope))
      /\ summary.lowCount = Cardinality(AtLevel(scope, "low"))
      /\ summary.outCount = Cardinality(AtLevel(scope, "out"))
  BY <1>1 DEF Summary, AtLevel
<1>3. summary.totalItems = SumOver(Rows(scope), "items")
  BY <1>2, ItemsAddUp
<1>4. /\ summary.lowCount = SumOver(Rows(scope), "lowCount")
      /\ summary.outCount = SumOver(Rows(scope), "outCount")
  <2>1. \A b \in DOMAIN Rows(scope) :
          /\ Row(b)["lowCount"] = Cardinality(Group(AtLevel(scope, "low"), BranchOf, b))
          /\ Row(b)["outCount"] = Cardinality(Group(AtLevel(scope, "out"), BranchOf, b))
    BY RowsShown, RowCounts
  <2> QED BY <1>2, <2>1, CountsAddUp
<1>5. summary.lowCount + summary.outCount
        = Cardinality(Alerts(stock, ActiveProducts, activeBranches, scope))
  <2>1. PICK low : low = AtLevel(scope, "low")
    OBVIOUS
  <2>2. PICK out : out = AtLevel(scope, "out")
    OBVIOUS
  <2>3. IsFiniteSet(low) /\ IsFiniteSet(out) /\ low \cap out = {}
    BY <2>1, <2>2, RowsFinite, FS_Subset DEF AtLevel, Operational, CellsIn
  <2>4. Alerts(stock, ActiveProducts, activeBranches, scope) = low \cup out
    BY <2>1, <2>2, LevelCases DEF Alerts, AtLevel, Operational, CellsIn
  <2>5. Cardinality(low \cup out) = Cardinality(low) + Cardinality(out)
    <3>1. Cardinality(low) \in Nat /\ Cardinality(out) \in Nat /\ Cardinality(low \cap out) = 0
      BY <2>3, FS_EmptySet, FS_CardinalityType
    <3>2. Cardinality(low \cup out)
            = Cardinality(low) + Cardinality(out) - Cardinality(low \cap out)
      BY <2>3, FS_Union
    <3> QED BY <3>1, <3>2
  <2> QED BY <1>2, <2>1, <2>2, <2>4, <2>5
<1> QED BY <1>1, <1>3, <1>4, <1>5 DEF BranchesAddUp, Rows

CellOf == [m \in DOMAIN journal |-> m.cell]

LEMMA DeltaIsSum ==
    ASSUME Shapes, Reconciled, NEW scope
    PROVE  DeltaInPeriod(journal, scope)
               = Sum(Moved(journal), Grouped(DOMAIN journal, CellOf, CellsIn(stock, scope)))
<1>1. {m \in DOMAIN journal : m.cell[2] \in scope}
        = Grouped(DOMAIN journal, CellOf, CellsIn(stock, scope))
  BY DEF Grouped, CellOf, CellsIn, Shapes, BagsTyped, MovementTyped
<1>2. PICK ms : ms = {m \in DOMAIN journal : m.cell[2] \in scope}
  OBVIOUS
<1>3. QtySum(journal, ms) = Sum(Moved(journal), ms)
  BY <1>2, JournalTyped, QtySumIsSum DEF Reconciled
<1> QED BY <1>1, <1>2, <1>3 DEF DeltaInPeriod

LEMMA ScopeExplained ==
    ASSUME IInv, Shapes, Reconciled, NEW scope
    PROVE  Total(stock, CellsIn(stock, scope))
               = Total(opening, CellsIn(stock, scope)) + DeltaInPeriod(journal, scope)
<1>1. PICK cells : cells = CellsIn(stock, scope)
  OBVIOUS
<1>2. cells \subseteq DOMAIN stock /\ IsFiniteSet(cells)
  BY <1>1, RowsFinite, FS_Subset DEF CellsIn
<1>3. PICK f : f = Moved(journal)
  OBVIOUS
<1>4. PICK g : g = [c \in DOMAIN stock |-> QtySum(journal, {m \in DOMAIN journal : m.cell = c})]
  OBVIOUS
<1>5. \A c \in cells : stock[c] = opening[c] + g[c]
  BY <1>2, <1>4 DEF Reconciled, LevelsExplained
<1>6. \A c \in cells : g[c] = Sum(f, Group(DOMAIN journal, CellOf, c))
  <2> SUFFICES ASSUME NEW c \in cells
               PROVE  g[c] = Sum(f, Group(DOMAIN journal, CellOf, c))
    OBVIOUS
  <2>1. PICK ms : ms = {m \in DOMAIN journal : m.cell = c}
    OBVIOUS
  <2>2. ms = Group(DOMAIN journal, CellOf, c)
    BY <2>1 DEF Group, CellOf
  <2>3. QtySum(journal, ms) = Sum(f, ms)
    BY <1>3, <2>1, JournalTyped, QtySumIsSum DEF Reconciled
  <2>4. g[c] = QtySum(journal, ms)
    BY <1>2, <1>4, <2>1
  <2> QED BY <2>2, <2>3, <2>4
<1>7. IsFiniteSet(DOMAIN journal) /\ Ints(f, DOMAIN journal)
  BY <1>3, JournalTyped, QtySumIsSum DEF Reconciled
<1>8. Sum(g, cells) = Sum(f, Grouped(DOMAIN journal, CellOf, cells)) /\ Ints(g, cells)
  BY <1>2, <1>6, <1>7, SumOfGroups
<1>9. Ints(opening, cells)
  BY <1>2 DEF Ints, Shapes, LevelsBounded
<1>10. Sum(stock, cells) = Sum(opening, cells) + Sum(g, cells)
  BY <1>2, <1>5, <1>8, <1>9, SumPlus
<1> QED BY <1>1, <1>3, <1>8, <1>10, DeltaIsSum DEF Total, Sum

(* What a branch's entries and exits do not explain was adjusted: the     *)
(* movements are of three types.                                          *)
LEMMA BranchExplained ==
    ASSUME Shapes, Reconciled, NEW b
    PROVE  \/ DeltaInPeriod(journal, {b}) = Row(b).entries + Row(b).exits
           \/ Row(b).adjustments > 0
<1> DEFINE moved(type) == {m \in DOMAIN journal : m.cell[2] = b /\ m.type = type}
<1>1. /\ Row(b).entries = QtySum(journal, moved("ENTRADA"))
      /\ Row(b).exits = QtySum(journal, moved("SAIDA"))
      /\ Row(b).adjustments = CountOf(journal, moved("AJUSTE"))
  BY DEF Row, BranchRow
<1>2. PICK entries, exits, adjusted :
        entries = moved("ENTRADA") /\ exits = moved("SAIDA") /\ adjusted = moved("AJUSTE")
  OBVIOUS
<1>3. PICK all : all = {m \in DOMAIN journal : m.cell[2] \in {b}}
  OBVIOUS
<1>4. CASE adjusted = {}
  <2>1. all = entries \cup exits /\ entries \cap exits = {}
    BY <1>2, <1>3, <1>4 DEF Shapes, BagsTyped, MovementTyped, Types
  <2>2. PICK f : f = Moved(journal)
    OBVIOUS
  <2>3. entries \in SUBSET DOMAIN journal /\ exits \in SUBSET DOMAIN journal
          /\ all \in SUBSET DOMAIN journal
    BY <1>2, <1>3
  <2>4. /\ QtySum(journal, entries) = Sum(f, entries) /\ IsFiniteSet(entries)
        /\ QtySum(journal, exits) = Sum(f, exits) /\ IsFiniteSet(exits)
        /\ QtySum(journal, all) = Sum(f, all) /\ Ints(f, all)
    BY <2>2, <2>3, JournalTyped, QtySumIsSum DEF Reconciled
  <2>5. Sum(f, entries \cup exits) = Sum(f, entries) + Sum(f, exits)
    BY <2>1, <2>4, SumUnion
  <2>6. DeltaInPeriod(journal, {b}) = QtySum(journal, all)
    BY <1>3 DEF DeltaInPeriod
  <2> QED BY <1>1, <1>2, <2>1, <2>4, <2>5, <2>6
<1>5. CASE adjusted # {}
  <2>1. adjusted \subseteq DOMAIN journal
    BY <1>2
  <2>2. IsFiniteSet(adjusted) /\ \A m \in adjusted : journal[m] \in Int /\ journal[m] >= 1
    BY <2>1, FS_Subset DEF Reconciled, JournalCounts
  <2>3. Sum(journal, adjusted) \in Int /\ Sum(journal, adjusted) >= Cardinality(adjusted) * 1
    BY <2>2, SumAtLeast
  <2>4. Cardinality(adjusted) \in Nat /\ Cardinality(adjusted) # 0
    BY <1>5, <2>2, FS_CardinalityType, FS_EmptySet
  <2>5. Sum(journal, adjusted) > 0
    BY <2>3, <2>4
  <2> QED BY <1>1, <1>2, <2>5 DEF CountOf, Sum
<1> QED BY <1>4, <1>5

LEMMA Explained ==
    ASSUME IInv, Shapes, Reconciled, NEW scope
    PROVE  PeriodExplained(scope)
<1>1. \A b \in DOMAIN Rows(scope) : Rows(scope)[b] = Row(b)
  BY DEF Rows, StockByBranch, Row
<1>2. ASSUME NEW b \in DOMAIN Rows(scope)
      PROVE  \/ DeltaInPeriod(journal, {b}) = Rows(scope)[b].entries + Rows(scope)[b].exits
             \/ Rows(scope)[b].adjustments > 0
  <2>1. Rows(scope)[b] = Row(b)
    BY <1>1
  <2> QED BY <2>1, BranchExplained
<1> QED BY <1>2, ScopeExplained DEF PeriodExplained, Rows

(* Rows that are all above their minimum add up to a product above its.   *)
LEMMA AlertsFounded ==
    ASSUME IInv, Shapes, NEW scope
    PROVE  ProductAlertsFounded(scope)
<1> SUFFICES ASSUME NEW p \in AlertTab(stock, ActiveProducts, scope),
                    {c \in CellsIn(stock, scope) : c[1] = p} # {},
                    \A c \in {x \in CellsIn(stock, scope) : x[1] = p} : LevelAt(stock, c) = "ok"
             PROVE  FALSE
  BY DEF ProductAlertsFounded
<1>1. PICK cells : cells = {c \in CellsIn(stock, scope) : c[1] = p}
  OBVIOUS
<1>2. cells # {} /\ cells \subseteq DOMAIN stock
  BY <1>1 DEF CellsIn
<1>3. PICK min \in Nat : min = MinStock[p]
  BY LevelsAssumption DEF AlertTab, ActiveProducts
<1>4. \A c \in cells : c \in DOMAIN stock /\ c[1] = p /\ LevelAt(stock, c) = "ok"
  BY <1>1, <1>2
<1>5. \A c \in cells : stock[c] \in Int /\ stock[c] >= 1 /\ stock[c] >= min
  <2> SUFFICES ASSUME NEW c \in cells
               PROVE  stock[c] \in Int /\ stock[c] >= 1 /\ stock[c] >= min
    OBVIOUS
  <2>1. ~(stock[c] <= 0) /\ ~(stock[c] > 0 /\ stock[c] < min)
    BY <1>3, <1>4, LevelCases
  <2>2. stock[c] \in Int
    BY <1>4 DEF IInv, LevelsTyped
  <2> QED BY <2>1, <2>2
<1>6. IsFiniteSet(cells)
  BY <1>2, RowsFinite, FS_Subset
<1>7. /\ Sum(stock, cells) \in Int
      /\ Sum(stock, cells) >= Cardinality(cells) * 1
      /\ Sum(stock, cells) >= Cardinality(cells) * min
  BY <1>5, <1>6, SumAtLeast
<1>8. Cardinality(cells) \in Nat /\ Cardinality(cells) # 0
  BY <1>2, <1>6, FS_CardinalityType, FS_EmptySet
<1>9. PICK n : n = Cardinality(cells) * min
  OBVIOUS
<1>10. n \in Nat
  BY <1>8, <1>9
<1>11. ProductLevel(stock, p, scope) = LevelFor(Sum(stock, cells), n)
  BY <1>1, <1>3, <1>9 DEF ProductLevel, ProductStock, Total, Sum
<1>12. Sum(stock, cells) > 0 /\ Sum(stock, cells) >= n
  BY <1>7, <1>8, <1>9
<1>13. LevelFor(Sum(stock, cells), n) = "ok"
  BY <1>7, <1>10, <1>12 DEF LevelFor
<1> QED BY <1>11, <1>13 DEF AlertTab

(* dashboard.service.ts, stock.service.ts, alerts.service.ts and          *)
(* products.service.ts count the same rows by queries of their own: for   *)
(* any branches, products and scope, after any requests in any order, the *)
(* branches add up to the totals, the movements of the period explain the *)
(* stock, and a product in alert is below its minimum somewhere.          *)
THEOREM FiguresAlwaysAgree == Spec => []FiguresAgree
<1>1. Init => IInv /\ Shapes /\ Reconciled
  BY InitInv, ShapesInit, InitReconciled
<1>2. IInv /\ Shapes /\ Reconciled /\ [Next]_vars => (IInv /\ Shapes /\ Reconciled)'
  BY StepSound, StutterKeeps, StepShapes, StepReconciles DEF Sound
<1>3. IInv /\ Shapes /\ Reconciled => FiguresAgree
  BY AddUp, Explained, AlertsFounded DEF FiguresAgree
<1> QED
  BY <1>1, <1>2, <1>3, PTL DEF Spec
=============================================================================
