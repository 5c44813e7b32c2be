----------------------------- MODULE Workspace ----------------------------
(***************************************************************************)
(* The members of a distributor at work: the requests that its API        *)
(* answers, from the guards that fix their tenant context to the handlers *)
(* that act on it later, and the figures that are shown of the result.    *)
(*                                                                         *)
(* A handler takes effect at once here; its statements are interleaved in *)
(* StockLedger, Catalog and Team.  What lies between is the point: role,  *)
(* branches and subscription may change after the guards have read them.  *)
(***************************************************************************)
EXTENDS Access, Figures, Bags

CONSTANTS
    Members, Owner,
    Products,
    Requests,
    NoBranch,        \* the default branch of a member that chose none
    Quantities,      \* of an entry or an exit
    MaxLevel,        \* bound: the highest stock level
    MaxWrites        \* bound: writes begun and outside changes, then no request starts

ASSUME OwnerAssumption == Owner \in Members
ASSUME NoBranchAssumption == NoBranch \notin Branches
ASSUME LevelsAssumption ==
    /\ {MaxLevel, MaxWrites} \subseteq Nat
    /\ Quantities \subseteq 1..MaxLevel
    /\ MinStock \in [Products -> Nat]
ASSUME FiniteAssumption == IsFiniteSet(Products) /\ IsFiniteSet(Branches)

VARIABLES
    member,     \* role, branches and status of each membership
    readOnly,   \* the subscription makes the account read-only
    product,    \* each product: "none", "active" or "inactive"
    activeBranches,
    stock,      \* the level of every pair that has a row
    journal,    \* the bag of movements in the period of the dashboard
    cancelable, \* the bag of movements that a reversal may still cancel
    prefs,      \* the preferences stored for each member
    req,        \* each request: where it is and the context it got
    opening,    \* history: the level of each row when the period or it began
    writes

data == <<member, product, activeBranches, stock, journal, cancelable, prefs, opening>>
vars == <<data, readOnly, req, writes>>

-----------------------------------------------------------------------------
Types == {"ENTRADA", "SAIDA", "AJUSTE"}
Cells == Products \X Branches
ActiveProducts == {p \in Products : product[p] = "active"}

(* REMOVED, or never a member, is "out".                                  *)
MemberRows ==
    [role : Roles, branches : SUBSET Branches, status : {"out", "invited", "active"}]

Idle == [at |-> "idle"]
UnderWay == {"guarded", "invite"}

(* DEFAULT_PREFERENCES, of which one stands for the plain switches.       *)
Defaults == [defaultBranchId |-> NoBranch, confirmBeforeExit |-> FALSE]
PreferenceKeys == DOMAIN Defaults
Changes ==
    {[defaultBranchId |-> b] : b \in Branches \cup {NoBranch}}
        \cup {[confirmBeforeExit |-> c] : c \in BOOLEAN}

Over(base, given) == [k \in DOMAIN base |-> IF k \in DOMAIN given THEN given[k] ELSE base[k]]

WithDefaults(stored) == Over(Defaults, stored)

(* Mutant: the keys that the dto leaves undefined are spread as well.     *)
MergedWithUndefined(dto, stored) == Over(Defaults, dto)

Merged(dto, stored) == Over(WithDefaults(stored), dto)

Init ==
    /\ member \in [Members -> MemberRows]
    /\ \A m \in Members :
          /\ member[m].status = "active"
          /\ member[m].role = "OWNER" <=> m = Owner
          /\ member[m].branches = {} <=> member[m].role \in FullAccessRoles
    /\ readOnly \in BOOLEAN
    /\ \E existing \in SUBSET Products :
          /\ product = [p \in Products |-> IF p \in existing THEN "active" ELSE "none"]
          /\ stock \in [existing \X Branches -> 0..MaxLevel]
    /\ activeBranches = Branches
    /\ journal = EmptyBag
    /\ cancelable = EmptyBag
    /\ prefs = [m \in Members |-> <<>>]
    /\ req = [r \in Requests |-> Idle]
    /\ opening = stock
    /\ writes = 0

-----------------------------------------------------------------------------
(* TenantGuard: the membership, its branches and the subscription are     *)
(* read by one query.  History: stale, when they change before the answer.*)
RightsOf(m) == ContextOf(member[m].role, member[m].branches, readOnly)

Guard(r, m) ==
    /\ req[r] = Idle
    /\ writes < MaxWrites
    /\ member[m].status = "active"
    /\ req' = [req EXCEPT ![r] =
          [at |-> "guarded", member |-> m, ctx |-> RightsOf(m), stale |-> FALSE]]
    /\ UNCHANGED <<data, readOnly, writes>>

(* A request that is refused or only reads.                               *)
Leave(r) ==
    /\ req[r].at \in UnderWay
    /\ req' = [req EXCEPT ![r] = Idle]
    /\ UNCHANGED <<data, readOnly, writes>>

Written == writes < MaxWrites /\ writes' = writes + 1

(* The requests, when a change of these members overtakes theirs.         *)
Overtaken(ms) ==
    [q \in Requests |-> IF req[q].at \in UnderWay /\ req[q].member \in ms
                         THEN [req[q] EXCEPT !.stale = TRUE] ELSE req[q]]

Handle(r, need, others) ==
    /\ req[r].at = "guarded"
    /\ Admits(req[r].ctx, need)
    /\ req' = [others EXCEPT ![r] = Idle]
    /\ Written
    /\ UNCHANGED readOnly

Movement(type, c, qty) == [type |-> type, cell |-> c, qty |-> qty]

(* The new level and the movement are written in one transaction.         *)
Post(m) ==
    /\ stock[m.cell] + m.qty \in 0..MaxLevel
    /\ stock' = [stock EXCEPT ![m.cell] = @ + m.qty]
    /\ journal' = journal (+) SetToBag({m})
    /\ UNCHANGED <<member, product, activeBranches, prefs, opening>>

Delta(type, c, qty) ==
    CASE type = "ENTRADA" -> qty
      [] type = "SAIDA" -> -qty
      [] OTHER -> qty - stock[c]

CreateMovement(r, type, c, qty) ==
    LET m == Movement(type, c, Delta(type, c, qty))
    IN  /\ Handle(r, MovementRoutes.create, req)
        /\ req[r].ctx.role = "SALES" => type = "SAIDA"
        /\ InScope(req[r].ctx, c[2])
        /\ c[2] \in activeBranches
        /\ Post(m)
        /\ cancelable' = cancelable (+) SetToBag({m})

(* Mutant: the level is not checked.                                      *)
ReverseMovementUnchecked(r, m) ==
    /\ Handle(r, MovementRoutes.reverse, req)
    /\ InScope(req[r].ctx, m.cell[2])
    /\ req[r].ctx.role # "SALES"
    /\ stock' = [stock EXCEPT ![m.cell] = @ - m.qty]
    /\ journal' = journal (+) SetToBag({Movement(m.type, m.cell, -m.qty)})
    /\ cancelable' = cancelable (-) SetToBag({m})
    /\ UNCHANGED <<member, product, activeBranches, prefs, opening>>

(* A reversal keeps the type and negates the quantity, and is final.      *)
ReverseMovement(r, m) ==
    /\ Handle(r, MovementRoutes.reverse, req)
    /\ InScope(req[r].ctx, m.cell[2])
    /\ req[r].ctx.role # "SALES"
    /\ Post(Movement(m.type, m.cell, -m.qty))
    /\ cancelable' = cancelable (-) SetToBag({m})

(* The rows that are missing for these pairs, with the first levels that  *)
(* each branch is given.                                                  *)
Opened(rows, cells, first) ==
    [c \in DOMAIN rows \cup cells |-> IF c \in DOMAIN rows THEN rows[c] ELSE first[c[2]]]

OpenRows(cells, first) ==
    /\ stock' = Opened(stock, cells, first)
    /\ opening' = Opened(opening, cells, first)

Empty == [b \in Branches |-> 0]

Flag(a) == IF a THEN "active" ELSE "inactive"

(* The rows are opened for an inactive product as well.  A copy is a new  *)
(* product without first levels.                                          *)
CreateProduct(r, p, isActive, initial) ==
    /\ Handle(r, ProductRoutes.create, req)
    /\ product[p] = "none"
    /\ \A b \in DOMAIN initial : InScope(req[r].ctx, b)
    /\ product' = [product EXCEPT ![p] = Flag(isActive)]
    /\ OpenRows({p} \X activeBranches, Over(Empty, initial))
    /\ UNCHANGED <<member, activeBranches, journal, cancelable, prefs>>

UpdateProduct(r, p, to) ==
    /\ Handle(r, IF to THEN ProductRoutes.update ELSE ProductRoutes.remove, req)
    /\ product[p] = Flag(~to)
    /\ product' = [product EXCEPT ![p] = Flag(to)]
    /\ OpenRows(IF to THEN {p} \X activeBranches ELSE {}, Empty)
    /\ UNCHANGED <<member, activeBranches, journal, cancelable, prefs>>

(* The branches but the main one, which stays active.                     *)
UpdateBranch(r, b, to) ==
    /\ Handle(r, IF to THEN BranchRoutes.update ELSE BranchRoutes.remove, req)
    /\ IF to THEN b \notin activeBranches
             ELSE b \in activeBranches /\ activeBranches # {b}
    /\ activeBranches' = IF to THEN activeBranches \cup {b} ELSE activeBranches \ {b}
    /\ OpenRows(IF to THEN ActiveProducts \X {b} ELSE {}, Empty)
    /\ UNCHANGED <<member, product, journal, cancelable, prefs>>

(* assertCanManage and findActiveOrInvited                                *)
CanManage(r, m) ==
    /\ member[m].status # "out"
    /\ member[m].role # "OWNER"
    /\ m # req[r].member

SetMember(m, row) ==
    /\ member' = [member EXCEPT ![m] = row]
    /\ UNCHANGED <<product, activeBranches, stock, journal, cancelable, prefs, opening>>

BranchesFor(role, branches) == IF role = "ADMIN" THEN {} ELSE branches

UpdateMember(r, m, role, branches) ==
    /\ Handle(r, TeamRoutes.update, Overtaken({m}))
    /\ CanManage(r, m)
    /\ BranchesFor(role, branches) # {} \/ role = "ADMIN"
    /\ SetMember(m, [member[m] EXCEPT !.role = role,
                                     !.branches = BranchesFor(role, branches)])

RemoveMember(r, m) ==
    /\ Handle(r, TeamRoutes.remove, Overtaken({m}))
    /\ CanManage(r, m)
    /\ SetMember(m, [member[m] EXCEPT !.status = "out"])

(* A new link for a pending invitation, which no other request looks at.  *)
ResendInvite(r, m) ==
    /\ Handle(r, TeamRoutes.resendInvite, req)
    /\ member[m].status = "invited"
    /\ UNCHANGED data

(* invite looks the e-mail up before its transaction: it is m's.  What it *)
(* was asked to give matters to the write alone.                          *)
Invite(r, m) ==
    /\ req[r].at = "guarded"
    /\ Admits(req[r].ctx, TeamRoutes.invite)
    /\ req' = [req EXCEPT ![r] =
          [at |-> "invite", member |-> req[r].member, ctx |-> req[r].ctx,
           stale |-> req[r].stale, target |-> m, moved |-> FALSE]]
    /\ Written
    /\ UNCHANGED <<data, readOnly>>

(* Its transaction refuses an e-mail that belongs to the team, and else   *)
(* makes a row or rewrites the one of the account it had found.  That one *)
(* may be active: then the account has another e-mail by now.             *)
InviteWrite(r, role, branches, status) ==
    LET m == req[r].target
    IN  /\ req[r].at = "invite"
        /\ BranchesFor(role, branches) # {} \/ role = "ADMIN"
        /\ member[m].status = "out" \/ (member[m].status = "active" /\ req[r].moved)
        /\ status = "invited" => member[m].status = "out" /\ ~req[r].moved
        /\ req' = [Overtaken({m}) EXCEPT ![r] = Idle]
        /\ SetMember(m, [role |-> role, branches |-> BranchesFor(role, branches),
                         status |-> status])
        /\ UNCHANGED <<readOnly, writes>>

(* Outside of the distributor's API: the invited person accepts, and an   *)
(* account that is being invited confirms another e-mail.                 *)
AcceptInvite(m) ==
    /\ member[m].status = "invited"
    /\ Written
    /\ SetMember(m, [member[m] EXCEPT !.status = "active"])
    /\ UNCHANGED <<readOnly, req>>

Invites(m) == {r \in Requests : req[r].at = "invite" /\ req[r].target = m}

ConfirmEmailChange(m) ==
    /\ Invites(m) # {}
    /\ req' = [r \in Requests |->
          IF r \in Invites(m) THEN [req[r] EXCEPT !.moved = TRUE] ELSE req[r]]
    /\ Written
    /\ UNCHANGED <<data, readOnly>>

(* updatePreferences: a chosen branch must be active and in scope; then   *)
(* the stored preferences are read, and later written back, merged.       *)
UpdatePreferences(r, dto) ==
    LET chosen == IF "defaultBranchId" \in DOMAIN dto THEN {dto.defaultBranchId} \ {NoBranch}
                  ELSE {}
    IN  /\ req[r].at = "guarded"
        /\ Admits(req[r].ctx, MeRoutes.updatePreferences)
        /\ \A b \in chosen : b \in activeBranches /\ InScope(req[r].ctx, b)
        /\ req' = [req EXCEPT ![r] =
              [at |-> "merge", member |-> req[r].member, dto |-> dto,
               stored |-> prefs[req[r].member]]]
        /\ Written
        /\ UNCHANGED <<data, readOnly>>

UpdatePreferencesWrite(r) ==
    /\ req[r].at = "merge"
    /\ prefs' = [prefs EXCEPT ![req[r].member] = Merged(req[r].dto, req[r].stored)]
    /\ req' = [req EXCEPT ![r] = Idle]
    /\ UNCHANGED <<readOnly, member, product, activeBranches, stock, journal,
                   cancelable, opening, writes>>

(* The subscription runs out or is paid.                                  *)
ChangeSubscription ==
    /\ readOnly' = ~readOnly
    /\ req' = Overtaken(Members)
    /\ Written
    /\ UNCHANGED data

(* The movements of the period grow older than its start.                 *)
Age ==
    /\ journal # EmptyBag
    /\ journal' = EmptyBag
    /\ opening' = stock
    /\ Written
    /\ UNCHANGED <<member, product, activeBranches, stock, cancelable, prefs, readOnly, req>>

-----------------------------------------------------------------------------
HandleMovement(r) ==
    \/ \E c \in DOMAIN stock :
          \/ \E type \in {"ENTRADA", "SAIDA"}, qty \in Quantities : CreateMovement(r, type, c, qty)
          \/ \E qty \in 0..MaxLevel : CreateMovement(r, "AJUSTE", c, qty)
    \/ \E m \in BagToSet(cancelable) : ReverseMovement(r, m)

HandleProduct(r) ==
    \E p \in Products :
        \/ \E bs \in SUBSET Branches, a \in BOOLEAN :
              \E initial \in [bs -> Quantities] : CreateProduct(r, p, a, initial)
        \/ \E to \in BOOLEAN : UpdateProduct(r, p, to)

HandleTeam(r) ==
    \/ \E m \in Members :
          \/ \E role \in InvitableRoles, bs \in SUBSET Branches : UpdateMember(r, m, role, bs)
          \/ RemoveMember(r, m)
          \/ ResendInvite(r, m)
          \/ Invite(r, m)
    \/ \E role \in InvitableRoles, bs \in SUBSET Branches, status \in {"invited", "active"} :
          InviteWrite(r, role, bs, status)

Next ==
    \/ \E r \in Requests :
          \/ \E m \in Members : Guard(r, m)
          \/ Leave(r)
          \/ HandleMovement(r)
          \/ HandleProduct(r)
          \/ \E b \in Branches, to \in BOOLEAN : UpdateBranch(r, b, to)
          \/ HandleTeam(r)
          \/ \E dto \in Changes : UpdatePreferences(r, dto)
          \/ UpdatePreferencesWrite(r)
    \/ \E m \in Members : AcceptInvite(m) \/ ConfirmEmailChange(m)
    \/ ChangeSubscription
    \/ Age

Spec == Init /\ [][Next]_vars

-----------------------------------------------------------------------------
TypeOK ==
    /\ member \in [Members -> MemberRows]
    /\ readOnly \in BOOLEAN
    /\ product \in [Products -> {"none", "active", "inactive"}]
    /\ activeBranches \subseteq Branches
    /\ DOMAIN stock \subseteq Cells /\ DOMAIN opening = DOMAIN stock
    /\ \A c \in DOMAIN stock : stock[c] \in 0..MaxLevel /\ opening[c] \in 0..MaxLevel
    /\ \A m \in DOMAIN journal \cup DOMAIN cancelable :
          m.type \in Types /\ m.cell \in DOMAIN stock /\ m.qty \in (-MaxLevel)..MaxLevel
    /\ \A m \in Members : DOMAIN prefs[m] \in {{}, PreferenceKeys}
    /\ \A r \in Requests :
          /\ req[r].at \in {"idle", "guarded", "invite", "merge"}
          /\ req[r] # Idle => req[r].member \in Members
          /\ req[r].at \in UnderWay => req[r].ctx \in Contexts /\ req[r].stale \in BOOLEAN
          /\ req[r].at = "invite" =>
                req[r].target \in Members /\ req[r].moved \in BOOLEAN
    /\ writes \in 0..MaxWrites

BranchesAddUp(scope) ==
    LET summary == Summary(stock, ActiveProducts, activeBranches, scope)
        rows == StockByBranch(stock, journal, ActiveProducts, activeBranches, scope)
    IN  /\ summary.totalItems = SumOver(rows, "items")
        /\ summary.lowCount = SumOver(rows, "lowCount")
        /\ summary.outCount = SumOver(rows, "outCount")
        /\ summary.lowCount + summary.outCount
              = Cardinality(Alerts(stock, ActiveProducts, activeBranches, scope))

PeriodExplained(scope) ==
    LET rows == StockByBranch(stock, journal, ActiveProducts, activeBranches, scope)
    IN  /\ Total(stock, CellsIn(stock, scope))
              = Total(opening, CellsIn(stock, scope)) + DeltaInPeriod(journal, scope)
        /\ \A b \in DOMAIN rows :
              DeltaInPeriod(journal, {b}) = rows[b].entries + rows[b].exits
                  \/ rows[b].adjustments > 0

ProductAlertsFounded(scope) ==
    \A p \in AlertTab(stock, ActiveProducts, scope) :
        LET cells == {c \in CellsIn(stock, scope) : c[1] = p}
        IN  cells # {} => \E c \in cells : LevelAt(stock, c) # "ok"

(* The dashboard, the stock page, the alerts and the products page, which *)
(* count the same rows by different queries, do not contradict each other *)
(* in any scope: the branches add up to the totals, the low and the empty *)
(* ones are the alerts, the movements of the period explain how the stock *)
(* changed, by branch what entries and exits do not explain is adjusted,  *)
(* and a product in alert is below its minimum somewhere.                 *)
FiguresAgree ==
    \A scope \in SUBSET Branches :
        BranchesAddUp(scope) /\ PeriodExplained(scope) /\ ProductAlertsFounded(scope)

Preserved == <<member, product, activeBranches, stock, cancelable>>

Touched == {c \in DOMAIN stock' : c \notin DOMAIN stock \/ stock'[c] # stock[c]}

(* An invite that a change of e-mail, or a removal, has overtaken.        *)
Reinvites(r, m) ==
    /\ req[r].at = "invite" /\ req[r].target = m
    /\ req[r].moved \/ member[m].status = "out"

Justified(r, rights) ==
    /\ Preserved' # Preserved => ~rights.readOnly
    /\ \A c \in Touched :
          \/ InScope(rights, c[2])
          \/ c \notin DOMAIN stock /\ stock'[c] = 0
    /\ rights.role = "SALES" => \A c \in Touched : c \in DOMAIN stock /\ stock'[c] < stock[c]
    /\ product' # product => rights.role \in {"OWNER", "ADMIN", "MANAGER"}
    /\ <<member, activeBranches>>' # <<member, activeBranches>> => rights.role \in {"OWNER", "ADMIN"}
    /\ \A m \in Members :
          member'[m] # member[m] /\ (m = req[r].member \/ member[m].role = "OWNER")
              => Reinvites(r, m)

AnswersJustified ==
    \A r \in Requests :
        req[r].at \in UnderWay /\ req'[r] = Idle =>
            Justified(r, IF req[r].stale THEN req[r].ctx ELSE RightsOf(req[r].member))

(* The deployment guide: a suspended or cancelled account is read-only,   *)
(* and routes that write answer 403.  A request changes only what its     *)
(* member is entitled to at that moment: levels in the branches in scope, *)
(* which a salesperson only lowers, products by who manages them,         *)
(* branches and other members by who manages the distributor.  So a       *)
(* change of rights binds every request that starts after it; one that it *)
(* overtakes is bound by the rights it started with.  Nobody's own row    *)
(* and no owner's row changes, but by an invite that looked the e-mail up *)
(* before its account changed it or before the member was removed.        *)
AccessJustified == [][AnswersJustified]_vars

ChangeKept(r) ==
    LET m == req[r].member
    IN  \/ prefs[m] # req[r].stored
        \/ \A k \in PreferenceKeys \ DOMAIN req[r].dto :
              WithDefaults(prefs'[m])[k] = WithDefaults(prefs[m])[k]

ChangesKept == \A r \in Requests : req[r].at = "merge" /\ req'[r] = Idle => ChangeKept(r)

(* A change of preferences keeps every preference that it does not name,  *)
(* unless another change was written since it read them.                  *)
PreferencesKept == [][ChangesKept]_vars
=============================================================================
