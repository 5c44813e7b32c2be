# debandeja-api: a TLA+ development

debandeja is a stock system for small beverage distributors. Its API (NestJS, Prisma
on Postgres, BullMQ on Redis) is a set of stateless processes: whatever can go
wrong between two requests goes wrong in the database, between the statements of
one request and those of another, or between a request and a job. This directory
models those statements, checks what they must keep true with TLC, and proves all of
it but the liveness with TLAPS, for every number of members, products, branches,
requests, workers and days.

Paths below are relative to `src/src/` unless they start with `docs/`, `prisma/`
or `scripts/`. Every definition that stands for code is listed with its lines in
`PROJECT.json` under `map`.

## 1. Inventory

| Component | State it keeps | Operations | Hard behaviour |
|---|---|---|---|
| Stock movements (`movements/`) | `stocks.current` per product and branch; `movements`, each with its quantity, the balance after it and the movement it cancels | create, reverse, list | optimistic update in a transaction, with retries; the double reversal; checks made before the transaction |
| Stock rows (`stock/`, `alerts/`) | one row per product and branch | open rows for a new product or branch; list, summary, alerts | rows opened on both sides at once; levels counted with conditions on both sides |
| Products (`products/`) | active products, limited by the plan; SKU | create, update, remove, duplicate, list | slots counted under a tenant lock, but an update that rests on an earlier read; a SKU worked out before the lock |
| Branches (`branches/`) | active branches, limited by the plan; the main one | create, update, remove | the last active branch; the last one a member has |
| Onboarding (`onboarding/`) | tenant, subscription on trial, owner, main branch | createCompany, createBranch | two first branches |
| Plan limits (`common/plan/plan-limits.ts`) | none; locks the tenant row | lockTenant, assertPlanAllows | the lock meets the key shares of inserts |
| Tenant guard and status (`common/tenant`, `common/plan`) | `subscriptions.status`, brought up to date lazily | canActivate | a late write of a status computed from an old row |
| Subscription script (`scripts/subscription.ts`) | status, period, plan, invoices | activate, cancel, show | a period computed before the transaction |
| Purge (`billing/purge`) | deletes a cancelled tenant after its retention | list, look again, delete | an activation in between; lock order |
| Team and invitations (`team/`, `invites/`) | memberships (role, status, branches, invite link) | invite, resend, update, remove, accept | seats; two uses of one link; an account found before the row is written |
| Accounts (`auth/`, `me/`) | user row with up to three links; sessions | register, login, Google, verify, reset, change of password and e-mail, refresh, logout | a link opened twice or after a newer one; a refresh token presented twice |
| Daily digest and mail queue (`notifications/`, `mail/`) | the digest job, one mail job per member and day | process, send | stalled jobs run twice; midnight; changes during a run |
| Permissions (`common/permissions`) | none: a constant table; the context lives in the request | PermissionsGuard, getContext | a handler acts on a context that is no longer true |
| Preferences (`me/`, `common/membership`) | one JSON value per member | updatePreferences, withDefaults | read, merged, written back |
| Dashboard (`dashboard/`) | none | summary | its own SQL for figures that other pages compute differently |
| Billing, company | none of their own | reads, one update | - |
| HTTP plumbing, mail templates | none | - | - |

The components meet in the database. Movements, products and branches share the
stock rows; products, branches and team share the lock on the tenant row; guard,
script and purge share the subscription; team, invitations and accounts share the
user row (a member's account, its e-mail); the digest reads what all the others
write. Redis holds the two queues. There are no callbacks and no shared memory.

The hazards this leads to are in `PROJECT.json` under `hazards`, each at the line
where it bites, with the properties that would show it going wrong.

## 2. Modules

| Module | Models | Composed with |
|---|---|---|
| `Ledger` | what the movement service promises: a balance and a journal per cell, posting, cancelling once | implemented by `StockLedger` |
| `StockLedger` | `movements.service.ts`, one action per statement | `Ledger`, through `INSTANCE` (`LedgerSpec`) |
| `LedgerProofs`, `StockLedgerProofs` | theorems | |
| `Sku` | the generation of SKUs, as operators on sequences of parts | extended by `Catalog` |
| `Catalog` | products, branches, onboarding of a branch, plan limits, SKUs, stock rows, with Postgres' row locks and unique index | `Sku` |
| `CatalogProofs` | theorems | |
| `Access` | the permission matrix, the routes' requirements, the tenant context, PermissionsGuard, branch scope | extended by `Workspace` |
| `Figures` | levels, totals, alerts, the dashboard's rows by branch, the products page's alert tab | extended by `Workspace` |
| `Workspace` | members' requests on stock, products, branches, team and preferences, from guard to handler | `Access`, `Figures` |
| `WorkspaceProofs` | theorems | |
| `Subscription`, `SubscriptionProofs` | guard, script and purge over time; theorems | |
| `Team`, `TeamProofs` | invitations and members, with accounts that register and change their e-mail; theorems | |
| `Accounts`, `AccountsProofs` | links and sessions of one account; theorems | |
| `Digest`, `DigestProofs` | the digest job, its workers and the mail queue; theorems | |
| `MC*` | the instances TLC checks | |

### StockLedger and Ledger

A request is `idle`, then goes through `read`, `update`, `insert` and `commit` to
`done`, as `applyStockChange` and the body of the transaction do: read the row,
write it if its balance is still the one read, insert the movement, commit. The
variables hold committed data; what a transaction has written is known from its
pc, and `rowLock` says which transaction has updated a row and not ended. A
conditional update waits for that lock and then decides on the committed row,
which is what Postgres does under READ COMMITTED; a miss goes back to `read`, at
most `MaxAttempts` times. `Reverse` takes quantity and cell from the original, and
the unique index on `reversesMovementId` acts at the insert. `Abort` ends a
transaction anywhere (timeout, lost connection, process). `Deactivate` and
`Reactivate` change a branch between the check and the transaction, and neither the main
branch (`MainBranches`) nor the last active one of its distributor is deactivated;
`EnsureStockForNewProduct` opens the rows a product starts with. Quantities are
bounded by `MaxInt`, the maximum of INT4: an update beyond it fails, as in Postgres.

`Ledger` knows nothing of requests. It has a balance and a journal per cell, and
its one interesting rule is that a movement is cancelled at most once, by the
opposite quantity, and that nothing cancels a cancellation.

### Catalog

Each call locks what its transaction locks, in its order: `LockTenant` is `SELECT ...
FOR UPDATE`, an insert by a transaction that has not locked the tenant takes its key
share (`ShareTenant`, `Sharers`), an update of a product holds its row (`Writers`),
and an inserted SKU holds up whoever inserts it again (`SkuHolders`). The SKU is
worked out when the call starts, before any lock, from what is committed;
`InsertProduct` refuses one that was taken meanwhile. The counting of slots, the
checks on the last branch and the opening of stock rows are actions of their own, so
that calls interleave between them. A history (`stale`, `early`) marks the two kinds
of products the code treats differently from what it says elsewhere (section 6); the
properties except exactly these.

`Sku` has a SKU as the sequence of its parts between dashes, and a part as an
integer: a number is itself, words come after all numbers, in their order.
`PartBefore` is the order of their texts, in which 1000 comes between 100 and 101;
it is that of a byte-wise collation. `GenerateSku` takes the last SKU of the family,
as the query does, and adds one to its last part, which gives `NaN` for a word.

### Access, Figures and Workspace

`Access` transcribes the matrix and what every controller requires. A context is a
role, the branches in scope (all of them where the code has `null`) and the read-only
flag; `Admits` is `PermissionsGuard.canActivate`.

`Workspace` has a request in two steps: `Guard` reads membership and subscription and
fixes the context, and one of the handlers takes effect later on the data of that
moment, but with the old context. Role, branches, membership and subscription change
in between, by other requests or from outside (`AcceptInvite`, `ChangeSubscription`),
and the history `stale` marks the requests whose member such a change concerned.
`AccessJustified` judges what a request changes by the rights its member has at that
moment (`RightsOf`), and only a stale one by the context it started with. A handler is
one step here: its own interleavings are what `StockLedger`, `Catalog` and `Team` are
for, and the limits of the plan are left to them. `UpdatePreferences` is two steps, a
read and a write, as in the code, and so is an invite: `Invite` looks the account up
and `InviteWrite` is its transaction, between which the account may confirm another
e-mail (`ConfirmEmailChange`) or lose its membership. The journal holds the movements of the dashboard's
period and forgets them in `Age`; `opening` is a history of the levels when the period
began, or, for a row opened in it, of its first level, which no movement records.

`Figures` states each page's query as the code has it: `Summary` and `Alerts` filter
operational rows one by one, `BranchRow` groups by branch with the two conditions in
two places, `StockByBranch` hides an inactive branch only when nothing is left in it,
`ProductLevel` compares a sum with a sum of minimums. `FiguresAgree` relates them.

### Subscription

Time is counted in days. The guard reads the row, computes the effective status
and writes it if the stored status is still the one it read, in three steps. The
script computes the new period before its transaction. The purge lists, locks the
tenant, looks again and deletes, and a delete waits for the subscription's row
lock while an activation's invoice waits for the tenant: `BreakDeadlock` is
Postgres choosing a victim.

### Team

`Invite` finds the account by e-mail before its transaction, and the transaction
locks the tenant, looks for a member of that e-mail, counts the seats and writes
the row; `Resend`, `Update` and `Remove` write a row they read before. `Accept` claims
the invitation by its link, looks the account up or makes a new one, writes it into
the row and commits. Accounts register and change their e-mail at any moment.

The statements take the locks that Postgres gives them. `DeleteRow` and `InsertRow` are
the branch rows of an update or an invite, one at a time: a delete waits for who has
deleted the row (`Deleters`), an insert for who has written a row of that branch
(`Writers`). When the insert is done, its foreign key shares the key of the membership
(`KeySharers`). `rowLock` is the membership's own lock: it does not keep shares of the
key out, but `AcceptBind`, which changes `userId`, a column of a unique key, waits for
every share. An update writes the membership last (`UpdateCommit`), an invite
(`InviteUpdate`) and an accept (`AcceptClaim`) first. `Waits` says who has what a
request is waiting for.

### Accounts

One account, with requests that are a read and a write each (`Look`, then
`...Write`), because the code compares hashes for a long time in between. A hash
in the row stands for the link whose secret it belongs to; a conditional update
compares it. `IssueTokens` ends login, verification and refresh. Transactions are
seen when they commit: their first statement holds the user row. `taken` are the
e-mails other accounts have; the unique index is a guard of the confirming write.

### Digest

A worker takes the job, lists tenants, then for each tenant the recipients, then
the news, then adds one mail job per recipient. `Stall` gives the job to another
worker while the first may still be at work, `Crash` ends a worker, `Fail` ends the
run, `Reprocess` is an operator, and members, tenants and stock change throughout.
`AddMail` is `queue.add` with a job id: nothing happens while a job has that id.
Completed jobs leave the queue after `Retention` days, failed ones stay. The code keeps
completed jobs for two days, and `BoundsAssumption` asks for no fewer: with one day a
job that waited overnight could finish its mails before eight, and a second run of
that day still find them gone after the next midnight (section 6).

## 3. Runs

Every run is in `PROJECT.json` with its properties; the numbers are distinct states.

| Run | States | Question |
|---|---|---|
| `stock_ledger` | 196,471 | Do three requests on one row, at statement granularity, keep the books and implement `Ledger`? |
| `stock_scopes` | 149,952 | Does every caller stay in its tenant and branches, and is every request answered? |
| `stock_inactive` | violation | Does an inactive branch receive no movement? |
| `catalog` | 272,061 | Do limits, stock rows, SKUs and the last branch survive four overlapping calls and changes of plan, and can somebody always go on? |
| `subscription` | 121,747 | Is a lapsed distributor read-only, is access only ever improved by payment, do activations add up, is the purge neither early nor stuck? |
| `subscription_paid` | violation | Is a paid period writable? |
| `team` | 258,518 | Do seats, places, accounts, links and branches hold under three overlapping requests, and which of them can lock each other? |
| `team_owner` | violation | Does the owner's membership stay as it is? |
| `digest` | 1,332,741 | At most one mail job a day, of the right day, to the right people, and to all of them? |
| `digest_preferences` | violation | Do alerts go only to those who want them? |
| `accounts` | 678,904 | Does a link take effect once and only the newest, and does one session go on from each sign-in? |
| `workspace` | 225,476 | Did a change of rights bind every request that it did not overtake, do the figures of four pages agree, do preferences stay? |

Bounds, and why they are enough:

- `stock_ledger`: one cell, because cells share nothing but the identifiers; three
  requests, the least that lets one be overtaken twice (`MaxAttempts = 2`, the code
  has 5) and lets an entry, its reversal and a rival meet; `Qtys = {1, 2}`,
  `MaxInt = 2` so that both ends of the range are reached. The proofs remove these
  bounds. `stock_scopes` and `stock_inactive` have two tenants, the first with two branches,
  of which one may be deactivated, and one caller of each kind: a manager of all
  branches, a seller of one and a clerk of none.
- `catalog`: three products, two branches, four calls; plans of one and two; two bases
  of SKUs, one longer than the other, with numbers in base 3 and room for one digit
  (`Radix`, `Limit`), so that copies, NaN and the end of the padding occur. A race for
  a slot needs two calls, a stale update three (remove, create, update), stock rows
  that cross two creations, an irregular base a creation, its copy and another
  creation.
- `workspace`: the owner and one member of any role, two branches, one product with a
  minimum of two and levels up to two, so that each level occurs; two requests, one of
  which can take away what the other was given; three writes (`MaxWrites`; an
  invite counts when it starts), the least that lets a branch be deactivated, its stock change and the figures be compared.
  `MCInit` starts with one piece in each row of a paid account; `WorkspaceProofs`
  has none of these bounds.
- `subscription`: trial, grace and retention of a day and months of two, so that
  each deadline passes within `Horizon = 5` days; two script runs and one guard.
- `team`: the owner, three rows and three e-mails, one branch, room for three members
  and one change of e-mail. One branch is enough for every circle of locks: two writers
  of one row, and a share of the key against a write of it.
- `digest`: two days, because a run may cross one midnight (a run ends before the next
  morning, which is a guard of `Morning`), and the third, on which the jobs of the
  first leave the queue while runs of the second may still be at work; runs that start
  on the third are not followed (`MCLastDay`). Two workers, one stall being forgiven;
  `Retention = 2` as in the code; two attempts for a mail (the code has three); one
  change of the world; one member of one tenant with two branches, and a tenant
  without members. `digest_preferences` has two days and `MaxChanges = 2`.
- `accounts`: two overlapping requests, two links (an older and a newer one), three
  sessions (a sign-in and two rotations), three e-mails, `MaxPasswords = 2`, one
  expiry or e-mail taken by others (`MaxOutside`).

`CHECK_DEADLOCK FALSE` stands in every configuration because requests are finite:
when all are answered and nothing is left to change, the system rests.

Each property has a mutant in `PROJECT.json`: a plausible mistake in the code (a
condition dropped from an update, a check without its lock, a count off by one)
under which TLC finds the property violated. The mutants are definitions beside the
ones they replace, marked as such.

## 4. Fairness

Safety needs none. Liveness is checked in two runs:

- `EveryRequestAnswered` (`stock_scopes`) assumes weak fairness of each request's own
  steps: Node continues a handler whose
  query was answered, and Postgres answers a statement that is not blocked. No
  request is assumed to arrive.
- `DueIsPurged` (`subscription`) assumes weak fairness of the purge, which the
  scheduler starts daily, and of a script's steps, and strong fairness of the
  commit of an activation: its invoice waits on a lock that the purge takes again
  and again, and Postgres grants row locks in the order of the queue. `MaxFailures`
  bounds the failures the model does not explain.

In `catalog` the question is asked without fairness, as a safety property:
`LocksNeverCycle` says that whenever calls are under way one of them is not blocked,
except in the deadlock of two SKUs (section 6). An abort does not count as going on. In
`team` it is asked of circles of waiting: `DeadlocksAreOfUpdates` says that each has an
update in it.

## 5. Proofs

`LedgerProofs!LedgerBooks`: the abstract ledger keeps its books for all constants.
The invariant says in addition that journals are chained, each entry beginning at
the balance the one before left.

`StockLedgerProofs` proves, for any products, branches, callers, requests,
quantities, `MaxInt` in `Nat` and `MaxAttempts` in `Nat \ {0}`:

- `TypeCorrect`, `AnswersAlwaysHold`, `CallersConfined`, `ConflictJustified`: the invariants the runs check;
- `ImplementsLedger`: every behaviour of the service is one of `Ledger`, every
  commit maps to a posting and everything else to a stutter;
- `BooksBalance`: the books, which follow from `ImplementsLedger` and `LedgerBooks`.

None of these is inductive. `IInv` is the conjunction of `TypeOK` and

- `LockInv`: a row is locked by exactly the request whose pc says so. Without it
  nothing keeps two requests from both being past the update.
- `OrderInv`: what a request carries is an order its caller may give, and each
  recorded movement is the effect of such an order. It makes the second half of
  `AnswersHold`, `EffectAsOrdered`, and `CallersKeepToTheirCells` inductive.
- `BalanceInv`: the balance a request checked is within the range, and once it holds
  the row it is the committed balance. This is why the conditional update suffices.
- `TargetInv`: the original of a reversal under way is in the journal with that
  quantity, and after the insert nothing else cancels it. This is the unique index.
- `AnswerInv`: success is answered for recorded movements and no others.
- `ContentionInv`: each failed attempt has a movement in the cell that came after the
  read, counted from when the request was accepted (the histories `seen`, `since`).

`OnlyReversalsInInactive` says how far the finding `stock_inactive` goes (below).

There is a lemma for each action, under it one step per conjunct the action can
disturb; `Invariance` puts them together. The assumptions used are those on the
constants, which TLC evaluates in the runs: null is not a request, quantities are
positive, `MaxInt` is a number, there is at least one attempt.

`WorkspaceProofs` proves, for any members, branches, products, requests and levels:

- of the permissions alone: `ContextTellsTheTruth` (what `GET /me/context` announces is
  what the guard admits), `ReadOnlyAccountOnlyReads` (over the table of routes),
  `TenantWideRoutesSeeAll` (team, branches, company and billing may ignore the caller's
  branches, because only members that see all of them get there);
- of the requests: `AccessAlwaysJustified` and `PreferencesAlwaysKept`.

Its `IInv` says that contexts, memberships, levels and preferences keep their types,
that an invite under way was admitted (`InvitesAdmitted`), and that the context of a
request which no change of rights has overtaken is what its member is entitled to now
(`ContextsFresh`). The last is what a change of rights could break: every action that
changes a membership or the subscription must mark the requests it overtakes. That
the owner stays the owner is not part of it, because it is not so: an invite whose
account has changed its e-mail rewrites whatever row it has (`Reinvites`, section 6),
and `AccessJustified` excepts exactly that. From it, `StepSound` shows of each
action that it keeps `IInv` and that its answer is justified. Rows that a product or
branch opens outside the scope start at 0, which is the one exception in `Justified`.
`TypeCorrect` needs more, `Shapes`: the history has the rows of the stock, and every
movement that is counted or can be cancelled is of a row there is.

`FiguresAlwaysAgree` proves `FiguresAgree`, for finite sets of products and branches.
Three of its parts compare the queries of one state, and need that a sum over rows is
the sum of its groups, that rows left out because they hold nothing do not count, and
that a sum reaches a bound only if something in it is positive (`CountOfGroups`,
`SumOfThoseShown`, `SumAtLeast`). The fourth, that the levels are what the movements of
the journal made of `opening`, is not a matter of one state: the sums agree because each
row does. `Reconciled` says so for each row, the count of every entry of the
journal included, and is inductive: a movement, its reversal, the new rows of a product
or branch and `Age` change a level and what explains it together. `AddUp` then sums
over the rows.

The lemmas on sums (`SumTakes`, `SumAdds`, `SumUnion`, `SumChanges`, `SumOfGroups`)
are proved of `FoldFunctionOnSet` itself. The induction over a finite set that they
need is `SubsetInduction`, stated of a set of its subsets and not of an operator, and
proved by a smallest counterexample.

### Catalog

`CatalogProofs` proves for any finite sets of products and branches, any requests,
bases and plans: `TypeCorrect`, `PairsAlwaysStocked`, `BranchesAlwaysAnchored`,
`SkuAlwaysFree`, `BranchSlotsHold` and `ProductSlotsHold`. `IInv` adds to the first
three

- `LockInv`: the tenant row is held by exactly the call whose phase says so, and then
  nobody has a share of it;
- `Counted`: the slots and active branches a call counted under that lock are still
  there when it commits. Plain updates (`stale`) are not counted, which is the finding
  of section 6 and the reason for the exception;
- `RowsFound`: what a call is about to open covers every pair its commit will ask for;
  this is why stock rows survive two creations that cross.

`SomebodyAlwaysGoesOn` says what `LocksNeverCycle` says, with the condition under which
each statement does not wait (`Unblocked`) in place of ENABLED. It follows the chain of
waiting: who waits for the tenant row waits for its holder or a sharer, who waits for a
SKU or a product row waits for whoever wrote it, and by `LockInv` each chain ends at a
call that waits for nothing, or in the deadlock of section 6. `StepsAreUnblocked` proves
that no step is taken without its condition; that the condition is enough for a step is
what TLC checks with ENABLED.

`NextSkuIsFree` needs no invariant but types. Its difficulty is arithmetic on texts:
that the last of the numbered SKUs, in the order of their texts, has the greatest
number as long as all have the same width (`Regular`). The order being total and
transitive is proved of its definition, and that a finite set has a last element by
taking a smallest subset without one (`FiniteTop`), because the induction theorems of
the library take an operator, which no prover here can instantiate.

### Team

`TeamProofs` proves `TypeCorrect`, `SeatsAlwaysWithinPlan`, `PlacesAlwaysHold` and
`InvitationsAlwaysHold` for any members, accounts, addresses, requests and plan. `Checked` is the heart: between its check and its commit
an invite holds the tenant row, and nothing else can add a seat or an address, because
an acceptance only turns a seat into a seat. It excepts accounts that changed their
e-mail, which take no lock. `Accepts` says that a claimed row is still INVITED with the
link's secret, which the row lock guarantees.

`OwnerStaysUntilMoved` says how far the finding `team_owner` goes (below). It needs
`OwnerSafe`: no request that may still write holds the owner's row, and no invite that
passed its check is for the owner's account. The check finds the owner's row by the
address under which the account was looked up (`OwnerAfterCheck`), and this one step
needs that the owner has not moved.

`ConfinedAlwaysHaveBranches` says who can leave a confined member without a branch:
nobody but an update that read another role than the one it finds when it commits
(`op.was`, which the code keeps for the notice of the change). `Chosen` is the part it
needs besides `IInv`: an invite for a confined role names a branch, and an update that
inserts none asks for ADMIN or keeps the role and has read ADMIN. Whoever inserts
branch rows commits them with the role (`Rewritten`), so only an update that inserts
none strands a member, and only where the role is no longer the one read.

`DeadlocksAlwaysOfUpdates` says that in every circle of requests that wait for each
other there is an update: without one, an accept that has claimed its row meets no
share of the key (`AcceptWaitsForUpdates`), an invite past its lock waits at most for
such an accept (`InviteWaits`), because the tenant's row keeps other invites out, and
the rest hold nothing while they wait (`OthersWait`). `SomebodyAlwaysGoesOn` is the same
seen from the other side: of requests without an update, one waits for no lock.

### Accounts

`AccountsProofs` proves `TypeCorrect`, `OneSession`, `LinksAlwaysHold`,
`EmailAlwaysConfirmed` and `NewPasswordAlwaysEndsSessions`. `LinkInv` says that a link
in the row is the newest of its kind and unused, `RequestInv` that a request that will
confirm an e-mail keeps it together with the link it was sent in, and `SessionInv` that
the right to go on from a sign-in is held by one live session or by one request that
rotated it, never by both. That last part makes `OneSessionPerSignIn` inductive.

### Digest

`DigestProofs` proves `TypeCorrect`, `OneMailJobAlways`, `OnlyTheDayBeforeAlways`,
`MailsAlwaysAllowed` and `CompletedAlwaysReachesAll` for any tenants, members, branches,
workers and days. Of each run `IInv` says that it is of today, or of yesterday and it is
not yet morning (`Timely`); that its histories cover what is true now (`Remembers`);
that every recipient is listed as it was at a moment of the run (`Listed`); and that
whoever is due has a mail, is listed for one, or belongs to a tenant still to come
(`Reaches`). Of each mail it says that its job has left the queue only when two
midnights have passed since its day (`MailOK`), when by `Timely` no run of that day can
be left: this is where two days of retention are needed. `Listed` also has that every
recipient wanted one of the two mails, from which `MailsAlwaysWanted` follows (below).

### Subscription

`SubscriptionProofs` proves `TypeCorrect`, `LapsedAlwaysReadOnly`, `AccessAlwaysPaid`,
`MonthsAlwaysAddUp` and `PurgedAlwaysAfterRetention` for any numbers of guards and
commands and any lengths of trial, month, grace and retention. `GuardOK`: the status a
guard is about to write is worse than the one it read, and the conditional update
compares that; `ScriptOK`: the new period counts from the end of the old one or later;
`JobOK`: at the delete the subscription is still as the second look saw it, because an
activation needs the tenant row that the purge holds.

`HoldersAlwaysGoOn`: whoever holds the row of the subscription or of the tenant is not
waiting, or waits for one that is not, or is in the deadlock that `BreakDeadlock` ends.
It is the part of `DueIsPurged` that needs no fairness.

### How far the findings go

The four violation runs show that something goes wrong; a theorem for each says when
it cannot. Each was checked with TLC, together with what makes it inductive, before it
was proved.

| Finding | Theorem | What it says |
|---|---|---|
| `stock_inactive` | `OnlyReversalsInInactive` | If no branch is deactivated while a creation in it is under way, only reversals are recorded in an inactive branch. |
| `subscription_paid` | `PaidAlwaysWritableUnlessOvertaken` | If no payment is recorded between the read and the write of a guard, a paid period is never suspended. |
| `team_owner` | `OwnerStaysUntilMoved` | As long as the owner has not confirmed a change of e-mail, the owner's row keeps its role and its status. |
| `digest_preferences` | `MailsAlwaysWanted` | Nobody is mailed who wanted neither the summary nor the alerts at any moment of the run. |

The first two speak of the behaviours in which a named step never happens (`Overtakes`),
as a premise `[][~Overtakes]_vars`. That leaves nearly everything in: branches are
still deactivated and subscriptions paid, at every other moment. `OnTime` and
`CreatesInActive` are what such behaviours keep in addition to `IInv`.

### What the theorems assume, and what is not proved

The only assumptions are the named ones on the constants, which TLC evaluates in the
runs. The bounds in the guards (`MaxInt`, `MaxLevel`, `MaxWrites`, `MaxPasswords`,
`MaxOutside`, `MaxDay`, `MaxChanges`, `Horizon`, `MaxEmailChanges`, `MaxFailures`) are
constants, so a theorem holds for each value of them. Two premises are in actions and
not constants: a digest run ends before the next morning (`Morning`), and a month has
`MonthDays` days. Each `IInv` was an invariant of a TLC run before it was proved.

Only model-checked: the liveness properties (`EveryRequestAnswered`, `DueIsPurged`) and
`LocksNeverCycle` in the form with ENABLED, because fairness and ENABLED are out of the
prover's reach. Every other property of a passing run is a theorem. That `Products` and
`Branches` are finite (`FiniteAssumption` in `Workspace`) is assumed for the sums alone.

## 6. What was found

- A reversal, or a creation overtaken by a deactivation, records a movement in an
  inactive branch (`stock_inactive`).
- The guard's conditional update compares the status alone: one that read a lapsed
  ACTIVE row writes SUSPENDED over an activation (`subscription_paid`).
- An invite that looked the owner up by the old e-mail overwrites the owner's role
  (`team_owner`).
- A member without "Alertas de estoque baixo" but with the summary gets the alerts
  (`digest_preferences`).
- Read off the code while modelling, without a run of their own: the plain product
  update reactivates a product that was removed meanwhile, with no slot and no rows;
  the main branch of the onboarding opens no stock rows; two activations lose months;
  two member updates leave a confined member without a branch; of two changes of
  preferences at once one is lost; the trial is 7 days and
  `docs/deploy.md` says 14. The properties of `Catalog` except the first two by name
  (`stale`, `early`), `MonthsAddUp` the third, `ConfinedHaveBranches` the fourth, an
  update that finds another role than it read, and `PreferencesKept` the fifth. These
  properties do not show that the exception goes right, but that nothing else goes wrong.
- After a product was duplicated, the next SKU of its base is `BASE-NaN`, and then no
  product of that category and name can be created any more; the same after the
  thousandth, and where a longer base begins with the same parts. `NextSkuIsFree`
  holds for the other bases (`Regular`).
- An active and an inactive creation that worked out the same SKU can lock each other,
  and Postgres aborts one (`SkuDeadlock`): an inactive creation does not take the
  tenant's lock, but its foreign key waits for it.
- An update of a member writes the branch rows first and the membership last, an accept
  and an invite of a known account write the membership first. An update and the
  acceptance of the same invitation, an update and an invite of the same member, or
  two updates can therefore lock each other; Postgres aborts one, and that request is
  answered with an internal error. `DeadlocksAreOfUpdates` says that only updates do
  this.
- An invite under way does not ask whose row it rewrites: if its account confirmed
  another e-mail, or its row was removed meanwhile, it may rewrite the owner's row, or
  that of the member who sent it. `AccessJustified` excepts exactly these (`Reinvites`).
- That the digest makes one mail job for a member and a day depends on completed jobs
  staying in Redis for more than a day: the second attempt at a digest that waited overnight can outlast the
  following midnight. The two days of `mail.service.ts` are enough (`OneMailJobAlways`),
  one would not be, although nothing in the code says that the two are connected. It is one job, not one
  mail: a send that fails after the server took the message is tried again, so the job
  may deliver up to three times. Nothing in the code guards against that.
- The alert tab of the products page counts the minimum of inactive branches, which
  neither the dashboard nor the alerts do. A first level given with a new product is
  not a movement, so the dashboard's change over the period does not include it.

## 7. Not modelled, and why

- Reads that only select: lists, billing, the latest movements. Their search, order
  and paging change nothing. A page's queries are taken at one moment; the dashboard
  sends its eight at once and may see a movement between them.
- `reserved` and `minStockOverride`: no code writes them. The minimum of a product is a
  constant in `Workspace`; the figures are compared in each state anyway.
- Names of branches and categories: identifiers in `Catalog`; the case-insensitive
  check of names against a case-sensitive index is a hazard without a property.
- Notifications to the team: mails without a key, which change no state.
- Access tokens: they are looked up by session at every request (`Validate`), so
  their own expiry changes nothing else. Rate limits, headers, templates: no state.
- Sign-in with Google has the one identity whose e-mail Google answers for; the
  refusals of other identities are left out.
- Calendar months: a month is `MonthDays` days.

## 8. Plan

Done: every component above with its runs, and the theorems of section 5.

Left, none of it needed by what stands:

1. An abstract specification of plan limits (a pool of slots, taken and given back)
   that `Catalog` and `Team` both implement, with the proofs of the two refinements
   from `Counted` and `Checked`.
2. The abstract mail queue (each key added at most once) that `Digest` implements.
