---------------------------- MODULE Subscription --------------------------
(***************************************************************************)
(* The subscription of one distributor: its trial, the status that the    *)
(* tenant guard brings up to date lazily on requests, the activation and  *)
(* cancellation script, and the daily purge of what was cancelled.        *)
(*                                                                         *)
(* Time is counted in days.  Each guard, script and purge run is a        *)
(* sequence of statements; subLock is the row lock of the activation's    *)
(* transaction on the subscription, tenantLock the purge's FOR UPDATE.    *)
(***************************************************************************)
EXTENDS Integers

CONSTANTS
    Guards,         \* requests of the distributor in their guard
    Scripts,        \* runs of scripts/subscription.ts, one command each
    Nobody,         \* no owner of a lock
    TrialDays,      \* TRIAL_DAYS
    MonthDays,      \* the length of a paid month; the calendar is left out
    GraceDays,      \* PAST_DUE_GRACE_DAYS
    RetentionDays,  \* DATA_RETENTION_DAYS
    Months,         \* how many months an activation may pay
    Horizon,        \* bound: the last day
    MaxFailures     \* bound: purge runs that fail for no reason of this model

ASSUME NobodyAssumption == Nobody \notin Scripts
ASSUME DaysAssumption ==
    /\ {TrialDays, MonthDays, RetentionDays} \subseteq Nat \ {0}
    /\ {GraceDays, Horizon, MaxFailures} \subseteq Nat
    /\ Months \subseteq Nat \ {0}

VARIABLES
    now,
    exists,      \* the tenant and its subscription have not been purged
    status, trialEndsAt, currentPeriodEnd, canceledAt,
    invoices,    \* how many invoices were recorded as paid
    guard,       \* each guard: where it is, the row it read, its verdict
    script,      \* each run: where it is, the period it read or computed
    subLock,
    job,         \* the purge run: where it is and its cutoff
    tenantLock,  \* the purge holds the tenant row
    failures,
    since        \* history: the day the present cancellation began

row == <<status, trialEndsAt, currentPeriodEnd, canceledAt>>
data == <<row, exists, invoices, since>>
vars == <<now, data, guard, script, subLock, job, tenantLock, failures>>

-----------------------------------------------------------------------------
NoDate == -1
Statuses == {"TRIAL", "ACTIVE", "PAST_DUE", "SUSPENDED", "CANCELED"}

Later(a, b) == IF a > b THEN a ELSE b

Overdue(periodEnd) == IF now < periodEnd + GraceDays THEN "PAST_DUE" ELSE "SUSPENDED"

(* Mutant: only an ACTIVE subscription falls due.                         *)
EffectiveIfActive(s, trialEnd, periodEnd) ==
    IF s = "TRIAL" THEN IF trialEnd <= now THEN "SUSPENDED" ELSE s
    ELSE IF s # "ACTIVE" \/ periodEnd = NoDate \/ periodEnd > now THEN s
    ELSE Overdue(periodEnd)

(* effectiveSubscriptionStatus, today: a trial ends, and a period that was *)
(* billed is past due until its grace ends.                               *)
EffectiveStatus(s, trialEnd, periodEnd) ==
    IF s = "TRIAL" THEN IF trialEnd <= now THEN "SUSPENDED" ELSE s
    ELSE IF s \notin {"ACTIVE", "PAST_DUE"} \/ periodEnd = NoDate \/ periodEnd > now THEN s
    ELSE Overdue(periodEnd)

IsReadOnly(s) == s \in {"SUSPENDED", "CANCELED"}

(* What has been paid for, or tried for free, has run out with its grace. *)
Lapsed(trialEnd, periodEnd) ==
    IF periodEnd = NoDate THEN trialEnd <= now ELSE periodEnd + GraceDays <= now

NoVerdict == [at |-> "idle"]
NoRun == [at |-> "idle"]
NoJob == [at |-> "idle"]

Init ==
    /\ now = 0
    /\ exists = TRUE
    /\ status = "TRIAL"
    /\ trialEndsAt = TrialDays
    /\ currentPeriodEnd = NoDate
    /\ canceledAt = NoDate
    /\ invoices = 0
    /\ guard = [g \in Guards |-> NoVerdict]
    /\ script = [s \in Scripts |-> NoRun]
    /\ subLock = Nobody
    /\ job = NoJob
    /\ tenantLock = FALSE
    /\ failures = 0
    /\ since = NoDate

Tick ==
    /\ now < Horizon
    /\ now' = now + 1
    /\ UNCHANGED <<data, guard, script, subLock, job, tenantLock, failures>>

-----------------------------------------------------------------------------
(* TenantGuard.canActivate: read the row, work out the status a moment    *)
(* later, and write it back if nobody changed the stored status.          *)
GuardGoto(g, v) == guard' = [guard EXCEPT ![g] = v]

GuardRead(g) ==
    /\ guard[g].at \in {"idle", "done"}
    /\ exists
    /\ GuardGoto(g, [at |-> "decide", status |-> status, trialEnd |-> trialEndsAt,
                     periodEnd |-> currentPeriodEnd,
                     lapsed |-> Lapsed(trialEndsAt, currentPeriodEnd)])
    /\ UNCHANGED <<now, data, script, subLock, job, tenantLock, failures>>

GuardDecide(g) ==
    LET v == guard[g]
        s == EffectiveStatus(v.status, v.trialEnd, v.periodEnd)
    IN  /\ v.at = "decide"
        /\ GuardGoto(g, [at |-> IF s = v.status THEN "done" ELSE "write",
                         status |-> v.status, effective |-> s,
                         lapsed |-> v.lapsed, readOnly |-> IsReadOnly(s)])
        /\ UNCHANGED <<now, data, script, subLock, job, tenantLock, failures>>

(* Mutant: UPDATE ... WHERE tenantId, whatever the status has become.     *)
GuardWriteAnyway(g) ==
    /\ guard[g].at = "write"
    /\ subLock = Nobody
    /\ status' = guard[g].effective
    /\ GuardGoto(g, [guard[g] EXCEPT !.at = "done"])
    /\ UNCHANGED <<now, exists, trialEndsAt, currentPeriodEnd, canceledAt, invoices,
                   script, subLock, job, tenantLock, failures, since>>

(* UPDATE ... WHERE tenantId AND status = the one read.                   *)
GuardWrite(g) ==
    /\ guard[g].at = "write"
    /\ exists => subLock = Nobody
    /\ status' = IF exists /\ status = guard[g].status THEN guard[g].effective ELSE status
    /\ GuardGoto(g, [guard[g] EXCEPT !.at = "done"])
    /\ UNCHANGED <<now, exists, trialEndsAt, currentPeriodEnd, canceledAt, invoices,
                   script, subLock, job, tenantLock, failures, since>>

(* The membership is gone when its last access is to be written.          *)
GuardFail(g) ==
    /\ guard[g].at = "decide"
    /\ ~exists
    /\ GuardGoto(g, NoVerdict)
    /\ UNCHANGED <<now, data, script, subLock, job, tenantLock, failures>>

-----------------------------------------------------------------------------
(* scripts/subscription.ts.  activate reads the subscription, computes    *)
(* the new period, then in one transaction updates the subscription and   *)
(* records the invoice, whose foreign key waits for the tenant row.       *)
ScriptGoto(s, v) == script' = [script EXCEPT ![s] = v]

ActivateFind(s, months) ==
    /\ script[s].at = "idle"
    /\ IF exists THEN ScriptGoto(s, [at |-> "compute", months |-> months,
                                     periodEnd |-> currentPeriodEnd])
                 ELSE ScriptGoto(s, [at |-> "done"])
    /\ UNCHANGED <<now, data, guard, subLock, job, tenantLock, failures>>

(* Mutant: the months count from today.                                   *)
ActivateComputeFromToday(s) ==
    LET v == script[s]
    IN  /\ v.at = "compute"
        /\ ScriptGoto(s, [at |-> "update", from |-> v.periodEnd,
                          months |-> v.months,
                          end |-> now + v.months * MonthDays])
        /\ UNCHANGED <<now, data, guard, subLock, job, tenantLock, failures>>

(* from and months are kept to state what was paid for.                   *)
ActivateCompute(s) ==
    LET v == script[s]
    IN  /\ v.at = "compute"
        /\ ScriptGoto(s, [at |-> "update", from |-> v.periodEnd,
                          months |-> v.months,
                          end |-> Later(v.periodEnd, now) + v.months * MonthDays])
        /\ UNCHANGED <<now, data, guard, subLock, job, tenantLock, failures>>

ActivateUpdate(s) ==
    /\ script[s].at = "update"
    /\ \/ /\ ~exists
          /\ ScriptGoto(s, [at |-> "done"])
          /\ UNCHANGED subLock
       \/ /\ exists
          /\ subLock = Nobody
          /\ subLock' = s
          /\ ScriptGoto(s, [script[s] EXCEPT !.at = "invoice"])
    /\ UNCHANGED <<now, data, guard, job, tenantLock, failures>>

ActivateCommit(s) ==
    /\ script[s].at = "invoice"
    /\ ~tenantLock
    /\ status' = "ACTIVE"
    /\ currentPeriodEnd' = script[s].end
    /\ canceledAt' = NoDate
    /\ since' = NoDate
    /\ invoices' = invoices + 1
    /\ subLock' = Nobody
    /\ ScriptGoto(s, [at |-> "done"])
    /\ UNCHANGED <<now, exists, trialEndsAt, guard, job, tenantLock, failures>>

ActivateAbort(s) ==
    /\ script[s].at = "invoice"
    /\ subLock' = Nobody
    /\ ScriptGoto(s, [at |-> "done"])
    /\ UNCHANGED <<now, data, guard, job, tenantLock, failures>>

CancelFind(s) ==
    /\ script[s].at = "idle"
    /\ exists
    /\ ScriptGoto(s, [at |-> "cancel"])
    /\ UNCHANGED <<now, data, guard, subLock, job, tenantLock, failures>>

CancelUpdate(s) ==
    /\ script[s].at = "cancel"
    /\ exists => subLock = Nobody
    /\ ScriptGoto(s, [at |-> "done"])
    /\ IF exists
         THEN /\ status' = "CANCELED"
              /\ canceledAt' = now
              /\ since' = IF status = "CANCELED" THEN since ELSE now
         ELSE UNCHANGED <<status, canceledAt, since>>
    /\ UNCHANGED <<now, exists, trialEndsAt, currentPeriodEnd, invoices, guard,
                   subLock, job, tenantLock, failures>>

-----------------------------------------------------------------------------
(* TenantPurgeProcessor.process: list what expired, then in a transaction *)
(* lock the tenant, look again, and delete.                               *)
Expired(cutoff) == exists /\ status = "CANCELED" /\ canceledAt <= cutoff

PurgeList ==
    LET cutoff == now - RetentionDays
    IN  /\ job.at = "idle"
        /\ Expired(cutoff)
        /\ job' = [at |-> "lock", cutoff |-> cutoff]
        /\ UNCHANGED <<now, data, guard, script, subLock, tenantLock, failures>>

(* Mutant: the tenant is locked without tx, for that statement only.      *)
PurgeLockAtOnce ==
    /\ job.at = "lock"
    /\ job' = [job EXCEPT !.at = "recheck"]
    /\ UNCHANGED <<now, data, guard, script, subLock, tenantLock, failures>>

PurgeLock ==
    /\ job.at = "lock"
    /\ job' = [job EXCEPT !.at = "recheck"]
    /\ tenantLock' = TRUE
    /\ UNCHANGED <<now, data, guard, script, subLock, failures>>

(* Mutant: what was listed is deleted.                                    *)
PurgeRecheckNot ==
    /\ job.at = "recheck"
    /\ job' = [job EXCEPT !.at = "delete"]
    /\ UNCHANGED <<now, data, guard, script, subLock, tenantLock, failures>>

PurgeRecheck ==
    /\ job.at = "recheck"
    /\ IF Expired(job.cutoff)
         THEN /\ job' = [job EXCEPT !.at = "delete"]
              /\ UNCHANGED tenantLock
         ELSE /\ job' = NoJob
              /\ tenantLock' = FALSE
    /\ UNCHANGED <<now, data, guard, script, subLock, failures>>

(* Mutant: the movements stay, and the foreign keys of their members      *)
(* refuse the delete.                                                     *)
PurgeDeleteRestricted ==
    /\ job.at = "delete"
    /\ subLock = Nobody
    /\ job' = NoJob
    /\ tenantLock' = FALSE
    /\ UNCHANGED <<now, data, guard, script, subLock, failures>>

(* The delete cascades to the subscription and waits for its row.         *)
PurgeDelete ==
    /\ job.at = "delete"
    /\ subLock = Nobody
    /\ exists' = FALSE
    /\ job' = NoJob
    /\ tenantLock' = FALSE
    /\ UNCHANGED <<now, row, invoices, since, guard, script, subLock, failures>>

PurgeRollback ==
    /\ job' = NoJob
    /\ tenantLock' = FALSE
    /\ UNCHANGED <<now, data, guard, script, subLock>>

PurgeFail ==
    /\ job.at # "idle"
    /\ failures < MaxFailures
    /\ failures' = failures + 1
    /\ PurgeRollback

(* The activation holds the subscription and waits for the tenant, the    *)
(* purge holds the tenant and waits for the subscription: Postgres aborts *)
(* one of the two.                                                        *)
Deadlocked(s) == script[s].at = "invoice" /\ job.at = "delete"

BreakDeadlock(s) ==
    /\ Deadlocked(s)
    /\ \/ ActivateAbort(s)
       \/ PurgeRollback /\ UNCHANGED failures

-----------------------------------------------------------------------------
GuardStep(g) == GuardRead(g) \/ GuardDecide(g) \/ GuardWrite(g) \/ GuardFail(g)

ScriptStep(s) ==
    \/ ActivateCompute(s) \/ ActivateUpdate(s) \/ ActivateCommit(s)
    \/ CancelUpdate(s)
    \/ BreakDeadlock(s)

ScriptCall(s) == CancelFind(s) \/ \E months \in Months : ActivateFind(s, months)

PurgeStep == PurgeList \/ PurgeLock \/ PurgeRecheck \/ PurgeDelete

Next ==
    \/ Tick
    \/ \E g \in Guards : GuardStep(g)
    \/ \E s \in Scripts : ScriptCall(s) \/ ScriptStep(s) \/ ActivateAbort(s)
    \/ PurgeStep \/ PurgeFail

Spec == Init /\ [][Next]_vars

(* The scheduler starts the purge every day, and a statement that can run *)
(* is run.  Strong fairness of the commit is the lock queue of Postgres:  *)
(* an insert that waits for the tenant row is served when it is freed.    *)
FairSpec ==
    /\ Spec
    /\ WF_vars(PurgeStep)
    /\ \A s \in Scripts : WF_vars(ScriptStep(s)) /\ SF_vars(ActivateCommit(s))

-----------------------------------------------------------------------------
TypeOK ==
    /\ now \in 0..Horizon
    /\ exists \in BOOLEAN /\ tenantLock \in BOOLEAN
    /\ status \in Statuses
    /\ trialEndsAt \in Int /\ currentPeriodEnd \in Int
    /\ canceledAt \in Int /\ since \in Int
    /\ invoices \in Nat /\ failures \in 0..MaxFailures
    /\ \A g \in Guards : guard[g].at \in {"idle", "decide", "write", "done"}
    /\ \A s \in Scripts :
          script[s].at \in {"idle", "compute", "update", "invoice", "cancel", "done"}
    /\ subLock \in Scripts \cup {Nobody}
    /\ \A s \in Scripts : script[s].at = "invoice" <=> subLock = s
    /\ job.at \in {"idle", "lock", "recheck", "delete"}
    /\ tenantLock <=> job.at \in {"recheck", "delete"}

Rank(s) ==
    IF s \in {"TRIAL", "ACTIVE"} THEN 0
    ELSE IF s = "PAST_DUE" THEN 1
    ELSE IF s = "SUSPENDED" THEN 2
    ELSE 3

(* Only a recorded payment improves a subscription.  In particular the    *)
(* late write of a guard never takes back a cancellation.                 *)
AccessImprovesOnlyByPayment ==
    [][Rank(status') < Rank(status) => invoices' > invoices]_vars

(* The deployment guide: an activation adds its months to the present     *)
(* period.  It does unless another activation was recorded since it read  *)
(* that period: then the months of one of the two are lost.               *)
MonthsAddUp ==
    [][\A s \in Scripts :
          script[s].at = "invoice" /\ invoices' > invoices /\ subLock = s =>
              \/ script[s].from # currentPeriodEnd
              \/ currentPeriodEnd' >=
                    Later(currentPeriodEnd, 0) + script[s].months * MonthDays]_vars

(* A distributor is deleted only after it has been cancelled, without a   *)
(* break, for the whole retention: an activation in time stops the purge  *)
(* even if that run had already listed the distributor.                   *)
PurgedOnlyAfterRetention ==
    [][exists /\ ~exists' =>
          status = "CANCELED" /\ now - since >= RetentionDays]_vars

(* A request whose guard reads a distributor with nothing left of what it *)
(* paid or tried is read-only, whatever status was stored by then.        *)
LapsedIsReadOnly ==
    \A g \in Guards :
        guard[g].at \in {"write", "done"} /\ guard[g].lapsed => guard[g].readOnly

(* What has been due for deletion does not stay: it is deleted, or the    *)
(* subscription is activated or cancelled again.                          *)
Due == Expired(now - RetentionDays)
DueIsPurged == Due ~> ~Due

(* The deployment guide: an activation leaves the subscription ACTIVE,    *)
(* and only a period that has run out suspends it.  The write of a guard  *)
(* that read the row before the activation compares nothing but the       *)
(* status, and suspends the period just paid.                             *)
PaidPeriodIsWritable ==
    status = "SUSPENDED" => currentPeriodEnd <= now
=============================================================================
