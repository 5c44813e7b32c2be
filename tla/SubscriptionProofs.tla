------------------------- MODULE SubscriptionProofs -------------------------
(***************************************************************************)
(* Theorems about Subscription, for any number of requests and commands    *)
(* and any lengths of the trial, the paid months, the grace and the        *)
(* retention: nothing but a payment improves the access, nobody is deleted *)
(* before the time, and what has run out is read-only.                     *)
(***************************************************************************)
EXTENDS Subscription, TLAPS

GuardStates ==
    [at : {"idle"}]
    \cup [at : {"decide"}, status : Statuses, trialEnd : Int, periodEnd : Int,
          lapsed : BOOLEAN]
    \cup [at : {"write", "done"}, status : Statuses, effective : Statuses,
          lapsed : BOOLEAN, readOnly : BOOLEAN]

ScriptStates ==
    [at : {"idle", "cancel", "done"}]
    \cup [at : {"compute"}, months : Months, periodEnd : Int]
    \cup [at : {"update", "invoice"}, from : Int, months : Months, end : Int]

JobStates == [at : {"idle"}] \cup [at : {"lock", "recheck", "delete"}, cutoff : Int]

Shapes ==
    /\ now \in Nat
    /\ guard \in [Guards -> GuardStates]
    /\ script \in [Scripts -> ScriptStates]
    /\ job \in JobStates

(* A trial has no period yet, a billed status has one, and a cancellation  *)
(* has a date.                                                             *)
RowOK ==
    /\ status = "TRIAL" => currentPeriodEnd = NoDate
    /\ status \in {"ACTIVE", "PAST_DUE"} => currentPeriodEnd # NoDate
    /\ status = "CANCELED" => since <= canceledAt /\ canceledAt <= now

(* What a guard read goes together, and the verdict it is about to write   *)
(* is worse than what it read.                                             *)
GuardOK(v) ==
    /\ v.at = "decide" =>
        /\ v.status = "TRIAL" => v.periodEnd = NoDate
        /\ v.status \in {"ACTIVE", "PAST_DUE"} => v.periodEnd # NoDate
        /\ v.lapsed => Lapsed(v.trialEnd, v.periodEnd)
    /\ v.at \in {"write", "done"} => (v.lapsed => v.readOnly)
    /\ v.at = "write" =>
        /\ v.status \in {"TRIAL", "ACTIVE", "PAST_DUE"}
        /\ v.effective \in {"PAST_DUE", "SUSPENDED"}
        /\ v.status # "ACTIVE" => v.effective = "SUSPENDED"

(* A run that computed the new period counted from the end of the one it   *)
(* read, or from a later day.                                              *)
ScriptOK(v) ==
    v.at \in {"update", "invoice"} =>
        v.end >= Later(v.from, 0) + v.months * MonthDays /\ v.end > 0

(* A purge that is about to delete has a distributor that was cancelled    *)
(* before its cutoff, and whose tenant row it holds.                       *)
JobOK ==
    /\ job.at # "idle" => job.cutoff + RetentionDays <= now
    /\ job.at = "delete" => status = "CANCELED" /\ since <= job.cutoff

IInv ==
    /\ TypeOK /\ Shapes /\ RowOK /\ JobOK
    /\ \A g \in Guards : GuardOK(guard[g])
    /\ \A s \in Scripts : ScriptOK(script[s])
-----------------------------------------------------------------------------
(* What each record holds, by where it is.                                 *)
LEMMA GuardFields ==
  ASSUME NEW v \in GuardStates
  PROVE  /\ v.at \in {"idle", "decide", "write", "done"}
         /\ v.at = "decide" =>
              /\ v.status \in Statuses /\ v.trialEnd \in Int /\ v.periodEnd \in Int
              /\ v.lapsed \in BOOLEAN
         /\ v.at \in {"write", "done"} =>
              v \in [at : {"write", "done"}, status : Statuses, effective : Statuses,
                     lapsed : BOOLEAN, readOnly : BOOLEAN]
BY DEF GuardStates

LEMMA ScriptFields ==
  ASSUME NEW v \in ScriptStates
  PROVE  /\ v.at \in {"idle", "cancel", "done", "compute", "update", "invoice"}
         /\ v.at = "compute" => v.months \in Months /\ v.periodEnd \in Int
         /\ v.at \in {"update", "invoice"} =>
              v \in [at : {"update", "invoice"}, from : Int, months : Months, end : Int]
BY DEF ScriptStates

LEMMA JobFields ==
  ASSUME NEW v \in JobStates
  PROVE  /\ v.at \in {"idle", "lock", "recheck", "delete"}
         /\ v.at # "idle" => v \in [at : {"lock", "recheck", "delete"}, cutoff : Int]
BY DEF JobStates

(* The status of today: what lapsed is suspended, and only what was billed *)
(* or on trial is changed, for the worse.                                  *)
LEMMA StatusOfToday ==
  ASSUME NEW s \in Statuses, NEW t \in Int, NEW p \in Int, now \in Nat,
         s = "TRIAL" => p = NoDate, s \in {"ACTIVE", "PAST_DUE"} => p # NoDate
  PROVE  /\ EffectiveStatus(s, t, p) \in Statuses
         /\ Lapsed(t, p) => IsReadOnly(EffectiveStatus(s, t, p))
         /\ EffectiveStatus(s, t, p) # s =>
              /\ s \in {"TRIAL", "ACTIVE", "PAST_DUE"}
              /\ EffectiveStatus(s, t, p) \in {"PAST_DUE", "SUSPENDED"}
              /\ s # "ACTIVE" => EffectiveStatus(s, t, p) = "SUSPENDED"
BY DaysAssumption DEF EffectiveStatus, Overdue, Lapsed, IsReadOnly, Statuses, NoDate

(* Time only makes things lapse.                                           *)
LEMMA LapseStays ==
  ASSUME NEW t \in Int, NEW p \in Int, now \in Nat, now' \in Nat, now <= now', Lapsed(t, p)
  PROVE  Lapsed(t, p)'
BY DaysAssumption DEF Lapsed, NoDate
-----------------------------------------------------------------------------
LEMMA InitHolds == Init => IInv
<1> SUFFICES ASSUME Init PROVE IInv
  OBVIOUS
<1> USE NobodyAssumption, DaysAssumption
<1>1. [at |-> "idle"] \in GuardStates /\ [at |-> "idle"] \in ScriptStates /\ [at |-> "idle"] \in JobStates
  BY DEF GuardStates, ScriptStates, JobStates
<1>2. Shapes
  BY <1>1 DEF Shapes, Init, NoVerdict, NoRun, NoJob
<1>3. TypeOK
  <2>1. exists \in BOOLEAN /\ tenantLock \in BOOLEAN
    BY Zenon DEF Init
  <2>2. now \in 0..Horizon /\ failures \in 0..MaxFailures
    BY DEF Init
  <2> QED
    BY <2>1, <2>2 DEF TypeOK, Init, Statuses, NoDate, NoVerdict, NoRun, NoJob
<1>4. RowOK /\ JobOK
  BY DEF Init, RowOK, JobOK, NoJob
<1>5. (\A g \in Guards : GuardOK(guard[g])) /\ \A s \in Scripts : ScriptOK(script[s])
  BY DEF Init, GuardOK, ScriptOK, NoVerdict, NoRun
<1> QED
  BY <1>2, <1>3, <1>4, <1>5 DEF IInv
-----------------------------------------------------------------------------
(* What time and the row have to do with what a guard read.                *)
LEMMA GuardStays ==
  ASSUME NEW v \in GuardStates, GuardOK(v), now \in Nat, now' \in Nat, now <= now'
  PROVE  GuardOK(v)'
<1>1. v.at = "decide" => v.trialEnd \in Int /\ v.periodEnd \in Int
  BY GuardFields
<1>2. v.at = "decide" /\ v.lapsed => Lapsed(v.trialEnd, v.periodEnd)'
  BY <1>1, LapseStays DEF GuardOK
<1> QED
  BY <1>2 DEF GuardOK

LEMMA TickHolds == IInv /\ Tick => IInv'
<1> SUFFICES ASSUME IInv, Tick PROVE IInv'
  OBVIOUS
<1> USE DaysAssumption
<1>1. now \in Nat /\ now' \in Nat /\ now <= now' /\ now' \in 0..Horizon
  BY DEF IInv, Shapes, TypeOK, Tick
<1>2. Shapes' /\ TypeOK'
  BY <1>1 DEF IInv, Shapes, TypeOK, Tick, data, row
<1>3. RowOK'
  BY <1>1 DEF IInv, TypeOK, RowOK, Tick, data, row
<1>4. JobOK'
  BY <1>1, JobFields DEF IInv, Shapes, JobOK, Tick, data, row
<1>5. \A g \in Guards : GuardOK(guard[g])'
  BY <1>1, GuardStays DEF IInv, Shapes, Tick
<1>6. \A s \in Scripts : ScriptOK(script[s])'
  BY DEF IInv, ScriptOK, Tick
<1> QED
  BY <1>2, <1>3, <1>4, <1>5, <1>6, Zenon DEF IInv, Tick
-----------------------------------------------------------------------------
(* A step of guard g, which may write the status.                          *)
LEMMA GuardStepHolds ==
  ASSUME IInv, NEW g \in Guards, NEW v \in GuardStates, GuardGoto(g, v), GuardOK(v),
         UNCHANGED <<now, exists, trialEndsAt, currentPeriodEnd, canceledAt, since, invoices,
                     script, subLock, job, tenantLock, failures>>,
         status' \in Statuses, RowOK', JobOK'
  PROVE  IInv'
<1>1. guard' = [guard EXCEPT ![g] = v]
  BY DEF GuardGoto
<1>2. Shapes'
  BY <1>1 DEF IInv, Shapes
<1>3. \A h \in Guards : guard'[h].at \in {"idle", "decide", "write", "done"}
  BY <1>2, GuardFields DEF Shapes
<1>4. TypeOK'
  BY <1>3 DEF IInv, TypeOK
<1>5. \A h \in Guards : guard'[h] = IF h = g THEN v ELSE guard[h]
  BY <1>1 DEF IInv, Shapes
<1>6. \A h \in Guards : GuardOK(guard'[h]) /\ guard'[h] \in GuardStates
  BY <1>2, <1>5 DEF IInv, Shapes
<1>7. now \in Nat /\ now' = now
  BY DEF IInv, Shapes
<1>8. \A h \in Guards : GuardOK(guard[h])'
  BY <1>6, <1>7 DEF GuardOK, Lapsed
<1>9. \A s \in Scripts : ScriptOK(script[s])'
  BY DEF IInv, ScriptOK
<1> QED
  BY <1>2, <1>4, <1>8, <1>9 DEF IInv

LEMMA GuardReadHolds == ASSUME IInv, NEW g \in Guards, GuardRead(g) PROVE IInv'
<1> DEFINE v == [at |-> "decide", status |-> status, trialEnd |-> trialEndsAt,
                 periodEnd |-> currentPeriodEnd,
                 lapsed |-> Lapsed(trialEndsAt, currentPeriodEnd)]
<1>1. GuardGoto(g, v) /\ UNCHANGED <<now, data, script, subLock, job, tenantLock, failures>>
  BY DEF GuardRead
<1>2. v \in GuardStates
  <2>1. Lapsed(trialEndsAt, currentPeriodEnd) \in BOOLEAN
    <3>1. (trialEndsAt <= now) \in BOOLEAN /\ (currentPeriodEnd + GraceDays <= now) \in BOOLEAN
      OBVIOUS
    <3> QED
      BY <3>1, Zenon DEF Lapsed
  <2> QED
    BY <2>1 DEF GuardStates, IInv, TypeOK
<1>3. GuardOK(v)
  BY DEF GuardOK, IInv, RowOK
<1>4. status' \in Statuses /\ RowOK' /\ JobOK'
  BY <1>1 DEF IInv, TypeOK, RowOK, JobOK, data, row
<1> HIDE DEF v
<1> QED
  BY <1>1, <1>2, <1>3, <1>4, GuardStepHolds DEF data, row

LEMMA GuardDecideHolds == ASSUME IInv, NEW g \in Guards, GuardDecide(g) PROVE IInv'
<1> DEFINE u == guard[g]
           e == EffectiveStatus(u.status, u.trialEnd, u.periodEnd)
           at == IF e = u.status THEN "done" ELSE "write"
           ro == IsReadOnly(e)
           v == [at |-> at, status |-> u.status, effective |-> e,
                 lapsed |-> u.lapsed, readOnly |-> ro]
<1>1. /\ u \in GuardStates /\ GuardOK(u) /\ u.at = "decide" /\ now \in Nat
      /\ UNCHANGED <<now, data, script, subLock, job, tenantLock, failures>>
  BY DEF IInv, Shapes, GuardDecide
<1>2. GuardGoto(g, v)
  BY DEF GuardDecide
<1>3. u.status \in Statuses /\ u.trialEnd \in Int /\ u.periodEnd \in Int /\ u.lapsed \in BOOLEAN
  BY <1>1, GuardFields
<1>4. /\ e \in Statuses /\ (u.lapsed => IsReadOnly(e))
      /\ e # u.status =>
           /\ u.status \in {"TRIAL", "ACTIVE", "PAST_DUE"}
           /\ e \in {"PAST_DUE", "SUSPENDED"}
           /\ u.status # "ACTIVE" => e = "SUSPENDED"
  BY <1>1, <1>3, StatusOfToday DEF GuardOK
<1> HIDE DEF e
<1>5. at \in {"write", "done"} /\ ro \in BOOLEAN /\ (at = "write" => e # u.status)
  BY DEF IsReadOnly
<1>6. u.lapsed => ro
  BY <1>4
<1> HIDE DEF at, ro
<1>7. v \in GuardStates
  <2>1. v \in [at : {"write", "done"}, status : Statuses, effective : Statuses,
               lapsed : BOOLEAN, readOnly : BOOLEAN]
    <3> HIDE DEF u
    <3> QED
      BY <1>3, <1>4, <1>5, Zenon
  <2> QED
    BY <2>1, Zenon DEF GuardStates
<1>8. GuardOK(v)
  <2>1. v.at = at /\ v.status = u.status /\ v.effective = e /\ (v.lapsed => v.readOnly)
    BY <1>6
  <2> HIDE DEF v
  <2> QED
    BY <1>4, <1>5, <2>1 DEF GuardOK
<1>9. status' \in Statuses /\ RowOK' /\ JobOK'
  BY <1>1 DEF IInv, TypeOK, RowOK, JobOK, data, row
<1> HIDE DEF u, v
<1> QED
  BY <1>1, <1>2, <1>7, <1>8, <1>9, GuardStepHolds DEF data, row

(* The write of a verdict: the status is still the one that was read, so   *)
(* what was not billed is not past due, and no cancellation is undone.     *)
LEMMA GuardWriteHolds == ASSUME IInv, NEW g \in Guards, GuardWrite(g) PROVE IInv'
<1> DEFINE u == guard[g]
           v == [u EXCEPT !.at = "done"]
<1>1. /\ u \in GuardStates /\ GuardOK(u) /\ u.at = "write" /\ GuardGoto(g, v)
      /\ status' = IF exists /\ status = u.status THEN u.effective ELSE status
      /\ UNCHANGED <<now, exists, trialEndsAt, currentPeriodEnd, canceledAt, invoices,
                     script, subLock, job, tenantLock, failures, since>>
  BY DEF IInv, Shapes, GuardWrite
<1>2. v \in GuardStates /\ v.at = "done" /\ v.lapsed = u.lapsed /\ v.readOnly = u.readOnly
  BY <1>1, GuardFields DEF GuardStates
<1>3. GuardOK(v)
  BY <1>1, <1>2 DEF GuardOK
<1>4. status' \in Statuses
  BY <1>1 DEF GuardOK, IInv, TypeOK, Statuses
<1>5. RowOK' /\ JobOK'
  BY <1>1 DEF GuardOK, IInv, RowOK, JobOK
<1> HIDE DEF u, v
<1> QED
  BY <1>1, <1>2, <1>3, <1>4, <1>5, GuardStepHolds

LEMMA GuardFailHolds == ASSUME IInv, NEW g \in Guards, GuardFail(g) PROVE IInv'
<1>1. NoVerdict \in GuardStates /\ GuardOK(NoVerdict)
  BY DEF NoVerdict, GuardStates, GuardOK
<1>2. status' \in Statuses /\ RowOK' /\ JobOK'
  BY DEF IInv, TypeOK, RowOK, JobOK, data, row, GuardFail
<1> QED
  BY <1>1, <1>2, GuardStepHolds DEF data, row, GuardFail
-----------------------------------------------------------------------------
(* A step of command s: it takes the subscription, leaves it, or neither.  *)
LEMMA ScriptStepHolds ==
  ASSUME IInv, NEW s \in Scripts, NEW v \in ScriptStates, ScriptGoto(s, v), ScriptOK(v),
         UNCHANGED <<now, exists, trialEndsAt, guard, job, tenantLock, failures>>,
         status' \in Statuses, currentPeriodEnd' \in Int, canceledAt' \in Int, since' \in Int,
         invoices' \in Nat, RowOK', JobOK',
         \/ subLock' = subLock /\ (v.at = "invoice" <=> subLock = s)
         \/ subLock = Nobody /\ subLock' = s /\ v.at = "invoice"
         \/ subLock = s /\ subLock' = Nobody /\ v.at # "invoice"
  PROVE  IInv'
<1> USE NobodyAssumption
<1>1. script' = [script EXCEPT ![s] = v]
  BY DEF ScriptGoto
<1>2. Shapes'
  BY <1>1 DEF IInv, Shapes
<1>3. \A r \in Scripts : script'[r] = IF r = s THEN v ELSE script[r]
  BY <1>1 DEF IInv, Shapes
<1>4. \A r \in Scripts :
        script'[r].at \in {"idle", "compute", "update", "invoice", "cancel", "done"}
  BY <1>2, ScriptFields DEF Shapes
<1>5. /\ subLock' \in Scripts \cup {Nobody}
      /\ \A r \in Scripts : script'[r].at = "invoice" <=> subLock' = r
  BY <1>3 DEF IInv, TypeOK
<1>6. TypeOK'
  BY <1>4, <1>5 DEF IInv, TypeOK
<1>7. \A r \in Scripts : ScriptOK(script[r])'
  BY <1>3 DEF IInv, ScriptOK, Later
<1>8. \A g \in Guards : GuardOK(guard[g])'
  BY GuardStays DEF IInv, Shapes
<1> QED
  BY <1>2, <1>6, <1>7, <1>8 DEF IInv

LEMMA ActivateFindHolds ==
  ASSUME IInv, NEW s \in Scripts, NEW months \in Months, ActivateFind(s, months) PROVE IInv'
<1> USE NobodyAssumption
<1>1. PICK v \in {[at |-> "compute", months |-> months, periodEnd |-> currentPeriodEnd],
                  [at |-> "done"]} : ScriptGoto(s, v)
  BY DEF ActivateFind
<1>2. v \in ScriptStates /\ v.at # "invoice" /\ ScriptOK(v)
  BY <1>1 DEF ScriptStates, ScriptOK, IInv, TypeOK
<1>3. /\ UNCHANGED <<now, data, guard, subLock, job, tenantLock, failures>>
      /\ subLock # s /\ invoices \in Nat /\ RowOK' /\ JobOK'
  BY DEF ActivateFind, IInv, TypeOK, RowOK, JobOK, data, row
<1> QED
  BY <1>2, <1>1, <1>3, ScriptStepHolds DEF data, row, IInv, TypeOK

(* The new end of the period.                                              *)
LEMMA NewPeriod ==
  ASSUME NEW p \in Int, NEW n \in Months, now \in Nat
  PROVE  /\ Later(p, now) + n * MonthDays \in Int
         /\ Later(p, now) + n * MonthDays >= Later(p, 0) + n * MonthDays
         /\ Later(p, now) + n * MonthDays > 0
<1> DEFINE d == n * MonthDays
<1>1. d \in Nat \ {0}
  <2>1. n \in Nat \ {0} /\ MonthDays \in Nat \ {0}
    BY DaysAssumption
  <2> QED
    BY <2>1
<1> HIDE DEF d
<1>2. Later(p, now) \in Nat /\ Later(p, 0) \in Nat /\ Later(p, now) >= Later(p, 0)
  BY DEF Later
<1>3. Later(p, now) + d \in Int /\ Later(p, now) + d >= Later(p, 0) + d /\ Later(p, now) + d > 0
  BY <1>1, <1>2
<1> QED
  BY <1>3 DEF d

LEMMA ActivateComputeHolds == ASSUME IInv, NEW s \in Scripts, ActivateCompute(s) PROVE IInv'
<1> DEFINE u == script[s]
           end == Later(u.periodEnd, now) + u.months * MonthDays
           v == [at |-> "update", from |-> u.periodEnd, months |-> u.months, end |-> end]
<1>1. /\ u \in ScriptStates /\ u.at = "compute" /\ ScriptGoto(s, v) /\ now \in Nat
      /\ UNCHANGED <<now, data, guard, subLock, job, tenantLock, failures>>
  BY DEF ActivateCompute, IInv, Shapes
<1>2. u.months \in Months /\ u.periodEnd \in Int
  BY <1>1, ScriptFields
<1>3. end \in Int /\ end >= Later(u.periodEnd, 0) + u.months * MonthDays /\ end > 0
  BY <1>1, <1>2, NewPeriod
<1> HIDE DEF end
<1>4. v \in ScriptStates
  BY <1>2, <1>3 DEF ScriptStates
<1>5. v.at = "update" /\ ScriptOK(v)
  BY <1>3 DEF ScriptOK
<1>6. subLock # s /\ invoices \in Nat /\ RowOK' /\ JobOK'
  BY <1>1 DEF IInv, TypeOK, RowOK, JobOK, data, row
<1> HIDE DEF u, v
<1> QED
  BY <1>1, <1>4, <1>5, <1>6, ScriptStepHolds DEF data, row, IInv, TypeOK, u

LEMMA ActivateUpdateHolds == ASSUME IInv, NEW s \in Scripts, ActivateUpdate(s) PROVE IInv'
<1> USE NobodyAssumption
<1>1. /\ script[s] \in ScriptStates /\ script[s].at = "update" /\ ScriptOK(script[s])
      /\ subLock # s /\ invoices \in Nat /\ RowOK' /\ JobOK'
      /\ UNCHANGED <<now, data, guard, job, tenantLock, failures>>
  BY DEF ActivateUpdate, IInv, Shapes, TypeOK, RowOK, JobOK, data, row
<1>2. CASE ScriptGoto(s, [at |-> "done"]) /\ UNCHANGED subLock
  <2> DEFINE v == [at |-> "done"]
  <2>1. v \in ScriptStates /\ v.at = "done" /\ ScriptOK(v)
    BY DEF ScriptStates, ScriptOK
  <2>2. ScriptGoto(s, v)
    BY <1>2
  <2> HIDE DEF v
  <2> QED
    BY <1>1, <1>2, <2>1, <2>2, ScriptStepHolds DEF data, row, IInv, TypeOK
<1>3. CASE subLock = Nobody /\ subLock' = s /\ ScriptGoto(s, [script[s] EXCEPT !.at = "invoice"])
  <2> DEFINE v == [script[s] EXCEPT !.at = "invoice"]
  <2>1. /\ v \in [at : {"update", "invoice"}, from : Int, months : Months, end : Int]
        /\ v.at = "invoice" /\ v.from = script[s].from /\ v.end = script[s].end
        /\ v.months = script[s].months
    BY <1>1, ScriptFields
  <2>2. ScriptGoto(s, v)
    BY <1>3
  <2> HIDE DEF v
  <2>3. v \in ScriptStates /\ ScriptOK(v)
    BY <1>1, <2>1 DEF ScriptStates, ScriptOK
  <2> QED
    BY <1>1, <1>3, <2>1, <2>2, <2>3, ScriptStepHolds DEF data, row, IInv, TypeOK
<1> QED
  BY <1>2, <1>3 DEF ActivateUpdate

(* The commit waits for the tenant row, so no purge is about to delete.    *)
LEMMA ActivateCommitHolds == ASSUME IInv, NEW s \in Scripts, ActivateCommit(s) PROVE IInv'
<1> USE NobodyAssumption
<1> DEFINE v == [at |-> "done"]
<1>1. v \in ScriptStates /\ v.at = "done" /\ ScriptOK(v)
  BY DEF ScriptStates, ScriptOK
<1>2. /\ script[s] \in ScriptStates /\ script[s].at = "invoice" /\ ScriptOK(script[s])
      /\ subLock = s /\ ~ tenantLock /\ invoices \in Nat
      /\ status' = "ACTIVE" /\ currentPeriodEnd' = script[s].end
      /\ canceledAt' = NoDate /\ since' = NoDate /\ invoices' = invoices + 1
      /\ subLock' = Nobody /\ ScriptGoto(s, v)
      /\ UNCHANGED <<now, exists, trialEndsAt, guard, job, tenantLock, failures>>
  BY DEF ActivateCommit, IInv, Shapes, TypeOK
<1>3. script[s].end \in Int /\ script[s].end > 0
  BY <1>2, ScriptFields DEF ScriptOK
<1>4. RowOK'
  BY <1>2, <1>3 DEF RowOK, NoDate
<1>5. JobOK'
  BY <1>2 DEF JobOK, IInv, TypeOK
<1>6. status' \in Statuses /\ canceledAt' \in Int /\ since' \in Int /\ invoices' \in Nat
  BY <1>2 DEF Statuses, NoDate
<1> HIDE DEF v
<1> QED
  BY <1>1, <1>2, <1>3, <1>4, <1>5, <1>6, ScriptStepHolds

LEMMA ActivateAbortHolds == ASSUME IInv, NEW s \in Scripts, ActivateAbort(s) PROVE IInv'
<1> USE NobodyAssumption
<1> DEFINE v == [at |-> "done"]
<1>1. v \in ScriptStates /\ v.at = "done" /\ ScriptOK(v)
  BY DEF ScriptStates, ScriptOK
<1>2. /\ subLock = s /\ subLock' = Nobody /\ ScriptGoto(s, v)
      /\ UNCHANGED <<now, data, guard, job, tenantLock, failures>>
      /\ RowOK' /\ JobOK'
  BY DEF ActivateAbort, IInv, TypeOK, RowOK, JobOK, data, row
<1> HIDE DEF v
<1> QED
  BY <1>1, <1>2, ScriptStepHolds DEF data, row, IInv, TypeOK

LEMMA CancelFindHolds == ASSUME IInv, NEW s \in Scripts, CancelFind(s) PROVE IInv'
<1> USE NobodyAssumption
<1> DEFINE v == [at |-> "cancel"]
<1>1. v \in ScriptStates /\ v.at = "cancel" /\ ScriptOK(v)
  BY DEF ScriptStates, ScriptOK
<1>2. /\ subLock # s /\ ScriptGoto(s, v) /\ RowOK' /\ JobOK'
      /\ UNCHANGED <<now, data, guard, subLock, job, tenantLock, failures>>
  BY DEF CancelFind, IInv, TypeOK, RowOK, JobOK, data, row
<1> HIDE DEF v
<1> QED
  BY <1>1, <1>2, ScriptStepHolds DEF data, row, IInv, TypeOK

(* A second cancellation moves canceledAt, but not the day since when.     *)
LEMMA CancelUpdateHolds == ASSUME IInv, NEW s \in Scripts, CancelUpdate(s) PROVE IInv'
<1> USE NobodyAssumption
<1> DEFINE v == [at |-> "done"]
<1>1. v \in ScriptStates /\ v.at = "done" /\ ScriptOK(v)
  BY DEF ScriptStates, ScriptOK
<1>2. /\ subLock # s /\ subLock' = subLock /\ ScriptGoto(s, v) /\ invoices \in Nat /\ now \in Nat
      /\ \/ status' = "CANCELED" /\ canceledAt' = now
            /\ since' = IF status = "CANCELED" THEN since ELSE now
         \/ UNCHANGED <<status, canceledAt, since>>
      /\ UNCHANGED <<now, exists, trialEndsAt, currentPeriodEnd, invoices, guard, job,
                     tenantLock, failures>>
  BY DEF CancelUpdate, IInv, TypeOK, Shapes
<1>3. RowOK' /\ JobOK'
  BY <1>2 DEF IInv, TypeOK, RowOK, JobOK
<1>4. status' \in Statuses /\ canceledAt' \in Int /\ since' \in Int
  BY <1>2 DEF IInv, TypeOK, Statuses
<1> HIDE DEF v
<1> QED
  BY <1>1, <1>2, <1>3, <1>4, ScriptStepHolds DEF IInv, TypeOK
-----------------------------------------------------------------------------
(* A step of the purge, which writes no row of the subscription.           *)
LEMMA PurgeStepHolds ==
  ASSUME IInv, job' \in JobStates, exists' \in BOOLEAN, tenantLock' \in BOOLEAN,
         tenantLock' <=> job'.at \in {"recheck", "delete"}, failures' \in 0..MaxFailures,
         UNCHANGED <<now, row, invoices, since, guard, script, subLock>>, JobOK'
  PROVE  IInv'
<1>1. Shapes' /\ RowOK'
  BY DEF IInv, Shapes, RowOK, row
<1>2. TypeOK'
  BY JobFields DEF IInv, TypeOK, row
<1>3. \A g \in Guards : GuardOK(guard[g])'
  BY GuardStays DEF IInv, Shapes
<1>4. \A s \in Scripts : ScriptOK(script[s])'
  BY DEF IInv, ScriptOK, Later
<1> QED
  BY <1>1, <1>2, <1>3, <1>4 DEF IInv

(* What is deleted expired at the cutoff when it was looked at again, and  *)
(* was cancelled no later than the date of its last cancellation.          *)
LEMMA PurgeHolds == IInv /\ PurgeStep => IInv'
<1> SUFFICES ASSUME IInv, PurgeStep PROVE IInv'
  OBVIOUS
<1> USE DaysAssumption
<1>1. /\ now \in Nat /\ job \in JobStates /\ failures \in 0..MaxFailures
      /\ UNCHANGED <<now, row, invoices, since, guard, script, subLock, failures>>
  BY DEF IInv, Shapes, TypeOK, PurgeStep, PurgeList, PurgeLock, PurgeRecheck, PurgeDelete, data
<1>2. CASE PurgeList
  <2>1. /\ job' = [at |-> "lock", cutoff |-> now - RetentionDays] /\ UNCHANGED tenantLock
        /\ job.at = "idle" /\ UNCHANGED exists
    BY <1>2 DEF PurgeList, data
  <2>2. job' \in JobStates /\ job'.at = "lock" /\ job'.cutoff + RetentionDays = now
    BY <1>1, <2>1 DEF JobStates
  <2>3. JobOK'
    BY <1>1, <2>2 DEF JobOK
  <2> QED
    BY <1>1, <2>1, <2>2, <2>3, PurgeStepHolds DEF IInv, TypeOK
<1>3. CASE PurgeLock
  <2>1. /\ job' = [job EXCEPT !.at = "recheck"] /\ tenantLock' = TRUE /\ job.at = "lock"
        /\ UNCHANGED exists
    BY <1>3 DEF PurgeLock, data
  <2>2. /\ job' \in [at : {"lock", "recheck", "delete"}, cutoff : Int]
        /\ job'.at = "recheck" /\ job'.cutoff = job.cutoff
    BY <1>1, <2>1, JobFields
  <2>3. JobOK' /\ job' \in JobStates
    BY <1>1, <2>1, <2>2 DEF JobOK, JobStates, IInv
  <2> QED
    BY <1>1, <2>1, <2>2, <2>3, PurgeStepHolds DEF IInv, TypeOK
<1>4. CASE PurgeRecheck /\ Expired(job.cutoff)
  <2>1. /\ job' = [job EXCEPT !.at = "delete"] /\ UNCHANGED tenantLock /\ job.at = "recheck"
        /\ UNCHANGED exists /\ status = "CANCELED" /\ canceledAt <= job.cutoff
    BY <1>4 DEF PurgeRecheck, data, Expired
  <2>2. /\ job' \in [at : {"lock", "recheck", "delete"}, cutoff : Int] /\ job.cutoff \in Int
        /\ job'.at = "delete" /\ job'.cutoff = job.cutoff
    BY <1>1, <2>1, JobFields
  <2>3. JobOK' /\ job' \in JobStates
    BY <1>1, <2>1, <2>2 DEF JobOK, JobStates, IInv, TypeOK, RowOK, row
  <2> QED
    BY <1>1, <2>1, <2>2, <2>3, PurgeStepHolds DEF IInv, TypeOK
<1>5. CASE (PurgeRecheck /\ ~ Expired(job.cutoff)) \/ PurgeDelete
  <2>1. job' = NoJob /\ tenantLock' = FALSE /\ exists' \in {exists, FALSE}
    BY <1>5 DEF PurgeRecheck, PurgeDelete, data
  <2>2. NoJob \in JobStates /\ NoJob.at = "idle"
    BY DEF NoJob, JobStates
  <2>3. JobOK'
    BY <2>1, <2>2 DEF JobOK
  <2> QED
    BY <1>1, <2>1, <2>2, <2>3, PurgeStepHolds DEF IInv, TypeOK
<1> QED
  BY <1>2, <1>3, <1>4, <1>5 DEF PurgeStep

LEMMA RollbackHolds ==
  ASSUME IInv, PurgeRollback, failures' \in 0..MaxFailures PROVE IInv'
<1>1. /\ job' = NoJob /\ tenantLock' = FALSE
      /\ UNCHANGED <<now, exists, row, invoices, since, guard, script, subLock>>
  BY DEF PurgeRollback, data
<1>2. NoJob \in JobStates /\ NoJob.at = "idle"
  BY DEF NoJob, JobStates
<1>3. JobOK'
  BY <1>1, <1>2 DEF JobOK
<1> QED
  BY <1>1, <1>2, <1>3, PurgeStepHolds DEF IInv, TypeOK
-----------------------------------------------------------------------------
LEMMA ScriptHolds ==
  ASSUME IInv, NEW s \in Scripts, ScriptCall(s) \/ ScriptStep(s) \/ ActivateAbort(s)
  PROVE  IInv'
<1>1. CASE ScriptCall(s)
  BY <1>1, CancelFindHolds, ActivateFindHolds DEF ScriptCall
<1>2. CASE ActivateCompute(s) \/ ActivateUpdate(s) \/ ActivateCommit(s) \/ CancelUpdate(s)
  BY <1>2, ActivateComputeHolds, ActivateUpdateHolds, ActivateCommitHolds, CancelUpdateHolds
<1>3. CASE PurgeRollback /\ UNCHANGED failures
  BY <1>3, RollbackHolds DEF IInv, TypeOK
<1> QED
  BY <1>1, <1>2, <1>3, ActivateAbortHolds DEF ScriptStep, BreakDeadlock

LEMMA StepHolds == IInv /\ [Next]_vars => IInv'
<1> SUFFICES ASSUME IInv, [Next]_vars PROVE IInv'
  OBVIOUS
<1>1. CASE Tick \/ PurgeStep
  BY <1>1, TickHolds, PurgeHolds
<1>2. CASE \E g \in Guards : GuardStep(g)
  BY <1>2, GuardReadHolds, GuardDecideHolds, GuardWriteHolds, GuardFailHolds DEF GuardStep
<1>3. CASE \E s \in Scripts : ScriptCall(s) \/ ScriptStep(s) \/ ActivateAbort(s)
  BY <1>3, ScriptHolds
<1>4. CASE PurgeFail
  <2>1. PurgeRollback /\ failures' \in 0..MaxFailures
    BY <1>4, DaysAssumption DEF PurgeFail, IInv, TypeOK
  <2> QED
    BY <2>1, RollbackHolds
<1>5. CASE UNCHANGED vars
  <2>1. UNCHANGED <<now, row, exists, invoices, since, guard, script, subLock, job, tenantLock, failures>>
    BY <1>5 DEF vars, data
  <2>2. JobOK'
    BY <2>1 DEF IInv, JobOK, row
  <2> QED
    BY <2>1, <2>2, PurgeStepHolds DEF IInv, TypeOK, Shapes
<1> QED
  BY <1>1, <1>2, <1>3, <1>4, <1>5 DEF Next

(* The row, what each guard, command and purge run knows, at all times.    *)
THEOREM Invariance == Spec => []IInv
BY InitHolds, StepHolds, PTL DEF Spec

(* The types, and who holds the subscription and the tenant row.           *)
THEOREM TypeCorrect == Spec => []TypeOK
BY Invariance, PTL DEF IInv

(* A request that reads what has run out is read-only, whatever status was *)
(* stored (TenantGuard.canActivate, effectiveSubscriptionStatus).          *)
THEOREM LapsedAlwaysReadOnly == Spec => []LapsedIsReadOnly
<1>1. IInv => LapsedIsReadOnly
  BY DEF IInv, GuardOK, LapsedIsReadOnly
<1> QED
  BY <1>1, Invariance, PTL
-----------------------------------------------------------------------------
(* Which step may do what to the row.                                      *)
LEMMA RowStep ==
  ASSUME [Next]_vars
  PROVE  \/ UNCHANGED <<row, exists, invoices, since>>
         \/ \E g \in Guards : GuardWrite(g)
         \/ \E s \in Scripts : ActivateCommit(s) \/ CancelUpdate(s)
         \/ PurgeDelete
<1> DEFINE Same == UNCHANGED <<row, exists, invoices, since>>
<1>1. Tick \/ PurgeFail \/ UNCHANGED vars => Same
  BY DEF Tick, PurgeFail, PurgeRollback, vars, data
<1>2. PurgeStep => Same \/ PurgeDelete
  BY DEF PurgeStep, PurgeList, PurgeLock, PurgeRecheck, data
<1>3. ASSUME NEW g \in Guards, GuardStep(g) PROVE Same \/ GuardWrite(g)
  BY <1>3 DEF GuardStep, GuardRead, GuardDecide, GuardFail, data
<1>4. ASSUME NEW s \in Scripts, ScriptCall(s) \/ ScriptStep(s) \/ ActivateAbort(s)
      PROVE  Same \/ ActivateCommit(s) \/ CancelUpdate(s)
  BY <1>4 DEF ScriptCall, ScriptStep, ActivateFind, ActivateCompute, ActivateUpdate,
              ActivateAbort, CancelFind, BreakDeadlock, PurgeRollback, data
<1> QED
  BY <1>1, <1>2, <1>3, <1>4 DEF Next

(* Only a recorded payment improves the access: the late write of a guard  *)
(* takes nothing back.                                                     *)
THEOREM AccessAlwaysPaid == Spec => AccessImprovesOnlyByPayment
<1>1. ASSUME IInv, [Next]_vars, Rank(status') < Rank(status)
      PROVE  invoices' > invoices
  <2>1. status' # status
    BY <1>1 DEF Rank
  <2>2. ASSUME NEW g \in Guards, GuardWrite(g) PROVE FALSE
    <3>1. /\ guard[g].at = "write" /\ GuardOK(guard[g])
          /\ status = guard[g].status /\ status' = guard[g].effective
      BY <1>1, <2>1, <2>2 DEF IInv, GuardWrite
    <3> QED
      BY <1>1, <2>1, <3>1 DEF GuardOK, Rank
  <2>3. ASSUME NEW s \in Scripts, CancelUpdate(s) PROVE FALSE
    BY <1>1, <2>1, <2>3 DEF CancelUpdate, Rank
  <2>4. ASSUME NEW s \in Scripts, ActivateCommit(s) PROVE invoices' > invoices
    BY <1>1, <2>4 DEF ActivateCommit, IInv, TypeOK
  <2>5. ~ PurgeDelete
    BY <2>1 DEF PurgeDelete, row
  <2> QED
    BY <1>1, <2>1, <2>2, <2>3, <2>4, <2>5, RowStep DEF row
<1> QED
  BY <1>1, Invariance, PTL DEF Spec, AccessImprovesOnlyByPayment

(* An activation adds its months to the period it read.                    *)
THEOREM MonthsAlwaysAddUp == Spec => MonthsAddUp
<1>1. ASSUME IInv, [Next]_vars, NEW s \in Scripts,
             script[s].at = "invoice", invoices' > invoices, subLock = s
      PROVE  \/ script[s].from # currentPeriodEnd
             \/ currentPeriodEnd' >= Later(currentPeriodEnd, 0) + script[s].months * MonthDays
  <2>1. PICK r \in Scripts : ActivateCommit(r)
    <3>1. invoices' # invoices
      BY <1>1 DEF IInv, TypeOK
    <3>2. ASSUME NEW g \in Guards, GuardWrite(g) PROVE FALSE
      BY <3>1, <3>2 DEF GuardWrite
    <3>3. ASSUME NEW r \in Scripts, CancelUpdate(r) PROVE FALSE
      BY <3>1, <3>3 DEF CancelUpdate
    <3>4. ~ PurgeDelete
      BY <3>1 DEF PurgeDelete
    <3> QED
      BY <1>1, <3>1, <3>2, <3>3, <3>4, RowStep
  <2>2. r = s
    BY <1>1, <2>1 DEF ActivateCommit, IInv, TypeOK
  <2>3. ScriptOK(script[s]) /\ currentPeriodEnd' = script[s].end
    BY <1>1, <2>1, <2>2 DEF ActivateCommit, IInv
  <2> QED
    BY <1>1, <2>3 DEF ScriptOK
<1>2. ASSUME IInv, [Next]_vars
      PROVE  \A s \in Scripts :
          script[s].at = "invoice" /\ invoices' > invoices /\ subLock = s =>
              \/ script[s].from # currentPeriodEnd
              \/ currentPeriodEnd' >=
                    Later(currentPeriodEnd, 0) + script[s].months * MonthDays
  BY <1>1, <1>2
<1> QED
  BY <1>2, Invariance, PTL DEF Spec, MonthsAddUp

(* Nobody is deleted before a whole retention of unbroken cancellation     *)
(* (TenantPurgeProcessor.purgeTenant looks again under the lock).          *)
THEOREM PurgedAlwaysAfterRetention == Spec => PurgedOnlyAfterRetention
<1>1. ASSUME IInv, [Next]_vars, exists, ~ exists'
      PROVE  status = "CANCELED" /\ now - since >= RetentionDays
  <2>1. PurgeDelete
    BY <1>1, RowStep DEF GuardWrite, ActivateCommit, CancelUpdate
  <2>2. job.at = "delete" /\ job \in JobStates /\ now \in Nat /\ since \in Int
    BY <1>1, <2>1 DEF PurgeDelete, IInv, Shapes, TypeOK
  <2>3. job.cutoff \in Int
    BY <2>2, JobFields
  <2> QED
    BY <1>1, <2>2, <2>3, DaysAssumption DEF IInv, JobOK
<1> QED
  BY <1>1, Invariance, PTL DEF Spec, PurgedOnlyAfterRetention
-----------------------------------------------------------------------------
(* The paid period.                                                        *)

(* What a guard is about to suspend has run out, and so has whatever is    *)
(* suspended: as long as no payment comes between a guard's read and its   *)
(* write.                                                                  *)
GuardOnTime(g) ==
    /\ guard[g].at = "decide" => guard[g].periodEnd = currentPeriodEnd
    /\ guard[g].at = "write" /\ guard[g].effective = "SUSPENDED" => currentPeriodEnd <= now

OnTime == PaidPeriodIsWritable /\ \A g \in Guards : GuardOnTime(g)

Overtakes == invoices' > invoices /\ \E g \in Guards : guard[g].at \in {"decide", "write"}

(* Only a trial that has no period, or a period that ended, is suspended.  *)
LEMMA SuspendedHasEnded ==
  ASSUME NEW s \in Statuses, NEW t \in Int, NEW p \in Int, now \in Nat,
         s = "TRIAL" => p = NoDate, EffectiveStatus(s, t, p) = "SUSPENDED", s # "SUSPENDED"
  PROVE  p <= now
BY DEF EffectiveStatus, Overdue, Statuses, NoDate

LEMMA GuardStepOnTime ==
  ASSUME IInv, OnTime, NEW g \in Guards, GuardStep(g)
  PROVE  OnTime'
<1>1. /\ guard \in [Guards -> GuardStates] /\ now \in Nat /\ currentPeriodEnd \in Int
      /\ GuardOK(guard[g]) /\ GuardOnTime(g) /\ PaidPeriodIsWritable
  BY DEF IInv, Shapes, TypeOK, OnTime
<1>2. now' = now /\ currentPeriodEnd' = currentPeriodEnd
  BY DEF GuardStep, GuardRead, GuardDecide, GuardWrite, GuardFail, data, row
<1>3. GuardOnTime(g)' /\ PaidPeriodIsWritable'
  <2>1. CASE GuardRead(g)
    <3>1. /\ guard'[g].at = "decide" /\ guard'[g].periodEnd = currentPeriodEnd
          /\ status' = status
      BY <1>1, <2>1 DEF GuardRead, GuardGoto, data, row
    <3> QED BY <1>1, <1>2, <3>1 DEF GuardOnTime, PaidPeriodIsWritable
  <2>2. CASE GuardDecide(g)
    <3> DEFINE v == guard[g]
               s == EffectiveStatus(v.status, v.trialEnd, v.periodEnd)
    <3>1. /\ v.at = "decide" /\ status' = status
          /\ guard'[g].at = (IF s = v.status THEN "done" ELSE "write")
          /\ guard'[g].effective = s
      BY <1>1, <2>2 DEF GuardDecide, GuardGoto, data, row
    <3>2. v.status \in Statuses /\ v.trialEnd \in Int /\ v.periodEnd \in Int
      BY <1>1, <3>1, GuardFields
    <3>3. v.status = "TRIAL" => v.periodEnd = NoDate
      BY <1>1, <3>1 DEF GuardOK
    <3>4. s = "SUSPENDED" /\ s # v.status => v.periodEnd <= now
      BY <1>1, <3>2, <3>3, SuspendedHasEnded
    <3>5. v.periodEnd = currentPeriodEnd
      BY <1>1, <3>1 DEF GuardOnTime
    <3> HIDE DEF s, v
    <3> QED BY <1>1, <1>2, <3>1, <3>4, <3>5 DEF GuardOnTime, PaidPeriodIsWritable
  <2>3. CASE GuardWrite(g)
    <3>1. /\ guard'[g].at = "done" /\ guard[g].at = "write"
          /\ status' \in {status, guard[g].effective}
      <4>1. guard[g] \in [at : {"write", "done"}, status : Statuses, effective : Statuses,
                          lapsed : BOOLEAN, readOnly : BOOLEAN]
        BY <1>1, <2>3, GuardFields DEF GuardWrite
      <4>2. [guard[g] EXCEPT !.at = "done"].at = "done"
        BY <4>1
      <4> QED BY <1>1, <2>3, <4>2 DEF GuardWrite, GuardGoto
    <3> QED BY <1>1, <1>2, <3>1 DEF GuardOnTime, PaidPeriodIsWritable
  <2>4. CASE GuardFail(g)
    <3>1. guard'[g].at = "idle" /\ status' = status
      BY <1>1, <2>4 DEF GuardFail, GuardGoto, NoVerdict, data, row
    <3> QED BY <1>1, <1>2, <3>1 DEF GuardOnTime, PaidPeriodIsWritable
  <2> QED BY <2>1, <2>2, <2>3, <2>4 DEF GuardStep
<1>4. ASSUME NEW h \in Guards \ {g} PROVE GuardOnTime(h)'
  <2>1. guard'[h] = guard[h]
    BY <1>1 DEF GuardStep, GuardRead, GuardDecide, GuardWrite, GuardFail, GuardGoto
  <2> QED BY <1>2, <2>1 DEF OnTime, GuardOnTime
<1>5. \A h \in Guards : GuardOnTime(h)'
  BY <1>3, <1>4
<1> QED BY <1>3, <1>5 DEF OnTime

LEMMA StepOnTime ==
  ASSUME IInv, OnTime, [Next]_vars, ~ Overtakes
  PROVE  OnTime'
<1>1. now \in Nat /\ currentPeriodEnd \in Int
  BY DEF IInv, Shapes, TypeOK
<1>2. ASSUME guard' = guard, now' \in {now, now + 1}, currentPeriodEnd' = currentPeriodEnd,
             status' \in {status, "CANCELED"}
      PROVE  OnTime'
  BY <1>1, <1>2 DEF OnTime, GuardOnTime, PaidPeriodIsWritable
<1>3. CASE \E g \in Guards : GuardStep(g)
  BY <1>3, GuardStepOnTime
<1>4. ASSUME NEW s \in Scripts, ActivateCommit(s) PROVE OnTime'
  <2>1. invoices' > invoices /\ guard' = guard /\ status' = "ACTIVE"
    BY <1>4 DEF ActivateCommit, IInv, TypeOK
  <2>2. \A g \in Guards : guard'[g].at \notin {"decide", "write"}
    BY <2>1 DEF Overtakes
  <2> QED BY <2>1, <2>2 DEF OnTime, GuardOnTime, PaidPeriodIsWritable
<1>5. ASSUME NEW s \in Scripts, CancelUpdate(s) PROVE OnTime'
  BY <1>2, <1>5 DEF CancelUpdate
<1>6. ASSUME Tick \/ PurgeStep \/ PurgeFail \/ UNCHANGED vars PROVE OnTime'
  BY <1>2, <1>6 DEF Tick, PurgeStep, PurgeList, PurgeLock, PurgeRecheck, PurgeDelete, PurgeFail,
     PurgeRollback, vars, data, row
<1>7. ASSUME NEW s \in Scripts, ScriptCall(s) \/ ScriptStep(s) \/ ActivateAbort(s),
             ~ ActivateCommit(s), ~ CancelUpdate(s)
      PROVE  OnTime'
  BY <1>2, <1>7 DEF ScriptCall, ScriptStep, ActivateFind, ActivateCompute, ActivateUpdate,
     ActivateAbort, CancelFind, BreakDeadlock, PurgeRollback, data, row
<1>8. ASSUME NEW s \in Scripts, ScriptCall(s) \/ ScriptStep(s) \/ ActivateAbort(s) PROVE OnTime'
  BY <1>4, <1>5, <1>7, <1>8
<1> QED BY <1>3, <1>6, <1>8 DEF Next

(* The finding about the paid period, delimited: unless a payment is       *)
(* recorded between the read and the write of a guard                      *)
(* (TenantGuard.canActivate), a period that has been paid is never         *)
(* suspended, however late its activation or its cancellation commits.     *)
THEOREM PaidAlwaysWritableUnlessOvertaken ==
  Spec /\ [][~ Overtakes]_vars => []PaidPeriodIsWritable
<1>1. Init => OnTime
  BY DaysAssumption DEF Init, OnTime, GuardOnTime, PaidPeriodIsWritable, NoVerdict
<1>2. IInv /\ OnTime /\ [Next]_vars /\ [~ Overtakes]_vars => OnTime'
  <2>1. ASSUME IInv, OnTime, UNCHANGED vars PROVE OnTime'
    BY <2>1 DEF vars, data, row, OnTime, GuardOnTime, PaidPeriodIsWritable
  <2> QED BY <2>1, StepOnTime
<1>3. OnTime => PaidPeriodIsWritable
  BY DEF OnTime
<1> QED BY <1>1, <1>2, <1>3, Invariance, PTL DEF Spec
-----------------------------------------------------------------------------
(* The locks.  What a command, and the purge, waits for.                   *)
ScriptUnblocked(s) ==
    \/ script[s].at = "compute"
    \/ script[s].at \in {"update", "cancel"} /\ (exists => subLock = Nobody)
    \/ script[s].at = "invoice" /\ ~ tenantLock

PurgeUnblocked ==
    \/ job.at \in {"lock", "recheck"}
    \/ job.at = "delete" /\ subLock = Nobody

(* No statement of theirs is executed while it waits, but for the abort by *)
(* which Postgres breaks the deadlock.                                     *)
LEMMA StepsAreUnblocked ==
  /\ PurgeStep => job.at = "idle" \/ PurgeUnblocked
  /\ \A s \in Scripts : ScriptStep(s) => ScriptUnblocked(s) \/ Deadlocked(s)
BY DEF PurgeStep, PurgeList, PurgeLock, PurgeRecheck, PurgeDelete, ScriptStep, ActivateCompute,
       ActivateUpdate, ActivateCommit, CancelUpdate, BreakDeadlock, PurgeUnblocked, ScriptUnblocked

(* Whoever holds the row of the subscription, or of the tenant, goes on,   *)
(* or waits for one that does: but for the one deadlock of an activation   *)
(* and the purge, in which each holds what the other needs.                *)
THEOREM HoldersAlwaysGoOn ==
  Spec => [](/\ subLock # Nobody =>
                  ScriptUnblocked(subLock) \/ PurgeUnblocked \/ Deadlocked(subLock)
             /\ tenantLock => PurgeUnblocked \/ \E s \in Scripts : Deadlocked(s))
<1>1. IInv => /\ subLock # Nobody =>
                   ScriptUnblocked(subLock) \/ PurgeUnblocked \/ Deadlocked(subLock)
              /\ tenantLock => PurgeUnblocked \/ \E s \in Scripts : Deadlocked(s)
  <2> SUFFICES ASSUME IInv
               PROVE  /\ subLock # Nobody =>
                           ScriptUnblocked(subLock) \/ PurgeUnblocked \/ Deadlocked(subLock)
                      /\ tenantLock => PurgeUnblocked \/ \E s \in Scripts : Deadlocked(s)
    OBVIOUS
  <2>1. /\ subLock # Nobody => subLock \in Scripts /\ script[subLock].at = "invoice"
        /\ tenantLock <=> job.at \in {"recheck", "delete"}
    BY DEF IInv, TypeOK
  <2> QED BY <2>1 DEF ScriptUnblocked, PurgeUnblocked, Deadlocked
<1> QED BY <1>1, Invariance, PTL
=============================================================================
