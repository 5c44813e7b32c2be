------------------------------- MODULE Digest -------------------------------
(***************************************************************************)
(* The daily digest (notifications/daily-digest.processor.ts) and the mail *)
(* queue behind it (mail/mail.service.ts, mail/mail.processor.ts): a job   *)
(* of every morning that mails each member the day before, workers of      *)
(* several instances that crash or lose the job, an operator who runs it   *)
(* again, and members, tenants and stock that change meanwhile.            *)
(*                                                                         *)
(* A day is a number; News of a branch is that it had a movement on a day  *)
(* (moved) or has a product below its minimum now (low).                   *)
(***************************************************************************)
EXTENDS Integers, FiniteSets

CONSTANTS
    Tenants, Members, Branches, Workers,
    NoWorker,
    TenantOf,       \* of each member
    BranchesOf,     \* of each tenant
    Attempts,       \* of a mail job: JOB_OPTIONS.attempts
    Retention,      \* days a completed mail job is kept: removeOnComplete, two
    MaxDay,         \* bound: days
    MaxChanges      \* bound: changes of stock, members and tenants

ASSUME NoWorkerAssumption == NoWorker \notin Workers
ASSUME TenantsAssumption ==
    /\ TenantOf \in [Members -> Tenants]
    /\ BranchesOf \in [Tenants -> SUBSET Branches]
ASSUME BoundsAssumption ==
    /\ {Attempts, MaxDay} \subseteq Nat \ {0}
    /\ Retention \in Nat \ {0, 1}
    /\ MaxChanges \in Nat

VARIABLES
    day, morning,   \* the date, and whether it is past 8:00
    moved,          \* branches with a movement, per day
    low,            \* branches with a stock alert
    member,         \* role, branches and preferences
    readOnly,       \* tenants whose effective status is read-only
    changes,        \* changes of stock, members and tenants so far
    job, owner, stalls,  \* the digest job, who holds it, how often it stalled
    run,            \* what each worker is doing
    mail,           \* the daily-digest jobs of the mail queue, by job id
    added           \* jobs made so far, per job id

vars == <<day, morning, moved, low, member, readOnly, changes, job, owner,
          stalls, run, mail, added>>
world == <<day, morning, moved, low, member, readOnly, changes>>
queue == <<mail, added>>
-----------------------------------------------------------------------------
Days == 0 .. MaxDay
Keys == Members \X (1 .. MaxDay)

(* The clock, in half days: doneAt is the time a mail was sent.            *)
Now == 2 * day + IF morning THEN 1 ELSE 0

(* MUTANT of InScope: no filter by branch.                                 *)
InScopeOfTenant(m, s) == BranchesOf[TenantOf[m]]

(* Full access has no branches of its own (null in the code); a confined   *)
(* member sees the branches it is given, at least one.                     *)
Settings(m) ==
    {s \in [active : BOOLEAN, full : BOOLEAN, summary : BOOLEAN, alerts : BOOLEAN,
            branches : SUBSET BranchesOf[TenantOf[m]]] :
        s.full = (s.branches = {})}

InScope(m, s) == IF s.full THEN BranchesOf[TenantOf[m]] ELSE s.branches

(* The content of a job that is settled does not matter any more.           *)
NoMail == [state |-> "none", tries |-> 0, doneAt |-> 0,
           moves |-> {}, alerts |-> {}]

(* held, open and shut remember what was true since the run began, for the *)
(* properties only.                                                        *)
Off == [at |-> "off", today |-> 0, left |-> {}, tenant |-> {}, to |-> {},
        moves |-> {}, alerts |-> {}, held |-> [m \in Members |-> {}],
        open |-> {}, shut |-> {}]

Running == {w \in Workers : run[w].at # "off"}

Mails ==
    [state : {"none", "waiting", "done", "failed"}, tries : 0 .. Attempts - 1,
     doneAt : 0 .. 2 * MaxDay + 1, moves : SUBSET Branches, alerts : SUBSET Branches]

(* A job that holds the queue has an owner, only a first stall is forgiven *)
(* and each mail has news in it.                                           *)
TypeOK ==
    /\ day \in Days /\ morning \in BOOLEAN
    /\ moved \in [Days -> SUBSET Branches] /\ low \subseteq Branches
    /\ \A m \in Members : member[m] \in Settings(m)
    /\ readOnly \subseteq Tenants /\ changes \in 0 .. MaxChanges
    /\ job \in {"idle", "waiting", "active"} /\ stalls \in 0 .. 1
    /\ owner \in Workers \cup {NoWorker}
    /\ (job = "active") = (owner # NoWorker)
    /\ \A w \in Workers : run[w].at \in {"off", "tenants", "next", "news", "send"}
    /\ mail \in [Keys -> Mails]
    /\ \A k \in Keys : mail[k].state = "waiting" => mail[k].moves \cup mail[k].alerts # {}
    /\ \A k \in Keys : mail[k].tries > 0 => mail[k].state = "waiting"

Init ==
    /\ day = 1 /\ morning = FALSE
    /\ moved \in {[d \in Days |-> IF d = 0 THEN B ELSE {}] : B \in SUBSET Branches}
    /\ low = {}
    /\ member \in [Members -> UNION {Settings(m) : m \in Members}]
    /\ \A m \in Members :
        /\ member[m] \in Settings(m)
        /\ member[m].active /\ member[m].summary /\ member[m].alerts
    /\ readOnly = {} /\ changes = 0
    /\ job = "idle" /\ owner = NoWorker /\ stalls = 0
    /\ run = [w \in Workers |-> Off]
    /\ mail = [k \in Keys |-> NoMail]
    /\ added = [k \in Keys |-> 0]
-----------------------------------------------------------------------------
(* The clock. The scheduler makes one job a morning, unless the last one   *)
(* still waits. Bound: a run ends before the next morning.                 *)
Midnight ==
    /\ day < MaxDay /\ morning
    /\ day' = day + 1 /\ morning' = FALSE
    /\ UNCHANGED <<moved, low, member, readOnly, changes, job, owner, stalls, run, queue>>

Morning ==
    /\ ~ morning /\ job # "active" /\ Running = {}
    /\ morning' = TRUE /\ job' = "waiting"
    /\ stalls' = IF job = "idle" THEN 0 ELSE stalls
    /\ UNCHANGED <<day, moved, low, member, readOnly, changes, owner, run, queue>>

(* The operator runs the job again.                                        *)
Reprocess ==
    /\ job = "idle" /\ morning
    /\ job' = "waiting" /\ stalls' = 0
    /\ UNCHANGED <<world, owner, run, queue>>

(* A movement, and what it does to the alerts.                             *)
Move(b) ==
    /\ changes < MaxChanges /\ changes' = changes + 1
    /\ moved' = [moved EXCEPT ![day] = @ \cup {b}]
    /\ low' \in {low, low \cup {b}, low \ {b}}
    /\ UNCHANGED <<day, morning, member, readOnly, job, owner, stalls, run, queue>>

(* The team changes role and branches or removes somebody, the member      *)
(* changes a preference. A save merges what it read with what is new, so   *)
(* it may also turn the other switch of its page back: any one of them may *)
(* flip in either direction.                                               *)
OneChange(a, b) ==
    \/ ~ b.active /\ b = [a EXCEPT !.active = FALSE]
    \/ b = [a EXCEPT !.full = b.full, !.branches = b.branches]
    \/ b = [a EXCEPT !.summary = ~ @]
    \/ b = [a EXCEPT !.alerts = ~ @]

Change(m) ==
    /\ changes < MaxChanges /\ changes' = changes + 1
    /\ member[m].active
    /\ \E s \in Settings(m) \ {member[m]} :
        /\ OneChange(member[m], s)
        /\ member' = [member EXCEPT ![m] = s]
        /\ run' = [w \in Workers |-> IF run[w].at = "off" THEN Off
                                     ELSE [run[w] EXCEPT !.held[m] = @ \cup {s}]]
    /\ UNCHANGED <<day, morning, moved, low, readOnly, job, owner, stalls, queue>>

(* A subscription lapses, is cancelled or is activated again.              *)
ChangeStatus(t) ==
    /\ changes < MaxChanges /\ changes' = changes + 1
    /\ readOnly' = IF t \in readOnly THEN readOnly \ {t} ELSE readOnly \cup {t}
    /\ run' = [w \in Workers |->
                IF run[w].at = "off" THEN Off
                ELSE [run[w] EXCEPT !.open = @ \cup (Tenants \ readOnly'),
                                    !.shut = @ \cup readOnly']]
    /\ UNCHANGED <<day, morning, moved, low, member, job, owner, stalls, queue>>
-----------------------------------------------------------------------------
(* A worker takes the job and computes the window: the day before, under   *)
(* the date of today.                                                      *)
Start(w) ==
    /\ job = "waiting" /\ run[w].at = "off"
    /\ job' = "active" /\ owner' = w
    /\ run' = [run EXCEPT ![w] =
                [Off EXCEPT !.at = "tenants", !.today = day,
                            !.held = [m \in Members |-> {member[m]}],
                            !.open = Tenants \ readOnly, !.shut = readOnly]]
    /\ UNCHANGED <<world, stalls, queue>>

(* MUTANT of ListTenants: the loop ends at a tenant that is read-only.     *)
ListTenantsUpTo(w) ==
    /\ run[w].at = "tenants"
    /\ run' = [run EXCEPT ![w].at = "next",
                          ![w].left = IF readOnly = {} THEN Tenants ELSE {}]
    /\ UNCHANGED <<world, job, owner, stalls, queue>>

ListTenants(w) ==
    /\ run[w].at = "tenants"
    /\ run' = [run EXCEPT ![w].at = "next", ![w].left = Tenants \ readOnly]
    /\ UNCHANGED <<world, job, owner, stalls, queue>>

(* Active members of t who want the summary or the alerts, with the scope  *)
(* they have now.                                                          *)
Recipients(t) ==
    {[member |-> m, summary |-> member[m].summary, scope |-> InScope(m, member[m])] :
        m \in {n \in Members : /\ TenantOf[n] = t /\ member[n].active
                               /\ member[n].summary \/ member[n].alerts}}

ListMembers(w, t) ==
    /\ run[w].at = "next" /\ t \in run[w].left
    /\ run' = [run EXCEPT ![w].left = @ \ {t}, ![w].tenant = {t}, ![w].to = Recipients(t),
                          ![w].at = IF Recipients(t) = {} THEN "next" ELSE "news"]
    /\ UNCHANGED <<world, job, owner, stalls, queue>>

(* MUTANT of MovementsByBranch: the window has no end.                     *)
MovementsSince(w, t) ==
    UNION {moved[d] : d \in run[w].today - 1 .. day} \cap BranchesOf[t]

(* The movements of the window [start, end): the day before the run.       *)
MovementsByBranch(w, t) == moved[run[w].today - 1] \cap BranchesOf[t]

(* alerts and movementsByBranch, read together. The movements of a past    *)
(* day no longer change, so the order of the two reads does not matter.    *)
ReadNews(w) ==
    /\ run[w].at = "news"
    /\ \E t \in run[w].tenant :
        run' = [run EXCEPT ![w].at = "send", ![w].moves = MovementsByBranch(w, t),
                           ![w].alerts = low \cap BranchesOf[t]]
    /\ UNCHANGED <<world, job, owner, stalls, queue>>

(* queue.add with a job id: nothing happens while a job has that id.       *)
AddMail(k, moves, alerts) ==
    IF mail[k].state # "none" THEN UNCHANGED queue
    ELSE /\ mail' = [mail EXCEPT ![k] = [NoMail EXCEPT !.state = "waiting",
                                            !.moves = moves, !.alerts = alerts]]
         /\ added' = [added EXCEPT ![k] = @ + 1]

(* MUTANT of Send: a mail without asking whether there is news.            *)
SendAnyway(w, r) ==
    /\ run[w].at = "send" /\ r \in run[w].to
    /\ run' = [run EXCEPT ![w].to = @ \ {r},
                          ![w].at = IF run[w].to = {r} THEN "next" ELSE "send"]
    /\ AddMail(<<r.member, run[w].today>>,
               IF r.summary THEN run[w].moves \cap r.scope ELSE {},
               run[w].alerts \cap r.scope)
    /\ UNCHANGED <<world, job, owner, stalls>>

(* One recipient: no mail without news.                                    *)
Send(w, r) ==
    /\ run[w].at = "send" /\ r \in run[w].to
    /\ run' = [run EXCEPT ![w].to = @ \ {r},
                          ![w].at = IF run[w].to = {r} THEN "next" ELSE "send",
                          ![w].tenant = IF run[w].to = {r} THEN {} ELSE @,
                          ![w].moves = IF run[w].to = {r} THEN {} ELSE @,
                          ![w].alerts = IF run[w].to = {r} THEN {} ELSE @]
    /\ LET moves  == IF r.summary THEN run[w].moves \cap r.scope ELSE {}
           alerts == run[w].alerts \cap r.scope
       IN  IF moves \cup alerts = {} THEN UNCHANGED queue
           ELSE AddMail(<<r.member, run[w].today>>, moves, alerts)
    /\ UNCHANGED <<world, job, owner, stalls>>

(* The end of the run settles the job only if the worker still holds it.   *)
Leave(w) ==
    /\ run' = [run EXCEPT ![w] = Off]
    /\ IF owner = w THEN job' = "idle" /\ owner' = NoWorker /\ stalls' = 0
       ELSE UNCHANGED <<job, owner, stalls>>

Finish(w) ==
    /\ run[w].at = "next" /\ run[w].left = {}
    /\ Leave(w)
    /\ UNCHANGED <<world, queue>>

(* A query fails: the job has a single attempt.                            *)
Fail(w) ==
    /\ run[w].at \in {"tenants", "news"} \/ run[w].left # {}
    /\ Leave(w)
    /\ UNCHANGED <<world, queue>>

(* The process ends; the job stays active until it is seen to be stalled.  *)
Crash(w) ==
    /\ run[w].at # "off"
    /\ run' = [run EXCEPT ![w] = Off]
    /\ UNCHANGED <<world, job, owner, stalls, queue>>

(* The lock of the job ran out, although its worker may still be at work.  *)
Stall ==
    /\ job = "active"
    /\ owner' = NoWorker
    /\ job' = IF stalls = 0 THEN "waiting" ELSE "idle"
    /\ stalls' = IF stalls = 0 THEN 1 ELSE 0
    /\ UNCHANGED <<world, run, queue>>
-----------------------------------------------------------------------------
(* The mail worker: MailProcessor.process and the sender it calls. Nobody  *)
(* tells a job that waits from one being sent, so a send is one step, and  *)
(* a process that ends while it sends leaves the job waiting.              *)
MailSent(k) ==
    /\ mail[k].state = "waiting"
    /\ mail' = [mail EXCEPT ![k] = [NoMail EXCEPT !.state = "done", !.doneAt = Now]]
    /\ UNCHANGED <<world, job, owner, stalls, run, added>>

(* sendMail throws, perhaps after the server took the message.             *)
MailRefused(k) ==
    /\ mail[k].state = "waiting"
    /\ \/ /\ mail[k].tries + 1 < Attempts
          /\ mail' = [mail EXCEPT ![k].tries = @ + 1]
       \/ /\ mail[k].tries + 1 = Attempts
          /\ mail' = [mail EXCEPT ![k] = [NoMail EXCEPT !.state = "failed"]]
    /\ UNCHANGED <<world, job, owner, stalls, run, added>>

(* MUTANT of MailRemoved: removeOnComplete without an age.                 *)
MailRemovedAtOnce(k) ==
    /\ mail[k].state = "done"
    /\ mail' = [mail EXCEPT ![k] = NoMail]
    /\ UNCHANGED <<world, job, owner, stalls, run, added>>

(* Completed jobs are removed when they are old enough, failed ones stay.  *)
MailRemoved(k) ==
    /\ mail[k].state = "done" /\ Now >= mail[k].doneAt + 2 * Retention
    /\ mail' = [mail EXCEPT ![k] = NoMail]
    /\ UNCHANGED <<world, job, owner, stalls, run, added>>

-----------------------------------------------------------------------------
Worker(w) ==
    \/ Start(w) \/ ListTenants(w) \/ ReadNews(w) \/ Finish(w)
    \/ \E t \in Tenants : ListMembers(w, t)
    \/ \E r \in run[w].to : Send(w, r)

Next ==
    \/ Midnight \/ Morning \/ Reprocess \/ Stall
    \/ \E b \in Branches : Move(b)
    \/ \E m \in Members : Change(m)
    \/ \E t \in Tenants : ChangeStatus(t)
    \/ \E w \in Workers : Worker(w) \/ Fail(w) \/ Crash(w)
    \/ \E k \in Keys : MailSent(k) \/ MailRefused(k) \/ MailRemoved(k)

Spec == Init /\ [][Next]_vars
-----------------------------------------------------------------------------
(* However often the job stalls, is run again or overlaps with itself, it  *)
(* makes at most one mail job for a member and a day.  A send refused      *)
(* after the server took the message is tried again, so that one job may   *)
(* deliver up to Attempts mails; no repetition of the run adds to them.    *)
OneMailJobPerDay == \A k \in Keys : added[k] <= 1

(* A digest tells of the day before it, and of no other.                   *)
OnlyTheDayBefore ==
    \A k \in Keys : mail[k].moves \subseteq moved[k[2] - 1]

(* Whatever changes during a run, a mail is only made for a member and a   *)
(* tenant that were active at a moment of the run, of branches the member  *)
(* saw then, and with movements only if the summary was wanted.            *)
Sees(m, s, B) == B \subseteq BranchesOf[TenantOf[m]] /\ (s.full \/ B \subseteq s.branches)

Allowed(w, k, new) ==
    /\ run[w].today = k[2] /\ TenantOf[k[1]] \in run[w].open
    /\ \E s \in run[w].held[k[1]] :
        /\ s.active /\ Sees(k[1], s, new.moves \cup new.alerts)
        /\ new.moves # {} => s.summary

MailsAsAllowed ==
    [][\A k \in Keys : added'[k] > added[k] => \E w \in Running : Allowed(w, k, mail'[k])]_vars

(* A run that completes has mailed everybody who wanted the summary, had   *)
(* movements to hear of and did not change during the run, whatever        *)
(* happened to the other members and tenants.                              *)
Completes(w) ==
    run[w].at = "next" /\ run[w].left = {} /\ run'[w] = Off /\ owner = w /\ owner' # w

Due(w, m) ==
    /\ TenantOf[m] \notin run[w].shut
    /\ \E s \in run[w].held[m] :
        /\ run[w].held[m] = {s} /\ s.active /\ s.summary
        /\ \E b \in moved[run[w].today - 1] : Sees(m, s, {b})

CompletedRunReachesAll ==
    [][\A w \in Workers, m \in Members :
        Completes(w) /\ Due(w, m) => added[<<m, run[w].today>>] > 0]_vars

(* What docs/deploy.md says of the preferences: stock alerts go to members *)
(* who want them.                                                          *)
AlertsAsPreferred ==
    [][\A k \in Keys : added'[k] > added[k] /\ mail'[k].alerts # {} =>
        \E w \in Running : \E s \in run[w].held[k[1]] : s.alerts]_vars
=============================================================================
