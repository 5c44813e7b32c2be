---------------------------- MODULE DigestProofs ---------------------------
(***************************************************************************)
(* Theorems about Digest, for any tenants, members, branches, workers and  *)
(* days: one mail a day, of the day before, to whom it may go, and nobody  *)
(* forgotten by a run that completes.                                      *)
(***************************************************************************)
EXTENDS Digest, TLAPS

AnySettings ==
    [active : BOOLEAN, full : BOOLEAN, summary : BOOLEAN, alerts : BOOLEAN,
     branches : SUBSET Branches]

Runs ==
    [at : {"off", "tenants", "next", "news", "send"}, today : Days,
     left : SUBSET Tenants, tenant : SUBSET Tenants,
     to : SUBSET [member : Members, summary : BOOLEAN, scope : SUBSET Branches],
     moves : SUBSET Branches, alerts : SUBSET Branches,
     held : [Members -> SUBSET AnySettings],
     open : SUBSET Tenants, shut : SUBSET Tenants]

Shapes ==
    /\ run \in [Workers -> Runs] /\ added \in [Keys -> {0, 1}]
    /\ member \in [Members -> AnySettings] /\ day > 0

(* A run ends before the morning after it.                                 *)
Timely(w) ==
    /\ run[w].today \in 1 .. MaxDay /\ run[w].today <= day
    /\ day = run[w].today \/ (day = run[w].today + 1 /\ ~ morning)

(* What a run remembers covers what is true now, and it works on one       *)
(* tenant at a time, which it found open.                                  *)
Remembers(w) ==
    /\ \A m \in Members : member[m] \in run[w].held[m] /\ run[w].held[m] \subseteq Settings(m)
    /\ Tenants \ readOnly \subseteq run[w].open /\ readOnly \subseteq run[w].shut
    /\ run[w].left \subseteq run[w].open /\ run[w].tenant \subseteq run[w].open
    /\ \A t, u \in run[w].tenant : t = u

(* Each recipient is a member as it was at a moment of the run, and the    *)
(* news are those of the day before.                                       *)
Listed(w) ==
    /\ run[w].at \in {"news", "send"} =>
        \A r \in run[w].to :
            /\ TenantOf[r.member] \in run[w].tenant
            /\ \E s \in run[w].held[r.member] :
                /\ s.active /\ (s.summary \/ s.alerts)
                /\ r.summary = s.summary /\ r.scope = InScope(r.member, s)
    /\ run[w].at = "send" =>
        /\ run[w].moves \subseteq moved[run[w].today - 1]
        /\ \A t \in run[w].tenant : run[w].moves = moved[run[w].today - 1] \cap BranchesOf[t]

(* Who is due for a mail has one, is listed for one, or is still to come.  *)
Awaits(w, m) ==
    /\ run[w].at \in {"news", "send"} /\ TenantOf[m] \in run[w].tenant
    /\ \E r \in run[w].to :
        r.member = m /\ r.summary /\ r.scope \cap moved[run[w].today - 1] # {}

Reaches(w) ==
    run[w].at # "tenants" =>
        \A m \in Members : Due(w, m) =>
            \/ TenantOf[m] \in run[w].left
            \/ added[<<m, run[w].today>>] > 0
            \/ Awaits(w, m)

RunOK(w) == run[w].at # "off" => Timely(w) /\ Remembers(w) /\ Listed(w) /\ Reaches(w)

(* A mail is made once, tells of the day before it, and leaves the queue   *)
(* only when no run of its day can be left.                                *)
MailOK(k) ==
    /\ mail[k].state # "none" => added[k] = 1
    /\ added[k] = 1 => k[2] <= day
    /\ mail[k].state = "done" => mail[k].doneAt >= 2 * k[2]
    /\ added[k] = 1 /\ mail[k].state = "none" => k[2] + 2 <= day
    /\ mail[k].moves \subseteq moved[k[2] - 1]

IInv ==
    /\ TypeOK
    /\ Shapes
    /\ \A w \in Workers : RunOK(w)
    /\ \A k \in Keys : MailOK(k)
-----------------------------------------------------------------------------
(* The first state: no run, no mail.                                       *)
LEMMA InitHolds == Init => IInv
<1> SUFFICES ASSUME Init PROVE IInv
  OBVIOUS
<1> USE NoWorkerAssumption, TenantsAssumption, BoundsAssumption
<1>1. NoMail \in Mails
  BY DEF NoMail, Mails
<1>2. Off \in Runs
  BY DEF Off, Runs, Days
<1>3. TypeOK
  <2>1. day \in Days /\ low \subseteq Branches
    BY DEF Init, Days
  <2>2. morning \in BOOLEAN
    BY Zenon DEF Init
  <2>3. moved \in [Days -> SUBSET Branches]
    BY DEF Init
  <2>4. /\ readOnly \subseteq Tenants /\ changes \in 0 .. MaxChanges
        /\ job \in {"idle", "waiting", "active"} /\ stalls \in 0 .. 1
        /\ owner \in Workers \cup {NoWorker} /\ (job = "active") = (owner # NoWorker)
    BY DEF Init
  <2>5. mail \in [Keys -> Mails]
    BY <1>1 DEF Init
  <2>6. \A k \in Keys : mail[k].state = "none" /\ mail[k].tries = 0
    BY DEF Init, NoMail
  <2>7. \A w \in Workers : run[w].at = "off"
    BY DEF Init, Off
  <2>8. \A m \in Members : member[m] \in Settings(m)
    BY DEF Init
  <2> QED
    BY <2>1, <2>2, <2>3, <2>4, <2>5, <2>6, <2>7, <2>8 DEF TypeOK
<1>4. Shapes
  <2>1. member \in [Members -> AnySettings]
    BY DEF Init, Settings, AnySettings
  <2> QED
    BY <1>2, <2>1 DEF Init, Shapes
<1>5. \A w \in Workers : RunOK(w)
  BY DEF Init, RunOK, Off
<1>6. \A k \in Keys : MailOK(k)
  BY DEF Init, MailOK, NoMail
<1> QED
  BY <1>3, <1>4, <1>5, <1>6 DEF IInv

(* What a run still finds true when the world moves on and what it         *)
(* remembers only grows: who was there all along is due as before.         *)
LEMMA RunGrows ==
  ASSUME IInv, NEW w \in Workers, Shapes', run[w].at # "off",
         run'[w].at = run[w].at, run'[w].today = run[w].today,
         run'[w].left = run[w].left, run'[w].tenant = run[w].tenant,
         run'[w].to = run[w].to, run'[w].moves = run[w].moves,
         \A m \in Members : run[w].held[m] \subseteq run'[w].held[m],
         run[w].open \subseteq run'[w].open, run[w].shut \subseteq run'[w].shut,
         moved'[run[w].today - 1] = moved[run[w].today - 1],
         \A k \in Keys : added[k] > 0 => added'[k] > 0,
         Timely(w)', Remembers(w)'
  PROVE  RunOK(w)'
<1> USE TenantsAssumption, BoundsAssumption
<1>1. Timely(w) /\ Remembers(w) /\ Listed(w) /\ Reaches(w)
  BY DEF IInv, RunOK
<1>2. run[w] \in Runs /\ run'[w] \in Runs
  BY DEF IInv, Shapes
<1>3. Listed(w)'
  BY <1>1, <1>2 DEF Listed, Runs
<1>4. ASSUME NEW m \in Members, Due(w, m)'
      PROVE  Due(w, m)
  <2>1. TenantOf[m] \notin run[w].shut
    BY <1>4 DEF Due
  <2>2. PICK s \in run'[w].held[m] : /\ run'[w].held[m] = {s} /\ s.active /\ s.summary
                                     /\ \E b \in moved[run[w].today - 1] : Sees(m, s, {b})
    BY <1>4 DEF Due
  <2>3. run[w].held[m] = {s}
    BY <2>2, <1>1 DEF Remembers
  <2> QED
    BY <2>1, <2>2, <2>3 DEF Due
<1>5. ASSUME run'[w].at # "tenants", NEW m \in Members, Due(w, m)'
      PROVE  \/ TenantOf[m] \in run'[w].left
             \/ added'[<<m, run'[w].today>>] > 0
             \/ Awaits(w, m)'
  <2>1. Due(w, m)
    BY <1>4, <1>5
  <2>2. <<m, run[w].today>> \in Keys
    BY <1>1 DEF Timely, Keys
  <2>3. Awaits(w, m) => Awaits(w, m)'
    BY DEF Awaits
  <2> QED
    BY <1>1, <1>5, <2>1, <2>2, <2>3 DEF Reaches
<1>6. Reaches(w)'
  BY <1>5 DEF Reaches
<1> QED
  BY <1>3, <1>6 DEF RunOK

(* A run that stands still in a world that stands still.                   *)
LEMMA RunFrame ==
  ASSUME IInv, NEW w \in Workers, Shapes', run'[w] = run[w],
         UNCHANGED world, \A k \in Keys : added[k] > 0 => added'[k] > 0
  PROVE  RunOK(w)'
<1>1. CASE run[w].at = "off"
  BY <1>1 DEF RunOK
<1>2. CASE run[w].at # "off"
  <2>1. Timely(w) /\ Remembers(w)
    BY <1>2 DEF IInv, RunOK
  <2>2. Timely(w)'
    BY <2>1 DEF Timely, world
  <2>3. Remembers(w)'
    BY <2>1 DEF Remembers, world
  <2> QED
    BY <1>2, <2>2, <2>3, RunGrows DEF world
<1> QED
  BY <1>1, <1>2

(* A mail that stands still while days and movements go on.                *)
LEMMA MailFrame ==
  ASSUME IInv, NEW k \in Keys, mail'[k] = mail[k], added'[k] = added[k],
         day' \in Days, day <= day', \A d \in Days : moved[d] \subseteq moved'[d]
  PROVE  MailOK(k)'
<1> USE BoundsAssumption
<1>1. MailOK(k) /\ k[2] \in 1 .. MaxDay /\ day \in Days
  BY DEF IInv, TypeOK, Keys
<1> QED
  BY <1>1 DEF MailOK, Days

(* Steps in which nothing happens to the world, the job or the mails keep  *)
(* every type but that of run.                                             *)
LEMMA TypeFrame ==
  ASSUME IInv, UNCHANGED <<world, queue>>, run' \in [Workers -> Runs],
         job' \in {"idle", "waiting", "active"}, stalls' \in 0 .. 1,
         owner' \in Workers \cup {NoWorker}, (job' = "active") = (owner' # NoWorker)
  PROVE  TypeOK' /\ Shapes' /\ \A k \in Keys : MailOK(k)'
<1>1. TypeOK'
  BY DEF IInv, TypeOK, world, queue, Runs
<1>2. Shapes'
  BY DEF IInv, Shapes, world, queue
<1>3. day' \in Days /\ day <= day' /\ \A d \in Days : moved[d] \subseteq moved'[d]
  BY BoundsAssumption DEF IInv, TypeOK, world, Days
<1>4. \A k \in Keys : MailOK(k)'
  BY <1>3, MailFrame DEF queue
<1> QED
  BY <1>1, <1>2, <1>4
-----------------------------------------------------------------------------
(* The clock and the job. At midnight every run is of the day that ends,   *)
(* since in the afternoon none is left of the day before.                  *)
LEMMA MidnightHolds == IInv /\ Midnight => IInv'
<1> SUFFICES ASSUME IInv, Midnight PROVE IInv'
  OBVIOUS
<1> USE BoundsAssumption
<1>1. TypeOK'
  <2>1. day' \in Days
    BY DEF IInv, TypeOK, Midnight, Days
  <2>2. morning' \in BOOLEAN
    BY Zenon DEF Midnight
  <2> QED
    BY <2>1, <2>2 DEF IInv, TypeOK, Midnight, queue
<1>2. Shapes'
  BY DEF IInv, TypeOK, Days, Shapes, Midnight, queue
<1>3. ASSUME NEW w \in Workers PROVE RunOK(w)'
  <2>1. CASE run[w].at = "off"
    BY <2>1 DEF RunOK, Midnight
  <2>2. CASE run[w].at # "off"
    <3>1. Timely(w) /\ Remembers(w) /\ day \in Nat
      BY <2>2 DEF IInv, RunOK, TypeOK, Days
    <3>2. Timely(w)'
      BY <3>1 DEF Timely, Midnight
    <3>3. Remembers(w)'
      BY <3>1 DEF Remembers, Midnight
    <3> QED
      BY <1>2, <2>2, <3>2, <3>3, RunGrows DEF Midnight, queue
  <2> QED
    BY <2>1, <2>2
<1>4. ASSUME NEW k \in Keys PROVE MailOK(k)'
  <2>1. day' \in Days /\ day <= day' /\ \A d \in Days : moved[d] \subseteq moved'[d]
    BY DEF IInv, TypeOK, Midnight, Days
  <2> QED
    BY <2>1, MailFrame DEF Midnight, queue
<1> QED
  BY <1>1, <1>2, <1>3, <1>4 DEF IInv

LEMMA MorningHolds == IInv /\ Morning => IInv'
<1> SUFFICES ASSUME IInv, Morning PROVE IInv'
  OBVIOUS
<1>1. TypeOK'
  BY DEF IInv, TypeOK, Morning, queue
<1>2. Shapes'
  BY DEF IInv, Shapes, Morning, queue
<1>3. ASSUME NEW w \in Workers PROVE RunOK(w)'
  BY DEF RunOK, Morning, Running
<1>4. ASSUME NEW k \in Keys PROVE MailOK(k)'
  BY DEF IInv, MailOK, Morning, queue
<1> QED
  BY <1>1, <1>2, <1>3, <1>4 DEF IInv

(* What happens to the job alone.                                          *)
LEMMA JobHolds == IInv /\ (Reprocess \/ Stall) => IInv'
<1> SUFFICES ASSUME IInv, Reprocess \/ Stall PROVE IInv'
  OBVIOUS
<1>1. /\ UNCHANGED <<world, queue, run>> /\ run' \in [Workers -> Runs]
      /\ job' \in {"idle", "waiting", "active"} /\ stalls' \in 0 .. 1
      /\ owner' \in Workers \cup {NoWorker} /\ (job' = "active") = (owner' # NoWorker)
  BY DEF IInv, Shapes, TypeOK, Reprocess, Stall
<1>2. TypeOK' /\ Shapes' /\ \A k \in Keys : MailOK(k)'
  BY <1>1, TypeFrame
<1>3. ASSUME NEW w \in Workers PROVE RunOK(w)'
  BY <1>1, <1>2, RunFrame DEF queue
<1> QED
  BY <1>1, <1>2, <1>3 DEF IInv
-----------------------------------------------------------------------------
(* The world changes: the day before is over, and a run remembers every    *)
(* state a member or a tenant has had since it began.                      *)
LEMMA MoveHolds == ASSUME IInv, NEW b \in Branches, Move(b) PROVE IInv'
<1> USE BoundsAssumption
<1>1. TypeOK'
  <2>1. moved' \in [Days -> SUBSET Branches] /\ low' \subseteq Branches
    BY DEF IInv, TypeOK, Move
  <2>2. changes' \in 0 .. MaxChanges
    BY DEF IInv, TypeOK, Move
  <2> QED
    BY <2>1, <2>2 DEF IInv, TypeOK, Move, queue
<1>2. Shapes'
  BY DEF IInv, Shapes, Move, queue
<1>3. day' \in Days /\ day <= day' /\ \A d \in Days : moved[d] \subseteq moved'[d]
  BY DEF IInv, TypeOK, Move, Days
<1>4. ASSUME NEW w \in Workers PROVE RunOK(w)'
  <2>1. CASE run[w].at = "off"
    BY <2>1 DEF RunOK, Move
  <2>2. CASE run[w].at # "off"
    <3>1. Timely(w) /\ Remembers(w) /\ day \in Nat
      BY <2>2 DEF IInv, RunOK, TypeOK, Days
    <3>2. Timely(w)'
      BY <3>1 DEF Timely, Move
    <3>3. Remembers(w)'
      BY <3>1 DEF Remembers, Move
    <3>4. moved'[run[w].today - 1] = moved[run[w].today - 1]
      BY <3>1 DEF Timely, Move, IInv, TypeOK, Days
    <3> QED
      BY <1>2, <2>2, <3>2, <3>3, <3>4, RunGrows DEF Move, queue
  <2> QED
    BY <2>1, <2>2
<1>5. ASSUME NEW k \in Keys PROVE MailOK(k)'
  BY <1>3, MailFrame DEF Move, queue
<1> QED
  BY <1>1, <1>2, <1>4, <1>5 DEF IInv

(* What a run r remembers when a member or the tenants change.             *)
WithSettings(r, m, s) == [r EXCEPT !.held[m] = @ \cup {s}]
WithStatus(r, c) == [r EXCEPT !.open = @ \cup (Tenants \ c), !.shut = @ \cup c]

LEMMA HeldGrows ==
  ASSUME NEW r \in Runs, NEW m \in Members, NEW s \in AnySettings,
         NEW q, q = WithSettings(r, m, s)
  PROVE  /\ q \in Runs /\ q.at = r.at /\ q.today = r.today
         /\ q.left = r.left /\ q.tenant = r.tenant /\ q.to = r.to
         /\ q.moves = r.moves /\ q.open = r.open /\ q.shut = r.shut
         /\ q.held[m] = r.held[m] \cup {s}
         /\ \A n \in Members \ {m} : q.held[n] = r.held[n]
<1> DEFINE h == [r.held EXCEPT ![m] = @ \cup {s}]
<1>1. h \in [Members -> SUBSET AnySettings]
      /\ h[m] = r.held[m] \cup {s} /\ \A n \in Members \ {m} : h[n] = r.held[n]
  BY DEF Runs
<1>2. q = [r EXCEPT !.held = h]
  BY Zenon DEF Runs, WithSettings
<1> HIDE DEF h
<1> QED
  BY <1>1, <1>2 DEF Runs

LEMMA StatusGrows ==
  ASSUME NEW r \in Runs, NEW c, c \subseteq Tenants, NEW q, q = WithStatus(r, c)
  PROVE  /\ q \in Runs /\ q.at = r.at /\ q.today = r.today
         /\ q.left = r.left /\ q.tenant = r.tenant /\ q.to = r.to
         /\ q.moves = r.moves /\ q.held = r.held
         /\ q.open = r.open \cup (Tenants \ c) /\ q.shut = r.shut \cup c
BY DEF Runs, WithStatus

LEMMA ChangeHolds == ASSUME IInv, NEW m \in Members, Change(m) PROVE IInv'
<1> USE BoundsAssumption, TenantsAssumption
<1>1. PICK s \in Settings(m) :
        /\ member' = [member EXCEPT ![m] = s]
        /\ run' = [w \in Workers |-> IF run[w].at = "off" THEN Off
                                     ELSE WithSettings(run[w], m, s)]
  BY DEF Change, WithSettings
<1>2. \A n \in Members : member'[n] \in Settings(n)
  BY <1>1 DEF IInv, TypeOK, Shapes
<1>3. member' \in [Members -> AnySettings]
  BY <1>1 DEF IInv, Shapes, Settings, AnySettings
<1>4. ASSUME NEW w \in Workers, run[w].at # "off"
      PROVE  /\ run'[w] \in Runs
             /\ run'[w].at = run[w].at /\ run'[w].today = run[w].today
             /\ run'[w].left = run[w].left /\ run'[w].tenant = run[w].tenant
             /\ run'[w].to = run[w].to /\ run'[w].moves = run[w].moves
             /\ run'[w].open = run[w].open /\ run'[w].shut = run[w].shut
             /\ run'[w].held[m] = run[w].held[m] \cup {s}
             /\ \A n \in Members \ {m} : run'[w].held[n] = run[w].held[n]
  <2>1. run[w] \in Runs /\ s \in AnySettings
    BY <1>1 DEF IInv, Shapes, Settings, AnySettings
  <2>2. run'[w] = WithSettings(run[w], m, s)
    BY <1>1, <1>4
  <2> QED
    BY <2>1, <2>2, HeldGrows
<1>5. ASSUME NEW w \in Workers, run[w].at = "off"
      PROVE  run'[w] = Off
  BY <1>1, <1>5
<1>6. Off \in Runs
  BY DEF Off, Runs, Days
<1>7. Shapes'
  <2>1. \A w \in Workers : run'[w] \in Runs
    BY <1>4, <1>5, <1>6
  <2>2. run' = [w \in Workers |-> run'[w]]
    BY <1>1
  <2> QED
    BY <1>3, <2>1, <2>2 DEF IInv, Shapes, Change, queue
<1>8. TypeOK'
  <2>1. changes' \in 0 .. MaxChanges
    BY DEF IInv, TypeOK, Change
  <2>2. \A w \in Workers : run'[w].at \in {"off", "tenants", "next", "news", "send"}
    BY <1>7 DEF Shapes, Runs
  <2> QED
    BY <1>2, <2>1, <2>2 DEF IInv, TypeOK, Change, queue
<1>9. ASSUME NEW w \in Workers PROVE RunOK(w)'
  <2>1. CASE run[w].at = "off"
    BY <1>5, <2>1 DEF RunOK, Off
  <2>2. CASE run[w].at # "off"
    <3>1. Timely(w) /\ Remembers(w)
      BY <2>2 DEF IInv, RunOK
    <3>2. Timely(w)'
      BY <1>4, <2>2, <3>1 DEF Timely, Change
    <3>3. Remembers(w)'
      <4>1. ASSUME NEW n \in Members
            PROVE  member'[n] \in run'[w].held[n] /\ run'[w].held[n] \subseteq Settings(n)
        BY <1>1, <1>4, <2>2, <3>1 DEF Remembers, IInv, Shapes
      <4> QED
        BY <1>4, <2>2, <3>1, <4>1 DEF Remembers, Change
    <3> QED
      BY <1>4, <1>7, <2>2, <3>2, <3>3, RunGrows DEF Change, queue
  <2> QED
    BY <2>1, <2>2
<1>10. ASSUME NEW k \in Keys PROVE MailOK(k)'
  <2>1. day' \in Days /\ day <= day' /\ \A d \in Days : moved[d] \subseteq moved'[d]
    BY DEF IInv, TypeOK, Change, Days
  <2> QED
    BY <2>1, MailFrame DEF Change, queue
<1> QED
  BY <1>7, <1>8, <1>9, <1>10 DEF IInv

LEMMA StatusHolds == ASSUME IInv, NEW t \in Tenants, ChangeStatus(t) PROVE IInv'
<1> USE BoundsAssumption, TenantsAssumption
<1>1. /\ run' = [w \in Workers |->
                  IF run[w].at = "off" THEN Off
                  ELSE WithStatus(run[w], readOnly')]
      /\ readOnly' \subseteq Tenants
      /\ changes < MaxChanges /\ changes' = changes + 1
      /\ UNCHANGED <<day, morning, moved, low, member, job, owner, stalls, mail, added>>
  BY DEF ChangeStatus, IInv, TypeOK, queue, WithStatus
<1>2. ASSUME NEW w \in Workers, run[w].at # "off"
      PROVE  /\ run'[w] \in Runs
             /\ run'[w].at = run[w].at /\ run'[w].today = run[w].today
             /\ run'[w].left = run[w].left /\ run'[w].tenant = run[w].tenant
             /\ run'[w].to = run[w].to /\ run'[w].moves = run[w].moves
             /\ run'[w].held = run[w].held
             /\ run'[w].open = run[w].open \cup (Tenants \ readOnly')
             /\ run'[w].shut = run[w].shut \cup readOnly'
  <2>1. run[w] \in Runs
    BY DEF IInv, Shapes
  <2>2. run'[w] = WithStatus(run[w], readOnly')
    BY <1>1, <1>2
  <2> QED
    BY <1>1, <2>1, <2>2, StatusGrows
<1>3. ASSUME NEW w \in Workers, run[w].at = "off"
      PROVE  run'[w] = Off
  BY <1>1, <1>3
<1>4. Off \in Runs
  BY DEF Off, Runs, Days
<1>5. Shapes'
  <2>1. \A w \in Workers : run'[w] \in Runs
    BY <1>2, <1>3, <1>4
  <2>2. run' = [w \in Workers |-> run'[w]]
    BY <1>1
  <2>3. run' \in [Workers -> Runs]
    BY <2>1, <2>2
  <2> QED
    BY <1>1, <2>3 DEF IInv, Shapes
<1>6. TypeOK'
  <2>1. changes' \in 0 .. MaxChanges
    BY <1>1 DEF IInv, TypeOK
  <2>2. \A w \in Workers : run'[w].at \in {"off", "tenants", "next", "news", "send"}
    BY <1>5 DEF Shapes, Runs
  <2> QED
    BY <1>1, <2>1, <2>2 DEF IInv, TypeOK
<1>7. ASSUME NEW w \in Workers PROVE RunOK(w)'
  <2>1. CASE run[w].at = "off"
    BY <1>3, <2>1 DEF RunOK, Off
  <2>2. CASE run[w].at # "off"
    <3>1. Timely(w) /\ Remembers(w)
      BY <2>2 DEF IInv, RunOK
    <3>2. Timely(w)'
      BY <1>1, <1>2, <2>2, <3>1 DEF Timely
    <3>3. Remembers(w)'
      BY <1>1, <1>2, <2>2, <3>1 DEF Remembers
    <3> QED
      BY <1>1, <1>2, <1>5, <2>2, <3>2, <3>3, RunGrows
  <2> QED
    BY <2>1, <2>2
<1>8. ASSUME NEW k \in Keys PROVE MailOK(k)'
  <2>1. day' \in Days /\ day <= day' /\ \A d \in Days : moved[d] \subseteq moved'[d]
    BY <1>1 DEF IInv, TypeOK, Days
  <2> QED
    BY <1>1, <2>1, MailFrame
<1> QED
  BY <1>5, <1>6, <1>7, <1>8 DEF IInv
-----------------------------------------------------------------------------
(* A step of worker w leaves the runs of the others as they are.           *)
LEMMA OtherRuns ==
  ASSUME IInv, NEW w \in Workers, NEW r, run' = [run EXCEPT ![w] = r],
         Shapes', UNCHANGED world, \A k \in Keys : added[k] > 0 => added'[k] > 0, RunOK(w)'
  PROVE  \A v \in Workers : RunOK(v)'
<1> TAKE v \in Workers
<1>1. CASE v = w
  BY <1>1
<1>2. CASE v # w
  <2>1. run'[v] = run[v]
    BY <1>2 DEF IInv, Shapes
  <2> QED
    BY <2>1, RunFrame
<1> QED
  BY <1>1, <1>2

(* A step of worker w that makes no mail.                                  *)
LEMMA WorkerStep ==
  ASSUME IInv, NEW w \in Workers, NEW r \in Runs, run' = [run EXCEPT ![w] = r],
         UNCHANGED <<world, queue>>,
         job' \in {"idle", "waiting", "active"}, stalls' \in 0 .. 1,
         owner' \in Workers \cup {NoWorker}, (job' = "active") = (owner' # NoWorker),
         RunOK(w)'
  PROVE  IInv'
<1>1. run' \in [Workers -> Runs]
  BY DEF IInv, Shapes
<1>2. TypeOK' /\ Shapes' /\ \A k \in Keys : MailOK(k)'
  BY <1>1, TypeFrame
<1>3. \A v \in Workers : RunOK(v)'
  BY <1>2, OtherRuns DEF queue
<1> QED
  BY <1>2, <1>3 DEF IInv

LEMMA StartHolds == ASSUME IInv, NEW w \in Workers, Start(w) PROVE IInv'
<1> USE BoundsAssumption, TenantsAssumption, NoWorkerAssumption
<1> DEFINE held == [m \in Members |-> {member[m]}]
           r == [Off EXCEPT !.at = "tenants", !.today = day, !.held = held,
                            !.open = Tenants \ readOnly, !.shut = readOnly]
<1>1. run' = [run EXCEPT ![w] = r]
  BY DEF Start
<1>2. held \in [Members -> SUBSET AnySettings] /\ \A m \in Members : held[m] = {member[m]}
  BY DEF IInv, Shapes
<1>3. /\ r \in Runs /\ r.at = "tenants" /\ r.today = day /\ r.left = {} /\ r.tenant = {}
      /\ r.held = held /\ r.open = Tenants \ readOnly /\ r.shut = readOnly
  <2> HIDE DEF held
  <2> QED
    BY <1>2 DEF Off, Runs, IInv, TypeOK
<1>4. /\ UNCHANGED <<world, queue>> /\ run'[w] = r
      /\ job' \in {"idle", "waiting", "active"} /\ stalls' \in 0 .. 1
      /\ owner' \in Workers \cup {NoWorker} /\ (job' = "active") = (owner' # NoWorker)
  BY <1>1 DEF IInv, Shapes, TypeOK, Start
<1> HIDE DEF held, r
<1>5. RunOK(w)'
  <2>1. Timely(w)'
    BY <1>3, <1>4 DEF Timely, IInv, TypeOK, Shapes, Days, world
  <2>2. Remembers(w)'
    BY <1>2, <1>3, <1>4 DEF Remembers, IInv, TypeOK, world
  <2>3. Listed(w)' /\ Reaches(w)'
    BY <1>3, <1>4 DEF Listed, Reaches
  <2> QED
    BY <2>1, <2>2, <2>3 DEF RunOK
<1> QED
  BY <1>1, <1>3, <1>4, <1>5, WorkerStep

(* The end of a run, by completion, failure or crash.                      *)
LEMMA LeaveHolds ==
  ASSUME IInv, NEW w \in Workers, Finish(w) \/ Fail(w) \/ Crash(w) PROVE IInv'
<1> USE NoWorkerAssumption
<1>1. Off \in Runs
  BY BoundsAssumption DEF Off, Runs, Days
<1>2. /\ UNCHANGED <<world, queue>> /\ run' = [run EXCEPT ![w] = Off]
      /\ job' \in {"idle", "waiting", "active"} /\ stalls' \in 0 .. 1
      /\ owner' \in Workers \cup {NoWorker} /\ (job' = "active") = (owner' # NoWorker)
  BY DEF Finish, Fail, Crash, Leave, IInv, TypeOK
<1>3. RunOK(w)'
  BY <1>2 DEF RunOK, Off, IInv, Shapes
<1> QED
  BY <1>1, <1>2, <1>3, WorkerStep
-----------------------------------------------------------------------------
(* Who is due when the tenants are listed belongs to one that is listed,   *)
(* since its tenant was never read-only during the run.                    *)
LEMMA ListTenantsHolds == ASSUME IInv, NEW w \in Workers, ListTenants(w) PROVE IInv'
<1> DEFINE r == [run[w] EXCEPT !.at = "next", !.left = Tenants \ readOnly]
<1>1. run[w] \in Runs
  BY DEF IInv, Shapes
<1>2. run' = [run EXCEPT ![w] = r]
  BY <1>1 DEF ListTenants, IInv, Shapes
<1>3. /\ r \in Runs /\ r.at = "next" /\ r.left = Tenants \ readOnly
      /\ r.today = run[w].today /\ r.tenant = run[w].tenant
      /\ r.held = run[w].held /\ r.open = run[w].open /\ r.shut = run[w].shut
  BY <1>1 DEF Runs
<1> HIDE DEF r
<1>4. /\ UNCHANGED <<world, queue, job, owner, stalls>> /\ run'[w] = r
      /\ Timely(w) /\ Remembers(w)
  BY <1>2 DEF IInv, Shapes, ListTenants, RunOK
<1>5. RunOK(w)'
  <2>1. Timely(w)'
    BY <1>3, <1>4 DEF Timely, world
  <2>2. Remembers(w)'
    BY <1>3, <1>4 DEF Remembers, world
  <2>3. Listed(w)'
    BY <1>3, <1>4 DEF Listed
  <2>4. Reaches(w)'
    BY <1>3, <1>4, TenantsAssumption DEF Reaches, Due, Remembers
  <2> QED
    BY <2>1, <2>2, <2>3, <2>4 DEF RunOK
<1> QED
  BY <1>2, <1>3, <1>4, <1>5, WorkerStep DEF IInv, TypeOK

(* Who is due sees a branch with news: the news are in the scope.          *)
LEMMA DueSees ==
  ASSUME NEW m \in Members, NEW s \in Settings(m), NEW b, Sees(m, s, {b})
  PROVE  b \in InScope(m, s)
BY DEF Sees, InScope

LEMMA ScopeOfTenant ==
  ASSUME NEW m \in Members, NEW s \in Settings(m)
  PROVE  InScope(m, s) \subseteq BranchesOf[TenantOf[m]]
BY DEF Settings, InScope

(* The members of the tenant are listed as they are now, which is how the  *)
(* run remembers them; who is due has not changed since the run began.     *)
LEMMA ListMembersHolds ==
  ASSUME IInv, NEW w \in Workers, NEW t \in Tenants, ListMembers(w, t) PROVE IInv'
<1> USE TenantsAssumption, BoundsAssumption
<1> DEFINE to == Recipients(t)
           at == IF to = {} THEN "next" ELSE "news"
           r == [run[w] EXCEPT !.left = @ \ {t}, !.tenant = {t}, !.to = to, !.at = at]
<1>1. run[w] \in Runs /\ run[w].at = "next" /\ t \in run[w].left
  BY DEF IInv, Shapes, ListMembers
<1>2. run' = [run EXCEPT ![w] = r]
  <2> HIDE DEF to
  <2>1. run' = [run EXCEPT ![w].left = @ \ {t}, ![w].tenant = {t}, ![w].to = to, ![w].at = at]
    BY DEF ListMembers, to
  <2> QED
    BY <1>1, <2>1 DEF IInv, Shapes
<1>3. \A q \in to : \E m \in Members :
        /\ TenantOf[m] = t /\ member[m].active /\ (member[m].summary \/ member[m].alerts)
        /\ q = [member |-> m, summary |-> member[m].summary, scope |-> InScope(m, member[m])]
  BY DEF Recipients
<1>4. to \subseteq [member : Members, summary : BOOLEAN, scope : SUBSET Branches]
  <2> HIDE DEF to
  <2>1. \A m \in Members : member[m].summary \in BOOLEAN /\ InScope(m, member[m]) \subseteq Branches
    BY ScopeOfTenant DEF IInv, TypeOK, Shapes, AnySettings
  <2> QED
    BY <1>3, <2>1
<1> HIDE DEF to
<1>5. /\ r \in Runs /\ r.at = at /\ r.left = run[w].left \ {t} /\ r.tenant = {t} /\ r.to = to
      /\ r.today = run[w].today
      /\ r.held = run[w].held /\ r.open = run[w].open /\ r.shut = run[w].shut
  BY <1>1, <1>4 DEF Runs
<1>6. /\ UNCHANGED <<world, queue, job, owner, stalls>> /\ run'[w] = r
      /\ Timely(w) /\ Remembers(w) /\ Reaches(w)
  BY <1>1, <1>2 DEF IInv, Shapes, ListMembers, RunOK
<1> HIDE DEF r
<1>7. RunOK(w)'
  <2>1. Timely(w)'
    BY <1>5, <1>6 DEF Timely, world
  <2>2. Remembers(w)'
    BY <1>1, <1>5, <1>6 DEF Remembers, world
  <2>3. Listed(w)'
    BY <1>3, <1>5, <1>6 DEF Listed, Remembers
  <2>4. ASSUME NEW m \in Members, Due(w, m)'
        PROVE  \/ TenantOf[m] \in run'[w].left
               \/ added'[<<m, run'[w].today>>] > 0
               \/ Awaits(w, m)'
    <3>1. Due(w, m) /\ added' = added
      BY <1>5, <1>6, <2>4 DEF Due, world, queue
    <3>2. CASE TenantOf[m] # t
      BY <1>1, <1>5, <1>6, <3>1, <3>2 DEF Reaches, Awaits
    <3>3. CASE TenantOf[m] = t
      <4>1. member[m].active /\ member[m].summary
        BY <1>6, <3>1 DEF Due, Remembers
      <4>2. PICK b \in moved[run[w].today - 1] : Sees(m, member[m], {b})
        BY <1>6, <3>1 DEF Due, Remembers
      <4>3. b \in InScope(m, member[m])
        BY <4>2, DueSees DEF IInv, TypeOK
      <4> DEFINE q == [member |-> m, summary |-> member[m].summary,
                       scope |-> InScope(m, member[m])]
      <4>4. q \in to
        BY <3>3, <4>1 DEF Recipients, to
      <4>5. run'[w].at = "news"
        BY <1>5, <1>6, <4>4
      <4>6. q.member = m /\ q.summary /\ q.scope \cap moved[run[w].today - 1] # {}
        BY <4>1, <4>2, <4>3
      <4> HIDE DEF q
      <4> QED
        BY <1>5, <1>6, <3>3, <4>4, <4>5, <4>6 DEF Awaits, world
    <3> QED
      BY <3>2, <3>3
  <2>5. Reaches(w)'
    BY <2>4 DEF Reaches
  <2> QED
    BY <2>1, <2>2, <2>3, <2>5 DEF RunOK
<1> QED
  BY <1>2, <1>5, <1>6, <1>7, WorkerStep DEF IInv, TypeOK

(* The news of the day before no longer change.                            *)
LEMMA ReadNewsHolds == ASSUME IInv, NEW w \in Workers, ReadNews(w) PROVE IInv'
<1> USE TenantsAssumption, BoundsAssumption
<1>1. PICK t \in run[w].tenant :
        run' = [run EXCEPT ![w].at = "send", ![w].moves = MovementsByBranch(w, t),
                           ![w].alerts = low \cap BranchesOf[t]]
  BY DEF ReadNews
<1> DEFINE moves == moved[run[w].today - 1] \cap BranchesOf[t]
           r == [run[w] EXCEPT !.at = "send", !.moves = moves, !.alerts = low \cap BranchesOf[t]]
<1>2. run[w] \in Runs /\ run[w].at = "news" /\ t \in Tenants
  BY <1>1 DEF IInv, Shapes, ReadNews, Runs
<1>3. run' = [run EXCEPT ![w] = r]
  BY <1>1, <1>2 DEF IInv, Shapes, MovementsByBranch
<1>4. /\ UNCHANGED <<world, queue, job, owner, stalls>> /\ run'[w] = r
      /\ Timely(w) /\ Remembers(w) /\ Listed(w) /\ Reaches(w)
  BY <1>2, <1>3 DEF IInv, Shapes, ReadNews, RunOK
<1>5. /\ r \in Runs /\ r.at = "send" /\ r.moves = moves
      /\ r.left = run[w].left /\ r.tenant = run[w].tenant /\ r.to = run[w].to
      /\ r.today = run[w].today
      /\ r.held = run[w].held /\ r.open = run[w].open /\ r.shut = run[w].shut
  BY <1>2 DEF Runs, IInv, TypeOK
<1> HIDE DEF r
<1>6. RunOK(w)'
  <2>1. Timely(w)'
    BY <1>4, <1>5 DEF Timely, world
  <2>2. Remembers(w)'
    BY <1>4, <1>5 DEF Remembers, world
  <2>3. Listed(w)'
    BY <1>2, <1>4, <1>5 DEF Listed, Remembers, world
  <2>4. Reaches(w)'
    <3>1. \A m \in Members : Due(w, m)' => Due(w, m)
      BY <1>4, <1>5 DEF Due, world
    <3>2. \A m \in Members : Awaits(w, m) => Awaits(w, m)'
      BY <1>4, <1>5 DEF Awaits, world
    <3> QED
      BY <1>2, <1>4, <1>5, <3>1, <3>2 DEF Reaches, queue
  <2> QED
    BY <2>1, <2>2, <2>3, <2>4 DEF RunOK
<1> QED
  BY <1>3, <1>4, <1>5, <1>6, WorkerStep DEF IInv, TypeOK
-----------------------------------------------------------------------------
(* The mail a run adds: if one was made before, it is still in the queue,  *)
(* because it would be removed two days after its day at the earliest.     *)
LEMMA AddMailHolds ==
  ASSUME IInv, NEW w \in Workers, run[w].at = "send",
         NEW k \in Keys, k[2] = run[w].today,
         NEW moves, moves \subseteq run[w].moves, NEW alerts, alerts \subseteq Branches,
         moves \cup alerts # {}, UNCHANGED world, AddMail(k, moves, alerts)
  PROVE  /\ mail' \in [Keys -> Mails] /\ added' \in [Keys -> {0, 1}]
         /\ \A l \in Keys : mail'[l].state = "waiting" => mail'[l].moves \cup mail'[l].alerts # {}
         /\ \A l \in Keys : mail'[l].tries > 0 => mail'[l].state = "waiting"
         /\ \A l \in Keys : MailOK(l)'
         /\ \A l \in Keys : added[l] > 0 => added'[l] > 0
         /\ added'[k] > 0
<1> USE BoundsAssumption
<1> DEFINE new == [NoMail EXCEPT !.state = "waiting", !.moves = moves, !.alerts = alerts]
<1>1. Timely(w) /\ Listed(w) /\ run[w] \in Runs
  BY DEF IInv, RunOK, Shapes
<1>2. moves \subseteq moved[k[2] - 1] /\ moves \subseteq Branches
  BY <1>1 DEF Listed, Runs
<1>3. CASE mail[k].state # "none"
  <2>1. UNCHANGED queue
    BY <1>3 DEF AddMail
  <2>2. \A l \in Keys : MailOK(l)'
    <3>1. day' \in Days /\ day <= day' /\ \A d \in Days : moved[d] \subseteq moved'[d]
      BY DEF IInv, TypeOK, world, Days
    <3> QED
      BY <2>1, <3>1, MailFrame DEF queue
  <2>3. added[k] = 1
    BY <1>3 DEF IInv, MailOK
  <2> QED
    BY <2>1, <2>2, <2>3 DEF IInv, Shapes, TypeOK, queue
<1>4. CASE mail[k].state = "none"
  <2>1. added[k] = 0
    <3>1. MailOK(k) /\ added[k] \in {0, 1} /\ day \in Nat
      BY DEF IInv, Shapes, TypeOK, Days
    <3> QED
      BY <1>1, <1>4, <3>1 DEF MailOK, Timely
  <2>2. mail' = [mail EXCEPT ![k] = new] /\ added' = [added EXCEPT ![k] = @ + 1]
    BY <1>4 DEF AddMail
  <2>3. /\ new \in Mails /\ new.state = "waiting" /\ new.moves = moves
        /\ new.alerts = alerts
    <3>1. NoMail \in Mails
      BY DEF NoMail, Mails
    <3> QED
      BY <1>2, <3>1 DEF Mails
  <2> HIDE DEF new
  <2>4. mail' \in [Keys -> Mails] /\ mail'[k] = new
    BY <2>2, <2>3 DEF IInv, TypeOK
  <2>5. added' \in [Keys -> {0, 1}] /\ added'[k] = 1
    BY <2>1, <2>2 DEF IInv, Shapes
  <2>6. \A l \in Keys \ {k} : mail'[l] = mail[l] /\ added'[l] = added[l]
    BY <2>2 DEF IInv, TypeOK, Shapes
  <2>7. ASSUME NEW l \in Keys PROVE MailOK(l)'
    <3>1. CASE l = k
      <4>1. run[w].today <= day /\ UNCHANGED <<day, moved>>
        BY <1>1 DEF Timely, world
      <4> QED
        BY <1>2, <2>3, <2>4, <2>5, <3>1, <4>1 DEF MailOK
    <3>2. CASE l # k
      <4>1. day' \in Days /\ day <= day' /\ \A d \in Days : moved[d] \subseteq moved'[d]
        BY DEF IInv, TypeOK, world, Days
      <4> QED
        BY <2>6, <3>2, <4>1, MailFrame
    <3> QED
      BY <3>1, <3>2
  <2>8. \A l \in Keys :
          /\ mail'[l].state = "waiting" => mail'[l].moves \cup mail'[l].alerts # {}
          /\ mail'[l].tries > 0 => mail'[l].state = "waiting"
    BY <2>3, <2>4, <2>6 DEF IInv, TypeOK
  <2>9. \A l \in Keys : added[l] > 0 => added'[l] > 0
    BY <2>5, <2>6
  <2> QED
    BY <2>4, <2>5, <2>7, <2>8, <2>9
<1> QED
  BY <1>3, <1>4

(* Sending to one recipient: who was listed and is due is mailed, since    *)
(* the scope is within the branches of the tenant the news are of.         *)
LEMMA SendHolds ==
  ASSUME IInv, NEW w \in Workers, NEW r \in run[w].to, Send(w, r) PROVE IInv'
<1> USE TenantsAssumption, BoundsAssumption
<1> DEFINE last == run[w].to = {r}
           moves == IF r.summary THEN run[w].moves \cap r.scope ELSE {}
           alerts == run[w].alerts \cap r.scope
           k == <<r.member, run[w].today>>
           q == [run[w] EXCEPT !.to = @ \ {r},
                               !.at = IF last THEN "next" ELSE "send",
                               !.tenant = IF last THEN {} ELSE @,
                               !.moves = IF last THEN {} ELSE @,
                               !.alerts = IF last THEN {} ELSE @]
<1>1. /\ run[w] \in Runs /\ run[w].at = "send" /\ r.member \in Members
      /\ r.scope \subseteq Branches
      /\ Timely(w) /\ Remembers(w) /\ Listed(w) /\ Reaches(w)
  <2>1. run[w] \in Runs /\ run[w].at = "send"
    BY DEF IInv, Shapes, Send
  <2>2. r.member \in Members /\ r.scope \subseteq Branches
    BY <2>1 DEF Runs
  <2> QED
    BY <2>1, <2>2 DEF IInv, RunOK
<1>2. run' = [run EXCEPT ![w] = q]
  BY <1>1 DEF Send, IInv, Shapes
<1>3. /\ q \in Runs /\ q.to = run[w].to \ {r} /\ q.at = IF last THEN "next" ELSE "send"
      /\ q.tenant = (IF last THEN {} ELSE run[w].tenant)
      /\ q.moves = (IF last THEN {} ELSE run[w].moves)
      /\ q.left = run[w].left /\ q.today = run[w].today
      /\ q.held = run[w].held /\ q.open = run[w].open /\ q.shut = run[w].shut
  BY <1>1 DEF Runs
<1>4. UNCHANGED <<world, job, owner, stalls>> /\ run'[w] = q
  BY <1>2 DEF Send, IInv, Shapes
<1> HIDE DEF q
<1>5. /\ mail' \in [Keys -> Mails] /\ added' \in [Keys -> {0, 1}]
      /\ \A l \in Keys : mail'[l].state = "waiting" => mail'[l].moves \cup mail'[l].alerts # {}
      /\ \A l \in Keys : mail'[l].tries > 0 => mail'[l].state = "waiting"
      /\ \A l \in Keys : MailOK(l)'
      /\ \A l \in Keys : added[l] > 0 => added'[l] > 0
      /\ moves \cup alerts # {} => added'[k] > 0
  <2>1. CASE moves \cup alerts = {}
    <3>1. UNCHANGED queue
      BY <2>1 DEF Send
    <3>2. day' \in Days /\ day <= day' /\ \A d \in Days : moved[d] \subseteq moved'[d]
      BY <1>4 DEF IInv, TypeOK, world, Days
    <3>3. \A l \in Keys : MailOK(l)'
      BY <3>1, <3>2, MailFrame DEF queue
    <3> QED
      BY <2>1, <3>1, <3>3 DEF IInv, Shapes, TypeOK, queue
  <2>2. CASE moves \cup alerts # {}
    <3>1. k \in Keys /\ k[2] = run[w].today /\ AddMail(k, moves, alerts)
      BY <1>1, <2>2 DEF Send, Timely, Keys
    <3>2. moves \subseteq run[w].moves /\ alerts \subseteq Branches
      BY <1>1
    <3>3. UNCHANGED world
      BY <1>4
    <3> HIDE DEF k, moves, alerts
    <3> QED
      BY <1>1, <2>2, <3>1, <3>2, <3>3, AddMailHolds
  <2> QED
    BY <2>1, <2>2
<1>6. Shapes'
  BY <1>2, <1>3, <1>4, <1>5 DEF IInv, Shapes, world
<1>7. TypeOK'
  <2>1. \A v \in Workers : run'[v].at \in {"off", "tenants", "next", "news", "send"}
    BY <1>6 DEF Shapes, Runs
  <2> QED
    BY <1>4, <1>5, <2>1 DEF IInv, TypeOK, world
<1>8. RunOK(w)'
  <2>1. Timely(w)'
    BY <1>1, <1>3, <1>4 DEF Timely, world
  <2>2. Remembers(w)'
    BY <1>1, <1>3, <1>4 DEF Remembers, world
  <2>3. Listed(w)'
    BY <1>1, <1>3, <1>4 DEF Listed, world
  <2>4. ASSUME NEW m \in Members, Due(w, m)'
        PROVE  \/ TenantOf[m] \in run'[w].left
               \/ added'[<<m, run'[w].today>>] > 0
               \/ Awaits(w, m)'
    <3>1. Due(w, m)
      BY <1>3, <1>4, <2>4 DEF Due, world
    <3>2. CASE TenantOf[m] \in run[w].left \/ added[<<m, run[w].today>>] > 0
      <4>1. <<m, run[w].today>> \in Keys
        BY <1>1 DEF Timely, Keys
      <4> QED
        BY <1>3, <1>4, <1>5, <3>2, <4>1
    <3>3. CASE Awaits(w, m)
      <4>1. PICK p \in run[w].to :
              p.member = m /\ p.summary /\ p.scope \cap moved[run[w].today - 1] # {}
        BY <3>3 DEF Awaits
      <4>2. CASE p = r
        <5>1. PICK s \in run[w].held[m] : r.scope = InScope(m, s)
          BY <1>1, <4>1, <4>2 DEF Listed
        <5>2. r.scope \subseteq BranchesOf[TenantOf[m]]
          BY <1>1, <5>1, ScopeOfTenant DEF Remembers
        <5>3. run[w].moves = moved[run[w].today - 1] \cap BranchesOf[TenantOf[m]]
          BY <1>1, <3>3 DEF Listed, Awaits
        <5>4. moves # {}
          BY <4>1, <4>2, <5>2, <5>3
        <5> QED
          BY <1>3, <1>4, <1>5, <4>1, <4>2, <5>4
      <4>3. CASE p # r
        <5>1. p \in q.to /\ ~ last
          BY <1>3, <4>3
        <5> QED
          BY <1>3, <1>4, <3>3, <4>1, <5>1 DEF Awaits, world
      <4> QED
        BY <4>2, <4>3
    <3> QED
      BY <1>1, <3>1, <3>2, <3>3 DEF Reaches
  <2>5. Reaches(w)'
    BY <2>4 DEF Reaches
  <2> QED
    BY <2>1, <2>2, <2>3, <2>5 DEF RunOK
<1>9. \A v \in Workers : RunOK(v)'
  BY <1>2, <1>4, <1>5, <1>6, <1>8, OtherRuns
<1> QED
  BY <1>5, <1>6, <1>7, <1>9 DEF IInv
-----------------------------------------------------------------------------
(* A step of the mail queue concerns one job and nothing else.             *)
LEMMA QueueStep ==
  ASSUME IInv, NEW k \in Keys, NEW new \in Mails, mail' = [mail EXCEPT ![k] = new],
         new.state = "waiting" => new.moves \cup new.alerts # {},
         new.tries > 0 => new.state = "waiting",
         UNCHANGED <<world, job, owner, stalls, run, added>>, MailOK(k)'
  PROVE  IInv'
<1>1. mail' \in [Keys -> Mails] /\ mail'[k] = new /\ \A l \in Keys \ {k} : mail'[l] = mail[l]
  BY DEF IInv, TypeOK
<1>2. TypeOK'
  BY <1>1 DEF IInv, TypeOK, world
<1>3. Shapes'
  BY DEF IInv, Shapes, world
<1>4. \A w \in Workers : RunOK(w)'
  BY <1>3, RunFrame
<1>5. ASSUME NEW l \in Keys PROVE MailOK(l)'
  <2>1. CASE l = k
    BY <2>1
  <2>2. CASE l # k
    <3>1. day' \in Days /\ day <= day' /\ \A d \in Days : moved[d] \subseteq moved'[d]
      BY DEF IInv, TypeOK, world, Days
    <3> QED
      BY <1>1, <2>2, <3>1, MailFrame
  <2> QED
    BY <2>1, <2>2
<1> QED
  BY <1>2, <1>3, <1>4, <1>5 DEF IInv

LEMMA MailStep ==
  ASSUME IInv, NEW k \in Keys, MailSent(k) \/ MailRefused(k) \/ MailRemoved(k) PROVE IInv'
<1> USE BoundsAssumption
<1>1. /\ MailOK(k) /\ mail[k] \in Mails /\ day \in Days /\ day \in Nat
      /\ k[2] \in Nat /\ added[k] \in {0, 1} /\ NoMail \in Mails
  BY DEF IInv, TypeOK, Shapes, Days, Keys, NoMail, Mails
<1>2. Now \in {2 * day, 2 * day + 1} /\ Now \in 0 .. 2 * MaxDay + 1
  BY <1>1 DEF Now, Days
<1>3. CASE MailSent(k)
  <2> DEFINE new == [NoMail EXCEPT !.state = "done", !.doneAt = Now]
  <2>1. /\ new \in Mails /\ new.state = "done" /\ new.doneAt = Now /\ new.moves = {}
        /\ new.tries = 0
    BY <1>1, <1>2 DEF NoMail, Mails
  <2>2. mail' = [mail EXCEPT ![k] = new] /\ UNCHANGED <<world, job, owner, stalls, run, added>>
    BY <1>3 DEF MailSent
  <2> HIDE DEF new
  <2>3. mail'[k] = new
    BY <2>2 DEF IInv, TypeOK
  <2>4. MailOK(k)'
    <3>1. added[k] = 1 /\ k[2] <= day
      BY <1>1, <1>3 DEF MailOK, MailSent
    <3>2. UNCHANGED <<day, added>>
      BY <2>2 DEF world
    <3>3. new.doneAt >= 2 * k[2]
      BY <1>1, <1>2, <2>1, <3>1
    <3> QED
      BY <2>1, <2>3, <3>1, <3>2, <3>3 DEF MailOK
  <2>5. (new.state = "waiting" => new.moves \cup new.alerts # {}) /\ ~ (new.tries > 0)
    BY <2>1
  <2> QED
    BY <2>1, <2>2, <2>4, <2>5, QueueStep
<1>4. CASE MailRefused(k)
  <2>1. PICK new : /\ new \in Mails /\ new.state \in {"waiting", "failed"}
                   /\ new.moves \subseteq mail[k].moves
                   /\ new.state = "waiting" => new.moves \cup new.alerts # {}
                   /\ new.tries > 0 => new.state = "waiting"
                   /\ mail' = [mail EXCEPT ![k] = new]
    <3>1. CASE mail[k].tries + 1 < Attempts /\ mail' = [mail EXCEPT ![k].tries = @ + 1]
      <4> DEFINE n == [mail[k] EXCEPT !.tries = @ + 1]
      <4>1. /\ n \in Mails /\ n.state = "waiting" /\ n.moves = mail[k].moves
            /\ n.alerts = mail[k].alerts
        BY <1>1, <1>4, <3>1 DEF Mails, MailRefused
      <4>2. mail' = [mail EXCEPT ![k] = n]
        BY <3>1 DEF IInv, TypeOK
      <4> HIDE DEF n
      <4> QED
        BY <1>4, <4>1, <4>2 DEF IInv, TypeOK, MailRefused
    <3>2. CASE mail' = [mail EXCEPT ![k] = [NoMail EXCEPT !.state = "failed"]]
      <4> DEFINE n == [NoMail EXCEPT !.state = "failed"]
      <4>1. n \in Mails /\ n.state = "failed" /\ n.moves = {} /\ n.tries = 0
        BY DEF NoMail, Mails
      <4>2. mail' = [mail EXCEPT ![k] = n]
        BY <3>2
      <4> HIDE DEF n
      <4>3. /\ n.state \in {"waiting", "failed"} /\ n.moves \subseteq mail[k].moves
            /\ n.state = "waiting" => n.moves \cup n.alerts # {}
            /\ n.tries > 0 => n.state = "waiting"
        BY <4>1
      <4> QED
        BY <4>1, <4>2, <4>3
    <3> QED
      BY <1>4, <3>1, <3>2 DEF MailRefused
  <2>2. UNCHANGED <<world, job, owner, stalls, run, added>> /\ mail'[k] = new
    BY <1>4, <2>1 DEF MailRefused, IInv, TypeOK
  <2>3. MailOK(k)'
    BY <1>1, <1>4, <2>1, <2>2 DEF MailOK, MailRefused, world
  <2> QED
    BY <2>1, <2>2, <2>3, QueueStep
<1>5. CASE MailRemoved(k)
  <2>1. mail' = [mail EXCEPT ![k] = NoMail] /\ UNCHANGED <<world, job, owner, stalls, run, added>>
    BY <1>5 DEF MailRemoved
  <2>2. mail'[k] = NoMail
    BY <2>1 DEF IInv, TypeOK
  <2>3. k[2] + 2 <= day
    <3>1. mail[k].doneAt >= 2 * k[2] /\ Now >= mail[k].doneAt + 2 * Retention
      BY <1>1, <1>5 DEF MailOK, MailRemoved
    <3>2. mail[k].doneAt \in Nat
      BY <1>1 DEF Mails
    <3> QED
      BY <1>1, <1>2, <3>1, <3>2
  <2>4. MailOK(k)'
    BY <1>1, <2>1, <2>2, <2>3 DEF MailOK, NoMail, world
  <2> QED
    <3>1. NoMail.state = "none" /\ ~ (NoMail.tries > 0)
      BY DEF NoMail
    <3> QED
      BY <1>1, <2>1, <2>4, <3>1, QueueStep
<1> QED
  BY <1>3, <1>4, <1>5
-----------------------------------------------------------------------------
LEMMA StepHolds == IInv /\ [Next]_vars => IInv'
<1> SUFFICES ASSUME IInv, [Next]_vars PROVE IInv'
  OBVIOUS
<1>1. CASE Midnight \/ Morning \/ Reprocess \/ Stall
  BY <1>1, MidnightHolds, MorningHolds, JobHolds
<1>2. CASE \E b \in Branches : Move(b)
  BY <1>2, MoveHolds
<1>3. CASE \E m \in Members : Change(m)
  BY <1>3, ChangeHolds
<1>4. CASE \E t \in Tenants : ChangeStatus(t)
  BY <1>4, StatusHolds
<1>5. CASE \E w \in Workers : Worker(w) \/ Fail(w) \/ Crash(w)
  <2>1. PICK w \in Workers : Worker(w) \/ Fail(w) \/ Crash(w)
    BY <1>5
  <2>2. CASE Start(w) \/ ListTenants(w) \/ ReadNews(w)
    BY <2>2, StartHolds, ListTenantsHolds, ReadNewsHolds
  <2>3. CASE \E t \in Tenants : ListMembers(w, t)
    BY <2>3, ListMembersHolds
  <2>4. CASE \E r \in run[w].to : Send(w, r)
    BY <2>4, SendHolds
  <2>5. CASE Finish(w) \/ Fail(w) \/ Crash(w)
    BY <2>5, LeaveHolds
  <2> QED
    BY <2>1, <2>2, <2>3, <2>4, <2>5 DEF Worker
<1>6. CASE \E k \in Keys : MailSent(k) \/ MailRefused(k) \/ MailRemoved(k)
  BY <1>6, MailStep
<1>7. CASE UNCHANGED vars
  <2>1. UNCHANGED <<world, queue, job, owner, stalls, run>>
    BY <1>7 DEF vars, world, queue
  <2>2. TypeOK' /\ Shapes' /\ \A k \in Keys : MailOK(k)'
    BY <2>1, TypeFrame DEF IInv, Shapes, TypeOK
  <2>3. \A w \in Workers : RunOK(w)'
    BY <2>1, <2>2, RunFrame DEF queue
  <2> QED
    BY <2>2, <2>3 DEF IInv
<1> QED
  BY <1>1, <1>2, <1>3, <1>4, <1>5, <1>6, <1>7 DEF Next

(* What a run remembers and what each mail has been through, at all times. *)
THEOREM Invariance == Spec => []IInv
BY InitHolds, StepHolds, PTL DEF Spec

(* The types, the owner of the job and the news in each mail that waits.   *)
THEOREM TypeCorrect == Spec => []TypeOK
BY Invariance, PTL DEF IInv

(* At most one mail job a day for each member, whatever stalls, is run     *)
(* again or overlaps (the job id of sendDailyDigest and the age of         *)
(* removeOnComplete).  How often that job delivers is up to the mail       *)
(* server: a send it took and refused afterwards is tried again.           *)
THEOREM OneMailJobAlways == Spec => []OneMailJobPerDay
<1>1. IInv => OneMailJobPerDay
  BY DEF IInv, Shapes, OneMailJobPerDay
<1> QED
  BY <1>1, Invariance, PTL

(* A digest never tells of another day than the one before it.             *)
THEOREM OnlyTheDayBeforeAlways == Spec => []OnlyTheDayBefore
<1>1. IInv => OnlyTheDayBefore
  BY DEF IInv, MailOK, OnlyTheDayBefore
<1> QED
  BY <1>1, Invariance, PTL

-----------------------------------------------------------------------------
(* Only a run adds a mail, and for somebody it listed.                     *)
LEMMA AddedBySend ==
  ASSUME IInv, [Next]_vars, NEW k \in Keys, added'[k] > added[k]
  PROVE  \E w \in Workers : \E r \in run[w].to : Send(w, r)
<1>1. ASSUME UNCHANGED added PROVE FALSE
  BY <1>1 DEF IInv, Shapes
<1>2. CASE Midnight \/ Morning \/ Reprocess \/ Stall \/ UNCHANGED vars
  BY <1>1, <1>2 DEF Midnight, Morning, Reprocess, Stall, vars, queue
<1>3. CASE (\E b \in Branches : Move(b)) \/ (\E m \in Members : Change(m))
  BY <1>1, <1>3 DEF Move, Change, queue
<1>4. CASE \E t \in Tenants : ChangeStatus(t)
  BY <1>1, <1>4 DEF ChangeStatus, queue
<1>5. CASE \E w \in Workers : Worker(w) \/ Fail(w) \/ Crash(w)
  BY <1>1, <1>5 DEF Worker, Start, ListTenants, ListMembers, ReadNews, Finish, Fail, Crash, queue
<1>6. CASE \E l \in Keys : MailSent(l) \/ MailRefused(l) \/ MailRemoved(l)
  BY <1>1, <1>6 DEF MailSent, MailRefused, MailRemoved
<1> QED
  BY <1>2, <1>3, <1>4, <1>5, <1>6 DEF Next

LEMMA AddedAllowed ==
  ASSUME IInv, NEW w \in Workers, NEW r \in run[w].to, Send(w, r),
         NEW k \in Keys, added'[k] > added[k]
  PROVE  /\ w \in Running /\ Allowed(w, k, mail'[k])
         /\ \E s \in run[w].held[k[1]] : s.active /\ (s.summary \/ s.alerts)
<1> USE TenantsAssumption, BoundsAssumption
<1> DEFINE moves == IF r.summary THEN run[w].moves \cap r.scope ELSE {}
           alerts == run[w].alerts \cap r.scope
           l == <<r.member, run[w].today>>
           new == [NoMail EXCEPT !.state = "waiting", !.moves = moves, !.alerts = alerts]
<1>1. run[w] \in Runs /\ run[w].at = "send" /\ w \in Running
  BY DEF IInv, Shapes, Send, Running
<1>2. Timely(w) /\ Remembers(w) /\ Listed(w)
  BY <1>1 DEF IInv, RunOK
<1>3. mail[l].state = "none" /\ mail' = [mail EXCEPT ![l] = new] /\ added' = [added EXCEPT ![l] = @ + 1]
  <2>1. UNCHANGED queue \/ AddMail(l, moves, alerts)
    BY DEF Send
  <2>2. ~ UNCHANGED queue
    BY DEF queue, IInv, Shapes
  <2> HIDE DEF l, moves, alerts
  <2> QED
    BY <2>1, <2>2 DEF AddMail
<1>4. k = l
  BY <1>3 DEF IInv, Shapes
<1>5. mail'[k] = new
  BY <1>3, <1>4 DEF IInv, TypeOK
<1>6. new.moves = moves /\ new.alerts = alerts
  BY DEF NoMail
<1>7. PICK s \in run[w].held[r.member] :
        /\ s.active /\ (s.summary \/ s.alerts)
        /\ r.summary = s.summary /\ r.scope = InScope(r.member, s)
  BY <1>1, <1>2 DEF Listed
<1>8. r.member \in Members /\ s \in Settings(r.member)
  BY <1>1, <1>2, <1>7 DEF Runs, Remembers
<1>9. Sees(r.member, s, moves \cup alerts)
  <2>1. moves \cup alerts \subseteq InScope(r.member, s)
    BY <1>7
  <2> QED
    BY <1>8, <2>1, ScopeOfTenant DEF Sees, InScope
<1>10. TenantOf[r.member] \in run[w].open
  BY <1>1, <1>2 DEF Listed, Remembers
<1>11. moves # {} => s.summary
  BY <1>7
<1> HIDE DEF new, moves, alerts
<1>12. k[1] = r.member /\ k[2] = run[w].today
  BY <1>4
<1> QED
  BY <1>1, <1>5, <1>6, <1>7, <1>9, <1>10, <1>11, <1>12 DEF Allowed

(* A digest goes to whom it may: somebody who was an active member of a    *)
(* tenant open at a moment of the run, of branches seen then, with         *)
(* movements only if the summary was wanted (DailyDigestProcessor.process).*)
THEOREM MailsAlwaysAllowed == Spec => MailsAsAllowed
<1>1. ASSUME IInv, [Next]_vars
      PROVE  \A k \in Keys : added'[k] > added[k] => \E w \in Running : Allowed(w, k, mail'[k])
  BY <1>1, AddedBySend, AddedAllowed
<1> QED
  BY <1>1, Invariance, PTL DEF Spec, MailsAsAllowed

(* The finding about the preferences, delimited: the alerts do go to some  *)
(* who do not want them, but never to anybody who wanted neither of the    *)
(* two mails at every moment of the run (DailyDigestProcessor leaves those *)
(* out when it lists the recipients).                                      *)
THEOREM MailsAlwaysWanted ==
  Spec => [][\A k \in Keys : added'[k] > added[k] =>
                \E w \in Running : \E s \in run[w].held[k[1]] :
                    s.active /\ (s.summary \/ s.alerts)]_vars
<1>1. ASSUME IInv, [Next]_vars
      PROVE  \A k \in Keys : added'[k] > added[k] =>
                \E w \in Running : \E s \in run[w].held[k[1]] :
                    s.active /\ (s.summary \/ s.alerts)
  <2> SUFFICES ASSUME NEW k \in Keys, added'[k] > added[k]
               PROVE  \E w \in Running : \E s \in run[w].held[k[1]] :
                          s.active /\ (s.summary \/ s.alerts)
    OBVIOUS
  <2>1. PICK w \in Workers : \E r \in run[w].to : Send(w, r)
    BY <1>1, AddedBySend
  <2>2. w \in Running /\ \E s \in run[w].held[k[1]] : s.active /\ (s.summary \/ s.alerts)
    BY <1>1, <2>1, AddedAllowed
  <2> QED
    BY <2>2
<1> QED
  BY <1>1, Invariance, PTL DEF Spec

(* A run that completes forgot nobody who was due, whatever happened to    *)
(* the other members and tenants while it went from one to the next.       *)
THEOREM CompletedAlwaysReachesAll == Spec => CompletedRunReachesAll
<1>1. ASSUME IInv, NEW w \in Workers, NEW m \in Members, Completes(w), Due(w, m)
      PROVE  added[<<m, run[w].today>>] > 0
  BY <1>1 DEF Completes, IInv, RunOK, Reaches, Awaits
<1>2. ASSUME IInv, [Next]_vars
      PROVE  \A w \in Workers, m \in Members :
               Completes(w) /\ Due(w, m) => added[<<m, run[w].today>>] > 0
  BY <1>1, <1>2
<1> QED
  BY <1>2, Invariance, PTL DEF Spec, CompletedRunReachesAll
=============================================================================
