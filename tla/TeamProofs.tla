----------------------------- MODULE TeamProofs ---------------------------
(***************************************************************************)
(* Theorems about Team, for any members, accounts, addresses, requests and *)
(* plan: its types and locks, the plan's users, one place per person, and *)
(* what makes an invitation a membership.                                 *)
(***************************************************************************)
EXTENDS Team, FiniteSetTheorems, TLAPS

States == {"idle", "lock", "check", "find", "insert", "clear", "again", "resend", "delete",
           "rows", "remove", "claim", "bind", "join", "done"}

BranchRows == SUBSET (Branches \X Requests)

(* An invite and an update that rewrite the branches of a membership.     *)
InviteOps ==
    [kind : {"invite"}, email : Emails, role : {"ADMIN", "STAFF"}, branches : SUBSET Branches,
     account : Accounts, row : Members, todo : BranchRows, gone : BranchRows,
     put : SUBSET Branches]
UpdateOps ==
    [kind : {"update"}, row : Members, role : Roles \cup {None}, was : Roles,
     branches : SUBSET Branches, todo : BranchRows, gone : BranchRows, put : SUBSET Branches]

Rewrites(r) ==
    /\ pc[r] \in {"clear", "again"} => op[r] \in InviteOps
    /\ pc[r] = "rows" => op[r] \in UpdateOps

(* What a request asked for has its type, and what it read still holds:   *)
(* an invite knows the account of its address unless that has moved, and  *)
(* its checks under the tenant's lock stay true; the row that an accept   *)
(* has claimed is still the invitation of its link.                       *)
Invites(r) ==
    pc[r] \in {"lock", "check", "find", "insert", "clear", "again"} =>
        /\ op[r].kind = "invite" /\ op[r].email \in Emails
        /\ op[r].role \in {"ADMIN", "STAFF"} /\ op[r].branches \subseteq Branches
        /\ op[r].account \in Accounts \cup {None}
        /\ op[r].account # None =>
              /\ emailOf[op[r].account] # None
              /\ op[r].account \in moved \/ emailOf[op[r].account] = op[r].email

Checked(r) ==
    /\ pc[r] \in {"find", "insert", "clear", "again"} =>
          /\ Cardinality(Seats) < MaxUsers
          /\ \A n \in Members : Seated(n) /\ member[n].account \notin moved =>
                                   op[r].email \notin Addresses(n)
    /\ pc[r] \in {"clear", "again"} =>
          /\ op[r].row \in Members /\ op[r].account # None
          /\ member[op[r].row].account = op[r].account

Manages(r) ==
    /\ pc[r] \in {"resend", "remove", "delete"} => op[r].row \in Members
    /\ pc[r] = "delete" =>
          /\ op[r].kind = "update" /\ op[r].was \in Roles
          /\ op[r].role \in Roles \cup {None} /\ op[r].branches \subseteq Branches

Accepts(r) ==
    /\ pc[r] \in {"claim", "bind", "join"} =>
          /\ op[r].row \in Members /\ op[r].email \in Emails
          /\ member[op[r].row].status # "none"
          /\ member[op[r].row].status = "INVITED" => member[op[r].row].invited = op[r].email
    /\ pc[r] \in {"bind", "join"} =>
          /\ member[op[r].row].status = "INVITED"
          /\ member[op[r].row].token = op[r].secret
    /\ pc[r] = "join" =>
          /\ op[r].account \in Accounts \cup {None}
          /\ op[r].account # None =>
                /\ emailOf[op[r].account] # None
                /\ op[r].account \in moved \/ emailOf[op[r].account] = op[r].email

Ready(r) == Invites(r) /\ Checked(r) /\ Rewrites(r) /\ Manages(r) /\ Accepts(r)

(* A row belongs to an account that has an address, or to an address.     *)
RowOK(m) ==
    /\ member[m].status = "none" => member[m].account = None
    /\ member[m].account # None =>
          emailOf[member[m].account] # None /\ member[m].invited = None
    /\ member[m].status = "ACTIVE" => member[m].account # None
    /\ member[m].status = "INVITED" => member[m].account = None /\ member[m].invited # None

IInv ==
    /\ TypeOK
    /\ pc \in [Requests -> States] /\ op = [r \in Requests |-> op[r]]
    /\ \A r \in Requests : Ready(r)
    /\ \A m \in Members : RowOK(m)
    /\ IsFiniteSet(Seats)
    /\ SeatsWithinPlan
    /\ OnePlacePerPerson
-----------------------------------------------------------------------------
(* The writes.                                                            *)

(* The statuses, accounts and branches of a row.                          *)
LEMMA RowType ==
    ASSUME TypeOK, NEW m \in Members
    PROVE  /\ member[m] \in Rows
           /\ member[m].status \in {"none", "INVITED", "ACTIVE", "REMOVED"}
           /\ member[m].account \in Accounts \cup {None}
           /\ member[m].invited \in Emails \cup {None}
           /\ member[m].token \in Requests \cup {None}
           /\ member[m].role \in Roles /\ member[m].branches \in BranchRows
BY DEF TypeOK, Rows, BranchRows

LEMMA NoRowType == NoRow \in Rows
BY DEF NoRow, Rows, Roles

(* What a request held is released when it is answered.                   *)
LEMMA ReleaseLocks ==
    ASSUME IInv, NEW r \in Requests, Release(r), op' = op
    PROVE  /\ tenantLock' \in Requests \cup {None}
           /\ \A q \in Requests : tenantLock' = q <=> pc'[q] \in {"check", "find", "insert", "clear", "again"}
           /\ rowLock' \in [Members -> Requests \cup {None}]
           /\ \A q \in Requests, m \in Members :
                 rowLock'[m] = q <=> pc'[q] \in {"again", "bind", "join"} /\ op'[q].row = m
           /\ pc' \in [Requests -> States] /\ pc'[r] = "done"
           /\ \A q \in Requests \ {r} : pc'[q] = pc[q]
<1>1. /\ pc \in [Requests -> States] /\ pc' = [pc EXCEPT ![r] = "done"]
      /\ tenantLock' = IF tenantLock = r THEN None ELSE tenantLock
      /\ rowLock' = [m \in Members |-> IF rowLock[m] = r THEN None ELSE rowLock[m]]
      /\ tenantLock \in Requests \cup {None}
      /\ \A q \in Requests : tenantLock = q <=> pc[q] \in {"check", "find", "insert", "clear", "again"}
      /\ rowLock \in [Members -> Requests \cup {None}]
      /\ \A q \in Requests, m \in Members :
            rowLock[m] = q <=> pc[q] \in {"again", "bind", "join"} /\ op[q].row = m
  BY DEF IInv, TypeOK, Release, Goto
<1>2. /\ pc' \in [Requests -> States] /\ pc'[r] = "done"
      /\ \A q \in Requests \ {r} : pc'[q] = pc[q]
  BY <1>1 DEF States
<1>3. \A q \in Requests : tenantLock' = q <=> pc'[q] \in {"check", "find", "insert", "clear", "again"}
  BY <1>1, <1>2, NoneAssumption
<1>4. rowLock' \in [Members -> Requests \cup {None}]
  BY <1>1
<1>5. ASSUME NEW q \in Requests, NEW m \in Members
      PROVE  rowLock'[m] = q <=> pc'[q] \in {"again", "bind", "join"} /\ op'[q].row = m
  <2>1. rowLock'[m] = IF rowLock[m] = r THEN None ELSE rowLock[m]
    BY <1>1
  <2> QED BY <1>1, <1>2, <2>1, NoneAssumption
<1> QED BY <1>1, <1>2, <1>3, <1>4, <1>5

(* The addresses of accounts only grow, and so whoever had one keeps it.  *)
Registered ==
    /\ emailOf' \in [Accounts -> Emails \cup {None}]
    /\ \A u \in Accounts : emailOf[u] # None => emailOf'[u] = emailOf[u]
    /\ moved' = moved

(* One row is written.  Its account stays, it takes no place of another,  *)
(* and it gets a seat only from an invite that holds the tenant row.      *)
LEMMA RowWritten ==
    ASSUME IInv, NEW r \in Requests, NEW m \in Members, NEW row \in Rows,
           member' = [member EXCEPT ![m] = row], Release(r), op' = op, Registered,
           rowLock[m] \in {None, r}, RowOK(m)',
           member[m].account # None => row.account = member[m].account,
           member[m].status # "none" =>
              /\ row.status # "none"
              /\ row.status = "INVITED" =>
                    member[m].status = "INVITED" /\ row.invited = member[m].invited,
           \A n \in Members \ {m} : row.account # None => member[n].account # row.account,
           Seated(m)' =>
              \/ /\ Seated(m)
                 /\ row.account \notin moved =>
                       /\ member[m].account \notin moved
                       /\ Addresses(m)' \subseteq Addresses(m) \cup {None}
              \/ /\ tenantLock = r /\ pc[r] \in {"insert", "again"}
                 /\ row.account \notin moved => Addresses(m)' \subseteq {op[r].email, None}
    PROVE  IInv'
<1>1. /\ TypeOK /\ member \in [Members -> Rows] /\ moved' = moved
      /\ op = [q \in Requests |-> op[q]]
      /\ \A u \in Accounts : emailOf[u] # None => emailOf'[u] = emailOf[u]
      /\ \A n \in Members : RowOK(n)
  BY DEF IInv, TypeOK, Registered
<1>2. /\ member' \in [Members -> Rows] /\ member'[m] = row
      /\ \A n \in Members \ {m} : member'[n] = member[n]
  BY <1>1
<1>3. /\ \A n \in Members \ {m} : Seated(n)' <=> Seated(n)
      /\ \A n \in Members \ {m} : Addresses(n)' = Addresses(n)
  <2>1. ASSUME NEW n \in Members \ {m}
        PROVE  (Seated(n)' <=> Seated(n)) /\ Addresses(n)' = Addresses(n)
    <3>1. member[n].account # None => member[n].account \in Accounts
      BY <1>1, RowType
    <3> QED BY <1>1, <1>2, <3>1 DEF RowOK, Seated, Addresses
  <2> QED BY <2>1
<1>4. TypeOK'
  BY <1>1, <1>2, ReleaseLocks DEF TypeOK, Registered
<1>5. ASSUME NEW n \in Members PROVE RowOK(n)'
  <2>1. CASE n = m
    BY <2>1
  <2>2. CASE n # m
    <3>1. member[n].account # None => member[n].account \in Accounts
      BY <1>1, RowType
    <3> QED BY <1>1, <1>2, <2>2, <3>1 DEF RowOK
  <2> QED BY <2>1, <2>2
<1>6. /\ Seated(m)' => Seats' = Seats \cup {m}
      /\ ~Seated(m)' => Seats' = Seats \ {m}
  BY <1>3 DEF Seats
<1>7. IsFiniteSet(Seats') /\ SeatsWithinPlan'
  <2>1. IsFiniteSet(Seats) /\ Cardinality(Seats) \in Nat /\ MaxUsers \in Nat
    BY BoundsAssumption, FS_CardinalityType DEF IInv
  <2>2. Cardinality(Seats) <= MaxUsers
    BY DEF IInv, SeatsWithinPlan
  <2>3. CASE ~Seated(m)'
    <3>1. Seats' \subseteq Seats
      BY <1>6, <2>3
    <3>2. IsFiniteSet(Seats') /\ Cardinality(Seats') <= Cardinality(Seats)
      BY <2>1, <3>1, FS_Subset
    <3>3. Cardinality(Seats') \in Nat
      BY <3>2, FS_CardinalityType
    <3> QED BY <2>1, <2>2, <3>2, <3>3 DEF SeatsWithinPlan
  <2>4. CASE Seated(m)' /\ Seated(m)
    <3>1. Seats' = Seats
      BY <1>6, <2>4 DEF Seats
    <3> QED BY <2>1, <2>2, <3>1 DEF SeatsWithinPlan
  <2>5. CASE Seated(m)' /\ ~Seated(m)
    <3>1. Cardinality(Seats) < MaxUsers
      BY <2>5 DEF IInv, Ready, Checked
    <3>2. m \notin Seats
      BY <2>5 DEF Seats
    <3>3. IsFiniteSet(Seats') /\ Cardinality(Seats') = Cardinality(Seats) + 1
      BY <1>6, <2>1, <2>5, <3>2, FS_AddElement
    <3> QED BY <2>1, <3>1, <3>3 DEF SeatsWithinPlan
  <2> QED BY <2>3, <2>4, <2>5
<1>8. OnePlacePerPerson'
  <2>1. ASSUME NEW n \in Members \ {m}, Seated(m)', Seated(n)',
               member'[m].account \notin moved', member'[n].account \notin moved'
        PROVE  Addresses(m)' \cap Addresses(n)' \subseteq {None}
    <3>1. /\ Seated(n) /\ Addresses(n)' = Addresses(n) /\ member[n].account \notin moved
          /\ row.account \notin moved
      BY <1>1, <1>2, <1>3, <2>1
    <3>2. CASE Seated(m) /\ member[m].account \notin moved
               /\ Addresses(m)' \subseteq Addresses(m) \cup {None}
      <4>1. (Addresses(m) \cap Addresses(n)) \ {None} = {}
        BY <3>1, <3>2 DEF IInv, OnePlacePerPerson
      <4> QED BY <3>1, <3>2, <4>1
    <3>3. CASE tenantLock = r /\ pc[r] \in {"insert", "again"} /\ Addresses(m)' \subseteq {op[r].email, None}
      <4>1. op[r].email \notin Addresses(n)
        BY <3>1, <3>3 DEF IInv, Ready, Checked
      <4> QED BY <3>1, <3>3, <4>1
    <3> QED BY <2>1, <3>1, <3>2, <3>3
  <2>2. ASSUME NEW n \in Members, NEW k \in Members, n # k, member'[n].account # None
        PROVE  member'[n].account # member'[k].account
    BY <1>2, <2>2 DEF IInv, OnePlacePerPerson
  <2>3. ASSUME NEW n \in Members, NEW k \in Members, n # k, Seated(n)', Seated(k)',
               {member'[n].account, member'[k].account} \cap moved' = {}
        PROVE  (Addresses(n)' \cap Addresses(k)') \ {None} = {}
    <3>1. CASE n = m
      BY <2>1, <2>3, <3>1
    <3>2. CASE k = m
      BY <2>1, <2>3, <3>2
    <3>3. CASE n # m /\ k # m
      <4>1. /\ Seated(n) /\ Seated(k)
            /\ {member[n].account, member[k].account} \cap moved = {}
            /\ Addresses(n)' = Addresses(n) /\ Addresses(k)' = Addresses(k)
        BY <1>1, <1>2, <1>3, <2>3, <3>3
      <4>2. (Addresses(n) \cap Addresses(k)) \ {None} = {}
        BY <2>3, <4>1 DEF IInv, OnePlacePerPerson
      <4> QED BY <4>1, <4>2
    <3> QED BY <3>1, <3>2, <3>3
  <2> QED BY <2>2, <2>3 DEF OnePlacePerPerson
<1>9. ASSUME NEW q \in Requests PROVE Ready(q)'
  <2>1. CASE q = r
    <3>1. pc'[q] = "done"
      BY <2>1, ReleaseLocks
    <3> QED BY <3>1 DEF Ready, Invites, Checked, Rewrites, Manages, Accepts
  <2>2. CASE q # r
    <3>1. Ready(q) /\ pc'[q] = pc[q] /\ op'[q] = op[q]
      BY <2>2, ReleaseLocks DEF IInv
    <3>2. Invites(q)'
      <4>1. op[q].account \in Accounts \/ op[q].account = None
              => (op[q].account # None /\ emailOf[op[q].account] # None
                    => emailOf'[op[q].account] = emailOf[op[q].account])
        BY <1>1
      <4> QED BY <1>1, <3>1, <4>1 DEF Ready, Invites
    <3>3. Checked(q)'
      <4>1. CASE pc[q] \in {"find", "insert", "clear", "again"}
        <5>1. tenantLock # r
          BY <1>1, <2>2, <4>1 DEF TypeOK
        <5>2. op[q].email # None
          BY <3>1, <4>1, NoneAssumption DEF Ready, Invites
        <5>3. Cardinality(Seats') < MaxUsers
          <6>1. Seats' \subseteq Seats
            BY <1>6, <5>1 DEF Seats
          <6>2. IsFiniteSet(Seats) /\ Cardinality(Seats) \in Nat /\ MaxUsers \in Nat
            BY BoundsAssumption, FS_CardinalityType DEF IInv
          <6>3. Cardinality(Seats') <= Cardinality(Seats) /\ Cardinality(Seats') \in Nat
            BY <1>7, <6>1, <6>2, FS_Subset, FS_CardinalityType
          <6>4. Cardinality(Seats) < MaxUsers
            BY <3>1, <4>1 DEF Ready, Checked
          <6> QED BY <6>2, <6>3, <6>4
        <5>4. ASSUME NEW n \in Members, Seated(n)', member'[n].account \notin moved'
              PROVE  op[q].email \notin Addresses(n)'
          <6>1. CASE n = m
            <7>1. /\ Seated(m) /\ member[m].account \notin moved
                  /\ Addresses(m)' \subseteq Addresses(m) \cup {None}
              BY <1>1, <1>2, <5>1, <5>4, <6>1
            <7>2. op[q].email \notin Addresses(m)
              BY <3>1, <4>1, <7>1 DEF Ready, Checked
            <7> QED BY <5>2, <6>1, <7>1, <7>2
          <6>2. CASE n # m
            <7>1. Seated(n) /\ member[n].account \notin moved /\ Addresses(n)' = Addresses(n)
              BY <1>1, <1>2, <1>3, <5>4, <6>2
            <7> QED BY <3>1, <4>1, <7>1 DEF Ready, Checked
          <6> QED BY <6>1, <6>2
        <5>5. pc[q] \in {"clear", "again"} =>
                 /\ op[q].row \in Members /\ op[q].account # None
                 /\ member'[op[q].row].account = op[q].account
          BY <1>2, <3>1 DEF Ready, Checked
        <5> QED BY <3>1, <5>3, <5>4, <5>5 DEF Checked
      <4>2. CASE pc[q] \notin {"find", "insert", "clear", "again"}
        BY <3>1, <4>2 DEF Checked
      <4> QED BY <4>1, <4>2
    <3>4. Manages(q)' /\ Rewrites(q)'
      BY <3>1 DEF Ready, Manages, Rewrites
    <3>5. Accepts(q)'
      <4>1. pc[q] \in {"bind", "join"} => op[q].row # m
        BY <1>1, <2>2, NoneAssumption DEF TypeOK
      <4>2. pc[q] = "join" /\ op[q].account # None =>
               emailOf'[op[q].account] = emailOf[op[q].account]
        BY <1>1, <3>1 DEF Ready, Accepts
      <4> QED BY <1>1, <1>2, <3>1, <4>1, <4>2 DEF Ready, Accepts
    <3> QED BY <3>2, <3>3, <3>4, <3>5 DEF Ready
  <2> QED BY <2>1, <2>2
<1> QED BY <1>1, <1>4, <1>5, <1>7, <1>8, <1>9, ReleaseLocks DEF IInv
-----------------------------------------------------------------------------
(* The steps that write no row.                                           *)

LEMMA NoRowWritten ==
    ASSUME IInv, NEW r \in Requests, UNCHANGED <<member, people>>, TypeOK',
           pc' \in [Requests -> States], op' = [q \in Requests |-> op'[q]],
           \A q \in Requests \ {r} : pc'[q] = pc[q] /\ op'[q] = op[q],
           Ready(r)'
    PROVE  IInv'
<1>1. member' = member /\ emailOf' = emailOf /\ moved' = moved
  BY DEF people
<1>2. /\ \A n : Seated(n)' <=> Seated(n)
      /\ \A n : Addresses(n)' = Addresses(n)
      /\ Seats' = Seats
  BY <1>1 DEF Seated, Addresses, Seats
<1>3. \A n \in Members : RowOK(n)'
  BY <1>1 DEF IInv, RowOK
<1>4. IsFiniteSet(Seats') /\ SeatsWithinPlan' /\ OnePlacePerPerson'
  BY <1>1, <1>2 DEF IInv, SeatsWithinPlan, OnePlacePerPerson
<1>5. ASSUME NEW q \in Requests \ {r} PROVE Ready(q)'
  <2>1. Ready(q) /\ pc'[q] = pc[q] /\ op'[q] = op[q]
    BY DEF IInv
  <2>2. Invites(q)' /\ Rewrites(q)' /\ Manages(q)' /\ Accepts(q)'
    BY <1>1, <2>1 DEF Ready, Invites, Rewrites, Manages, Accepts
  <2>3. Checked(q)'
    BY <1>1, <1>2, <2>1 DEF Ready, Checked
  <2> QED BY <2>2, <2>3 DEF Ready
<1> QED BY <1>3, <1>4, <1>5 DEF IInv

LEMMA FailIInv ==
    ASSUME IInv, NEW r \in Requests, Fail(r)
    PROVE  IInv'
<1>1. Release(r) /\ op' = op /\ member' = member /\ emailOf' = emailOf /\ moved' = moved
  BY DEF Fail, people
<1>2. TypeOK'
  BY <1>1, ReleaseLocks DEF IInv, TypeOK
<1>3. Ready(r)'
  BY <1>1, ReleaseLocks DEF Ready, Invites, Checked, Rewrites, Manages, Accepts
<1> QED BY <1>1, <1>2, <1>3, ReleaseLocks, NoRowWritten DEF people, IInv

(* A request goes on without a lock given up or taken.                    *)
LEMMA GoesOn ==
    ASSUME IInv, NEW r \in Requests, NEW o, NEW where \in States,
           pc' = [pc EXCEPT ![r] = where], op' = [op EXCEPT ![r] = o],
           UNCHANGED <<member, people, locks>>,
           o.kind \in {"none", "invite", "resend", "update", "remove", "accept"},
           pc[r] \in {"check", "find", "insert", "clear", "again"} <=> where \in {"check", "find", "insert", "clear", "again"},
           pc[r] \in {"again", "bind", "join"} <=> where \in {"again", "bind", "join"},
           pc[r] \in {"again", "bind", "join"} => o.row = op[r].row, Ready(r)'
    PROVE  IInv'
<1>1. /\ TypeOK /\ pc \in [Requests -> States] /\ op = [q \in Requests |-> op[q]]
      /\ member' = member /\ emailOf' = emailOf /\ moved' = moved
      /\ tenantLock' = tenantLock /\ rowLock' = rowLock
  BY DEF IInv, people, locks
<1>2. /\ pc' \in [Requests -> States] /\ op' = [q \in Requests |-> op'[q]]
      /\ pc'[r] = where /\ op'[r] = o
      /\ \A q \in Requests \ {r} : pc'[q] = pc[q] /\ op'[q] = op[q]
  BY <1>1
<1>3. ASSUME NEW q \in Requests
      PROVE  /\ tenantLock' = q <=> pc'[q] \in {"check", "find", "insert", "clear", "again"}
             /\ \A m \in Members :
                   rowLock'[m] = q <=> pc'[q] \in {"again", "bind", "join"} /\ op'[q].row = m
             /\ op'[q].kind \in {"none", "invite", "resend", "update", "remove", "accept"}
  <2>1. CASE q = r
    BY <1>1, <1>2, <2>1 DEF TypeOK
  <2>2. CASE q # r
    BY <1>1, <1>2, <2>2 DEF TypeOK
  <2> QED BY <2>1, <2>2
<1>4. TypeOK'
  BY <1>1, <1>3 DEF TypeOK
<1> QED BY <1>1, <1>2, <1>4, NoRowWritten

LEMMA StartIInv ==
    ASSUME IInv, NEW r \in Requests, NEW o,
           NEW where \in {"lock", "resend", "delete", "remove", "claim"}, Start(r, o, where),
           o.kind \in {"invite", "resend", "update", "remove", "accept"}, Ready(r)'
    PROVE  IInv'
<1>1. where \in States
  BY DEF States
<1> QED BY <1>1, GoesOn DEF Start, Goto

(* The account known under an address has that address.                   *)
LEMMA KnownAccount ==
    ASSUME NEW e \in Emails
    PROVE  Known(e) # None => Known(e) \in Accounts /\ emailOf[Known(e)] = e
BY DEF Known, AccountOf

LEMMA InviteIInv ==
    ASSUME IInv, NEW r \in Requests, NEW e \in Emails, NEW role \in {"ADMIN", "STAFF"},
           NEW bs \in SUBSET Branches, Invite(r, e, role, bs)
    PROVE  IInv'
<1> DEFINE o == [kind |-> "invite", email |-> e, role |-> role, branches |-> bs,
                 account |-> Known(e)]
<1>1. /\ Start(r, o, "lock") /\ pc \in [Requests -> States] /\ op = [q \in Requests |-> op[q]]
  BY DEF Invite, IInv
<1>2. /\ o.kind = "invite" /\ o.email = e /\ o.role = role /\ o.branches = bs
      /\ o.account = Known(e)
  OBVIOUS
<1> HIDE DEF o
<1>3. pc'[r] = "lock" /\ op'[r] = o /\ emailOf' = emailOf /\ moved' = moved
  BY <1>1 DEF Start, Goto, people
<1>4. Ready(r)'
  BY <1>2, <1>3, KnownAccount, NoneAssumption DEF Ready, Invites, Checked, Rewrites, Manages, Accepts
<1> QED BY <1>1, <1>2, <1>4, StartIInv

LEMMA ResendIInv ==
    ASSUME IInv, NEW r \in Requests, NEW m \in Members, Resend(r, m)
    PROVE  IInv'
<1> DEFINE o == [kind |-> "resend", row |-> m]
<1>1. CASE Start(r, o, "resend")
  <2>1. pc'[r] = "resend" /\ op'[r] = o
    BY <1>1 DEF Start, Goto, IInv
  <2>2. Ready(r)'
    BY <2>1 DEF Ready, Invites, Checked, Rewrites, Manages, Accepts
  <2>3. o.kind = "resend"
    OBVIOUS
  <2> HIDE DEF o
  <2> QED BY <1>1, <2>2, <2>3, StartIInv
<1>2. CASE Fail(r)
  BY <1>2, FailIInv
<1> QED BY <1>1, <1>2 DEF Resend

LEMMA RemoveIInv ==
    ASSUME IInv, NEW r \in Requests, NEW m \in Members, Remove(r, m)
    PROVE  IInv'
<1> DEFINE o == [kind |-> "remove", row |-> m]
<1>1. CASE Start(r, o, "remove")
  <2>1. pc'[r] = "remove" /\ op'[r] = o
    BY <1>1 DEF Start, Goto, IInv
  <2>2. Ready(r)'
    BY <2>1 DEF Ready, Invites, Checked, Rewrites, Manages, Accepts
  <2>3. o.kind = "remove"
    OBVIOUS
  <2> HIDE DEF o
  <2> QED BY <1>1, <2>2, <2>3, StartIInv
<1>2. CASE Fail(r)
  BY <1>2, FailIInv
<1> QED BY <1>1, <1>2 DEF Remove

LEMMA UpdateIInv ==
    ASSUME IInv, NEW r \in Requests, NEW m \in Members, NEW role \in {"ADMIN", "STAFF", None},
           NEW bs \in ((SUBSET Branches) \ {{}}) \cup {None}, Update(r, m, role, bs)
    PROVE  IInv'
<1> DEFINE nextRole == IF role = None THEN member[m].role ELSE role
           next == IF nextRole = "ADMIN" THEN {}
                   ELSE IF bs = None THEN BranchIds(member[m].branches) ELSE bs
           o == [kind |-> "update", row |-> m, role |-> role, was |-> member[m].role,
                 branches |-> next]
<1>1. CASE Start(r, o, "delete")
  <2>1. next \subseteq Branches
    <3>1. BranchIds(member[m].branches) \subseteq Branches
      BY RowType DEF IInv, BranchIds, BranchRows
    <3> QED BY <3>1
  <2>2. /\ o.kind = "update" /\ o.row = m /\ o.role = role /\ o.branches = next
        /\ o.was = member[m].role /\ member[m].role \in Roles
    BY RowType DEF IInv
  <2> HIDE DEF next, o
  <2>3. pc'[r] = "delete" /\ op'[r] = o
    BY <1>1 DEF Start, Goto, IInv
  <2>4. Ready(r)'
    BY <2>1, <2>2, <2>3 DEF Ready, Invites, Checked, Rewrites, Manages, Accepts, Roles
  <2> QED BY <1>1, <2>2, <2>4, StartIInv
<1>2. CASE Fail(r)
  BY <1>2, FailIInv
<1> QED BY <1>1, <1>2 DEF Update

LEMMA AcceptIInv ==
    ASSUME IInv, NEW r \in Requests, NEW m \in Members, NEW secret \in Requests,
           Accept(r, m, secret)
    PROVE  IInv'
<1> DEFINE o == [kind |-> "accept", row |-> m, secret |-> secret, email |-> member[m].invited]
<1>1. CASE member[m].status = "INVITED" /\ member[m].invited # None /\ Start(r, o, "claim")
  <2>1. member[m].invited \in Emails
    BY <1>1, RowType DEF IInv
  <2>2. o.kind = "accept" /\ o.row = m /\ o.email = member[m].invited
    OBVIOUS
  <2> HIDE DEF o
  <2>3. pc'[r] = "claim" /\ op'[r] = o /\ member' = member
    BY <1>1 DEF Start, Goto, IInv
  <2>4. Ready(r)'
    BY <1>1, <2>1, <2>2, <2>3 DEF Ready, Invites, Checked, Rewrites, Manages, Accepts
  <2> QED BY <1>1, <2>2, <2>4, StartIInv
<1>2. CASE Fail(r)
  BY <1>2, FailIInv
<1> QED BY <1>1, <1>2 DEF Accept

LEMMA CallIInv ==
    ASSUME IInv, NEW r \in Requests, Call(r)
    PROVE  IInv'
BY InviteIInv, ResendIInv, RemoveIInv, UpdateIInv, AcceptIInv DEF Call

LEMMA InviteLockIInv ==
    ASSUME IInv, NEW r \in Requests, InviteLock(r)
    PROVE  IInv'
<1>1. /\ TypeOK /\ Ready(r) /\ pc[r] = "lock" /\ tenantLock = None /\ tenantLock' = r
      /\ pc \in [Requests -> States] /\ pc' = [pc EXCEPT ![r] = "check"]
      /\ op = [q \in Requests |-> op[q]] /\ op' = op /\ rowLock' = rowLock
      /\ member' = member /\ emailOf' = emailOf /\ moved' = moved
  BY DEF InviteLock, Goto, people, IInv
<1>2. /\ pc'[r] = "check" /\ pc' \in [Requests -> States]
      /\ \A q \in Requests \ {r} : pc'[q] = pc[q]
  BY <1>1 DEF States
<1>3. TypeOK'
  <2>1. \A q \in Requests : tenantLock' = q <=> pc'[q] \in {"check", "find", "insert", "clear", "again"}
    BY <1>1, <1>2, NoneAssumption DEF TypeOK
  <2>2. \A q \in Requests, m \in Members : rowLock'[m] = q <=> pc'[q] \in {"again", "bind", "join"} /\ op'[q].row = m
    BY <1>1, <1>2 DEF TypeOK
  <2> QED BY <1>1, <2>1, <2>2 DEF TypeOK
<1>4. Ready(r)'
  BY <1>1, <1>2 DEF Ready, Invites, Checked, Rewrites, Manages, Accepts
<1> QED BY <1>1, <1>2, <1>3, <1>4, NoRowWritten DEF people

LEMMA InviteCheckIInv ==
    ASSUME IInv, NEW r \in Requests, InviteCheck(r)
    PROVE  IInv'
<1>1. CASE Fail(r)
  BY <1>1, FailIInv
<1>2. ASSUME ~(InTeam(op[r].email) \/ Cardinality(Seats) >= MaxUsers),
             Goto(r, "find"), UNCHANGED <<member, op, people, locks>>
      PROVE  IInv'
  <2>1. /\ Ready(r) /\ pc[r] = "check" /\ pc \in [Requests -> States]
        /\ pc' = [pc EXCEPT ![r] = "find"] /\ op' = op /\ op = [q \in Requests |-> op[q]]
        /\ member' = member /\ emailOf' = emailOf /\ moved' = moved
        /\ UNCHANGED <<member, people, locks>>
    BY <1>2 DEF InviteCheck, Goto, people, IInv
  <2>2. pc'[r] = "find" /\ op' = [op EXCEPT ![r] = op[r]] /\ "find" \in States
    BY <2>1 DEF States
  <2>3. op[r].kind = "invite"
    BY <2>1 DEF Ready, Invites
  <2>4. Checked(r)'
    <3>1. Seats' = Seats /\ \A n : Addresses(n)' = Addresses(n)
      BY <2>1 DEF Seats, Seated, Addresses
    <3>2. Cardinality(Seats) < MaxUsers
      <4>1. Cardinality(Seats) \in Nat /\ MaxUsers \in Nat
        BY BoundsAssumption, FS_CardinalityType DEF IInv
      <4> QED BY <1>2, <4>1
    <3>3. \A n \in Members : Seated(n)' => op[r].email \notin Addresses(n)
      BY <1>2, <2>1 DEF InTeam, Seats, Seated
    <3> QED BY <2>1, <2>2, <3>1, <3>2, <3>3 DEF Checked
  <2>5. Ready(r)'
    BY <2>1, <2>2, <2>4 DEF Ready, Invites, Rewrites, Manages, Accepts
  <2> QED BY <2>1, <2>2, <2>3, <2>5, GoesOn
<1> QED BY <1>1, <1>2 DEF InviteCheck

LEMMA InviteFindIInv ==
    ASSUME IInv, NEW r \in Requests, InviteFind(r)
    PROVE  IInv'
<1> DEFINE mine == IF op[r].account = None THEN {} ELSE RowsOf(op[r].account)
           found == IF mine = {} THEN None ELSE CHOOSE m \in mine : TRUE
           rows == UNION {member[m].branches : m \in mine}
           where == IF mine = {} THEN "insert" ELSE "clear"
           o == [kind |-> "invite", email |-> op[r].email, role |-> op[r].role,
                 branches |-> op[r].branches, account |-> op[r].account,
                 row |-> found, todo |-> rows, gone |-> {}, put |-> {}]
<1>1. /\ Ready(r) /\ pc[r] = "find" /\ pc \in [Requests -> States]
      /\ op = [q \in Requests |-> op[q]]
      /\ pc' = [pc EXCEPT ![r] = where] /\ op' = [op EXCEPT ![r] = o]
      /\ member' = member /\ emailOf' = emailOf /\ moved' = moved
      /\ UNCHANGED <<member, people, locks>>
  BY DEF InviteFind, Learn, Goto, people, IInv
<1>2. where = "clear" => /\ found \in Members /\ op[r].account # None
                         /\ member[found].account = op[r].account
  BY DEF RowsOf
<1>3. rows \in BranchRows
  <2>1. \A m \in mine : member[m].branches \in BranchRows
    BY RowType DEF IInv, RowsOf
  <2> QED BY <2>1 DEF BranchRows
<1>4. where = "clear" => o \in InviteOps
  <2> HIDE DEF rows, found
  <2> QED BY <1>1, <1>2, <1>3 DEF Ready, Invites, InviteOps, BranchRows
<1>5. /\ o.kind = "invite" /\ o.email = op[r].email /\ o.role = op[r].role
      /\ o.branches = op[r].branches /\ o.account = op[r].account /\ o.row = found
      /\ where \in {"insert", "clear"}
  OBVIOUS
<1> HIDE DEF o, found, where
<1>6. pc'[r] = where /\ op'[r] = o /\ where \in States
  BY <1>1, <1>5 DEF States
<1>7. Checked(r)'
  <2>1. Seats' = Seats /\ \A n : Addresses(n)' = Addresses(n)
    BY <1>1 DEF Seats, Seated, Addresses
  <2>2. \A n : Seated(n)' <=> Seated(n)
    BY <1>1 DEF Seated
  <2> QED BY <1>1, <1>2, <1>5, <1>6, <2>1, <2>2 DEF Ready, Checked
<1>8. Ready(r)'
  <2>1. Invites(r)'
    BY <1>1, <1>5, <1>6 DEF Ready, Invites
  <2>2. Rewrites(r)' /\ Manages(r)' /\ Accepts(r)'
    BY <1>4, <1>5, <1>6 DEF Rewrites, Manages, Accepts
  <2> QED BY <1>7, <2>1, <2>2 DEF Ready
<1> QED BY <1>1, <1>5, <1>6, <1>8, GoesOn

LEMMA UpdateDeleteIInv ==
    ASSUME IInv, NEW r \in Requests, UpdateDelete(r)
    PROVE  IInv'
<1> DEFINE o == [kind |-> op[r].kind, row |-> op[r].row, role |-> op[r].role, was |-> op[r].was,
                 branches |-> op[r].branches, todo |-> member[op[r].row].branches,
                 gone |-> {}, put |-> {}]
<1>1. /\ Ready(r) /\ pc[r] = "delete" /\ pc \in [Requests -> States]
      /\ op = [q \in Requests |-> op[q]]
      /\ pc' = [pc EXCEPT ![r] = "rows"] /\ op' = [op EXCEPT ![r] = o]
      /\ UNCHANGED <<member, people, locks>>
  BY DEF UpdateDelete, Learn, Goto, IInv
<1>2. o \in UpdateOps
  <2>1. member[op[r].row].branches \in BranchRows
    BY <1>1, RowType DEF IInv, Ready, Manages
  <2> QED BY <1>1, <2>1 DEF Ready, Manages, UpdateOps, BranchRows
<1>3. o.kind = "update"
  BY <1>2 DEF UpdateOps
<1> HIDE DEF o
<1>4. pc'[r] = "rows" /\ op'[r] = o /\ "rows" \in States
  BY <1>1 DEF States
<1>5. Ready(r)'
  BY <1>2, <1>4 DEF Ready, Invites, Checked, Rewrites, Manages, Accepts
<1> QED BY <1>1, <1>3, <1>4, <1>5, GoesOn

(* A row is deleted or inserted, and what was asked for stays.            *)
Agrees(r, o) ==
    \/ /\ pc[r] \in {"clear", "again"} /\ {op[r], o} \subseteq InviteOps
       /\ o.email = op[r].email /\ o.role = op[r].role /\ o.branches = op[r].branches
       /\ o.account = op[r].account /\ o.row = op[r].row
    \/ /\ pc[r] = "rows" /\ {op[r], o} \subseteq UpdateOps
       /\ o.row = op[r].row /\ o.role = op[r].role /\ o.was = op[r].was
       /\ o.branches = op[r].branches

LEMMA RowAgrees ==
    ASSUME IInv, NEW r \in Requests,
           (\E x \in Branches \X Requests : DeleteRow(r, x)) \/ (\E b \in Branches : InsertRow(r, b)),
           ~Fail(r)
    PROVE  \E o : Learn(r, o, pc[r]) /\ Agrees(r, o)
<1>1. /\ pc[r] \in {"clear", "again"} => op[r] \in InviteOps
      /\ pc[r] = "rows" => op[r] \in UpdateOps
      /\ pc[r] \in {"clear", "again"} \/ pc[r] = "rows"
  BY DEF IInv, Ready, Rewrites, DeleteRow, InsertRow, Inserting
<1>2. ASSUME NEW x \in Branches \X Requests, DeleteRow(r, x)
      PROVE  \E o : Learn(r, o, pc[r]) /\ Agrees(r, o)
  <2> DEFINE now == {x} \cap member[op[r].row].branches
             todo == op[r].todo \ {x}
             gone == op[r].gone \cup now
             o == [op[r] EXCEPT !.todo = todo, !.gone = gone]
  <2>1. Learn(r, o, pc[r])
    BY <1>2 DEF DeleteRow
  <2>2. op[r].todo \in BranchRows /\ op[r].gone \in BranchRows
    BY <1>1 DEF InviteOps, UpdateOps
  <2>3. todo \in BranchRows /\ gone \in BranchRows
    BY <2>2 DEF BranchRows
  <2> HIDE DEF todo, gone
  <2>4. Agrees(r, o)
    <3>1. CASE pc[r] \in {"clear", "again"}
      BY <1>1, <2>3, <3>1 DEF Agrees, InviteOps
    <3>2. CASE pc[r] = "rows"
      BY <1>1, <2>3, <3>2 DEF Agrees, UpdateOps
    <3> QED BY <1>1, <3>1, <3>2
  <2> QED BY <2>1, <2>4
<1>3. ASSUME NEW b \in Branches, InsertRow(r, b)
      PROVE  \E o : Learn(r, o, pc[r]) /\ Agrees(r, o)
  <2> DEFINE put == op[r].put \cup {b}
             o == [op[r] EXCEPT !.put = put]
  <2>1. Learn(r, o, pc[r])
    BY <1>3 DEF InsertRow
  <2>2. put \in SUBSET Branches
    BY <1>1 DEF InviteOps, UpdateOps
  <2> HIDE DEF put
  <2>3. Agrees(r, o)
    <3>1. CASE pc[r] \in {"clear", "again"}
      BY <1>1, <2>2, <3>1 DEF Agrees, InviteOps
    <3>2. CASE pc[r] = "rows"
      BY <1>1, <2>2, <3>2 DEF Agrees, UpdateOps
    <3> QED BY <1>1, <3>1, <3>2
  <2> QED BY <2>1, <2>3
<1> QED BY <1>2, <1>3

LEMMA RowIInv ==
    ASSUME IInv, NEW r \in Requests,
           (\E x \in Branches \X Requests : DeleteRow(r, x)) \/ (\E b \in Branches : InsertRow(r, b))
    PROVE  IInv'
<1>1. CASE Fail(r)
  BY <1>1, FailIInv
<1>2. CASE ~Fail(r)
  <2>1. PICK o : Learn(r, o, pc[r]) /\ Agrees(r, o)
    BY <1>2, RowAgrees
  <2>2. /\ Ready(r) /\ pc \in [Requests -> States] /\ op = [q \in Requests |-> op[q]]
        /\ pc' = [pc EXCEPT ![r] = pc[r]] /\ op' = [op EXCEPT ![r] = o]
        /\ member' = member /\ emailOf' = emailOf /\ moved' = moved
        /\ UNCHANGED <<member, people, locks>>
    BY <2>1 DEF Learn, Goto, people, IInv
  <2>3. pc'[r] = pc[r] /\ op'[r] = o /\ pc[r] \in States /\ o.row = op[r].row
        /\ o.kind \in {"invite", "update"} /\ pc[r] \in {"clear", "again", "rows"}
    BY <2>1, <2>2 DEF Agrees, InviteOps, UpdateOps
  <2>4. /\ Seats' = Seats /\ \A n : Addresses(n)' = Addresses(n)
        /\ \A n : Seated(n)' <=> Seated(n)
    BY <2>2 DEF Seats, Seated, Addresses
  <2>5. Invites(r)' /\ Checked(r)'
    <3>1. CASE pc[r] \in {"clear", "again"}
      <4>1. /\ o.email = op[r].email /\ o.role = op[r].role /\ o.branches = op[r].branches
            /\ o.account = op[r].account /\ o.kind = "invite"
        BY <2>1, <3>1 DEF Agrees, InviteOps
      <4>2. Invites(r)'
        BY <2>2, <2>3, <4>1 DEF Ready, Invites
      <4>3. Checked(r)'
        BY <2>2, <2>3, <2>4, <3>1, <4>1 DEF Ready, Checked
      <4> QED BY <4>2, <4>3
    <3>2. CASE pc[r] = "rows"
      BY <2>3, <3>2 DEF Invites, Checked
    <3> QED BY <2>3, <3>1, <3>2
  <2>6. Rewrites(r)'
    BY <2>1, <2>3 DEF Agrees, Rewrites
  <2>7. Ready(r)'
    BY <2>3, <2>5, <2>6 DEF Ready, Manages, Accepts
  <2> HIDE DEF Ready
  <2> QED BY <2>1, <2>2, <2>3, <2>7, GoesOn
<1> QED BY <1>1, <1>2

(* A transaction updates a membership and goes on.                        *)
LEMMA RowTaken ==
    ASSUME IInv, NEW r \in Requests, NEW m \in Members, NEW where \in {"again", "bind"},
           op[r].row = m, rowLock[m] = None, rowLock' = [rowLock EXCEPT ![m] = r],
           Goto(r, where), UNCHANGED <<member, op, people, tenantLock>>,
           pc[r] = IF where = "again" THEN "clear" ELSE "claim", Ready(r)'
    PROVE  IInv'
<1>1. /\ TypeOK /\ pc \in [Requests -> States]
      /\ rowLock \in [Members -> Requests \cup {None}]
      /\ op = [q \in Requests |-> op[q]] /\ pc' = [pc EXCEPT ![r] = where] /\ op' = op
      /\ member' = member /\ tenantLock' = tenantLock /\ emailOf' = emailOf /\ moved' = moved
  BY DEF Goto, people, IInv, TypeOK
<1>2. /\ pc'[r] = where /\ pc' \in [Requests -> States]
      /\ \A q \in Requests \ {r} : pc'[q] = pc[q]
  BY <1>1 DEF States
<1>3. TypeOK'
  <2>1. \A q \in Requests : tenantLock' = q <=>
           pc'[q] \in {"check", "find", "insert", "clear", "again"}
    BY <1>1, <1>2 DEF TypeOK
  <2>2. ASSUME NEW q \in Requests, NEW n \in Members
        PROVE  rowLock'[n] = q <=> pc'[q] \in {"again", "bind", "join"} /\ op'[q].row = n
    <3>1. rowLock[n] = q <=> pc[q] \in {"again", "bind", "join"} /\ op[q].row = n
      BY <1>1 DEF TypeOK
    <3>2. rowLock'[n] = IF n = m THEN r ELSE rowLock[n]
      BY <1>1
    <3>3. CASE q = r
      BY <1>1, <1>2, <3>1, <3>2, <3>3
    <3>4. CASE q # r
      <4>1. pc'[q] = pc[q] /\ op'[q].row = op[q].row
        BY <1>1, <1>2, <3>4
      <4>2. n = m => rowLock[n] # q
        BY NoneAssumption
      <4> QED BY <3>1, <3>2, <3>4, <4>1, <4>2
    <3> QED BY <3>3, <3>4
  <2>3. rowLock' \in [Members -> Requests \cup {None}]
    BY <1>1
  <2> QED BY <1>1, <2>1, <2>2, <2>3 DEF TypeOK
<1> QED BY <1>1, <1>2, <1>3, NoRowWritten DEF people

LEMMA AcceptClaimIInv ==
    ASSUME IInv, NEW r \in Requests, AcceptClaim(r)
    PROVE  IInv'
<1> DEFINE m == op[r].row
<1>1. CASE Fail(r)
  BY <1>1, FailIInv
<1>2. ASSUME member[m].status = "INVITED", member[m].token = op[r].secret,
             rowLock' = [rowLock EXCEPT ![m] = r], Goto(r, "bind"),
             UNCHANGED <<member, op, people, tenantLock>>
      PROVE  IInv'
  <2>1. /\ Ready(r) /\ pc[r] = "claim" /\ pc \in [Requests -> States] /\ rowLock[m] = None
        /\ pc' = [pc EXCEPT ![r] = "bind"] /\ op' = op /\ member' = member
        /\ emailOf' = emailOf /\ moved' = moved
    BY <1>2 DEF AcceptClaim, Goto, people, IInv
  <2>2. m \in Members /\ pc'[r] = "bind"
    BY <2>1 DEF Ready, Accepts
  <2>3. Ready(r)'
    BY <1>2, <2>1, <2>2 DEF Ready, Invites, Checked, Rewrites, Manages, Accepts
  <2> QED BY <1>2, <2>1, <2>2, <2>3, RowTaken
<1> QED BY <1>1, <1>2 DEF AcceptClaim

LEMMA InviteUpdateIInv ==
    ASSUME IInv, NEW r \in Requests, InviteUpdate(r)
    PROVE  IInv'
<1> DEFINE m == op[r].row
<1>1. /\ Ready(r) /\ pc[r] = "clear" /\ pc \in [Requests -> States] /\ rowLock[m] = None
      /\ pc' = [pc EXCEPT ![r] = "again"] /\ op' = op /\ member' = member
      /\ emailOf' = emailOf /\ moved' = moved
      /\ rowLock' = [rowLock EXCEPT ![m] = r] /\ Goto(r, "again")
      /\ UNCHANGED <<member, op, people, tenantLock>>
  BY DEF InviteUpdate, Goto, people, IInv
<1>2. m \in Members /\ pc'[r] = "again"
  BY <1>1 DEF Ready, Checked
<1>3. Checked(r)'
  <2>1. /\ Seats' = Seats /\ \A n : Addresses(n)' = Addresses(n)
        /\ \A n : Seated(n)' <=> Seated(n)
    BY <1>1 DEF Seats, Seated, Addresses
  <2> QED BY <1>1, <1>2, <2>1 DEF Ready, Checked
<1>4. Ready(r)'
  BY <1>1, <1>2, <1>3 DEF Ready, Invites, Rewrites, Manages, Accepts
<1> QED BY <1>1, <1>2, <1>4, RowTaken

LEMMA AcceptLookUpIInv ==
    ASSUME IInv, NEW r \in Requests, AcceptLookUp(r)
    PROVE  IInv'
<1> DEFINE o == [kind |-> "accept", row |-> op[r].row, secret |-> op[r].secret,
                 email |-> op[r].email, account |-> Known(op[r].email)]
<1>1. CASE Fail(r)
  BY <1>1, FailIInv
<1>2. CASE Learn(r, o, "join")
  <2>1. /\ Ready(r) /\ pc[r] = "bind" /\ pc \in [Requests -> States]
        /\ op = [q \in Requests |-> op[q]]
        /\ pc' = [pc EXCEPT ![r] = "join"] /\ op' = [op EXCEPT ![r] = o]
        /\ member' = member /\ emailOf' = emailOf /\ moved' = moved
        /\ UNCHANGED <<member, people, locks>>
    BY <1>2 DEF AcceptLookUp, Learn, Goto, people, IInv
  <2>2. /\ o.kind = "accept" /\ o.row = op[r].row /\ o.secret = op[r].secret
        /\ o.email = op[r].email /\ o.account = Known(op[r].email)
    OBVIOUS
  <2> HIDE DEF o
  <2>3. pc'[r] = "join" /\ op'[r] = o /\ "join" \in States
    BY <2>1 DEF States
  <2>4. op[r].email \in Emails
    BY <2>1 DEF Ready, Accepts
  <2>5. Accepts(r)'
    <3>1. o.account # None => o.account \in Accounts /\ emailOf[o.account] = op[r].email
      BY <2>2, <2>4, KnownAccount
    <3> QED BY <2>1, <2>2, <2>3, <3>1, NoneAssumption DEF Ready, Accepts
  <2>6. Ready(r)'
    BY <2>3, <2>5 DEF Ready, Invites, Checked, Rewrites, Manages
  <2> QED BY <2>1, <2>2, <2>3, <2>6, GoesOn
<1> QED BY <1>1, <1>2 DEF AcceptLookUp

-----------------------------------------------------------------------------
(* The steps that write a row.                                            *)

(* A row that changes in other fields than its account and address, and   *)
(* gets no seat.                                                          *)
LEMMA RowKept ==
    ASSUME IInv, NEW r \in Requests, NEW m \in Members, NEW row \in Rows,
           Write(r, m, row), rowLock[m] \in {None, r},
           row.account = member[m].account, row.invited = member[m].invited,
           row.status \in {member[m].status, "REMOVED"}
    PROVE  IInv'
<1>1. /\ TypeOK /\ member \in [Members -> Rows]
      /\ member' = [member EXCEPT ![m] = row] /\ member'[m] = row
      /\ Release(r) /\ op' = op /\ emailOf' = emailOf /\ moved' = moved /\ Registered
  BY DEF Write, people, Registered, IInv, TypeOK
<1>2. RowOK(m)'
  BY <1>1 DEF IInv, RowOK
<1>3. \A n \in Members \ {m} : row.account # None => member[n].account # row.account
  BY DEF IInv, OnePlacePerPerson
<1>4. Seated(m)' => Seated(m) /\ Addresses(m)' \subseteq Addresses(m)
  BY <1>1 DEF Seated, Addresses
<1> QED BY <1>1, <1>2, <1>3, <1>4, RowWritten

LEMMA ResendUpdateIInv ==
    ASSUME IInv, NEW r \in Requests, ResendUpdate(r)
    PROVE  IInv'
<1> DEFINE m == op[r].row
           row == [member[m] EXCEPT !.token = r]
<1>1. m \in Members /\ rowLock[m] = None /\ Write(r, m, row)
  BY DEF ResendUpdate, IInv, Ready, Manages
<1>2. /\ row \in Rows /\ row.account = member[m].account /\ row.invited = member[m].invited
      /\ row.status = member[m].status
  BY <1>1, RowType DEF IInv, Rows
<1> QED BY <1>1, <1>2, RowKept

(* The branch rows of a membership as an update or an invite leaves them. *)
LEMMA RewrittenType ==
    ASSUME TypeOK, NEW r \in Requests, NEW m \in Members, op[r].branches \subseteq Branches
    PROVE  Rewritten(r, m) \in BranchRows
BY RowType DEF Rewritten, RowsBy, BranchRows

LEMMA UpdateCommitIInv ==
    ASSUME IInv, NEW r \in Requests, UpdateCommit(r)
    PROVE  IInv'
<1> DEFINE m == op[r].row
           role == IF op[r].role = None THEN member[m].role ELSE op[r].role
           bs == Rewritten(r, m)
           row == [member[m] EXCEPT !.role = role, !.branches = bs]
<1>1. m \in Members /\ rowLock[m] = None /\ TypeOK /\ Write(r, m, row) /\ op[r] \in UpdateOps
  BY DEF UpdateCommit, RowsDone, IInv, Ready, Rewrites, UpdateOps
<1>2. role \in Roles /\ bs \in BranchRows
  <2>1. op[r].role \in Roles \cup {None} /\ op[r].branches \subseteq Branches
    BY <1>1 DEF UpdateOps
  <2> QED BY <1>1, <2>1, RowType, RewrittenType
<1> HIDE DEF role, bs
<1>3. /\ row \in Rows /\ row.account = member[m].account /\ row.invited = member[m].invited
      /\ row.status = member[m].status
  BY <1>1, <1>2, RowType DEF Rows, BranchRows
<1> QED BY <1>1, <1>3, RowKept

LEMMA RemoveUpdateIInv ==
    ASSUME IInv, NEW r \in Requests, RemoveUpdate(r)
    PROVE  IInv'
<1> DEFINE m == op[r].row
           row == [member[m] EXCEPT !.status = "REMOVED"]
<1>1. m \in Members /\ rowLock[m] = None /\ Write(r, m, row)
  BY DEF RemoveUpdate, IInv, Ready, Manages
<1>2. /\ row \in Rows /\ row.account = member[m].account /\ row.invited = member[m].invited
      /\ row.status = "REMOVED"
  BY <1>1, RowType DEF IInv, Rows
<1> QED BY <1>1, <1>2, RowKept

(* The row of no status is locked by nobody.                              *)
LEMMA Unclaimed ==
    ASSUME IInv, NEW m \in Members, member[m].status = "none"
    PROVE  rowLock[m] = None
<1>1. ASSUME NEW q \in Requests PROVE rowLock[m] # q
  BY DEF IInv, TypeOK, Ready, Checked, Accepts, RowOK
<1> QED BY <1>1 DEF IInv, TypeOK

LEMMA InviteCreateIInv ==
    ASSUME IInv, NEW r \in Requests, InviteCreate(r)
    PROVE  IInv'
<1>1. CASE Fail(r)
  BY <1>1, FailIInv
<1>2. ASSUME NEW m \in Members, NEW row, member[m].status = "none", Write(r, m, row),
             \/ /\ op[r].account # None /\ RowsOf(op[r].account) = {}
                /\ row = [NoRow EXCEPT !.status = "ACTIVE", !.account = op[r].account,
                                       !.role = op[r].role, !.branches = RowsBy(r, op[r].branches)]
             \/ /\ op[r].account = None
                /\ row = [NoRow EXCEPT !.status = "INVITED", !.invited = op[r].email,
                                       !.token = r, !.role = op[r].role,
                                       !.branches = RowsBy(r, op[r].branches)]
      PROVE  IInv'
  <2>1. /\ TypeOK /\ pc[r] = "insert" /\ Ready(r) /\ tenantLock = r /\ rowLock[m] = None
        /\ member \in [Members -> Rows] /\ \A n \in Members : RowOK(n)
    BY <1>2, Unclaimed DEF InviteCreate, IInv, TypeOK
  <2>2. /\ op[r].account \in Accounts \cup {None} /\ op[r].email \in Emails
        /\ op[r].account # None => /\ emailOf[op[r].account] # None
                                   /\ \/ op[r].account \in moved
                                      \/ emailOf[op[r].account] = op[r].email
    BY <2>1 DEF Ready, Invites
  <2> DEFINE bs == RowsBy(r, op[r].branches)
  <2>9. bs \in SUBSET (Branches \X Requests)
    BY <2>1 DEF Ready, Invites, RowsBy
  <2> HIDE DEF bs
  <2>10. \/ /\ op[r].account # None
            /\ row = [NoRow EXCEPT !.status = "ACTIVE", !.account = op[r].account,
                                   !.role = op[r].role, !.branches = bs]
         \/ /\ op[r].account = None
            /\ row = [NoRow EXCEPT !.status = "INVITED", !.invited = op[r].email,
                                   !.token = r, !.role = op[r].role, !.branches = bs]
    BY <1>2 DEF bs
  <2>3. /\ row \in Rows /\ row.invited \in {None, op[r].email}
        /\ op[r].account # None =>
              row.status = "ACTIVE" /\ row.account = op[r].account /\ row.invited = None
        /\ op[r].account = None =>
              row.status = "INVITED" /\ row.account = None /\ row.invited = op[r].email
    BY <2>1, <2>2, <2>9, <2>10 DEF NoRow, Rows, Roles, Ready, Invites
  <2>4. /\ member' = [member EXCEPT ![m] = row] /\ member'[m] = row
        /\ Release(r) /\ op' = op /\ emailOf' = emailOf /\ moved' = moved /\ Registered
    BY <1>2, <2>1 DEF Write, people, Registered, TypeOK
  <2>5. RowOK(m)'
    BY <2>2, <2>3, <2>4, NoneAssumption DEF RowOK
  <2>6. member[m].account = None
    BY <1>2, <2>1 DEF RowOK
  <2>7. \A n \in Members : row.account # None => member[n].account # row.account
    BY <1>2, <2>1, <2>3 DEF RowsOf, RowOK
  <2>8. row.account \notin moved => Addresses(m)' \subseteq {op[r].email, None}
    BY <2>2, <2>3, <2>4 DEF Addresses
  <2> QED BY <1>2, <2>1, <2>3, <2>4, <2>5, <2>6, <2>7, <2>8, RowWritten
<1> QED BY <1>1, <1>2 DEF InviteCreate

LEMMA InviteAgainIInv ==
    ASSUME IInv, NEW r \in Requests, InviteAgain(r)
    PROVE  IInv'
<1> DEFINE m == op[r].row
           bs == Rewritten(r, m)
           row == [member[m] EXCEPT !.status = "ACTIVE", !.role = op[r].role, !.branches = bs]
<1>1. /\ TypeOK /\ pc[r] = "again" /\ Ready(r) /\ tenantLock = r /\ Write(r, m, row)
      /\ m \in Members /\ op[r].account # None /\ member[m].account = op[r].account
      /\ member \in [Members -> Rows] /\ RowOK(m)
  BY DEF InviteAgain, IInv, TypeOK, Ready, Checked
<1>2. rowLock[m] = r
  BY <1>1 DEF TypeOK
<1>3. /\ op[r].role \in Roles /\ bs \in BranchRows
      /\ op[r].account \in moved \/ emailOf[op[r].account] = op[r].email
  BY <1>1, RewrittenType DEF Ready, Invites, Roles
<1> HIDE DEF bs
<1>4. /\ row \in Rows /\ row.account = op[r].account /\ row.invited = None
      /\ row.status = "ACTIVE"
  <2>1. member[m] \in Rows /\ member[m].invited = None
    BY <1>1 DEF RowOK
  <2> HIDE DEF m
  <2>2. row \in Rows /\ row.status = "ACTIVE"
    BY <1>3, <2>1 DEF Rows, BranchRows
  <2>3. row.account = member[m].account /\ row.invited = member[m].invited
    BY <2>1 DEF Rows
  <2> QED BY <1>1, <2>1, <2>2, <2>3 DEF m
<1> HIDE DEF row
<1>5. /\ member' = [member EXCEPT ![m] = row] /\ member'[m] = row
      /\ Release(r) /\ op' = op /\ emailOf' = emailOf /\ moved' = moved /\ Registered
  BY <1>1 DEF Write, people, Registered, TypeOK
<1>6. RowOK(m)'
  BY <1>1, <1>4, <1>5 DEF RowOK
<1>7. \A n \in Members \ {m} : row.account # None => member[n].account # row.account
  BY <1>1, <1>4 DEF IInv, OnePlacePerPerson
<1>8. row.account \notin moved => Addresses(m)' \subseteq {op[r].email, None}
  BY <1>3, <1>4, <1>5 DEF Addresses
<1> QED BY <1>1, <1>2, <1>4, <1>5, <1>6, <1>7, <1>8, RowWritten

(* An account of the invited address takes the row.                       *)
LEMMA JoinIInv ==
    ASSUME IInv, NEW r \in Requests, NEW m \in Members, NEW e \in Emails, NEW u \in Accounts,
           member[m].status = "INVITED", member[m].invited = e, member[m].account = None,
           rowLock[m] = r, Registered, emailOf'[u] # None, u \in moved \/ emailOf'[u] = e,
           Release(r), op' = op,
           member' = [member EXCEPT ![m] = Joined(m, u)],
           \A n \in Members : member[n].account # u
    PROVE  IInv'
<1> DEFINE row == Joined(m, u)
<1>1. TypeOK /\ member \in [Members -> Rows] /\ moved' = moved /\ moved \subseteq Accounts
  BY DEF IInv, TypeOK, Registered
<1>2. /\ row \in Rows /\ row.status = "ACTIVE" /\ row.account = u /\ row.invited = None
  <2>1. member[m] \in Rows
    BY <1>1
  <2> QED BY <2>1 DEF Joined, Rows
<1> HIDE DEF row
<1>3. member' = [member EXCEPT ![m] = row] /\ member'[m] = row /\ u # None /\ e # None
  BY <1>1, NoneAssumption DEF row
<1>4. RowOK(m)'
  BY <1>2, <1>3 DEF RowOK
<1>5. Seated(m) /\ (u \notin moved => Addresses(m)' \subseteq Addresses(m) \cup {None})
  BY <1>2, <1>3 DEF Seated, Addresses
<1>6. member[m].account \notin moved
  BY <1>1, NoneAssumption
<1> QED BY <1>2, <1>3, <1>4, <1>5, <1>6, RowWritten

LEMMA AcceptBindIInv ==
    ASSUME IInv, NEW r \in Requests, AcceptBind(r)
    PROVE  IInv'
<1> DEFINE m == op[r].row
           e == op[r].email
           known == op[r].account
<1>1. CASE Fail(r)
  BY <1>1, FailIInv
<1>2. /\ TypeOK /\ pc[r] = "join" /\ m \in Members /\ e \in Emails
      /\ member[m].status = "INVITED" /\ member[m].invited = e /\ member[m].account = None
      /\ rowLock[m] = r
      /\ known # None => /\ known \in Accounts /\ emailOf[known] # None
                         /\ known \in moved \/ emailOf[known] = e
      /\ member \in [Members -> Rows] /\ \A n \in Members : RowOK(n)
      /\ emailOf \in [Accounts -> Emails \cup {None}] /\ moved \subseteq Accounts
  BY DEF AcceptBind, IInv, TypeOK, Ready, Accepts, RowOK
<1>3. ASSUME NEW u \in Accounts, Registered, emailOf'[u] # None, u \in moved \/ emailOf'[u] = e,
             Release(r), op' = op, member' = [member EXCEPT ![m] = Joined(m, u)],
             \A n \in Members : member[n].account # u
      PROVE  IInv'
  <2> HIDE DEF m, e
  <2> QED BY <1>2, <1>3, JoinIInv
<1>4. ASSUME known # None, RowsOf(known) = {}, Write(r, m, Joined(m, known))
      PROVE  IInv'
  <2>1. known \in Accounts
    BY <1>2, <1>4
  <2>2. \A n \in Members : member[n].account # known
    BY <1>2, <1>4 DEF RowsOf, RowOK
  <2>3. Registered /\ emailOf'[known] # None /\ (known \in moved \/ emailOf'[known] = e)
    BY <1>2, <1>4, <2>1 DEF Write, people, Registered
  <2> QED BY <1>3, <1>4, <2>1, <2>2, <2>3 DEF Write
<1>5. ASSUME NEW new \in Accounts, emailOf[new] = None, emailOf' = [emailOf EXCEPT ![new] = e],
             member' = [member EXCEPT ![m] = Joined(m, new)], Release(r),
             UNCHANGED <<op, moved>>
      PROVE  IInv'
  <2>1. Registered /\ emailOf'[new] = e /\ e # None
    <3> HIDE DEF e
    <3> QED BY <1>2, <1>5, NoneAssumption DEF Registered
  <2>2. \A n \in Members : member[n].account # new
    BY <1>2, <1>5, NoneAssumption DEF RowOK
  <2> QED BY <1>3, <1>5, <2>1, <2>2
<1> QED BY <1>1, <1>4, <1>5 DEF AcceptBind

-----------------------------------------------------------------------------
(* Accounts are registered, and whoever changes the address has moved.    *)
LEMMA PeopleIInv ==
    ASSUME IInv, UNCHANGED <<member, locks, pc, op>>,
           emailOf' \in [Accounts -> Emails \cup {None}],
           moved \subseteq moved', moved' \subseteq Accounts,
           \A v \in Accounts : emailOf[v] # None =>
              emailOf'[v] # None /\ (v \in moved' \/ emailOf'[v] = emailOf[v])
    PROVE  IInv'
<1>1. /\ TypeOK /\ member' = member /\ pc' = pc /\ op' = op /\ Seats' = Seats
      /\ tenantLock' = tenantLock /\ rowLock' = rowLock
      /\ \A n : Seated(n)' <=> Seated(n)
  BY DEF locks, Seats, Seated, IInv
<1>2. TypeOK'
  BY <1>1 DEF TypeOK
<1>3. \A n \in Members : RowOK(n) /\ (member[n].account # None => member[n].account \in Accounts)
  BY <1>1, RowType DEF IInv
<1>4. \A n \in Members : RowOK(n)'
  BY <1>1, <1>3 DEF RowOK
<1>5. \A n \in Members : member[n].account \notin moved' => Addresses(n)' = Addresses(n)
  BY <1>1, <1>3 DEF RowOK, Addresses
<1>6. OnePlacePerPerson'
  <2>1. ASSUME NEW n \in Members, NEW k \in Members, n # k, Seated(n)', Seated(k)',
               {member'[n].account, member'[k].account} \cap moved' = {}
        PROVE  (Addresses(n)' \cap Addresses(k)') \ {None} = {}
    <3>1. /\ Seated(n) /\ Seated(k)
          /\ {member[n].account, member[k].account} \cap moved = {}
          /\ Addresses(n)' = Addresses(n) /\ Addresses(k)' = Addresses(k)
      BY <1>1, <1>5, <2>1
    <3>2. (Addresses(n) \cap Addresses(k)) \ {None} = {}
      BY <2>1, <3>1 DEF IInv, OnePlacePerPerson
    <3> QED BY <3>1, <3>2
  <2>2. \A n, k \in Members : n # k /\ member'[n].account # None
                                 => member'[n].account # member'[k].account
    BY <1>1 DEF IInv, OnePlacePerPerson
  <2> QED BY <2>1, <2>2 DEF OnePlacePerPerson
<1>7. ASSUME NEW q \in Requests PROVE Ready(q)'
  <2>1. Ready(q)
    BY DEF IInv
  <2>2. Invites(q)'
    BY <1>1, <2>1 DEF Ready, Invites
  <2>3. Checked(q)'
    BY <1>1, <1>5, <2>1 DEF Ready, Checked
  <2>4. Rewrites(q)' /\ Manages(q)' /\ Accepts(q)'
    BY <1>1, <2>1 DEF Ready, Rewrites, Manages, Accepts
  <2> QED BY <2>2, <2>3, <2>4 DEF Ready
<1> QED BY <1>1, <1>2, <1>4, <1>6, <1>7 DEF IInv, SeatsWithinPlan

LEMMA InitIInv == Init => IInv
<1> SUFFICES ASSUME Init PROVE IInv
  OBVIOUS
<1>1. /\ \A m \in Members \ {OwnerRow} : member[m] = NoRow
      /\ member[OwnerRow] = [NoRow EXCEPT !.status = "ACTIVE", !.account = Owner, !.role = "OWNER"]
      /\ OwnerRow \in Members /\ Owner \in Accounts /\ OwnerEmail \in Emails
  BY OwnerAssumption DEF Init
<1>2. /\ member[OwnerRow].status = "ACTIVE" /\ member[OwnerRow].account = Owner
      /\ member[OwnerRow].invited = None /\ member[OwnerRow] \in Rows
  BY <1>1 DEF NoRow, Rows, Roles
<1>3. \A m \in Members \ {OwnerRow} : /\ member[m].status = "none" /\ member[m].account = None
                                      /\ member[m].invited = None /\ member[m] \in Rows
  BY <1>1, NoRowType DEF NoRow
<1>4. emailOf[Owner] = OwnerEmail /\ OwnerEmail # None /\ Owner # None
  BY <1>1, NoneAssumption DEF Init
<1>5. TypeOK
  <2>1. member \in [Members -> Rows]
    <3>1. \A m \in Members : member[m] \in Rows
      BY <1>2, <1>3
    <3>2. member = [m \in Members |-> member[m]]
      BY DEF Init
    <3> QED BY <3>1, <3>2
  <2>2. emailOf \in [Accounts -> Emails \cup {None}]
    BY <1>1 DEF Init
  <2>3. \A r \in Requests : pc[r] = "idle" /\ op[r].kind = "none"
    BY DEF Init, NoOp
  <2>4. /\ tenantLock = None /\ \A r \in Requests : tenantLock # r
        /\ rowLock \in [Members -> Requests \cup {None}]
        /\ \A m \in Members, r \in Requests : rowLock[m] # r
    BY NoneAssumption DEF Init
  <2> QED BY <2>1, <2>2, <2>3, <2>4 DEF TypeOK, Init
<1>6. pc \in [Requests -> States] /\ op = [r \in Requests |-> op[r]]
  BY DEF Init, States
<1>7. \A r \in Requests : Ready(r)
  BY DEF Init, Ready, Invites, Checked, Rewrites, Manages, Accepts
<1>8. \A m \in Members : RowOK(m)
  BY <1>2, <1>3, <1>4 DEF RowOK
<1>9. IsFiniteSet(Seats) /\ SeatsWithinPlan
  <2>1. Seats = {OwnerRow}
    BY <1>1, <1>2, <1>3 DEF Seats, Seated
  <2>2. IsFiniteSet(Seats) /\ Cardinality(Seats) = 1
    BY <2>1, FS_Singleton
  <2> QED BY <2>2, BoundsAssumption DEF SeatsWithinPlan
<1>10. OnePlacePerPerson
  BY <1>1, <1>2, <1>3, <1>4 DEF OnePlacePerPerson, Seated
<1> QED BY <1>5, <1>6, <1>7, <1>8, <1>9, <1>10 DEF IInv

LEMMA StepIInv ==
    ASSUME IInv, [Next]_vars
    PROVE  IInv'
<1>1. ASSUME NEW r \in Requests, Step(r) PROVE IInv'
  BY <1>1, InviteLockIInv, InviteCheckIInv, InviteFindIInv, InviteCreateIInv, InviteAgainIInv,
     InviteUpdateIInv, ResendUpdateIInv, UpdateDeleteIInv, RowIInv, UpdateCommitIInv,
     RemoveUpdateIInv, AcceptClaimIInv, AcceptLookUpIInv, AcceptBindIInv DEF Step
<1>2. ASSUME NEW r \in Requests, Abort(r) PROVE IInv'
  BY <1>2, FailIInv DEF Abort
<1>3. ASSUME NEW u \in Accounts, NEW e \in Emails, Register(u, e) \/ ConfirmEmailChange(u, e)
      PROVE  IInv'
  <2>1. /\ emailOf \in [Accounts -> Emails \cup {None}] /\ moved \subseteq Accounts
        /\ emailOf' = [emailOf EXCEPT ![u] = e] /\ e # None
        /\ UNCHANGED <<member, locks, pc, op>> /\ moved' \in {moved, moved \cup {u}}
        /\ emailOf[u] = None \/ u \in moved'
    BY <1>3, NoneAssumption DEF IInv, TypeOK, Register, ConfirmEmailChange
  <2>2. \A v \in Accounts : emailOf[v] # None =>
              emailOf'[v] # None /\ (v \in moved' \/ emailOf'[v] = emailOf[v])
    BY <2>1
  <2>3. emailOf' \in [Accounts -> Emails \cup {None}]
    BY <2>1
  <2> QED BY <2>1, <2>2, <2>3, PeopleIInv
<1>4. ASSUME UNCHANGED vars PROVE IInv'
  BY <1>4, PeopleIInv DEF vars, locks, IInv, TypeOK
<1> QED BY <1>1, <1>2, <1>3, <1>4, CallIInv DEF Next

(* Which step may change the status of a row, and how.                    *)
LEMMA StatusStep ==
    ASSUME IInv, [Next]_vars, NEW m \in Members
    PROVE  /\ member[m].status = "INVITED" /\ member'[m].status = "ACTIVE" =>
                 \E r \in Requests : rowLock[m] = r /\ op[r].secret = member[m].token
           /\ member[m].status = "REMOVED" /\ member'[m].status # "REMOVED" =>
                 \E r \in Requests : tenantLock = r /\ op[r].row = m
           /\ member[m].status # "none" => member'[m].status # "none"
<1> DEFINE Allowed == /\ member[m].status = "INVITED" /\ member'[m].status = "ACTIVE" =>
                            \E r \in Requests : rowLock[m] = r /\ op[r].secret = member[m].token
                      /\ member[m].status = "REMOVED" /\ member'[m].status # "REMOVED" =>
                            \E r \in Requests : tenantLock = r /\ op[r].row = m
                      /\ member[m].status # "none" => member'[m].status # "none"
<1>1. /\ TypeOK /\ member \in [Members -> Rows] /\ \A n \in Members : RowOK(n)
      /\ \A r \in Requests : Ready(r)
  BY DEF IInv, TypeOK
<1>2. ASSUME member'[m] = member[m] PROVE Allowed
  BY <1>2
<1>3. ASSUME NEW r \in Requests, NEW n \in Members, NEW row, Write(r, n, row),
             row.status \in {member[n].status, "REMOVED"}
      PROVE  Allowed
  BY <1>1, <1>3 DEF Write
<1>4. ASSUME NEW r \in Requests, Step(r) PROVE Allowed
  <2>1. CASE member' = member
    BY <1>2, <2>1
  <2>2. CASE InviteCreate(r) /\ member' # member
    <3>1. PICK n \in Members : member[n].status = "none" /\ \E row : Write(r, n, row)
      BY <2>2 DEF InviteCreate, Fail
    <3>2. PICK row : member' = [member EXCEPT ![n] = row]
      BY <3>1 DEF Write
    <3>3. n # m => member'[m] = member[m]
      BY <1>1, <3>2
    <3> QED BY <1>2, <3>1, <3>3
  <2>3. CASE InviteAgain(r) /\ member' # member
    <3>1. /\ op[r].row \in Members /\ tenantLock = r
          /\ member[op[r].row].account # None /\ member[op[r].row].status # "INVITED"
      BY <1>1, <2>3 DEF InviteAgain, Ready, Checked, TypeOK, RowOK
    <3>2. m # op[r].row => member'[m] = member[m]
      BY <1>1, <2>3, <3>1 DEF InviteAgain, Write, Fail
    <3>3. member'[op[r].row].status = "ACTIVE"
      BY <1>1, <2>3, <3>1 DEF InviteAgain, Write, Fail, Rows
    <3> QED BY <1>2, <3>1, <3>2, <3>3
  <2>4. CASE ResendUpdate(r)
    <3>1. op[r].row \in Members
      BY <1>1, <2>4 DEF ResendUpdate, Ready, Manages
    <3>2. [member[op[r].row] EXCEPT !.token = r].status = member[op[r].row].status
      BY <1>1, <3>1 DEF Rows
    <3> QED BY <1>3, <2>4, <3>1, <3>2 DEF ResendUpdate
  <2>5. CASE UpdateCommit(r) /\ member' # member
    <3> DEFINE n == op[r].row
               role == IF op[r].role = None THEN member[n].role ELSE op[r].role
               bs == Rewritten(r, n)
               row == [member[n] EXCEPT !.role = role, !.branches = bs]
    <3>1. n \in Members /\ Write(r, n, row)
      BY <1>1, <2>5 DEF UpdateCommit, RowsDone, Ready, Rewrites, UpdateOps
    <3>2. row.status = member[n].status
      <4> HIDE DEF role, bs
      <4> QED BY <1>1, <3>1 DEF Rows
    <3> HIDE DEF row, n
    <3> QED BY <1>3, <3>1, <3>2
  <2>6. CASE RemoveUpdate(r)
    <3>1. op[r].row \in Members
      BY <1>1, <2>6 DEF RemoveUpdate, Ready, Manages
    <3>2. [member[op[r].row] EXCEPT !.status = "REMOVED"].status = "REMOVED"
      BY <1>1, <3>1 DEF Rows
    <3> QED BY <1>3, <2>6, <3>1, <3>2 DEF RemoveUpdate
  <2>7. CASE AcceptBind(r) /\ member' # member
    <3>1. /\ op[r].row \in Members /\ rowLock[op[r].row] = r
          /\ member[op[r].row].status = "INVITED" /\ member[op[r].row].token = op[r].secret
      BY <1>1, <2>7 DEF AcceptBind, Ready, Accepts, TypeOK
    <3>2. m # op[r].row => member'[m] = member[m]
      BY <1>1, <2>7, <3>1 DEF AcceptBind, Write, Fail
    <3>3. member'[op[r].row].status = "ACTIVE"
      <4>1. PICK u : member' = [member EXCEPT ![op[r].row] = Joined(op[r].row, u)]
        BY <2>7 DEF AcceptBind, Write, Fail
      <4>2. Joined(op[r].row, u).status = "ACTIVE"
        BY <1>1, <3>1 DEF Joined, Rows
      <4> QED BY <1>1, <3>1, <4>1, <4>2
    <3> QED BY <1>2, <3>1, <3>2, <3>3
  <2>8. /\ InviteLock(r) \/ InviteCheck(r) \/ InviteFind(r) \/ InviteUpdate(r) \/ UpdateDelete(r)
           \/ AcceptClaim(r) \/ AcceptLookUp(r) => member' = member
        /\ \A x : DeleteRow(r, x) \/ InsertRow(r, x) => member' = member
    BY DEF InviteLock, InviteCheck, InviteFind, InviteUpdate, UpdateDelete, AcceptClaim,
           AcceptLookUp, DeleteRow, InsertRow, Learn, Fail
  <2> QED BY <1>4, <2>1, <2>2, <2>3, <2>4, <2>5, <2>6, <2>7, <2>8 DEF Step
<1>5. ASSUME NEW r \in Requests, Call(r) PROVE member' = member
  BY <1>5 DEF Call, Invite, Resend, Remove, Update, Accept, Start, Fail
<1>6. ASSUME NEW r \in Requests, Abort(r) PROVE member' = member
  BY <1>6 DEF Abort, Fail
<1>7. ASSUME NEW u \in Accounts, NEW e \in Emails, Register(u, e) \/ ConfirmEmailChange(u, e)
      PROVE  member' = member
  BY <1>7 DEF Register, ConfirmEmailChange
<1>8. UNCHANGED vars => member' = member
  BY DEF vars
<1> QED BY <1>2, <1>4, <1>5, <1>6, <1>7, <1>8 DEF Next

-----------------------------------------------------------------------------
(* The owner.                                                             *)

(* No request that may still write holds the owner's row, and no invite   *)
(* that passed its check is for the owner's account.                      *)
Spares(r) ==
    /\ pc[r] \in {"clear", "again", "resend", "delete", "rows", "remove", "claim", "bind", "join"}
          => op[r].row # OwnerRow
    /\ pc[r] \in {"find", "insert", "clear", "again"} => op[r].account # Owner

OwnerSafe ==
    /\ OwnerStays /\ member[OwnerRow].account = Owner
    /\ \A r \in Requests : Spares(r)

(* One request goes on, and the owner's row is not written.               *)
LEMMA OwnerLeftAlone ==
    ASSUME OwnerSafe, NEW r \in Requests, member'[OwnerRow] = member[OwnerRow], Spares(r)',
           \A q \in Requests \ {r} : pc'[q] = pc[q] /\ op'[q] = op[q]
    PROVE  OwnerSafe'
<1>1. ASSUME NEW q \in Requests PROVE Spares(q)'
  <2>1. CASE q = r
    BY <2>1
  <2>2. CASE q # r
    BY <2>2 DEF OwnerSafe, Spares
  <2> QED BY <2>1, <2>2
<1> QED BY <1>1 DEF OwnerSafe, OwnerStays

LEMMA OwnerAfterAnswer ==
    ASSUME IInv, OwnerSafe, NEW r \in Requests, Release(r), op' = op,
           member'[OwnerRow] = member[OwnerRow]
    PROVE  OwnerSafe'
<1>1. pc'[r] = "done" /\ \A q \in Requests \ {r} : pc'[q] = pc[q]
  BY ReleaseLocks
<1>2. Spares(r)'
  BY <1>1 DEF Spares
<1> QED BY <1>1, <1>2, OwnerLeftAlone

LEMMA OwnerAfterWrite ==
    ASSUME IInv, OwnerSafe, NEW r \in Requests, NEW m \in Members, NEW row,
           Write(r, m, row), m # OwnerRow
    PROVE  OwnerSafe'
<1>1. member'[OwnerRow] = member[OwnerRow] /\ Release(r) /\ op' = op
  BY OwnerAssumption DEF Write, IInv, TypeOK
<1> QED BY <1>1, OwnerAfterAnswer

LEMMA OwnerAfterGoto ==
    ASSUME IInv, OwnerSafe, NEW r \in Requests, NEW where, Goto(r, where), member' = member,
           \A q \in Requests \ {r} : op'[q] = op[q], Spares(r)'
    PROVE  OwnerSafe'
<1>1. \A q \in Requests \ {r} : pc'[q] = pc[q] /\ op'[q] = op[q]
  BY DEF Goto, IInv
<1> QED BY <1>1, OwnerLeftAlone

(* A request starts on the row m: it is not the owner's.                  *)
LEMMA OwnerAfterStart ==
    ASSUME IInv, OwnerSafe, NEW r \in Requests, NEW o, NEW where, Start(r, o, where),
           where \notin {"find", "insert", "clear", "again"}, where # "lock" => o.row # OwnerRow
    PROVE  OwnerSafe'
<1>1. /\ Goto(r, where) /\ member' = member /\ pc \in [Requests -> States]
      /\ op = [q \in Requests |-> op[q]] /\ op' = [op EXCEPT ![r] = o]
  BY DEF Start, IInv
<1>2. pc'[r] = where /\ op'[r] = o /\ \A q \in Requests \ {r} : op'[q] = op[q]
  BY <1>1 DEF Goto
<1>3. Spares(r)'
  BY <1>2 DEF Spares
<1> QED BY <1>1, <1>2, <1>3, OwnerAfterGoto

LEMMA OwnerAfterCall ==
    ASSUME IInv, OwnerSafe, NEW r \in Requests, Call(r)
    PROVE  OwnerSafe'
<1>1. member[OwnerRow].role = "OWNER" /\ member[OwnerRow].status = "ACTIVE"
  BY DEF OwnerSafe, OwnerStays
<1>2. Fail(r) => OwnerSafe'
  BY OwnerAfterAnswer DEF Fail
<1>3. ASSUME NEW e \in Emails, NEW role \in {"ADMIN", "STAFF"}, NEW bs \in SUBSET Branches,
             Invite(r, e, role, bs)
      PROVE  OwnerSafe'
  <2>1. PICK o : Start(r, o, "lock")
    BY <1>3 DEF Invite
  <2> QED BY <2>1, OwnerAfterStart
<1>4. ASSUME NEW m \in Members, NEW o, NEW where, Start(r, o, where), o.row = m,
             where \in {"resend", "delete", "remove", "claim"},
             member[m].status = "INVITED" \/ member[m].role # "OWNER"
      PROVE  OwnerSafe'
  <2>1. m # OwnerRow
    BY <1>1, <1>4
  <2> QED BY <1>4, <2>1, OwnerAfterStart
<1>5. ASSUME NEW m \in Members, Resend(r, m)
      PROVE  OwnerSafe'
  BY <1>2, <1>4, <1>5 DEF Resend
<1>6. ASSUME NEW m \in Members, Remove(r, m)
      PROVE  OwnerSafe'
  BY <1>2, <1>4, <1>6 DEF Remove, MayManage
<1>7. ASSUME NEW m \in Members, NEW role, NEW bs, Update(r, m, role, bs)
      PROVE  OwnerSafe'
  <2>1. CASE Fail(r)
    BY <1>2, <2>1
  <2>2. CASE MayManage(m) /\ ~Fail(r)
    <3>1. PICK next : Start(r, [kind |-> "update", row |-> m, role |-> role,
                                was |-> member[m].role, branches |-> next], "delete")
      BY <1>7, <2>2 DEF Update
    <3> QED BY <1>4, <2>2, <3>1 DEF MayManage
  <2> QED BY <1>7, <2>1, <2>2 DEF Update
<1>8. ASSUME NEW m \in Members, NEW secret \in Requests, Accept(r, m, secret)
      PROVE  OwnerSafe'
  BY <1>2, <1>4, <1>8 DEF Accept
<1> QED BY <1>3, <1>5, <1>6, <1>7, <1>8 DEF Call

(* The check finds the owner in the team while the owner's e-mail is what *)
(* it was when the account was looked up.                                 *)
LEMMA OwnerAfterCheck ==
    ASSUME IInv, OwnerSafe, Owner \notin moved, NEW r \in Requests, InviteCheck(r)
    PROVE  OwnerSafe'
<1>1. CASE Fail(r)
  BY <1>1, OwnerAfterAnswer DEF Fail
<1>2. CASE /\ ~InTeam(op[r].email)
           /\ Goto(r, "find") /\ UNCHANGED <<member, op, people, locks>>
  <2>1. OwnerRow \in Seats /\ emailOf[Owner] \in Addresses(OwnerRow)
    BY OwnerAssumption, NoneAssumption DEF OwnerSafe, OwnerStays, Seats, Seated, Addresses
  <2>2. op[r].email # emailOf[Owner]
    BY <1>2, <2>1 DEF InTeam
  <2>3. Invites(r) /\ pc[r] = "check"
    BY DEF InviteCheck, IInv, Ready
  <2>4. op[r].account # Owner
    BY <2>2, <2>3, OwnerAssumption, NoneAssumption DEF Invites
  <2>5. pc'[r] = "find" /\ op' = op
    BY <1>2 DEF Goto, IInv
  <2>6. Spares(r)'
    BY <2>4, <2>5 DEF Spares
  <2> QED BY <1>2, <2>5, <2>6, OwnerAfterGoto
<1> QED BY <1>1, <1>2 DEF InviteCheck

LEMMA OwnerAfterFind ==
    ASSUME IInv, OwnerSafe, NEW r \in Requests, InviteFind(r)
    PROVE  OwnerSafe'
<1> DEFINE mine == IF op[r].account = None THEN {} ELSE RowsOf(op[r].account)
           row == IF mine = {} THEN None ELSE CHOOSE m \in mine : TRUE
<1>1. op[r].account # Owner
  BY DEF InviteFind, OwnerSafe, Spares
<1>2. row # OwnerRow
  <2>1. OwnerRow \notin mine
    BY <1>1 DEF OwnerSafe, RowsOf
  <2>2. mine # {} => row \in mine
    OBVIOUS
  <2>3. None # OwnerRow
    BY NoneAssumption, OwnerAssumption
  <2> HIDE DEF mine
  <2> QED BY <2>1, <2>2, <2>3
<1> DEFINE where == IF mine = {} THEN "insert" ELSE "clear"
           o == [kind |-> "invite", email |-> op[r].email, role |-> op[r].role,
                 branches |-> op[r].branches, account |-> op[r].account, row |-> row,
                 todo |-> UNION {member[m].branches : m \in mine}, gone |-> {}, put |-> {}]
<1>3. Goto(r, where) /\ member' = member /\ op' = [op EXCEPT ![r] = o]
  BY DEF InviteFind, Learn
<1>4. o.row = row /\ o.account = op[r].account
  OBVIOUS
<1> HIDE DEF mine, row, where, o
<1>5. /\ pc'[r] = where /\ op'[r] = o /\ \A q \in Requests \ {r} : op'[q] = op[q]
  BY <1>3 DEF Goto, IInv
<1>6. Spares(r)'
  BY <1>1, <1>2, <1>4, <1>5 DEF Spares
<1> QED BY <1>3, <1>5, <1>6, OwnerAfterGoto

LEMMA OwnerAfterStep ==
    ASSUME IInv, OwnerSafe, Owner \notin moved, NEW r \in Requests, Step(r)
    PROVE  OwnerSafe'
<1>1. /\ TypeOK /\ Ready(r) /\ Spares(r)
      /\ member[OwnerRow].status = "ACTIVE"
      /\ pc \in [Requests -> States] /\ op = [q \in Requests |-> op[q]]
  BY DEF IInv, OwnerSafe, OwnerStays
<1>2. Fail(r) => OwnerSafe'
  BY OwnerAfterAnswer DEF Fail
<1>3. CASE InviteLock(r)
  <2>1. Goto(r, "check") /\ member' = member /\ op' = op
    BY <1>3 DEF InviteLock
  <2>2. Spares(r)'
    BY <1>1, <2>1 DEF Goto, Spares
  <2> QED BY <2>1, <2>2, OwnerAfterGoto
<1>4. CASE InviteCreate(r)
  <2>1. CASE ~Fail(r)
    <3>1. PICK n \in Members : member[n].status = "none" /\ \E row : Write(r, n, row)
      BY <1>4, <2>1 DEF InviteCreate
    <3> QED BY <1>1, <3>1, OwnerAfterWrite
  <2> QED BY <1>2, <2>1
<1>5. CASE InviteAgain(r) \/ ResendUpdate(r) \/ UpdateCommit(r) \/ RemoveUpdate(r)
  <2>1. op[r].row \in Members /\ op[r].row # OwnerRow
    BY <1>1, <1>5 DEF InviteAgain, ResendUpdate, UpdateCommit, RowsDone, RemoveUpdate, Ready,
                      Checked, Rewrites, UpdateOps, Manages, Spares
  <2>2. \E row : Write(r, op[r].row, row)
    BY <1>5 DEF InviteAgain, ResendUpdate, UpdateCommit, RemoveUpdate
  <2> QED BY <2>1, <2>2, OwnerAfterWrite
<1>6. CASE UpdateDelete(r)
  <2>1. PICK o : Learn(r, o, "rows") /\ o.row = op[r].row
    BY <1>6 DEF UpdateDelete
  <2>2. /\ Goto(r, "rows") /\ member' = member /\ op' = [op EXCEPT ![r] = o]
        /\ op[r].row # OwnerRow
    BY <1>1, <1>6, <2>1 DEF Learn, UpdateDelete, Spares
  <2>3. pc'[r] = "rows" /\ op'[r] = o /\ \A q \in Requests \ {r} : op'[q] = op[q]
    BY <1>1, <2>2 DEF Goto
  <2>4. Spares(r)'
    BY <2>1, <2>2, <2>3 DEF Spares
  <2> QED BY <2>2, <2>3, <2>4, OwnerAfterGoto
<1>7. CASE AcceptClaim(r) /\ ~Fail(r)
  <2>1. Goto(r, "bind") /\ member' = member /\ op' = op /\ op[r].row # OwnerRow
    BY <1>1, <1>7 DEF AcceptClaim, Spares
  <2>2. Spares(r)'
    BY <1>1, <2>1 DEF Goto, Spares
  <2> QED BY <2>1, <2>2, OwnerAfterGoto
<1>8. CASE AcceptBind(r) /\ ~Fail(r)
  <2>1. op[r].row \in Members /\ op[r].row # OwnerRow
    BY <1>1, <1>8 DEF AcceptBind, Ready, Accepts, Spares
  <2>2. CASE \E u : Write(r, op[r].row, Joined(op[r].row, u))
    BY <2>1, <2>2, OwnerAfterWrite
  <2>3. CASE /\ \E new : member' = [member EXCEPT ![op[r].row] = Joined(op[r].row, new)]
             /\ Release(r) /\ op' = op
    <3>1. member'[OwnerRow] = member[OwnerRow]
      BY <1>1, <2>1, <2>3, OwnerAssumption DEF TypeOK
    <3> QED BY <2>3, <3>1, OwnerAfterAnswer
  <2> QED BY <1>8, <2>2, <2>3 DEF AcceptBind
<1>9. CASE AcceptLookUp(r) /\ ~Fail(r)
  <2>1. PICK o : Learn(r, o, "join") /\ o.row = op[r].row
    BY <1>9 DEF AcceptLookUp
  <2>2. /\ Goto(r, "join") /\ member' = member /\ op' = [op EXCEPT ![r] = o]
        /\ op[r].row # OwnerRow
    BY <1>1, <1>9, <2>1 DEF Learn, AcceptLookUp, Spares
  <2>3. pc'[r] = "join" /\ op'[r] = o /\ \A q \in Requests \ {r} : op'[q] = op[q]
    BY <1>1, <2>2 DEF Goto
  <2>4. Spares(r)'
    BY <2>1, <2>2, <2>3 DEF Spares
  <2> QED BY <2>2, <2>3, <2>4, OwnerAfterGoto
<1>10. CASE InviteUpdate(r)
  <2>1. Goto(r, "again") /\ member' = member /\ op' = op /\ pc[r] = "clear"
    BY <1>10 DEF InviteUpdate
  <2>2. Spares(r)'
    BY <1>1, <2>1 DEF Goto, Spares
  <2> QED BY <2>1, <2>2, OwnerAfterGoto
<1>11. CASE /\ \/ \E x \in Branches \X Requests : DeleteRow(r, x)
               \/ \E b \in Branches : InsertRow(r, b)
            /\ ~Fail(r)
  <2>1. PICK o : Learn(r, o, pc[r]) /\ Agrees(r, o)
    BY <1>11, RowAgrees
  <2>2. /\ Goto(r, pc[r]) /\ member' = member /\ pc'[r] = pc[r] /\ op'[r] = o
        /\ \A q \in Requests \ {r} : op'[q] = op[q]
    BY <1>1, <2>1 DEF Learn, Goto
  <2>3. Spares(r)'
    BY <1>1, <2>1, <2>2 DEF Agrees, Spares
  <2> QED BY <2>2, <2>3, OwnerAfterGoto
<1> QED BY <1>2, <1>3, <1>4, <1>5, <1>6, <1>7, <1>8, <1>9, <1>10, <1>11, OwnerAfterCheck,
           OwnerAfterFind DEF Step

LEMMA StepOwner ==
    ASSUME IInv, [Next]_vars, Owner \notin moved => OwnerSafe, Owner \notin moved'
    PROVE  OwnerSafe'
<1>1. CASE moved' = moved
  <2>1. OwnerSafe
    BY <1>1
  <2>2. ASSUME NEW r \in Requests, Abort(r) PROVE OwnerSafe'
    BY <2>1, <2>2, OwnerAfterAnswer DEF Abort, Fail
  <2>3. member' = member /\ pc' = pc /\ op' = op => OwnerSafe'
    BY <2>1 DEF OwnerSafe, OwnerStays, Spares
  <2>4. ASSUME NEW u \in Accounts, NEW e \in Emails, Register(u, e) \/ ConfirmEmailChange(u, e)
        PROVE  member' = member /\ pc' = pc /\ op' = op
    BY <2>4 DEF Register, ConfirmEmailChange
  <2>5. UNCHANGED vars => member' = member /\ pc' = pc /\ op' = op
    BY DEF vars
  <2> QED BY <1>1, <2>1, <2>2, <2>3, <2>4, <2>5, OwnerAfterCall, OwnerAfterStep DEF Next
<1>2. CASE moved' # moved
  <2>1. PICK u \in Accounts, e \in Emails : ConfirmEmailChange(u, e)
    <3>1. ASSUME NEW r \in Requests, Call(r) \/ Step(r) \/ Abort(r) PROVE moved' = moved
      BY <3>1 DEF Call, Invite, Resend, Remove, Update, Accept, Start, Learn, Write, Fail, people,
            Abort, Step, InviteLock, InviteCheck, InviteFind, InviteCreate, InviteUpdate,
            InviteAgain, ResendUpdate, UpdateDelete, DeleteRow, InsertRow, UpdateCommit,
            RemoveUpdate, AcceptClaim, AcceptLookUp, AcceptBind
    <3> QED BY <1>2, <3>1 DEF Next, Register, vars
  <2>2. /\ moved \subseteq moved' /\ member' = member /\ pc' = pc /\ op' = op
    BY <2>1 DEF ConfirmEmailChange
  <2> QED BY <2>2 DEF OwnerSafe, OwnerStays, Spares
<1> QED BY <1>1, <1>2

-----------------------------------------------------------------------------
(* The branches of the confined.                                          *)

(* An invite for a confined role names a branch, and an update that       *)
(* leaves none asks for an administrator or has read one.  What a remove  *)
(* has found is still a row.                                              *)
Chosen(r) ==
    /\ pc[r] \in {"lock", "check", "find", "insert", "clear", "again"} /\ op[r].role = "STAFF" =>
          op[r].branches # {}
    /\ pc[r] \in {"delete", "rows"} /\ op[r].branches = {} =>
          "ADMIN" = IF op[r].role = None THEN op[r].was ELSE op[r].role
    /\ pc[r] = "remove" => op[r].row \in Members /\ member[op[r].row].status # "none"

AllChosen == \A r \in Requests : Chosen(r)

(* No row is deleted, which StatusStep shows.                             *)
RowsRemain == \A m \in Members : member[m].status # "none" => member'[m].status # "none"

(* One request goes on, or is answered.                                   *)
LEMMA ChosenKept ==
    ASSUME AllChosen, RowsRemain, NEW r \in Requests, Chosen(r)',
           \A q \in Requests \ {r} : pc'[q] = pc[q] /\ op'[q] = op[q]
    PROVE  AllChosen'
<1>1. ASSUME NEW q \in Requests PROVE Chosen(q)'
  <2>1. CASE q = r
    BY <2>1
  <2>2. CASE q # r
    BY <2>2 DEF AllChosen, Chosen, RowsRemain
  <2> QED BY <2>1, <2>2
<1> QED BY <1>1 DEF AllChosen

LEMMA ChosenAfterAnswer ==
    ASSUME IInv, AllChosen, RowsRemain, NEW r \in Requests, Release(r), op' = op
    PROVE  AllChosen'
<1>1. pc'[r] = "done" /\ \A q \in Requests \ {r} : pc'[q] = pc[q]
  BY ReleaseLocks
<1>2. Chosen(r)'
  BY <1>1 DEF Chosen
<1> QED BY <1>1, <1>2, ChosenKept

LEMMA ChosenAfterGoto ==
    ASSUME IInv, AllChosen, RowsRemain, NEW r \in Requests, NEW o, NEW where, Goto(r, where),
           op' = [op EXCEPT ![r] = o],
           where \in {"lock", "check", "find", "insert", "clear", "again"} /\ o.role = "STAFF" =>
              o.branches # {},
           where \in {"delete", "rows"} /\ o.branches = {} =>
              "ADMIN" = IF o.role = None THEN o.was ELSE o.role,
           where = "remove" => o.row \in Members /\ member[o.row].status # "none"
    PROVE  AllChosen'
<1>1. /\ pc'[r] = where /\ op'[r] = o
      /\ \A q \in Requests \ {r} : pc'[q] = pc[q] /\ op'[q] = op[q]
  BY DEF Goto, IInv
<1>2. Chosen(r)'
  BY <1>1 DEF Chosen, RowsRemain
<1> QED BY <1>1, <1>2, ChosenKept

LEMMA ChosenAfterUpdate ==
    ASSUME IInv, AllChosen, RowsRemain, NEW r \in Requests, NEW m \in Members, NEW role, NEW bs,
           Update(r, m, role, bs)
    PROVE  AllChosen'
<1> DEFINE nextRole == IF role = None THEN member[m].role ELSE role
           next == IF nextRole = "ADMIN" THEN {}
                   ELSE IF bs = None THEN BranchIds(member[m].branches) ELSE bs
           o == [kind |-> "update", row |-> m, role |-> role, was |-> member[m].role,
                 branches |-> next]
<1>1. CASE Fail(r)
  BY <1>1, ChosenAfterAnswer DEF Fail
<1>2. CASE (nextRole # "ADMIN" => next # {}) /\ Start(r, o, "delete")
  <2>1. /\ o.role = role /\ o.was = member[m].role /\ o.branches = next
    OBVIOUS
  <2>2. next = {} => "ADMIN" = IF role = None THEN member[m].role ELSE role
    BY <1>2
  <2> HIDE DEF next, o
  <2>3. Goto(r, "delete") /\ op' = [op EXCEPT ![r] = o]
    BY <1>2 DEF Start
  <2> QED BY <2>1, <2>2, <2>3, ChosenAfterGoto
<1> QED BY <1>1, <1>2 DEF Update

LEMMA ChosenAfterCall ==
    ASSUME IInv, AllChosen, RowsRemain, NEW r \in Requests, Call(r)
    PROVE  AllChosen'
<1>1. Fail(r) => AllChosen'
  BY ChosenAfterAnswer DEF Fail
<1>2. ASSUME NEW e \in Emails, NEW role \in {"ADMIN", "STAFF"}, NEW bs \in SUBSET Branches,
             Invite(r, e, role, bs)
      PROVE  AllChosen'
  <2>1. PICK o : Start(r, o, "lock") /\ o.role = role /\ o.branches = bs
    BY <1>2 DEF Invite
  <2> QED BY <1>2, <2>1, ChosenAfterGoto DEF Invite, Start
<1>3. ASSUME NEW o, NEW where \in {"resend", "remove", "claim"}, Start(r, o, where),
             where = "remove" => o.row \in Members /\ member[o.row].status # "none"
      PROVE  AllChosen'
  BY <1>3, ChosenAfterGoto DEF Start
<1>4. ASSUME NEW m \in Members, Resend(r, m)
      PROVE  AllChosen'
  BY <1>1, <1>3, <1>4 DEF Resend
<1>5. ASSUME NEW m \in Members, Remove(r, m)
      PROVE  AllChosen'
  BY <1>1, <1>3, <1>5 DEF Remove, MayManage, Seated
<1>6. ASSUME NEW m \in Members, NEW secret \in Requests, Accept(r, m, secret)
      PROVE  AllChosen'
  BY <1>1, <1>3, <1>6 DEF Accept
<1> QED BY <1>2, <1>4, <1>5, <1>6, ChosenAfterUpdate DEF Call

LEMMA ChosenAfterStep ==
    ASSUME IInv, AllChosen, RowsRemain, NEW r \in Requests, Step(r)
    PROVE  AllChosen'
<1>1. Chosen(r) /\ op = [q \in Requests |-> op[q]] /\ pc \in [Requests -> States]
  BY DEF AllChosen, IInv
<1>2. Fail(r) => AllChosen'
  BY ChosenAfterAnswer DEF Fail
<1>3. ASSUME NEW m, NEW row, Write(r, m, row) PROVE AllChosen'
  BY <1>3, ChosenAfterAnswer DEF Write
<1>4. CASE op' = op /\ \E where \in {"check", "find", "again", "bind"} :
              /\ Goto(r, where)
              /\ where = "check" => pc[r] = "lock"
              /\ where = "find" => pc[r] = "check"
              /\ where = "again" => pc[r] = "clear"
  <2>1. /\ pc'[r] \in {"check", "find", "again"} => pc[r] \in {"lock", "check", "clear"}
        /\ pc'[r] \in {"check", "find", "again", "bind"} /\ \A q \in Requests \ {r} : pc'[q] = pc[q]
    BY <1>1, <1>4 DEF Goto
  <2>2. Chosen(r)'
    BY <1>1, <1>4, <2>1 DEF Chosen
  <2> QED BY <1>4, <2>1, <2>2, ChosenKept
<1>5. InviteLock(r) \/ InviteCheck(r) \/ InviteUpdate(r) \/ AcceptClaim(r) => AllChosen'
  BY <1>2, <1>4 DEF InviteLock, InviteCheck, InviteUpdate, AcceptClaim
<1>6. CASE InviteFind(r)
  <2> DEFINE mine == IF op[r].account = None THEN {} ELSE RowsOf(op[r].account)
             found == IF mine = {} THEN None ELSE CHOOSE m \in mine : TRUE
             where == IF mine = {} THEN "insert" ELSE "clear"
             o == [kind |-> "invite", email |-> op[r].email, role |-> op[r].role,
                   branches |-> op[r].branches, account |-> op[r].account, row |-> found,
                   todo |-> UNION {member[m].branches : m \in mine}, gone |-> {}, put |-> {}]
  <2>1. Learn(r, o, where) /\ pc[r] = "find"
    BY <1>6 DEF InviteFind
  <2>2. o.role = op[r].role /\ o.branches = op[r].branches /\ where \in {"insert", "clear"}
    OBVIOUS
  <2> HIDE DEF o, where
  <2> QED BY <1>1, <2>1, <2>2, ChosenAfterGoto DEF Learn, Chosen
<1>7. CASE UpdateDelete(r)
  <2>1. PICK o : /\ Learn(r, o, "rows") /\ o.role = op[r].role /\ o.was = op[r].was
                 /\ o.branches = op[r].branches
    BY <1>7 DEF UpdateDelete
  <2> QED BY <1>1, <1>7, <2>1, ChosenAfterGoto DEF Learn, UpdateDelete, Chosen
<1>8. InviteCreate(r) \/ InviteAgain(r) \/ ResendUpdate(r) \/ UpdateCommit(r) \/ RemoveUpdate(r)
         => AllChosen'
  BY <1>2, <1>3 DEF InviteCreate, InviteAgain, ResendUpdate, UpdateCommit, RemoveUpdate
<1>9. CASE AcceptBind(r)
  BY <1>2, <1>3, <1>9, ChosenAfterAnswer DEF AcceptBind
<1>10. CASE AcceptLookUp(r)
  BY <1>2, <1>10, ChosenAfterGoto DEF AcceptLookUp, Learn
<1>11. CASE /\ \/ \E x \in Branches \X Requests : DeleteRow(r, x)
               \/ \E b \in Branches : InsertRow(r, b)
            /\ ~Fail(r)
  <2>1. PICK o : Learn(r, o, pc[r]) /\ Agrees(r, o)
    BY <1>11, RowAgrees
  <2> QED BY <1>1, <2>1, ChosenAfterGoto DEF Learn, Agrees, Chosen
<1> QED BY <1>2, <1>5, <1>6, <1>7, <1>8, <1>9, <1>10, <1>11 DEF Step

LEMMA StepChosen ==
    ASSUME IInv, AllChosen, [Next]_vars
    PROVE  AllChosen'
<1> RowsRemain
  BY StatusStep DEF RowsRemain
<1>1. ASSUME NEW r \in Requests, Abort(r) PROVE AllChosen'
  BY <1>1, ChosenAfterAnswer DEF Abort, Fail
<1>2. pc' = pc /\ op' = op => AllChosen'
  BY DEF AllChosen, Chosen, RowsRemain
<1>3. ASSUME NEW u \in Accounts, NEW e \in Emails, Register(u, e) \/ ConfirmEmailChange(u, e)
      PROVE  pc' = pc /\ op' = op
  BY <1>3 DEF Register, ConfirmEmailChange
<1>4. UNCHANGED vars => pc' = pc /\ op' = op
  BY DEF vars
<1> QED BY <1>1, <1>2, <1>3, <1>4, ChosenAfterCall, ChosenAfterStep DEF Next

LEMMA RowsOfBranches ==
    ASSUME NEW r, NEW bs, RowsBy(r, bs) = {}
    PROVE  bs = {}
<1>1. \A b \in bs : <<b, r>> \in RowsBy(r, bs)
  BY DEF RowsBy
<1> QED BY <1>1

(* The steps that write a role or branches.                               *)
LEMMA StrandedStep ==
    ASSUME IInv, AllChosen, [Next]_vars, NEW m \in Members, ~Stranded(m), Stranded(m)'
    PROVE  \E r \in Requests : /\ pc[r] = "rows" /\ op[r].row = m
                               /\ op[r].was # member[m].role
<1>1. /\ member \in [Members -> Rows] /\ \A r \in Requests : Ready(r) /\ Chosen(r)
      /\ member'[m] # member[m] /\ m \in Members
  BY DEF IInv, TypeOK, AllChosen, Stranded
<1>2. ASSUME NEW r \in Requests, NEW n \in Members, NEW row, Write(r, n, row)
      PROVE  /\ n = m /\ member'[m] = row
             /\ row.status # "none" /\ row.role = "STAFF" /\ row.branches = {}
  BY <1>1, <1>2 DEF Write, Stranded
<1>3. ASSUME NEW r \in Requests, Step(r)
      PROVE  pc[r] = "rows" /\ op[r].row = m /\ op[r].was # member[m].role
  <2>1. ~Fail(r) /\ member' # member
    BY <1>1 DEF Fail
  <2>2. CASE InviteCreate(r)
    <3> DEFINE bs == RowsBy(r, op[r].branches)
               active == [NoRow EXCEPT !.status = "ACTIVE", !.account = op[r].account,
                                       !.role = op[r].role, !.branches = bs]
               invited == [NoRow EXCEPT !.status = "INVITED", !.invited = op[r].email,
                                        !.token = r, !.role = op[r].role,
                                        !.branches = bs]
    <3>1. /\ active.role = op[r].role /\ active.branches = bs
          /\ invited.role = op[r].role /\ invited.branches = bs
      BY DEF NoRow
    <3>2. \E n \in Members : Write(r, n, IF op[r].account # None THEN active ELSE invited)
      BY <2>1, <2>2 DEF InviteCreate
    <3> HIDE DEF active, invited, bs
    <3>4. op[r].role = "STAFF" /\ bs = {}
      BY <1>2, <3>1, <3>2
    <3>3. op[r].role = "STAFF" /\ op[r].branches = {}
      BY <3>4, RowsOfBranches DEF bs
    <3> QED BY <1>1, <2>2, <3>3 DEF InviteCreate, Chosen
  <2>3. CASE InviteAgain(r)
    <3> DEFINE n == op[r].row
               bs == Rewritten(r, n)
               row == [member[n] EXCEPT !.status = "ACTIVE", !.role = op[r].role, !.branches = bs]
    <3>1. n \in Members /\ Write(r, n, row)
      BY <1>1, <2>1, <2>3 DEF InviteAgain, Ready, Checked
    <3>2. row.role = op[r].role /\ row.branches = bs
      <4> HIDE DEF bs
      <4> QED BY <1>1, <3>1 DEF Rows
    <3>3. bs = {} => op[r].branches = {}
      BY RowsOfBranches DEF Rewritten
    <3> HIDE DEF row, bs, n
    <3>4. op[r].role = "STAFF" /\ op[r].branches = {}
      BY <1>2, <3>1, <3>2, <3>3
    <3> QED BY <1>1, <2>3, <3>4 DEF InviteAgain, Chosen
  <2>4. CASE ResendUpdate(r)
    <3> DEFINE n == op[r].row
    <3>1. n \in Members
      BY <1>1, <2>4 DEF ResendUpdate, Ready, Manages
    <3>2. /\ [member[n] EXCEPT !.token = r].role = member[n].role
          /\ [member[n] EXCEPT !.token = r].branches = member[n].branches
          /\ [member[n] EXCEPT !.token = r].status = member[n].status
      BY <1>1, <3>1 DEF Rows
    <3> QED BY <1>2, <2>4, <3>1, <3>2 DEF ResendUpdate, Stranded
  <2>5. CASE UpdateCommit(r)
    <3> DEFINE n == op[r].row
               role == IF op[r].role = None THEN member[n].role ELSE op[r].role
               bs == Rewritten(r, n)
               row == [member[n] EXCEPT !.role = role, !.branches = bs]
    <3>1. n \in Members /\ Write(r, n, row) /\ pc[r] = "rows"
      BY <1>1, <2>1, <2>5 DEF UpdateCommit, RowsDone, Ready, Rewrites, UpdateOps
    <3>2. row.role = role /\ row.branches = bs
      <4> HIDE DEF role, bs
      <4> QED BY <1>1, <3>1 DEF Rows
    <3>3. bs = {} => op[r].branches = {}
      BY RowsOfBranches DEF Rewritten
    <3> HIDE DEF row, bs
    <3>4. n = m /\ role = "STAFF" /\ op[r].branches = {}
      BY <1>2, <3>1, <3>2, <3>3
    <3>5. "ADMIN" = IF op[r].role = None THEN op[r].was ELSE op[r].role
      BY <1>1, <3>1, <3>4 DEF Chosen
    <3> QED BY <3>1, <3>4, <3>5
  <2>6. CASE RemoveUpdate(r)
    <3> DEFINE n == op[r].row
    <3>1. n \in Members /\ member[n].status # "none"
      BY <1>1, <2>6 DEF RemoveUpdate, Chosen
    <3>2. /\ [member[n] EXCEPT !.status = "REMOVED"].role = member[n].role
          /\ [member[n] EXCEPT !.status = "REMOVED"].branches = member[n].branches
      BY <1>1, <3>1 DEF Rows
    <3> QED BY <1>1, <1>2, <2>6, <3>1, <3>2 DEF RemoveUpdate, Stranded
  <2>7. CASE AcceptBind(r)
    <3> DEFINE n == op[r].row
    <3>1. n \in Members /\ member[n].status = "INVITED"
      BY <1>1, <2>7 DEF AcceptBind, Ready, Accepts
    <3>2. PICK u : member' = [member EXCEPT ![n] = Joined(n, u)]
      BY <2>1, <2>7 DEF AcceptBind, Write
    <3>3. Joined(n, u).role = member[n].role /\ Joined(n, u).branches = member[n].branches
      BY <1>1, <3>1 DEF Joined, Rows
    <3>4. m = n /\ member'[m] = Joined(n, u)
      BY <1>1, <3>1, <3>2
    <3> QED BY <3>1, <3>3, <3>4 DEF Stranded
  <2>8. /\ InviteLock(r) \/ InviteCheck(r) \/ InviteFind(r) \/ InviteUpdate(r) \/ UpdateDelete(r)
           \/ AcceptClaim(r) \/ AcceptLookUp(r) => member' = member
        /\ \A x : DeleteRow(r, x) \/ InsertRow(r, x) => member' = member
    BY DEF InviteLock, InviteCheck, InviteFind, InviteUpdate, UpdateDelete, AcceptClaim,
           AcceptLookUp, DeleteRow, InsertRow, Learn, Fail
  <2> QED BY <1>3, <2>1, <2>2, <2>3, <2>4, <2>5, <2>6, <2>7, <2>8 DEF Step
<1>4. ASSUME NEW r \in Requests, Call(r) PROVE member' = member
  BY <1>4 DEF Call, Invite, Resend, Remove, Update, Accept, Start, Fail
<1>5. ASSUME NEW r \in Requests, Abort(r) PROVE member' = member
  BY <1>5 DEF Abort, Fail
<1>6. ASSUME NEW u \in Accounts, NEW e \in Emails, Register(u, e) \/ ConfirmEmailChange(u, e)
      PROVE  member' = member
  BY <1>6 DEF Register, ConfirmEmailChange
<1>7. UNCHANGED vars => member' = member
  BY DEF vars
<1> QED BY <1>1, <1>3, <1>4, <1>5, <1>6, <1>7 DEF Next

-----------------------------------------------------------------------------
(* The locks.  Whoever waits, and whoever is waited for, is under way.    *)
UnderWay(r) == pc[r] \notin {"idle", "done"}

LEMMA WaitersAreUnderWay ==
    ASSUME IInv, NEW r \in Requests, NEW q \in Requests, Waits(r, q)
    PROVE  UnderWay(r) /\ UnderWay(q)
<1>1. UnderWay(r)
  BY DEF Waits, UnderWay, RowsDone, Inserting
<1>2. tenantLock = q => UnderWay(q)
  BY DEF IInv, TypeOK, UnderWay
<1>3. ASSUME NEW m \in Members, rowLock[m] = q PROVE UnderWay(q)
  BY <1>3 DEF IInv, TypeOK, UnderWay
<1>4. \A m : q \in Rewriters(m) => UnderWay(q)
  BY DEF Rewriters, UnderWay
<1>5. /\ pc[r] \in {"resend", "remove", "claim", "clear", "rows"} => op[r].row \in Members
  BY DEF IInv, Ready, Checked, Rewrites, UpdateOps, Manages, Accepts
<1> QED BY <1>1, <1>2, <1>3, <1>4, <1>5 DEF Waits, RowsDone, Deleters, Writers, KeySharers

(* Who holds what, when no update rewrites branches.                      *)
LEMMA RewritersAreInvites ==
    ASSUME IInv, NEW q \in Requests, NEW m, q \in Rewriters(m), op[q].kind # "update"
    PROVE  tenantLock = q /\ pc[q] # "rows"
<1>1. pc[q] # "rows"
  BY DEF IInv, Ready, Rewrites, UpdateOps
<1> QED BY <1>1 DEF Rewriters, IInv, TypeOK

LEMMA AcceptWaitsForUpdates ==
    ASSUME IInv, NEW r \in Requests, NEW q \in Requests, pc[r] \in {"bind", "join"}, Waits(r, q)
    PROVE  op[q].kind = "update"
<1>1. pc[q] = "rows"
  BY DEF Waits, RowsDone, Inserting, KeySharers
<1> QED BY <1>1 DEF IInv, Ready, Rewrites, UpdateOps

LEMMA InviteWaits ==
    ASSUME IInv, NEW r \in Requests, NEW q \in Requests, tenantLock = r, Waits(r, q)
    PROVE  op[q].kind = "update" \/ pc[q] \in {"bind", "join"}
<1>1. pc[r] \in {"check", "find", "insert", "clear", "again"} /\ q # r
  BY DEF IInv, TypeOK, Waits
<1>2. \/ pc[r] = "clear" /\ rowLock[op[r].row] = q
      \/ \E m : q \in Rewriters(m)
  BY <1>1 DEF Waits, RowsDone, Inserting, Deleters, Writers
<1>3. CASE pc[r] = "clear" /\ rowLock[op[r].row] = q
  <2>1. pc[q] \in {"again", "bind", "join"}
    BY <1>3 DEF IInv, TypeOK, Ready, Checked
  <2>2. pc[q] # "again"
    BY <1>1 DEF IInv, TypeOK
  <2> QED BY <2>1, <2>2
<1>4. CASE \E m : q \in Rewriters(m)
  BY <1>1, <1>4, RewritersAreInvites
<1> QED BY <1>2, <1>3, <1>4

LEMMA OthersWait ==
    ASSUME IInv, NEW r \in Requests, NEW q \in Requests, Waits(r, q),
           op[r].kind # "update", tenantLock # r, pc[r] \notin {"bind", "join"}
    PROVE  tenantLock = q \/ pc[q] \in {"bind", "join"}
<1>1. pc[r] \notin {"clear", "again", "rows"}
  BY DEF IInv, TypeOK, Ready, Rewrites, UpdateOps
<1>2. \/ tenantLock = q
      \/ pc[r] \in {"resend", "remove", "claim"} /\ rowLock[op[r].row] = q
  BY <1>1 DEF Waits, RowsDone, Inserting
<1>3. CASE pc[r] \in {"resend", "remove", "claim"} /\ rowLock[op[r].row] = q
  <2>1. op[r].row \in Members
    BY <1>3 DEF IInv, Ready, Manages, Accepts
  <2>2. pc[q] \in {"again", "bind", "join"}
    BY <1>3, <2>1 DEF IInv, TypeOK
  <2> QED BY <2>2 DEF IInv, TypeOK
<1> QED BY <1>2, <1>3

LEMMA DeadlockNeedsUpdate == IInv => DeadlocksAreOfUpdates
<1> SUFFICES ASSUME IInv, NEW S \in SUBSET Requests, Deadlocked(S),
                    \A r \in S : op[r].kind # "update"
             PROVE  FALSE
  BY DEF DeadlocksAreOfUpdates
<1>1. ASSUME NEW r \in S, pc[r] \in {"bind", "join"} PROVE FALSE
  BY <1>1, AcceptWaitsForUpdates DEF Deadlocked
<1>2. ASSUME NEW r \in S, tenantLock = r PROVE FALSE
  BY <1>1, <1>2, InviteWaits DEF Deadlocked
<1>3. ASSUME NEW r \in S PROVE FALSE
  BY <1>1, <1>2, <1>3, OthersWait DEF Deadlocked
<1> QED BY <1>3 DEF Deadlocked

-----------------------------------------------------------------------------
(* The theorems.                                                          *)

(* What the proofs below rest on: the tenant's lock keeps the counted     *)
(* seats and the checked address as they were, an account that was looked *)
(* up before still has the address unless it moved, and a claimed row is  *)
(* still the invitation of the link it was claimed with.                  *)
THEOREM Invariance == Spec => []IInv
BY InitIInv, StepIInv, PTL DEF Spec

(* Every membership row of team.service.ts and invites.service.ts has its *)
(* type; an invite holds the tenant row, and an accept the row it claimed, *)
(* exactly while its transaction is under way.                            *)
THEOREM TypeCorrect == Spec => []TypeOK
<1>1. IInv => TypeOK
  BY DEF IInv
<1> QED BY <1>1, Invariance, PTL

(* A plan's maxUsers is never exceeded, however invites, accepts, returns *)
(* and removals interleave.                                               *)
THEOREM SeatsAlwaysWithinPlan == Spec => []SeatsWithinPlan
<1>1. IInv => SeatsWithinPlan
  BY DEF IInv
<1> QED BY <1>1, Invariance, PTL

(* Every place is one person's, after every accept that succeeds or is    *)
(* rolled back: no account has two rows, no address is twice among the    *)
(* active and the invited, but for those of accounts that changed their   *)
(* e-mail, and an active row has a registered account and a pending one   *)
(* only an address.                                                       *)
THEOREM PlacesAlwaysHold == Spec => []PlacesHold
<1>1. IInv => PlacesHold
  BY DEF IInv, RowOK, PlacesHold, ActiveHaveAccounts
<1> QED BY <1>1, Invariance, PTL

(* Only the last link sent for an invitation makes it a membership, and   *)
(* whoever was removed comes back only by a new invite.                   *)
THEOREM InvitationsAlwaysHold == Spec => InvitationsHold
<1>1. IInv /\ [Next]_vars =>
         [\A m \in Members :
             /\ member[m].status = "INVITED" /\ member'[m].status = "ACTIVE" =>
                   \E r \in Requests : /\ rowLock[m] = r
                                       /\ op[r].secret = member[m].token
             /\ member[m].status = "REMOVED" /\ member'[m].status # "REMOVED" =>
                   \E r \in Requests : tenantLock = r /\ op[r].row = m]_vars
  BY StatusStep
<1> QED BY <1>1, Invariance, PTL DEF Spec, InvitationsHold

(* Whoever is confined to branches by invite or update has one: the only  *)
(* step that leaves a confined member without any is an update that read  *)
(* another role than it finds, which another update has written since.    *)
THEOREM ConfinedAlwaysHaveBranches == Spec => ConfinedHaveBranches
<1>1. Init => AllChosen
  BY DEF Init, AllChosen, Chosen
<1>2. IInv /\ AllChosen /\ [Next]_vars => AllChosen'
  BY StepChosen
<1>3. IInv /\ AllChosen /\ [Next]_vars =>
         [\A m \in Members : ~Stranded(m) /\ Stranded(m)' =>
             \E r \in Requests : /\ pc[r] = "rows" /\ op[r].row = m
                                 /\ op[r].was # member[m].role]_vars
  BY StrandedStep
<1> QED BY <1>1, <1>2, <1>3, Invariance, PTL DEF Spec, ConfinedHaveBranches

(* The finding about the owner, delimited: the owner's row keeps its role *)
(* and its status through every invite, update, removal and accept, until *)
(* the owner confirms a change of e-mail.  Only then can the account that *)
(* invite looked up before its transaction be one that its check does not *)
(* find in the team.                                                      *)
THEOREM OwnerStaysUntilMoved == Spec => [](Owner \notin moved => OwnerStays)
<1>1. Init => (Owner \notin moved => OwnerSafe)
  <2>1. Init => /\ member[OwnerRow].role = "OWNER" /\ member[OwnerRow].status = "ACTIVE"
                /\ member[OwnerRow].account = Owner
                /\ \A r \in Requests : pc[r] = "idle"
    BY OwnerAssumption DEF Init, NoRow
  <2> QED BY <2>1 DEF OwnerSafe, OwnerStays, Spares
<1>2. IInv /\ (Owner \notin moved => OwnerSafe) /\ [Next]_vars
         => (Owner \notin moved => OwnerSafe)'
  BY StepOwner
<1>3. (Owner \notin moved => OwnerSafe) => (Owner \notin moved => OwnerStays)
  BY DEF OwnerSafe
<1> QED BY <1>1, <1>2, <1>3, Invariance, PTL DEF Spec

(* Requests that wait for each other's locks, and of which Postgres must  *)
(* end one, have an update among them, however many requests and branches *)
(* there are: invite, resend, remove and accept never lock each other.    *)
THEOREM DeadlocksAlwaysOfUpdates == Spec => []DeadlocksAreOfUpdates
BY DeadlockNeedsUpdate, Invariance, PTL

(* The locks of team.service.ts and invites.service.ts, while no update   *)
(* of a member is under way: whenever requests are, one of them waits for *)
(* no other.  With updates that is not so: one that has inserted branch   *)
(* rows and one accept, invite or update of the same membership may wait  *)
(* for each other.                                                        *)
THEOREM SomebodyAlwaysGoesOn ==
    Spec => []((\E r \in Requests : UnderWay(r))
                  /\ (\A r \in Requests : UnderWay(r) => op[r].kind # "update")
               => \E r \in Requests : UnderWay(r) /\ \A q \in Requests : ~Waits(r, q))
<1>1. ASSUME IInv, \E r \in Requests : UnderWay(r),
             \A r \in Requests : UnderWay(r) => op[r].kind # "update"
      PROVE  \E r \in Requests : UnderWay(r) /\ \A q \in Requests : ~Waits(r, q)
  <2> DEFINE S == {r \in Requests : UnderWay(r)}
  <2>1. ~Deadlocked(S)
    BY <1>1, DeadlockNeedsUpdate DEF DeadlocksAreOfUpdates
  <2>2. PICK r \in S : \A q \in S : ~Waits(r, q)
    BY <1>1, <2>1 DEF Deadlocked
  <2>3. \A q \in Requests : ~Waits(r, q)
    BY <1>1, <2>2, WaitersAreUnderWay
  <2> QED BY <2>2, <2>3
<1>2. IInv => ((\E r \in Requests : UnderWay(r))
                  /\ (\A r \in Requests : UnderWay(r) => op[r].kind # "update")
               => \E r \in Requests : UnderWay(r) /\ \A q \in Requests : ~Waits(r, q))
  BY <1>1
<1> QED BY <1>2, Invariance, PTL
=============================================================================
