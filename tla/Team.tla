-------------------------------- MODULE Team ------------------------------
(***************************************************************************)
(* The team of one distributor: team.service.ts (invite, resend, update,  *)
(* remove) and invites.service.ts (accept), with the accounts that        *)
(* register and change their e-mail meanwhile.                            *)
(*                                                                         *)
(* Only invite locks the tenant.  Every other operation reads a           *)
(* membership, decides, and writes it later by its id; the statements of  *)
(* a transaction wait for the rows that others have written.  The role    *)
(* STAFF stands for the three roles that are confined to branches.  Links *)
(* expire by the clock, which is left out: an accept may be refused.      *)
(***************************************************************************)
EXTENDS Integers, FiniteSets

CONSTANTS
    Members,           \* identifiers of membership rows
    Accounts, Emails,  \* users, and the addresses they may have
    Branches,
    Requests,          \* one call each; also the secret of the link it sends,
                       \* and the mark of the branch rows it inserts
    None,
    OwnerRow, Owner, OwnerEmail,
    MaxUsers,          \* maxUsers of the plan
    MaxEmailChanges    \* bound: confirmed changes of e-mail

ASSUME NoneAssumption == None \notin Requests \cup Emails \cup Accounts \cup Members
ASSUME OwnerAssumption ==
    OwnerRow \in Members /\ Owner \in Accounts /\ OwnerEmail \in Emails
ASSUME BoundsAssumption == MaxUsers \in Nat \ {0} /\ MaxEmailChanges \in Nat

VARIABLES
    member,      \* the committed membership rows
    emailOf,     \* the e-mail of each account, None until it is registered
    tenantLock,  \* the invite that holds the tenant row FOR UPDATE
    rowLock,     \* the accept or invite whose transaction has updated the row
    pc, op,      \* where each request is, what it asked for and has read
    moved        \* history: accounts that changed their e-mail, in order

vars == <<member, emailOf, tenantLock, rowLock, pc, op, moved>>
people == <<emailOf, moved>>
locks == <<tenantLock, rowLock>>

-----------------------------------------------------------------------------
Roles == {"OWNER", "ADMIN", "STAFF"}
Rows == [status: {"none", "INVITED", "ACTIVE", "REMOVED"},
         account: Accounts \cup {None}, invited: Emails \cup {None},
         token: Requests \cup {None}, role: Roles,
         branches: SUBSET (Branches \X Requests)]
NoRow == [status |-> "none", account |-> None, invited |-> None, token |-> None,
          role |-> "STAFF", branches |-> {}]
NoOp == [kind |-> "none"]

Seated(m) == member[m].status \in {"INVITED", "ACTIVE"}
Seats == {m \in Members : Seated(m)}
RowsOf(u) == {m \in Members : member[m].account = u /\ member[m].status # "none"}
AccountOf(e) == {u \in Accounts : emailOf[u] = e}
Known(e) == IF AccountOf(e) = {} THEN None ELSE CHOOSE u \in AccountOf(e) : TRUE

(* The address a row is found by.                                         *)
Addresses(m) ==
    {member[m].invited} \cup
    (IF member[m].account = None THEN {} ELSE {emailOf[member[m].account]})

Init ==
    /\ member = [m \in Members |-> IF m = OwnerRow
          THEN [NoRow EXCEPT !.status = "ACTIVE", !.account = Owner, !.role = "OWNER"]
          ELSE NoRow]
    /\ emailOf \in [Accounts -> {None, OwnerEmail}]
    /\ \A u \in Accounts : emailOf[u] = OwnerEmail <=> u = Owner
    /\ tenantLock = None
    /\ rowLock = [m \in Members |-> None]
    /\ pc = [r \in Requests |-> "idle"]
    /\ op = [r \in Requests |-> NoOp]
    /\ moved = {}

Goto(r, where) == pc' = [pc EXCEPT ![r] = where]

(* A request is answered; what its transaction held is released.          *)
Release(r) ==
    /\ Goto(r, "done")
    /\ tenantLock' = IF tenantLock = r THEN None ELSE tenantLock
    /\ rowLock' = [m \in Members |-> IF rowLock[m] = r THEN None ELSE rowLock[m]]

Fail(r) == Release(r) /\ UNCHANGED <<member, op, people>>

Start(r, o, where) ==
    /\ pc[r] = "idle"
    /\ Goto(r, where)
    /\ op' = [op EXCEPT ![r] = o]
    /\ UNCHANGED <<member, people, locks>>

Learn(r, o, where) ==
    /\ Goto(r, where)
    /\ op' = [op EXCEPT ![r] = o]
    /\ UNCHANGED <<member, people, locks>>

(* One statement writes row m, and the request is answered.               *)
Write(r, m, row) ==
    /\ member' = [member EXCEPT ![m] = row]
    /\ Release(r)
    /\ UNCHANGED <<op, people>>

(* The branch rows of a membership, each one known by who inserted it: a  *)
(* row that was deleted and inserted again is another one.                *)
BranchIds(rows) == {x[1] : x \in rows}
RowsBy(r, bs) == bs \X {r}

(* The transactions that have deleted row x, or written a row of branch b *)
(* at all, and those whose inserted rows hold a share of the membership's *)
(* key: every insert is done, and the foreign key checked.                *)
Rewriters(m) == {q \in Requests : pc[q] \in {"rows", "clear", "again"} /\ op[q].row = m}
Deleters(m, x) == {q \in Rewriters(m) : x \in op[q].gone}
Writers(m, b) == {q \in Rewriters(m) : b \in op[q].put \cup BranchIds(op[q].gone)}
KeySharers(m) ==
    {q \in Rewriters(m) : pc[q] = "rows" /\ op[q].put # {} /\ op[q].put = op[q].branches}

(* DELETE, row by row: what its snapshot saw, it waits for and deletes,   *)
(* unless the one it waited for has deleted it.                           *)
DeleteRow(r, x) ==
    LET o == op[r]
    IN  /\ pc[r] \in {"rows", "clear"}
        /\ x \in o.todo
        /\ Deleters(o.row, x) \subseteq {r}
        /\ Learn(r, [o EXCEPT !.todo = @ \ {x},
                              !.gone = @ \cup ({x} \cap member[o.row].branches)], pc[r])

(* INSERT, row by row: a row of the branch that is there already breaks   *)
(* the primary key.                                                       *)
Inserting(r) == pc[r] = "again" \/ (pc[r] = "rows" /\ op[r].todo = {})

InsertRow(r, b) ==
    LET o == op[r]
    IN  /\ Inserting(r)
        /\ b \in o.branches \ o.put
        /\ Writers(o.row, b) \subseteq {r}
        /\ IF b \in BranchIds(member[o.row].branches \ o.gone)
             THEN Fail(r)
             ELSE Learn(r, [o EXCEPT !.put = @ \cup {b}], pc[r])

Rewritten(r, m) == (member[m].branches \ op[r].gone) \cup RowsBy(r, op[r].branches)

-----------------------------------------------------------------------------
(* invite.  The account is looked up before the transaction.              *)
Invite(r, e, role, bs) ==
    /\ role = "STAFF" <=> bs # {}
    /\ Start(r, [kind |-> "invite", email |-> e, role |-> role, branches |-> bs,
                 account |-> Known(e)], "lock")

(* Mutant: SELECT without FOR UPDATE.                                     *)
InviteLockNot(r) ==
    /\ pc[r] = "lock"
    /\ Goto(r, "check")
    /\ UNCHANGED <<member, op, people, locks>>

InviteLock(r) ==
    /\ pc[r] = "lock"
    /\ tenantLock = None
    /\ tenantLock' = r
    /\ Goto(r, "check")
    /\ UNCHANGED <<member, op, people, rowLock>>

(* Mutant: only members with an account count as part of the team.        *)
InTeamWithAccount(e) ==
    \E m \in Seats : member[m].account # None /\ e = emailOf[member[m].account]

InTeam(e) == \E m \in Seats : e \in Addresses(m)

InviteCheck(r) ==
    /\ pc[r] = "check"
    /\ IF InTeam(op[r].email) \/ Cardinality(Seats) >= MaxUsers
         THEN Fail(r)
         ELSE /\ Goto(r, "find")
              /\ UNCHANGED <<member, op, people, locks>>

(* The row of a known account, whatever its status; the deletion of its   *)
(* branch rows starts.                                                    *)
InviteFind(r) ==
    LET o == op[r]
        mine == IF o.account = None THEN {} ELSE RowsOf(o.account)
        row == IF mine = {} THEN None ELSE CHOOSE m \in mine : TRUE
    IN  /\ pc[r] = "find"
        /\ Learn(r, [kind |-> "invite", email |-> o.email, role |-> o.role,
                     branches |-> o.branches, account |-> o.account, row |-> row,
                     todo |-> UNION {member[m].branches : m \in mine},
                     gone |-> {}, put |-> {}],
                 IF mine = {} THEN "insert" ELSE "clear")

(* A new row: active for an account, invited for an address.              *)
InviteCreate(r) ==
    LET o == op[r]
    IN  /\ pc[r] = "insert"
        /\ IF o.account # None /\ RowsOf(o.account) # {}
             THEN Fail(r)
             ELSE \E m \in Members :
                /\ member[m].status = "none"
                /\ Write(r, m,
                      IF o.account # None
                        THEN [NoRow EXCEPT !.status = "ACTIVE", !.account = o.account,
                                           !.role = o.role, !.branches = RowsBy(r, o.branches)]
                        ELSE [NoRow EXCEPT !.status = "INVITED", !.invited = o.email,
                                           !.token = r, !.role = o.role,
                                           !.branches = RowsBy(r, o.branches)])

(* The row found becomes active again with the new role; then its         *)
(* branches are inserted.                                                 *)
InviteUpdate(r) ==
    LET m == op[r].row
    IN  /\ pc[r] = "clear"
        /\ op[r].todo = {}
        /\ rowLock[m] = None
        /\ rowLock' = [rowLock EXCEPT ![m] = r]
        /\ Goto(r, "again")
        /\ UNCHANGED <<member, op, people, tenantLock>>

InviteAgain(r) ==
    LET o == op[r]
    IN  /\ pc[r] = "again"
        /\ o.put = o.branches
        /\ Write(r, o.row, [member[o.row] EXCEPT !.status = "ACTIVE", !.role = o.role,
                                                 !.branches = Rewritten(r, o.row)])

-----------------------------------------------------------------------------
(* resendInvite, update and remove: a read, then a write by the id.       *)
(* Mutant: the invitation is written anew, its branches first.            *)
ResendRewrites(r, m) ==
    IF member[m].status = "INVITED" /\ member[m].invited # None
      THEN Start(r, [kind |-> "resend", row |-> m, role |-> None, was |-> member[m].role,
                     branches |-> BranchIds(member[m].branches)], "delete")
      ELSE pc[r] = "idle" /\ Fail(r)

Resend(r, m) ==
    IF member[m].status = "INVITED" /\ member[m].invited # None
      THEN Start(r, [kind |-> "resend", row |-> m], "resend")
      ELSE pc[r] = "idle" /\ Fail(r)

ResendUpdate(r) ==
    LET m == op[r].row
    IN  /\ pc[r] = "resend"
        /\ rowLock[m] = None
        /\ Write(r, m, [member[m] EXCEPT !.token = r])

(* findActiveOrInvited and assertCanManage; the actor is another manager. *)
MayManage(m) == Seated(m) /\ member[m].role # "OWNER"

(* Mutant: a confined role without any branch is accepted.                *)
UpdateAnyBranches(r, m, role, bs) ==
    LET nextRole == IF role = None THEN member[m].role ELSE role
        next == IF nextRole = "ADMIN" THEN {}
                ELSE IF bs = None THEN BranchIds(member[m].branches) ELSE bs
    IN  IF MayManage(m)
          THEN Start(r, [kind |-> "update", row |-> m, role |-> role, was |-> member[m].role,
                         branches |-> next], "delete")
          ELSE pc[r] = "idle" /\ Fail(r)

(* A role or branches of None are not in the request.  The role read is   *)
(* kept, for the notice of its change.                                    *)
Update(r, m, role, bs) ==
    LET nextRole == IF role = None THEN member[m].role ELSE role
        next == IF nextRole = "ADMIN" THEN {}
                ELSE IF bs = None THEN BranchIds(member[m].branches) ELSE bs
    IN  IF MayManage(m) /\ (nextRole # "ADMIN" => next # {})
          THEN Start(r, [kind |-> "update", row |-> m, role |-> role, was |-> member[m].role,
                         branches |-> next], "delete")
          ELSE pc[r] = "idle" /\ Fail(r)

UpdateDelete(r) ==
    LET o == op[r]
    IN  /\ pc[r] = "delete"
        /\ Learn(r, [kind |-> o.kind, row |-> o.row, role |-> o.role, was |-> o.was,
                     branches |-> o.branches, todo |-> member[o.row].branches,
                     gone |-> {}, put |-> {}], "rows")

(* The membership itself is written last.                                 *)
RowsDone(r) == pc[r] = "rows" /\ op[r].todo = {} /\ op[r].put = op[r].branches

UpdateCommit(r) ==
    LET o == op[r]
    IN  /\ RowsDone(r)
        /\ rowLock[o.row] = None
        /\ Write(r, o.row, [member[o.row] EXCEPT
                 !.role = IF o.role = None THEN @ ELSE o.role,
                 !.branches = Rewritten(r, o.row)])

Remove(r, m) ==
    IF MayManage(m)
      THEN Start(r, [kind |-> "remove", row |-> m], "remove")
      ELSE pc[r] = "idle" /\ Fail(r)

RemoveUpdate(r) ==
    LET m == op[r].row
    IN  /\ pc[r] = "remove"
        /\ rowLock[m] = None
        /\ Write(r, m, [member[m] EXCEPT !.status = "REMOVED"])

-----------------------------------------------------------------------------
(* accept.  The link holds the secret of the request that sent it; the    *)
(* row must be claimed as it was read.                                    *)
Accept(r, m, secret) ==
    \/ /\ member[m].status = "INVITED"
       /\ member[m].token = secret
       /\ member[m].invited # None
       /\ Start(r, [kind |-> "accept", row |-> m, secret |-> secret,
                    email |-> member[m].invited], "claim")
    \/ pc[r] = "idle" /\ Fail(r)

(* Mutant: UPDATE ... WHERE id AND status, without the hash read.         *)
AcceptClaimAnyToken(r) ==
    LET m == op[r].row
    IN  /\ pc[r] = "claim"
        /\ rowLock[m] = None
        /\ IF member[m].status = "INVITED"
             THEN /\ rowLock' = [rowLock EXCEPT ![m] = r]
                  /\ Goto(r, "bind")
                  /\ UNCHANGED <<member, op, people, tenantLock>>
             ELSE Fail(r)

(* Mutant: the claim is not in the transaction.                           *)
AcceptClaimAtOnce(r) ==
    LET m == op[r].row
    IN  /\ pc[r] = "claim"
        /\ rowLock[m] = None
        /\ IF member[m].status = "INVITED" /\ member[m].token = op[r].secret
             THEN /\ member' = [member EXCEPT ![m].status = "ACTIVE"]
                  /\ Goto(r, "bind")
                  /\ UNCHANGED <<op, people, locks>>
             ELSE Fail(r)

(* UPDATE ... WHERE id AND status = INVITED AND the hash read.            *)
AcceptClaim(r) ==
    LET m == op[r].row
    IN  /\ pc[r] = "claim"
        /\ rowLock[m] = None
        /\ IF member[m].status = "INVITED" /\ member[m].token = op[r].secret
             THEN /\ rowLock' = [rowLock EXCEPT ![m] = r]
                  /\ Goto(r, "bind")
                  /\ UNCHANGED <<member, op, people, tenantLock>>
             ELSE Fail(r)

Joined(m, u) == [member[m] EXCEPT !.status = "ACTIVE", !.account = u,
                                  !.invited = None, !.token = None]

(* The account of the address, before a password is hashed for a new one. *)
AcceptLookUp(r) ==
    LET o == op[r]
    IN  /\ pc[r] = "bind"
        /\ \/ Learn(r, [kind |-> "accept", row |-> o.row, secret |-> o.secret,
                        email |-> o.email, account |-> Known(o.email)], "join")
           \/ Known(o.email) = None /\ Fail(r)

(* It takes the row: userId is a column of a unique key, so its UPDATE    *)
(* waits for every share of the key.  A second row of one account, or a   *)
(* second account of one address, breaks a unique index, and all is       *)
(* rolled back.                                                           *)
AcceptBind(r) ==
    LET o == op[r]
        m == o.row
    IN  /\ pc[r] = "join"
        /\ KeySharers(m) = {}
        /\ \/ /\ o.account # None /\ RowsOf(o.account) = {}
              /\ Write(r, m, Joined(m, o.account))
           \/ /\ o.account # None /\ RowsOf(o.account) # {}
              /\ Fail(r)
           \/ /\ o.account = None /\ AccountOf(o.email) # {}
              /\ Fail(r)
           \/ /\ o.account = None /\ AccountOf(o.email) = {}
              /\ \E new \in Accounts :
                    /\ emailOf[new] = None
                    /\ emailOf' = [emailOf EXCEPT ![new] = o.email]
                    /\ member' = [member EXCEPT ![m] = Joined(m, new)]
              /\ Release(r)
              /\ UNCHANGED <<op, moved>>

(* A transaction times out, loses its connection, or is the victim of a   *)
(* deadlock.                                                              *)
Abort(r) ==
    /\ pc[r] \in {"check", "find", "insert", "clear", "again", "rows", "bind", "join"}
    /\ Fail(r)

(* The locks: q has what a statement of r waits for, or may wait for when *)
(* it comes to that row.                                                  *)
Waits(r, q) ==
    /\ q # r
    /\ \/ pc[r] = "lock" /\ tenantLock = q
       \/ /\ \/ pc[r] \in {"resend", "remove", "claim"}
             \/ pc[r] = "clear" /\ op[r].todo = {}
             \/ RowsDone(r)
          /\ rowLock[op[r].row] = q
       \/ /\ pc[r] \in {"rows", "clear"}
          /\ \E x \in op[r].todo : q \in Deleters(op[r].row, x)
       \/ /\ Inserting(r)
          /\ \E b \in op[r].branches \ op[r].put : q \in Writers(op[r].row, b)
       \/ pc[r] = "join" /\ q \in KeySharers(op[r].row)

-----------------------------------------------------------------------------
(* The accounts, as far as the team sees them.                            *)
Register(u, e) ==
    /\ emailOf[u] = None
    /\ AccountOf(e) = {}
    /\ emailOf' = [emailOf EXCEPT ![u] = e]
    /\ UNCHANGED <<member, locks, pc, op, moved>>

ConfirmEmailChange(u, e) ==
    /\ Cardinality(moved) < MaxEmailChanges
    /\ emailOf[u] \notin {None, e}
    /\ AccountOf(e) = {}
    /\ emailOf' = [emailOf EXCEPT ![u] = e]
    /\ moved' = moved \cup {u}
    /\ UNCHANGED <<member, locks, pc, op>>

-----------------------------------------------------------------------------
Call(r) ==
    \/ \E e \in Emails, role \in {"ADMIN", "STAFF"}, bs \in SUBSET Branches :
          Invite(r, e, role, bs)
    \/ \E m \in Members :
          /\ member[m].status # "none"
          /\ \/ Resend(r, m)
             \/ Remove(r, m)
             \/ \E role \in {"ADMIN", "STAFF", None},
                   bs \in ((SUBSET Branches) \ {{}}) \cup {None} : Update(r, m, role, bs)
             \/ \E secret \in Requests : Accept(r, m, secret)

Step(r) ==
    \/ InviteLock(r) \/ InviteCheck(r) \/ InviteFind(r)
    \/ InviteCreate(r) \/ InviteUpdate(r) \/ InviteAgain(r)
    \/ ResendUpdate(r)
    \/ UpdateDelete(r) \/ UpdateCommit(r)
    \/ \E x \in Branches \X Requests : DeleteRow(r, x)
    \/ \E b \in Branches : InsertRow(r, b)
    \/ RemoveUpdate(r)
    \/ AcceptClaim(r) \/ AcceptLookUp(r) \/ AcceptBind(r)

Next ==
    \/ \E r \in Requests : Call(r) \/ Step(r) \/ Abort(r)
    \/ \E u \in Accounts, e \in Emails : Register(u, e) \/ ConfirmEmailChange(u, e)

Spec == Init /\ [][Next]_vars

-----------------------------------------------------------------------------
(* Types, and: an invite holds the tenant row, and it or an accept the    *)
(* row it has updated, exactly while its transaction is under way.        *)
TypeOK ==
    /\ member \in [Members -> Rows]
    /\ emailOf \in [Accounts -> Emails \cup {None}]
    /\ tenantLock \in Requests \cup {None}
    /\ \A r \in Requests :
          tenantLock = r <=> pc[r] \in {"check", "find", "insert", "clear", "again"}
    /\ rowLock \in [Members -> Requests \cup {None}]
    /\ \A r \in Requests, m \in Members :
          rowLock[m] = r <=> pc[r] \in {"again", "bind", "join"} /\ op[r].row = m
    /\ \A r \in Requests : op[r].kind \in {"none", "invite", "resend", "update",
                                           "remove", "accept"}
    /\ moved \subseteq Accounts

(* The plan's number of users is never exceeded, whatever invitations     *)
(* are sent, accepted or withdrawn at the same time.                      *)
SeatsWithinPlan == Cardinality(Seats) <= MaxUsers

(* Nobody has two places in a team: no address is twice among the active  *)
(* and the invited, and no account in two rows, removed ones included.    *)
(* Whoever changes the e-mail may take an address that was invited.       *)
OnePlacePerPerson ==
    \A m, n \in Members : m # n =>
        /\ member[m].account # None => member[m].account # member[n].account
        /\ Seated(m) /\ Seated(n)
           /\ {member[m].account, member[n].account} \cap moved = {} =>
              (Addresses(m) \cap Addresses(n)) \ {None} = {}

(* An active member has an account and a pending one only an address:     *)
(* an accept that fails half way leaves the invitation as it was.         *)
ActiveHaveAccounts ==
    \A m \in Members :
        /\ member[m].status = "ACTIVE" =>
              member[m].account # None /\ emailOf[member[m].account] # None
        /\ member[m].status = "INVITED" =>
              member[m].account = None /\ member[m].invited # None

(* Every place in a team is one person's.                                 *)
PlacesHold == OnePlacePerPerson /\ ActiveHaveAccounts

(* An invitation becomes a membership only through the last link sent for *)
(* it, and whoever was removed comes back only through a new invite.      *)
InvitationsHold ==
    [][\A m \in Members :
          /\ member[m].status = "INVITED" /\ member'[m].status = "ACTIVE" =>
                \E r \in Requests : /\ rowLock[m] = r
                                    /\ op[r].secret = member[m].token
          /\ member[m].status = "REMOVED" /\ member'[m].status # "REMOVED" =>
                \E r \in Requests : tenantLock = r /\ op[r].row = m]_vars

(* Whoever is confined to branches has at least one, which update asks    *)
(* for: nobody is left without any but by an update that read another     *)
(* role than the one it finds, another update having changed it.          *)
Stranded(m) ==
    member[m].status # "none" /\ member[m].role = "STAFF" /\ member[m].branches = {}

ConfinedHaveBranches ==
    [][\A m \in Members : ~Stranded(m) /\ Stranded(m)' =>
          \E r \in Requests : /\ pc[r] = "rows" /\ op[r].row = m
                              /\ op[r].was # member[m].role]_vars

(* Requests that wait for each other's locks: Postgres ends one of them,  *)
(* which is answered by an error.  Every such circle has an update in it, *)
(* which inserts branch rows before it writes the membership, while an    *)
(* accept and an invite write the membership first: invite, resend,       *)
(* remove and accept alone never lock each other.                         *)
Deadlocked(S) == S # {} /\ \A r \in S : \E q \in S : Waits(r, q)

DeadlocksAreOfUpdates ==
    \A S \in SUBSET Requests : Deadlocked(S) => \E r \in S : op[r].kind = "update"

(* The message of assertCanManage: the owner can be neither changed nor   *)
(* removed.  Invite looks the account up by its e-mail before the         *)
(* transaction, and then rewrites the row it finds without asking whose   *)
(* it is.                                                                 *)
OwnerStays == member[OwnerRow].role = "OWNER" /\ member[OwnerRow].status = "ACTIVE"
=============================================================================
