------------------------------ MODULE Accounts ------------------------------
(***************************************************************************)
(* The links and sessions of one account (auth/auth.service.ts and the     *)
(* account part of me/me.service.ts): verification of the e-mail, reset    *)
(* and change of the password, change of the e-mail, sign-in, rotation of  *)
(* the refresh token and the end of sessions, each request as the reads    *)
(* and writes it makes. The requests overlap; a link may be opened twice,  *)
(* late, or after a newer one was sent.                                    *)
(*                                                                         *)
(* A link is its secret: the hash in the user's row stands for the link    *)
(* whose secret it is the hash of. The account was registered with a       *)
(* password; its first verification link is sent as resend sends one.      *)
(***************************************************************************)
EXTENDS Naturals, FiniteSets

CONSTANTS
    Requests, Links, Sessions, Emails,
    None,
    MaxPasswords,   \* bound: passwords the account has had
    MaxOutside      \* bound: links that expire and e-mails that others take

Kinds == {"verify", "reset", "change"}

ASSUME NoneAssumption == None \notin Links \cup Sessions \cup Emails \cup Kinds
ASSUME BoundsAssumption == MaxPasswords \in Nat \ {0} /\ MaxOutside \in Nat

VARIABLES
    user,       \* the row of the account
    taken,      \* the e-mails of all other accounts
    expired,    \* links whose time is over
    session,    \* sessions by id; origin is the sign-in they descend from
    req,        \* each request: where it is, what it was given and has read
    mailed,     \* what was sent with each link
    used,       \* how often each link took effect
    latest      \* the newest link of each kind that was not taken back

vars == <<user, taken, expired, session, req, mailed, used, latest>>
-----------------------------------------------------------------------------
MaybeLink == Links \cup {None}
MaybeEmail == Emails \cup {None}

Rows ==
    [email : Emails, verified : BOOLEAN, verify : MaybeLink, reset : MaybeLink,
     pending : MaybeEmail, change : MaybeLink, password : 1 .. MaxPasswords,
     google : BOOLEAN]

Idle == [at |-> "idle", link |-> None, session |-> None, email |-> None]

Live == {s \in Sessions : session[s].state = "live"}

(* JwtStrategy.validate: who acts for the account does so in a session     *)
(* that is looked up again at each request.                                *)
Validate(s) == s \in Live
SignedIn == \E s \in Sessions : Validate(s)

(* A link that was sent is in the row under its own kind or in none, an    *)
(* e-mail belongs to one account, and a pending e-mail has its link.       *)
TypeOK ==
    /\ user \in Rows /\ taken \subseteq Emails /\ expired \subseteq Links
    /\ user.email \notin taken
    /\ (user.pending = None) = (user.change = None)
    /\ \A k \in Kinds : user[k] # None => mailed[user[k]].kind = k
    /\ \A s \in Sessions :
        /\ session[s].state \in {"none", "live", "revoked"}
        /\ session[s].origin \in Sessions \cup {None}
        /\ (session[s].origin = None) = (session[s].state = "none")
    /\ \A r \in Requests :
        /\ req[r].at \in {"idle", "verify", "verified", "resend", "forgot", "reset",
                          "change", "request", "confirm", "refresh", "rotated", "google", "login"}
        /\ req[r].link \in MaybeLink /\ req[r].email \in MaybeEmail

Init ==
    /\ \E e \in Emails :
        user = [email |-> e, verified |-> FALSE, verify |-> None, reset |-> None,
                pending |-> None, change |-> None, password |-> 1, google |-> FALSE]
    /\ taken = {} /\ expired = {}
    /\ session = [s \in Sessions |-> [state |-> "none", origin |-> None]]
    /\ req = [r \in Requests |-> Idle]
    /\ mailed = [l \in Links |-> [kind |-> None, to |-> None]]
    /\ used = [l \in Links |-> 0]
    /\ latest = [k \in Kinds |-> None]
-----------------------------------------------------------------------------
(* Reads the row and keeps what the write of step at needs.                *)
Look(r, at, link, s, email) ==
    /\ req[r].at = "idle"
    /\ req' = [req EXCEPT ![r] = [at |-> at, link |-> link, session |-> s,
                                  email |-> email]]

Answer(r) == req' = [req EXCEPT ![r] = Idle]

Unsent == {l \in Links : mailed[l].kind = None}

(* A new link of kind k is mailed; to is the e-mail it is to confirm. The  *)
(* secrets are unique.                                                     *)
Mail(l, k, to) ==
    /\ l \in Unsent
    /\ mailed' = [mailed EXCEPT ![l] = [kind |-> k, to |-> to]]
    /\ latest' = [latest EXCEPT ![k] = l]

TakesEffect(l) == used' = [used EXCEPT ![l] = @ + 1]

RevokeAll ==
    session' = [s \in Sessions |-> IF s \in Live THEN [session[s] EXCEPT !.state = "revoked"]
                                   ELSE session[s]]

Revoke(S) ==
    session' = [s \in Sessions |-> IF s \in S \cap Live
                                   THEN [session[s] EXCEPT !.state = "revoked"]
                                   ELSE session[s]]
-----------------------------------------------------------------------------
(* The registration mails the first link, resendVerification another one   *)
(* while the account it read is not verified.                              *)
Resend(r) ==
    /\ ~ user.verified
    /\ Look(r, "resend", None, None, None)
    /\ UNCHANGED <<user, taken, expired, session, mailed, used, latest>>

ResendWrite(r) ==
    /\ req[r].at = "resend"
    /\ \E l \in Unsent :
        /\ Mail(l, "verify", None)
        /\ user' = [user EXCEPT !.verify = l]
    /\ Answer(r)
    /\ UNCHANGED <<taken, expired, session, used>>

Forgot(r) ==
    /\ Look(r, "forgot", None, None, None)
    /\ UNCHANGED <<user, taken, expired, session, mailed, used, latest>>

ForgotWrite(r) ==
    /\ req[r].at = "forgot"
    /\ \E l \in Unsent :
        /\ Mail(l, "reset", None)
        /\ user' = [user EXCEPT !.reset = l]
    /\ Answer(r)
    /\ UNCHANGED <<taken, expired, session, used>>

(* Opens a link of kind k: it must be the one in the row, and in time.     *)
Open(r, k, l) ==
    /\ user[k] = l /\ l \notin expired
    /\ Look(r, k, l, None, None)
    /\ UNCHANGED <<user, taken, expired, session, mailed, used, latest>>

VerifyEmail(r, l) == Open(r, "verify", l)
ResetPassword(r, l) == Open(r, "reset", l)

Verified(row) == [row EXCEPT !.verified = TRUE, !.verify = None]

(* MUTANT of VerifyWrite: the update names the account only.               *)
VerifyWriteAnyway(r) ==
    /\ req[r].at = "verify"
    /\ user' = Verified(user) /\ TakesEffect(req[r].link)
    /\ req' = [req EXCEPT ![r].at = "verified"]
    /\ UNCHANGED <<taken, expired, session, mailed, latest>>

(* The conditional update: the row still has the hash that was read.       *)
VerifyWrite(r) ==
    /\ req[r].at = "verify"
    /\ \/ /\ user.verify = req[r].link
          /\ user' = Verified(user) /\ TakesEffect(req[r].link)
          /\ req' = [req EXCEPT ![r].at = "verified"]
       \/ /\ user.verify # req[r].link
          /\ Answer(r) /\ UNCHANGED <<user, used>>
    /\ UNCHANGED <<taken, expired, session, mailed, latest>>

(* The transaction of resetPassword, seen as it commits.                   *)
ResetWrite(r) ==
    /\ req[r].at = "reset"
    /\ \/ /\ user.reset = req[r].link /\ user.password < MaxPasswords
          /\ user' = [Verified(user) EXCEPT !.password = @ + 1, !.reset = None]
          /\ TakesEffect(req[r].link) /\ RevokeAll
       \/ /\ user.reset # req[r].link
          /\ UNCHANGED <<user, used, session>>
    /\ Answer(r)
    /\ UNCHANGED <<taken, expired, mailed, latest>>

ChangePassword(r) ==
    /\ SignedIn
    /\ Look(r, "change", None, None, None)
    /\ UNCHANGED <<user, taken, expired, session, mailed, used, latest>>

(* MUTANT of ChangePasswordWrite: one statement without the other.         *)
ChangePasswordOnly(r) ==
    /\ req[r].at = "change" /\ user.password < MaxPasswords
    /\ user' = [user EXCEPT !.password = @ + 1]
    /\ Answer(r)
    /\ UNCHANGED <<taken, expired, session, mailed, used, latest>>

ChangePasswordWrite(r) ==
    /\ req[r].at = "change" /\ user.password < MaxPasswords
    /\ user' = [user EXCEPT !.password = @ + 1]
    /\ RevokeAll
    /\ Answer(r)
    /\ UNCHANGED <<taken, expired, mailed, used, latest>>
-----------------------------------------------------------------------------
RequestEmailChange(r, e) ==
    /\ SignedIn /\ e # user.email /\ e \notin taken
    /\ Look(r, "request", None, None, e)
    /\ UNCHANGED <<user, taken, expired, session, mailed, used, latest>>

RequestEmailChangeWrite(r) ==
    /\ req[r].at = "request"
    /\ \E l \in Unsent :
        /\ Mail(l, "change", req[r].email)
        /\ user' = [user EXCEPT !.pending = req[r].email, !.change = l]
    /\ Answer(r)
    /\ UNCHANGED <<taken, expired, session, used>>

(* MUTANT of CancelEmailChange: the link stays behind.                     *)
CancelPendingOnly ==
    /\ SignedIn
    /\ user' = [user EXCEPT !.pending = None]
    /\ latest' = [latest EXCEPT !["change"] = None]
    /\ UNCHANGED <<taken, expired, session, req, mailed, used>>

CancelEmailChange ==
    /\ SignedIn
    /\ user' = [user EXCEPT !.pending = None, !.change = None]
    /\ latest' = [latest EXCEPT !["change"] = None]
    /\ UNCHANGED <<taken, expired, session, req, mailed, used>>

ConfirmEmailChange(r, l) ==
    /\ user.change = l /\ l \notin expired
    /\ Look(r, "confirm", l, None, user.pending)
    /\ UNCHANGED <<user, taken, expired, session, mailed, used, latest>>

Confirmed(row, e) ==
    [row EXCEPT !.email = e, !.verified = TRUE, !.pending = None, !.change = None]

(* MUTANT of ConfirmEmailChangeWrite: the pending e-mail of the row.       *)
ConfirmWhatIsPending(r) ==
    /\ req[r].at = "confirm"
    /\ \/ /\ user.pending \notin taken \cup {None}
          /\ user' = Confirmed(user, user.pending) /\ TakesEffect(req[r].link)
       \/ /\ user.pending \in taken \cup {None}
          /\ UNCHANGED <<user, used>>
    /\ Answer(r)
    /\ UNCHANGED <<taken, expired, session, mailed, latest>>

(* The unique index refuses an e-mail that another account has by now.     *)
ConfirmEmailChangeWrite(r) ==
    /\ req[r].at = "confirm"
    /\ \/ /\ user.change = req[r].link /\ req[r].email \notin taken
          /\ user' = Confirmed(user, req[r].email) /\ TakesEffect(req[r].link)
       \/ /\ user.change # req[r].link \/ req[r].email \in taken
          /\ UNCHANGED <<user, used>>
    /\ Answer(r)
    /\ UNCHANGED <<taken, expired, session, mailed, latest>>
-----------------------------------------------------------------------------
(* login; a password that is wrong or a missing verification is refused.   *)
Login(r) ==
    /\ user.verified
    /\ Look(r, "login", None, None, None)
    /\ UNCHANGED <<user, taken, expired, session, mailed, used, latest>>

(* loginWithGoogle: an account found by the subject signs in at once, one  *)
(* found by an e-mail that Google answers for is linked first. Without     *)
(* either, another account is made (TakeEmail).                            *)
GoogleLogin(r, e) ==
    /\ \/ user.google /\ Look(r, "login", None, None, None)
       \/ ~ user.google /\ user.email = e /\ Look(r, "google", None, None, None)
    /\ UNCHANGED <<user, taken, expired, session, mailed, used, latest>>

GoogleLink(r) ==
    /\ req[r].at = "google"
    /\ user' = [user EXCEPT !.google = TRUE, !.verified = TRUE]
    /\ req' = [req EXCEPT ![r].at = "login"]
    /\ UNCHANGED <<taken, expired, session, mailed, used, latest>>

(* issueTokens, at the end of login, verifyEmail and refresh: a session of *)
(* its own, or one that goes on from the session that was rotated.         *)
IssueTokens(r) ==
    /\ req[r].at \in {"login", "verified", "rotated"}
    /\ \E s \in Sessions :
        /\ session[s].state = "none"
        /\ session' = [session EXCEPT ![s] =
            [state |-> "live",
             origin |-> IF req[r].at = "rotated" THEN session[req[r].session].origin ELSE s]]
    /\ Answer(r)
    /\ UNCHANGED <<user, taken, expired, mailed, used, latest>>

(* A token of a session that ended ends all sessions of the account.       *)
Refresh(r, s) ==
    /\ session[s].state # "none"
    /\ \/ /\ s \in Live
          /\ Look(r, "refresh", None, s, None)
          /\ UNCHANGED session
       \/ /\ s \notin Live /\ req[r].at = "idle"
          /\ RevokeAll
          /\ UNCHANGED req
    /\ UNCHANGED <<user, taken, expired, mailed, used, latest>>

(* MUTANT of RefreshWrite: revokes the session whether or not it is live.  *)
RefreshWriteAnyway(r) ==
    /\ req[r].at = "refresh"
    /\ Revoke({req[r].session})
    /\ req' = [req EXCEPT ![r].at = "rotated"]
    /\ UNCHANGED <<user, taken, expired, mailed, used, latest>>

RefreshWrite(r) ==
    /\ req[r].at = "refresh"
    /\ \/ /\ req[r].session \in Live
          /\ Revoke({req[r].session})
          /\ req' = [req EXCEPT ![r].at = "rotated"]
       \/ /\ req[r].session \notin Live
          /\ RevokeAll
          /\ Answer(r)
    /\ UNCHANGED <<user, taken, expired, mailed, used, latest>>

(* logout, revokeSession and revokeOtherSessions are single statements.    *)
EndSessions ==
    /\ \E s \in Sessions :
        /\ Validate(s)
        /\ Revoke({s}) \/ Revoke(Sessions \ {s})
    /\ UNCHANGED <<user, taken, expired, req, mailed, used, latest>>
-----------------------------------------------------------------------------
(* Time passes for a link; another account takes an e-mail.                *)
Expire(l) ==
    /\ mailed[l].kind # None /\ l \notin expired
    /\ Cardinality(expired) + Cardinality(taken) < MaxOutside
    /\ expired' = expired \cup {l}
    /\ UNCHANGED <<user, taken, session, req, mailed, used, latest>>

TakeEmail(e) ==
    /\ e \notin taken /\ e # user.email
    /\ Cardinality(expired) + Cardinality(taken) < MaxOutside
    /\ taken' = taken \cup {e}
    /\ UNCHANGED <<user, expired, session, req, mailed, used, latest>>

(* A database error, or a process that ends: what was written stays.       *)
Abort(r) ==
    /\ req[r].at # "idle"
    /\ Answer(r)
    /\ UNCHANGED <<user, taken, expired, session, mailed, used, latest>>

Request(r) ==
    \/ Resend(r) \/ Forgot(r) \/ ChangePassword(r) \/ Login(r)
    \/ \E l \in Links : VerifyEmail(r, l) \/ ResetPassword(r, l) \/ ConfirmEmailChange(r, l)
    \/ \E e \in Emails : RequestEmailChange(r, e) \/ GoogleLogin(r, e)
    \/ \E s \in Sessions : Refresh(r, s)

Write(r) ==
    \/ ResendWrite(r) \/ ForgotWrite(r) \/ VerifyWrite(r) \/ ResetWrite(r)
    \/ ChangePasswordWrite(r) \/ RequestEmailChangeWrite(r)
    \/ ConfirmEmailChangeWrite(r) \/ GoogleLink(r) \/ RefreshWrite(r) \/ IssueTokens(r)

Next ==
    \/ \E r \in Requests : Request(r) \/ Write(r) \/ Abort(r)
    \/ EndSessions \/ CancelEmailChange
    \/ \E l \in Links : Expire(l)
    \/ \E e \in Emails : TakeEmail(e)

Spec == Init /\ [][Next]_vars
-----------------------------------------------------------------------------
(* A link takes effect once, and only the newest of its kind that was not  *)
(* taken back, even if an older one was opened before the newer was sent.  *)
LinksHold ==
    [][\A l \in Links : used'[l] > used[l] =>
        used[l] = 0 /\ latest[mailed[l].kind] = l]_vars

(* The e-mail of the account only becomes one whose own link was opened.   *)
EmailWasConfirmed ==
    [][user'.email # user.email =>
        \E l \in Links : /\ used'[l] > used[l]
                         /\ mailed[l] = [kind |-> "change", to |-> user'.email]]_vars

(* However often a refresh token is presented, and whatever overlaps, one  *)
(* session at most goes on from each sign-in.                              *)
OneSessionPerSignIn ==
    \A s, t \in Live : session[s].origin = session[t].origin => s = t

(* With a new password, every session there was is over.                   *)
NewPasswordEndsSessions ==
    [][user'.password # user.password => \A s \in Live : session'[s].state = "revoked"]_vars
=============================================================================
