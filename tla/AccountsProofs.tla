--------------------------- MODULE AccountsProofs ---------------------------
(***************************************************************************)
(* Theorems about Accounts, for any requests, links, sessions and e-mails  *)
(* and without a bound on passwords: a link takes effect once and only     *)
(* while it is the newest, an e-mail only becomes the account's when its   *)
(* own link was opened, one session at most descends from a sign-in, and   *)
(* a new password ends them all.                                           *)
(***************************************************************************)
EXTENDS Accounts, TLAPS

Places == {"idle", "verify", "verified", "resend", "forgot", "reset", "change",
           "request", "confirm", "refresh", "rotated", "google", "login"}

Typed ==
    /\ TypeOK
    /\ session \in [Sessions -> [state : {"none", "live", "revoked"},
                                 origin : Sessions \cup {None}]]
    /\ req \in [Requests -> [at : Places, link : MaybeLink,
                             session : Sessions \cup {None}, email : MaybeEmail]]
    /\ mailed \in [Links -> [kind : Kinds \cup {None}, to : MaybeEmail]]
    /\ used \in [Links -> Nat]
    /\ latest \in [Kinds -> MaybeLink]

(* A link in the row is the newest of its kind and was not used, nor was   *)
(* one that was never sent; the link of an e-mail change was sent to the   *)
(* e-mail that is pending.                                                 *)
LinkInv ==
    /\ \A k \in Kinds : user[k] # None => latest[k] = user[k] /\ used[user[k]] = 0
    /\ \A l \in Unsent : used[l] = 0
    /\ user.change # None => mailed[user.change].to = user.pending

(* What a request keeps between its read and its write.                    *)
RequestInv ==
    \A r \in Requests :
        /\ req[r].at \in {"verify", "reset", "confirm"} => req[r].link \in Links
        /\ req[r].at \in {"request", "confirm"} => req[r].email \in Emails
        /\ req[r].at = "confirm" =>
              mailed[req[r].link] = [kind |-> "change", to |-> req[r].email]
        /\ req[r].at \in {"refresh", "rotated"} =>
              req[r].session \in Sessions /\ session[req[r].session].state # "none"

Rotated == {r \in Requests : req[r].at = "rotated"}
Origin(r) == session[req[r].session].origin

(* Whoever rotated a session holds the one right to go on from its         *)
(* sign-in: no session that descends from it is live, and no other request *)
(* holds that right.                                                       *)
SessionInv ==
    /\ OneSessionPerSignIn
    /\ \A s \in Sessions : session[s].origin # None =>
          session[session[s].origin].state # "none"
    /\ \A r \in Rotated, s \in Live : session[s].origin # Origin(r)
    /\ \A r, q \in Rotated : Origin(r) = Origin(q) => r = q

IInv == Typed /\ LinkInv /\ RequestInv /\ SessionInv

-----------------------------------------------------------------------------
(* null is no link, no session, no e-mail and no kind of link.             *)
LEMMA NoneIsNothing ==
    Kinds = {"verify", "reset", "change"} /\ None \notin Links /\ None \notin Sessions
    /\ None \notin Emails /\ None \notin Kinds
  BY NoneAssumption DEF Kinds

LEMMA InitIInv == Init => IInv
<1> SUFFICES ASSUME Init PROVE IInv
  OBVIOUS
<1> USE NoneAssumption, BoundsAssumption DEF Init
<1>1. Typed
  BY DEF Typed, TypeOK, Rows, MaybeLink, MaybeEmail, Idle, Places, Kinds
<1>2. LinkInv /\ RequestInv
  BY DEF LinkInv, RequestInv, Unsent, Idle, Kinds
<1>3. SessionInv
  BY DEF SessionInv, OneSessionPerSignIn, Live, Rotated, Origin, Idle
<1> QED BY <1>1, <1>2, <1>3 DEF IInv

(* A request that starts keeps what it was given and what it has read.     *)
LEMMA LookIInv ==
    ASSUME IInv, NEW r \in Requests, NEW at \in Places \ {"rotated"},
           NEW link \in MaybeLink, NEW s \in Sessions \cup {None}, NEW email \in MaybeEmail,
           Look(r, at, link, s, email),
           UNCHANGED <<user, taken, expired, session, mailed, used, latest>>,
           at \in {"verify", "reset", "confirm"} => link \in Links,
           at \in {"request", "confirm"} => email \in Emails,
           at = "confirm" => mailed[link] = [kind |-> "change", to |-> email],
           at = "refresh" => s \in Sessions /\ session[s].state # "none"
    PROVE  IInv'
<1> USE DEF IInv, Look
<1>1. Typed'
  BY DEF Typed, TypeOK, Live, Places
<1>2. LinkInv'
  BY DEF LinkInv, Unsent
<1>3. RequestInv'
  BY DEF RequestInv, Typed
<1>4. SessionInv'
  <2>1. Rotated' = Rotated
    BY DEF Rotated, Typed
  <2>2. \A q \in Rotated : Origin(q)' = Origin(q)
    BY DEF Rotated, Origin, Typed
  <2> QED BY <2>1, <2>2 DEF SessionInv, OneSessionPerSignIn, Live
<1> QED BY <1>1, <1>2, <1>3, <1>4

(* A request that ends, with or without success, holds nothing any more.   *)
LEMMA AnswerIInv ==
    ASSUME IInv, NEW r \in Requests, Answer(r),
           UNCHANGED <<user, taken, expired, session, mailed, used, latest>>
    PROVE  IInv'
<1> USE DEF IInv, Answer
<1>1. Typed'
  BY DEF Typed, TypeOK, Live, Places, Idle, MaybeLink, MaybeEmail
<1>2. LinkInv'
  BY DEF LinkInv, Unsent
<1>3. RequestInv'
  BY DEF RequestInv, Typed, Idle
<1>4. SessionInv'
  <2>1. Rotated' \subseteq Rotated
    BY DEF Rotated, Typed, Idle
  <2>2. \A q \in Rotated' : Origin(q)' = Origin(q)
    BY DEF Rotated, Origin, Typed, Idle
  <2> QED BY <2>1, <2>2 DEF SessionInv, OneSessionPerSignIn, Live
<1> QED BY <1>1, <1>2, <1>3, <1>4

(* Sessions that end keep their origin and the others stay as they are.    *)
LEMMA SessionsEnd ==
    ASSUME Typed, NEW S,
           session' = [s \in Sessions |-> IF s \in S \cap Live
                                         THEN [session[s] EXCEPT !.state = "revoked"]
                                         ELSE session[s]]
    PROVE  /\ session' \in [Sessions -> [state : {"none", "live", "revoked"},
                                         origin : Sessions \cup {None}]]
           /\ \A s \in Sessions : session'[s].origin = session[s].origin
           /\ \A s \in Sessions : session'[s].state = "none" <=> session[s].state = "none"
           /\ \A s \in Sessions : s \in Live' <=> s \in Live /\ s \notin S
           /\ Live' \subseteq Live
<1>1. \A s \in Sessions :
        /\ session[s] \in [state : {"none", "live", "revoked"}, origin : Sessions \cup {None}]
        /\ session'[s] = IF s \in S \cap Live THEN [session[s] EXCEPT !.state = "revoked"]
                                              ELSE session[s]
  BY DEF Typed
<1>2. \A s \in Sessions :
        /\ session'[s] \in [state : {"none", "live", "revoked"}, origin : Sessions \cup {None}]
        /\ session'[s].origin = session[s].origin
        /\ session'[s].state = IF s \in S \cap Live THEN "revoked" ELSE session[s].state
  BY <1>1
<1> QED BY <1>2 DEF Live

(* While no session begins and no request rotates one, sessions may end.   *)
LEMMA KeepsSessionInv ==
    ASSUME SessionInv, RequestInv,
           \A s \in Sessions : session'[s].origin = session[s].origin,
           \A s \in Sessions : session'[s].state = "none" <=> session[s].state = "none",
           Live' \subseteq Live,
           \A s \in Sessions : session[s].origin \in Sessions \cup {None},
           Rotated' \subseteq Rotated,
           \A r \in Rotated' : req'[r].session = req[r].session
    PROVE  SessionInv'
<1>1. \A r \in Rotated' : Origin(r)' = Origin(r)
  BY DEF Rotated, Origin, RequestInv
<1> QED BY <1>1 DEF SessionInv, OneSessionPerSignIn, Live

LEMMA RequestIInv ==
    ASSUME IInv, NEW r \in Requests, Request(r)
    PROVE  IInv'
<1> USE NoneAssumption DEF Places, MaybeLink, MaybeEmail
<1>1. CASE Resend(r)
  BY <1>1, LookIInv DEF Resend
<1>2. CASE Forgot(r)
  BY <1>2, LookIInv DEF Forgot
<1>3. CASE ChangePassword(r)
  BY <1>3, LookIInv DEF ChangePassword
<1>4. CASE Login(r)
  BY <1>4, LookIInv DEF Login
<1>5. ASSUME NEW l \in Links, VerifyEmail(r, l) PROVE IInv'
  BY <1>5, LookIInv DEF VerifyEmail, Open
<1>6. ASSUME NEW l \in Links, ResetPassword(r, l) PROVE IInv'
  BY <1>6, LookIInv DEF ResetPassword, Open
<1>7. ASSUME NEW l \in Links, ConfirmEmailChange(r, l) PROVE IInv'
  <2>1. user.change = l /\ user.pending \in Emails
    BY <1>7 DEF ConfirmEmailChange, IInv, Typed, TypeOK, Rows
  <2>2. mailed[l] = [kind |-> "change", to |-> user.pending]
    BY <2>1 DEF IInv, LinkInv, Typed, TypeOK, Kinds
  <2> QED BY <1>7, <2>1, <2>2, LookIInv DEF ConfirmEmailChange
<1>8. ASSUME NEW e \in Emails, RequestEmailChange(r, e) PROVE IInv'
  BY <1>8, LookIInv DEF RequestEmailChange
<1>9. ASSUME NEW e \in Emails, GoogleLogin(r, e) PROVE IInv'
  BY <1>9, LookIInv DEF GoogleLogin
<1>10. ASSUME NEW s \in Sessions, Refresh(r, s) PROVE IInv'
  <2>1. CASE s \in Live
    BY <1>10, <2>1, LookIInv DEF Refresh
  <2>2. CASE s \notin Live
    <3> USE <1>10, <2>2 DEF Refresh, RevokeAll, IInv
    <3>1. /\ session' \in [Sessions -> [state : {"none", "live", "revoked"},
                                         origin : Sessions \cup {None}]]
          /\ \A t \in Sessions : session'[t].origin = session[t].origin
          /\ \A t \in Sessions : session'[t].state = "none" <=> session[t].state = "none"
          /\ Live' \subseteq Live
      BY SessionsEnd, Sessions \cap Live = Live DEF Live
    <3>2. Typed'
      BY <3>1 DEF Typed, TypeOK
    <3>3. LinkInv' /\ RequestInv'
      BY <3>1 DEF LinkInv, Unsent, RequestInv
    <3>4. SessionInv'
      BY <3>1, KeepsSessionInv DEF Rotated, Typed
    <3> QED BY <3>2, <3>3, <3>4
  <2> QED BY <2>1, <2>2
<1> QED BY <1>1, <1>2, <1>3, <1>4, <1>5, <1>6, <1>7, <1>8, <1>9, <1>10 DEF Request

-----------------------------------------------------------------------------
(* A new link goes out and into the row, under its kind.                   *)
LEMMA MailIInv ==
    ASSUME IInv, NEW r \in Requests, NEW l \in Unsent, NEW k \in Kinds,
           NEW to \in MaybeEmail, k = "change" => to \in Emails,
           Mail(l, k, to), Answer(r),
           user' \in Rows, user'.email = user.email, user'[k] = l,
           \A j \in Kinds \ {k} : user'[j] = user[j],
           user'.pending = IF k = "change" THEN to ELSE user.pending,
           UNCHANGED <<taken, expired, session, used>>
    PROVE  IInv'
<1> USE NoneAssumption DEF IInv, Mail
<1>1. l \in Links /\ mailed[l].kind = None
  BY DEF Unsent
<1>2. \A j \in Kinds : user[j] # None => user[j] \in Links /\ user[j] # l
  BY <1>1 DEF Kinds, Typed, TypeOK, Rows, MaybeLink
<1>3. Typed'
  <2>1. \A j \in Kinds : user'[j] # None => mailed'[user'[j]].kind = j
    <3> SUFFICES ASSUME NEW j \in Kinds, user'[j] # None
                 PROVE  mailed'[user'[j]].kind = j
      OBVIOUS
    <3>1. \A m \in Links : mailed'[m] = IF m = l THEN [kind |-> k, to |-> to] ELSE mailed[m]
      BY <1>1 DEF Typed
    <3>2. CASE j = k
      BY <1>1, <3>1, <3>2
    <3>3. CASE j # k
      BY <1>2, <3>1, <3>3 DEF Typed, TypeOK
    <3> QED BY <3>2, <3>3
  <2>2. (user'.pending = None) = (user'.change = None)
    BY <1>1 DEF Typed, TypeOK, Kinds
  <2>3. /\ req' \in [Requests -> [at : Places, link : MaybeLink,
                             session : Sessions \cup {None}, email : MaybeEmail]]
        /\ mailed' \in [Links -> [kind : Kinds \cup {None}, to : MaybeEmail]]
        /\ latest' \in [Kinds -> MaybeLink]
    BY <1>1 DEF Typed, Answer, Idle, Places, MaybeLink, MaybeEmail
  <2>4. TypeOK'
    <3>1. user'.email \notin taken' /\ taken' \subseteq Emails /\ expired' \subseteq Links
      BY DEF Typed, TypeOK
    <3>2. \A q \in Requests :
            /\ req'[q].at \in Places
            /\ req'[q].link \in MaybeLink /\ req'[q].email \in MaybeEmail
      BY <2>3
    <3> QED BY <2>1, <2>2, <3>1, <3>2 DEF Typed, TypeOK, Places
  <2> QED BY <2>3, <2>4 DEF Typed
<1>4. LinkInv'
  <2>1. \A j \in Kinds : user'[j] # None => latest'[j] = user'[j] /\ used'[user'[j]] = 0
    BY <1>1, <1>2 DEF LinkInv, Unsent, Typed
  <2>2. \A m \in Unsent' : used'[m] = 0
    BY <1>1 DEF LinkInv, Unsent, Typed
  <2>3. user'.change # None => mailed'[user'.change].to = user'.pending
    BY <1>1, <1>2 DEF LinkInv, Typed, Kinds
  <2> QED BY <2>1, <2>2, <2>3 DEF LinkInv
<1>5. RequestInv'
  BY <1>1 DEF RequestInv, Answer, Typed, Idle, Kinds
<1>6. SessionInv'
  BY DEF SessionInv, OneSessionPerSignIn, Live, Rotated, Origin, Answer, Typed, Idle
<1> QED BY <1>3, <1>4, <1>5, <1>6

(* A link that takes effect leaves the row; links of other kinds that stay *)
(* are different ones.                                                     *)
LEMMA LinkTakesEffect ==
    ASSUME Typed, LinkInv, NEW k \in Kinds, user[k] # None, TakesEffect(user[k]),
           user'[k] = None, \A j \in Kinds : user'[j] \in {user[j], None},
           user'.change # None => user'.pending = user.pending,
           UNCHANGED <<mailed, latest>>
    PROVE  LinkInv'
<1>1. \A j \in Kinds : user[j] # None => user[j] \in Links /\ mailed[user[j]].kind = j
  BY DEF Typed, TypeOK, Rows, MaybeLink, Kinds
<1>2. \A l \in Links : used'[l] = IF l = user[k] THEN used[l] + 1 ELSE used[l]
  BY <1>1 DEF TakesEffect, Typed
<1>3. \A j \in Kinds : user'[j] # None => latest'[j] = user'[j] /\ used'[user'[j]] = 0
  BY <1>1, <1>2 DEF LinkInv
<1>4. \A l \in Unsent' : used'[l] = 0
  BY <1>1, <1>2, NoneAssumption DEF LinkInv, Unsent
<1>5. user'.change # None => mailed'[user'.change].to = user'.pending
  BY <1>1 DEF LinkInv, Kinds
<1> QED BY <1>3, <1>4, <1>5 DEF LinkInv

(* A request that goes on keeps what it holds.                             *)
LEMMA GoesOn ==
    ASSUME Typed, NEW r \in Requests, NEW at \in Places,
           req' = [req EXCEPT ![r].at = at]
    PROVE  /\ req' \in [Requests -> [at : Places, link : MaybeLink,
                                     session : Sessions \cup {None}, email : MaybeEmail]]
           /\ \A q \in Requests :
                 /\ req'[q].at = IF q = r THEN at ELSE req[q].at
                 /\ req'[q].link = req[q].link
                 /\ req'[q].session = req[q].session
                 /\ req'[q].email = req[q].email
<1>1. req \in [Requests -> [at : Places, link : MaybeLink,
                           session : Sessions \cup {None}, email : MaybeEmail]]
  BY DEF Typed
<1>2. \A q \in Requests :
        req'[q] = IF q = r THEN [req[r] EXCEPT !.at = at] ELSE req[q]
  BY <1>1
<1>3. \A q \in Requests : req'[q] \in [at : Places, link : MaybeLink,
                           session : Sessions \cup {None}, email : MaybeEmail]
  BY <1>1, <1>2
<1> QED BY <1>1, <1>2, <1>3

LEMMA VerifyWriteIInv ==
    ASSUME IInv, NEW r \in Requests, VerifyWrite(r)
    PROVE  IInv'
<1> USE DEF IInv
<1>1. CASE user.verify # req[r].link
  BY <1>1, AnswerIInv DEF VerifyWrite
<1>2. CASE user.verify = req[r].link
  <2> USE <1>2 DEF VerifyWrite
  <2>1. user.verify # None /\ user.verify \in Links
    BY NoneAssumption DEF RequestInv
  <2>2. user' \in Rows /\ user' = [user EXCEPT !.verified = TRUE, !.verify = None]
    BY DEF Verified, Typed, TypeOK, Rows, MaybeLink
  <2>3. Typed'
    <3>1. used' \in [Links -> Nat]
      BY <2>1 DEF Typed, TakesEffect
    <3>2. /\ req' \in [Requests -> [at : Places, link : MaybeLink,
                                    session : Sessions \cup {None}, email : MaybeEmail]]
          /\ \A q \in Requests : req'[q] \in [at : Places, link : MaybeLink,
                                    session : Sessions \cup {None}, email : MaybeEmail]
      BY GoesOn DEF Places
    <3>3. TypeOK'
      BY <2>2, <3>2 DEF Typed, TypeOK, Rows, Kinds, Places
    <3> QED BY <3>1, <3>2, <3>3 DEF Typed
  <2>4. LinkInv'
    BY <2>1, <2>2, LinkTakesEffect DEF Typed, TypeOK, Rows, Kinds
  <2>5. RequestInv'
    BY DEF RequestInv, Typed
  <2>6. SessionInv'
    BY KeepsSessionInv DEF Rotated, Typed, Live
  <2> QED BY <2>3, <2>4, <2>5, <2>6
<1> QED BY <1>1, <1>2

LEMMA ResetWriteIInv ==
    ASSUME IInv, NEW r \in Requests, ResetWrite(r)
    PROVE  IInv'
<1> USE DEF IInv
<1>1. CASE user.reset # req[r].link
  BY <1>1, AnswerIInv DEF ResetWrite
<1>2. CASE user.reset = req[r].link
  <2> USE <1>2 DEF ResetWrite
  <2>1. user.reset # None /\ user.reset \in Links
    BY NoneAssumption DEF RequestInv
  <2>2. user' \in Rows /\ user' = [user EXCEPT !.verified = TRUE, !.verify = None,
                                              !.password = user.password + 1, !.reset = None]
    <3>1. user \in Rows /\ user.password + 1 \in 1 .. MaxPasswords
      BY BoundsAssumption DEF Typed, TypeOK, Rows
    <3>2. user' = [user EXCEPT !.verified = TRUE, !.verify = None,
                              !.password = user.password + 1, !.reset = None]
      BY <3>1 DEF Verified, Rows
    <3> QED BY <3>1, <3>2 DEF Rows, MaybeLink
  <2>3. /\ session' \in [Sessions -> [state : {"none", "live", "revoked"},
                                       origin : Sessions \cup {None}]]
        /\ \A t \in Sessions : session'[t].origin = session[t].origin
        /\ \A t \in Sessions : session'[t].state = "none" <=> session[t].state = "none"
        /\ Live' \subseteq Live
    BY SessionsEnd, Sessions \cap Live = Live DEF RevokeAll, Live
  <2>4. Typed'
    BY <2>1, <2>2, <2>3 DEF Typed, TypeOK, Rows, Kinds, Places, TakesEffect, Answer, Idle,
                           MaybeLink, MaybeEmail
  <2>5. LinkInv'
    BY <2>1, <2>2, LinkTakesEffect DEF Typed, TypeOK, Rows, Kinds
  <2>6. RequestInv'
    BY <2>3 DEF RequestInv, Typed, Answer, Idle
  <2>7. SessionInv'
    BY <2>3, KeepsSessionInv DEF Rotated, Typed, Answer, Idle
  <2> QED BY <2>4, <2>5, <2>6, <2>7
<1> QED BY <1>1, <1>2

LEMMA ChangePasswordWriteIInv ==
    ASSUME IInv, NEW r \in Requests, ChangePasswordWrite(r)
    PROVE  IInv'
<1> USE DEF IInv, ChangePasswordWrite
<1>1. user' \in Rows /\ user' = [user EXCEPT !.password = user.password + 1]
  BY BoundsAssumption DEF Typed, TypeOK, Rows
<1>2. /\ session' \in [Sessions -> [state : {"none", "live", "revoked"},
                                     origin : Sessions \cup {None}]]
      /\ \A t \in Sessions : session'[t].origin = session[t].origin
      /\ \A t \in Sessions : session'[t].state = "none" <=> session[t].state = "none"
      /\ Live' \subseteq Live
  BY SessionsEnd, Sessions \cap Live = Live DEF RevokeAll, Live
<1>3. Typed'
  BY <1>1, <1>2 DEF Typed, TypeOK, Rows, Kinds, Places, Answer, Idle, MaybeLink, MaybeEmail
<1>4. LinkInv'
  BY <1>1 DEF LinkInv, Unsent, Typed, TypeOK, Rows, Kinds
<1>5. RequestInv'
  BY <1>2 DEF RequestInv, Typed, Answer, Idle
<1>6. SessionInv'
  BY <1>2, KeepsSessionInv DEF Rotated, Typed, Answer, Idle
<1> QED BY <1>3, <1>4, <1>5, <1>6

LEMMA ConfirmEmailChangeWriteIInv ==
    ASSUME IInv, NEW r \in Requests, ConfirmEmailChangeWrite(r)
    PROVE  IInv'
<1> USE DEF IInv
<1>1. CASE user.change # req[r].link \/ req[r].email \in taken
  BY <1>1, AnswerIInv DEF ConfirmEmailChangeWrite
<1>2. CASE user.change = req[r].link /\ req[r].email \notin taken
  <2> USE <1>2 DEF ConfirmEmailChangeWrite
  <2>1. user.change # None /\ user.change \in Links /\ req[r].email \in Emails
    BY NoneAssumption DEF RequestInv
  <2>2. /\ user' \in Rows
        /\ user' = [user EXCEPT !.email = req[r].email, !.verified = TRUE,
                                !.pending = None, !.change = None]
    BY <2>1 DEF Confirmed, Typed, TypeOK, Rows, MaybeLink, MaybeEmail
  <2>3. Typed'
    BY <2>1, <2>2 DEF Typed, TypeOK, Rows, Kinds, Places, Live, TakesEffect, Answer, Idle,
                     MaybeLink, MaybeEmail
  <2>4. LinkInv'
    BY <2>1, <2>2, LinkTakesEffect DEF Typed, TypeOK, Rows, Kinds
  <2>5. RequestInv'
    BY DEF RequestInv, Typed, Answer, Idle
  <2>6. SessionInv'
    BY KeepsSessionInv DEF Rotated, Typed, Live, Answer, Idle
  <2> QED BY <2>3, <2>4, <2>5, <2>6
<1> QED BY <1>1, <1>2

LEMMA MailingIInv ==
    ASSUME IInv, NEW r \in Requests,
           ResendWrite(r) \/ ForgotWrite(r) \/ RequestEmailChangeWrite(r)
    PROVE  IInv'
<1>0. user \in Rows
  BY DEF IInv, Typed, TypeOK
<1>1. CASE ResendWrite(r)
  <2> PICK l \in Unsent : Mail(l, "verify", None) /\ user' = [user EXCEPT !.verify = l]
    BY <1>1 DEF ResendWrite
  <2>1. user' \in Rows
    BY <1>0 DEF Rows, MaybeLink, Unsent
  <2> QED BY <1>0, <1>1, <2>1, MailIInv DEF ResendWrite, Rows, Kinds, MaybeEmail
<1>2. CASE ForgotWrite(r)
  <2> PICK l \in Unsent : Mail(l, "reset", None) /\ user' = [user EXCEPT !.reset = l]
    BY <1>2 DEF ForgotWrite
  <2>1. user' \in Rows
    BY <1>0 DEF Rows, MaybeLink, Unsent
  <2> QED BY <1>0, <1>2, <2>1, MailIInv DEF ForgotWrite, Rows, Kinds, MaybeEmail
<1>3. CASE RequestEmailChangeWrite(r)
  <2> PICK l \in Unsent :
        /\ Mail(l, "change", req[r].email)
        /\ user' = [user EXCEPT !.pending = req[r].email, !.change = l]
    BY <1>3 DEF RequestEmailChangeWrite
  <2>1. req[r].email \in Emails
    BY <1>3 DEF RequestEmailChangeWrite, IInv, RequestInv
  <2>2. user' \in Rows
    BY <1>0, <2>1 DEF Rows, MaybeLink, MaybeEmail, Unsent
  <2> QED BY <1>0, <1>3, <2>1, <2>2, MailIInv
          DEF RequestEmailChangeWrite, Rows, Kinds, MaybeEmail
<1> QED BY <1>1, <1>2, <1>3

LEMMA GoogleLinkIInv ==
    ASSUME IInv, NEW r \in Requests, GoogleLink(r)
    PROVE  IInv'
<1> USE DEF IInv, GoogleLink
<1>1. /\ user' \in Rows
      /\ user' = [user EXCEPT !.google = TRUE, !.verified = TRUE]
  BY DEF Typed, TypeOK, Rows
<1>2. /\ req' \in [Requests -> [at : Places, link : MaybeLink,
                                session : Sessions \cup {None}, email : MaybeEmail]]
      /\ \A q \in Requests :
            /\ req'[q].at = IF q = r THEN "login" ELSE req[q].at
            /\ req'[q].link = req[q].link
            /\ req'[q].session = req[q].session
            /\ req'[q].email = req[q].email
  BY GoesOn DEF Places
<1>3. Typed'
  BY <1>1, <1>2 DEF Typed, TypeOK, Rows, Kinds, Places
<1>4. LinkInv'
  BY <1>1 DEF LinkInv, Unsent, Typed, TypeOK, Rows, Kinds
<1>5. RequestInv'
  BY <1>2 DEF RequestInv
<1>6. SessionInv'
  BY <1>2, KeepsSessionInv DEF Rotated, Typed, Live
<1> QED BY <1>3, <1>4, <1>5, <1>6

LEMMA RefreshWriteIInv ==
    ASSUME IInv, NEW r \in Requests, RefreshWrite(r)
    PROVE  IInv'
<1> USE DEF IInv
<1>1. CASE req[r].session \notin Live
  <2> USE <1>1
  <2>1. /\ RevokeAll /\ Answer(r)
        /\ UNCHANGED <<user, taken, expired, mailed, used, latest>>
    BY DEF RefreshWrite
  <2>2. /\ session' \in [Sessions -> [state : {"none", "live", "revoked"},
                                       origin : Sessions \cup {None}]]
        /\ \A t \in Sessions : session'[t].origin = session[t].origin
        /\ \A t \in Sessions : session'[t].state = "none" <=> session[t].state = "none"
        /\ Live' \subseteq Live
    BY <2>1, SessionsEnd, Sessions \cap Live = Live DEF RevokeAll, Live
  <2>3. Typed'
    BY <2>1, <2>2 DEF Typed, TypeOK, Places, Answer, Idle, MaybeLink, MaybeEmail
  <2>4. LinkInv' /\ RequestInv'
    BY <2>1, <2>2 DEF LinkInv, Unsent, RequestInv, Typed, Answer, Idle
  <2>5. SessionInv'
    BY <2>1, <2>2, KeepsSessionInv DEF Rotated, Typed, Answer, Idle
  <2> QED BY <2>3, <2>4, <2>5
<1>2. CASE req[r].session \in Live
  <2> USE <1>2
  <2>1. /\ req[r].at = "refresh"
        /\ Revoke({req[r].session})
        /\ req' = [req EXCEPT ![r].at = "rotated"]
        /\ UNCHANGED <<user, taken, expired, mailed, used, latest>>
    BY DEF RefreshWrite
  <2>2. /\ session' \in [Sessions -> [state : {"none", "live", "revoked"},
                                       origin : Sessions \cup {None}]]
        /\ \A t \in Sessions : session'[t].origin = session[t].origin
        /\ \A t \in Sessions : session'[t].state = "none" <=> session[t].state = "none"
        /\ \A t \in Sessions : t \in Live' <=> t \in Live /\ t # req[r].session
        /\ Live' \subseteq Live
    BY <2>1, SessionsEnd DEF Revoke, Live
  <2>3. /\ req' \in [Requests -> [at : Places, link : MaybeLink,
                                  session : Sessions \cup {None}, email : MaybeEmail]]
        /\ \A q \in Requests :
              /\ req'[q].at = IF q = r THEN "rotated" ELSE req[q].at
              /\ req'[q].link = req[q].link
              /\ req'[q].session = req[q].session
              /\ req'[q].email = req[q].email
    BY <2>1, GoesOn DEF Places
  <2>4. Typed'
    BY <2>1, <2>2, <2>3 DEF Typed, TypeOK, Places
  <2>5. LinkInv' /\ RequestInv'
    BY <2>1, <2>2, <2>3 DEF LinkInv, Unsent, RequestInv
  <2>6. Rotated' = Rotated \cup {r}
    BY <2>3 DEF Rotated
  <2>7. \A q \in Rotated' : Origin(q)' = Origin(q)
    <3>1. \A q \in Rotated' : q \in Requests /\ req[q].session \in Sessions
      BY <2>1, <2>6 DEF Rotated, RequestInv
    <3> QED BY <2>2, <2>3, <3>1 DEF Origin
  <2>8. \A s \in Live' : session[s].origin # Origin(r)
    BY <2>2 DEF SessionInv, OneSessionPerSignIn, Origin, Live
  <2>9. \A q \in Rotated : Origin(q) # Origin(r)
    BY DEF SessionInv, Origin
  <2>10. SessionInv'
    BY <2>2, <2>6, <2>7, <2>8, <2>9 DEF SessionInv, OneSessionPerSignIn, Live, Typed
  <2> QED BY <2>4, <2>5, <2>10
<1> QED BY <1>1, <1>2

(* The new session goes on from its sign-in: its own, or the one whose     *)
(* right the request held and gives up.                                    *)
LEMMA IssueTokensIInv ==
    ASSUME IInv, NEW r \in Requests, IssueTokens(r)
    PROVE  IInv'
<1> DEFINE origin(s) == IF req[r].at = "rotated" THEN Origin(r) ELSE s
<1> USE DEF IInv
<1>1. PICK s \in Sessions :
        /\ session[s].state = "none"
        /\ session' = [session EXCEPT ![s] = [state |-> "live", origin |-> origin(s)]]
  BY DEF IssueTokens, Origin
<1>2. origin(s) \in Sessions
  BY NoneAssumption DEF Origin, RequestInv, Typed, TypeOK
<1>3. /\ session' \in [Sessions -> [state : {"none", "live", "revoked"},
                                     origin : Sessions \cup {None}]]
      /\ \A t \in Sessions \ {s} : session'[t] = session[t]
      /\ session'[s].state = "live" /\ session'[s].origin = origin(s)
  BY <1>1, <1>2 DEF Typed
<1>4. Live' = Live \cup {s} /\ s \notin Live
  BY <1>1, <1>3 DEF Live
<1>5. /\ Rotated' = Rotated \ {r}
      /\ \A q \in Rotated' : req'[q].session = req[q].session /\ req[q].session # s
  BY <1>1 DEF IssueTokens, Answer, Idle, Rotated, Typed, RequestInv
<1>6. \A q \in Rotated' : Origin(q)' = Origin(q)
  BY <1>3, <1>5 DEF Rotated, Origin, RequestInv
<1>7. \A t \in Live : session[t].origin # origin(s)
  BY <1>1, NoneAssumption DEF SessionInv, IssueTokens, Rotated, Live, Typed, TypeOK
<1>8. \A q \in Rotated' : Origin(q) # origin(s)
  <2>1. \A q \in Rotated : Origin(q) # None => session[Origin(q)].state # "none"
    BY DEF SessionInv, Rotated, Origin, RequestInv
  <2>2. s # None
    BY NoneAssumption
  <2> QED BY <1>1, <1>5, <2>1, <2>2 DEF SessionInv, Rotated
<1>9. Typed'
  BY <1>1, <1>2, <1>3, NoneAssumption
  DEF Typed, TypeOK, Places, IssueTokens, Answer, Idle, MaybeLink, MaybeEmail
<1>10. LinkInv' /\ RequestInv'
  BY <1>3 DEF LinkInv, Unsent, RequestInv, IssueTokens, Typed, Answer, Idle
<1>11. SessionInv'
  <2>1. OneSessionPerSignIn'
    BY <1>3, <1>4, <1>7 DEF OneSessionPerSignIn, SessionInv, Live
  <2>2. \A t \in Sessions : session'[t].origin # None =>
            session'[session'[t].origin].state # "none"
    <3>1. \A t \in Sessions : session'[t].origin # None =>
              session'[t].origin = s \/ session[session'[t].origin].state # "none"
      <4>1. \A t \in Sessions \ {s} : session'[t].origin # None =>
                session[session'[t].origin].state # "none"
        BY <1>3 DEF SessionInv
      <4>2. origin(s) # s => origin(s) = Origin(r) /\ req[r].session \in Sessions
        BY DEF RequestInv
      <4>3. origin(s) # s => session[origin(s)].state # "none"
        BY <1>2, <4>2, NoneAssumption DEF SessionInv, Origin
      <4> QED BY <1>3, <4>1, <4>3
    <3>2. \A t \in Sessions : session'[t].origin \in Sessions \cup {None}
      BY <1>3
    <3> QED BY <1>3, <3>1, <3>2
  <2>3. \A q \in Rotated', t \in Live' : session'[t].origin # Origin(q)'
    BY <1>3, <1>4, <1>5, <1>6, <1>8 DEF SessionInv, Live
  <2>4. \A q, p \in Rotated' : Origin(q)' = Origin(p)' => q = p
    BY <1>5, <1>6 DEF SessionInv
  <2> QED BY <2>1, <2>2, <2>3, <2>4 DEF SessionInv
<1> QED BY <1>9, <1>10, <1>11

LEMMA WriteIInv ==
    ASSUME IInv, NEW r \in Requests, Write(r)
    PROVE  IInv'
BY MailingIInv, VerifyWriteIInv, ResetWriteIInv, ChangePasswordWriteIInv,
   ConfirmEmailChangeWriteIInv, GoogleLinkIInv, RefreshWriteIInv, IssueTokensIInv DEF Write

-----------------------------------------------------------------------------
LEMMA EndSessionsIInv ==
    ASSUME IInv, EndSessions
    PROVE  IInv'
<1> USE DEF IInv, EndSessions
<1>1. PICK S : Revoke(S)
  OBVIOUS
<1>2. /\ session' \in [Sessions -> [state : {"none", "live", "revoked"},
                                     origin : Sessions \cup {None}]]
      /\ \A t \in Sessions : session'[t].origin = session[t].origin
      /\ \A t \in Sessions : session'[t].state = "none" <=> session[t].state = "none"
      /\ Live' \subseteq Live
  BY <1>1, SessionsEnd DEF Revoke
<1>3. Typed'
  BY <1>2 DEF Typed, TypeOK
<1>4. LinkInv' /\ RequestInv'
  BY <1>2 DEF LinkInv, Unsent, RequestInv
<1>5. SessionInv'
  BY <1>2, KeepsSessionInv DEF Rotated, Typed
<1> QED BY <1>3, <1>4, <1>5

LEMMA CancelEmailChangeIInv ==
    ASSUME IInv, CancelEmailChange
    PROVE  IInv'
<1> USE DEF IInv, CancelEmailChange
<1>1. /\ user' \in Rows
      /\ user' = [user EXCEPT !.pending = None, !.change = None]
  BY DEF Typed, TypeOK, Rows, MaybeLink, MaybeEmail
<1>2. Typed'
  BY <1>1 DEF Typed, TypeOK, Rows, Kinds, MaybeLink
<1>3. LinkInv'
  BY <1>1 DEF LinkInv, Unsent, Typed, TypeOK, Rows, Kinds
<1>4. RequestInv'
  BY DEF RequestInv
<1>5. SessionInv'
  BY KeepsSessionInv DEF Rotated, Typed, Live
<1> QED BY <1>2, <1>3, <1>4, <1>5

LEMMA OutsideIInv ==
    ASSUME IInv,
           \/ \E l \in Links : Expire(l)
           \/ \E e \in Emails : TakeEmail(e)
    PROVE  IInv'
<1> USE DEF IInv, Expire, TakeEmail
<1>1. Typed'
  BY DEF Typed, TypeOK
<1>2. LinkInv' /\ RequestInv'
  BY DEF LinkInv, Unsent, RequestInv
<1>3. SessionInv'
  BY KeepsSessionInv DEF Rotated, Typed, Live
<1> QED BY <1>1, <1>2, <1>3

THEOREM Invariance == Spec => []IInv
<1>1. IInv /\ [Next]_vars => IInv'
  <2> SUFFICES ASSUME IInv, [Next]_vars PROVE IInv'
    OBVIOUS
  <2>1. ASSUME NEW r \in Requests, Request(r) PROVE IInv'
    BY <2>1, RequestIInv
  <2>2. ASSUME NEW r \in Requests, Write(r) PROVE IInv'
    BY <2>2, WriteIInv
  <2>3. ASSUME NEW r \in Requests, Abort(r) PROVE IInv'
    BY <2>3, AnswerIInv DEF Abort
  <2>4. CASE EndSessions
    BY <2>4, EndSessionsIInv
  <2>5. CASE CancelEmailChange
    BY <2>5, CancelEmailChangeIInv
  <2>6. CASE (\E l \in Links : Expire(l)) \/ (\E e \in Emails : TakeEmail(e))
    BY <2>6, OutsideIInv
  <2>7. CASE UNCHANGED vars
    BY <2>7 DEF vars, IInv, Typed, TypeOK, LinkInv, Unsent, RequestInv, SessionInv,
                OneSessionPerSignIn, Live, Rotated, Origin
  <2> QED BY <2>1, <2>2, <2>3, <2>4, <2>5, <2>6, <2>7 DEF Next
<1> QED BY <1>1, InitIInv, PTL DEF Spec

(* TypeOK holds in every reachable state, for all constants.               *)
THEOREM TypeCorrect == Spec => []TypeOK
BY Invariance, PTL DEF IInv, Typed

(* However often a refresh token is presented to refresh(), and whatever   *)
(* overlaps with it, no two live sessions descend from one sign-in.        *)
THEOREM OneSession == Spec => []OneSessionPerSignIn
BY Invariance, PTL DEF IInv, SessionInv

(* What a step does to the links, the e-mail and the password.             *)
LEMMA OnlyWritesUse ==
    ASSUME IInv, [Next]_vars
    PROVE  \/ UNCHANGED <<used, user>>
           \/ \E r \in Requests : VerifyWrite(r)
           \/ \E r \in Requests : ResetWrite(r)
           \/ \E r \in Requests : ConfirmEmailChangeWrite(r)
           \/ \E r \in Requests : ChangePasswordWrite(r)
           \/ /\ UNCHANGED used
              /\ user'.email = user.email /\ user'.password = user.password
<1>1. user \in Rows
  BY DEF IInv, Typed, TypeOK
<1>2. ASSUME NEW r \in Requests, Request(r) PROVE UNCHANGED <<used, user>>
  BY <1>2 DEF Request, Resend, Forgot, ChangePassword, Login, VerifyEmail, ResetPassword,
     Open, ConfirmEmailChange, RequestEmailChange, GoogleLogin, Refresh
<1>3. ASSUME NEW r \in Requests,
             ResendWrite(r) \/ ForgotWrite(r) \/ RequestEmailChangeWrite(r) \/ GoogleLink(r)
      PROVE  /\ UNCHANGED used
             /\ user'.email = user.email /\ user'.password = user.password
  <2>1. CASE ResendWrite(r)
    BY <1>1, <2>1 DEF ResendWrite, Rows
  <2>2. CASE ForgotWrite(r)
    BY <1>1, <2>2 DEF ForgotWrite, Rows
  <2>3. CASE RequestEmailChangeWrite(r)
    BY <1>1, <2>3 DEF RequestEmailChangeWrite, Rows
  <2>4. CASE GoogleLink(r)
    BY <1>1, <2>4 DEF GoogleLink, Rows
  <2> QED BY <1>3, <2>1, <2>2, <2>3, <2>4
<1>4. ASSUME NEW r \in Requests, RefreshWrite(r) \/ IssueTokens(r) \/ Abort(r)
      PROVE  UNCHANGED <<used, user>>
  BY <1>4 DEF RefreshWrite, IssueTokens, Abort
<1>5. CASE EndSessions
  BY <1>5 DEF EndSessions
<1>6. CASE CancelEmailChange
  BY <1>1, <1>6 DEF CancelEmailChange, Rows
<1>7. CASE (\E l \in Links : Expire(l)) \/ (\E e \in Emails : TakeEmail(e))
  BY <1>7 DEF Expire, TakeEmail
<1>8. CASE UNCHANGED vars
  BY <1>8 DEF vars
<1> QED BY <1>2, <1>3, <1>4, <1>5, <1>6, <1>7, <1>8 DEF Next, Write

(* A write that lets a link take effect finds it in the row.               *)
LEMMA UsedFromRow ==
    ASSUME IInv, NEW k \in Kinds, user[k] # None, TakesEffect(user[k]),
           NEW l \in Links, used'[l] > used[l]
    PROVE  l = user[k] /\ used[l] = 0 /\ latest[mailed[l].kind] = l
<1>1. l = user[k]
  BY DEF TakesEffect, IInv, Typed
<1> QED BY <1>1 DEF IInv, LinkInv, Typed, TypeOK

(* A link of verifyEmail, resetPassword or confirmEmailChange takes effect *)
(* at most once, and only while it is the newest of its kind.              *)
THEOREM LinksAlwaysHold == Spec => LinksHold
<1>1. IInv /\ [Next]_vars => \A l \in Links : used'[l] > used[l] =>
                                used[l] = 0 /\ latest[mailed[l].kind] = l
  <2> SUFFICES ASSUME IInv, [Next]_vars, NEW l \in Links, used'[l] > used[l]
               PROVE  used[l] = 0 /\ latest[mailed[l].kind] = l
    OBVIOUS
  <2>1. used[l] \in Nat
    BY DEF IInv, Typed
  <2>2. ~UNCHANGED used
    BY <2>1
  <2>3. PICK k \in Kinds, r \in Requests :
          /\ user[k] = req[r].link /\ TakesEffect(req[r].link)
          /\ req[r].at \in {"verify", "reset", "confirm"}
    BY <2>2, OnlyWritesUse
    DEF VerifyWrite, ResetWrite, ConfirmEmailChangeWrite, ChangePasswordWrite, Kinds
  <2>4. user[k] # None
    BY <2>3, NoneAssumption DEF IInv, RequestInv
  <2> QED BY <2>3, <2>4, UsedFromRow
<1> QED BY <1>1, Invariance, PTL DEF Spec, LinksHold

(* The e-mail of the account only becomes one whose own link was opened,   *)
(* whatever requestEmailChange and cancelEmailChange do meanwhile.         *)
THEOREM EmailAlwaysConfirmed == Spec => EmailWasConfirmed
<1>1. IInv /\ [Next]_vars =>
        (user'.email # user.email =>
            \E l \in Links : /\ used'[l] > used[l]
                             /\ mailed[l] = [kind |-> "change", to |-> user'.email])
  <2> SUFFICES ASSUME IInv, [Next]_vars, user'.email # user.email
               PROVE  \E l \in Links : /\ used'[l] > used[l]
                                       /\ mailed[l] = [kind |-> "change", to |-> user'.email]
    OBVIOUS
  <2>1. user \in Rows
    BY DEF IInv, Typed, TypeOK
  <2>2. PICK r \in Requests : ConfirmEmailChangeWrite(r)
    <3>1. ASSUME NEW q \in Requests, VerifyWrite(q) \/ ResetWrite(q) \/ ChangePasswordWrite(q)
          PROVE  user'.email = user.email
      BY <2>1, <3>1 DEF VerifyWrite, ResetWrite, ChangePasswordWrite, Verified, Rows
    <3> QED BY <3>1, OnlyWritesUse
  <2>3. /\ req[r].at = "confirm" /\ TakesEffect(req[r].link)
        /\ user'.email = req[r].email
    BY <2>1, <2>2 DEF ConfirmEmailChangeWrite, Confirmed, Rows
  <2>4. /\ req[r].link \in Links
        /\ mailed[req[r].link] = [kind |-> "change", to |-> req[r].email]
    BY <2>3 DEF IInv, RequestInv
  <2>5. used'[req[r].link] > used[req[r].link]
    BY <2>3, <2>4 DEF TakesEffect, IInv, Typed
  <2> QED BY <2>3, <2>4, <2>5
<1> QED BY <1>1, Invariance, PTL DEF Spec, EmailWasConfirmed

(* With the new password of resetPassword and changePassword every session *)
(* there was is over, whatever refreshes are under way.                    *)
THEOREM NewPasswordAlwaysEndsSessions == Spec => NewPasswordEndsSessions
<1>1. IInv /\ [Next]_vars =>
        (user'.password # user.password => \A s \in Live : session'[s].state = "revoked")
  <2> SUFFICES ASSUME IInv, [Next]_vars, user'.password # user.password
               PROVE  \A s \in Live : session'[s].state = "revoked"
    OBVIOUS
  <2>1. user \in Rows
    BY DEF IInv, Typed, TypeOK
  <2>2. ASSUME NEW r \in Requests, VerifyWrite(r) \/ ConfirmEmailChangeWrite(r)
        PROVE  user'.password = user.password
    BY <2>1, <2>2 DEF VerifyWrite, ConfirmEmailChangeWrite, Verified, Confirmed, Rows
  <2>3. RevokeAll
    BY <2>2, OnlyWritesUse DEF ResetWrite, ChangePasswordWrite
  <2>4. \A s \in Live : session[s] \in [state : {"none", "live", "revoked"},
                                         origin : Sessions \cup {None}]
    BY DEF IInv, Typed, Live
  <2>5. \A s \in Live : session'[s] = [session[s] EXCEPT !.state = "revoked"]
    BY <2>3 DEF RevokeAll, Live
  <2> QED BY <2>4, <2>5
<1> QED BY <1>1, Invariance, PTL DEF Spec, NewPasswordEndsSessions
=============================================================================
