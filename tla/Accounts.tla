------------------------------ MODULE Accounts ------------------------------
(***************************************************************************)
(* Accounts: app.user, app.handle_release, app.invite, app.session and     *)
(* app.auth_token, and the requests that sign up, change a handle, leave,  *)
(* log in, change or reset a password, verify or change an address.        *)
(*                                                                         *)
(* A request is two steps.  It starts by reading what its checks need, and *)
(* it commits what those checks allowed: none of the reads takes a lock,   *)
(* so any other request may commit in between.  A commit meets only what   *)
(* the database enforces: the unique address and handle, the foreign keys  *)
(* and the row count of an UPDATE.                                         *)
(*                                                                         *)
(* A refusal changes nothing, and any request may be refused at any time   *)
(* (the throttles on addresses and the login lockout only ever refuse), so *)
(* a request that is refused before it reads simply does not start.        *)
(* Passwords, sessions and tokens are named by the request that makes      *)
(* them.  No window elapses: what counts as recent stays recent.           *)
(***************************************************************************)
EXTENDS Naturals, FiniteSets

CONSTANTS
    Users,           \* account ids
    Handles, Emails, \* what accounts may be called
    Invites,         \* invite codes
    Requests,        \* requests, each made once
    Hints,           \* the address an invite is for, or AnyEmail
    Founders,        \* the accounts there are at the start: id -> names
    First,           \* the password, session and token of a founder
    NoUser, NoInvite, AnyEmail, Never, Nobody, Open,
    InviteRequired,  \* INVITE_REQUIRED
    MaxReleases,     \* handle_change_throttle.max_attempts
    TokensPerMinute  \* RATE_LIMIT_PER_MINUTE

Ids == Requests \cup {First}
Verification == "email_verification"
Reset == "password_reset"
EmailChange == "email_change"
Purposes == {Verification, Reset, EmailChange}

ASSUME AccountsAssumption ==
    /\ DOMAIN Founders \subseteq Users
    /\ Founders \in [DOMAIN Founders -> [email: Emails, handle: Handles]]
    /\ \A u, v \in DOMAIN Founders : u # v =>
         /\ Founders[u].email # Founders[v].email
         /\ Founders[u].handle # Founders[v].handle
    /\ Hints \in [Invites -> Emails \cup {AnyEmail}]
    /\ First \notin Requests
    /\ {NoUser, Never, Nobody, Open} \cap Users = {}
    /\ NoUser \notin {Never, Nobody, Open} /\ Never # Nobody /\ Open # Nobody
    /\ NoInvite \notin Invites /\ AnyEmail \notin Emails
    /\ InviteRequired \in BOOLEAN
    /\ MaxReleases \in Nat /\ TokensPerMinute \in Nat

VARIABLES
    account,   \* the rows of app.user
    released,  \* released[h]: who gave h up last; Never, or Nobody once gone
    invite,    \* the rows of app.invite: the hint, and who redeemed it
    session,   \* the rows of app.session, with the password shown
    token,     \* the rows of app.auth_token
    req,       \* req[p]: where request p is
    held,      \* history: held[h] is everyone who ever held h
    inherited, \* history: <<heir, holder, handle>> of handles that passed on
    proven,    \* history: <<user, address>> shown by a link or an invite
    redeemed,  \* history: <<what, request>> of codes and tokens that worked
    crossed    \* history: what two requests in flight together had read

rows == <<account, released, invite, session, token>>
history == <<held, inherited, proven, redeemed>>
vars == <<rows, req, history, crossed>>

Live == DOMAIN account
Put(f, k, v) == [x \in DOMAIN f \cup {k} |-> IF x = k THEN v ELSE f[x]]
Without(f, S) == [x \in DOMAIN f \ S |-> f[x]]

Account == [email: Emails, handle: Handles, password: Ids,
            verified: BOOLEAN, disabled: BOOLEAN]
Token == [user: Users, purpose: Purposes, email: Emails, consumed: BOOLEAN]

\* What a request reads that another one may be writing.
Keys == (Users \X {"handle", "credential", "disabled"})
        \cup (Ids \X {"token"}) \cup (Invites \X {"invite"})
Idle == [op |-> "idle", user |-> NoUser, keys |-> {}]
Done == [op |-> "done", user |-> NoUser, keys |-> {}]
InFlight == {p \in Requests : req[p].op \notin {"idle", "done"}}

Begin(p, r) ==
    /\ req[p].op = "idle"
    /\ req' = [req EXCEPT ![p] = r]
    /\ crossed' = crossed \cup (r.keys \cap UNION {req[q].keys : q \in InFlight})
    /\ UNCHANGED <<rows, history>>

End(p) == req' = [req EXCEPT ![p] = Done] /\ UNCHANGED crossed
Refuse(p) == End(p) /\ UNCHANGED <<rows, history>>

-----------------------------------------------------------------------------
\* get_current_user: the request carries a session of an account that is not
\* disabled.
SignedIn(u) ==
    u \in Live /\ ~account[u].disabled /\ \E s \in session : s.user = u

\* Mutant: the release ledger is not asked.
ClaimableIfFree(h, u) == \A v \in Live \ {u} : account[v].handle # h

\* ensure_claimable, for the account u, or for NoUser at signup.
Claimable(h, u) ==
    /\ \A v \in Live \ {u} : account[v].handle # h
    /\ released[h] \in {Never, u}

\* uq_user_email and uq_user_handle.
EmailTaken(e, u) == \E v \in Live \ {u} : account[v].email = e
HandleTaken(h, u) == \E v \in Live \ {u} : account[v].handle = h

\* Who held h before u first asked for it.
Before(h, u) == IF u \in held[h] THEN {} ELSE held[h]

CanIssue(u, purpose) ==
    Cardinality({t \in DOMAIN token \ {First} :
                   token[t].user = u /\ token[t].purpose = purpose})
      < TokensPerMinute

-----------------------------------------------------------------------------
(* Signing up.                                                             *)

InviteValid(i, e) ==
    IF i = NoInvite THEN ~InviteRequired
    ELSE invite[i].by = Open /\ invite[i].hint \in {AnyEmail, e}

StartSignup(p, e, h, i) ==
    /\ InviteValid(i, e)
    /\ Claimable(h, NoUser)
    /\ Begin(p, [op |-> "signup", user |-> NoUser, email |-> e, handle |-> h,
                 invite |-> i, before |-> held[h],
                 keys |-> {<<i, "invite">>} \cap Keys])

Issuing(u, purpose, e) ==
    [op |-> "issue", user |-> u, purpose |-> purpose, email |-> e, keys |-> {}]

Invited(p) == req[p].invite # NoInvite

\* Mutant: an account is verified when it is made.
NewAccountVerified(p) ==
    [email |-> req[p].email, handle |-> req[p].handle, password |-> p,
     verified |-> TRUE, disabled |-> FALSE]

NewAccount(p) ==
    [email |-> req[p].email, handle |-> req[p].handle, password |-> p,
     verified |-> Invited(p), disabled |-> FALSE]

CommitSignup(p) == LET r == req[p] IN
    /\ r.op = "signup"
    /\ ~EmailTaken(r.email, NoUser) /\ ~HandleTaken(r.handle, NoUser)
    /\ \E u \in Users \ UNION {held[h] : h \in Handles} :
         /\ account' = Put(account, u, NewAccount(p))
         /\ invite' = [i \in Invites |->
              IF i = r.invite THEN [invite[i] EXCEPT !.by = u] ELSE invite[i]]
         /\ session' = session \cup {[id |-> p, user |-> u, password |-> p]}
         /\ held' = [held EXCEPT ![r.handle] = @ \cup {u}]
         /\ inherited' = inherited \cup ({u} \X r.before \X {r.handle})
         /\ proven' = proven \cup (IF Invited(p) THEN {<<u, r.email>>} ELSE {})
         /\ redeemed' = redeemed \cup
              (IF Invited(p) THEN {<<<<r.invite, "invite">>, p>>} ELSE {})
         /\ req' = [req EXCEPT ![p] = Issuing(u, Verification, r.email)]
    /\ UNCHANGED <<released, token, crossed>>

RefuseSignup(p) ==
    /\ req[p].op = "signup"
    /\ EmailTaken(req[p].email, NoUser) \/ HandleTaken(req[p].handle, NoUser)
    /\ Refuse(p)

-----------------------------------------------------------------------------
(* Handles.                                                                *)

StartChangeHandle(p, u, h) ==
    /\ SignedIn(u)
    /\ account[u].handle # h
    /\ Cardinality({g \in Handles : released[g] = u}) < MaxReleases
    /\ Claimable(h, u)
    /\ Begin(p, [op |-> "handle", user |-> u, old |-> account[u].handle,
                 handle |-> h, before |-> Before(h, u),
                 keys |-> {<<u, "handle">>}])

\* Mutant: the handle moves and its release is not recorded.
MoveHandle(p) == LET r == req[p]  u == r.user IN
    /\ r.op = "handle"
    /\ u \in Live /\ ~HandleTaken(r.handle, u)
    /\ account' = [account EXCEPT ![u].handle = r.handle]
    /\ held' = [held EXCEPT ![r.handle] = @ \cup {u}]
    /\ inherited' = inherited \cup ({u} \X r.before \X {r.handle})
    /\ End(p)
    /\ UNCHANGED <<released, invite, session, token, proven, redeemed>>

CommitChangeHandle(p) == LET r == req[p]  u == r.user IN
    /\ r.op = "handle"
    /\ u \in Live /\ ~HandleTaken(r.handle, u)
    /\ account' = [account EXCEPT ![u].handle = r.handle]
    /\ released' = [released EXCEPT ![r.old] = u]
    /\ held' = [held EXCEPT ![r.handle] = @ \cup {u}]
    /\ inherited' = inherited \cup ({u} \X r.before \X {r.handle})
    /\ End(p)
    /\ UNCHANGED <<invite, session, token, proven, redeemed>>

RefuseChangeHandle(p) ==
    /\ req[p].op = "handle"
    /\ req[p].user \notin Live \/ HandleTaken(req[p].handle, req[p].user)
    /\ Refuse(p)

\* The release row is written while the account exists; the delete that
\* follows it in the transaction sets the owner of every release to NULL.
StartDeleteAccount(p, u) ==
    /\ SignedIn(u)
    /\ Begin(p, [op |-> "delete", user |-> u, old |-> account[u].handle,
                 keys |-> {<<u, "handle">>}])

\* ON DELETE SET NULL, after record has written the row of the last handle.
ReleasedBy(u, old) == [h \in Handles |->
    IF h = old \/ released[h] = u THEN Nobody ELSE released[h]]

CommitDeleteAccount(p) == LET u == req[p].user IN
    /\ req[p].op = "delete"
    /\ u \in Live
    /\ released' = ReleasedBy(u, req[p].old)
    /\ account' = Without(account, {u})
    /\ invite' = [i \in Invites |->
         IF invite[i].by = u THEN [invite[i] EXCEPT !.by = Nobody] ELSE invite[i]]
    /\ session' = {s \in session : s.user # u}
    /\ token' = Without(token, {t \in DOMAIN token : token[t].user = u})
    /\ End(p)
    /\ UNCHANGED history

RefuseDeleteAccount(p) ==
    req[p].op = "delete" /\ req[p].user \notin Live /\ Refuse(p)

-----------------------------------------------------------------------------
(* Sessions and passwords.                                                 *)

StartLogin(p, u) ==
    /\ u \in Live /\ ~account[u].disabled
    /\ Begin(p, [op |-> "login", user |-> u, password |-> account[u].password,
                 keys |-> {<<u, "credential">>}])

CommitLogin(p) == LET r == req[p] IN
    /\ r.op = "login"
    /\ r.user \in Live
    /\ session' = session \cup
         {[id |-> p, user |-> r.user, password |-> r.password]}
    /\ End(p)
    /\ UNCHANGED <<account, released, invite, token, history>>

RefuseLogin(p) == req[p].op = "login" /\ req[p].user \notin Live /\ Refuse(p)

StartChangePassword(p, u) ==
    /\ SignedIn(u)
    /\ Begin(p, [op |-> "password", user |-> u, keys |-> {<<u, "credential">>}])

CommitChangePassword(p) == LET u == req[p].user IN
    /\ req[p].op = "password"
    /\ u \in Live
    /\ account' = [account EXCEPT ![u].password = p]
    /\ session' = {s \in session : s.user # u}
         \cup {[id |-> p, user |-> u, password |-> p]}
    /\ End(p)
    /\ UNCHANGED <<released, invite, token, history>>

RefuseChangePassword(p) ==
    req[p].op = "password" /\ req[p].user \notin Live /\ Refuse(p)

\* DELETE /me/sessions/{id} and POST /auth/logout.
Revoke(s) ==
    /\ s \in session
    /\ session' = session \ {s}
    /\ UNCHANGED <<account, released, invite, token, req, history, crossed>>

RevokeOthers(s) ==
    /\ s \in session /\ SignedIn(s.user)
    /\ session' = {t \in session : t.user # s.user \/ t = s}
    /\ UNCHANGED <<account, released, invite, token, req, history, crossed>>

\* PATCH /admin/users/{id}/disabled.
Disable(u) ==
    /\ u \in Live
    /\ account' = [account EXCEPT ![u].disabled = TRUE]
    /\ session' = {s \in session : s.user # u}
    /\ crossed' = crossed \cup
         {<<req[p].user, "disabled">> : p \in {q \in InFlight : req[q].user = u}}
    /\ UNCHANGED <<released, invite, token, req, history>>

Enable(u) ==
    /\ u \in Live
    /\ account' = [account EXCEPT ![u].disabled = FALSE]
    /\ UNCHANGED <<released, invite, session, token, req, history, crossed>>

-----------------------------------------------------------------------------
(* Single-use tokens.                                                      *)

\* The resend route, the forgotten password and the address change: each
\* checks, and then issues and mails a link.
StartIssue(p, u, purpose, e) ==
    /\ CASE purpose = Verification -> SignedIn(u) /\ e = account[u].email
         [] purpose = Reset -> /\ u \in Live /\ ~account[u].disabled
                               /\ e = account[u].email
         [] purpose = EmailChange -> SignedIn(u) /\ ~EmailTaken(e, u)
    /\ CanIssue(u, purpose)
    /\ Begin(p, Issuing(u, purpose, e))

CommitIssue(p) == LET r == req[p] IN
    /\ r.op = "issue"
    /\ r.user \in Live
    /\ token' = Put(token, p, [user |-> r.user, purpose |-> r.purpose,
                               email |-> r.email, consumed |-> FALSE])
    /\ End(p)
    /\ UNCHANGED <<account, released, invite, session, history>>

RefuseIssue(p) == req[p].op = "issue" /\ req[p].user \notin Live /\ Refuse(p)

\* Mutant: the lookup forgets consumed_at.
RedeemableAgain(t) == TRUE

\* verify_and_consume: the row is found unconsumed, its account is loaded.
Redeemable(t) == ~token[t].consumed

StartRedeem(p, t) ==
    /\ t \in DOMAIN token
    /\ Redeemable(t)
    /\ LET u == token[t].user IN
       Begin(p, [op |-> "redeem", user |-> u, token |-> t,
                 disabled |-> account[u].disabled,
                 verified |-> account[u].verified,
                 keys |-> {<<t, "token">>} \cup
                   (IF token[t].purpose = Reset THEN {<<u, "credential">>} ELSE {})])

\* What redeeming the token t writes to its account.
Redeemed(p, t) == LET a == account[token[t].user] IN
    CASE token[t].purpose = Verification ->
           [a EXCEPT !.verified = @ \/ ~req[p].verified]
      [] token[t].purpose = Reset -> [a EXCEPT !.password = p]
      [] token[t].purpose = EmailChange ->
           [a EXCEPT !.email = token[t].email, !.verified = TRUE]

Conflict(t) ==
    token[t].purpose = EmailChange /\ EmailTaken(token[t].email, token[t].user)

\* Mutant: a reset leaves the sessions there are.
SessionsKept(t) == session

\* reset signs the account out everywhere.
SessionsAfter(t) ==
    IF token[t].purpose = Reset
    THEN {s \in session : s.user # token[t].user} ELSE session

\* The refusal of a disabled account, which consumes the token all the same.
Barred(p) == req[p].disabled

CommitRedeem(p) == LET t == req[p].token  u == token[t].user IN
    /\ req[p].op = "redeem"
    /\ t \in DOMAIN token
    /\ Barred(p) \/ ~Conflict(t)
    /\ token' = [token EXCEPT ![t].consumed = TRUE]
    /\ IF Barred(p)
       THEN UNCHANGED <<account, session, proven, redeemed>>
       ELSE /\ account' = [account EXCEPT ![u] = Redeemed(p, t)]
            /\ session' = SessionsAfter(t)
            /\ proven' = proven \cup {<<u, token[t].email>>}
            /\ redeemed' = redeemed \cup {<<<<t, "token">>, p>>}
    /\ End(p)
    /\ UNCHANGED <<released, invite, held, inherited>>

\* The account went with its tokens, or the address was taken: the rollback
\* leaves the token as it was.
RefuseRedeem(p) ==
    /\ req[p].op = "redeem"
    /\ req[p].token \in DOMAIN token => ~Barred(p) /\ Conflict(req[p].token)
    /\ Refuse(p)

-----------------------------------------------------------------------------
Init ==
    /\ account = [u \in DOMAIN Founders |->
         [email |-> Founders[u].email, handle |-> Founders[u].handle,
          password |-> First, verified |-> FALSE, disabled |-> FALSE]]
    /\ released = [h \in Handles |-> Never]
    /\ invite = [i \in Invites |-> [hint |-> Hints[i], by |-> Open]]
    /\ session = {[id |-> First, user |-> u, password |-> First] : u \in Live}
    /\ \E t \in {r \in Token : /\ r.user \in Live /\ ~r.consumed
                               /\ r.purpose \in {Verification, Reset} =>
                                   r.email = account[r.user].email} :
         token = [x \in {First} |-> t]
    /\ req = [p \in Requests |-> Idle]
    /\ held = [h \in Handles |-> {u \in Live : account[u].handle = h}]
    /\ inherited = {} /\ proven = {} /\ redeemed = {} /\ crossed = {}

Start(p) ==
    \/ \E e \in Emails, h \in Handles, i \in Invites \cup {NoInvite} :
         StartSignup(p, e, h, i)
    \/ \E u \in Users : \/ \E h \in Handles : StartChangeHandle(p, u, h)
                        \/ StartDeleteAccount(p, u)
                        \/ StartLogin(p, u)
                        \/ StartChangePassword(p, u)
                        \/ \E f \in Purposes, e \in Emails : StartIssue(p, u, f, e)
    \/ \E t \in Ids : StartRedeem(p, t)

Next ==
    \/ \E p \in Requests :
         \/ Start(p)
         \/ CommitSignup(p) \/ RefuseSignup(p)
         \/ CommitChangeHandle(p) \/ RefuseChangeHandle(p)
         \/ CommitDeleteAccount(p) \/ RefuseDeleteAccount(p)
         \/ CommitLogin(p) \/ RefuseLogin(p)
         \/ CommitChangePassword(p) \/ RefuseChangePassword(p)
         \/ CommitIssue(p) \/ RefuseIssue(p)
         \/ CommitRedeem(p) \/ RefuseRedeem(p)
    \/ \E s \in session : Revoke(s) \/ RevokeOthers(s)
    \/ \E u \in Users : Disable(u) \/ Enable(u)

Spec == Init /\ [][Next]_vars

-----------------------------------------------------------------------------
(* Properties.                                                             *)

SignupRequest == [op: {"signup"}, user: {NoUser}, email: Emails, handle: Handles,
                  invite: Invites \cup {NoInvite}, before: SUBSET Users,
                  keys: SUBSET Keys]
HandleRequest == [op: {"handle"}, user: Users, old: Handles, handle: Handles,
                  before: SUBSET Users, keys: SUBSET Keys]
DeleteRequest == [op: {"delete"}, user: Users, old: Handles, keys: SUBSET Keys]
LoginRequest == [op: {"login"}, user: Users, password: Ids, keys: SUBSET Keys]
PasswordRequest == [op: {"password"}, user: Users, keys: SUBSET Keys]
IssueRequest == [op: {"issue"}, user: Users, purpose: Purposes, email: Emails,
                 keys: SUBSET Keys]
RedeemRequest == [op: {"redeem"}, user: Users, token: Ids, disabled: BOOLEAN,
                  verified: BOOLEAN, keys: SUBSET Keys]
Request ==
    {Idle, Done} \cup SignupRequest \cup HandleRequest \cup DeleteRequest
    \cup LoginRequest \cup PasswordRequest \cup IssueRequest \cup RedeemRequest

\* The state is well typed, and every row that names an account names one
\* that exists: what the deletion of an account leaves behind names nobody.
TypeOK ==
    /\ Live \subseteq Users /\ \A u \in Live : account[u] \in Account
    /\ released \in [Handles -> Live \cup {Never, Nobody}]
    /\ invite \in [Invites -> [hint: Emails \cup {AnyEmail},
                               by: Live \cup {Open, Nobody}]]
    /\ session \subseteq [id: Ids, user: Live, password: Ids]
    /\ DOMAIN token \subseteq Ids
    /\ \A t \in DOMAIN token : token[t] \in Token /\ token[t].user \in Live
    /\ req \in [Requests -> Request]
    /\ held \in [Handles -> SUBSET Users]
    /\ inherited \subseteq Users \X Users \X Handles
    /\ proven \subseteq Users \X Emails
    /\ redeemed \subseteq (Keys \X Requests)
    /\ crossed \subseteq Keys
    /\ \A u, v \in Live : u # v => /\ account[u].email # account[v].email
                                   /\ account[u].handle # account[v].handle

\* A handle that was ever held is held now or has a release row, so it is
\* never free for the taking; only an account whose own changes overlapped
\* can have let one go unrecorded (handle_service.change_handle).
HandlesAccounted ==
    \A h \in Handles : released[h] = Never =>
      \A u \in held[h] : \/ u \in Live /\ account[u].handle = h
                         \/ <<u, "handle">> \in crossed

\* Nobody takes a handle that someone else had held before they first asked
\* for it, whether that account changed, left or came back meanwhile; again
\* save for one whose own changes overlapped (ensure_claimable).
NoInheritance ==
    \A x \in inherited : <<x[2], "handle">> \in crossed

\* A verified account answers mail at the address it has now, whatever
\* links to older or newer addresses are followed in whatever order: it
\* followed a link sent there, or it was invited at signup.
VerifiedMailbox ==
    \A u \in Live : account[u].verified => <<u, account[u].email>> \in proven

\* No session opened with an earlier password outlives its change, unless
\* the login and the change were in flight together (change_password,
\* password_reset_service.reset); and a disabled account has none to come back
\* to once it is enabled, save that of a login in flight when it was disabled.
SessionsCurrent ==
    \A s \in session :
        /\ \/ s.password = account[s.user].password
           \/ <<s.user, "credential">> \in crossed
        /\ account[s.user].disabled => <<s.user, "disabled">> \in crossed

\* An invite opens one account and a mailed link works once, unless two
\* requests that showed it were in flight together: neither the lookup of a
\* token nor that of an invite locks its row.
RedeemedOnce ==
    \A x, y \in redeemed : x[1] = y[1] => x = y \/ x[1] \in crossed

=============================================================================
