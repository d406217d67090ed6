--------------------------- MODULE AccountsProofs ---------------------------
(***************************************************************************)
(* What Accounts keeps for every set of accounts, handles and requests.    *)
(*                                                                         *)
(* A handle may be claimed when no row says it was released, so the        *)
(* invariant to keep is that no handle is given up without a row.  A       *)
(* commit releases the handle its request read, so it rests on that        *)
(* reading still being good (OldHandle), and it is good unless another     *)
(* request of the account was in flight (Overlap).                         *)
(*                                                                         *)
(* The rest is of one shape: what a request in flight has read (FlightInv) *)
(* is still so when it commits, or it shares a key with the request that   *)
(* changed it and Overlap puts the key in crossed.  So what was used up    *)
(* stays used up (OnceInv), a login holds the password there is            *)
(* (SessionInv), and a link to verify holds the address there is until the *)
(* account is verified (MailInv).                                          *)
(***************************************************************************)
EXTENDS Accounts, TLAPS

\* An account has held the handle it has.
HeldNow == \A u \in Live : u \in held[account[u].handle]

\* Whoever released a handle had held it.
ReleasedHeld == \A h \in Handles : released[h] \in Users => released[h] \in held[h]

\* What two requests in flight have both read is in crossed.
Overlap ==
    \A p, q \in Requests : p # q => req[p].keys \cap req[q].keys \subseteq crossed

\* A request that will release a handle releases the one its account has,
\* unless it overlapped with another.
OldHandle ==
    \A p \in Requests : req[p].op \in {"handle", "delete"} =>
      /\ req[p].user \in held[req[p].old]
      /\ <<req[p].user, "handle">> \in req[p].keys
      /\ req[p].user \in Live /\ account[req[p].user].handle # req[p].old =>
           <<req[p].user, "handle">> \in crossed

\* A handle that passed the check had no earlier holder, but for those whose
\* requests overlapped.
BeforeCrossed ==
    \A p \in Requests : req[p].op \in {"signup", "handle"} =>
      \A v \in req[p].before : <<v, "handle">> \in crossed

HandleInv ==
    /\ HeldNow /\ ReleasedHeld /\ Overlap /\ OldHandle /\ BeforeCrossed
    /\ HandlesAccounted /\ NoInheritance

-----------------------------------------------------------------------------
LEMMA NamesDistinct ==
  /\ NoUser \notin Users /\ Never \notin Users /\ Nobody \notin Users /\ Open \notin Users
  /\ NoUser # Never /\ NoUser # Nobody /\ Never # Nobody
BY AccountsAssumption

\* What a request is follows from its op.
LEMMA RequestFacts ==
  ASSUME NEW r \in Request
  PROVE  /\ r.op = "signup" => r \in SignupRequest
         /\ r.op = "handle" => r \in HandleRequest
         /\ r.op = "delete" => r \in DeleteRequest
         /\ r.op = "login" => r \in LoginRequest
         /\ r.op = "password" => r \in PasswordRequest
         /\ r.op = "issue" => r \in IssueRequest
         /\ r.op = "redeem" => r \in RedeemRequest
         /\ r.user \in Users \cup {NoUser}
         /\ r.keys \subseteq Keys
BY DEF Request, Idle, Done, SignupRequest, HandleRequest, DeleteRequest, LoginRequest,
       PasswordRequest, IssueRequest, RedeemRequest

-----------------------------------------------------------------------------
(* Types.                                                                  *)

LEMMA BeginTyped ==
  ASSUME TypeOK, NEW p \in Requests, NEW r \in Request, Begin(p, r)
  PROVE  TypeOK'
<1>1. r.keys \subseteq Keys
  BY RequestFacts
<1>2. req' \in [Requests -> Request]
  BY DEF TypeOK, Begin
<1>3. crossed' \subseteq Keys
  BY <1>1 DEF TypeOK, Begin
<1> QED
  BY <1>2, <1>3 DEF TypeOK, Begin, rows, history, Live

LEMMA RefuseTyped ==
  ASSUME TypeOK, NEW p \in Requests, Refuse(p)
  PROVE  TypeOK'
<1>1. req' \in [Requests -> Request]
  BY DEF TypeOK, Refuse, End, Request
<1> QED
  BY <1>1 DEF TypeOK, Refuse, End, rows, history, Live

LEMMA StartTyped ==
  ASSUME TypeOK, NEW p \in Requests, Start(p)
  PROVE  TypeOK'
<1>1. ASSUME NEW e \in Emails, NEW h \in Handles, NEW i \in Invites \cup {NoInvite},
             StartSignup(p, e, h, i)
      PROVE  TypeOK'
  <2> DEFINE r == [op |-> "signup", user |-> NoUser, email |-> e, handle |-> h,
                   invite |-> i, before |-> held[h], keys |-> {<<i, "invite">>} \cap Keys]
  <2>1. r \in SignupRequest
    BY DEF TypeOK, SignupRequest
  <2>2. r \in Request
    BY <2>1 DEF Request
  <2> QED
    BY <1>1, <2>2, BeginTyped DEF StartSignup
<1>2. ASSUME NEW u \in Users, NEW h \in Handles, StartChangeHandle(p, u, h)
      PROVE  TypeOK'
  <2> DEFINE r == [op |-> "handle", user |-> u, old |-> account[u].handle,
                   handle |-> h, before |-> Before(h, u), keys |-> {<<u, "handle">>}]
  <2>1. u \in Live
    BY <1>2 DEF StartChangeHandle, SignedIn
  <2>2. account[u].handle \in Handles /\ Before(h, u) \in SUBSET Users
        /\ {<<u, "handle">>} \subseteq Keys
    BY <2>1 DEF TypeOK, Account, Before, Keys
  <2>3. r \in HandleRequest
    BY <2>2 DEF HandleRequest
  <2>4. r \in Request
    BY <2>3 DEF Request
  <2> QED
    BY <1>2, <2>4, BeginTyped DEF StartChangeHandle
<1>3. ASSUME NEW u \in Users, StartDeleteAccount(p, u)
      PROVE  TypeOK'
  <2> DEFINE r == [op |-> "delete", user |-> u, old |-> account[u].handle,
                   keys |-> {<<u, "handle">>}]
  <2>1. u \in Live
    BY <1>3 DEF StartDeleteAccount, SignedIn
  <2>2. account[u].handle \in Handles /\ {<<u, "handle">>} \subseteq Keys
    BY <2>1 DEF TypeOK, Account, Keys
  <2>3. r \in DeleteRequest
    BY <2>2 DEF DeleteRequest
  <2>4. r \in Request
    BY <2>3 DEF Request
  <2> QED
    BY <1>3, <2>4, BeginTyped DEF StartDeleteAccount
<1>4. ASSUME NEW u \in Users, StartLogin(p, u)
      PROVE  TypeOK'
  <2> DEFINE r == [op |-> "login", user |-> u, password |-> account[u].password,
                   keys |-> {<<u, "credential">>}]
  <2>1. account[u].password \in Ids /\ {<<u, "credential">>} \subseteq Keys
    BY <1>4 DEF TypeOK, Account, Keys, StartLogin
  <2>2. r \in LoginRequest
    BY <2>1 DEF LoginRequest
  <2>3. r \in Request
    BY <2>2 DEF Request
  <2> QED
    BY <1>4, <2>3, BeginTyped DEF StartLogin
<1>5. ASSUME NEW u \in Users, StartChangePassword(p, u)
      PROVE  TypeOK'
  <2> DEFINE r == [op |-> "password", user |-> u, keys |-> {<<u, "credential">>}]
  <2>1. {<<u, "credential">>} \subseteq Keys
    BY DEF Keys
  <2>2. r \in PasswordRequest
    BY <2>1 DEF PasswordRequest
  <2>3. r \in Request
    BY <2>2 DEF Request
  <2> QED
    BY <1>5, <2>3, BeginTyped DEF StartChangePassword
<1>6. ASSUME NEW u \in Users, NEW f \in Purposes, NEW e \in Emails,
             StartIssue(p, u, f, e)
      PROVE  TypeOK'
  <2>1. Issuing(u, f, e) \in IssueRequest
    BY DEF Issuing, IssueRequest
  <2>2. Issuing(u, f, e) \in Request
    BY <2>1 DEF Request
  <2> QED
    BY <1>6, <2>2, BeginTyped DEF StartIssue
<1>7. ASSUME NEW t \in Ids, StartRedeem(p, t)
      PROVE  TypeOK'
  <2> DEFINE u == token[t].user
             r == [op |-> "redeem", user |-> u, token |-> t,
                   disabled |-> account[u].disabled, verified |-> account[u].verified,
                   keys |-> {<<t, "token">>} \cup
                     (IF token[t].purpose = Reset THEN {<<u, "credential">>} ELSE {})]
  <2>1. u \in Live /\ u \in Users
    BY <1>7 DEF TypeOK, StartRedeem, Token
  <2>2. account[u].disabled \in BOOLEAN /\ account[u].verified \in BOOLEAN
    BY <2>1 DEF TypeOK, Account
  <2>3. r.keys \subseteq Keys
    BY <2>1 DEF Keys
  <2>4. r \in RedeemRequest
    BY <2>1, <2>2, <2>3 DEF RedeemRequest
  <2>5. r \in Request
    BY <2>4 DEF Request
  <2>6. Begin(p, r)
    BY <1>7 DEF StartRedeem
  <2> QED
    BY <2>5, <2>6, BeginTyped
<1> QED
  BY <1>1, <1>2, <1>3, <1>4, <1>5, <1>6, <1>7 DEF Start

LEMMA EndTyped ==
  ASSUME TypeOK, NEW p \in Requests, End(p)
  PROVE  req' \in [Requests -> Request] /\ crossed' \subseteq Keys
BY DEF TypeOK, End, Request

LEMMA CommitSignupTyped ==
  ASSUME TypeOK, NEW p \in Requests, CommitSignup(p)
  PROVE  TypeOK'
<1> DEFINE r == req[p]
<1>1. r \in SignupRequest
  BY RequestFacts DEF TypeOK, CommitSignup
<1>2. PICK u \in Users \ UNION {held[h] : h \in Handles} :
        /\ account' = Put(account, u, NewAccount(p))
        /\ invite' = [i \in Invites |->
             IF i = r.invite THEN [invite[i] EXCEPT !.by = u] ELSE invite[i]]
        /\ session' = session \cup {[id |-> p, user |-> u, password |-> p]}
        /\ held' = [held EXCEPT ![r.handle] = @ \cup {u}]
        /\ inherited' = inherited \cup ({u} \X r.before \X {r.handle})
        /\ proven' = proven \cup (IF Invited(p) THEN {<<u, r.email>>} ELSE {})
        /\ redeemed' = redeemed \cup
             (IF Invited(p) THEN {<<<<r.invite, "invite">>, p>>} ELSE {})
        /\ req' = [req EXCEPT ![p] = Issuing(u, Verification, r.email)]
  BY DEF CommitSignup
<1>3. UNCHANGED <<released, token, crossed>>
  BY DEF CommitSignup
<1>4. NewAccount(p) \in Account
  BY <1>1 DEF NewAccount, Account, SignupRequest, Ids, Invited
<1>5. /\ Live' = Live \cup {u} /\ account'[u] = NewAccount(p)
      /\ \A v \in Live : v # u => account'[v] = account[v]
  BY <1>2 DEF Live, Put
<1>6. /\ Live' \subseteq Users /\ \A v \in Live' : account'[v] \in Account
  BY <1>4, <1>5 DEF TypeOK
<1>7. released' \in [Handles -> Live' \cup {Never, Nobody}]
  BY <1>3, <1>5 DEF TypeOK
<1>8. invite' \in [Invites -> [hint: Emails \cup {AnyEmail}, by: Live' \cup {Open, Nobody}]]
  BY <1>2, <1>5 DEF TypeOK
<1>9. session' \subseteq [id: Ids, user: Live', password: Ids]
  BY <1>2, <1>5 DEF TypeOK, Ids
<1>10. /\ DOMAIN token' \subseteq Ids
       /\ \A t \in DOMAIN token' : token'[t] \in Token /\ token'[t].user \in Live'
  BY <1>3, <1>5 DEF TypeOK
<1>11. req' \in [Requests -> Request]
  <2>1. Issuing(u, Verification, r.email) \in IssueRequest
    BY <1>1 DEF Issuing, IssueRequest, SignupRequest, Purposes
  <2> QED
    BY <2>1, <1>2 DEF TypeOK, Request
<1>12. held' \in [Handles -> SUBSET Users]
  BY <1>2, <1>1 DEF TypeOK, SignupRequest
<1>13. inherited' \subseteq Users \X Users \X Handles
  BY <1>2, <1>1 DEF TypeOK, SignupRequest
<1>14. proven' \subseteq Users \X Emails
  BY <1>2, <1>1 DEF TypeOK, SignupRequest
<1>15. redeemed' \subseteq (Keys \X Requests)
  BY <1>2, <1>1 DEF TypeOK, SignupRequest, Invited, Keys
<1>16. crossed' \subseteq Keys
  BY <1>3 DEF TypeOK
<1>17. \A v, w \in Live' : v # w => /\ account'[v].email # account'[w].email
                                    /\ account'[v].handle # account'[w].handle
  <2>1. \A v \in Live : account[v].email # r.email /\ account[v].handle # r.handle
    BY NamesDistinct DEF CommitSignup, EmailTaken, HandleTaken, TypeOK
  <2>2. NewAccount(p).email = r.email /\ NewAccount(p).handle = r.handle
    BY DEF NewAccount
  <2> QED
    BY <1>5, <2>1, <2>2 DEF TypeOK
<1> QED
  BY <1>6, <1>7, <1>8, <1>9, <1>10, <1>11, <1>12, <1>13, <1>14, <1>15, <1>16, <1>17
  DEF TypeOK

LEMMA CommitChangeHandleTyped ==
  ASSUME TypeOK, NEW p \in Requests, CommitChangeHandle(p)
  PROVE  TypeOK'
<1> DEFINE r == req[p]
           u == r.user
<1>1. r \in HandleRequest /\ u \in Live
  BY RequestFacts DEF TypeOK, CommitChangeHandle
<1>2. /\ account' = [account EXCEPT ![u].handle = r.handle]
      /\ released' = [released EXCEPT ![r.old] = u]
      /\ held' = [held EXCEPT ![r.handle] = @ \cup {u}]
      /\ inherited' = inherited \cup ({u} \X r.before \X {r.handle})
      /\ UNCHANGED <<invite, session, token, proven, redeemed>>
  BY DEF CommitChangeHandle
<1>3. /\ Live' = Live /\ account'[u] = [account[u] EXCEPT !.handle = r.handle]
      /\ \A v \in Live : v # u => account'[v] = account[v]
  BY <1>1, <1>2 DEF Live
<1>4. account'[u] \in Account /\ account'[u].email = account[u].email
      /\ account'[u].handle = r.handle
  BY <1>1, <1>3 DEF TypeOK, Account, HandleRequest
<1>5. \A v \in Live' : account'[v] \in Account
  BY <1>3, <1>4 DEF TypeOK
<1>6. released' \in [Handles -> Live' \cup {Never, Nobody}]
  BY <1>1, <1>2, <1>3 DEF TypeOK
<1>7. held' \in [Handles -> SUBSET Users]
  BY <1>1, <1>2 DEF TypeOK, HandleRequest
<1>8. inherited' \subseteq Users \X Users \X Handles
  BY <1>1, <1>2 DEF TypeOK, HandleRequest
<1>9. req' \in [Requests -> Request] /\ crossed' \subseteq Keys
  BY EndTyped DEF CommitChangeHandle
<1>10. \A v, w \in Live' : v # w => /\ account'[v].email # account'[w].email
                                    /\ account'[v].handle # account'[w].handle
  <2>1. \A v \in Live : v # u => account[v].handle # r.handle
    BY DEF CommitChangeHandle, HandleTaken
  <2>2. \A v \in Live : /\ account'[v].email = account[v].email
                        /\ account'[v].handle =
                             IF v = u THEN r.handle ELSE account[v].handle
    BY <1>3, <1>4
  <2>3. \A v, w \in Live : v # w => /\ account[v].email # account[w].email
                                    /\ account[v].handle # account[w].handle
    BY DEF TypeOK
  <2> QED
    BY <1>3, <2>1, <2>2, <2>3
<1> QED
  BY <1>2, <1>3, <1>5, <1>6, <1>7, <1>8, <1>9, <1>10 DEF TypeOK

LEMMA CommitDeleteAccountTyped ==
  ASSUME TypeOK, NEW p \in Requests, CommitDeleteAccount(p)
  PROVE  TypeOK'
<1> DEFINE u == req[p].user
<1>1. /\ u \in Live
      /\ released' = ReleasedBy(u, req[p].old)
      /\ account' = Without(account, {u})
      /\ invite' = [i \in Invites |->
           IF invite[i].by = u THEN [invite[i] EXCEPT !.by = Nobody] ELSE invite[i]]
      /\ session' = {s \in session : s.user # u}
      /\ token' = Without(token, {t \in DOMAIN token : token[t].user = u})
      /\ UNCHANGED history
  BY DEF CommitDeleteAccount
<1>2. /\ Live' = Live \ {u}
      /\ \A v \in Live' : account'[v] = account[v]
  BY <1>1 DEF Live, Without
<1>3. released' \in [Handles -> Live' \cup {Never, Nobody}]
  BY <1>1, <1>2 DEF TypeOK, ReleasedBy
<1>4. invite' \in [Invites -> [hint: Emails \cup {AnyEmail}, by: Live' \cup {Open, Nobody}]]
  BY <1>1, <1>2 DEF TypeOK
<1>5. session' \subseteq [id: Ids, user: Live', password: Ids]
  BY <1>1, <1>2 DEF TypeOK
<1>6. /\ DOMAIN token' \subseteq Ids
      /\ \A t \in DOMAIN token' : token'[t] \in Token /\ token'[t].user \in Live'
  <2> DEFINE T == {t \in DOMAIN token : token[t].user = u}
  <2>1. /\ DOMAIN token' = DOMAIN token \ T
        /\ \A t \in DOMAIN token \ T : token'[t] = token[t]
    BY <1>1 DEF Without
  <2> QED
    BY <2>1, <1>2 DEF TypeOK
<1>7. req' \in [Requests -> Request] /\ crossed' \subseteq Keys
  BY EndTyped DEF CommitDeleteAccount
<1>8. /\ Live' \subseteq Users /\ \A v \in Live' : account'[v] \in Account
      /\ \A v, w \in Live' : v # w => /\ account'[v].email # account'[w].email
                                      /\ account'[v].handle # account'[w].handle
  BY <1>2 DEF TypeOK
<1> QED
  BY <1>1, <1>3, <1>4, <1>5, <1>6, <1>7, <1>8 DEF TypeOK, history

LEMMA CommitCredentialTyped ==
  ASSUME TypeOK, NEW p \in Requests, CommitLogin(p) \/ CommitChangePassword(p)
  PROVE  TypeOK'
<1> DEFINE u == req[p].user
<1>1. CASE CommitLogin(p)
  <2>1. req[p] \in LoginRequest /\ u \in Live
    BY <1>1, RequestFacts DEF TypeOK, CommitLogin
  <2>2. session' \subseteq [id: Ids, user: Live', password: Ids]
    BY <1>1, <2>1 DEF TypeOK, CommitLogin, LoginRequest, Ids, Live
  <2>3. req' \in [Requests -> Request] /\ crossed' \subseteq Keys
    BY <1>1, EndTyped DEF CommitLogin
  <2> QED
    BY <1>1, <2>2, <2>3 DEF TypeOK, CommitLogin, history, Live
<1>2. CASE CommitChangePassword(p)
  <2>1. /\ u \in Live
        /\ account' = [account EXCEPT ![u].password = p]
        /\ session' = {s \in session : s.user # u}
             \cup {[id |-> p, user |-> u, password |-> p]}
        /\ UNCHANGED <<released, invite, token, history>>
    BY <1>2 DEF CommitChangePassword
  <2>2. /\ Live' = Live /\ account'[u] = [account[u] EXCEPT !.password = p]
        /\ \A v \in Live : v # u => account'[v] = account[v]
    BY <2>1 DEF Live
  <2>3. account'[u] \in Account /\ account'[u].email = account[u].email
        /\ account'[u].handle = account[u].handle
    BY <2>1, <2>2 DEF TypeOK, Account, Ids
  <2>4. session' \subseteq [id: Ids, user: Live', password: Ids]
    BY <2>1, <2>2 DEF TypeOK, Ids
  <2>5. req' \in [Requests -> Request] /\ crossed' \subseteq Keys
    BY <1>2, EndTyped DEF CommitChangePassword
  <2>6. /\ Live' \subseteq Users /\ \A v \in Live' : account'[v] \in Account
        /\ \A v, w \in Live' : v # w => /\ account'[v].email # account'[w].email
                                        /\ account'[v].handle # account'[w].handle
    <3>1. \A v \in Live : /\ account'[v].email = account[v].email
                          /\ account'[v].handle = account[v].handle
      BY <2>2, <2>3
    <3>2. \A v, w \in Live : v # w => /\ account[v].email # account[w].email
                                      /\ account[v].handle # account[w].handle
      BY DEF TypeOK
    <3>3. \A v \in Live' : account'[v] \in Account
      BY <2>2, <2>3 DEF TypeOK
    <3> QED
      BY <2>2, <3>1, <3>2, <3>3 DEF TypeOK
  <2> QED
    BY <2>1, <2>2, <2>4, <2>5, <2>6 DEF TypeOK, history
<1> QED
  BY <1>1, <1>2

LEMMA CommitIssueTyped ==
  ASSUME TypeOK, NEW p \in Requests, CommitIssue(p)
  PROVE  TypeOK'
<1> DEFINE r == req[p]
           row == [user |-> r.user, purpose |-> r.purpose, email |-> r.email,
                   consumed |-> FALSE]
<1>1. r \in IssueRequest /\ r.user \in Live
  BY RequestFacts DEF TypeOK, CommitIssue
<1>2. token' = Put(token, p, row)
  BY DEF CommitIssue
<1>3. row \in Token /\ row.user \in Live
  BY <1>1 DEF Token, IssueRequest
<1>4. /\ DOMAIN token' = DOMAIN token \cup {p} /\ token'[p] = row
      /\ \A t \in DOMAIN token : t # p => token'[t] = token[t]
  BY <1>2 DEF Put
<1>5. /\ DOMAIN token' \subseteq Ids
      /\ \A t \in DOMAIN token' : token'[t] \in Token /\ token'[t].user \in Live
  BY <1>3, <1>4 DEF TypeOK, Ids
<1>6. req' \in [Requests -> Request] /\ crossed' \subseteq Keys
  BY EndTyped DEF CommitIssue
<1> QED
  BY <1>5, <1>6 DEF TypeOK, CommitIssue, history, Live

LEMMA CommitRedeemTyped ==
  ASSUME TypeOK, NEW p \in Requests, CommitRedeem(p)
  PROVE  TypeOK'
<1> DEFINE t == req[p].token
           u == token[t].user
<1>1. req[p] \in RedeemRequest /\ t \in DOMAIN token /\ u \in Live
  BY RequestFacts DEF TypeOK, CommitRedeem
<1>2. /\ token' = [token EXCEPT ![t].consumed = TRUE]
      /\ UNCHANGED <<released, invite, held, inherited>>
  BY DEF CommitRedeem
<1>3. /\ DOMAIN token' \subseteq Ids
      /\ \A x \in DOMAIN token' : token'[x] \in Token /\ token'[x].user \in Live
  <2>1. DOMAIN token' = DOMAIN token /\ token'[t] = [token[t] EXCEPT !.consumed = TRUE]
        /\ \A x \in DOMAIN token : x # t => token'[x] = token[x]
    BY <1>1, <1>2
  <2>2. token[t] \in Token
    BY <1>1 DEF TypeOK
  <2>3. token'[t] \in Token /\ token'[t].user = u
    BY <2>1, <2>2 DEF Token
  <2> QED
    BY <2>1, <2>3, <1>1 DEF TypeOK
<1>4. req' \in [Requests -> Request] /\ crossed' \subseteq Keys
  BY EndTyped DEF CommitRedeem
<1>5. CASE Barred(p)
  <2>1. UNCHANGED <<account, session, proven, redeemed>>
    BY <1>5 DEF CommitRedeem
  <2> QED
    BY <1>2, <1>3, <1>4, <2>1 DEF TypeOK, Live
<1>6. CASE ~Barred(p)
  <2>1. /\ account' = [account EXCEPT ![u] = Redeemed(p, t)]
        /\ session' = SessionsAfter(t)
        /\ proven' = proven \cup {<<u, token[t].email>>}
        /\ redeemed' = redeemed \cup {<<<<t, "token">>, p>>}
        /\ ~Conflict(t)
    BY <1>6 DEF CommitRedeem
  <2>2. /\ Live' = Live /\ account'[u] = Redeemed(p, t)
        /\ \A v \in Live : v # u => account'[v] = account[v]
    BY <1>1, <2>1 DEF Live
  <2>3. account[u] \in Account /\ token[t] \in Token /\ u \in Users /\ t \in Ids
        /\ req[p].verified \in BOOLEAN
    BY <1>1 DEF TypeOK, RedeemRequest
  <2>4. /\ Redeemed(p, t) \in Account
        /\ Redeemed(p, t).handle = account[u].handle
        /\ \/ Redeemed(p, t).email = account[u].email
           \/ /\ token[t].purpose = EmailChange
              /\ Redeemed(p, t).email = token[t].email
    <3>1. CASE token[t].purpose = Verification
      <4> DEFINE b == account[u].verified \/ ~req[p].verified
      <4>1. Redeemed(p, t) = [account[u] EXCEPT !.verified = b]
        BY <3>1 DEF Redeemed, Verification, Reset, EmailChange
      <4>2. b \in BOOLEAN
        OBVIOUS
      <4> HIDE DEF b
      <4> QED
        BY <4>1, <4>2, <2>3 DEF Account
    <3>2. CASE token[t].purpose = Reset
      <4>1. Redeemed(p, t) = [account[u] EXCEPT !.password = p]
        BY <3>2 DEF Redeemed, Verification, Reset, EmailChange
      <4> QED
        BY <4>1, <2>3 DEF Account, Ids
    <3>3. CASE token[t].purpose = EmailChange
      BY <2>3, <3>3 DEF Redeemed, Account, Token, Verification, Reset, EmailChange, Ids
    <3> QED
      BY <3>1, <3>2, <3>3, <2>3 DEF Token, Purposes
  <2>5. session' \subseteq [id: Ids, user: Live', password: Ids]
    BY <2>1, <2>2 DEF TypeOK, SessionsAfter
  <2>6. proven' \subseteq Users \X Emails
    BY <2>1, <2>3 DEF TypeOK, Token
  <2>7. redeemed' \subseteq (Keys \X Requests)
    BY <2>1, <2>3 DEF TypeOK, Keys
  <2>8. Live' \subseteq Users /\ \A v \in Live' : account'[v] \in Account
    BY <2>2, <2>4 DEF TypeOK
  <2>9. \A v, w \in Live' : v # w => /\ account'[v].email # account'[w].email
                                     /\ account'[v].handle # account'[w].handle
    <3>1. token[t].purpose = EmailChange =>
            \A v \in Live : v # u => account[v].email # token[t].email
      BY <2>1 DEF Conflict, EmailTaken
    <3> QED
      BY <2>2, <2>4, <3>1 DEF TypeOK
  <2> QED
    BY <1>2, <1>3, <1>4, <2>2, <2>5, <2>6, <2>7, <2>8, <2>9 DEF TypeOK
<1> QED
  BY <1>5, <1>6

LEMMA OtherTyped ==
  ASSUME TypeOK,
         \/ \E s \in session : Revoke(s) \/ RevokeOthers(s)
         \/ \E u \in Users : Disable(u) \/ Enable(u)
         \/ UNCHANGED vars
  PROVE  TypeOK'
<1>1. ASSUME NEW s \in session, Revoke(s) \/ RevokeOthers(s)
      PROVE  TypeOK'
  BY <1>1 DEF TypeOK, Revoke, RevokeOthers, history, Live
<1>2. ASSUME NEW u \in Users, Disable(u) \/ Enable(u)
      PROVE  TypeOK'
  <2>1. /\ u \in Live
        /\ \E b \in BOOLEAN : account' = [account EXCEPT ![u].disabled = b]
        /\ session' \subseteq session
        /\ UNCHANGED <<released, invite, token, req, history>>
    BY <1>2 DEF Disable, Enable
  <2>2. Live' = Live
    BY <2>1 DEF Live
  <2>3. \A v \in Live : /\ account'[v] \in Account
                        /\ account'[v].email = account[v].email
                        /\ account'[v].handle = account[v].handle
    BY <2>1 DEF TypeOK, Account, Live
  <2>4. crossed' \subseteq Keys
    BY <1>2 DEF TypeOK, Disable, Enable, Keys
  <2> QED
    BY <2>1, <2>2, <2>3, <2>4 DEF TypeOK, history
<1>3. CASE UNCHANGED vars
  BY <1>3 DEF TypeOK, vars, rows, history, Live
<1> QED
  BY <1>1, <1>2, <1>3

\* A step keeps the types.
LEMMA NextTyped ==
  ASSUME TypeOK, [Next]_vars
  PROVE  TypeOK'
<1>1. ASSUME NEW p \in Requests,
             \/ RefuseSignup(p) \/ RefuseChangeHandle(p) \/ RefuseDeleteAccount(p)
             \/ RefuseLogin(p) \/ RefuseChangePassword(p) \/ RefuseIssue(p)
             \/ RefuseRedeem(p)
      PROVE  TypeOK'
  BY <1>1, RefuseTyped DEF RefuseSignup, RefuseChangeHandle, RefuseDeleteAccount,
     RefuseLogin, RefuseChangePassword, RefuseIssue, RefuseRedeem
<1> QED
  BY <1>1, StartTyped, CommitSignupTyped, CommitChangeHandleTyped,
     CommitDeleteAccountTyped, CommitCredentialTyped, CommitIssueTyped,
     CommitRedeemTyped, OtherTyped DEF Next

\* The founders have addresses and handles of their own.
LEMMA FounderFacts ==
  /\ DOMAIN Founders \subseteq Users
  /\ \A u \in DOMAIN Founders : Founders[u].email \in Emails /\ Founders[u].handle \in Handles
  /\ \A u, v \in DOMAIN Founders : u # v => /\ Founders[u].email # Founders[v].email
                                            /\ Founders[u].handle # Founders[v].handle
<1>1. /\ DOMAIN Founders \subseteq Users
      /\ Founders \in [DOMAIN Founders -> [email: Emails, handle: Handles]]
  BY AccountsAssumption
<1>2. \A u, v \in DOMAIN Founders : u # v => /\ Founders[u].email # Founders[v].email
                                             /\ Founders[u].handle # Founders[v].handle
  BY AccountsAssumption, Zenon
<1>3. \A u \in DOMAIN Founders : Founders[u] \in [email: Emails, handle: Handles]
  BY <1>1
<1> QED
  BY <1>1, <1>2, <1>3

LEMMA InitTyped ==
  ASSUME Init
  PROVE  TypeOK
<1>1. /\ Live = DOMAIN Founders
      /\ account = [u \in DOMAIN Founders |->
           [email |-> Founders[u].email, handle |-> Founders[u].handle,
            password |-> First, verified |-> FALSE, disabled |-> FALSE]]
  BY DEF Init, Live
<1>2. \A u \in Live : /\ u \in Users /\ account[u] \in Account
                      /\ account[u].email = Founders[u].email
                      /\ account[u].handle = Founders[u].handle
  <2> SUFFICES ASSUME NEW u \in Live
               PROVE  /\ u \in Users /\ account[u] \in Account
                      /\ account[u].email = Founders[u].email
                      /\ account[u].handle = Founders[u].handle
    OBVIOUS
  <2> DEFINE e == Founders[u].email
             h == Founders[u].handle
  <2>1. u \in DOMAIN Founders
    BY <1>1
  <2>2. account[u] = [email |-> e, handle |-> h, password |-> First,
                      verified |-> FALSE, disabled |-> FALSE]
    BY <1>1, <2>1
  <2>3. e \in Emails /\ h \in Handles /\ u \in Users
    BY <2>1, FounderFacts
  <2> HIDE DEF e, h
  <2>4. account[u] \in Account /\ account[u].email = e /\ account[u].handle = h
    BY <2>2, <2>3 DEF Account, Ids
  <2> QED
    BY <2>3, <2>4 DEF e, h
<1>3. released \in [Handles -> Live \cup {Never, Nobody}]
  BY DEF Init
<1>4. invite \in [Invites -> [hint: Emails \cup {AnyEmail}, by: Live \cup {Open, Nobody}]]
  BY AccountsAssumption DEF Init
<1>5. session \subseteq [id: Ids, user: Live, password: Ids]
  BY DEF Init, Ids
<1>6. /\ DOMAIN token \subseteq Ids
      /\ \A t \in DOMAIN token : token[t] \in Token /\ token[t].user \in Live
  BY DEF Init, Ids
<1>7. req \in [Requests -> Request]
  BY DEF Init, Request
<1>8. held \in [Handles -> SUBSET Users]
  BY <1>2 DEF Init
<1>9. \A u, v \in Live : u # v => /\ account[u].email # account[v].email
                                  /\ account[u].handle # account[v].handle
  BY <1>1, <1>2, FounderFacts, Zenon
<1>10. inherited = {} /\ proven = {} /\ redeemed = {} /\ crossed = {}
  BY DEF Init
<1> QED
  BY <1>2, <1>3, <1>4, <1>5, <1>6, <1>7, <1>8, <1>9, <1>10 DEF TypeOK

\* The state stays well typed, and no row names an account that is gone.
THEOREM Typed == Spec => []TypeOK
<1>1. Init => TypeOK
  BY InitTyped
<1>2. TypeOK /\ [Next]_vars => TypeOK'
  BY NextTyped
<1> QED
  BY <1>1, <1>2, PTL DEF Spec

-----------------------------------------------------------------------------
(* Handles.                                                                *)

\* What a request has read since it began is crossed when another begins.
LEMMA BeginOverlap ==
  ASSUME TypeOK, Overlap, NEW p \in Requests, NEW r, Begin(p, r)
  PROVE  Overlap'
<1> SUFFICES ASSUME NEW a \in Requests, NEW b \in Requests, a # b,
                    NEW k \in req'[a].keys, k \in req'[b].keys
             PROVE  k \in crossed'
  BY DEF Overlap
<1>1. /\ req'[p] = r /\ \A q \in Requests : q # p => req'[q] = req[q]
      /\ crossed' = crossed \cup (r.keys \cap UNION {req[q].keys : q \in InFlight})
  BY DEF Begin, TypeOK
<1>2. \A q \in Requests : k \in req[q].keys => q \in InFlight
  <2> SUFFICES ASSUME NEW q \in Requests, req[q].op \in {"idle", "done"}
               PROVE  req[q].keys = {}
    BY DEF InFlight
  <2>1. req[q] \in {Idle, Done}
    BY DEF TypeOK, Request, SignupRequest, HandleRequest, DeleteRequest, LoginRequest,
           PasswordRequest, IssueRequest, RedeemRequest
  <2> QED
    BY <2>1 DEF Idle, Done
<1> QED
  BY <1>1, <1>2 DEF Overlap

\* A request that ends, or goes on to a mail, has nothing read any more.
LEMMA EndOverlap ==
  ASSUME TypeOK, Overlap, NEW p \in Requests, NEW r, r.keys = {},
         req' = [req EXCEPT ![p] = r], UNCHANGED crossed
  PROVE  Overlap'
BY DEF TypeOK, Overlap

LEMMA BeforeKept ==
  ASSUME BeforeCrossed, crossed \subseteq crossed',
         \A p \in Requests : req'[p] = req[p] \/ req'[p].op \notin {"signup", "handle"}
  PROVE  BeforeCrossed'
BY DEF BeforeCrossed

\* Only a step that signs up, changes a handle or deletes can hurt.
LEMMA QuietStep ==
  ASSUME TypeOK, HandleInv, UNCHANGED <<released, held, inherited>>,
         Live' = Live, \A u \in Live : account'[u].handle = account[u].handle,
         crossed \subseteq crossed', Overlap',
         \A p \in Requests : \/ req'[p] = req[p]
                             \/ req'[p].op \notin {"signup", "handle", "delete"}
  PROVE  HandleInv'
<1>1. HeldNow'
  BY DEF HandleInv, HeldNow
<1>2. ReleasedHeld'
  BY DEF HandleInv, ReleasedHeld
<1>3. OldHandle'
  BY DEF HandleInv, OldHandle
<1>4. BeforeCrossed'
  BY DEF HandleInv, BeforeCrossed
<1>5. HandlesAccounted'
  BY DEF HandleInv, HandlesAccounted
<1>6. NoInheritance'
  BY DEF HandleInv, NoInheritance
<1> QED
  BY <1>1, <1>2, <1>3, <1>4, <1>5, <1>6 DEF HandleInv

\* A request that neither takes nor releases a handle begins.
LEMMA QuietBegin ==
  ASSUME TypeOK, HandleInv, NEW p \in Requests, NEW r,
         r.op \notin {"signup", "handle", "delete"}, Begin(p, r)
  PROVE  HandleInv'
<1>1. Overlap'
  BY BeginOverlap DEF HandleInv
<1>2. \A q \in Requests : req'[q] = req[q] \/ req'[q].op \notin {"signup", "handle", "delete"}
  BY DEF Begin, TypeOK
<1>3. UNCHANGED <<account, released, held, inherited>> /\ crossed \subseteq crossed'
  BY DEF Begin, rows, history
<1> QED
  BY <1>1, <1>2, <1>3, QuietStep DEF Live

\* A request that neither takes nor releases a handle ends.
LEMMA QuietEnd ==
  ASSUME TypeOK, HandleInv, NEW p \in Requests, End(p),
         UNCHANGED <<released, held, inherited>>,
         Live' = Live, \A u \in Live : account'[u].handle = account[u].handle
  PROVE  HandleInv'
<1>1. Overlap'
  BY EndOverlap DEF HandleInv, End, Done
<1>2. \A q \in Requests : req'[q] = req[q] \/ req'[q].op \notin {"signup", "handle", "delete"}
  BY DEF End, Done, TypeOK
<1>3. crossed \subseteq crossed'
  BY DEF End
<1> QED
  BY <1>1, <1>2, <1>3, QuietStep

\* A request that takes or releases a handle begins, having read the truth.
LEMMA HandleBegin ==
  ASSUME TypeOK, HandleInv, NEW p \in Requests, NEW r, Begin(p, r),
         r.op \in {"handle", "delete"} =>
           /\ r.user \in Live /\ r.old = account[r.user].handle
           /\ <<r.user, "handle">> \in r.keys,
         r.op \in {"signup", "handle"} => \A v \in r.before : <<v, "handle">> \in crossed
  PROVE  HandleInv'
<1>1. /\ req'[p] = r /\ \A q \in Requests : q # p => req'[q] = req[q]
      /\ UNCHANGED <<account, released, held, inherited>> /\ crossed \subseteq crossed'
      /\ Live' = Live
  BY DEF Begin, TypeOK, rows, history, Live
<1>2. Overlap'
  BY BeginOverlap DEF HandleInv
<1>3. HeldNow' /\ ReleasedHeld'
  BY <1>1 DEF HandleInv, HeldNow, ReleasedHeld
<1>4. OldHandle'
  <2> SUFFICES ASSUME NEW q \in Requests, req'[q].op \in {"handle", "delete"}
               PROVE  /\ req'[q].user \in held'[req'[q].old]
                      /\ <<req'[q].user, "handle">> \in req'[q].keys
                      /\ req'[q].user \in Live' /\ account'[req'[q].user].handle # req'[q].old
                           => <<req'[q].user, "handle">> \in crossed'
    BY DEF OldHandle
  <2>1. CASE q = p
    BY <1>1, <2>1 DEF HandleInv, HeldNow
  <2>2. CASE q # p
    BY <1>1, <2>2 DEF HandleInv, OldHandle
  <2> QED
    BY <2>1, <2>2
<1>5. BeforeCrossed'
  BY <1>1 DEF HandleInv, BeforeCrossed
<1>6. HandlesAccounted' /\ NoInheritance'
  BY <1>1 DEF HandleInv, HandlesAccounted, NoInheritance
<1> QED
  BY <1>2, <1>3, <1>4, <1>5, <1>6 DEF HandleInv

LEMMA StartHandles ==
  ASSUME TypeOK, HandleInv, NEW p \in Requests, Start(p)
  PROVE  HandleInv'
<1>1. ASSUME NEW e \in Emails, NEW h \in Handles, NEW i \in Invites \cup {NoInvite},
             StartSignup(p, e, h, i)
      PROVE  HandleInv'
  <2> DEFINE r == [op |-> "signup", user |-> NoUser, email |-> e, handle |-> h,
                   invite |-> i, before |-> held[h], keys |-> {<<i, "invite">>} \cap Keys]
  <2>1. Begin(p, r) /\ Claimable(h, NoUser)
    BY <1>1 DEF StartSignup
  <2>2. released[h] = Never
    BY <2>1, NamesDistinct DEF TypeOK, Claimable
  <2>3. \A v \in held[h] : <<v, "handle">> \in crossed
    BY <2>1, <2>2, NamesDistinct DEF HandleInv, HandlesAccounted, Claimable, TypeOK
  <2> QED
    BY <2>1, <2>3, HandleBegin
<1>2. ASSUME NEW u \in Users, NEW h \in Handles, StartChangeHandle(p, u, h)
      PROVE  HandleInv'
  <2> DEFINE r == [op |-> "handle", user |-> u, old |-> account[u].handle,
                   handle |-> h, before |-> Before(h, u), keys |-> {<<u, "handle">>}]
  <2>1. Begin(p, r) /\ Claimable(h, u) /\ u \in Live
    BY <1>2 DEF StartChangeHandle, SignedIn
  <2>2. \A v \in Before(h, u) : <<v, "handle">> \in crossed
    <3>1. CASE u \in held[h]
      BY <3>1 DEF Before
    <3>2. CASE u \notin held[h]
      <4>1. released[h] = Never
        BY <2>1, <3>2 DEF HandleInv, ReleasedHeld, Claimable
      <4> QED
        BY <2>1, <3>2, <4>1 DEF HandleInv, HandlesAccounted, Claimable, Before
    <3> QED
      BY <3>1, <3>2
  <2> QED
    BY <2>1, <2>2, HandleBegin
<1>3. ASSUME NEW u \in Users, StartDeleteAccount(p, u)
      PROVE  HandleInv'
  <2> DEFINE r == [op |-> "delete", user |-> u, old |-> account[u].handle,
                   keys |-> {<<u, "handle">>}]
  <2>1. Begin(p, r) /\ u \in Live
    BY <1>3 DEF StartDeleteAccount, SignedIn
  <2> QED
    BY <2>1, HandleBegin
<1>4. ASSUME NEW u \in Users, StartLogin(p, u) \/ StartChangePassword(p, u)
      PROVE  HandleInv'
  BY <1>4, QuietBegin DEF StartLogin, StartChangePassword
<1>5. ASSUME NEW u \in Users, NEW f \in Purposes, NEW e \in Emails,
             StartIssue(p, u, f, e)
      PROVE  HandleInv'
  BY <1>5, QuietBegin DEF StartIssue, Issuing
<1>6. ASSUME NEW t \in Ids, StartRedeem(p, t)
      PROVE  HandleInv'
  <2> DEFINE u == token[t].user
             r == [op |-> "redeem", user |-> u, token |-> t,
                   disabled |-> account[u].disabled, verified |-> account[u].verified,
                   keys |-> {<<t, "token">>} \cup
                     (IF token[t].purpose = Reset THEN {<<u, "credential">>} ELSE {})]
  <2>1. Begin(p, r)
    BY <1>6 DEF StartRedeem
  <2> QED
    BY <2>1, QuietBegin
<1> QED
  BY <1>1, <1>2, <1>3, <1>4, <1>5, <1>6 DEF Start

LEMMA CommitSignupHandles ==
  ASSUME TypeOK, HandleInv, NEW p \in Requests, CommitSignup(p)
  PROVE  HandleInv'
<1> DEFINE r == req[p]
<1>1. r \in SignupRequest /\ r.op = "signup"
  BY RequestFacts DEF TypeOK, CommitSignup
<1>2. PICK u \in Users \ UNION {held[h] : h \in Handles} :
        /\ account' = Put(account, u, NewAccount(p))
        /\ held' = [held EXCEPT ![r.handle] = @ \cup {u}]
        /\ inherited' = inherited \cup ({u} \X r.before \X {r.handle})
        /\ req' = [req EXCEPT ![p] = Issuing(u, Verification, r.email)]
  BY DEF CommitSignup
<1>3. UNCHANGED <<released, crossed>>
  BY DEF CommitSignup
<1>4. /\ Live' = Live \cup {u} /\ account'[u].handle = r.handle
      /\ \A v \in Live : v # u => account'[v] = account[v]
  BY <1>2 DEF Live, Put, NewAccount
<1>5. \A h \in Handles : u \notin held[h]
  BY <1>2
<1>6. u \notin Live
  BY <1>5 DEF HandleInv, HeldNow, TypeOK, Account
<1>7. r.handle \in Handles
  BY <1>1 DEF SignupRequest
<1>8. \A h \in Handles : held'[h] = IF h = r.handle THEN held[h] \cup {u} ELSE held[h]
  BY <1>2 DEF TypeOK
<1>9. \A q \in Requests : q # p => req'[q] = req[q]
  BY <1>2 DEF TypeOK
<1>10. req'[p].op = "issue"
  BY <1>2 DEF TypeOK, Issuing
<1>11. HeldNow'
  <2>1. \A v \in Live : account[v].handle \in Handles
    BY DEF TypeOK, Account
  <2> QED
    BY <1>4, <1>6, <1>7, <1>8, <2>1 DEF HandleInv, HeldNow
<1>12. ReleasedHeld'
  BY <1>3, <1>8 DEF HandleInv, ReleasedHeld
<1>13. Overlap'
  BY <1>2, <1>3, EndOverlap DEF HandleInv, Issuing
<1>14. OldHandle'
  <2> SUFFICES ASSUME NEW q \in Requests, req'[q].op \in {"handle", "delete"}
               PROVE  /\ req'[q].user \in held'[req'[q].old]
                      /\ <<req'[q].user, "handle">> \in req'[q].keys
                      /\ req'[q].user \in Live' /\ account'[req'[q].user].handle # req'[q].old
                           => <<req'[q].user, "handle">> \in crossed'
    BY DEF OldHandle
  <2>1. q # p /\ req'[q] = req[q]
    BY <1>9, <1>10
  <2>2. req[q].old \in Handles
    BY <2>1, RequestFacts DEF TypeOK, HandleRequest, DeleteRequest
  <2>3. req[q].user # u
    BY <2>1, <2>2, <1>5 DEF HandleInv, OldHandle
  <2> QED
    BY <2>1, <2>2, <2>3, <1>3, <1>4, <1>8 DEF HandleInv, OldHandle
<1>15. BeforeCrossed'
  <2>1. \A q \in Requests : req'[q] = req[q] \/ req'[q].op \notin {"signup", "handle"}
    BY <1>9, <1>10
  <2> QED
    BY <2>1, <1>3, BeforeKept DEF HandleInv
<1>16. HandlesAccounted'
  <2> SUFFICES ASSUME NEW h \in Handles, released'[h] = Never, NEW v \in held'[h]
               PROVE  \/ v \in Live' /\ account'[v].handle = h
                      \/ <<v, "handle">> \in crossed'
    BY DEF HandlesAccounted
  <2>1. CASE v \in held[h]
    <3>1. (v \in Live /\ account[v].handle = h) \/ <<v, "handle">> \in crossed
      BY <2>1, <1>3 DEF HandleInv, HandlesAccounted
    <3> QED
      BY <3>1, <1>3, <1>4, <1>6
  <2>2. CASE v \notin held[h]
    <3>1. h = r.handle /\ v = u
      <4>1. CASE h = r.handle
        <5>1. held'[h] = held[h] \cup {u}
          BY <4>1, <1>8
        <5> QED
          BY <5>1, <2>2, <4>1
      <4>2. CASE h # r.handle
        <5>1. held'[h] = held[h]
          BY <4>2, <1>8
        <5> QED
          BY <5>1, <2>2
      <4> QED
        BY <4>1, <4>2
    <3> QED
      BY <3>1, <1>4
  <2> QED
    BY <2>1, <2>2
<1>17. NoInheritance'
  BY <1>1, <1>2, <1>3 DEF HandleInv, NoInheritance, BeforeCrossed
<1> QED
  BY <1>11, <1>12, <1>13, <1>14, <1>15, <1>16, <1>17 DEF HandleInv

LEMMA CommitChangeHandleHandles ==
  ASSUME TypeOK, HandleInv, NEW p \in Requests, CommitChangeHandle(p)
  PROVE  HandleInv'
<1> DEFINE r == req[p]
           u == r.user
<1>1. r \in HandleRequest /\ u \in Live /\ r.op = "handle"
  BY RequestFacts DEF TypeOK, CommitChangeHandle
<1>2. /\ account' = [account EXCEPT ![u].handle = r.handle]
      /\ released' = [released EXCEPT ![r.old] = u]
      /\ held' = [held EXCEPT ![r.handle] = @ \cup {u}]
      /\ inherited' = inherited \cup ({u} \X r.before \X {r.handle})
      /\ End(p)
  BY DEF CommitChangeHandle
<1>3. r.handle \in Handles /\ r.old \in Handles /\ u \in Users
  BY <1>1 DEF HandleRequest
<1>4. /\ Live' = Live
      /\ account'[u].handle = r.handle
      /\ \A v \in Live : v # u => account'[v] = account[v]
  <2>1. account[u] \in Account
    BY <1>1 DEF TypeOK
  <2> QED
    BY <2>1, <1>1, <1>2 DEF Live, Account
<1>5. \A h \in Handles :
        /\ released'[h] = IF h = r.old THEN u ELSE released[h]
        /\ held'[h] = IF h = r.handle THEN held[h] \cup {u} ELSE held[h]
  BY <1>2, <1>3 DEF TypeOK
<1>6. /\ \A q \in Requests : q # p => req'[q] = req[q]
      /\ req'[p] = Done /\ crossed' = crossed
  BY <1>2 DEF TypeOK, End
<1>7. /\ u \in held[r.old] /\ <<u, "handle">> \in r.keys
      /\ account[u].handle # r.old => <<u, "handle">> \in crossed
  BY <1>1 DEF HandleInv, OldHandle
<1>8. HeldNow'
  <2>1. \A v \in Live : account[v].handle \in Handles
    BY DEF TypeOK, Account
  <2> QED
    BY <1>3, <1>4, <1>5, <2>1 DEF HandleInv, HeldNow
<1>9. ReleasedHeld'
  BY <1>5, <1>7 DEF HandleInv, ReleasedHeld
<1>10. Overlap'
  BY <1>2, EndOverlap DEF HandleInv, End, Done
<1>11. OldHandle'
  <2> SUFFICES ASSUME NEW q \in Requests, req'[q].op \in {"handle", "delete"}
               PROVE  /\ req'[q].user \in held'[req'[q].old]
                      /\ <<req'[q].user, "handle">> \in req'[q].keys
                      /\ req'[q].user \in Live' /\ account'[req'[q].user].handle # req'[q].old
                           => <<req'[q].user, "handle">> \in crossed'
    BY DEF OldHandle
  <2>1. q # p /\ req'[q] = req[q]
    BY <1>6 DEF Done
  <2>2. req[q].old \in Handles
    BY <2>1, RequestFacts DEF TypeOK, HandleRequest, DeleteRequest
  <2>3. req[q].user = u => <<u, "handle">> \in crossed
    BY <2>1, <1>7 DEF HandleInv, OldHandle, Overlap
  <2>4. /\ req[q].user \in held[req[q].old] /\ <<req[q].user, "handle">> \in req[q].keys
        /\ req[q].user \in Live /\ account[req[q].user].handle # req[q].old
             => <<req[q].user, "handle">> \in crossed
    BY <2>1 DEF HandleInv, OldHandle
  <2>5. held[req[q].old] \subseteq held'[req[q].old]
    BY <2>2, <1>5
  <2>6. CASE req[q].user = u
    BY <2>1, <2>3, <2>4, <2>5, <2>6, <1>6
  <2>7. CASE req[q].user # u
    BY <2>1, <2>4, <2>5, <2>7, <1>4, <1>6
  <2> QED
    BY <2>6, <2>7
<1>12. BeforeCrossed'
  <2>1. \A q \in Requests : req'[q] = req[q] \/ req'[q].op \notin {"signup", "handle"}
    BY <1>6 DEF Done
  <2> QED
    BY <2>1, <1>6, BeforeKept DEF HandleInv
<1>13. HandlesAccounted'
  <2> SUFFICES ASSUME NEW h \in Handles, released'[h] = Never, NEW v \in held'[h]
               PROVE  \/ v \in Live' /\ account'[v].handle = h
                      \/ <<v, "handle">> \in crossed'
    BY DEF HandlesAccounted
  <2>1. h # r.old /\ released[h] = Never
    BY <1>3, <1>5, NamesDistinct
  <2>2. CASE v \in held[h]
    <3>1. (v \in Live /\ account[v].handle = h) \/ <<v, "handle">> \in crossed
      BY <2>1, <2>2 DEF HandleInv, HandlesAccounted
    <3> QED
      BY <3>1, <2>1, <1>4, <1>6, <1>7
  <2>3. CASE v \notin held[h]
    <3>1. h = r.handle /\ v = u
      BY <2>3, <1>5
    <3> QED
      BY <3>1, <1>1, <1>4
  <2> QED
    BY <2>2, <2>3
<1>14. NoInheritance'
  BY <1>1, <1>2, <1>6 DEF HandleInv, NoInheritance, BeforeCrossed
<1> QED
  BY <1>8, <1>9, <1>10, <1>11, <1>12, <1>13, <1>14 DEF HandleInv

LEMMA CommitDeleteAccountHandles ==
  ASSUME TypeOK, HandleInv, NEW p \in Requests, CommitDeleteAccount(p)
  PROVE  HandleInv'
<1> DEFINE r == req[p]
           u == r.user
<1>1. r \in DeleteRequest /\ u \in Live /\ r.op = "delete"
  BY RequestFacts DEF TypeOK, CommitDeleteAccount
<1>2. /\ released' = ReleasedBy(u, r.old)
      /\ account' = Without(account, {u})
      /\ End(p)
      /\ UNCHANGED history
  BY DEF CommitDeleteAccount
<1>3. /\ Live' = Live \ {u}
      /\ \A v \in Live' : account'[v] = account[v]
  BY <1>2 DEF Live, Without
<1>4. \A h \in Handles :
        released'[h] = IF h = r.old \/ released[h] = u THEN Nobody ELSE released[h]
  BY <1>2 DEF ReleasedBy
<1>5. /\ \A q \in Requests : q # p => req'[q] = req[q]
      /\ req'[p] = Done /\ crossed' = crossed
      /\ held' = held /\ inherited' = inherited
  BY <1>2 DEF TypeOK, End, history
<1>6. account[u].handle # r.old => <<u, "handle">> \in crossed
  BY <1>1 DEF HandleInv, OldHandle
<1>7. HeldNow'
  BY <1>3, <1>5 DEF HandleInv, HeldNow
<1>8. ReleasedHeld'
  BY <1>4, <1>5, NamesDistinct DEF HandleInv, ReleasedHeld
<1>9. Overlap'
  BY <1>2, EndOverlap DEF HandleInv, End, Done
<1>10. OldHandle'
  BY <1>3, <1>5 DEF HandleInv, OldHandle, Done
<1>11. BeforeCrossed'
  <2>1. \A q \in Requests : req'[q] = req[q] \/ req'[q].op \notin {"signup", "handle"}
    BY <1>5 DEF Done
  <2> QED
    BY <2>1, <1>5, BeforeKept DEF HandleInv
<1>12. HandlesAccounted'
  <2> SUFFICES ASSUME NEW h \in Handles, released'[h] = Never, NEW v \in held[h]
               PROVE  \/ v \in Live' /\ account'[v].handle = h
                      \/ <<v, "handle">> \in crossed
    BY <1>5 DEF HandlesAccounted
  <2>1. h # r.old /\ released[h] = Never
    BY <1>4, NamesDistinct
  <2>2. (v \in Live /\ account[v].handle = h) \/ <<v, "handle">> \in crossed
    BY <2>1 DEF HandleInv, HandlesAccounted
  <2> QED
    BY <2>1, <2>2, <1>3, <1>6
<1>13. NoInheritance'
  BY <1>5 DEF HandleInv, NoInheritance
<1> QED
  BY <1>7, <1>8, <1>9, <1>10, <1>11, <1>12, <1>13 DEF HandleInv

LEMMA NextHandles ==
  ASSUME TypeOK, HandleInv, [Next]_vars
  PROVE  HandleInv'
<1>1. ASSUME NEW p \in Requests,
             \/ RefuseSignup(p) \/ RefuseChangeHandle(p) \/ RefuseDeleteAccount(p)
             \/ RefuseLogin(p) \/ RefuseChangePassword(p) \/ RefuseIssue(p)
             \/ RefuseRedeem(p)
      PROVE  HandleInv'
  <2>1. End(p) /\ UNCHANGED <<rows, history>>
    BY <1>1 DEF RefuseSignup, RefuseChangeHandle, RefuseDeleteAccount, RefuseLogin,
       RefuseChangePassword, RefuseIssue, RefuseRedeem, Refuse
  <2> QED
    BY <2>1, QuietEnd DEF rows, history, Live
<1>2. ASSUME NEW p \in Requests, CommitLogin(p) \/ CommitIssue(p)
      PROVE  HandleInv'
  BY <1>2, QuietEnd DEF CommitLogin, CommitIssue, history, Live
<1>3. ASSUME NEW p \in Requests, CommitChangePassword(p)
      PROVE  HandleInv'
  <2> DEFINE u == req[p].user
  <2>1. /\ u \in Live /\ account' = [account EXCEPT ![u].password = p]
        /\ End(p) /\ UNCHANGED <<released, held, inherited>>
    BY <1>3 DEF CommitChangePassword, history
  <2>2. account[u] \in Account
    BY <2>1 DEF TypeOK
  <2>3. Live' = Live /\ \A v \in Live : account'[v].handle = account[v].handle
    BY <2>1, <2>2 DEF Live, Account
  <2> QED
    BY <2>1, <2>3, QuietEnd
<1>4. ASSUME NEW p \in Requests, CommitRedeem(p)
      PROVE  HandleInv'
  <2> DEFINE t == req[p].token
             u == token[t].user
  <2>1. End(p) /\ UNCHANGED <<released, held, inherited>> /\ t \in DOMAIN token
    BY <1>4 DEF CommitRedeem
  <2>2. account[u] \in Account /\ u \in Live /\ token[t].purpose \in Purposes
    BY <2>1 DEF TypeOK, Token
  <2>3. account' = account \/ account' = [account EXCEPT ![u] = Redeemed(p, t)]
    BY <1>4 DEF CommitRedeem
  <2>4. Redeemed(p, t).handle = account[u].handle
    <3>1. CASE token[t].purpose = Verification
      BY <3>1, <2>2 DEF Redeemed, Verification, Reset, EmailChange, Account
    <3>2. CASE token[t].purpose = Reset
      BY <3>2, <2>2 DEF Redeemed, Verification, Reset, EmailChange, Account
    <3>3. CASE token[t].purpose = EmailChange
      BY <3>3, <2>2 DEF Redeemed, Verification, Reset, EmailChange, Account
    <3> QED
      BY <3>1, <3>2, <3>3, <2>2 DEF Purposes
  <2>5. Live' = Live /\ \A v \in Live : account'[v].handle = account[v].handle
    BY <2>2, <2>3, <2>4 DEF Live
  <2> QED
    BY <2>1, <2>5, QuietEnd
<1>5. ASSUME \/ \E s \in session : Revoke(s) \/ RevokeOthers(s)
             \/ \E u \in Users : Disable(u) \/ Enable(u)
             \/ UNCHANGED vars
      PROVE  HandleInv'
  <2>1. /\ UNCHANGED <<released, held, inherited, req>> /\ crossed \subseteq crossed'
        /\ \/ account' = account
           \/ \E u \in Live, b \in BOOLEAN : account' = [account EXCEPT ![u].disabled = b]
    BY <1>5 DEF Revoke, RevokeOthers, Disable, Enable, vars, rows, history
  <2>2. Live' = Live /\ \A v \in Live : account'[v].handle = account[v].handle
    BY <2>1 DEF TypeOK, Account, Live
  <2>3. Overlap'
    BY <2>1 DEF HandleInv, Overlap
  <2> QED
    BY <2>1, <2>2, <2>3, QuietStep
<1> QED
  BY <1>1, <1>2, <1>3, <1>4, <1>5, StartHandles, CommitSignupHandles,
     CommitChangeHandleHandles, CommitDeleteAccountHandles DEF Next

LEMMA InitHandles ==
  ASSUME Init
  PROVE  HandleInv
<1>1. HeldNow
  <2>1. \A u \in Live : account[u].handle \in Handles
    BY InitTyped DEF TypeOK, Account
  <2> QED
    BY <2>1 DEF Init, HeldNow
<1>2. \A h \in Handles : released[h] = Never
  BY DEF Init
<1>3. ReleasedHeld
  BY <1>2, NamesDistinct DEF ReleasedHeld
<1>4. \A p \in Requests : req[p].op = "idle" /\ req[p].keys = {}
  BY DEF Init, Idle
<1>5. Overlap /\ OldHandle /\ BeforeCrossed
  BY <1>4 DEF Overlap, OldHandle, BeforeCrossed
<1>6. HandlesAccounted
  BY DEF Init, HandlesAccounted
<1>7. NoInheritance
  BY DEF Init, NoInheritance
<1> QED
  BY <1>1, <1>3, <1>5, <1>6, <1>7 DEF HandleInv

\* What the requests in flight have read stays true, or they overlapped.
THEOREM HandleInvariant == Spec => []HandleInv
<1>1. Init => HandleInv
  BY InitHandles
<1>2. TypeOK /\ HandleInv /\ [Next]_vars => HandleInv'
  BY NextHandles
<1> QED
  BY <1>1, <1>2, Typed, PTL DEF Spec

\* No handle is given up without a row that says so, whatever signups,
\* changes and deletions overlap, unless the account's own changes did.
THEOREM HandlesNeverLost == Spec => []HandlesAccounted
<1>1. HandleInv => HandlesAccounted
  BY DEF HandleInv
<1> QED
  BY <1>1, HandleInvariant, PTL

\* A handle that passes the check of ensure_claimable comes from nobody, and
\* it still does when the request that checked it commits.
THEOREM NeverInherited == Spec => []NoInheritance
<1>1. HandleInv => NoInheritance
  BY DEF HandleInv
<1> QED
  BY <1>1, HandleInvariant, PTL

-----------------------------------------------------------------------------
(* What a request in flight knows.                                         *)

\* What a request has read, and shown, when it starts.
Fresh(r) ==
    /\ r.op \notin {"idle", "done"}
    /\ r.user \in Users => r.user \in Live
    /\ r.op = "signup" => /\ r.keys = {<<r.invite, "invite">>} \cap Keys
                          /\ r.invite # NoInvite => invite[r.invite].by = Open
    /\ r.op \in {"handle", "delete"} => r.keys = {<<r.user, "handle">>}
    /\ r.op \in {"login", "password"} =>
         /\ r.keys = {<<r.user, "credential">>}
         /\ r.user \in Live /\ ~account[r.user].disabled
    /\ r.op = "login" => r.password = account[r.user].password
    /\ r.op = "issue" => /\ r.keys = {}
                         /\ r.purpose = Verification => r.email = account[r.user].email
    /\ r.op = "redeem" =>
         /\ r.token \in DOMAIN token /\ ~token[r.token].consumed
         /\ r.user = token[r.token].user
         /\ r.keys = {<<r.token, "token">>} \cup
              (IF token[r.token].purpose = Reset THEN {<<r.user, "credential">>} ELSE {})

\* The account a request is for has lived, so no signup is given its id.
Known ==
    \A p \in Requests : req[p].user \in Users => \E h \in Handles : req[p].user \in held[h]

\* A request that will use up an invite or a token has read it, and so has
\* one that will change a password.
Shown ==
    \A p \in Requests : LET r == req[p] IN
        /\ r.op = "signup" /\ r.invite # NoInvite => <<r.invite, "invite">> \in r.keys
        /\ r.op \in {"login", "password"} => <<r.user, "credential">> \in r.keys
        /\ r.op = "redeem" =>
             /\ <<r.token, "token">> \in r.keys
             /\ r.token \in DOMAIN token /\ token[r.token].purpose = Reset =>
                  <<token[r.token].user, "credential">> \in r.keys

\* A token is the work of a request that is done, so no other takes its name.
Issued ==
    \A t \in Requests :
        \/ t \in DOMAIN token
        \/ \E q \in Requests : \/ <<<<t, "token">>, q>> \in redeemed
                               \/ req[q].op = "redeem" /\ req[q].token = t
        => req[t].op = "done"

FlightInv == Known /\ Shown /\ Issued

LEMMA StartFacts ==
  ASSUME TypeOK, NEW p \in Requests, Start(p)
  PROVE  /\ Begin(p, req'[p]) /\ Fresh(req'[p]) /\ req'[p] \in Request
         /\ req[p].op = "idle" /\ crossed \subseteq crossed'
         /\ \A q \in Requests : q # p => req'[q] = req[q]
<1>1. ASSUME NEW r, Begin(p, r), Fresh(r)
      PROVE  Begin(p, req'[p]) /\ Fresh(req'[p])
  <2>1. req'[p] = r
    BY <1>1 DEF Begin, TypeOK
  <2> QED
    BY <1>1, <2>1
<1>2. \E r : Begin(p, r) /\ Fresh(r)
  <2>1. ASSUME NEW e \in Emails, NEW h \in Handles, NEW i \in Invites \cup {NoInvite},
               StartSignup(p, e, h, i)
        PROVE  \E r : Begin(p, r) /\ Fresh(r)
    <3> DEFINE r == [op |-> "signup", user |-> NoUser, email |-> e, handle |-> h,
                     invite |-> i, before |-> held[h],
                     keys |-> {<<i, "invite">>} \cap Keys]
    <3>1. Begin(p, r) /\ InviteValid(i, e)
      BY <2>1 DEF StartSignup
    <3>2. Fresh(r)
      BY <3>1, NamesDistinct DEF Fresh, InviteValid
    <3> QED
      BY <3>1, <3>2
  <2>2. ASSUME NEW u \in Users, NEW h \in Handles, StartChangeHandle(p, u, h)
        PROVE  \E r : Begin(p, r) /\ Fresh(r)
    <3> DEFINE r == [op |-> "handle", user |-> u, old |-> account[u].handle,
                     handle |-> h, before |-> Before(h, u), keys |-> {<<u, "handle">>}]
    <3>1. Begin(p, r) /\ u \in Live
      BY <2>2 DEF StartChangeHandle, SignedIn
    <3>2. Fresh(r)
      BY <3>1 DEF Fresh
    <3> QED
      BY <3>1, <3>2
  <2>3. ASSUME NEW u \in Users, StartDeleteAccount(p, u)
        PROVE  \E r : Begin(p, r) /\ Fresh(r)
    <3> DEFINE r == [op |-> "delete", user |-> u, old |-> account[u].handle,
                     keys |-> {<<u, "handle">>}]
    <3>1. Begin(p, r) /\ u \in Live
      BY <2>3 DEF StartDeleteAccount, SignedIn
    <3>2. Fresh(r)
      BY <3>1 DEF Fresh
    <3> QED
      BY <3>1, <3>2
  <2>4. ASSUME NEW u \in Users, StartLogin(p, u)
        PROVE  \E r : Begin(p, r) /\ Fresh(r)
    <3> DEFINE r == [op |-> "login", user |-> u, password |-> account[u].password,
                     keys |-> {<<u, "credential">>}]
    <3>1. Begin(p, r) /\ u \in Live /\ ~account[u].disabled
      BY <2>4 DEF StartLogin
    <3>2. Fresh(r)
      BY <3>1 DEF Fresh
    <3> QED
      BY <3>1, <3>2
  <2>5. ASSUME NEW u \in Users, StartChangePassword(p, u)
        PROVE  \E r : Begin(p, r) /\ Fresh(r)
    <3> DEFINE r == [op |-> "password", user |-> u, keys |-> {<<u, "credential">>}]
    <3>1. Begin(p, r) /\ u \in Live /\ ~account[u].disabled
      BY <2>5 DEF StartChangePassword, SignedIn
    <3>2. Fresh(r)
      BY <3>1 DEF Fresh
    <3> QED
      BY <3>1, <3>2
  <2>6. ASSUME NEW u \in Users, NEW f \in Purposes, NEW e \in Emails,
               StartIssue(p, u, f, e)
        PROVE  \E r : Begin(p, r) /\ Fresh(r)
    <3> DEFINE r == Issuing(u, f, e)
    <3>1. /\ Begin(p, r) /\ u \in Live
          /\ f = Verification => e = account[u].email
      BY <2>6 DEF StartIssue, SignedIn, Purposes, Verification, Reset, EmailChange
    <3>2. Fresh(r)
      BY <3>1 DEF Fresh, Issuing
    <3> QED
      BY <3>1, <3>2
  <2>7. ASSUME NEW t \in Ids, StartRedeem(p, t)
        PROVE  \E r : Begin(p, r) /\ Fresh(r)
    <3> DEFINE u == token[t].user
               r == [op |-> "redeem", user |-> u, token |-> t,
                     disabled |-> account[u].disabled, verified |-> account[u].verified,
                     keys |-> {<<t, "token">>} \cup
                       (IF token[t].purpose = Reset THEN {<<u, "credential">>} ELSE {})]
    <3>1. Begin(p, r) /\ t \in DOMAIN token /\ ~token[t].consumed
      BY <2>7 DEF StartRedeem, Redeemable
    <3>2. u \in Live
      BY <3>1 DEF TypeOK
    <3>3. Fresh(r)
      BY <3>1, <3>2 DEF Fresh
    <3> QED
      BY <3>1, <3>3
  <2> QED
    BY <2>1, <2>2, <2>3, <2>4, <2>5, <2>6, <2>7 DEF Start
<1>3. req'[p] \in Request
  BY StartTyped DEF TypeOK
<1>4. /\ req[p].op = "idle" /\ crossed \subseteq crossed'
      /\ \A q \in Requests : q # p => req'[q] = req[q]
  BY <1>1, <1>2 DEF Begin, TypeOK
<1> QED
  BY <1>1, <1>2, <1>3, <1>4

-----------------------------------------------------------------------------
(* The steps, as the invariants below see them.                            *)

LEMMA EndFacts ==
  ASSUME TypeOK, NEW p \in Requests, End(p)
  PROVE  /\ req'[p] = Done /\ req'[p].op = "done" /\ req'[p].keys = {}
         /\ req'[p].user \notin Users
         /\ \A q \in Requests : q # p => req'[q] = req[q]
         /\ crossed' = crossed
BY NamesDistinct DEF TypeOK, End, Done

LEMMA RefuseFacts ==
  ASSUME NEW p \in Requests,
         \/ RefuseSignup(p) \/ RefuseChangeHandle(p) \/ RefuseDeleteAccount(p)
         \/ RefuseLogin(p) \/ RefuseChangePassword(p) \/ RefuseIssue(p)
         \/ RefuseRedeem(p)
  PROVE  End(p) /\ UNCHANGED <<rows, history>>
BY DEF RefuseSignup, RefuseChangeHandle, RefuseDeleteAccount, RefuseLogin,
       RefuseChangePassword, RefuseIssue, RefuseRedeem, Refuse

LEMMA SignupFacts ==
  ASSUME TypeOK, HandleInv, FlightInv, NEW p \in Requests, CommitSignup(p)
  PROVE  \E u \in Users \ Live : LET r == req[p] IN
           /\ r \in SignupRequest
           /\ \A h \in Handles : u \notin held[h]
           /\ Live' = Live \cup {u} /\ account'[u] = NewAccount(p)
           /\ \A v \in Live : account'[v] = account[v]
           /\ \A i \in Invites : invite'[i].by = IF i = r.invite THEN u ELSE invite[i].by
           /\ session' = session \cup {[id |-> p, user |-> u, password |-> p]}
           /\ \A h \in Handles : held[h] \subseteq held'[h]
           /\ u \in held'[r.handle]
           /\ proven' = proven \cup (IF Invited(p) THEN {<<u, r.email>>} ELSE {})
           /\ redeemed' = redeemed \cup
                (IF Invited(p) THEN {<<<<r.invite, "invite">>, p>>} ELSE {})
           /\ req'[p] = Issuing(u, Verification, r.email)
           /\ \A q \in Requests : q # p => req'[q] = req[q] /\ req[q].user # u
           /\ UNCHANGED <<token, crossed>>
<1> DEFINE r == req[p]
<1>1. r \in SignupRequest
  BY RequestFacts DEF TypeOK, CommitSignup
<1>2. PICK u \in Users \ UNION {held[h] : h \in Handles} :
        /\ account' = Put(account, u, NewAccount(p))
        /\ invite' = [i \in Invites |->
             IF i = r.invite THEN [invite[i] EXCEPT !.by = u] ELSE invite[i]]
        /\ session' = session \cup {[id |-> p, user |-> u, password |-> p]}
        /\ held' = [held EXCEPT ![r.handle] = @ \cup {u}]
        /\ proven' = proven \cup (IF Invited(p) THEN {<<u, r.email>>} ELSE {})
        /\ redeemed' = redeemed \cup
             (IF Invited(p) THEN {<<<<r.invite, "invite">>, p>>} ELSE {})
        /\ req' = [req EXCEPT ![p] = Issuing(u, Verification, r.email)]
  BY DEF CommitSignup
<1>3. UNCHANGED <<token, crossed>>
  BY DEF CommitSignup
<1>4. u \in Users /\ \A h \in Handles : u \notin held[h]
  BY <1>2
<1>5. u \notin Live
  BY <1>4 DEF HandleInv, HeldNow, TypeOK, Account
<1>6. /\ Live' = Live \cup {u} /\ account'[u] = NewAccount(p)
      /\ \A v \in Live : account'[v] = account[v]
  BY <1>2, <1>5 DEF Live, Put
<1>7. \A i \in Invites : invite'[i].by = IF i = r.invite THEN u ELSE invite[i].by
  BY <1>2 DEF TypeOK
<1>8. /\ \A h \in Handles : held[h] \subseteq held'[h]
      /\ u \in held'[r.handle]
  BY <1>1, <1>2 DEF TypeOK, SignupRequest
<1>9. req'[p] = Issuing(u, Verification, r.email)
  BY <1>2 DEF TypeOK
<1>10. \A q \in Requests : q # p => req'[q] = req[q] /\ req[q].user # u
  BY <1>2, <1>4 DEF TypeOK, FlightInv, Known
<1> QED
  BY <1>1, <1>2, <1>3, <1>4, <1>5, <1>6, <1>7, <1>8, <1>9, <1>10, Zenon

LEMMA DeleteFacts ==
  ASSUME TypeOK, NEW p \in Requests, CommitDeleteAccount(p)
  PROVE  LET u == req[p].user IN
           /\ u \in Live
           /\ Live' = Live \ {u} /\ \A v \in Live' : account'[v] = account[v]
           /\ \A i \in Invites :
                invite'[i].by = IF invite[i].by = u THEN Nobody ELSE invite[i].by
           /\ session' = {s \in session : s.user # u}
           /\ DOMAIN token' \subseteq DOMAIN token
           /\ \A t \in DOMAIN token' : token'[t] = token[t]
           /\ End(p) /\ UNCHANGED history
<1> DEFINE u == req[p].user
<1>1. /\ u \in Live
      /\ account' = Without(account, {u})
      /\ invite' = [i \in Invites |->
           IF invite[i].by = u THEN [invite[i] EXCEPT !.by = Nobody] ELSE invite[i]]
      /\ session' = {s \in session : s.user # u}
      /\ token' = Without(token, {t \in DOMAIN token : token[t].user = u})
      /\ End(p) /\ UNCHANGED history
  BY DEF CommitDeleteAccount
<1>2. Live' = Live \ {u} /\ \A v \in Live' : account'[v] = account[v]
  BY <1>1 DEF Live, Without
<1>3. \A i \in Invites : invite'[i].by = IF invite[i].by = u THEN Nobody ELSE invite[i].by
  BY <1>1 DEF TypeOK
<1>4. /\ DOMAIN token' \subseteq DOMAIN token
      /\ \A t \in DOMAIN token' : token'[t] = token[t]
  BY <1>1 DEF Without
<1> QED
  BY <1>1, <1>2, <1>3, <1>4

LEMMA IssueFacts ==
  ASSUME TypeOK, NEW p \in Requests, CommitIssue(p)
  PROVE  LET r == req[p] IN
           /\ r \in IssueRequest /\ r.user \in Live
           /\ DOMAIN token' = DOMAIN token \cup {p}
           /\ token'[p] = [user |-> r.user, purpose |-> r.purpose,
                           email |-> r.email, consumed |-> FALSE]
           /\ \A t \in DOMAIN token : t # p => token'[t] = token[t]
           /\ End(p)
           /\ UNCHANGED <<account, released, invite, session, history>>
<1> DEFINE r == req[p]
           row == [user |-> r.user, purpose |-> r.purpose, email |-> r.email,
                   consumed |-> FALSE]
<1>1. r \in IssueRequest /\ r.user \in Live
  BY RequestFacts DEF TypeOK, CommitIssue
<1>2. token' = Put(token, p, row)
  BY DEF CommitIssue
<1>3. /\ DOMAIN token' = DOMAIN token \cup {p} /\ token'[p] = row
      /\ \A t \in DOMAIN token : t # p => token'[t] = token[t]
  BY <1>2 DEF Put
<1> QED
  BY <1>1, <1>3 DEF CommitIssue

\* What following the link of the token t does to its account.
Follows(p, t) == LET u == token[t].user IN
    /\ account'[u] \in Account /\ account'[u].disabled = account[u].disabled
    /\ token[t].purpose \in {Verification, Reset} => account'[u].email = account[u].email
    /\ token[t].purpose \in {Verification, EmailChange} =>
         account'[u].password = account[u].password
    /\ token[t].purpose = EmailChange =>
         account'[u].email = token[t].email /\ account'[u].verified
    /\ token[t].purpose = Reset => account'[u].verified = account[u].verified
    /\ account[u].verified => account'[u].verified
    /\ session' = SessionsAfter(t)
    /\ proven' = proven \cup {<<u, token[t].email>>}
    /\ redeemed' = redeemed \cup {<<<<t, "token">>, p>>}
    /\ ~Conflict(t)

LEMMA RedeemFacts ==
  ASSUME TypeOK, NEW p \in Requests, CommitRedeem(p)
  PROVE  LET t == req[p].token  u == token[t].user IN
           /\ req[p] \in RedeemRequest /\ t \in DOMAIN token /\ u \in Live
           /\ token[t].purpose \in Purposes
           /\ DOMAIN token' = DOMAIN token /\ token'[t].consumed
           /\ \A x \in DOMAIN token : /\ token'[x].user = token[x].user
                                      /\ token'[x].purpose = token[x].purpose
                                      /\ token'[x].email = token[x].email
                                      /\ token[x].consumed => token'[x].consumed
           /\ Live' = Live /\ \A v \in Live : v # u => account'[v] = account[v]
           /\ End(p) /\ UNCHANGED <<invite, held>>
           /\ \/ UNCHANGED <<account, session, proven, redeemed>>
              \/ Follows(p, t)
<1> DEFINE t == req[p].token
           u == token[t].user
<1>1. req[p] \in RedeemRequest /\ t \in DOMAIN token /\ u \in Live
  BY RequestFacts DEF TypeOK, CommitRedeem
<1>2. token' = [token EXCEPT ![t].consumed = TRUE] /\ End(p) /\ UNCHANGED <<invite, held>>
  BY DEF CommitRedeem
<1>3. \A x \in DOMAIN token : token[x] \in Token
  BY DEF TypeOK
<1>4. account[u] \in Account /\ token[t].purpose \in Purposes
      /\ token[t].email \in Emails /\ req[p].verified \in BOOLEAN
  BY <1>1, <1>3 DEF TypeOK, Token, RedeemRequest
<1>5. /\ DOMAIN token' = DOMAIN token /\ token'[t].consumed
      /\ \A x \in DOMAIN token : /\ token'[x].user = token[x].user
                                 /\ token'[x].purpose = token[x].purpose
                                 /\ token'[x].email = token[x].email
                                 /\ token[x].consumed => token'[x].consumed
  <2>1. /\ DOMAIN token' = DOMAIN token
        /\ token'[t] = [token[t] EXCEPT !.consumed = TRUE]
        /\ \A x \in DOMAIN token : x # t => token'[x] = token[x]
    BY <1>1, <1>2
  <2>2. token[t] \in Token
    BY <1>1, <1>3
  <2>3. /\ token'[t].user = token[t].user /\ token'[t].purpose = token[t].purpose
        /\ token'[t].email = token[t].email /\ token'[t].consumed = TRUE
    BY <2>1, <2>2 DEF Token
  <2> QED
    BY <2>1, <2>3
<1>6. CASE Barred(p)
  <2>1. UNCHANGED <<account, session, proven, redeemed>>
    BY <1>6 DEF CommitRedeem
  <2>2. Live' = Live /\ \A v \in Live : v # u => account'[v] = account[v]
    BY <2>1 DEF Live
  <2> QED
    BY <1>1, <1>2, <1>4, <1>5, <2>1, <2>2
<1>7. CASE ~Barred(p)
  <2>1. /\ account' = [account EXCEPT ![u] = Redeemed(p, t)]
        /\ session' = SessionsAfter(t)
        /\ proven' = proven \cup {<<u, token[t].email>>}
        /\ redeemed' = redeemed \cup {<<<<t, "token">>, p>>}
        /\ ~Conflict(t)
    BY <1>7 DEF CommitRedeem
  <2>2. /\ Live' = Live /\ account'[u] = Redeemed(p, t)
        /\ \A v \in Live : v # u => account'[v] = account[v]
    BY <1>1, <2>1 DEF Live
  <2>3. Follows(p, t)
    <3>1. CASE token[t].purpose = Verification
      <4> DEFINE b == account[u].verified \/ ~req[p].verified
      <4>1. Redeemed(p, t) = [account[u] EXCEPT !.verified = b]
        BY <3>1 DEF Redeemed, Verification, Reset, EmailChange
      <4>2. b \in BOOLEAN /\ (account[u].verified => b)
        OBVIOUS
      <4> HIDE DEF b
      <4>3. account'[u] = [account[u] EXCEPT !.verified = b]
        BY <4>1, <2>2
      <4>4. /\ account'[u] \in Account /\ account'[u].disabled = account[u].disabled
            /\ account'[u].email = account[u].email
            /\ account'[u].password = account[u].password
            /\ account'[u].verified = b
        BY <4>2, <4>3, <1>4 DEF Account
      <4> QED
        BY <4>2, <4>4, <2>1, <3>1 DEF Follows, Verification, Reset, EmailChange
    <3>2. CASE token[t].purpose = Reset
      <4>1. account'[u] = [account[u] EXCEPT !.password = p]
        BY <3>2, <2>2 DEF Redeemed, Verification, Reset, EmailChange
      <4>2. /\ account'[u] \in Account /\ account'[u].disabled = account[u].disabled
            /\ account'[u].email = account[u].email
            /\ account'[u].verified = account[u].verified
        BY <4>1, <1>4 DEF Account, Ids
      <4> QED
        BY <4>2, <2>1, <3>2 DEF Follows, Verification, Reset, EmailChange
    <3>3. CASE token[t].purpose = EmailChange
      <4>1. account'[u] = [account[u] EXCEPT !.email = token[t].email, !.verified = TRUE]
        BY <3>3, <2>2 DEF Redeemed, Verification, Reset, EmailChange
      <4>2. /\ account'[u] \in Account /\ account'[u].disabled = account[u].disabled
            /\ account'[u].email = token[t].email
            /\ account'[u].password = account[u].password
            /\ account'[u].verified = TRUE
        BY <4>1, <1>4 DEF Account
      <4> QED
        BY <4>2, <2>1, <3>3 DEF Follows, Verification, Reset, EmailChange
    <3> QED
      BY <3>1, <3>2, <3>3, <1>4 DEF Purposes
  <2> QED
    BY <1>1, <1>2, <1>4, <1>5, <2>2, <2>3
<1> QED
  BY <1>6, <1>7

LEMMA AdminFacts ==
  ASSUME TypeOK, NEW u \in Users, Disable(u) \/ Enable(u)
  PROVE  /\ u \in Live /\ Live' = Live
         /\ \A v \in Live : /\ account'[v].email = account[v].email
                            /\ account'[v].password = account[v].password
                            /\ account'[v].verified = account[v].verified
                            /\ v # u => account'[v].disabled = account[v].disabled
         /\ session' \subseteq session
         /\ UNCHANGED <<released, invite, token, req, history>>
         /\ crossed \subseteq crossed'
         /\ \/ account'[u].disabled = FALSE
            \/ /\ \A s \in session' : s.user # u
               /\ \A p \in InFlight : req[p].user = u => <<u, "disabled">> \in crossed'
<1>1. /\ u \in Live /\ session' \subseteq session
      /\ UNCHANGED <<released, invite, token, req, history>> /\ crossed \subseteq crossed'
  BY DEF Disable, Enable
<1>2. PICK b \in BOOLEAN : account' = [account EXCEPT ![u].disabled = b]
  BY DEF Disable, Enable
<1>3. account[u] \in Account
  BY <1>1 DEF TypeOK
<1>4. /\ Live' = Live
      /\ account'[u] = [account[u] EXCEPT !.disabled = b]
      /\ \A v \in Live : v # u => account'[v] = account[v]
  BY <1>1, <1>2 DEF Live
<1>5. \A v \in Live : /\ account'[v].email = account[v].email
                      /\ account'[v].password = account[v].password
                      /\ account'[v].verified = account[v].verified
                      /\ v # u => account'[v].disabled = account[v].disabled
  BY <1>3, <1>4 DEF Account
<1>6. CASE Disable(u)
  <2>1. \A s \in session' : s.user # u
    BY <1>6 DEF Disable
  <2>2. \A p \in InFlight : req[p].user = u => <<u, "disabled">> \in crossed'
    BY <1>6 DEF Disable
  <2> QED
    BY <1>1, <1>4, <1>5, <2>1, <2>2
<1>7. CASE Enable(u)
  <2> DEFINE a == account[u]
  <2>1. account' = [account EXCEPT ![u].disabled = FALSE]
    BY <1>7 DEF Enable
  <2>2. account'[u] = [a EXCEPT !.disabled = FALSE]
    BY <1>1, <2>1 DEF Live
  <2>3. a \in Account
    BY <1>3
  <2> HIDE DEF a
  <2>4. account'[u].disabled = FALSE
    BY <2>2, <2>3 DEF Account
  <2> QED
    BY <1>1, <1>4, <1>5, <2>4
<1> QED
  BY <1>6, <1>7

-----------------------------------------------------------------------------
LEMMA StartFlight ==
  ASSUME TypeOK, HandleInv, FlightInv, NEW p \in Requests, Start(p)
  PROVE  FlightInv'
<1> DEFINE r == req'[p]
<1>1. /\ Begin(p, r) /\ Fresh(r) /\ r \in Request /\ req[p].op = "idle"
      /\ \A q \in Requests : q # p => req'[q] = req[q]
  BY StartFacts
<1>2. UNCHANGED <<account, token, held, redeemed>>
  BY <1>1 DEF Begin, rows, history
<1>3. Known'
  <2>1. r.user \in Users => \E h \in Handles : r.user \in held[h]
    BY <1>1 DEF Fresh, HandleInv, HeldNow, TypeOK, Account
  <2> QED
    BY <1>1, <1>2, <2>1 DEF FlightInv, Known
<1>4. Shown'
  <2> SUFFICES ASSUME NEW q \in Requests
               PROVE  LET s == req'[q] IN
                 /\ s.op = "signup" /\ s.invite # NoInvite => <<s.invite, "invite">> \in s.keys
                 /\ s.op \in {"login", "password"} => <<s.user, "credential">> \in s.keys
                 /\ s.op = "redeem" =>
                      /\ <<s.token, "token">> \in s.keys
                      /\ s.token \in DOMAIN token /\ token[s.token].purpose = Reset =>
                           <<token[s.token].user, "credential">> \in s.keys
    BY <1>2 DEF Shown
  <2>1. CASE q = p
    <3>1. r.op = "signup" /\ r.invite # NoInvite => <<r.invite, "invite">> \in r.keys
      BY <1>1, RequestFacts DEF Fresh, SignupRequest, Keys
    <3>2. r.op \in {"login", "password"} => <<r.user, "credential">> \in r.keys
      BY <1>1 DEF Fresh
    <3>3. r.op = "redeem" =>
            /\ <<r.token, "token">> \in r.keys
            /\ token[r.token].purpose = Reset => <<token[r.token].user, "credential">> \in r.keys
      BY <1>1 DEF Fresh
    <3> QED
      BY <2>1, <3>1, <3>2, <3>3
  <2>2. CASE q # p
    BY <1>1, <2>2 DEF FlightInv, Shown
  <2> QED
    BY <2>1, <2>2
<1>5. Issued'
  <2> SUFFICES ASSUME NEW t \in Requests,
                      \/ t \in DOMAIN token
                      \/ \E q \in Requests : \/ <<<<t, "token">>, q>> \in redeemed
                                             \/ req'[q].op = "redeem" /\ req'[q].token = t
               PROVE  req'[t].op = "done"
    BY <1>2 DEF Issued
  <2>1. \/ t \in DOMAIN token
        \/ \E q \in Requests : \/ <<<<t, "token">>, q>> \in redeemed
                               \/ req[q].op = "redeem" /\ req[q].token = t
    BY <1>1 DEF Fresh
  <2>2. req[t].op = "done"
    BY <2>1 DEF FlightInv, Issued
  <2> QED
    BY <1>1, <2>2
<1> QED
  BY <1>3, <1>4, <1>5 DEF FlightInv

\* A request that ends leaves the others what they know; the token it issues
\* takes its own name, and the one it redeems had been issued.
LEMMA EndFlight ==
  ASSUME TypeOK, FlightInv, NEW p \in Requests, End(p),
         \A h \in Handles : held[h] \subseteq held'[h],
         \A t \in DOMAIN token' :
           \/ /\ t \in DOMAIN token /\ token'[t].user = token[t].user
              /\ token'[t].purpose = token[t].purpose
           \/ t = p /\ req[p].op = "issue",
         \A x \in redeemed' :
           x \in redeemed \/ \E t \in DOMAIN token : x = <<<<t, "token">>, p>>
  PROVE  FlightInv'
<1>1. /\ req'[p].op = "done" /\ req'[p].user \notin Users
      /\ \A q \in Requests : q # p => req'[q] = req[q]
  BY EndFacts
<1>2. Known'
  BY <1>1 DEF FlightInv, Known
<1>3. Shown'
  <2> SUFFICES ASSUME NEW q \in Requests, q # p
               PROVE  LET s == req[q] IN
                 /\ s.op = "signup" /\ s.invite # NoInvite => <<s.invite, "invite">> \in s.keys
                 /\ s.op \in {"login", "password"} => <<s.user, "credential">> \in s.keys
                 /\ s.op = "redeem" =>
                      /\ <<s.token, "token">> \in s.keys
                      /\ s.token \in DOMAIN token' /\ token'[s.token].purpose = Reset =>
                           <<token'[s.token].user, "credential">> \in s.keys
    BY <1>1 DEF Shown
  <2>1. req[q].op = "redeem" => ~(req[q].token = p /\ req[p].op = "issue")
    BY DEF FlightInv, Issued
  <2> QED
    BY <2>1 DEF FlightInv, Shown
<1>4. Issued'
  <2> SUFFICES ASSUME NEW t \in Requests,
                      \/ t \in DOMAIN token'
                      \/ \E q \in Requests : \/ <<<<t, "token">>, q>> \in redeemed'
                                             \/ req'[q].op = "redeem" /\ req'[q].token = t
               PROVE  req'[t].op = "done"
    BY DEF Issued
  <2>1. \/ t = p
        \/ t \in DOMAIN token
        \/ \E q \in Requests : \/ <<<<t, "token">>, q>> \in redeemed
                               \/ req[q].op = "redeem" /\ req[q].token = t
    BY <1>1
  <2>2. t = p \/ req[t].op = "done"
    BY <2>1 DEF FlightInv, Issued
  <2> QED
    BY <1>1, <2>2
<1> QED
  BY <1>2, <1>3, <1>4 DEF FlightInv

LEMMA SignupFlight ==
  ASSUME TypeOK, HandleInv, FlightInv, NEW p \in Requests, CommitSignup(p)
  PROVE  FlightInv'
<1> DEFINE r == req[p]
<1>1. PICK u \in Users \ Live :
        /\ r \in SignupRequest
        /\ \A h \in Handles : held[h] \subseteq held'[h]
        /\ u \in held'[r.handle]
        /\ redeemed' = redeemed \cup
             (IF Invited(p) THEN {<<<<r.invite, "invite">>, p>>} ELSE {})
        /\ req'[p] = Issuing(u, Verification, r.email)
        /\ \A q \in Requests : q # p => req'[q] = req[q]
        /\ UNCHANGED token
  BY SignupFacts
<1>2. req'[p].op = "issue" /\ req'[p].user = u /\ r.handle \in Handles /\ r.op = "signup"
  BY <1>1 DEF Issuing, SignupRequest
<1>3. Known'
  BY <1>1, <1>2 DEF FlightInv, Known
<1>4. Shown'
  BY <1>1, <1>2 DEF FlightInv, Shown
<1>5. Issued'
  <2> SUFFICES ASSUME NEW t \in Requests,
                      \/ t \in DOMAIN token
                      \/ \E q \in Requests : \/ <<<<t, "token">>, q>> \in redeemed'
                                             \/ req'[q].op = "redeem" /\ req'[q].token = t
               PROVE  req'[t].op = "done"
    BY <1>1 DEF Issued
  <2>1. \/ t \in DOMAIN token
        \/ \E q \in Requests : \/ <<<<t, "token">>, q>> \in redeemed
                               \/ req[q].op = "redeem" /\ req[q].token = t
    BY <1>1, <1>2
  <2>2. req[t].op = "done"
    BY <2>1 DEF FlightInv, Issued
  <2> QED
    BY <1>1, <1>2, <2>2
<1> QED
  BY <1>3, <1>4, <1>5 DEF FlightInv

LEMMA NextFlight ==
  ASSUME TypeOK, HandleInv, FlightInv, [Next]_vars
  PROVE  FlightInv'
<1>1. ASSUME NEW p \in Requests,
             \/ RefuseSignup(p) \/ RefuseChangeHandle(p) \/ RefuseDeleteAccount(p)
             \/ RefuseLogin(p) \/ RefuseChangePassword(p) \/ RefuseIssue(p)
             \/ RefuseRedeem(p)
      PROVE  FlightInv'
  <2>1. End(p) /\ UNCHANGED <<held, token, redeemed>>
    BY <1>1, RefuseFacts DEF rows, history
  <2> QED
    BY <2>1, EndFlight
<1>2. ASSUME NEW p \in Requests, CommitLogin(p) \/ CommitChangePassword(p)
      PROVE  FlightInv'
  <2>1. End(p) /\ UNCHANGED <<held, token, redeemed>>
    BY <1>2 DEF CommitLogin, CommitChangePassword, history
  <2> QED
    BY <2>1, EndFlight
<1>3. ASSUME NEW p \in Requests, CommitChangeHandle(p)
      PROVE  FlightInv'
  <2>1. /\ End(p) /\ UNCHANGED <<token, redeemed>>
        /\ held' = [held EXCEPT ![req[p].handle] = @ \cup {req[p].user}]
    BY <1>3 DEF CommitChangeHandle
  <2>2. \A h \in Handles : held[h] \subseteq held'[h]
    BY <2>1 DEF TypeOK
  <2> QED
    BY <2>1, <2>2, EndFlight
<1>4. ASSUME NEW p \in Requests, CommitDeleteAccount(p)
      PROVE  FlightInv'
  <2>1. /\ End(p) /\ UNCHANGED <<held, redeemed>>
        /\ DOMAIN token' \subseteq DOMAIN token
        /\ \A t \in DOMAIN token' : token'[t] = token[t]
    BY <1>4, DeleteFacts DEF history
  <2> QED
    BY <2>1, EndFlight
<1>5. ASSUME NEW p \in Requests, CommitIssue(p)
      PROVE  FlightInv'
  <2>1. /\ End(p) /\ UNCHANGED <<held, redeemed>> /\ req[p].op = "issue"
        /\ DOMAIN token' = DOMAIN token \cup {p}
        /\ \A t \in DOMAIN token : t # p => token'[t] = token[t]
    BY <1>5, IssueFacts DEF history, CommitIssue
  <2> QED
    BY <2>1, EndFlight
<1>6. ASSUME NEW p \in Requests, CommitRedeem(p)
      PROVE  FlightInv'
  <2> DEFINE t == req[p].token
  <2>1. /\ End(p) /\ UNCHANGED held /\ t \in DOMAIN token
        /\ DOMAIN token' = DOMAIN token
        /\ \A x \in DOMAIN token : /\ token'[x].user = token[x].user
                                   /\ token'[x].purpose = token[x].purpose
        /\ redeemed' = redeemed \/ redeemed' = redeemed \cup {<<<<t, "token">>, p>>}
    BY <1>6, RedeemFacts DEF Follows
  <2>2. \A x \in redeemed' :
          x \in redeemed \/ \E y \in DOMAIN token : x = <<<<y, "token">>, p>>
    BY <2>1
  <2> QED
    BY <2>1, <2>2, EndFlight
<1>7. ASSUME \/ \E s \in session : Revoke(s) \/ RevokeOthers(s)
             \/ \E u \in Users : Disable(u) \/ Enable(u)
             \/ UNCHANGED vars
      PROVE  FlightInv'
  <2>1. UNCHANGED <<req, held, token, redeemed>>
    BY <1>7 DEF Revoke, RevokeOthers, Disable, Enable, vars, rows, history
  <2> QED
    BY <2>1 DEF FlightInv, Known, Shown, Issued
<1> QED
  BY <1>1, <1>2, <1>3, <1>4, <1>5, <1>6, <1>7, StartFlight, SignupFlight DEF Next

LEMMA InitFlight ==
  ASSUME Init
  PROVE  FlightInv
<1>1. /\ \A p \in Requests : req[p].op = "idle" /\ req[p].user = NoUser
      /\ DOMAIN token = {First} /\ redeemed = {}
  BY DEF Init, Idle
<1> QED
  BY <1>1, NamesDistinct, AccountsAssumption DEF FlightInv, Known, Shown, Issued

LEMMA FlightInvariant == Spec => []FlightInv
<1>1. Init => FlightInv
  BY InitFlight
<1>2. TypeOK /\ HandleInv /\ FlightInv /\ [Next]_vars => FlightInv'
  BY NextFlight
<1> QED
  BY <1>1, <1>2, Typed, HandleInvariant, PTL DEF Spec

-----------------------------------------------------------------------------
(* Links and invites.                                                      *)

\* What opened an account or followed a link is spent.
Spent ==
    /\ \A x \in redeemed : x[1][2] \in {"token", "invite"}
    /\ \A x \in redeemed, t \in DOMAIN token :
         x[1] = <<t, "token">> => token[t].consumed
    /\ \A x \in redeemed, i \in Invites :
         x[1] = <<i, "invite">> => invite[i].by # Open

\* A request that still shows something spent overlapped with the other.
Guarded ==
    \A p \in Requests, x \in redeemed : x[1] \in req[p].keys => x[1] \in crossed

OnceInv == Spent /\ Guarded /\ RedeemedOnce

\* Nothing new is spent, and what is spent stays so.
LEMMA QuietOnce ==
  ASSUME OnceInv, redeemed' = redeemed, crossed \subseteq crossed',
         \A p \in Requests : req'[p] = req[p] \/ req'[p].keys = {},
         \A t \in DOMAIN token' :
           \/ t \in DOMAIN token /\ (token[t].consumed => token'[t].consumed)
           \/ \A x \in redeemed : x[1] # <<t, "token">>,
         \A i \in Invites : invite'[i].by = Open => invite[i].by = Open
  PROVE  OnceInv'
<1>1. Spent'
  BY DEF OnceInv, Spent
<1>2. Guarded'
  BY DEF OnceInv, Guarded
<1>3. RedeemedOnce'
  BY DEF OnceInv, RedeemedOnce
<1> QED
  BY <1>1, <1>2, <1>3 DEF OnceInv

LEMMA StartOnce ==
  ASSUME TypeOK, OnceInv, NEW p \in Requests, Start(p)
  PROVE  OnceInv'
<1> DEFINE r == req'[p]
<1>1. /\ Begin(p, r) /\ Fresh(r) /\ r \in Request
      /\ crossed \subseteq crossed'
      /\ \A q \in Requests : q # p => req'[q] = req[q]
  BY StartFacts
<1>2. UNCHANGED <<invite, token, redeemed>>
  BY <1>1 DEF Begin, rows, history
<1>3. ASSUME NEW x \in redeemed, x[1] \in r.keys
      PROVE  FALSE
  <2>1. x[1][2] \in {"token", "invite"}
    BY DEF OnceInv, Spent
  <2>2. CASE r.op = "signup"
    <3>1. r \in SignupRequest /\ x[1] = <<r.invite, "invite">> /\ x[1] \in Keys
      BY <1>1, <1>3, <2>2, RequestFacts DEF Fresh
    <3>2. r.invite \in Invites
      BY <3>1 DEF Keys
    <3>3. invite[r.invite].by = Open
      BY <1>1, <2>2, <3>2, AccountsAssumption DEF Fresh
    <3> QED
      BY <3>1, <3>2, <3>3 DEF OnceInv, Spent
  <2>3. CASE r.op = "redeem"
    <3>1. x[1] = <<r.token, "token">> \/ x[1] = <<r.user, "credential">>
      BY <1>1, <1>3, <2>3 DEF Fresh
    <3>2. x[1] = <<r.token, "token">>
      BY <2>1, <3>1
    <3> QED
      BY <1>1, <2>3, <3>2 DEF Fresh, OnceInv, Spent
  <2>4. CASE r.op \in {"handle", "delete", "login", "password"}
    <3>1. x[1] = <<r.user, "handle">> \/ x[1] = <<r.user, "credential">>
      BY <1>1, <1>3, <2>4 DEF Fresh
    <3> QED
      BY <2>1, <3>1
  <2>5. CASE r.op = "issue"
    BY <1>1, <1>3, <2>5 DEF Fresh
  <2>6. r.op \in {"signup", "handle", "delete", "login", "password", "issue", "redeem"}
    BY <1>1 DEF Fresh, Request, Idle, Done, SignupRequest, HandleRequest, DeleteRequest,
       LoginRequest, PasswordRequest, IssueRequest, RedeemRequest
  <2> QED
    BY <2>2, <2>3, <2>4, <2>5, <2>6
<1>4. Guarded'
  BY <1>1, <1>2, <1>3 DEF OnceInv, Guarded
<1>5. Spent' /\ RedeemedOnce'
  BY <1>1, <1>2 DEF OnceInv, Spent, RedeemedOnce
<1> QED
  BY <1>4, <1>5 DEF OnceInv

\* The request p uses up k, which it had shown, and has nothing left to show.
LEMMA SpendOnce ==
  ASSUME Overlap, OnceInv, NEW p \in Requests, NEW k \in req[p].keys,
         redeemed' = redeemed \cup {<<k, p>>}, crossed' = crossed,
         req'[p].keys = {}, \A q \in Requests : q # p => req'[q] = req[q]
  PROVE  Guarded' /\ RedeemedOnce'
<1>1. \A x \in redeemed : x[1] = k => k \in crossed
  BY DEF OnceInv, Guarded
<1>2. \A q \in Requests : q # p /\ k \in req[q].keys => k \in crossed
  BY DEF Overlap
<1>3. Guarded'
  BY <1>2 DEF OnceInv, Guarded
<1>4. RedeemedOnce'
  <2> SUFFICES ASSUME NEW x \in redeemed', NEW y \in redeemed', x[1] = y[1], x # y
               PROVE  x[1] \in crossed
    BY DEF RedeemedOnce
  <2>1. CASE x \in redeemed /\ y \in redeemed
    BY <2>1 DEF OnceInv, RedeemedOnce
  <2>2. CASE x = <<k, p>> \/ y = <<k, p>>
    <3>1. x[1] = k /\ y[1] = k /\ (x \in redeemed \/ y \in redeemed)
      BY <2>2
    <3> QED
      BY <3>1, <1>1
  <2> QED
    BY <2>1, <2>2
<1> QED
  BY <1>3, <1>4

LEMMA SignupOnce ==
  ASSUME TypeOK, HandleInv, FlightInv, OnceInv, NEW p \in Requests, CommitSignup(p)
  PROVE  OnceInv'
<1> DEFINE r == req[p]
           k == <<r.invite, "invite">>
<1>1. PICK u \in Users \ Live :
        /\ r \in SignupRequest
        /\ \A i \in Invites : invite'[i].by = IF i = r.invite THEN u ELSE invite[i].by
        /\ redeemed' = redeemed \cup (IF Invited(p) THEN {<<k, p>>} ELSE {})
        /\ req'[p] = Issuing(u, Verification, r.email)
        /\ \A q \in Requests : q # p => req'[q] = req[q]
        /\ UNCHANGED <<token, crossed>>
  BY SignupFacts
<1>2. req'[p].keys = {} /\ r.op = "signup"
  BY <1>1 DEF Issuing, SignupRequest
<1>3. u # Open
  BY NamesDistinct
<1>4. CASE Invited(p)
  <2>1. k \in r.keys /\ redeemed' = redeemed \cup {<<k, p>>}
    BY <1>1, <1>2, <1>4 DEF FlightInv, Shown, Invited
  <2>2. Guarded' /\ RedeemedOnce'
    BY <1>1, <1>2, <2>1, SpendOnce DEF HandleInv
  <2>3. Spent'
    <3>1. \A x \in redeemed' : x[1][2] \in {"token", "invite"}
      BY <2>1 DEF OnceInv, Spent
    <3>2. \A x \in redeemed', t \in DOMAIN token : x[1] = <<t, "token">> => token[t].consumed
      BY <2>1 DEF OnceInv, Spent
    <3>3. \A x \in redeemed', i \in Invites : x[1] = <<i, "invite">> => invite'[i].by # Open
      BY <1>1, <1>3, <2>1 DEF OnceInv, Spent
    <3> QED
      BY <1>1, <3>1, <3>2, <3>3 DEF Spent
  <2> QED
    BY <2>2, <2>3 DEF OnceInv
<1>5. CASE ~Invited(p)
  BY <1>1, <1>2, <1>3, <1>5, QuietOnce
<1> QED
  BY <1>4, <1>5

LEMMA RedeemOnce ==
  ASSUME TypeOK, HandleInv, FlightInv, OnceInv, NEW p \in Requests, CommitRedeem(p)
  PROVE  OnceInv'
<1> DEFINE t == req[p].token
           k == <<t, "token">>
<1>1. /\ req[p] \in RedeemRequest /\ t \in DOMAIN token
      /\ DOMAIN token' = DOMAIN token /\ token'[t].consumed
      /\ \A x \in DOMAIN token : token[x].consumed => token'[x].consumed
      /\ End(p) /\ UNCHANGED invite
      /\ redeemed' = redeemed \/ redeemed' = redeemed \cup {<<k, p>>}
  BY RedeemFacts DEF Follows
<1>2. /\ req'[p].keys = {} /\ crossed' = crossed
      /\ \A q \in Requests : q # p => req'[q] = req[q]
  BY <1>1, EndFacts
<1>3. CASE redeemed' = redeemed
  BY <1>1, <1>2, <1>3, QuietOnce
<1>4. CASE redeemed' = redeemed \cup {<<k, p>>}
  <2>1. k \in req[p].keys
    BY <1>1 DEF FlightInv, Shown, RedeemRequest
  <2>2. Guarded' /\ RedeemedOnce'
    BY <1>2, <1>4, <2>1, SpendOnce DEF HandleInv
  <2>3. Spent'
    <3>1. \A x \in redeemed' : x[1][2] \in {"token", "invite"}
      BY <1>4 DEF OnceInv, Spent
    <3>2. \A x \in redeemed', y \in DOMAIN token : x[1] = <<y, "token">> => token'[y].consumed
      BY <1>1, <1>4 DEF OnceInv, Spent
    <3>3. \A x \in redeemed', i \in Invites : x[1] = <<i, "invite">> => invite[i].by # Open
      BY <1>4 DEF OnceInv, Spent
    <3> QED
      BY <1>1, <3>1, <3>2, <3>3 DEF Spent
  <2> QED
    BY <2>2, <2>3 DEF OnceInv
<1> QED
  BY <1>1, <1>3, <1>4

LEMMA NextOnce ==
  ASSUME TypeOK, HandleInv, FlightInv, OnceInv, [Next]_vars
  PROVE  OnceInv'
<1>1. ASSUME NEW p \in Requests,
             \/ RefuseSignup(p) \/ RefuseChangeHandle(p) \/ RefuseDeleteAccount(p)
             \/ RefuseLogin(p) \/ RefuseChangePassword(p) \/ RefuseIssue(p)
             \/ RefuseRedeem(p)
      PROVE  OnceInv'
  <2>1. End(p) /\ UNCHANGED <<invite, token, redeemed>>
    BY <1>1, RefuseFacts DEF rows, history
  <2> QED
    BY <2>1, EndFacts, QuietOnce
<1>2. ASSUME NEW p \in Requests,
             CommitLogin(p) \/ CommitChangePassword(p) \/ CommitChangeHandle(p)
      PROVE  OnceInv'
  <2>1. End(p) /\ UNCHANGED <<invite, token, redeemed>>
    BY <1>2 DEF CommitLogin, CommitChangePassword, CommitChangeHandle, history
  <2> QED
    BY <2>1, EndFacts, QuietOnce
<1>3. ASSUME NEW p \in Requests, CommitDeleteAccount(p)
      PROVE  OnceInv'
  <2> DEFINE u == req[p].user
  <2>1. /\ \A i \in Invites :
             invite'[i].by = IF invite[i].by = u THEN Nobody ELSE invite[i].by
        /\ DOMAIN token' \subseteq DOMAIN token
        /\ \A t \in DOMAIN token' : token'[t] = token[t]
        /\ End(p) /\ redeemed' = redeemed
    BY <1>3, DeleteFacts DEF history
  <2>2. \A i \in Invites : invite'[i].by = Open => invite[i].by = Open
    BY <2>1, AccountsAssumption
  <2> QED
    BY <2>1, <2>2, EndFacts, QuietOnce
<1>4. ASSUME NEW p \in Requests, CommitIssue(p)
      PROVE  OnceInv'
  <2>1. /\ DOMAIN token' = DOMAIN token \cup {p} /\ req[p].op = "issue"
        /\ \A t \in DOMAIN token : t # p => token'[t] = token[t]
        /\ End(p) /\ UNCHANGED <<invite, redeemed>>
    BY <1>4, IssueFacts DEF history, CommitIssue
  <2>2. \A x \in redeemed : x[1] # <<p, "token">>
    <3> SUFFICES ASSUME NEW x \in redeemed, x[1] = <<p, "token">>
                 PROVE  FALSE
      OBVIOUS
    <3>1. x = <<<<p, "token">>, x[2]>> /\ x[2] \in Requests
      BY DEF TypeOK
    <3> QED
      BY <2>1, <3>1 DEF FlightInv, Issued
  <2> QED
    BY <2>1, <2>2, EndFacts, QuietOnce
<1>5. ASSUME \/ \E s \in session : Revoke(s) \/ RevokeOthers(s)
             \/ \E u \in Users : Disable(u) \/ Enable(u)
             \/ UNCHANGED vars
      PROVE  OnceInv'
  <2>1. UNCHANGED <<req, invite, token, redeemed>> /\ crossed \subseteq crossed'
    BY <1>5 DEF Revoke, RevokeOthers, Disable, Enable, vars, rows, history
  <2> QED
    BY <2>1, QuietOnce
<1> QED
  BY <1>1, <1>2, <1>3, <1>4, <1>5, StartOnce, SignupOnce, RedeemOnce DEF Next

LEMMA InitOnce ==
  ASSUME Init
  PROVE  OnceInv
BY DEF Init, OnceInv, Spent, Guarded, RedeemedOnce

\* An invite opens one account and a link works once, though neither lookup
\* locks its row, unless two requests that showed it overlapped.
THEOREM WorksOnce == Spec => []RedeemedOnce
<1>1. Init => OnceInv
  BY InitOnce
<1>2. TypeOK /\ HandleInv /\ FlightInv /\ OnceInv /\ [Next]_vars => OnceInv'
  BY NextOnce
<1>3. OnceInv => RedeemedOnce
  BY DEF OnceInv
<1> QED
  BY <1>1, <1>2, <1>3, Typed, HandleInvariant, FlightInvariant, PTL DEF Spec

-----------------------------------------------------------------------------
(* Sessions and passwords.                                                 *)

\* A login in flight has the password there is, or overlapped with a change
\* of it; and it or a change of password was in flight when its account was
\* disabled.
CredentialRead ==
    \A p \in Requests : LET r == req[p] IN
        /\ r.op = "login" /\ r.user \in Live =>
             \/ r.password = account[r.user].password
             \/ <<r.user, "credential">> \in crossed
        /\ /\ r.op \in {"login", "password"}
           /\ r.user \in Live /\ account[r.user].disabled
           => <<r.user, "disabled">> \in crossed

SessionInv == CredentialRead /\ SessionsCurrent

\* No account changes what its sessions depend on, and none is opened.
LEMMA QuietSession ==
  ASSUME TypeOK, TypeOK', SessionInv, crossed \subseteq crossed', session' \subseteq session,
         Live' \subseteq Live,
         \A v \in Live' : /\ account'[v].password = account[v].password
                          /\ account'[v].disabled = account[v].disabled,
         \A q \in Requests : req'[q] = req[q] \/ req'[q].op \notin {"login", "password"}
  PROVE  SessionInv'
<1>1. CredentialRead'
  BY DEF SessionInv, CredentialRead
<1>2. SessionsCurrent'
  <2>1. \A s \in session' : s.user \in Live'
    BY DEF TypeOK
  <2> QED
    BY <2>1 DEF SessionInv, SessionsCurrent
<1> QED
  BY <1>1, <1>2 DEF SessionInv

LEMMA StartSession ==
  ASSUME TypeOK, SessionInv, NEW p \in Requests, Start(p)
  PROVE  SessionInv'
<1> DEFINE r == req'[p]
<1>1. /\ Begin(p, r) /\ Fresh(r) /\ crossed \subseteq crossed'
      /\ \A q \in Requests : q # p => req'[q] = req[q]
  BY StartFacts
<1>2. UNCHANGED <<account, session>> /\ Live' = Live
  BY <1>1 DEF Begin, rows, Live
<1>3. CredentialRead'
  <2>1. /\ r.op = "login" => r.password = account[r.user].password
        /\ r.op \in {"login", "password"} => ~account[r.user].disabled
    BY <1>1 DEF Fresh
  <2> QED
    BY <1>1, <1>2, <2>1 DEF SessionInv, CredentialRead
<1>4. SessionsCurrent'
  BY <1>1, <1>2 DEF SessionInv, SessionsCurrent
<1> QED
  BY <1>3, <1>4 DEF SessionInv

\* The request p sets the password of u and closes the sessions there were;
\* every login of u still in flight overlapped with it.
LEMMA RekeySession ==
  ASSUME TypeOK, TypeOK', HandleInv, FlightInv, SessionInv,
         NEW p \in Requests, NEW u \in Live, End(p),
         <<u, "credential">> \in req[p].keys, Live' = Live,
         \A v \in Live : v # u => account'[v] = account[v],
         account'[u].disabled = account[u].disabled,
         \A s \in session' :
           \/ s \in session /\ s.user # u
           \/ /\ s.user = u /\ s.password = account'[u].password
              /\ account[u].disabled => <<u, "disabled">> \in crossed
  PROVE  SessionInv'
<1>1. /\ req'[p].op = "done" /\ crossed' = crossed
      /\ \A q \in Requests : q # p => req'[q] = req[q]
  BY EndFacts
<1>2. \A q \in Requests : /\ q # p /\ req[q].op \in {"login", "password"} /\ req[q].user = u
                          => <<u, "credential">> \in crossed
  BY DEF HandleInv, Overlap, FlightInv, Shown
<1>3. CredentialRead'
  <2> SUFFICES ASSUME NEW q \in Requests, q # p, req[q].op \in {"login", "password"},
                      req[q].user \in Live
               PROVE  LET r == req[q] IN
                 /\ r.op = "login" => \/ r.password = account'[r.user].password
                                      \/ <<r.user, "credential">> \in crossed
                 /\ account'[r.user].disabled => <<r.user, "disabled">> \in crossed
    BY <1>1 DEF CredentialRead
  <2>1. LET r == req[q] IN
          /\ r.op = "login" => \/ r.password = account[r.user].password
                               \/ <<r.user, "credential">> \in crossed
          /\ account[r.user].disabled => <<r.user, "disabled">> \in crossed
    BY DEF SessionInv, CredentialRead
  <2>2. CASE req[q].user = u
    BY <1>2, <2>1, <2>2
  <2>3. CASE req[q].user # u
    BY <2>1, <2>3
  <2> QED
    BY <2>2, <2>3
<1>4. SessionsCurrent'
  <2> SUFFICES ASSUME NEW s \in session'
               PROVE  /\ \/ s.password = account'[s.user].password
                         \/ <<s.user, "credential">> \in crossed
                      /\ account'[s.user].disabled => <<s.user, "disabled">> \in crossed
    BY <1>1 DEF SessionsCurrent
  <2>1. CASE s \in session /\ s.user # u
    <3>1. s.user \in Live
      BY <2>1 DEF TypeOK
    <3> QED
      BY <2>1, <3>1 DEF SessionInv, SessionsCurrent
  <2>2. CASE s.user = u /\ s.password = account'[u].password
             /\ (account[u].disabled => <<u, "disabled">> \in crossed)
    BY <2>2
  <2> QED
    BY <2>1, <2>2
<1> QED
  BY <1>3, <1>4 DEF SessionInv

LEMMA SignupSession ==
  ASSUME TypeOK, HandleInv, FlightInv, SessionInv, NEW p \in Requests, CommitSignup(p)
  PROVE  SessionInv'
<1> DEFINE r == req[p]
<1>1. PICK u \in Users \ Live :
        /\ Live' = Live \cup {u} /\ account'[u] = NewAccount(p)
        /\ \A v \in Live : account'[v] = account[v]
        /\ session' = session \cup {[id |-> p, user |-> u, password |-> p]}
        /\ req'[p] = Issuing(u, Verification, r.email)
        /\ \A q \in Requests : q # p => req'[q] = req[q] /\ req[q].user # u
        /\ UNCHANGED crossed
  BY SignupFacts
<1>2. req'[p].op = "issue" /\ account'[u].password = p /\ account'[u].disabled = FALSE
  BY <1>1 DEF Issuing, NewAccount
<1>3. CredentialRead'
  BY <1>1, <1>2 DEF SessionInv, CredentialRead
<1>4. SessionsCurrent'
  <2> SUFFICES ASSUME NEW s \in session'
               PROVE  /\ \/ s.password = account'[s.user].password
                         \/ <<s.user, "credential">> \in crossed
                      /\ account'[s.user].disabled => <<s.user, "disabled">> \in crossed
    BY <1>1 DEF SessionsCurrent
  <2>1. CASE s \in session
    <3>1. s.user \in Live
      BY <2>1 DEF TypeOK
    <3> QED
      BY <1>1, <2>1, <3>1 DEF SessionInv, SessionsCurrent
  <2>2. CASE s \notin session
    <3>1. s.user = u /\ s.password = p
      BY <1>1, <2>2
    <3> QED
      BY <1>2, <3>1
  <2> QED
    BY <2>1, <2>2
<1> QED
  BY <1>3, <1>4 DEF SessionInv

LEMMA LoginSession ==
  ASSUME TypeOK, SessionInv, NEW p \in Requests, CommitLogin(p)
  PROVE  SessionInv'
<1> DEFINE r == req[p]
<1>1. /\ r.op = "login" /\ r.user \in Live /\ End(p) /\ UNCHANGED account
      /\ session' = session \cup {[id |-> p, user |-> r.user, password |-> r.password]}
  BY DEF CommitLogin
<1>2. /\ req'[p].op = "done" /\ crossed' = crossed /\ Live' = Live
      /\ \A q \in Requests : q # p => req'[q] = req[q]
  BY <1>1, EndFacts DEF Live
<1>3. CredentialRead'
  BY <1>1, <1>2 DEF SessionInv, CredentialRead
<1>4. SessionsCurrent'
  <2> SUFFICES ASSUME NEW s \in session'
               PROVE  /\ \/ s.password = account[s.user].password
                         \/ <<s.user, "credential">> \in crossed
                      /\ account[s.user].disabled => <<s.user, "disabled">> \in crossed
    BY <1>1, <1>2 DEF SessionsCurrent
  <2>1. CASE s \in session
    BY <2>1 DEF SessionInv, SessionsCurrent
  <2>2. CASE s \notin session
    <3>1. s.user = r.user /\ s.password = r.password
      BY <1>1, <2>2
    <3> QED
      BY <1>1, <3>1 DEF SessionInv, CredentialRead
  <2> QED
    BY <2>1, <2>2
<1> QED
  BY <1>3, <1>4 DEF SessionInv

LEMMA PasswordSession ==
  ASSUME TypeOK, TypeOK', HandleInv, FlightInv, SessionInv, NEW p \in Requests,
         CommitChangePassword(p)
  PROVE  SessionInv'
<1> DEFINE u == req[p].user
<1>1. /\ req[p].op = "password" /\ u \in Live /\ End(p)
      /\ account' = [account EXCEPT ![u].password = p]
      /\ session' = {s \in session : s.user # u}
           \cup {[id |-> p, user |-> u, password |-> p]}
  BY DEF CommitChangePassword
<1>2. account[u] \in Account
  BY <1>1 DEF TypeOK
<1>3. /\ Live' = Live /\ account'[u] = [account[u] EXCEPT !.password = p]
      /\ \A v \in Live : v # u => account'[v] = account[v]
  BY <1>1 DEF Live
<1>4. account'[u].password = p /\ account'[u].disabled = account[u].disabled
  BY <1>2, <1>3 DEF Account
<1>5. /\ <<u, "credential">> \in req[p].keys
      /\ account[u].disabled => <<u, "disabled">> \in crossed
  BY <1>1 DEF FlightInv, Shown, SessionInv, CredentialRead
<1> QED
  BY <1>1, <1>3, <1>4, <1>5, RekeySession

LEMMA RedeemSession ==
  ASSUME TypeOK, TypeOK', HandleInv, FlightInv, SessionInv, NEW p \in Requests,
         CommitRedeem(p)
  PROVE  SessionInv'
<1> DEFINE t == req[p].token
           u == token[t].user
<1>1. /\ req[p] \in RedeemRequest /\ t \in DOMAIN token /\ u \in Live
      /\ token[t].purpose \in Purposes
      /\ Live' = Live /\ \A v \in Live : v # u => account'[v] = account[v]
      /\ End(p)
      /\ UNCHANGED <<account, session>> \/ Follows(p, t)
  BY RedeemFacts
<1>2. /\ crossed' = crossed /\ req'[p].op = "done"
      /\ \A q \in Requests : q # p => req'[q] = req[q]
  BY <1>1, EndFacts
<1>3. CASE UNCHANGED <<account, session>>
  BY <1>1, <1>2, <1>3, QuietSession
<1>4. CASE Follows(p, t) /\ token[t].purpose = Reset
  <2>1. <<u, "credential">> \in req[p].keys
    BY <1>1, <1>4 DEF FlightInv, Shown, RedeemRequest
  <2>2. /\ account'[u].disabled = account[u].disabled
        /\ session' = {s \in session : s.user # u}
    BY <1>4 DEF Follows, SessionsAfter
  <2> QED
    BY <1>1, <2>1, <2>2, RekeySession
<1>5. CASE Follows(p, t) /\ token[t].purpose # Reset
  <2>1. /\ account'[u].password = account[u].password
        /\ account'[u].disabled = account[u].disabled /\ session' = session
    BY <1>1, <1>5 DEF Follows, SessionsAfter, Purposes
  <2> QED
    BY <1>1, <1>2, <2>1, QuietSession
<1> QED
  BY <1>1, <1>3, <1>4, <1>5

LEMMA AdminSession ==
  ASSUME TypeOK, TypeOK', SessionInv, NEW u \in Users, Disable(u) \/ Enable(u)
  PROVE  SessionInv'
<1>1. /\ u \in Live /\ Live' = Live
      /\ \A v \in Live : /\ account'[v].password = account[v].password
                         /\ v # u => account'[v].disabled = account[v].disabled
      /\ session' \subseteq session /\ UNCHANGED req /\ crossed \subseteq crossed'
      /\ \/ account'[u].disabled = FALSE
         \/ /\ \A s \in session' : s.user # u
            /\ \A p \in InFlight : req[p].user = u => <<u, "disabled">> \in crossed'
  BY AdminFacts
<1>2. CredentialRead'
  <2> SUFFICES ASSUME NEW q \in Requests, req[q].op \in {"login", "password"},
                      req[q].user \in Live
               PROVE  LET r == req[q] IN
                 /\ r.op = "login" => \/ r.password = account'[r.user].password
                                      \/ <<r.user, "credential">> \in crossed'
                 /\ account'[r.user].disabled => <<r.user, "disabled">> \in crossed'
    BY <1>1 DEF CredentialRead
  <2>1. q \in InFlight
    BY DEF InFlight
  <2>2. LET r == req[q] IN
          /\ r.op = "login" => \/ r.password = account[r.user].password
                               \/ <<r.user, "credential">> \in crossed
          /\ account[r.user].disabled => <<r.user, "disabled">> \in crossed
    BY DEF SessionInv, CredentialRead
  <2> QED
    BY <1>1, <2>1, <2>2
<1>3. SessionsCurrent'
  <2>1. \A s \in session' : s.user \in Live /\ s \in session
    BY <1>1 DEF TypeOK
  <2> QED
    BY <1>1, <2>1 DEF SessionInv, SessionsCurrent
<1> QED
  BY <1>2, <1>3 DEF SessionInv

LEMMA NextSession ==
  ASSUME TypeOK, HandleInv, FlightInv, SessionInv, [Next]_vars
  PROVE  SessionInv'
<1> USE NextTyped
<1>1. ASSUME NEW p \in Requests,
             \/ RefuseSignup(p) \/ RefuseChangeHandle(p) \/ RefuseDeleteAccount(p)
             \/ RefuseLogin(p) \/ RefuseChangePassword(p) \/ RefuseIssue(p)
             \/ RefuseRedeem(p)
      PROVE  SessionInv'
  <2>1. End(p) /\ UNCHANGED <<account, session>>
    BY <1>1, RefuseFacts DEF rows
  <2> QED
    BY <2>1, EndFacts, QuietSession DEF Live
<1>2. ASSUME NEW p \in Requests, CommitIssue(p)
      PROVE  SessionInv'
  <2>1. End(p) /\ UNCHANGED <<account, session>>
    BY <1>2 DEF CommitIssue
  <2> QED
    BY <2>1, EndFacts, QuietSession DEF Live
<1>3. ASSUME NEW p \in Requests, CommitChangeHandle(p)
      PROVE  SessionInv'
  <2> DEFINE u == req[p].user
  <2>1. /\ End(p) /\ UNCHANGED session /\ u \in Live
        /\ account' = [account EXCEPT ![u].handle = req[p].handle]
    BY <1>3 DEF CommitChangeHandle
  <2>2. account[u] \in Account
    BY <2>1 DEF TypeOK
  <2>3. Live' = Live /\ \A v \in Live : /\ account'[v].password = account[v].password
                                        /\ account'[v].disabled = account[v].disabled
    BY <2>1, <2>2 DEF Live, Account
  <2> QED
    BY <2>1, <2>3, EndFacts, QuietSession
<1>4. ASSUME NEW p \in Requests, CommitDeleteAccount(p)
      PROVE  SessionInv'
  <2>1. /\ End(p) /\ session' \subseteq session /\ Live' \subseteq Live
        /\ \A v \in Live' : account'[v] = account[v]
    BY <1>4, DeleteFacts
  <2> QED
    BY <2>1, EndFacts, QuietSession
<1>5. ASSUME NEW s \in session, Revoke(s) \/ RevokeOthers(s)
      PROVE  SessionInv'
  <2>1. UNCHANGED <<account, req, crossed>> /\ session' \subseteq session
    BY <1>5 DEF Revoke, RevokeOthers
  <2> QED
    BY <2>1, QuietSession DEF Live
<1>6. CASE UNCHANGED vars
  <2>1. UNCHANGED <<account, session, req, crossed>>
    BY <1>6 DEF vars, rows
  <2> QED
    BY <2>1, QuietSession DEF Live
<1> QED
  BY <1>1, <1>2, <1>3, <1>4, <1>5, <1>6, StartSession, SignupSession, LoginSession,
     PasswordSession, RedeemSession, AdminSession DEF Next

LEMMA InitSession ==
  ASSUME Init
  PROVE  SessionInv
<1>1. CredentialRead
  BY DEF Init, Idle, CredentialRead
<1>2. SessionsCurrent
  BY DEF Init, SessionsCurrent, Live
<1> QED
  BY <1>1, <1>2 DEF SessionInv

\* A change of password or a reset closes every session opened with the old
\* one, and a disabled account keeps none, but for a login that overlapped.
THEOREM NoStaleSession == Spec => []SessionsCurrent
<1>1. Init => SessionInv
  BY InitSession
<1>2. TypeOK /\ HandleInv /\ FlightInv /\ SessionInv /\ [Next]_vars => SessionInv'
  BY NextSession
<1>3. SessionInv => SessionsCurrent
  BY DEF SessionInv
<1> QED
  BY <1>1, <1>2, <1>3, Typed, HandleInvariant, FlightInvariant, PTL DEF Spec

-----------------------------------------------------------------------------
(* Addresses.                                                              *)

\* A link to verify an address goes to the one the account has, until it is
\* verified.
LinksCurrent ==
    /\ \A t \in DOMAIN token :
         token[t].purpose = Verification =>
           \/ token[t].email = account[token[t].user].email
           \/ account[token[t].user].verified
    /\ \A p \in Requests : LET r == req[p] IN
         /\ r.op = "issue" /\ r.purpose = Verification
         /\ r.user \in Live
         => r.email = account[r.user].email \/ account[r.user].verified

MailInv == LinksCurrent /\ VerifiedMailbox

\* No link is issued, and an account that changes its address is verified.
LEMMA LinksKept ==
  ASSUME TypeOK, TypeOK', LinksCurrent, Live' \subseteq Live,
         \A v \in Live' : /\ account'[v].email = account[v].email \/ account'[v].verified
                          /\ account[v].verified => account'[v].verified,
         \A t \in DOMAIN token' : /\ t \in DOMAIN token
                                  /\ token'[t].user = token[t].user
                                  /\ token'[t].purpose = token[t].purpose
                                  /\ token'[t].email = token[t].email,
         \A q \in Requests : req'[q] = req[q] \/ req'[q].op # "issue"
  PROVE  LinksCurrent'
<1>1. \A t \in DOMAIN token' : token'[t].user \in Live'
  BY DEF TypeOK
<1>2. \A t \in DOMAIN token' : token'[t].purpose = Verification =>
        \/ token'[t].email = account'[token'[t].user].email
        \/ account'[token'[t].user].verified
  BY <1>1 DEF LinksCurrent
<1>3. \A q \in Requests : LET r == req'[q] IN
        /\ r.op = "issue" /\ r.purpose = Verification
        /\ r.user \in Live'
        => r.email = account'[r.user].email \/ account'[r.user].verified
  BY DEF LinksCurrent
<1> QED
  BY <1>2, <1>3 DEF LinksCurrent

\* No address or verification changes.
LEMMA QuietMail ==
  ASSUME TypeOK, TypeOK', MailInv, Live' \subseteq Live, proven \subseteq proven',
         \A v \in Live' : /\ account'[v].email = account[v].email
                          /\ account'[v].verified = account[v].verified,
         \A t \in DOMAIN token' : t \in DOMAIN token /\ token'[t] = token[t],
         \A q \in Requests : req'[q] = req[q] \/ req'[q].op # "issue"
  PROVE  MailInv'
<1>1. LinksCurrent'
  BY LinksKept DEF MailInv
<1>2. VerifiedMailbox'
  BY DEF MailInv, VerifiedMailbox
<1> QED
  BY <1>1, <1>2 DEF MailInv

LEMMA StartMail ==
  ASSUME TypeOK, MailInv, NEW p \in Requests, Start(p)
  PROVE  MailInv'
<1> DEFINE r == req'[p]
<1>1. /\ Begin(p, r) /\ Fresh(r)
      /\ \A q \in Requests : q # p => req'[q] = req[q]
  BY StartFacts
<1>2. UNCHANGED <<account, token, proven>> /\ Live' = Live
  BY <1>1 DEF Begin, rows, history, Live
<1>3. r.op = "issue" /\ r.purpose = Verification => r.email = account[r.user].email
  BY <1>1 DEF Fresh
<1>4. LinksCurrent'
  BY <1>1, <1>2, <1>3 DEF MailInv, LinksCurrent
<1>5. VerifiedMailbox'
  BY <1>2 DEF MailInv, VerifiedMailbox
<1> QED
  BY <1>4, <1>5 DEF MailInv

LEMMA SignupMail ==
  ASSUME TypeOK, HandleInv, FlightInv, MailInv, NEW p \in Requests, CommitSignup(p)
  PROVE  MailInv'
<1> DEFINE r == req[p]
<1>1. PICK u \in Users \ Live :
        /\ Live' = Live \cup {u} /\ account'[u] = NewAccount(p)
        /\ \A v \in Live : account'[v] = account[v]
        /\ proven' = proven \cup (IF Invited(p) THEN {<<u, r.email>>} ELSE {})
        /\ req'[p] = Issuing(u, Verification, r.email)
        /\ \A q \in Requests : q # p => req'[q] = req[q] /\ req[q].user # u
        /\ UNCHANGED token
  BY SignupFacts
<1>2. /\ req'[p].email = r.email /\ req'[p].user = u
      /\ account'[u].email = r.email /\ account'[u].verified = Invited(p)
  BY <1>1 DEF Issuing, NewAccount
<1>3. \A t \in DOMAIN token : token[t].user \in Live
  BY DEF TypeOK
<1>4. LinksCurrent'
  <2>1. \A t \in DOMAIN token : token[t].purpose = Verification =>
          \/ token[t].email = account'[token[t].user].email
          \/ account'[token[t].user].verified
    BY <1>1, <1>3 DEF MailInv, LinksCurrent
  <2>2. \A q \in Requests : LET s == req'[q] IN
          /\ s.op = "issue" /\ s.purpose = Verification
          /\ s.user \in Live'
          => s.email = account'[s.user].email \/ account'[s.user].verified
    BY <1>1, <1>2 DEF MailInv, LinksCurrent
  <2> QED
    BY <1>1, <2>1, <2>2 DEF LinksCurrent
<1>5. VerifiedMailbox'
  <2> SUFFICES ASSUME NEW v \in Live', account'[v].verified
               PROVE  <<v, account'[v].email>> \in proven'
    BY DEF VerifiedMailbox
  <2>1. CASE v \in Live
    BY <1>1, <2>1 DEF MailInv, VerifiedMailbox
  <2>2. CASE v = u
    BY <1>1, <1>2, <2>2
  <2> QED
    BY <1>1, <2>1, <2>2
<1> QED
  BY <1>4, <1>5 DEF MailInv

LEMMA IssueMail ==
  ASSUME TypeOK, MailInv, NEW p \in Requests, CommitIssue(p)
  PROVE  MailInv'
<1> DEFINE r == req[p]
<1>1. /\ r.op = "issue" /\ r.user \in Live
      /\ DOMAIN token' = DOMAIN token \cup {p}
      /\ token'[p] = [user |-> r.user, purpose |-> r.purpose,
                      email |-> r.email, consumed |-> FALSE]
      /\ \A t \in DOMAIN token : t # p => token'[t] = token[t]
      /\ End(p) /\ UNCHANGED <<account, proven>>
  BY IssueFacts DEF history, CommitIssue
<1>2. /\ req'[p].op = "done" /\ Live' = Live
      /\ \A q \in Requests : q # p => req'[q] = req[q]
  BY <1>1, EndFacts DEF Live
<1>3. LinksCurrent'
  <2>1. \A t \in DOMAIN token' : token'[t].purpose = Verification =>
          \/ token'[t].email = account[token'[t].user].email
          \/ account[token'[t].user].verified
    <3> SUFFICES ASSUME NEW t \in DOMAIN token', token'[t].purpose = Verification
                 PROVE  \/ token'[t].email = account[token'[t].user].email
                        \/ account[token'[t].user].verified
      OBVIOUS
    <3>1. CASE t = p
      <4>1. /\ token'[t].user = r.user /\ token'[t].purpose = r.purpose
            /\ token'[t].email = r.email
        BY <1>1, <3>1
      <4> QED
        BY <1>1, <4>1 DEF MailInv, LinksCurrent
    <3>2. CASE t # p
      BY <1>1, <3>2 DEF MailInv, LinksCurrent
    <3> QED
      BY <3>1, <3>2
  <2>2. \A q \in Requests : LET s == req'[q] IN
          /\ s.op = "issue" /\ s.purpose = Verification
          /\ s.user \in Live
          => s.email = account[s.user].email \/ account[s.user].verified
    BY <1>2 DEF MailInv, LinksCurrent
  <2> QED
    BY <1>1, <1>2, <2>1, <2>2 DEF LinksCurrent
<1>4. VerifiedMailbox'
  BY <1>1, <1>2 DEF MailInv, VerifiedMailbox
<1> QED
  BY <1>3, <1>4 DEF MailInv

LEMMA RedeemMail ==
  ASSUME TypeOK, TypeOK', MailInv, NEW p \in Requests, CommitRedeem(p)
  PROVE  MailInv'
<1> DEFINE t == req[p].token
           u == token[t].user
<1>1. /\ t \in DOMAIN token /\ u \in Live /\ token[t].purpose \in Purposes
      /\ DOMAIN token' = DOMAIN token
      /\ \A x \in DOMAIN token : /\ token'[x].user = token[x].user
                                 /\ token'[x].purpose = token[x].purpose
                                 /\ token'[x].email = token[x].email
      /\ Live' = Live /\ \A v \in Live : v # u => account'[v] = account[v]
      /\ End(p)
      /\ UNCHANGED <<account, session, proven, redeemed>> \/ Follows(p, t)
  BY RedeemFacts
<1>2. \A q \in Requests : req'[q] = req[q] \/ req'[q].op # "issue"
  BY <1>1, EndFacts
<1>3. CASE UNCHANGED <<account, proven>>
  <2>1. LinksCurrent'
    BY <1>1, <1>2, <1>3, LinksKept DEF MailInv
  <2>2. VerifiedMailbox'
    BY <1>1, <1>3 DEF MailInv, VerifiedMailbox
  <2> QED
    BY <2>1, <2>2 DEF MailInv
<1>4. CASE Follows(p, t)
  <2>1. /\ account[u].verified => account'[u].verified
        /\ account'[u].email = account[u].email \/ account'[u].email = token[t].email
        /\ proven' = proven \cup {<<u, token[t].email>>}
    BY <1>1, <1>4 DEF Follows, Purposes
  <2>2. account'[u].email = account[u].email \/ account'[u].verified
    BY <1>1, <1>4 DEF Follows, Purposes
  <2>3. LinksCurrent'
    BY <1>1, <1>2, <2>1, <2>2, LinksKept DEF MailInv
  <2>4. <<u, account'[u].email>> \in proven' \/ ~account'[u].verified
    <3>1. CASE token[t].purpose = EmailChange
      BY <1>4, <2>1, <3>1 DEF Follows
    <3>2. CASE token[t].purpose # EmailChange /\ account[u].verified
      <4>1. <<u, account[u].email>> \in proven /\ account'[u].email = account[u].email
        BY <1>1, <1>4, <3>2 DEF Follows, Purposes, MailInv, VerifiedMailbox
      <4> QED
        BY <2>1, <4>1
    <3>3. CASE token[t].purpose = Verification /\ ~account[u].verified
      <4>1. token[t].email = account[u].email /\ account'[u].email = account[u].email
        BY <1>1, <1>4, <3>3 DEF Follows, MailInv, LinksCurrent
      <4> QED
        BY <2>1, <4>1
    <3>4. CASE token[t].purpose = Reset /\ ~account[u].verified
      BY <1>4, <3>4 DEF Follows
    <3> QED
      BY <1>1, <3>1, <3>2, <3>3, <3>4 DEF Purposes
  <2>5. VerifiedMailbox'
    BY <1>1, <2>1, <2>4 DEF MailInv, VerifiedMailbox
  <2> QED
    BY <2>3, <2>5 DEF MailInv
<1> QED
  BY <1>1, <1>3, <1>4

LEMMA NextMail ==
  ASSUME TypeOK, HandleInv, FlightInv, MailInv, [Next]_vars
  PROVE  MailInv'
<1> USE NextTyped
<1>1. ASSUME NEW p \in Requests,
             \/ RefuseSignup(p) \/ RefuseChangeHandle(p) \/ RefuseDeleteAccount(p)
             \/ RefuseLogin(p) \/ RefuseChangePassword(p) \/ RefuseIssue(p)
             \/ RefuseRedeem(p)
      PROVE  MailInv'
  <2>1. End(p) /\ UNCHANGED <<account, token, proven>>
    BY <1>1, RefuseFacts DEF rows, history
  <2> QED
    BY <2>1, EndFacts, QuietMail DEF Live
<1>2. ASSUME NEW p \in Requests, CommitLogin(p)
      PROVE  MailInv'
  <2>1. End(p) /\ UNCHANGED <<account, token, proven>>
    BY <1>2 DEF CommitLogin, history
  <2> QED
    BY <2>1, EndFacts, QuietMail DEF Live
<1>3. ASSUME NEW p \in Requests, CommitChangeHandle(p) \/ CommitChangePassword(p)
      PROVE  MailInv'
  <2> DEFINE u == req[p].user
  <2>1. /\ End(p) /\ UNCHANGED <<token, proven>> /\ u \in Live
        /\ \/ account' = [account EXCEPT ![u].handle = req[p].handle]
           \/ account' = [account EXCEPT ![u].password = p]
    BY <1>3 DEF CommitChangeHandle, CommitChangePassword, history
  <2>2. account[u] \in Account
    BY <2>1 DEF TypeOK
  <2>3. Live' = Live /\ \A v \in Live : /\ account'[v].email = account[v].email
                                        /\ account'[v].verified = account[v].verified
    BY <2>1, <2>2 DEF Live, Account
  <2> QED
    BY <2>1, <2>3, EndFacts, QuietMail
<1>4. ASSUME NEW p \in Requests, CommitDeleteAccount(p)
      PROVE  MailInv'
  <2>1. /\ End(p) /\ Live' \subseteq Live /\ proven' = proven
        /\ \A v \in Live' : account'[v] = account[v]
        /\ DOMAIN token' \subseteq DOMAIN token
        /\ \A t \in DOMAIN token' : token'[t] = token[t]
    BY <1>4, DeleteFacts DEF history
  <2> QED
    BY <2>1, EndFacts, QuietMail
<1>5. ASSUME NEW u \in Users, Disable(u) \/ Enable(u)
      PROVE  MailInv'
  <2>1. /\ Live' = Live /\ UNCHANGED <<token, req, proven>>
        /\ \A v \in Live : /\ account'[v].email = account[v].email
                           /\ account'[v].verified = account[v].verified
    BY <1>5, AdminFacts DEF history
  <2> QED
    BY <2>1, QuietMail
<1>6. ASSUME (\E s \in session : Revoke(s) \/ RevokeOthers(s)) \/ UNCHANGED vars
      PROVE  MailInv'
  <2>1. UNCHANGED <<account, token, req, proven>>
    BY <1>6 DEF Revoke, RevokeOthers, vars, rows, history
  <2> QED
    BY <2>1, QuietMail DEF Live
<1> QED
  BY <1>1, <1>2, <1>3, <1>4, <1>5, <1>6, StartMail, SignupMail, IssueMail,
     RedeemMail DEF Next

LEMMA InitMail ==
  ASSUME Init
  PROVE  MailInv
<1>1. \A u \in Live : account[u].verified = FALSE
  BY DEF Init, Live
<1>2. \A t \in DOMAIN token : token[t].purpose = Verification =>
        token[t].email = account[token[t].user].email
  BY DEF Init
<1>3. \A p \in Requests : req[p].op = "idle"
  BY DEF Init, Idle
<1> QED
  BY <1>1, <1>2, <1>3 DEF MailInv, LinksCurrent, VerifiedMailbox

\* A verified account has shown that it reads the address it has, whichever
\* links to whichever addresses it followed, in whatever order.
THEOREM MailboxProven == Spec => []VerifiedMailbox
<1>1. Init => MailInv
  BY InitMail
<1>2. TypeOK /\ HandleInv /\ FlightInv /\ MailInv /\ [Next]_vars => MailInv'
  BY NextMail
<1>3. MailInv => VerifiedMailbox
  BY DEF MailInv
<1> QED
  BY <1>1, <1>2, <1>3, Typed, HandleInvariant, FlightInvariant, PTL DEF Spec
=============================================================================
