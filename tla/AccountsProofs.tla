---------------------------- MODULE AccountsProofs ----------------------------
(***************************************************************************)
(* What Sessions guarantees for any users, any number of calls in flight   *)
(* and any lifetime of a token; that the calls Accounts makes are those    *)
(* Sessions allows; and what Accounts guarantees for any addresses,        *)
(* registrations, seeds and crashes.                                       *)
(***************************************************************************)
EXTENDS Accounts, TLAPS

(* A call ends with the state of every request typed. *)
LEMMA AnswerTyping ==
  ASSUME TypeOK, NEW r \in Requests, NEW n \in {200, 401, 500}, Answer(r, n)
  PROVE  /\ pc' \in [Requests -> {"idle", "find", "purge", "redeem", "sign", "store", "revoke"}]
         /\ op' \in [Requests -> {"none", "login", "refresh", "logout"}]
         /\ token' \in [Requests -> Tokens \cup {NoToken}]
         /\ reply' \in [Requests -> {0, 200, 401, 500}]
         /\ \A q \in Requests : pc'[q] # "idle" => token'[q] \in Tokens
  BY DEF TypeOK, Answer, Goto

(* Every step keeps the types. *)
LEMMA TypeStep == TypeOK /\ [Next]_vars => TypeOK'
<1> SUFFICES ASSUME TypeOK, [Next]_vars PROVE TypeOK'
  OBVIOUS
<1>c. ASSUME NEW r \in Requests, NEW name \in {"login", "refresh", "logout"}, NEW t \in Tokens,
             NEW first \in {"sign", "find", "revoke"}, Call(r, name, t, first)
      PROVE  TypeOK'
  BY <1>c DEF TypeOK, Call, Goto, history
<1>1. ASSUME NEW r \in Requests, NEW u \in Users, Login(r, u) PROVE TypeOK'
  <2>1. [user |-> u, iat |-> 0] \in Tokens
    BY TimeAssumption DEF Tokens
  <2> QED BY <1>1, <1>c, <2>1 DEF Login
<1>2. ASSUME NEW r \in Requests, NEW t \in Tokens, Refresh(r, t) PROVE TypeOK'
  <2>1. CASE Call(r, "refresh", t, "find")
    BY <2>1, <1>c
  <2>2. CASE Answer(r, 401) /\ UNCHANGED <<clock, expires, issued, history>>
    BY <2>2, AnswerTyping DEF TypeOK, history
  <2> QED BY <1>2, <2>1, <2>2 DEF Refresh
<1>3. ASSUME NEW r \in Requests, NEW t \in Tokens, Logout(r, t) PROVE TypeOK'
  BY <1>3, <1>c DEF Logout
<1>4. ASSUME NEW r \in Requests, FindRow(r) PROVE TypeOK'
  <2>1. CASE Answer(r, 401)
    BY <1>4, <2>1, AnswerTyping DEF TypeOK, FindRow, history
  <2>2. CASE Goto(r, IF expires[token[r]] < clock THEN "purge" ELSE "redeem")
              /\ UNCHANGED <<op, token, reply>>
    BY <1>4, <2>2 DEF TypeOK, FindRow, Goto, history
  <2> QED BY <1>4, <2>1, <2>2 DEF FindRow
<1>5. ASSUME NEW r \in Requests, DeleteRow(r) PROVE TypeOK'
  <2>0. token[r] \in Tokens
    BY <1>5 DEF DeleteRow, TypeOK
  <2>1. /\ expires' \in [Tokens -> Nat \cup {NoRow}] /\ stored' \in [Tokens -> Nat]
        /\ redeemed' \in [Tokens -> Nat] /\ revoked' \in [Tokens -> Nat]
    BY <1>5, <2>0 DEF DeleteRow, TypeOK, Row, Bump, history
  <2>2. CASE \E n \in {401, 500} : Answer(r, n)
    BY <1>5, <2>1, <2>2, AnswerTyping DEF TypeOK, DeleteRow
  <2>3. CASE Goto(r, "sign") /\ UNCHANGED <<op, token, reply>>
    BY <1>5, <2>0, <2>1, <2>3 DEF TypeOK, DeleteRow, Goto
  <2> QED BY <1>5, <2>2, <2>3 DEF DeleteRow
<1>6. ASSUME NEW r \in Requests, Sign(r) PROVE TypeOK'
  <2>1. token[r] \in Tokens
    BY <1>6 DEF Sign, TypeOK
  <2>2. [token[r] EXCEPT !.iat = clock] \in Tokens
    BY <2>1 DEF Tokens, TypeOK
  <2> QED BY <1>6, <2>2 DEF Sign, Goto, TypeOK, history
<1>7. ASSUME NEW r \in Requests, Store(r) PROVE TypeOK'
  <2>0. token[r] \in Tokens
    BY <1>7 DEF Store, TypeOK
  <2>1. /\ expires' \in [Tokens -> Nat \cup {NoRow}] /\ stored' \in [Tokens -> Nat]
        /\ redeemed' \in [Tokens -> Nat] /\ revoked' \in [Tokens -> Nat] /\ issued' \subseteq Tokens
    BY <1>7, <2>0, TimeAssumption DEF Store, RowExpiry, TypeOK, Row, Bump, history
  <2> QED BY <1>7, <2>1, AnswerTyping DEF TypeOK, Store
<1>8. ASSUME NEW r \in Requests, Revoke(r) PROVE TypeOK'
  <2>0. token[r] \in Tokens
    BY <1>8 DEF Revoke, TypeOK
  <2>1. /\ expires' \in [Tokens -> Nat \cup {NoRow}] /\ revoked' \in [Tokens -> Nat]
    BY <1>8, <2>0 DEF Revoke, TypeOK, Row, Bump
  <2> QED BY <1>8, <2>1, AnswerTyping DEF TypeOK, Revoke
<1>9. CASE Tick
  BY <1>9, TimeAssumption DEF Tick, TypeOK, session, history
<1>10. CASE Crash
  BY <1>10 DEF Crash, TypeOK, history
<1>11. CASE UNCHANGED vars
  BY <1>11 DEF vars, TypeOK, session, history
<1> QED BY <1>1, <1>2, <1>3, <1>4, <1>5, <1>6, <1>7, <1>8, <1>9, <1>10, <1>11
        DEF Next, Begin, Step

(* Type correctness: in particular a request that is under way has a token *)
(* of some user in hand at every statement.                                *)
THEOREM TypeCorrect == Spec => []TypeOK
<1>1. Init => TypeOK
  BY TimeAssumption DEF Init, TypeOK
<1> QED BY <1>1, TypeStep, PTL DEF Spec

-----------------------------------------------------------------------------
(* The table and its history change in four ways only. *)
LEMMA RowChange ==
  ASSUME TypeOK, [Next]_vars
  PROVE  \/ UNCHANGED <<expires, history>>
         \/ \E t \in Tokens : /\ HasRow(t) /\ Row(t, NoRow)
                              /\ \/ redeemed' = Bump(redeemed, t) /\ UNCHANGED <<stored, revoked>>
                                 \/ revoked' = Bump(revoked, t) /\ UNCHANGED <<stored, redeemed>>
         \/ \E r \in Requests : /\ pc[r] = "store" /\ token[r] \in Tokens
                                /\ ~HasRow(token[r]) /\ Row(token[r], clock + Lifetime)
                                /\ stored' = Bump(stored, token[r])
                                /\ UNCHANGED <<redeemed, revoked>>
<1> DEFINE Used == \E t \in Tokens : /\ HasRow(t) /\ Row(t, NoRow)
                              /\ \/ redeemed' = Bump(redeemed, t) /\ UNCHANGED <<stored, revoked>>
                                 \/ revoked' = Bump(revoked, t) /\ UNCHANGED <<stored, redeemed>>
<1>1. ASSUME NEW r \in Requests, DeleteRow(r) PROVE UNCHANGED <<expires, history>> \/ Used
  <2>1. token[r] \in Tokens
    BY <1>1 DEF DeleteRow, TypeOK
  <2> QED BY <1>1, <2>1 DEF DeleteRow
<1>2. ASSUME NEW r \in Requests, Revoke(r) PROVE UNCHANGED <<expires, history>> \/ Used
  <2>1. token[r] \in Tokens
    BY <1>2 DEF Revoke, TypeOK
  <2> QED BY <1>2, <2>1 DEF Revoke, history
<1>3. ASSUME NEW r \in Requests, Store(r)
      PROVE  \/ UNCHANGED <<expires, history>>
             \/ /\ pc[r] = "store" /\ token[r] \in Tokens
                /\ ~HasRow(token[r]) /\ Row(token[r], clock + Lifetime)
                /\ stored' = Bump(stored, token[r])
                /\ UNCHANGED <<redeemed, revoked>>
  BY <1>3 DEF Store, RowExpiry, TypeOK
<1>4. ASSUME NEW r \in Requests, Begin(r) \/ FindRow(r) \/ Sign(r)
      PROVE  UNCHANGED <<expires, history>>
  BY <1>4 DEF Begin, Login, Logout, Refresh, Call, FindRow, Sign
<1>5. CASE Tick \/ Crash \/ UNCHANGED vars
  BY <1>5 DEF Tick, Crash, vars
<1> QED BY <1>1, <1>2, <1>3, <1>4, <1>5 DEF Next, Step

(* A stored token is redeemed or revoked at most once, whatever refreshes  *)
(* and logouts run at the same time: the delete by primary key decides.    *)
THEOREM TokensRedeemedOnce == Spec => []SingleRedemption
<1>1. Init => SingleRedemption
  BY DEF Init, SingleRedemption, HasRow
<1>2. TypeOK /\ SingleRedemption /\ [Next]_vars => SingleRedemption'
  <2> SUFFICES ASSUME TypeOK, SingleRedemption, [Next]_vars, NEW k \in Tokens
               PROVE  stored'[k] = redeemed'[k] + revoked'[k] + (IF HasRow(k)' THEN 1 ELSE 0)
    BY DEF SingleRedemption
  <2> USE DEF TypeOK, SingleRedemption, HasRow
  <2>1. CASE UNCHANGED <<expires, history>>
    BY <2>1 DEF history
  <2>2. ASSUME NEW t \in Tokens, HasRow(t), Row(t, NoRow), stored' = stored,
               \/ redeemed' = Bump(redeemed, t) /\ UNCHANGED revoked
               \/ revoked' = Bump(revoked, t) /\ UNCHANGED redeemed
        PROVE  stored'[k] = redeemed'[k] + revoked'[k] + (IF HasRow(k)' THEN 1 ELSE 0)
    BY <2>2 DEF Row, Bump, NoRow
  <2>3. ASSUME NEW t \in Tokens, ~HasRow(t), Row(t, clock + Lifetime),
               stored' = Bump(stored, t), UNCHANGED <<redeemed, revoked>>
        PROVE  stored'[k] = redeemed'[k] + revoked'[k] + (IF HasRow(k)' THEN 1 ELSE 0)
    BY <2>3, TimeAssumption DEF Row, Bump, NoRow
  <2> QED BY <2>1, <2>2, <2>3, RowChange
<1> QED BY <1>1, <1>2, TypeCorrect, PTL DEF Spec

(* A token in hand was not signed in the future. *)
SignedBefore == \A r \in Requests : pc[r] = "store" => token[r].iat <= clock

(* A row expires no sooner than the JWT it belongs to. *)
THEOREM RowsExpireLast == Spec => []RowsOutliveTokens
<1>1. Init => SignedBefore /\ RowsOutliveTokens
  BY DEF Init, SignedBefore, RowsOutliveTokens, HasRow
<1>2. TypeOK /\ SignedBefore /\ [Next]_vars => SignedBefore'
  <2> SUFFICES ASSUME TypeOK, SignedBefore, [Next]_vars, NEW r \in Requests, pc'[r] = "store"
               PROVE  token'[r].iat <= clock'
    BY DEF SignedBefore
  <2>1. CASE Sign(r)
    <3>1. token[r] \in Tokens
      BY <2>1 DEF Sign, TypeOK
    <3> QED BY <2>1, <3>1, TimeAssumption DEF Sign, TypeOK, Tokens
  <2>2. CASE ~Sign(r)
    <3>1. \A q \in Requests : Step(q) \/ Begin(q) =>
            pc[r] = "store" /\ token'[r] = token[r] /\ clock' = clock
      BY <2>2 DEF Step, Begin, Login, Logout, Refresh, Call, FindRow, DeleteRow, Sign, Store, Revoke,
                  Answer, Goto, TypeOK
    <3>2. Tick \/ UNCHANGED vars => pc[r] = "store" /\ token'[r] = token[r] /\ clock' \in {clock, clock + 1}
      BY DEF Tick, vars, session
    <3>3. ~Crash
      BY DEF Crash, TypeOK
    <3>4. pc[r] = "store" /\ token'[r] = token[r] /\ clock' \in {clock, clock + 1}
      BY <3>1, <3>2, <3>3 DEF Next
    <3>5. token[r] \in Tokens
      BY <3>4 DEF TypeOK
    <3> QED BY <3>4, <3>5, TimeAssumption DEF SignedBefore, Tokens, TypeOK
  <2> QED BY <2>1, <2>2
<1>3. TypeOK /\ SignedBefore /\ RowsOutliveTokens /\ [Next]_vars => RowsOutliveTokens'
  <2> SUFFICES ASSUME TypeOK, SignedBefore, RowsOutliveTokens, [Next]_vars, NEW k \in Tokens, HasRow(k)'
               PROVE  expires'[k] >= k.iat + Lifetime
    BY DEF RowsOutliveTokens
  <2>1. CASE UNCHANGED <<expires, history>>
    BY <2>1 DEF RowsOutliveTokens, HasRow
  <2>2. ASSUME NEW t \in Tokens, Row(t, NoRow) PROVE expires'[k] >= k.iat + Lifetime
    BY <2>2 DEF Row, RowsOutliveTokens, HasRow, TypeOK
  <2>3. ASSUME NEW r \in Requests, pc[r] = "store", token[r] \in Tokens, Row(token[r], clock + Lifetime)
        PROVE  expires'[k] >= k.iat + Lifetime
    <3>1. CASE k = token[r]
      <4>1. expires'[k] = clock + Lifetime /\ k.iat <= clock
        BY <2>3, <3>1 DEF Row, SignedBefore, TypeOK
      <4> QED BY <4>1, TimeAssumption DEF Tokens, TypeOK
    <3>2. CASE k # token[r]
      BY <2>3, <3>2 DEF Row, RowsOutliveTokens, HasRow, TypeOK
    <3> QED BY <3>1, <3>2
  <2> QED BY <2>1, <2>2, <2>3, RowChange
<1> QED BY <1>1, <1>2, <1>3, TypeCorrect, PTL DEF Spec

-----------------------------------------------------------------------------
(* Every step of Accounts is a step of Sessions or leaves its state alone. *)
LEMMA SessionsStep == AccountsTyping /\ [AccountsNext]_allVars => [Next]_vars
<1> SUFFICES ASSUME AccountsTyping, [AccountsNext]_allVars PROVE [Next]_vars
  OBVIOUS
<1>1. ASSUME NEW d \in Seeders, SeedFind(d) \/ SeedCreate(d) PROVE [Next]_vars
  BY <1>1 DEF SeedFind, SeedCreate
<1>2. ASSUME NEW r \in Requests, NEW f \in Forms, Register(r, f) PROVE [Next]_vars
  BY <1>2 DEF Register
<1>3. ASSUME NEW r \in Requests, NEW f \in Forms, SignIn(r, f) PROVE [Next]_vars
  BY <1>3 DEF SignIn, Forms, Next, Begin
<1>4. ASSUME NEW r \in Requests, NEW t \in Tokens, UseToken(r, t) PROVE [Next]_vars
  BY <1>4 DEF UseToken, Next, Begin
<1>5. ASSUME NEW r \in Requests, FindDefault(r) PROVE [Next]_vars
  BY <1>5 DEF FindDefault, Refuse
<1>6. ASSUME NEW r \in Requests, CreateUser(r) PROVE [Next]_vars
  BY <1>6 DEF CreateUser, Refuse, Next, Begin, AccountsTyping, Forms
<1>7. ASSUME NEW r \in Requests, Continue(r) PROVE [Next]_vars
  BY <1>7 DEF Continue, Next
<1>8. CASE Second \/ ProcessDies
  BY <1>8 DEF Second, ProcessDies, Next
<1>9. CASE UNCHANGED allVars
  BY <1>9 DEF allVars
<1> QED BY <1>1, <1>2, <1>3, <1>4, <1>5, <1>6, <1>7, <1>8, <1>9 DEF AccountsNext, Serve

(* A statement of a request is about that request and its token only. *)
LEMMA StepIsLocal ==
  ASSUME TypeOK, NEW r \in Requests, Step(r)
  PROVE  /\ pc[r] # "idle" /\ token[r] \in Tokens
         /\ \A q \in Requests \ {r} : pc'[q] = pc[q] /\ token'[q] = token[q]
         /\ pc'[r] # "idle" => token'[r].user = token[r].user
         /\ \A t \in Tokens : HasRow(t)' \/ t \in issued' =>
                                HasRow(t) \/ t \in issued \/ t = token[r]
<1> USE DEF TypeOK, Answer, Goto, Row, HasRow
<1>1. pc[r] # "idle" /\ token[r] \in Tokens
  BY DEF Step, FindRow, DeleteRow, Sign, Store, Revoke
<1>2. CASE FindRow(r) \/ Sign(r)
  BY <1>1, <1>2 DEF FindRow, Sign, Tokens
<1>3. CASE DeleteRow(r) \/ Revoke(r)
  BY <1>1, <1>3 DEF DeleteRow, Revoke, NoRow
<1>4. CASE Store(r)
  BY <1>1, <1>4 DEF Store
<1> QED BY <1>1, <1>2, <1>3, <1>4 DEF Step

(* Calls begin for one request, which was idle; they touch no row. *)
LEMMA CallIsLocal ==
  ASSUME TypeOK, NEW r \in Requests,
         \/ \E u \in Users : Login(r, u)
         \/ \E t \in Tokens : Refresh(r, t) \/ Logout(r, t)
  PROVE  /\ pc[r] = "idle"
         /\ \A q \in Requests \ {r} : pc'[q] = pc[q] /\ token'[q] = token[q]
         /\ UNCHANGED <<expires, issued>>
  BY DEF TypeOK, Login, Refresh, Logout, Call, Answer, Goto

(* Every step of Accounts keeps the types of both modules.                 *)
LEMMA AccountsTypeStep ==
  TypeOK /\ AccountsTyping /\ [AccountsNext]_allVars => AccountsTyping'
<1> SUFFICES ASSUME TypeOK, AccountsTyping, [AccountsNext]_allVars PROVE AccountsTyping'
  OBVIOUS
<1> USE DEF AccountsTyping
<1>1. ASSUME NEW d \in Seeders, SeedFind(d) \/ SeedCreate(d) PROVE AccountsTyping'
  BY <1>1 DEF SeedFind, SeedCreate, users, registration, vars, session
<1>2. ASSUME NEW r \in Requests, NEW f \in Forms, Register(r, f) PROVE AccountsTyping'
  BY <1>2 DEF Register, users, vars, session
<1>3. ASSUME NEW r \in Requests, NEW f \in Forms, SignIn(r, f) PROVE AccountsTyping'
  <2>1. \A q \in Requests \ {r} : pc'[q] = pc[q]
    BY <1>3, CallIsLocal DEF SignIn, Forms
  <2> QED BY <1>3, <2>1 DEF SignIn, users, registration
<1>4. ASSUME NEW r \in Requests, NEW t \in Tokens, UseToken(r, t) PROVE AccountsTyping'
  <2>1. \A q \in Requests \ {r} : pc'[q] = pc[q]
    BY <1>4, CallIsLocal DEF UseToken
  <2> QED BY <1>4, <2>1 DEF UseToken, users, registration
<1>5. ASSUME NEW r \in Requests, Refuse(r) PROVE AccountsTyping'
  BY <1>5 DEF Refuse, users, vars, session
<1>6. ASSUME NEW r \in Requests, FindDefault(r) PROVE AccountsTyping'
  BY <1>5, <1>6 DEF FindDefault, users, vars, session
<1>7. ASSUME NEW r \in Requests, CreateUser(r) PROVE AccountsTyping'
  <2>1. CASE Login(r, form[r].user) /\ stage[r] = "insert" /\ ~Refuse(r)
    <3>1. form[r] \in Forms
      BY <2>1
    <3>2. \A q \in Requests \ {r} : pc'[q] = pc[q]
      BY <2>1, <3>1, CallIsLocal DEF Forms
    <3>3. account' \in [Users -> Passwords \cup {NoAccount}]
      BY <1>7, <2>1, <3>1 DEF CreateUser, Forms
    <3> QED BY <1>7, <2>1, <3>2, <3>3 DEF CreateUser
  <2> QED BY <1>5, <1>7, <2>1 DEF CreateUser
<1>8. ASSUME NEW r \in Requests, Continue(r) PROVE AccountsTyping'
  <2>1. pc[r] # "idle" /\ \A q \in Requests \ {r} : pc'[q] = pc[q]
    BY <1>8, StepIsLocal DEF Continue
  <2>2. form' \in [Requests -> Forms \cup {NoForm}] /\ \A q \in Requests \ {r} : form'[q] = form[q]
    BY <1>8 DEF Continue
  <2>3. welcomed' \in [Users -> SUBSET Passwords]
    <3>1. CASE form[r] = NoForm
      BY <1>8, <3>1 DEF Continue
    <3>2. CASE form[r] \in Forms
      BY <1>8, <3>2 DEF Continue, Forms
    <3> QED BY <3>1, <3>2
  <2> QED BY <1>8, <2>1, <2>2, <2>3 DEF Continue
<1>9. CASE Second
  BY <1>9 DEF Second, Tick, users, registration, session
<1>10. CASE ProcessDies
  BY <1>10 DEF ProcessDies, users
<1>11. CASE UNCHANGED allVars
  BY <1>11 DEF allVars, users, registration, vars, session
<1> QED BY <1>1, <1>2, <1>3, <1>4, <1>6, <1>7, <1>8, <1>9, <1>10, <1>11 DEF AccountsNext, Serve

(* Types, of Sessions and of Accounts: a request runs a statement of       *)
(* create or one of Sessions, never both.                                  *)
LEMMA AccountsTyped == AccountsSpec => [](TypeOK /\ AccountsTyping)
<1>1. AccountsInit => TypeOK /\ AccountsTyping
  BY TimeAssumption DEF AccountsInit, AccountsTyping, Init, TypeOK
<1>2. TypeOK /\ AccountsTyping /\ [AccountsNext]_allVars => (TypeOK /\ AccountsTyping)'
  BY SessionsStep, TypeStep, AccountsTypeStep
<1> QED BY <1>1, <1>2, PTL DEF AccountsSpec

(* Type correctness. *)
THEOREM AccountsTypeCorrect == AccountsSpec => []AccountsTypeOK
  BY AccountsTyped, PTL DEF AccountsTypeOK

(* The calls on the token table are made of the actions of Sessions, so    *)
(* what is proved of Sessions holds behind registration.                   *)
LEMMA SessionsBehindCalls == AccountsSpec => Spec
<1>1. AccountsInit => Init
  BY DEF AccountsInit
<1> QED BY <1>1, SessionsStep, AccountsTyped, PTL DEF AccountsSpec, Spec

(* So also behind registration a token is used up once, and no row expires *)
(* before its JWT.                                                         *)
THEOREM SessionsHold == AccountsSpec => [](SingleRedemption /\ RowsOutliveTokens)
  BY SessionsBehindCalls, TokensRedeemedOnce, RowsExpireLast, PTL
-----------------------------------------------------------------------------
(* No user and no plan goes away, and a password is never replaced. *)
LEMMA RowsStay ==
  ASSUME AccountsTyping, [AccountsNext]_allVars
  PROVE  /\ \A u \in Users : Registered(u) => account'[u] = account[u]
         /\ plans > 0 => plans' > 0
<1>1. ASSUME NEW r \in Requests, CreateUser(r)
      PROVE  plans' = plans /\ \A u \in Users : Registered(u) => account'[u] = account[u]
  BY <1>1 DEF CreateUser, Refuse, Registered, AccountsTyping, users
<1>2. ASSUME NEW d \in Seeders, SeedCreate(d) PROVE plans' > 0 /\ account' = account
  BY <1>2 DEF SeedCreate
<1>3. \/ UNCHANGED <<account, plans>>
      \/ \E r \in Requests : CreateUser(r)
      \/ \E d \in Seeders : SeedCreate(d)
  BY DEF AccountsNext, Serve, SeedFind, Register, SignIn, UseToken, FindDefault, Refuse, Continue,
         Second, ProcessDies, allVars, users
<1> QED BY <1>1, <1>2, <1>3

(* Between the insert and the answer the account is the form's. *)
InsertedFirst == \A r \in Requests :
                   form[r] # NoForm /\ stage[r] = "idle" => account[form[r].user] = form[r].password

(* Whoever was told 201 can log in from then on. *)
THEOREM RegisteredForGood == AccountsSpec => []WelcomedCanLogIn
<1>1. AccountsInit => InsertedFirst /\ WelcomedCanLogIn
  BY DEF AccountsInit, InsertedFirst, WelcomedCanLogIn
<1>2. AccountsTyping /\ InsertedFirst /\ [AccountsNext]_allVars => InsertedFirst'
  <2> SUFFICES ASSUME AccountsTyping, InsertedFirst, [AccountsNext]_allVars,
                      NEW r \in Requests, form'[r] # NoForm, stage'[r] = "idle"
               PROVE  account'[form'[r].user] = form'[r].password
    BY DEF InsertedFirst
  <2>0. /\ form[r] \in Forms \cup {NoForm}
        /\ \A f \in Forms : f.user \in Users /\ f.password \in Passwords
        /\ NoAccount \notin Passwords
    BY AccountAssumption DEF AccountsTyping, Forms
  <2>1. CASE form'[r] = form[r] /\ stage[r] = "idle"
    BY <2>0, <2>1, RowsStay DEF InsertedFirst, Registered
  <2>2. CASE CreateUser(r)
    BY <2>0, <2>2 DEF CreateUser, Refuse, AccountsTyping, NoForm
  <2>3. ASSUME ~CreateUser(r) PROVE form'[r] = form[r] /\ stage[r] = "idle"
    <3>1. ASSUME NEW q \in Requests, Serve(q) PROVE form'[r] = form[r] /\ stage[r] = "idle"
      BY <2>3, <3>1 DEF Serve, Register, SignIn, UseToken, FindDefault, CreateUser, Continue,
         Refuse, registration, AccountsTyping
    <3> QED BY <3>1 DEF AccountsNext, SeedFind, SeedCreate, Second, ProcessDies, allVars,
               registration, AccountsTyping
  <2> QED BY <2>1, <2>2, <2>3
<1>3. AccountsTyping /\ TypeOK /\ InsertedFirst /\ WelcomedCanLogIn /\ [AccountsNext]_allVars
        => WelcomedCanLogIn'
  <2> SUFFICES ASSUME AccountsTyping, TypeOK, InsertedFirst, WelcomedCanLogIn, [AccountsNext]_allVars,
                      NEW u \in Users, NEW p \in welcomed'[u]
               PROVE  account'[u] = p
    BY DEF WelcomedCanLogIn
  <2>1. CASE p \in welcomed[u]
    BY <2>1, RowsStay, AccountAssumption DEF WelcomedCanLogIn, Registered, AccountsTyping
  <2>2. CASE p \notin welcomed[u]
    <3>1. PICK r \in Requests : Continue(r)
      BY <2>2 DEF AccountsNext, Serve, SeedFind, SeedCreate, Register, SignIn, UseToken, FindDefault,
                  CreateUser, Refuse, Second, ProcessDies, allVars, users
    <3>2. form[r] \in Forms /\ u = form[r].user /\ p = form[r].password
      BY <2>2, <3>1 DEF Continue, AccountsTyping, Forms
    <3>3. stage[r] = "idle" /\ form[r] # NoForm
      BY <3>1, <3>2, StepIsLocal, AccountAssumption DEF Continue, AccountsTyping, Forms, NoForm
    <3> QED BY <3>1, <3>2, <3>3 DEF Continue, InsertedFirst
  <2> QED BY <2>1, <2>2
<1> QED BY <1>1, <1>2, <1>3, AccountsTyped, PTL DEF AccountsSpec
(* What a call in flight relies on: its user is there, and so is a plan    *)
(* once it has been found.                                                 *)
FoundFirst == /\ \A r \in Requests : pc[r] # "idle" => Registered(token[r].user)
              /\ \A r \in Requests : stage[r] = "insert" => plans > 0

(* Registered users stay registered. *)
LEMMA UsersStay ==
  ASSUME AccountsTyping, [AccountsNext]_allVars
  PROVE  \A u \in Users : Registered(u) => Registered(u)'
  BY RowsStay DEF Registered

(* No refresh token is left without its user, and no user without a plan. *)
THEOREM TablesDoNotDangle == AccountsSpec => []NothingDangles
<1>1. AccountsInit => FoundFirst /\ NothingDangles
  BY DEF AccountsInit, Init, FoundFirst, NothingDangles, Registered, HasRow
<1>2. AccountsTyping /\ TypeOK /\ FoundFirst /\ NothingDangles /\ [AccountsNext]_allVars
        => FoundFirst' /\ NothingDangles'
  <2> SUFFICES ASSUME AccountsTyping, TypeOK, FoundFirst, NothingDangles, [AccountsNext]_allVars
               PROVE  FoundFirst' /\ NothingDangles'
    OBVIOUS
  <2> DEFINE CallOK(r)  == pc[r] # "idle" => Registered(token[r].user)
             StageOK(r) == stage[r] = "insert" => plans > 0
             TokenOK(t) == HasRow(t) \/ t \in issued => Registered(t.user)
             UserOK(u)  == Registered(u) => plans > 0
             Same(r)    == pc'[r] = pc[r] /\ token'[r] = token[r]
  <2>0. /\ \A r \in Requests : CallOK(r) /\ StageOK(r)
        /\ \A t \in Tokens : TokenOK(t) /\ t.user \in Users
        /\ \A u \in Users : UserOK(u)
        /\ \A r \in Requests : pc[r] # "idle" => token[r] \in Tokens
    BY DEF FoundFirst, NothingDangles, Tokens, TypeOK
  <2>1. \A r \in Requests : StageOK(r)'
    <3>1. ASSUME NEW r \in Requests, stage[r] # "insert", stage'[r] = "insert" PROVE plans' > 0
      <4>1. FindDefault(r)
        BY <3>1 DEF AccountsNext, Serve, SeedFind, SeedCreate, Register, SignIn, UseToken, FindDefault,
           CreateUser, Refuse, Continue, Second, ProcessDies, allVars, registration, AccountsTyping
      <4> QED BY <3>1, <4>1 DEF FindDefault, Refuse, users, AccountsTyping
    <3> QED BY <2>0, <3>1, RowsStay
  <2>2. \A u \in Users : UserOK(u)'
    <3>1. ASSUME NEW u \in Users, ~Registered(u), Registered(u)' PROVE plans' > 0
      <4>1. PICK r \in Requests : CreateUser(r)
        BY <3>1 DEF AccountsNext, Serve, SeedFind, SeedCreate, Register, SignIn, UseToken, FindDefault,
           CreateUser, Refuse, Continue, Second, ProcessDies, allVars, users, Registered
      <4> QED BY <2>0, <4>1, RowsStay DEF CreateUser
    <3> QED BY <2>0, <3>1, RowsStay
  <2>3. \/ UNCHANGED <<pc, token, expires, issued>>
        \/ \E r \in Requests : Continue(r)
        \/ \E r \in Requests, u \in Users : Login(r, u) /\ Registered(u)'
        \/ \E r \in Requests, t \in Tokens : Refresh(r, t) \/ Logout(r, t)
        \/ Crash
    <3>1. ASSUME NEW r \in Requests, NEW f \in Forms, SignIn(r, f)
          PROVE  \E u \in Users : Login(r, u) /\ Registered(u)'
      BY <3>1, AccountAssumption DEF SignIn, Matches, Forms, Registered, users
    <3>2. ASSUME NEW r \in Requests, CreateUser(r)
          PROVE  \/ UNCHANGED <<pc, token, expires, issued>>
                 \/ \E u \in Users : Login(r, u) /\ Registered(u)'
      <4>1. form[r] \in Forms
        BY <3>2 DEF CreateUser, AccountsTyping
      <4>2. CASE Refuse(r)
        BY <4>2 DEF Refuse, vars, session
      <4>3. CASE ~Refuse(r)
        BY <3>2, <4>1, <4>3, AccountAssumption DEF CreateUser, Forms, Registered, AccountsTyping
      <4> QED BY <4>2, <4>3
    <3>3. ASSUME NEW r \in Requests, FindDefault(r) \/ \E f \in Forms : Register(r, f)
          PROVE  UNCHANGED <<pc, token, expires, issued>>
      BY <3>3 DEF FindDefault, Refuse, Register, vars, session
    <3>4. \A r \in Requests, t \in Tokens : UseToken(r, t) => Refresh(r, t) \/ Logout(r, t)
      BY DEF UseToken
    <3>5. ASSUME NEW d \in Seeders, SeedFind(d) \/ SeedCreate(d)
          PROVE  UNCHANGED <<pc, token, expires, issued>>
      BY <3>5 DEF SeedFind, SeedCreate, vars, session
    <3>6. Second \/ ProcessDies \/ UNCHANGED allVars => UNCHANGED <<pc, token, expires, issued>> \/ Crash
      BY DEF Second, Tick, ProcessDies, allVars, vars, session
    <3> QED BY <3>1, <3>2, <3>3, <3>4, <3>5, <3>6 DEF AccountsNext, Serve
  <2>4. (\A r \in Requests : CallOK(r)') /\ (\A t \in Tokens : TokenOK(t)')
    <3>1. CASE UNCHANGED <<pc, token, expires, issued>>
      BY <2>0, <3>1, UsersStay DEF HasRow
    <3>2. ASSUME NEW r \in Requests, Continue(r)
          PROVE  (\A q \in Requests : CallOK(q)') /\ (\A t \in Tokens : TokenOK(t)')
      <4>1. Step(r) /\ account' = account
        BY <3>2 DEF Continue
      <4>2. pc[r] # "idle" /\ token[r] \in Tokens /\ \A q \in Requests \ {r} : Same(q)
        BY <4>1, StepIsLocal
      <4>3. pc'[r] # "idle" => token'[r].user = token[r].user
        BY <4>1, StepIsLocal
      <4>4. \A t \in Tokens : HasRow(t)' \/ t \in issued' => HasRow(t) \/ t \in issued \/ t = token[r]
        BY <4>1, StepIsLocal
      <4> QED BY <2>0, <4>1, <4>2, <4>3, <4>4 DEF Registered
    <3>3. ASSUME NEW r \in Requests, NEW u \in Users, Login(r, u), Registered(u)'
          PROVE  (\A q \in Requests : CallOK(q)') /\ (\A t \in Tokens : TokenOK(t)')
      <4>1. \A q \in Requests \ {r} : Same(q)
        BY <3>3, CallIsLocal
      <4>2. token'[r].user = u /\ UNCHANGED <<expires, issued>>
        BY <3>3 DEF Login, Call, TypeOK
      <4> QED BY <2>0, <3>3, <4>1, <4>2, UsersStay DEF HasRow
    <3>4. ASSUME NEW r \in Requests, NEW t \in Tokens, Refresh(r, t) \/ Logout(r, t)
          PROVE  (\A q \in Requests : CallOK(q)') /\ (\A k \in Tokens : TokenOK(k)')
      <4>1. UNCHANGED <<expires, issued>> /\ \A q \in Requests \ {r} : Same(q)
        BY <3>4, CallIsLocal
      <4>2. pc'[r] # "idle" => token'[r] = t /\ t \in issued
        BY <3>4 DEF Refresh, Logout, Call, Answer, Goto, TypeOK
      <4> QED BY <2>0, <4>1, <4>2, UsersStay DEF HasRow
    <3>5. CASE Crash
      BY <2>0, <3>5, UsersStay DEF Crash, HasRow
    <3> QED BY <2>3, <3>1, <3>2, <3>3, <3>4, <3>5
  <2> QED BY <2>1, <2>2, <2>4 DEF FoundFirst, NothingDangles
<1> QED BY <1>1, <1>2, AccountsTyped, PTL DEF AccountsSpec

(* However many seeds run at once, there is one default plan. *)
THEOREM SeedsMakeOnePlan == AccountsSpec => []OneDefaultPlan
<1>1. AccountsInit => OneDefaultPlan
  BY DEF AccountsInit, OneDefaultPlan
<1>2. AccountsTyping /\ OneDefaultPlan /\ [AccountsNext]_allVars => OneDefaultPlan'
  <2> SUFFICES ASSUME AccountsTyping, OneDefaultPlan, [AccountsNext]_allVars PROVE OneDefaultPlan'
    OBVIOUS
  <2>1. ASSUME NEW d \in Seeders, SeedFind(d) \/ SeedCreate(d) PROVE OneDefaultPlan'
    BY <2>1 DEF SeedFind, SeedCreate, OneDefaultPlan, AccountsTyping, users
  <2>2. CASE UNCHANGED <<plans, seeding>>
    BY <2>2 DEF OneDefaultPlan
  <2> QED BY <2>1, <2>2 DEF AccountsNext, Serve, Register, SignIn, UseToken, FindDefault, CreateUser,
             Refuse, Continue, Second, ProcessDies, allVars, users
<1> QED BY <1>1, <1>2, AccountsTyped, PTL DEF AccountsSpec
=============================================================================
