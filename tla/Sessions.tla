------------------------------- MODULE Sessions -------------------------------
(***************************************************************************)
(* AuthService.login, refresh and logout over the refresh_tokens table.    *)
(* A token is a signed JWT of the user and of the second it was signed in, *)
(* with nothing else that varies: two signed for one user in one second    *)
(* are the same string, and tokenHash is unique.  Statements of concurrent *)
(* requests interleave, and seconds pass between them.                     *)
(***************************************************************************)
EXTENDS Integers

CONSTANTS Users,      \* registered users
          Requests,   \* calls in flight at most once each
          Lifetime,   \* jwt.refreshExpiresIn, in seconds
          MaxClock,   \* bound: seconds that pass
          MaxIssues   \* bound: times one token string is stored

ASSUME TimeAssumption == /\ Lifetime \in Nat \ {0}
                         /\ MaxClock \in Nat /\ MaxIssues \in Nat

VARIABLES clock,
          expires,   \* expires[t]: expiresAt of the row of token t, or NoRow
          pc, op, token,   \* per request: next statement, call, token in hand
          reply,     \* reply[r]: status of r's last call, 0 while it runs
          issued,    \* tokens some client has been given
          stored, redeemed, revoked   \* history: per token, rows made and used up

session == <<pc, op, token, reply>>
history == <<stored, redeemed, revoked>>
vars    == <<clock, expires, session, issued, history>>

NoRow   == -1
Tokens  == [user : Users, iat : 0..MaxClock]
NoToken == [user |-> "none", iat |-> NoRow]

Init == /\ clock = 0
        /\ expires = [t \in Tokens |-> NoRow]
        /\ pc = [r \in Requests |-> "idle"]
        /\ op = [r \in Requests |-> "none"]
        /\ token = [r \in Requests |-> NoToken]
        /\ reply = [r \in Requests |-> 0]
        /\ issued = {}
        /\ stored = [t \in Tokens |-> 0]
        /\ redeemed = [t \in Tokens |-> 0]
        /\ revoked = [t \in Tokens |-> 0]
-----------------------------------------------------------------------------
HasRow(t)  == expires[t] # NoRow
Row(t, at) == expires' = [expires EXCEPT ![t] = at]
Goto(r, s) == pc' = [pc EXCEPT ![r] = s]
Bump(n, t) == [n EXCEPT ![t] = @ + 1]

Answer(r, status) == /\ Goto(r, "idle")
                     /\ op' = [op EXCEPT ![r] = "none"]
                     /\ token' = [token EXCEPT ![r] = NoToken]
                     /\ reply' = [reply EXCEPT ![r] = status]

Call(r, name, t, first) == /\ pc[r] = "idle"
                           /\ Goto(r, first)
                           /\ op' = [op EXCEPT ![r] = name]
                           /\ token' = [token EXCEPT ![r] = t]
                           /\ reply' = [reply EXCEPT ![r] = 0]
                           /\ UNCHANGED <<clock, expires, issued, history>>

(* The credentials are right: login goes on to sign a token, as register   *)
(* does once the user is there.                                            *)
Login(r, u)   == Call(r, "login", [user |-> u, iat |-> 0], "sign")
Logout(r, t)  == t \in issued /\ Call(r, "logout", t, "revoke")

(* refresh verifies the signature and the JWT's own expiry. *)
Refresh(r, t) == /\ t \in issued
                 /\ \/ clock < t.iat + Lifetime /\ Call(r, "refresh", t, "find")
                    \/ /\ clock >= t.iat + Lifetime /\ pc[r] = "idle"
                       /\ Answer(r, 401)
                       /\ UNCHANGED <<clock, expires, issued, history>>

(* refresh: the row by its hash, and the row's expiry. *)
FindRow(r) ==
  /\ pc[r] = "find"
  /\ \/ ~HasRow(token[r]) /\ Answer(r, 401)
     \/ /\ HasRow(token[r])
        /\ Goto(r, IF expires[token[r]] < clock THEN "purge" ELSE "redeem")
        /\ UNCHANGED <<op, token, reply>>
  /\ UNCHANGED <<clock, expires, issued, history>>

DeleteMany(r) ==   \* mutant: deleteMany, which does not throw when nothing matches
  LET t == token[r] IN
  /\ pc[r] \in {"purge", "redeem"}
  /\ Row(t, NoRow)
  /\ \/ /\ pc[r] = "purge" /\ Answer(r, 401)
        /\ revoked' = Bump(revoked, t)
        /\ UNCHANGED <<stored, redeemed>>
     \/ /\ pc[r] = "redeem" /\ Goto(r, "sign")
        /\ redeemed' = Bump(redeemed, t)
        /\ UNCHANGED <<op, token, reply, stored, revoked>>
  /\ UNCHANGED <<clock, issued>>

(* refresh: delete by hash.  Prisma's delete of a row that is gone throws. *)
DeleteRow(r) ==
  LET t == token[r] IN
  /\ pc[r] \in {"purge", "redeem"}
  /\ \/ ~HasRow(t) /\ Answer(r, 500) /\ UNCHANGED <<expires, history>>
     \/ /\ HasRow(t) /\ Row(t, NoRow)
        /\ \/ /\ pc[r] = "purge" /\ Answer(r, 401)
              /\ revoked' = Bump(revoked, t)
              /\ UNCHANGED <<stored, redeemed>>
           \/ /\ pc[r] = "redeem" /\ Goto(r, "sign")
              /\ redeemed' = Bump(redeemed, t)
              /\ UNCHANGED <<op, token, reply, stored, revoked>>
  /\ UNCHANGED <<clock, issued>>

(* generateTokens: the token carries the current second. *)
Sign(r) == /\ pc[r] = "sign"
           /\ token' = [token EXCEPT ![r].iat = clock]
           /\ Goto(r, "store")
           /\ UNCHANGED <<clock, expires, op, reply, issued, history>>

RowExpirySoon == clock + Lifetime - 1   \* mutant: a second short
RowExpiry     == clock + Lifetime       \* parseExpiry

(* storeRefreshToken: the unique hash refuses a second row of one token. *)
Store(r) ==
  LET t == token[r] IN
  /\ pc[r] = "store"
  /\ \/ HasRow(t) /\ Answer(r, 500) /\ UNCHANGED <<expires, issued, history>>
     \/ /\ ~HasRow(t) /\ stored[t] < MaxIssues
        /\ Row(t, RowExpiry)
        /\ Answer(r, 200)
        /\ issued' = issued \cup {t}
        /\ stored' = Bump(stored, t)
        /\ UNCHANGED <<redeemed, revoked>>
  /\ UNCHANGED clock

(* logout: whatever delete throws is swallowed. *)
Revoke(r) ==
  LET t == token[r] IN
  /\ pc[r] = "revoke"
  /\ Answer(r, 200)
  /\ \/ ~HasRow(t) /\ UNCHANGED <<expires, revoked>>
     \/ HasRow(t) /\ Row(t, NoRow) /\ revoked' = Bump(revoked, t)
  /\ UNCHANGED <<clock, issued, stored, redeemed>>

Tick == /\ clock < MaxClock
        /\ clock' = clock + 1
        /\ UNCHANGED <<expires, session, issued, history>>

(* The process dies: every call in flight is gone, the rows stay. *)
Crash == /\ \E r \in Requests : pc[r] # "idle"
         /\ pc' = [r \in Requests |-> "idle"]
         /\ op' = [r \in Requests |-> "none"]
         /\ token' = [r \in Requests |-> NoToken]
         /\ UNCHANGED <<clock, expires, reply, issued, history>>

Step(r) == FindRow(r) \/ DeleteRow(r) \/ Sign(r) \/ Store(r) \/ Revoke(r)
Begin(r) == \/ \E u \in Users : Login(r, u)
            \/ \E t \in Tokens : Refresh(r, t) \/ Logout(r, t)
Next == (\E r \in Requests : Begin(r) \/ Step(r)) \/ Tick \/ Crash

Spec == Init /\ [][Next]_vars
-----------------------------------------------------------------------------
TypeOK == /\ clock \in 0..MaxClock
          /\ expires \in [Tokens -> Nat \cup {NoRow}]
          /\ pc \in [Requests -> {"idle", "find", "purge", "redeem", "sign", "store", "revoke"}]
          /\ op \in [Requests -> {"none", "login", "refresh", "logout"}]
          /\ token \in [Requests -> Tokens \cup {NoToken}]
          /\ \A r \in Requests : pc[r] # "idle" => token[r] \in Tokens
          /\ reply \in [Requests -> {0, 200, 401, 500}]
          /\ issued \subseteq Tokens
          /\ stored \in [Tokens -> Nat]
          /\ redeemed \in [Tokens -> Nat] /\ revoked \in [Tokens -> Nat]

(* Every row a token ever had is there, was redeemed for one new pair, or  *)
(* was revoked: two refreshes of one token, or a refresh and a logout,     *)
(* never both use it up, although both may have found its row.             *)
SingleRedemption ==
  \A t \in Tokens : stored[t] = redeemed[t] + revoked[t] + (IF HasRow(t) THEN 1 ELSE 0)

(* A JWT that still verifies is never refused because its row expired      *)
(* first: the two expiries are computed apart, the row's later.            *)
RowsOutliveTokens == \A t \in Tokens : HasRow(t) => expires[t] >= t.iat + Lifetime

(* A token that logout has revoked buys nothing any more. *)
LoggedOutStaysOut ==
  [][\A t \in Tokens : revoked[t] > 0 => redeemed'[t] = redeemed[t]]_vars
=============================================================================
