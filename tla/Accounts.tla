------------------------------- MODULE Accounts -------------------------------
(***************************************************************************)
(* AuthService.register with UsersService.create and PlansService          *)
(* .findDefault, login's check of the credentials, and the seed of the     *)
(* default plan, in front of Sessions: a registration looks its address    *)
(* up, reads the default plan and inserts the user in three statements,    *)
(* and from there on it is a login of Sessions.  The program deletes       *)
(* neither users nor plans.                                                *)
(***************************************************************************)
EXTENDS Sessions

CONSTANTS Passwords,
          Seeders,     \* processes that run the seed script
          NoAccount    \* the address is free

ASSUME AccountAssumption == NoAccount \notin Passwords

VARIABLES account,   \* account[u]: password of the user with address u, or NoAccount
          plans,     \* default plans there are
          seeding,   \* seeding[d]: where seeder d is
          stage,     \* stage[r]: the statement of create that r runs next, or "idle"
          form,      \* form[r]: body of the registration r serves, or NoForm
          welcomed   \* history: passwords of the registrations of u answered 201

users        == <<account, plans, welcomed>>
registration == <<stage, form>>
allVars      == <<vars, users, seeding, registration>>

Forms  == [user : Users, password : Passwords]
NoForm == [user |-> "none", password |-> NoAccount]

AccountsInit == /\ Init
                /\ account = [u \in Users |-> NoAccount]
                /\ plans = 0
                /\ seeding = [d \in Seeders |-> "idle"]
                /\ stage = [r \in Requests |-> "idle"]
                /\ form = [r \in Requests |-> NoForm]
                /\ welcomed = [u \in Users |-> {}]
-----------------------------------------------------------------------------
Registered(u) == account[u] # NoAccount

(* The seed: findFirst, then create, which the unique name refuses when    *)
(* another seed was faster (the script exits with 1).                      *)
SeedFind(d) == /\ seeding[d] # "create"
               /\ seeding' = [seeding EXCEPT ![d] = IF plans = 0 THEN "create" ELSE "done"]
               /\ UNCHANGED <<vars, users, registration>>

SeedTwice(d) ==   \* mutant: name is not unique
  /\ seeding[d] = "create"
  /\ plans' = plans + 1
  /\ seeding' = [seeding EXCEPT ![d] = "done"]
  /\ UNCHANGED <<vars, account, welcomed, registration>>

SeedCreate(d) ==
  /\ seeding[d] = "create"
  /\ plans' = 1
  /\ seeding' = [seeding EXCEPT ![d] = IF plans = 0 THEN "done" ELSE "failed"]
  /\ UNCHANGED <<vars, account, welcomed, registration>>

SignFirst(r, f) ==   \* mutant: create is not awaited
  /\ stage[r] = "idle" /\ ~Registered(f.user)
  /\ Login(r, f.user)
  /\ stage' = [stage EXCEPT ![r] = "plan"]
  /\ form' = [form EXCEPT ![r] = f]
  /\ UNCHANGED <<users, seeding>>

(* A registration of an address that somebody has is a 409 at once. *)
Register(r, f) == /\ pc[r] = "idle" /\ stage[r] = "idle"
                  /\ ~Registered(f.user)
                  /\ stage' = [stage EXCEPT ![r] = "plan"]
                  /\ form' = [form EXCEPT ![r] = f]
                  /\ UNCHANGED <<vars, users, seeding>>

(* The call is refused: nothing of it is left. *)
Refuse(r) == /\ stage' = [stage EXCEPT ![r] = "idle"]
             /\ form' = [form EXCEPT ![r] = NoForm]
             /\ UNCHANGED <<vars, users, seeding>>

(* findDefault throws, as a 500, until the seed has run. *)
FindDefault(r) == /\ stage[r] = "plan"
                  /\ \/ plans = 0 /\ Refuse(r)
                     \/ /\ plans > 0
                        /\ stage' = [stage EXCEPT ![r] = "insert"]
                        /\ UNCHANGED <<vars, users, seeding, form>>

CreateOrReplace(r) ==   \* mutant: an upsert by address
  /\ stage[r] = "insert"
  /\ account' = [account EXCEPT ![form[r].user] = form[r].password]
  /\ Login(r, form[r].user)
  /\ stage' = [stage EXCEPT ![r] = "idle"]
  /\ UNCHANGED <<plans, welcomed, seeding, form>>

(* The insert: an address taken since the lookup violates the unique       *)
(* index (500, not 409); otherwise the call goes on as a login.            *)
CreateUser(r) ==
  /\ stage[r] = "insert"
  /\ \/ Registered(form[r].user) /\ Refuse(r)
     \/ /\ ~Registered(form[r].user)
        /\ account' = [account EXCEPT ![form[r].user] = form[r].password]
        /\ Login(r, form[r].user)
        /\ stage' = [stage EXCEPT ![r] = "idle"]
        /\ UNCHANGED <<plans, welcomed, seeding, form>>

MatchesAny(u, p) == TRUE   \* mutant: the user is not looked up
Matches(u, p)    == account[u] = p

(* login: an unknown address or a wrong password is a 401 at once. *)
SignIn(r, f) == /\ stage[r] = "idle"
                /\ Matches(f.user, f.password)
                /\ Login(r, f.user)
                /\ UNCHANGED <<users, seeding, registration>>

(* The calls of Sessions that need no credentials. *)
UseToken(r, t) == /\ stage[r] = "idle"
                  /\ Refresh(r, t) \/ Logout(r, t)
                  /\ UNCHANGED <<users, seeding, registration>>

(* A statement of Sessions; the one that ends a registration answers it. *)
Continue(r) ==
  LET f == form[r]
      ends == f # NoForm /\ pc'[r] = "idle" IN
  /\ Step(r)
  /\ form' = IF ends THEN [form EXCEPT ![r] = NoForm] ELSE form
  /\ welcomed' = IF ends /\ reply'[r] = 200
                 THEN [welcomed EXCEPT ![f.user] = @ \cup {f.password}] ELSE welcomed
  /\ UNCHANGED <<account, plans, seeding, stage>>

Second == Tick /\ UNCHANGED <<users, seeding, registration>>

(* The process dies: the calls in flight are gone, the tables stay. *)
ProcessDies == /\ \/ Crash
                  \/ /\ \A r \in Requests : pc[r] = "idle"
                     /\ \E r \in Requests : stage[r] # "idle"
                     /\ UNCHANGED vars
               /\ stage' = [r \in Requests |-> "idle"]
               /\ form' = [r \in Requests |-> NoForm]
               /\ UNCHANGED <<users, seeding>>

Serve(r) == \/ \E f \in Forms : Register(r, f) \/ SignIn(r, f)
            \/ \E t \in Tokens : UseToken(r, t)
            \/ FindDefault(r) \/ CreateUser(r) \/ Continue(r)

AccountsNext == \/ \E d \in Seeders : SeedFind(d) \/ SeedCreate(d)
                \/ \E r \in Requests : Serve(r)
                \/ Second
                \/ ProcessDies

AccountsSpec == AccountsInit /\ [][AccountsNext]_allVars
-----------------------------------------------------------------------------
AccountsTyping == /\ account \in [Users -> Passwords \cup {NoAccount}]
                  /\ plans \in Nat
                  /\ seeding \in [Seeders -> {"idle", "create", "done", "failed"}]
                  /\ stage \in [Requests -> {"idle", "plan", "insert"}]
                  /\ form \in [Requests -> Forms \cup {NoForm}]
                  /\ \A r \in Requests : stage[r] # "idle" => form[r] \in Forms /\ pc[r] = "idle"
                  /\ welcomed \in [Users -> SUBSET Passwords]

AccountsTypeOK == TypeOK /\ AccountsTyping

(* Whoever was told 201 can log in: of two registrations of one address    *)
(* that both find it free, the later insert takes nothing from the earlier *)
(* one, also when the earlier one's tokens are still being stored.         *)
WelcomedCanLogIn == \A u \in Users : \A p \in welcomed[u] : account[u] = p

(* Nothing dangles: a refresh token, stored or held by a client, belongs   *)
(* to a user, so refresh never misses its user, and a user has a plan, so  *)
(* create and resolveSlug never miss theirs.                               *)
NothingDangles == /\ \A t \in Tokens : HasRow(t) \/ t \in issued => Registered(t.user)
                  /\ \A u \in Users : Registered(u) => plans > 0

(* However many seeds run, there is one default plan, and a seed that      *)
(* failed did so because another one had made it.                          *)
OneDefaultPlan == /\ plans <= 1
                  /\ \A d \in Seeders : seeding[d] \in {"done", "failed"} => plans = 1
=============================================================================
