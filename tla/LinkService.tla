----------------------------- MODULE LinkService -----------------------------
(***************************************************************************)
(* LinksService and the writes of AdminService: what concurrent requests   *)
(* do to the links table.  A request runs a few statements with an await   *)
(* after each; its guard is read in one statement and its write is         *)
(* another, and no transaction joins them.                                 *)
(***************************************************************************)
EXTENDS LinkStore

CONSTANTS Requests,     \* request slots: calls that can be in flight together
          MaxAttempts   \* generateUniqueSlug gives up when attempts > this (10)

ASSUME RequestsAssumption == IsFiniteSet(Requests) /\ Requests # {}
ASSUME AttemptsAssumption == MaxAttempts \in Nat /\ "maxLinks" \in Fields

VARIABLES pc,      \* pc[r]: the statement r runs next, or "idle"
          req,     \* req[r]: the call, or NoCall
          limit,   \* limit[r]: maxLinks as read with the user
          chosen,  \* chosen[r]: the slug found free
          tries,   \* tries[r]: the attempts argument of generateUniqueSlug
          reply    \* reply[r]: the status of r's last call, 0 before it

locals == <<limit, chosen, tries>>
vars   == <<tables, pc, req, locals, reply>>

OwnerOps == {"disable", "enable", "delete"}
AdminOps == {"adminDisable", "adminEnable"}
NoCall   == [op |-> "none", user |-> Null, id |-> Null, slug |-> Null]

(* A create names a custom slug or none; an owner's call and an            *)
(* administrator's name any identifier ever handed out.                    *)
Creates == [op : {"create"}, user : Users, id : {Null}, slug : Slugs \cup {Null}]
Changes == [op : OwnerOps, user : Users, id : LinkIds, slug : {Null}]
             \cup [op : AdminOps, user : {Null}, id : LinkIds, slug : {Null}]
Removals == [op : {"removeOverride"}, user : Users, id : {Null}, slug : {Null}]
Calls   == Creates \cup Changes \cup Removals

FirstStep(q) == CASE q \in Creates  -> "user"
                  [] q \in Changes  -> "find"
                  [] q \in Removals -> "findOverride"

Init == /\ TablesInit
        /\ pc = [r \in Requests |-> "idle"]
        /\ req = [r \in Requests |-> NoCall]
        /\ limit = [r \in Requests |-> 0]
        /\ chosen = [r \in Requests |-> Null]
        /\ tries = [r \in Requests |-> 0]
        /\ reply = [r \in Requests |-> 0]
-----------------------------------------------------------------------------
Goto(r, step) == pc' = [pc EXCEPT ![r] = step]

(* The handler returns or throws: the call is over. *)
Answer(r, status) == /\ Goto(r, "idle")
                     /\ req' = [req EXCEPT ![r] = NoCall]
                     /\ reply' = [reply EXCEPT ![r] = status]
                     /\ limit' = [limit EXCEPT ![r] = 0]
                     /\ chosen' = [chosen EXCEPT ![r] = Null]
                     /\ tries' = [tries EXCEPT ![r] = 0]

(* Bound: a create starts only while an identifier is left for it. *)
Creating == {r \in Requests : req[r].op = "create"}
IdLeft   == Cardinality(LinkIds \ usedIds) > Cardinality(Creating)

Start(r, q) == /\ pc[r] = "idle"
               /\ q.op = "create" => IdLeft
               /\ q.id # Null => q.id \in usedIds
               /\ Goto(r, FirstStep(q))
               /\ req' = [req EXCEPT ![r] = q]
               /\ reply' = [reply EXCEPT ![r] = 0]
               /\ UNCHANGED <<tables, locals>>

(* create: the user with plan and overrides, then the number of links. *)
ReadUser(r) == /\ pc[r] = "user"
               /\ limit' = [limit EXCEPT ![r] = Effective(req[r].user, "maxLinks")]
               /\ Goto(r, "count")
               /\ UNCHANGED <<tables, req, chosen, tries, reply>>

QuotaLeftOrEqual(r) == Cardinality(OwnedBy(req[r].user)) <= limit[r]   \* mutant: off by one
QuotaLeft(r)        == Cardinality(OwnedBy(req[r].user)) < limit[r]

CountLinks(r) == /\ pc[r] = "count"
                 /\ \/ /\ ~QuotaLeft(r)
                       /\ Answer(r, 422)
                    \/ /\ QuotaLeft(r)
                       /\ Goto(r, "slug")
                       /\ UNCHANGED <<req, locals, reply>>
                 /\ UNCHANGED tables

(* create: the custom slug is looked up once. *)
LookupCustom(r) ==
  LET s == req[r].slug IN
  /\ pc[r] = "slug" /\ s # Null
  /\ \/ /\ SlugTaken(s)
        /\ Answer(r, 409)
     \/ /\ ~SlugTaken(s)
        /\ chosen' = [chosen EXCEPT ![r] = s]
        /\ Goto(r, "insert")
        /\ UNCHANGED <<req, limit, tries, reply>>
  /\ UNCHANGED tables

SameAttempt(n) == n       \* mutant: the recursion does not count
NextAttempt(n) == n + 1
GivesUp(n)     == n > MaxAttempts

(* generateUniqueSlug: a random slug, another one while it is taken. *)
LookupAuto(r) ==
  /\ pc[r] = "slug" /\ req[r].slug = Null
  /\ \E s \in Slugs :
       \/ /\ SlugTaken(s) /\ GivesUp(NextAttempt(tries[r]))
          /\ Answer(r, 500)
       \/ /\ SlugTaken(s) /\ ~GivesUp(NextAttempt(tries[r]))
          /\ tries' = [tries EXCEPT ![r] = NextAttempt(@)]
          /\ UNCHANGED <<pc, req, limit, chosen, reply>>
       \/ /\ ~SlugTaken(s)
          /\ chosen' = [chosen EXCEPT ![r] = s]
          /\ Goto(r, "insert")
          /\ UNCHANGED <<req, limit, tries, reply>>
  /\ UNCHANGED tables

(* create: the unique index refuses a slug taken since the lookup, and the *)
(* exception filter turns Prisma's error into a 500.                       *)
InsertRow(r) ==
  /\ pc[r] = "insert"
  /\ \/ /\ SlugTaken(chosen[r])
        /\ Answer(r, 500)
        /\ UNCHANGED tables
     \/ /\ \E i \in LinkIds : InsertLink(i, req[r].user, chosen[r])
        /\ Answer(r, 201)

FindsAny(r) == Live(req[r].id)   \* mutant: the user is left out of the lookup

(* findFirst({id, userId}) for an owner, findUnique({id}) for an admin. *)
Finds(r) == /\ Live(req[r].id)
            /\ req[r].op \in OwnerOps => links[req[r].id].owner = req[r].user

(* Only an owner is told that there is nothing to do. *)
Redundant(r) == \/ req[r].op = "disable" /\ ~links[req[r].id].active
                \/ req[r].op = "enable" /\ links[req[r].id].active

FindLink(r) == /\ pc[r] = "find"
               /\ \/ ~Finds(r) /\ Answer(r, 404)
                  \/ Finds(r) /\ Redundant(r) /\ Answer(r, 409)
                  \/ /\ Finds(r) /\ ~Redundant(r)
                     /\ Goto(r, "write")
                     /\ UNCHANGED <<req, locals, reply>>
               /\ UNCHANGED tables

Write(op, i) == \/ op \in {"disable", "adminDisable"} /\ SetActive(i, FALSE)
                \/ op \in {"enable", "adminEnable"} /\ SetActive(i, TRUE)
                \/ op = "delete" /\ DeleteLink(i)

(* The write names the row by id alone; a row gone by now is a 500. *)
WriteLink(r) == /\ pc[r] = "write"
                /\ \/ ~Live(req[r].id) /\ Answer(r, 500) /\ UNCHANGED tables
                   \/ Write(req[r].op, req[r].id) /\ Answer(r, 200)

(* removeUserOverride: the row is looked up, then deleted. *)
FindOverride(r) == /\ pc[r] = "findOverride"
                   /\ \/ overrides[req[r].user] = Null /\ Answer(r, 404)
                      \/ /\ overrides[req[r].user] # Null
                         /\ Goto(r, "dropOverride")
                         /\ UNCHANGED <<req, locals, reply>>
                   /\ UNCHANGED tables

DropOverride(r) ==
  /\ pc[r] = "dropOverride"
  /\ \/ overrides[req[r].user] = Null /\ Answer(r, 500) /\ UNCHANGED tables
     \/ DeleteOverride(req[r].user) /\ Answer(r, 200)

(* updateUserOverride: one upsert, the user being there always. *)
SetOverride(u, dto) == /\ UpsertOverride(u, dto)
                       /\ UNCHANGED <<pc, req, locals, reply>>

(* Meanwhile a redirect disables a link whose clicks are used up. *)
AutoDisable(i) == /\ SetActive(i, FALSE)
                  /\ UNCHANGED <<pc, req, locals, reply>>

(* The process dies: every call in flight is gone, the tables stay. *)
Crash == /\ \E r \in Requests : pc[r] # "idle"
         /\ pc' = [r \in Requests |-> "idle"]
         /\ req' = [r \in Requests |-> NoCall]
         /\ limit' = [r \in Requests |-> 0]
         /\ chosen' = [r \in Requests |-> Null]
         /\ tries' = [r \in Requests |-> 0]
         /\ UNCHANGED <<tables, reply>>

Step(r) == \/ ReadUser(r) \/ CountLinks(r) \/ LookupCustom(r) \/ LookupAuto(r) \/ InsertRow(r)
           \/ FindLink(r) \/ WriteLink(r)
           \/ FindOverride(r) \/ DropOverride(r)

Next == \/ \E r \in Requests : Step(r) \/ \E q \in Calls : Start(r, q)
        \/ \E u \in Users, dto \in OverrideDtos : SetOverride(u, dto)
        \/ \E i \in LinkIds : AutoDisable(i)
        \/ Crash

Spec == Init /\ [][Next]_vars
-----------------------------------------------------------------------------
PcValues == {"idle", "user", "count", "slug", "insert", "find", "write",
             "findOverride", "dropOverride"}

TypeOK == /\ TablesTypeOK
          /\ pc \in [Requests -> PcValues]
          /\ req \in [Requests -> Calls \cup {NoCall}]
          /\ limit \in [Requests -> Nat]
          /\ chosen \in [Requests -> Slugs \cup {Null}]
          /\ tries \in [Requests -> 0..MaxAttempts]
          /\ reply \in [Requests -> {0, 200, 201, 404, 409, 422, 500}]

(* Two live links never share a slug, although every create looks its slug *)
(* up in one statement and inserts it in another.                          *)
SlugUnique == \A i, j \in LinkIds :
                Live(i) /\ Live(j) /\ links[i].slug = links[j].slug => i = j

(* maxLinks can be passed only by creates that counted at the same time:   *)
(* a user has at most the largest limit in force so far, and one link more *)
(* for each other request slot.                                            *)
QuotaOvershoot ==
  \A u \in Users : \E max \in Limits \cup {Plan["maxLinks"]} :
    Cardinality(OwnedBy(u)) <= max + Cardinality(Requests) - 1

(* A deleted link stays deleted: an enable or disable that had found it    *)
(* before does not bring it back.                                          *)
NoResurrection == [][\A i \in usedIds : ~Live(i) => ~Live(i)']_vars

(* A link is enabled or deleted only by a request of its owner or of an    *)
(* administrator, although the statement that writes no longer checks it;  *)
(* the redirect only disables.                                             *)
ByRequest(i) == \E r \in Requests : /\ pc[r] = "write" /\ req[r].id = i
                                    /\ req[r].op \in OwnerOps => req[r].user = links[i].owner
OwnersOnly ==
  [][\A i \in LinkIds : Live(i) /\ links'[i] # links[i] =>
       ByRequest(i) \/ links'[i] = [links[i] EXCEPT !.active = FALSE]]_vars

(* What the plan promises, taken literally. *)
QuotaRespected ==
  \A u \in Users : \E max \in Limits \cup {Plan["maxLinks"]} : Cardinality(OwnedBy(u)) <= max

(* A create that asks for a slug somebody has is told so: it is never      *)
(* answered with an internal error.                                        *)
SlugTakenIsConflict ==
  [][\A r \in Requests : req[r].op = "create" /\ req[r].slug # Null => reply'[r] # 500]_vars
=============================================================================
