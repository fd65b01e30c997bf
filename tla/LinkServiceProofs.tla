-------------------------- MODULE LinkServiceProofs --------------------------
(***************************************************************************)
(* What LinkService guarantees for any number of users, slugs, links and   *)
(* concurrent requests.                                                    *)
(***************************************************************************)
EXTENDS LinkService, LinkStoreProofs, FiniteSetTheorems

CreateSteps   == {"user", "count", "slug", "insert"}
ChangeSteps   == {"find", "write"}
OverrideSteps == {"findOverride", "dropOverride"}

MaxLinks == Limits \cup {Plan["maxLinks"]}

(* What a request has in hand at each of its statements. *)
FlowOf(r) ==
  /\ pc[r] = "idle" => req[r] = NoCall
  /\ pc[r] \in CreateSteps => req[r] \in Creates
  /\ pc[r] \in ChangeSteps => req[r] \in Changes /\ req[r].id \in usedIds
  /\ pc[r] \in OverrideSteps => req[r] \in Removals
  /\ pc[r] = "count" => limit[r] \in MaxLinks
  /\ pc[r] = "insert" => chosen[r] \in Slugs
Flow   == \A r \in Requests : FlowOf(r)
Typing == TypeOK /\ Flow

-----------------------------------------------------------------------------
(* The three families of calls are told apart by their op. *)
LEMMA CallsDisjoint ==
  /\ \A q \in Creates : q \notin Changes /\ q \notin Removals /\ FirstStep(q) = "user"
  /\ \A q \in Changes : q \notin Creates /\ q \notin Removals /\ FirstStep(q) = "find"
  /\ \A q \in Removals : q \notin Creates /\ q \notin Changes /\ FirstStep(q) = "findOverride"
  BY DEF Creates, Changes, Removals, FirstStep, OwnerOps, AdminOps

(* A limit in force is the plan's or a value an override can have. *)
LEMMA EffectiveLimit ==
  ASSUME TypeOK, NEW u \in Users
  PROVE  Effective(u, "maxLinks") \in MaxLinks /\ Effective(u, "maxLinks") \in Nat
<1>1. Plan["maxLinks"] \in Nat
  BY PlanAssumption, AttemptsAssumption
<1>2. CASE overrides[u] = Null \/ overrides[u]["maxLinks"] = Null
  BY <1>1, <1>2 DEF Effective, MaxLinks
<1>3. CASE ~(overrides[u] = Null \/ overrides[u]["maxLinks"] = Null)
  <2>1. overrides[u] \in Override
    BY <1>3 DEF TypeOK, TablesTypeOK
  <2>2. overrides[u]["maxLinks"] \in Limits
    BY <1>3, <2>1, AttemptsAssumption DEF Override
  <2> QED BY <1>3, <2>2, PlanAssumption DEF Effective, MaxLinks
<1> QED BY <1>2, <1>3

-----------------------------------------------------------------------------
(* The rows of a request's own state stay typed when its call ends. *)
LEMMA AnswerTyping ==
  ASSUME Typing, NEW r \in Requests, NEW n \in {200, 201, 404, 409, 422, 500},
         Answer(r, n), TablesTypeOK', usedIds \subseteq usedIds'
  PROVE  Typing'
<1> USE DEF Typing, TypeOK
<1>1. TypeOK'
  <2>1. /\ pc' \in [Requests -> PcValues] /\ req' \in [Requests -> Calls \cup {NoCall}]
        /\ chosen' \in [Requests -> Slugs \cup {Null}]
    BY DEF Answer, Goto, PcValues
  <2>2. /\ limit' \in [Requests -> Nat] /\ tries' \in [Requests -> 0..MaxAttempts]
        /\ reply' \in [Requests -> {0, 200, 201, 404, 409, 422, 500}]
    BY AttemptsAssumption DEF Answer
  <2> QED BY <2>1, <2>2
<1>2. ASSUME NEW q \in Requests PROVE FlowOf(q)'
  <2>1. CASE q = r
    BY <2>1 DEF Answer, Goto, FlowOf, CreateSteps, ChangeSteps, OverrideSteps
  <2>2. CASE q # r
    <3>1. FlowOf(q)
      BY DEF Flow
    <3>2. pc'[q] = pc[q] /\ req'[q] = req[q] /\ limit'[q] = limit[q] /\ chosen'[q] = chosen[q]
      BY <2>2 DEF Answer, Goto
    <3> QED BY <3>1, <3>2 DEF FlowOf
  <2> QED BY <2>1, <2>2
<1> QED BY <1>1, <1>2 DEF Flow

(* So do they when it moves on to its next statement. *)
LEMMA GotoTyping ==
  ASSUME Typing, NEW r \in Requests, NEW step \in PcValues, Goto(r, step),
         UNCHANGED <<tables, req, reply>>,
         limit' \in [Requests -> Nat], chosen' \in [Requests -> Slugs \cup {Null}],
         tries' \in [Requests -> 0..MaxAttempts],
         \A q \in Requests \ {r} : limit'[q] = limit[q] /\ chosen'[q] = chosen[q],
         FlowOf(r)'
  PROVE  Typing'
<1> USE DEF Typing, TypeOK
<1>1. TypeOK'
  BY DEF Goto, tables, TablesTypeOK
<1>2. ASSUME NEW q \in Requests PROVE FlowOf(q)'
  <2>1. CASE q # r
    <3>1. FlowOf(q)
      BY DEF Flow
    <3>2. pc'[q] = pc[q] /\ req'[q] = req[q] /\ limit'[q] = limit[q] /\ chosen'[q] = chosen[q]
      BY <2>1 DEF Goto
    <3> QED BY <3>1, <3>2 DEF FlowOf, tables
  <2> QED BY <2>1
<1> QED BY <1>1, <1>2 DEF Flow

-----------------------------------------------------------------------------
(* Every statement leaves the state typed and the flow intact. *)
LEMMA TypingStep == Typing /\ [Next]_vars => Typing'
<1> SUFFICES ASSUME Typing, [Next]_vars PROVE Typing'
  OBVIOUS
<1> USE AttemptsAssumption
<1>t. TypeOK /\ TablesTypeOK /\ Flow
  BY DEF Typing, TypeOK
<1>f. \A r \in Requests : FlowOf(r)
  BY <1>t DEF Flow
<1>k. UNCHANGED tables => TablesTypeOK' /\ usedIds \subseteq usedIds'
  BY <1>t DEF tables, TablesTypeOK
<1>a. ASSUME NEW r \in Requests, NEW n \in {200, 201, 404, 409, 422, 500},
             Answer(r, n), UNCHANGED tables
      PROVE  Typing'
  BY <1>a, <1>k, AnswerTyping
<1>0. ASSUME NEW r \in Requests, NEW q \in Calls, Start(r, q) PROVE Typing'
  <2>1. /\ pc' = [pc EXCEPT ![r] = FirstStep(q)] /\ req' = [req EXCEPT ![r] = q]
        /\ UNCHANGED <<tables, locals>> /\ reply' = [reply EXCEPT ![r] = 0]
        /\ q.id # Null => q.id \in usedIds
    BY <1>0 DEF Start, Goto
  <2>2. \/ q \in Creates /\ FirstStep(q) = "user"
        \/ q \in Changes /\ FirstStep(q) = "find" /\ q.id \in LinkIds
        \/ q \in Removals /\ FirstStep(q) = "findOverride"
    BY CallsDisjoint DEF Calls, Changes
  <2>3. TypeOK'
    <3>1. FirstStep(q) \in PcValues
      BY <2>2 DEF PcValues
    <3> QED BY <2>1, <3>1, <1>t DEF TypeOK, TablesTypeOK, tables, locals
  <2>4. ASSUME NEW p \in Requests PROVE FlowOf(p)'
    <3>1. CASE p # r
      BY <3>1, <2>1, <1>f DEF FlowOf, tables, locals, TypeOK
    <3>2. CASE p = r
      <4>1. pc'[r] = FirstStep(q) /\ req'[r] = q /\ usedIds' = usedIds
        BY <2>1, <1>t DEF TypeOK, tables
      <4>2. q \in Changes => q.id \in usedIds
        BY <2>1, NullAssumption DEF Changes
      <4> QED BY <3>2, <4>1, <4>2, <2>2 DEF FlowOf, CreateSteps, ChangeSteps, OverrideSteps
    <3> QED BY <3>1, <3>2
  <2> QED BY <2>3, <2>4 DEF Typing, Flow
<1>1. ASSUME NEW r \in Requests, ReadUser(r) PROVE Typing'
  <2>1. req[r] \in Creates /\ req[r].user \in Users
    BY <1>1, <1>f DEF ReadUser, FlowOf, CreateSteps, Creates
  <2> DEFINE m == Effective(req[r].user, "maxLinks")
  <2>2. m \in MaxLinks /\ m \in Nat
    BY <2>1, <1>t, EffectiveLimit
  <2> HIDE DEF m
  <2>3. Goto(r, "count") /\ UNCHANGED <<tables, req, chosen, tries, reply>>
        /\ limit' = [limit EXCEPT ![r] = m]
    BY <1>1 DEF ReadUser, m
  <2>4. FlowOf(r)'
    BY <2>1, <2>2, <2>3, <1>t DEF FlowOf, Goto, TypeOK, CreateSteps, ChangeSteps, OverrideSteps
  <2> QED BY <2>2, <2>3, <2>4, <1>t, GotoTyping DEF TypeOK, PcValues
<1>2. ASSUME NEW r \in Requests, CountLinks(r) PROVE Typing'
  <2>1. CASE Answer(r, 422)
    BY <1>2, <2>1, <1>a DEF CountLinks
  <2>2. CASE Goto(r, "slug") /\ UNCHANGED <<tables, req, locals, reply>>
    <3>1. req[r] \in Creates
      BY <1>2, <1>f DEF CountLinks, FlowOf, CreateSteps
    <3>2. FlowOf(r)'
      BY <2>2, <3>1, <1>t DEF FlowOf, Goto, TypeOK, CreateSteps, ChangeSteps, OverrideSteps
    <3> QED BY <2>2, <3>2, <1>t, GotoTyping DEF TypeOK, PcValues, locals
  <2> QED BY <1>2, <2>1, <2>2 DEF CountLinks
<1>3. ASSUME NEW r \in Requests, LookupCustom(r) \/ LookupAuto(r) PROVE Typing'
  <2>1. req[r] \in Creates /\ pc[r] = "slug"
    BY <1>3, <1>f DEF LookupCustom, LookupAuto, FlowOf, CreateSteps
  <2>2. CASE \E n \in {409, 500} : Answer(r, n)
    BY <1>3, <2>2, <1>a DEF LookupCustom, LookupAuto
  <2>3. ASSUME NEW s \in Slugs, chosen' = [chosen EXCEPT ![r] = s], Goto(r, "insert"),
               UNCHANGED <<tables, req, limit, tries, reply>>
        PROVE  Typing'
    <3>1. FlowOf(r)'
      BY <2>1, <2>3, <1>t DEF FlowOf, Goto, TypeOK, CreateSteps, ChangeSteps, OverrideSteps
    <3> QED BY <2>3, <3>1, <1>t, GotoTyping DEF TypeOK, PcValues
  <2>4. ASSUME ~GivesUp(NextAttempt(tries[r])), tries' = [tries EXCEPT ![r] = NextAttempt(@)],
               UNCHANGED <<tables, pc, req, limit, chosen, reply>>
        PROVE  Typing'
    <3>1. TypeOK'
      BY <2>4, <1>t DEF TypeOK, TablesTypeOK, tables, GivesUp, NextAttempt
    <3>2. Flow'
      BY <2>4, <1>f DEF Flow, FlowOf, tables
    <3> QED BY <3>1, <3>2 DEF Typing
  <2>5. CASE LookupCustom(r)
    <3>1. req[r].slug \in Slugs
      BY <2>1, <2>5 DEF LookupCustom, Creates
    <3> QED BY <2>5, <2>2, <2>3, <3>1 DEF LookupCustom
  <2>6. CASE LookupAuto(r)
    BY <2>6, <2>2, <2>3, <2>4 DEF LookupAuto
  <2> QED BY <1>3, <2>5, <2>6
<1>4. ASSUME NEW r \in Requests, InsertRow(r) PROVE Typing'
  <2>1. req[r].user \in Users /\ chosen[r] \in Slugs
    BY <1>4, <1>f DEF InsertRow, FlowOf, CreateSteps, Creates
  <2>2. CASE Answer(r, 500) /\ UNCHANGED tables
    BY <2>2, <1>a
  <2>3. ASSUME NEW i \in LinkIds, InsertLink(i, req[r].user, chosen[r]), Answer(r, 201)
        PROVE  Typing'
    BY <2>3, <2>1, <1>t, InsertTyping, AnswerTyping
  <2> QED BY <1>4, <2>2, <2>3 DEF InsertRow
<1>5. ASSUME NEW r \in Requests, FindLink(r) PROVE Typing'
  <2>1. CASE \E n \in {404, 409} : Answer(r, n)
    BY <1>5, <2>1, <1>a DEF FindLink
  <2>2. CASE Goto(r, "write") /\ UNCHANGED <<tables, req, locals, reply>>
    <3>1. req[r] \in Changes /\ req[r].id \in usedIds
      BY <1>5, <1>f DEF FindLink, FlowOf, ChangeSteps
    <3>2. FlowOf(r)'
      BY <2>2, <3>1, <1>t DEF FlowOf, Goto, TypeOK, CreateSteps, ChangeSteps, OverrideSteps, tables
    <3> QED BY <2>2, <3>2, <1>t, GotoTyping DEF TypeOK, PcValues, locals
  <2> QED BY <1>5, <2>1, <2>2 DEF FindLink
<1>6. ASSUME NEW r \in Requests, WriteLink(r) PROVE Typing'
  <2>1. req[r].id \in LinkIds
    BY <1>6, <1>f DEF WriteLink, FlowOf, ChangeSteps, Changes
  <2>2. CASE Answer(r, 500) /\ UNCHANGED tables
    BY <2>2, <1>a
  <2>3. CASE Write(req[r].op, req[r].id) /\ Answer(r, 200)
    <3>1. TablesTypeOK' /\ usedIds \subseteq usedIds'
      BY <2>1, <2>3, <1>t, SetActiveTyping, DeleteTyping DEF Write
    <3> QED BY <2>3, <3>1, AnswerTyping
  <2> QED BY <1>6, <2>2, <2>3 DEF WriteLink
<1>7. ASSUME NEW r \in Requests, FindOverride(r) \/ DropOverride(r) PROVE Typing'
  <2>1. req[r] \in Removals /\ req[r].user \in Users
    BY <1>7, <1>f DEF FindOverride, DropOverride, FlowOf, OverrideSteps, Removals
  <2>2. CASE \E n \in {404, 500} : Answer(r, n) /\ UNCHANGED tables
    BY <2>2, <1>a
  <2>3. CASE Goto(r, "dropOverride") /\ UNCHANGED <<tables, req, locals, reply>>
    <3>1. FlowOf(r)'
      BY <2>1, <2>3, <1>t DEF FlowOf, Goto, TypeOK, CreateSteps, ChangeSteps, OverrideSteps
    <3> QED BY <2>3, <3>1, <1>t, GotoTyping DEF TypeOK, PcValues, locals
  <2>4. CASE DeleteOverride(req[r].user) /\ Answer(r, 200)
    BY <2>1, <2>4, <1>t, DeleteOverrideTyping, AnswerTyping
  <2> QED BY <1>7, <2>2, <2>3, <2>4 DEF FindOverride, DropOverride
<1>8. ASSUME NEW u \in Users, NEW dto \in OverrideDtos, SetOverride(u, dto) PROVE Typing'
  <2>1. TablesTypeOK' /\ usedIds' = usedIds
    BY <1>8, <1>t, UpsertTyping DEF SetOverride, UpsertOverride
  <2>2. UNCHANGED <<pc, req, limit, chosen, tries, reply>>
    BY <1>8 DEF SetOverride, locals
  <2> QED BY <2>1, <2>2, <1>t, <1>f DEF Typing, TypeOK, Flow, FlowOf
<1>9. ASSUME NEW i \in LinkIds, AutoDisable(i) PROVE Typing'
  <2>1. TablesTypeOK' /\ usedIds' = usedIds
    BY <1>9, <1>t, SetActiveTyping DEF AutoDisable
  <2>2. UNCHANGED <<pc, req, limit, chosen, tries, reply>>
    BY <1>9 DEF AutoDisable, locals
  <2> QED BY <2>1, <2>2, <1>t, <1>f DEF Typing, TypeOK, Flow, FlowOf
<1>10. CASE Crash
  <2>1. TypeOK'
    BY <1>10, <1>t, <1>k DEF Crash, TypeOK, PcValues
  <2>2. Flow'
    BY <1>10 DEF Crash, Flow, FlowOf, CreateSteps, ChangeSteps, OverrideSteps
  <2> QED BY <2>1, <2>2 DEF Typing
<1>11. CASE UNCHANGED vars
  BY <1>11, <1>t, <1>f DEF vars, locals, tables, Typing, TypeOK, TablesTypeOK, Flow, FlowOf
<1> QED BY <1>0, <1>1, <1>2, <1>3, <1>4, <1>5, <1>6, <1>7, <1>8, <1>9, <1>10, <1>11 DEF Next, Step

(* Types and flow hold throughout. *)
LEMMA TypingInvariant == Spec => []Typing
<1>1. Init => Typing
  BY AttemptsAssumption DEF Init, TablesInit, Typing, TypeOK, TablesTypeOK, Flow, FlowOf, PcValues,
     CreateSteps, ChangeSteps, OverrideSteps
<1> QED BY <1>1, TypingStep, PTL DEF Spec

(* Type correctness, for any number of requests in flight. *)
THEOREM TypeCorrect == Spec => []TypeOK
  BY TypingInvariant, PTL DEF Typing

-----------------------------------------------------------------------------
(* The only statements that touch the links table. *)
Inserts(r, i) == pc[r] = "insert" /\ InsertLink(i, req[r].user, chosen[r])
Overwrites(i) == (\E on \in BOOLEAN : SetActive(i, on)) \/ DeleteLink(i)
Writes(r)     == pc[r] = "write" /\ Overwrites(req[r].id)
Disables      == (\E i \in LinkIds : SetActive(i, FALSE)) /\ UNCHANGED <<pc, req>>

(* Every step leaves the links alone, inserts one or writes one. *)
LEMMA LinksChange ==
  ASSUME [Next]_vars
  PROVE  \/ UNCHANGED <<links, usedIds>>
         \/ \E r \in Requests, i \in LinkIds : Inserts(r, i) /\ Answer(r, 201)
         \/ \E r \in Requests : Writes(r)
         \/ Disables
<1> DEFINE Goal == \/ UNCHANGED <<links, usedIds>>
                   \/ \E r \in Requests, i \in LinkIds : Inserts(r, i) /\ Answer(r, 201)
                   \/ \E r \in Requests : Writes(r)
                   \/ Disables
<1>1. ASSUME NEW r \in Requests, InsertRow(r) PROVE Goal
  BY <1>1 DEF InsertRow, Inserts, tables
<1>2. ASSUME NEW r \in Requests, WriteLink(r) PROVE Goal
  <2>1. pc[r] = "write"
    BY <1>2 DEF WriteLink
  <2>2. CASE UNCHANGED tables
    BY <2>2 DEF tables
  <2>3. CASE Write(req[r].op, req[r].id)
    <3>1. Overwrites(req[r].id)
      BY <2>3, Zenon DEF Write, Overwrites
    <3> QED BY <2>1, <3>1 DEF Writes
  <2> QED BY <1>2, <2>2, <2>3 DEF WriteLink
<1>3. ASSUME NEW r \in Requests,
             \/ ReadUser(r) \/ CountLinks(r) \/ LookupCustom(r) \/ LookupAuto(r) \/ FindLink(r)
             \/ FindOverride(r) \/ DropOverride(r) \/ \E q \in Calls : Start(r, q)
      PROVE  UNCHANGED <<links, usedIds>>
  BY <1>3 DEF ReadUser, CountLinks, LookupCustom, LookupAuto, FindLink, FindOverride, DropOverride,
              DeleteOverride, Start, tables
<1>4. ASSUME NEW u \in Users, NEW dto \in OverrideDtos, SetOverride(u, dto)
      PROVE  UNCHANGED <<links, usedIds>>
  BY <1>4 DEF SetOverride, UpsertOverride
<1>5. Crash \/ UNCHANGED vars => UNCHANGED <<links, usedIds>>
  BY DEF Crash, vars, tables
<1>6. ASSUME NEW i \in LinkIds, AutoDisable(i) PROVE Disables
  BY <1>6 DEF AutoDisable, Disables
<1> QED BY <1>1, <1>2, <1>3, <1>4, <1>5, <1>6 DEF Next, Step

(* A write leaves owners and slugs alone, and revives nothing. *)
LEMMA WriteKeepsRows ==
  ASSUME TypeOK, (\E r \in Requests : Writes(r)) \/ Disables
  PROVE  \A i \in LinkIds : Live(i)' => /\ Live(i)
                                        /\ links'[i].owner = links[i].owner
                                        /\ links'[i].slug = links[i].slug
<1> DEFINE Kept(i) == Live(i)' => /\ Live(i)
                                  /\ links'[i].owner = links[i].owner
                                  /\ links'[i].slug = links[i].slug
<1>0. PICK x : Overwrites(x)
  BY DEF Writes, Disables, Overwrites
<1>1. \A i \in LinkIds : Live(i) => links[i] \in Link
  BY DEF TypeOK, TablesTypeOK, Live
<1>2. CASE DeleteLink(x)
  BY <1>2 DEF DeleteLink, TypeOK, TablesTypeOK, Live
<1>3. ASSUME NEW on \in BOOLEAN, SetActive(x, on), NEW i \in LinkIds PROVE Kept(i)
  <2>1. CASE i # x
    BY <1>3, <2>1 DEF SetActive, TypeOK, TablesTypeOK, Live
  <2>2. CASE i = x
    <3>1. links'[i] = [links[i] EXCEPT !.active = on] /\ links[i] \in Link /\ Live(i)
      BY <1>1, <1>3, <2>2 DEF SetActive, TypeOK, TablesTypeOK
    <3> QED BY <3>1 DEF Link
  <2> QED BY <2>1, <2>2
<1> QED BY <1>0, <1>2, <1>3 DEF Overwrites

(* No two live links share a slug, whatever the interleaving of lookups    *)
(* and inserts: the unique index is what guarantees it.                    *)
THEOREM SlugsUnique == Spec => []SlugUnique
<1>1. Init => SlugUnique
  BY DEF Init, TablesInit, SlugUnique, Live
<1>2. Typing /\ SlugUnique /\ [Next]_vars => SlugUnique'
  <2> SUFFICES ASSUME Typing, SlugUnique, [Next]_vars PROVE SlugUnique'
    OBVIOUS
  <2>1. CASE UNCHANGED <<links, usedIds>>
    BY <2>1 DEF SlugUnique, Live
  <2>2. ASSUME NEW r \in Requests, NEW i \in LinkIds, Inserts(r, i) PROVE SlugUnique'
    BY <2>2 DEF Inserts, InsertLink, SlugTaken, SlugUnique, Live, Typing, TypeOK, TablesTypeOK
  <2>3. CASE (\E r \in Requests : Writes(r)) \/ Disables
    BY <2>3, WriteKeepsRows DEF SlugUnique, Typing
  <2> QED BY <2>1, <2>2, <2>3, LinksChange
<1> QED BY <1>1, <1>2, TypingInvariant, PTL DEF Spec

(* A deleted link is gone for good: no request in flight brings it back. *)
THEOREM DeletedStaysDeleted == Spec => NoResurrection
<1>1. Typing /\ [Next]_vars => [\A i \in usedIds : ~Live(i) => ~Live(i)']_vars
  <2> SUFFICES ASSUME Typing, [Next]_vars, NEW i \in usedIds, ~Live(i) PROVE ~Live(i)'
    OBVIOUS
  <2>0. i \in LinkIds
    BY DEF Typing, TypeOK, TablesTypeOK
  <2>1. CASE UNCHANGED <<links, usedIds>>
    BY <2>1 DEF Live
  <2>2. ASSUME NEW r \in Requests, NEW j \in LinkIds, Inserts(r, j) PROVE ~Live(i)'
    BY <2>2, <2>0 DEF Inserts, InsertLink, Live, Typing, TypeOK, TablesTypeOK
  <2>3. CASE (\E r \in Requests : Writes(r)) \/ Disables
    BY <2>3, <2>0, WriteKeepsRows DEF Typing
  <2> QED BY <2>1, <2>2, <2>3, LinksChange
<1> QED BY <1>1, TypingInvariant, PTL DEF Spec, NoResurrection

-----------------------------------------------------------------------------
(* The next statement of r, if the step is r's. *)
Returns(r)        == \E n \in {200, 201, 404, 409, 422, 500} : Answer(r, n)
Advances(r, step) == Goto(r, step) /\ UNCHANGED <<tables, req>>

(* A step moves one request, along the order of the statements, and a      *)
(* request reaches "write" only by finding its link.                       *)
LEMMA ControlChange ==
  ASSUME [Next]_vars
  PROVE  \/ UNCHANGED <<pc, req>>
         \/ Crash
         \/ \E r \in Requests :
              \/ Returns(r)
              \/ \E q \in Calls : /\ Goto(r, FirstStep(q))
                                  /\ req' = [req EXCEPT ![r] = q]
                                  /\ UNCHANGED tables
              \/ pc[r] = "count" /\ QuotaLeft(r) /\ Advances(r, "slug")
              \/ \E step \in {"count", "insert", "dropOverride"} : Advances(r, step)
                                       /\ (step = "insert" => pc[r] = "slug")
              \/ Finds(r) /\ Advances(r, "write")
<1>1. ASSUME NEW r \in Requests, NEW q \in Calls, Start(r, q)
      PROVE  Goto(r, FirstStep(q)) /\ req' = [req EXCEPT ![r] = q] /\ UNCHANGED tables
  BY <1>1 DEF Start
<1>2. ASSUME NEW r \in Requests, ReadUser(r) PROVE Advances(r, "count")
  BY <1>2 DEF ReadUser, Advances
<1>3. ASSUME NEW r \in Requests, CountLinks(r)
      PROVE  Returns(r) \/ (pc[r] = "count" /\ QuotaLeft(r) /\ Advances(r, "slug"))
  BY <1>3 DEF CountLinks, Returns, Advances
<1>4. ASSUME NEW r \in Requests, LookupCustom(r) \/ LookupAuto(r)
      PROVE  \/ Returns(r) \/ UNCHANGED <<pc, req>>
             \/ pc[r] = "slug" /\ Advances(r, "insert")
  BY <1>4 DEF LookupCustom, LookupAuto, Returns, Advances
<1>5. ASSUME NEW r \in Requests, InsertRow(r) \/ WriteLink(r) \/ DropOverride(r) PROVE Returns(r)
  BY <1>5 DEF InsertRow, WriteLink, DropOverride, Returns
<1>6. ASSUME NEW r \in Requests, FindLink(r)
      PROVE  Returns(r) \/ (Finds(r) /\ Advances(r, "write"))
  BY <1>6 DEF FindLink, Returns, Advances
<1>7. ASSUME NEW r \in Requests, FindOverride(r)
      PROVE  Returns(r) \/ Advances(r, "dropOverride")
  BY <1>7 DEF FindOverride, Returns, Advances
<1>8. /\ \A u \in Users, dto \in OverrideDtos : SetOverride(u, dto) => UNCHANGED <<pc, req>>
      /\ \A i \in LinkIds : AutoDisable(i) => UNCHANGED <<pc, req>>
  BY DEF SetOverride, AutoDisable
<1>9. UNCHANGED vars => UNCHANGED <<pc, req>>
  BY DEF vars
<1> QED BY <1>1, <1>2, <1>3, <1>4, <1>5, <1>6, <1>7, <1>8, <1>9 DEF Next, Step

(* A request that has found its link may write it: it is the owner's, or   *)
(* an administrator's, and the identifier cannot come to name another row. *)
Entitled == \A r \in Requests :
              pc[r] = "write" /\ Live(req[r].id) /\ req[r].op \in OwnerOps
                => links[req[r].id].owner = req[r].user

(* A request at "write" on behalf of an owner is the owner's: no step can  *)
(* take that away, as owners never change and identifiers are never reused.*)
LEMMA EntitledStep == Typing /\ Entitled /\ [Next]_vars => Entitled'
<1> SUFFICES ASSUME Typing, Entitled, [Next]_vars, NEW r \in Requests,
                    pc'[r] = "write", Live(req[r].id)', req'[r].op \in OwnerOps
             PROVE  links'[req'[r].id].owner = req'[r].user
  BY DEF Entitled
<1>f. TypeOK /\ FlowOf(r)
  BY DEF Typing, Flow
<1>1. CASE pc[r] = "write" /\ req'[r] = req[r]
  <2>0. req[r].id \in LinkIds /\ req[r].id \in usedIds
    BY <1>1, <1>f DEF FlowOf, ChangeSteps, Changes
  <2>1. CASE UNCHANGED <<links, usedIds>>
    BY <1>1, <2>1 DEF Entitled, Live
  <2>2. ASSUME NEW q \in Requests, NEW i \in LinkIds, Inserts(q, i)
        PROVE  links'[req[r].id] = links[req[r].id]
    BY <2>2, <2>0, <1>f DEF Inserts, InsertLink, TypeOK, TablesTypeOK
  <2>3. ASSUME (\E q \in Requests : Writes(q)) \/ Disables
        PROVE  Live(req[r].id) /\ links'[req[r].id].owner = links[req[r].id].owner
    BY <1>1, <2>0, <2>3, <1>f, WriteKeepsRows DEF Live
  <2> QED BY <1>1, <2>1, <2>2, <2>3, LinksChange DEF Entitled, Live
<1>2. CASE ~(pc[r] = "write" /\ req'[r] = req[r])
  <2>1. Finds(r) /\ UNCHANGED <<tables, req>>
    <3>0. ~Crash
      BY DEF Crash
    <3>1. PICK q \in Requests :
              \/ Returns(q)
              \/ \E c \in Calls : /\ Goto(q, FirstStep(c))
                                  /\ req' = [req EXCEPT ![q] = c]
              \/ \E step \in {"slug", "count", "insert", "dropOverride"} : Advances(q, step)
              \/ Finds(q) /\ Advances(q, "write")
      BY <1>2, <3>0, ControlChange, Zenon
    <3>2. q = r
      BY <1>2, <1>f, <3>1 DEF Returns, Answer, Goto, Advances, TypeOK
    <3>3. \A c \in Calls : FirstStep(c) # "write"
      BY CallsDisjoint DEF Calls
    <3> QED BY <1>f, <3>1, <3>2, <3>3 DEF Returns, Answer, Goto, Advances, TypeOK
  <2> QED BY <2>1, <1>f DEF Finds, tables, Live
<1> QED BY <1>1, <1>2

(* Every change of a link is its owner's or an administrator's, although   *)
(* the check and the write are two statements, or the redirect's disable.  *)
THEOREM OnlyOwnersWrite == Spec => OwnersOnly
<1> DEFINE Justified(i) == ByRequest(i) \/ links'[i] = [links[i] EXCEPT !.active = FALSE]
           Owned        == \A i \in LinkIds : Live(i) /\ links'[i] # links[i] => Justified(i)
<1>1. Init => Entitled
  BY DEF Init, Entitled
<1>2. Typing /\ Entitled /\ [Next]_vars => [Owned]_vars
  <2> SUFFICES ASSUME Typing, Entitled, [Next]_vars, NEW i \in LinkIds, Live(i), links'[i] # links[i]
               PROVE  Justified(i)
    OBVIOUS
  <2>1. CASE UNCHANGED <<links, usedIds>>
    BY <2>1
  <2>2. ASSUME NEW r \in Requests, NEW j \in LinkIds, Inserts(r, j) PROVE FALSE
    BY <2>2 DEF Inserts, InsertLink, Live, Typing, TypeOK, TablesTypeOK
  <2>4. CASE Disables
    <3>1. PICK x \in LinkIds : SetActive(x, FALSE)
      BY <2>4 DEF Disables
    <3>2. x = i
      BY <3>1 DEF SetActive, Typing, TypeOK, TablesTypeOK
    <3> QED BY <3>1, <3>2 DEF SetActive, Typing, TypeOK, TablesTypeOK
  <2>3. ASSUME NEW r \in Requests, Writes(r) PROVE ByRequest(i)
    <3>1. req[r].id = i
      <4>1. CASE DeleteLink(req[r].id)
        BY <4>1 DEF DeleteLink, Typing, TypeOK, TablesTypeOK
      <4>2. ASSUME NEW on \in BOOLEAN, SetActive(req[r].id, on) PROVE req[r].id = i
        BY <4>2 DEF SetActive, Typing, TypeOK, TablesTypeOK
      <4> QED BY <2>3, <4>1, <4>2 DEF Writes, Overwrites
    <3>2. pc[r] = "write"
      BY <2>3 DEF Writes
    <3> QED BY <3>1, <3>2 DEF Entitled, ByRequest
  <2> QED BY <2>1, <2>2, <2>3, <2>4, LinksChange
<1>3. Typing /\ Entitled /\ [Next]_vars => Entitled'
  BY EntitledStep
<1> QED BY <1>1, <1>2, <1>3, TypingInvariant, PTL DEF Spec, OwnersOnly

-----------------------------------------------------------------------------
(* The creates that have passed the quota check and not yet inserted.  A   *)
(* user's links and passed creates together stay within the quota but for  *)
(* the other requests: a create passes the check only below the quota, and *)
(* an insert trades a passed create for a link.                            *)
Passed(u) == {r \in Requests : req[r].op = "create" /\ req[r].user = u /\ pc[r] \in {"slug", "insert"}}
QuotaInv  == \A u \in Users : \E max \in MaxLinks :
               Cardinality(OwnedBy(u)) + Cardinality(Passed(u)) <= max + Cardinality(Requests) - 1

(* Both sets are finite, and the passed creates are no more than the slots.*)
LEMMA QuotaSets ==
  /\ Cardinality(Requests) \in Nat /\ Cardinality(Requests) >= 1
  /\ \A u : /\ IsFiniteSet(OwnedBy(u)) /\ Cardinality(OwnedBy(u)) \in Nat
            /\ IsFiniteSet(Passed(u)) /\ Cardinality(Passed(u)) \in Nat
            /\ Cardinality(Passed(u)) <= Cardinality(Requests)
<1>1. Cardinality(Requests) \in Nat /\ Cardinality(Requests) # 0
  BY RequestsAssumption, FS_CardinalityType, FS_EmptySet
<1>2. ASSUME NEW u PROVE IsFiniteSet(OwnedBy(u)) /\ Cardinality(OwnedBy(u)) \in Nat
  <2>1. OwnedBy(u) \in SUBSET LinkIds
    BY DEF OwnedBy
  <2> QED BY <2>1, IdsAssumption, FS_Subset, FS_CardinalityType
<1>3. ASSUME NEW u
      PROVE  /\ IsFiniteSet(Passed(u)) /\ Cardinality(Passed(u)) \in Nat
             /\ Cardinality(Passed(u)) <= Cardinality(Requests)
  <2>1. Passed(u) \in SUBSET Requests
    BY DEF Passed
  <2> QED BY <2>1, RequestsAssumption, FS_Subset, FS_CardinalityType
<1> QED BY <1>1, <1>2, <1>3

(* The limits in force are natural numbers. *)
LEMMA LimitsAreNumbers == MaxLinks \subseteq Nat
  BY PlanAssumption, AttemptsAssumption DEF MaxLinks

(* A user with no more links and no more passed creates than before. *)
LEMMA QuotaShrinks ==
  ASSUME QuotaInv, NEW u \in Users, OwnedBy(u)' \subseteq OwnedBy(u), Passed(u)' \subseteq Passed(u)
  PROVE  \E max \in MaxLinks :
           Cardinality(OwnedBy(u)') + Cardinality(Passed(u)') <= max + Cardinality(Requests) - 1
<1>1. Cardinality(OwnedBy(u)') <= Cardinality(OwnedBy(u)) /\ Cardinality(OwnedBy(u)') \in Nat
  BY QuotaSets, FS_Subset, FS_CardinalityType
<1>2. Cardinality(Passed(u)') <= Cardinality(Passed(u)) /\ Cardinality(Passed(u)') \in Nat
  BY QuotaSets, FS_Subset, FS_CardinalityType
<1> QED BY <1>1, <1>2, QuotaSets, LimitsAreNumbers DEF QuotaInv

(* Every step keeps the quota invariant. *)
LEMMA QuotaStep == Typing /\ QuotaInv /\ [Next]_vars => QuotaInv'
<1> SUFFICES ASSUME Typing, QuotaInv, [Next]_vars, NEW u \in Users
             PROVE  \E max \in MaxLinks : Cardinality(OwnedBy(u)') + Cardinality(Passed(u)')
                                            <= max + Cardinality(Requests) - 1
  BY DEF QuotaInv
<1> DEFINE Goal == \E max \in MaxLinks : Cardinality(OwnedBy(u)') + Cardinality(Passed(u)')
                                           <= max + Cardinality(Requests) - 1
<1>t. TypeOK /\ TablesTypeOK /\ \A r \in Requests : FlowOf(r)
  BY DEF Typing, TypeOK, Flow
(* An insert of u's: one link more, one passed create less. *)
<1>1. ASSUME NEW r \in Requests, NEW i \in LinkIds, Inserts(r, i), Answer(r, 201), req[r].user = u
      PROVE  Goal
  <2>1. OwnedBy(u)' \subseteq OwnedBy(u) \cup {i}
    BY <1>1, <1>t DEF Inserts, InsertLink, OwnedBy, Live, TablesTypeOK
  <2>2. Passed(u)' = Passed(u) \ {r}
    BY <1>1, <1>t DEF Answer, Goto, Passed, TypeOK, NoCall
  <2>3. r \in Passed(u)
    BY <1>1, <1>t DEF Inserts, Passed, FlowOf, CreateSteps, Creates
  <2>4. /\ Cardinality(OwnedBy(u)') <= Cardinality(OwnedBy(u)) + 1
        /\ Cardinality(OwnedBy(u)') \in Nat
    <3>1. /\ IsFiniteSet(OwnedBy(u) \cup {i})
          /\ Cardinality(OwnedBy(u) \cup {i}) <= Cardinality(OwnedBy(u)) + 1
      <4>1. IsFiniteSet(OwnedBy(u)) /\ Cardinality(OwnedBy(u)) \in Nat
        BY QuotaSets
      <4>2. /\ IsFiniteSet(OwnedBy(u) \cup {i})
            /\ Cardinality(OwnedBy(u) \cup {i}) =
                 IF i \in OwnedBy(u) THEN Cardinality(OwnedBy(u)) ELSE Cardinality(OwnedBy(u)) + 1
        BY <4>1, FS_AddElement
      <4> QED BY <4>1, <4>2
    <3>2. /\ Cardinality(OwnedBy(u) \cup {i}) \in Nat /\ Cardinality(OwnedBy(u)') \in Nat
          /\ Cardinality(OwnedBy(u)') <= Cardinality(OwnedBy(u) \cup {i})
      BY <2>1, <3>1, FS_Subset, FS_CardinalityType
    <3> QED BY <3>1, <3>2, QuotaSets
  <2>5. Cardinality(Passed(u)') = Cardinality(Passed(u)) - 1
    BY <2>2, <2>3, QuotaSets, FS_RemoveElement
  <2> QED BY <2>4, <2>5, QuotaSets, LimitsAreNumbers DEF QuotaInv
(* A create of u's passes the check: there is room for one more link. *)
<1>2. ASSUME NEW r \in Requests, pc[r] = "count", QuotaLeft(r), Advances(r, "slug"), req[r].user = u
      PROVE  Goal
  <2>1. limit[r] \in MaxLinks /\ Cardinality(OwnedBy(u)) < limit[r]
    BY <1>2, <1>t DEF FlowOf, QuotaLeft
  <2>2. OwnedBy(u)' = OwnedBy(u)
    BY <1>2 DEF Advances, tables, OwnedBy, Live
  <2>3. Cardinality(Passed(u)') <= Cardinality(Requests) /\ Cardinality(Passed(u)') \in Nat
    <3>1. Passed(u)' \in SUBSET Requests
      BY DEF Passed
    <3> QED BY <3>1, RequestsAssumption, FS_Subset, FS_CardinalityType
  <2>4. limit[r] \in Nat /\ Cardinality(OwnedBy(u)) \in Nat /\ Cardinality(Requests) \in Nat
    BY <2>1, QuotaSets, LimitsAreNumbers
  <2>5. Cardinality(OwnedBy(u)) + Cardinality(Passed(u)') <= limit[r] + Cardinality(Requests) - 1
    BY <2>1, <2>3, <2>4
  <2> QED BY <2>1, <2>2, <2>5, Zenon
(* Any other step adds neither a link nor a passed create of u's. *)
<1>3. \/ \E r \in Requests, i \in LinkIds : Inserts(r, i) /\ Answer(r, 201) /\ req[r].user = u
      \/ OwnedBy(u)' \subseteq OwnedBy(u)
  <2>1. CASE UNCHANGED <<links, usedIds>>
    BY <2>1 DEF OwnedBy, Live
  <2>2. ASSUME NEW r \in Requests, NEW i \in LinkIds, Inserts(r, i), Answer(r, 201), req[r].user # u
        PROVE  OwnedBy(u)' \subseteq OwnedBy(u)
    BY <2>2, <1>t DEF Inserts, InsertLink, OwnedBy, Live, TablesTypeOK
  <2>3. CASE (\E r \in Requests : Writes(r)) \/ Disables
    BY <2>3, <1>t, WriteKeepsRows DEF OwnedBy
  <2> QED BY <2>1, <2>2, <2>3, LinksChange
<1>4. \/ \E r \in Requests : pc[r] = "count" /\ QuotaLeft(r) /\ Advances(r, "slug") /\ req[r].user = u
      \/ Passed(u)' \subseteq Passed(u)
  <2>1. CASE UNCHANGED <<pc, req>> \/ Crash
    BY <2>1 DEF Passed, Crash
  <2>2. ASSUME NEW r \in Requests, Returns(r) PROVE Passed(u)' \subseteq Passed(u)
    BY <2>2, <1>t DEF Returns, Answer, Goto, Passed, TypeOK
  <2>3. ASSUME NEW r \in Requests, NEW q \in Calls, Goto(r, FirstStep(q)), req' = [req EXCEPT ![r] = q]
        PROVE  Passed(u)' \subseteq Passed(u)
    <3>1. FirstStep(q) \notin {"slug", "insert"}
      BY CallsDisjoint DEF Calls
    <3> QED BY <2>3, <3>1, <1>t DEF Goto, Passed, TypeOK
  <2>4. ASSUME NEW r \in Requests, NEW step \in {"count", "insert", "dropOverride", "write"},
               Advances(r, step), step = "insert" => pc[r] = "slug"
        PROVE  Passed(u)' \subseteq Passed(u)
    BY <2>4, <1>t DEF Advances, Goto, Passed, TypeOK
  <2>5. ASSUME NEW r \in Requests, Advances(r, "slug"), req[r].user # u
        PROVE  Passed(u)' \subseteq Passed(u)
    BY <2>5, <1>t DEF Advances, Goto, Passed, TypeOK
  <2> QED BY <2>1, <2>2, <2>3, <2>4, <2>5, ControlChange
<1>5. CASE OwnedBy(u)' \subseteq OwnedBy(u) /\ Passed(u)' \subseteq Passed(u)
  BY <1>5, QuotaShrinks
<1> QED BY <1>1, <1>2, <1>3, <1>4, <1>5

(* However many creates run at once, a user's links exceed the largest     *)
(* quota in force by at most the number of other request slots.            *)
THEOREM QuotaIsNearlyRespected == Spec => []QuotaOvershoot
<1>1. Init => QuotaInv
  <2> SUFFICES ASSUME Init, NEW u \in Users
               PROVE  \E max \in MaxLinks : Cardinality(OwnedBy(u)) + Cardinality(Passed(u))
                                              <= max + Cardinality(Requests) - 1
    BY DEF QuotaInv
  <2>1. OwnedBy(u) = {} /\ Passed(u) = {}
    BY DEF Init, TablesInit, OwnedBy, Live, Passed
  <2>2. Cardinality(OwnedBy(u)) = 0 /\ Cardinality(Passed(u)) = 0
    BY <2>1, FS_EmptySet
  <2>3. Plan["maxLinks"] \in MaxLinks
    BY DEF MaxLinks
  <2>4. 0 + 0 <= Plan["maxLinks"] + Cardinality(Requests) - 1
    <3>1. Plan["maxLinks"] \in Nat
      BY <2>3, LimitsAreNumbers
    <3>2. Cardinality(Requests) \in Nat /\ Cardinality(Requests) >= 1
      BY QuotaSets
    <3> QED BY <3>1, <3>2
  <2> QED BY <2>2, <2>3, <2>4, Zenon
<1>2. QuotaInv => QuotaOvershoot
  <2> SUFFICES ASSUME QuotaInv, NEW u \in Users
               PROVE  \E max \in MaxLinks : Cardinality(OwnedBy(u)) <= max + Cardinality(Requests) - 1
    BY DEF QuotaOvershoot, MaxLinks
  <2> QED BY QuotaSets, LimitsAreNumbers DEF QuotaInv
<1> QED BY <1>1, <1>2, QuotaStep, TypingInvariant, PTL DEF Spec
=============================================================================
