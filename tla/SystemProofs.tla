----------------------------- MODULE SystemProofs -----------------------------
(***************************************************************************)
(* What System guarantees for any number of users, links, requests, visits *)
(* and jobs: it is a click pipeline and a link service at once, so that    *)
(* what is proved of either holds of the two together.                     *)
(***************************************************************************)
EXTENDS System, ClickPipelineProofs

(* What a request has in hand: its call, the slug it found free, and, when *)
(* it is about to write, a link that is its user's if it is there.         *)
HandOf(r) ==
  /\ mpc[r] \in {"user", "count", "slug", "insert"} => req[r] \in L!Creates
  /\ mpc[r] \in {"find", "write"} => req[r] \in L!Changes /\ req[r].id \in usedIds
  /\ mpc[r] \in {"findOverride", "dropOverride"} => req[r] \in L!Removals
  /\ mpc[r] = "insert" => chosen[r] \in Slugs
  /\ mpc[r] = "write" /\ Live(req[r].id) /\ req[r].op \in L!OwnerOps
       => links[req[r].id].owner = req[r].user

Hands == /\ mpc \in [Requests -> L!PcValues]
         /\ req \in [Requests -> L!Calls \cup {L!NoCall}]
         /\ chosen \in [Requests -> Slugs \cup {Null}]
         /\ \A r \in Requests : HandOf(r)

SystemInv == PipelineInv /\ Hands

-----------------------------------------------------------------------------
(* The statements that LinkService runs are those of the one store.        *)
LEMMA OneStore ==
  /\ \A i \in LinkIds : \A u, s : L!InsertLink(i, u, s) <=> InsertLink(i, u, s)
  /\ \A i, on : L!SetActive(i, on) <=> SetActive(i, on)
  /\ \A i : L!DeleteLink(i) <=> DeleteLink(i)
  /\ \A i : L!Live(i) <=> Live(i)
  /\ \A u : L!DeleteOverride(u) <=> DeleteOverride(u)
  /\ \A u, dto : L!UpsertOverride(u, dto) <=> UpsertOverride(u, dto)
  /\ UNCHANGED L!tables <=> UNCHANGED tables
  BY DEF L!InsertLink, InsertLink, L!SlugTaken, SlugTaken, L!SetActive, SetActive, L!DeleteLink,
         DeleteLink, L!Live, Live, L!DeleteOverride, DeleteOverride, L!UpsertOverride,
         UpsertOverride, L!tables, tables

(* A step of a call changes the store by what the call has in hand.        *)
Stores(r) ==
  \/ UNCHANGED tables
  \/ \E i \in LinkIds : mpc[r] = "insert" /\ InsertLink(i, req[r].user, chosen[r])
  \/ \E on \in BOOLEAN : mpc[r] = "write" /\ SetActive(req[r].id, on)
  \/ mpc[r] = "write" /\ DeleteLink(req[r].id)
  \/ mpc[r] = "dropOverride" /\ DeleteOverride(req[r].user)

(* No step of a call changes it otherwise.                                 *)
LEMMA StepStores ==
  ASSUME NEW r \in Requests, L!Step(r)
  PROVE  Stores(r)
<1>1. CASE L!InsertRow(r)
  BY <1>1, OneStore DEF L!InsertRow, Stores
<1>2. CASE L!WriteLink(r)
  BY <1>2, OneStore DEF L!WriteLink, L!Write, Stores
<1>3. CASE L!DropOverride(r)
  BY <1>3, OneStore DEF L!DropOverride, Stores
<1>4. CASE L!ReadUser(r) \/ L!CountLinks(r) \/ L!LookupCustom(r) \/ L!LookupAuto(r)
           \/ L!FindLink(r) \/ L!FindOverride(r)
  BY <1>4, OneStore DEF L!ReadUser, L!CountLinks, L!LookupCustom, L!LookupAuto, L!FindLink,
     L!FindOverride, Stores
<1> QED BY <1>1, <1>2, <1>3, <1>4 DEF L!Step

(* So what it does is one statement, on rows that are there.               *)
LEMMA StoresIsStatement ==
  ASSUME SystemInv, NEW r \in Requests, Stores(r)
  PROVE  Statement \/ UNCHANGED tables
<1>1. HandOf(r)
  BY DEF SystemInv, Hands
<1>2. \A q \in L!Creates : q.user \in Users
  BY DEF L!Creates
<1>3. \A q \in L!Changes : q.id \in LinkIds
  BY DEF L!Changes
<1>4. \A q \in L!Removals : q.user \in Users
  BY DEF L!Removals
<1> QED BY <1>1, <1>2, <1>3, <1>4 DEF Stores, HandOf, Statement

(* With the cascade it is a step of the pipeline's environment.            *)
LEMMA ManageInPipeline ==
  ASSUME SystemInv, NEW r \in Requests, Manage(r)
  PROVE  ManageLinks \/ UNCHANGED vars
<1>t. TypeOK /\ HandOf(r) /\ Stores(r)
  BY StepStores DEF SystemInv, PipelineInv, Hands, Manage
<1>c. /\ clicks' = [i \in LinkIds |-> IF Live(i) /\ ~Live(i)' THEN 0 ELSE clicks[i]]
      /\ events' = [i \in LinkIds |-> IF Live(i) /\ ~Live(i)' THEN 0 ELSE events[i]]
      /\ UNCHANGED <<expired, visit, queue, errors, crashes>>
  BY DEF Manage, Cascade, pipeline
<1>k. ASSUME \A i \in LinkIds : Live(i) => Live(i)' PROVE UNCHANGED rows
  BY <1>t, <1>c, <1>k DEF TypeOK, rows
<1>h. /\ \A q \in L!Creates : q.user \in Users
      /\ \A q \in L!Changes : q.id \in LinkIds
      /\ \A q \in L!Removals : q.user \in Users
  BY DEF L!Creates, L!Changes, L!Removals
<1>1. CASE UNCHANGED tables
  <2>1. UNCHANGED rows
    BY <1>1, <1>k DEF tables, Live
  <2> QED BY <1>1, <1>c, <2>1 DEF vars
<1>2. ASSUME NEW i \in LinkIds, mpc[r] = "insert", InsertLink(i, req[r].user, chosen[r])
      PROVE  ManageLinks
  <2>1. req[r].user \in Users /\ chosen[r] \in Slugs
    BY <1>t, <1>h, <1>2 DEF HandOf
  <2>2. \A k \in LinkIds : Live(k) => Live(k)'
    BY <1>t, <1>2 DEF InsertLink, Live, TypeOK, TablesTypeOK
  <2>3. UNCHANGED rows
    BY <1>k, <2>2
  <2> QED BY <1>2, <1>c, <2>1, <2>3 DEF ManageLinks
<1>3. ASSUME NEW on \in BOOLEAN, mpc[r] = "write", SetActive(req[r].id, on)
      PROVE  ManageLinks
  <2>1. req[r].id \in LinkIds
    BY <1>t, <1>h, <1>3 DEF HandOf
  <2>2. links[req[r].id] \in Link
    BY <1>t, <1>3, <2>1 DEF SetActive, Live, TypeOK, TablesTypeOK
  <2>3. [links[req[r].id] EXCEPT !.active = on] \in Link
    BY <2>2 DEF Link
  <2>4. \A k \in LinkIds : Live(k) => Live(k)'
    BY <1>t, <1>3, <2>3, NullAssumption DEF SetActive, Live, Link, TypeOK, TablesTypeOK
  <2>5. UNCHANGED rows
    BY <1>k, <2>4
  <2> QED BY <1>3, <1>c, <2>1, <2>5 DEF ManageLinks
<1>4. ASSUME mpc[r] = "write", DeleteLink(req[r].id)
      PROVE  ManageLinks
  <2>1. req[r].id \in LinkIds
    BY <1>t, <1>h, <1>4 DEF HandOf
  <2>2. \A k \in LinkIds : (Live(k) /\ ~Live(k)') <=> k = req[r].id
    BY <1>t, <1>4, <2>1 DEF DeleteLink, Live, TypeOK, TablesTypeOK
  <2>3. /\ clicks' = [clicks EXCEPT ![req[r].id] = 0]
        /\ events' = [events EXCEPT ![req[r].id] = 0]
    BY <1>t, <1>c, <2>1, <2>2 DEF TypeOK
  <2> QED BY <1>4, <1>c, <2>1, <2>3 DEF ManageLinks
<1>5. ASSUME mpc[r] = "dropOverride", DeleteOverride(req[r].user)
      PROVE  ManageLinks
  <2>1. req[r].user \in Users
    BY <1>t, <1>h, <1>5 DEF HandOf
  <2>2. UNCHANGED rows
    BY <1>k, <1>5 DEF DeleteOverride, Live
  <2> QED BY <1>5, <1>c, <2>1, <2>2 DEF ManageLinks
<1> QED BY <1>t, <1>1, <1>2, <1>3, <1>4, <1>5 DEF Stores

(* Every step of the system is one of the pipeline, or none.               *)
LEMMA StepInPipeline ==
  ASSUME SystemInv, [SysNext]_sysVars
  PROVE  [Next]_vars
<1>1. ASSUME NEW r \in Requests, Manage(r) PROVE [Next]_vars
  BY <1>1, ManageInPipeline DEF Next
<1>2. ASSUME NEW r \in Requests, Ask(r) PROVE UNCHANGED vars
  BY <1>2, OneStore DEF Ask, L!Start, vars, pipeline
<1>3. CASE SetLimits
  BY <1>3, OneStore DEF SetLimits, L!SetOverride, Next, ManageLinks, pipeline
<1>4. CASE Restart
  BY <1>4 DEF Restart, Next
<1>5. CASE UNCHANGED sysVars
  BY <1>5 DEF sysVars
<1> QED BY <1>1, <1>2, <1>3, <1>4, <1>5 DEF SysNext, Click, Next

(* Every step of the system is one of the link service, or none.           *)
LEMMA StepInLinkService ==
  ASSUME SystemInv, [SysNext]_sysVars
  PROVE  L!Next \/ UNCHANGED L!vars
<1>s. ASSUME UNCHANGED <<tables, management>> PROVE UNCHANGED L!vars
  BY <1>s, OneStore DEF management, L!vars, L!locals
<1>1. ASSUME NEW r \in Requests, Manage(r) \/ Ask(r) PROVE L!Next
  BY <1>1 DEF Manage, Ask, L!Next
<1>2. CASE SetLimits
  BY <1>2 DEF SetLimits, L!Next, L!OverrideDtos, OverrideDtos
<1>3. ASSUME NEW i \in LinkIds, Click(Expire(i)) PROVE UNCHANGED L!vars
  BY <1>3, <1>s DEF Click, Expire
<1>4. ASSUME NEW v \in Visits, Click(Serve(v)) PROVE L!Next \/ UNCHANGED L!vars
  <2>1. CASE UNCHANGED tables
    BY <1>4, <1>s, <2>1 DEF Click
  <2>2. CASE SetActive(seen[v].id, FALSE) /\ DisableLink(v)
    <3>1. seen[v].id \in LinkIds
      BY <2>2 DEF DisableLink, SystemInv, PipelineInv, SeenInv, SnapshotType
    <3>2. L!AutoDisable(seen[v].id)
      BY <1>4, <2>2, OneStore DEF L!AutoDisable, Click, management, L!locals
    <3> QED BY <3>1, <3>2 DEF L!Next
  <2> QED BY <1>4, <2>1, <2>2 DEF Click, Serve, Find, CountTotal, DisableLink
<1>5. ASSUME NEW j \in Jobs, Click(Process(j)) PROVE UNCHANGED L!vars
  BY <1>5, <1>s DEF Click, Process, Enqueue, EmitFails, AddReplyLost, Take, Record, RecordFails, RecordReplyLost,
     BackoffOver, Finish, LockLost, Requeue
<1>6. CASE Restart
  BY <1>6, <1>s DEF Restart, Crash, L!Next
<1>7. CASE UNCHANGED sysVars
  BY <1>7, <1>s DEF sysVars, vars
<1> QED BY <1>1, <1>2, <1>3, <1>4, <1>5, <1>6, <1>7 DEF SysNext

-----------------------------------------------------------------------------
(* Identifiers stay handed out, and a row that stays keeps its owner.      *)
Kept == RowsGoForGood /\ OwnersKept

(* In every step of the pipeline the store runs one statement at most.     *)
LEMMA RowsKept ==
  ASSUME PipelineInv, [Next]_vars
  PROVE  Kept
<1>t. TablesTypeOK
  BY DEF PipelineInv, TypeOK
<1>1. CASE UNCHANGED tables
  BY <1>1, <1>t DEF Kept, RowsGoForGood, OwnersKept, tables, Live
<1>2. CASE Statement
  BY <1>2, <1>t, StatementTyping, StatementKeepsOwners DEF Kept
<1>3. CASE ManageLinks
  <2>1. Statement
    BY <1>3 DEF ManageLinks, Statement
  <2> QED BY <1>2, <2>1
<1>4. ASSUME NEW v \in Visits, DisableLink(v) PROVE Kept
  <2>1. SetActive(seen[v].id, FALSE) => Statement
    BY <1>4 DEF Statement, DisableLink, PipelineInv, SeenInv, SnapshotType
  <2> QED BY <1>1, <1>2, <1>4, <2>1 DEF DisableLink
<1>5. CASE UNCHANGED vars
  BY <1>1, <1>5 DEF vars
<1> QED BY <1>1, <1>3, <1>4, <1>5
        DEF Next, Serve, Expire, Find, CountTotal, Process, Enqueue, EmitFails, AddReplyLost, Take,
            Record, RecordFails, RecordReplyLost, BackoffOver, Finish, LockLost, Requeue, Crash

(* A request that does not move keeps what it has in hand.                 *)
LEMMA HandFrame ==
  ASSUME NEW r \in Requests, HandOf(r), Kept,
         mpc'[r] = mpc[r], req'[r] = req[r], chosen'[r] = chosen[r]
  PROVE  HandOf(r)'
<1>1. mpc[r] = "write" => req[r].id \in usedIds
  BY DEF HandOf
<1> QED BY <1>1 DEF HandOf, Kept, RowsGoForGood, OwnersKept

(* What a step of a call does to what it has in hand: it answers, goes on  *)
(* to the next statement, or looks for another slug.                       *)
Moves(r, n) == mpc' = [mpc EXCEPT ![r] = n] /\ req' = [req EXCEPT ![r] = req[r]]
Chooses(r)  == \E s \in Slugs : chosen' = [chosen EXCEPT ![r] = s]
MovesOn(r) ==
  \/ \E n \in {200, 201, 404, 409, 422, 500} : L!Answer(r, n)
  \/ mpc[r] = "user" /\ Moves(r, "count") /\ UNCHANGED chosen
  \/ mpc[r] = "count" /\ Moves(r, "slug") /\ UNCHANGED chosen
  \/ mpc[r] = "slug" /\ Moves(r, "insert") /\ Chooses(r)
  \/ mpc[r] = "find" /\ Moves(r, "write") /\ UNCHANGED <<chosen, tables>> /\ L!Finds(r)
  \/ mpc[r] = "findOverride" /\ Moves(r, "dropOverride") /\ UNCHANGED chosen
  \/ UNCHANGED <<mpc, req, chosen>>

(* Every step of a call moves it on like that.                             *)
LEMMA StepMovesOn ==
  ASSUME Hands, NEW r \in Requests, L!Step(r)
  PROVE  MovesOn(r)
<1>q. req = [req EXCEPT ![r] = req[r]]
  BY DEF Hands
<1>1. CASE L!ReadUser(r) \/ L!CountLinks(r) \/ L!FindOverride(r)
  BY <1>1, <1>q DEF L!ReadUser, L!CountLinks, L!FindOverride, L!Goto, L!locals, MovesOn, Moves
<1>2. CASE L!LookupCustom(r)
  <2>1. CASE L!Answer(r, 409)
    BY <2>1 DEF MovesOn
  <2>2. CASE ~L!Answer(r, 409)
    <3>1. req[r] \in L!Creates /\ req[r].slug # Null
      BY <1>2 DEF L!LookupCustom, Hands, HandOf
    <3>2. req[r].slug \in Slugs
      BY <3>1 DEF L!Creates
    <3> QED BY <1>2, <1>q, <2>2, <3>2 DEF L!LookupCustom, L!Goto, MovesOn, Moves, Chooses
  <2> QED BY <2>1, <2>2
<1>3. CASE L!LookupAuto(r)
  BY <1>3, <1>q DEF L!LookupAuto, L!Goto, MovesOn, Moves, Chooses
<1>4. CASE L!FindLink(r)
  BY <1>4, <1>q, OneStore DEF L!FindLink, L!Goto, L!locals, MovesOn, Moves
<1>5. CASE L!InsertRow(r) \/ L!WriteLink(r) \/ L!DropOverride(r)
  BY <1>5 DEF L!InsertRow, L!WriteLink, L!DropOverride, MovesOn
<1> QED BY <1>1, <1>2, <1>3, <1>4, <1>5 DEF L!Step

(* The calls in flight stay well formed.                                   *)
LEMMA HandsMoveOn ==
  ASSUME Hands, NEW r \in Requests, MovesOn(r), Kept
  PROVE  Hands'
<1>f. \A q \in Requests : HandOf(q)
  BY DEF Hands
<1>1. ASSUME NEW n \in {200, 201, 404, 409, 422, 500}, L!Answer(r, n) PROVE Hands'
  <2>1. /\ mpc' \in [Requests -> L!PcValues] /\ req' \in [Requests -> L!Calls \cup {L!NoCall}]
        /\ chosen' \in [Requests -> Slugs \cup {Null}]
    BY <1>1 DEF Hands, L!Answer, L!Goto, L!PcValues
  <2>2. HandOf(r)'
    BY <1>1 DEF Hands, HandOf, L!Answer, L!Goto
  <2>3. ASSUME NEW q \in Requests \ {r} PROVE HandOf(q)'
    BY <1>1, <1>f, HandFrame DEF Hands, L!Answer, L!Goto
  <2> QED BY <2>1, <2>2, <2>3 DEF Hands
<1>2. ASSUME NEW n \in {"count", "slug", "insert", "write", "dropOverride"}, Moves(r, n),
             UNCHANGED chosen \/ Chooses(r), HandOf(r)'
      PROVE  Hands'
  <2>1. /\ mpc' \in [Requests -> L!PcValues] /\ req' \in [Requests -> L!Calls \cup {L!NoCall}]
        /\ chosen' \in [Requests -> Slugs \cup {Null}]
    BY <1>2 DEF Hands, Moves, Chooses, L!PcValues
  <2>2. ASSUME NEW q \in Requests \ {r} PROVE HandOf(q)'
    BY <1>2, <1>f, HandFrame DEF Hands, Moves, Chooses
  <2> QED BY <1>2, <2>1, <2>2 DEF Hands
<1>3. CASE UNCHANGED <<mpc, req, chosen>>
  BY <1>3, <1>f, HandFrame DEF Hands
<1>4. CASE mpc[r] = "user" /\ Moves(r, "count") /\ UNCHANGED chosen
  BY <1>2, <1>4, <1>f DEF Hands, HandOf, Moves
<1>5. CASE mpc[r] = "count" /\ Moves(r, "slug") /\ UNCHANGED chosen
  BY <1>2, <1>5, <1>f DEF Hands, HandOf, Moves
<1>6. CASE mpc[r] = "slug" /\ Moves(r, "insert") /\ Chooses(r)
  <2>1. HandOf(r)'
    BY <1>6, <1>f DEF Hands, HandOf, Moves, Chooses
  <2> QED BY <1>2, <1>6, <2>1
<1>7. CASE mpc[r] = "find" /\ Moves(r, "write") /\ UNCHANGED <<chosen, tables>> /\ L!Finds(r)
  <2>1. HandOf(r)'
    BY <1>7, <1>f DEF Hands, HandOf, Moves, L!Finds, tables, Live
  <2> QED BY <1>2, <1>7, <2>1
<1>8. CASE mpc[r] = "findOverride" /\ Moves(r, "dropOverride") /\ UNCHANGED chosen
  BY <1>2, <1>8, <1>f DEF Hands, HandOf, Moves
<1> QED BY <1>1, <1>3, <1>4, <1>5, <1>6, <1>7, <1>8 DEF MovesOn

(* Every step of the system keeps the invariant.                           *)
LEMMA SystemStep == SystemInv /\ [SysNext]_sysVars => SystemInv'
<1> SUFFICES ASSUME SystemInv, [SysNext]_sysVars PROVE SystemInv'
  OBVIOUS
<1>1. PipelineInv' /\ Kept
  BY StepInPipeline, PipelineStep, RowsKept DEF SystemInv
<1>f. \A q \in Requests : HandOf(q)
  BY DEF SystemInv, Hands
<1>2. ASSUME NEW r \in Requests, Manage(r) PROVE Hands'
  BY <1>1, <1>2, StepMovesOn, HandsMoveOn DEF SystemInv, Manage
<1>3. ASSUME NEW r \in Requests, NEW q \in L!Calls, L!Start(r, q), UNCHANGED tables PROVE Hands'
  <2>1. L!FirstStep(q) = IF q \in L!Creates THEN "user" ELSE IF q \in L!Changes THEN "find" ELSE "findOverride"
    BY DEF L!FirstStep, L!Calls, L!Creates, L!Changes, L!Removals, L!OwnerOps, L!AdminOps
  <2>2. /\ mpc' \in [Requests -> L!PcValues] /\ req' \in [Requests -> L!Calls \cup {L!NoCall}]
        /\ UNCHANGED chosen /\ chosen \in [Requests -> Slugs \cup {Null}]
    BY <1>3, <2>1 DEF SystemInv, Hands, L!Start, L!Goto, L!PcValues, L!locals
  <2>3. HandOf(r)'
    <3>1. mpc'[r] = L!FirstStep(q) /\ req'[r] = q /\ UNCHANGED usedIds
      BY <1>3 DEF SystemInv, Hands, L!Start, L!Goto, tables
    <3>2. q \in L!Changes => q.id \in usedIds
      <4>1. q \in L!Changes => q.id \in LinkIds
        BY DEF L!Changes
      <4> QED BY <1>3, <4>1, NullAssumption DEF L!Start
    <3> QED BY <2>1, <3>1, <3>2 DEF HandOf, L!Calls
  <2>4. ASSUME NEW p \in Requests \ {r} PROVE HandOf(p)'
    BY <1>1, <1>3, <1>f, <2>2, HandFrame DEF SystemInv, Hands, L!Start, L!Goto
  <2>5. \A p \in Requests : HandOf(p)'
    BY <2>3, <2>4
  <2> QED BY <2>2, <2>5 DEF Hands
<1>4. ASSUME UNCHANGED <<mpc, req, chosen>> PROVE Hands'
  BY <1>1, <1>4, <1>f, HandFrame DEF SystemInv, Hands
<1>5. ASSUME L!Crash PROVE Hands'
  <2>1. \A q \in Requests : mpc'[q] = "idle"
    BY <1>5 DEF L!Crash
  <2>2. \A q \in Requests : HandOf(q)'
    BY <2>1 DEF HandOf
  <2>3. /\ mpc' \in [Requests -> L!PcValues] /\ req' \in [Requests -> L!Calls \cup {L!NoCall}]
        /\ chosen' \in [Requests -> Slugs \cup {Null}]
    BY <1>5 DEF L!Crash, L!PcValues
  <2> QED BY <2>2, <2>3 DEF Hands
<1>6. ASSUME NEW r \in Requests, Ask(r) PROVE Hands'
  BY <1>3, <1>6, OneStore DEF Ask, L!Start
<1>7. Hands'
  <2>1. UNCHANGED management \/ SetLimits => Hands'
    BY <1>4 DEF management, SetLimits, L!SetOverride, L!locals
  <2>2. Restart \/ UNCHANGED sysVars => Hands'
    BY <1>5, <2>1 DEF Restart, sysVars
  <2> QED BY <1>2, <1>6, <2>1, <2>2 DEF SysNext, Click
<1> QED BY <1>1, <1>7 DEF SystemInv

(* What visits, jobs and calls have in hand is well formed throughout.     *)
LEMMA SystemInvariant == SysSpec => []SystemInv
<1>1. SysInit => SystemInv
  BY PipelineStarts DEF SysInit, L!Init, SystemInv, Hands, HandOf, L!PcValues
<1> QED BY <1>1, SystemStep, PTL DEF SysSpec

(* In the company of the link service, which deletes the links that jobs   *)
(* and visits hold, the pipeline is still the pipeline: everything proved  *)
(* of it alone is true of the system.                                      *)
THEOREM SystemIsPipeline == SysSpec => ImplementsPipeline
<1>1. SysInit => Init
  BY DEF SysInit
<1>2. SystemInv /\ [SysNext]_sysVars => [Next]_vars
  BY StepInPipeline
<1> QED BY <1>1, <1>2, SystemInvariant, PTL DEF SysSpec, ImplementsPipeline, Spec

(* And the link service is still the link service.                         *)
THEOREM SystemIsLinkService == SysSpec => ImplementsLinkService
<1>1. SysInit => L!Init
  BY DEF SysInit
<1>2. SystemInv /\ [SysNext]_sysVars => [L!Next]_(L!vars)
  BY StepInLinkService
<1> QED BY <1>1, <1>2, SystemInvariant, PTL DEF SysSpec, ImplementsLinkService, L!Spec

(* A link stops serving by the request of its owner or an administrator,   *)
(* or because the clicks that a redirect saw used up are used up still.    *)
THEOREM NothingDisabledWithoutReason == SysSpec => DisabledForAReason
<1> DEFINE Stops(i)  == Live(i) /\ Live(i)' /\ links[i].active /\ ~links'[i].active
           Reason(i) == \/ L!ByRequest(i)
                        \/ \E v \in Visits : /\ pc[v] = "disable" /\ seen[v].id = i
                                             /\ clicks[i] >= seen[v].perLink
           Reasoned  == \A i \in LinkIds : Stops(i) => Reason(i)
<1>1. SystemInv /\ [SysNext]_sysVars => [Reasoned]_sysVars
  <2> SUFFICES ASSUME SystemInv, [SysNext]_sysVars, NEW i \in LinkIds, Stops(i)
               PROVE  Reason(i)
    OBVIOUS
  <2>t. TablesTypeOK /\ PipelineInv
    BY DEF SystemInv, PipelineInv, TypeOK
  <2>1. ASSUME NEW r \in Requests, Manage(r) PROVE L!ByRequest(i)
    <3>1. Stores(r) /\ HandOf(r)
      BY <2>1, StepStores DEF Manage, SystemInv, Hands
    <3>2. mpc[r] = "write" /\ req[r].id = i
      <4>1. ASSUME NEW k \in LinkIds, InsertLink(k, req[r].user, chosen[r]) PROVE FALSE
        BY <2>t, <4>1 DEF InsertLink, Live, TablesTypeOK
      <4>2. ~UNCHANGED links
        OBVIOUS
      <4>3. ASSUME NEW on \in BOOLEAN, SetActive(req[r].id, on) PROVE req[r].id = i
        BY <2>t, <4>3 DEF SetActive, TablesTypeOK
      <4>4. ASSUME DeleteLink(req[r].id) PROVE req[r].id = i
        BY <2>t, <4>4 DEF DeleteLink, TablesTypeOK
      <4> QED BY <3>1, <4>1, <4>2, <4>3, <4>4 DEF Stores, tables, DeleteOverride
    <3> QED BY <3>1, <3>2 DEF HandOf, L!ByRequest
  <2>2. ASSUME NEW v \in Visits, DisableLink(v), SetActive(seen[v].id, FALSE) PROVE Reason(i)
    <3>1. seen[v].id = i
      BY <2>t, <2>2 DEF SetActive, TablesTypeOK
    <3>2. /\ seen[v].clicks >= seen[v].perLink /\ seen[v].clicks <= clicks[i]
          /\ seen[v].clicks \in Nat /\ seen[v].perLink \in Nat /\ clicks[i] \in Nat
      BY <2>2, <3>1 DEF DisableLink, SystemInv, PipelineInv, TypeOK, SeenInv, SnapshotType
    <3> QED BY <2>2, <3>1, <3>2 DEF DisableLink
  <2>3. CASE UNCHANGED links
    BY <2>3
  <2>4. ASSUME NEW r \in Requests, Ask(r) PROVE UNCHANGED links
    BY <2>4, OneStore DEF Ask, L!Start, tables
  <2>5. SetLimits => UNCHANGED links
    BY OneStore DEF SetLimits, L!SetOverride, UpsertOverride
  <2>6. ASSUME NEW v \in Visits, Serve(v)
        PROVE  UNCHANGED links \/ (DisableLink(v) /\ SetActive(seen[v].id, FALSE))
    BY <2>6 DEF Serve, Find, CountTotal, DisableLink, tables
  <2>7. ASSUME NEW j \in Jobs, Process(j) PROVE UNCHANGED links
    BY <2>7 DEF Process, Enqueue, EmitFails, AddReplyLost, Take, Record, RecordFails, RecordReplyLost,
       BackoffOver, Finish, LockLost, Requeue, tables
  <2>8. (\E k \in LinkIds : Expire(k)) \/ Crash \/ UNCHANGED sysVars => UNCHANGED links
    BY DEF Expire, Crash, sysVars, vars, tables
  <2> QED BY <2>1, <2>2, <2>3, <2>4, <2>5, <2>6, <2>7, <2>8 DEF SysNext, Click, Restart
<1> QED BY <1>1, SystemInvariant, PTL DEF SysSpec, DisabledForAReason
-----------------------------------------------------------------------------
(* What is proved of the pipeline alone holds while requests delete and    *)
(* change the links: a link's count is that of its events and commits, a   *)
(* job counts once in a run, counts beyond the redirects granted cost a    *)
(* fault each, clicks are dropped only by faults, and a link is about to   *)
(* be disabled for its clicks only when it has them.                       *)
THEOREM PipelineHolds ==
  SysSpec => /\ [](TypeOK /\ Accounted /\ AtMostOncePerRun /\ CountsAreGranted)
             /\ [](DroppedOnlyByFaults /\ DisableJustified)
             /\ CountsClicks
  BY SystemIsPipeline, TypeCorrect, BooksBalance, CountedOncePerRun, FaultsPayForRecounts,
     NothingDroppedInSilence, DisabledOnlyWhenUsedUp, ImplementsLedger, PTL DEF ImplementsPipeline

(* The theorems about the link service, and its definitions as they see    *)
(* them, which are those of L.                                             *)
Alone == INSTANCE LinkServiceProofs WITH pc <- mpc

(* They see the same variables,                                            *)
LEMMA SameVars == UNCHANGED L!vars <=> UNCHANGED Alone!vars
  BY DEF L!vars, Alone!vars, L!tables, Alone!tables, L!locals, Alone!locals

(* the same initial states                                                 *)
LEMMA SameInit == L!Init <=> Alone!Init
  BY DEF L!Init, Alone!Init, L!TablesInit, Alone!TablesInit, L!NoCall, Alone!NoCall

(* and the same steps,                                                     *)
LEMMA SameNext == L!Next <=> Alone!Next
  BY DEF L!Next, Alone!Next, L!Step, Alone!Step, L!Start, Alone!Start, L!Crash, Alone!Crash,
         L!ReadUser, Alone!ReadUser, L!CountLinks, Alone!CountLinks,
         L!LookupCustom, Alone!LookupCustom, L!LookupAuto, Alone!LookupAuto,
         L!InsertRow, Alone!InsertRow, L!FindLink, Alone!FindLink, L!WriteLink, Alone!WriteLink,
         L!FindOverride, Alone!FindOverride, L!DropOverride, Alone!DropOverride,
         L!SetOverride, Alone!SetOverride, L!AutoDisable, Alone!AutoDisable,
         L!Goto, Alone!Goto, L!Answer, Alone!Answer, L!QuotaLeft, Alone!QuotaLeft,
         L!NextAttempt, Alone!NextAttempt, L!GivesUp, Alone!GivesUp, L!Finds, Alone!Finds,
         L!Redundant, Alone!Redundant, L!Write, Alone!Write, L!FirstStep, Alone!FirstStep,
         L!Creating, Alone!Creating, L!IdLeft, Alone!IdLeft,
         L!Cardinality, Alone!Cardinality, L!IsFiniteSet, Alone!IsFiniteSet,
         L!Live, Alone!Live, L!OwnedBy, Alone!OwnedBy, L!SlugTaken, Alone!SlugTaken,
         L!Effective, Alone!Effective, L!InsertLink, Alone!InsertLink, L!SetActive, Alone!SetActive,
         L!DeleteLink, Alone!DeleteLink, L!UpsertOverride, Alone!UpsertOverride,
         L!DeleteOverride, Alone!DeleteOverride, L!OverrideDtos, Alone!OverrideDtos,
         L!tables, Alone!tables, L!locals, Alone!locals, L!Calls, Alone!Calls,
         L!Creates, Alone!Creates, L!Changes, Alone!Changes, L!Removals, Alone!Removals,
         L!NoCall, Alone!NoCall, L!OwnerOps, Alone!OwnerOps, L!AdminOps, Alone!AdminOps

(* so they are about the service that the system runs.                     *)
LEMMA SameSpec == L!Spec => Alone!Spec
<1>1. [L!Next]_(L!vars) => [Alone!Next]_(Alone!vars)
  BY SameNext, SameVars
<1> QED BY <1>1, SameInit, PTL DEF L!Spec, Alone!Spec

(* What is proved of the link service alone holds while redirects disable  *)
(* links and jobs count their clicks: slugs stay unique, quotas are passed *)
(* by racing requests only, nothing deleted comes back, only a request of  *)
(* its owner or an administrator enables or deletes a link, and a link is  *)
(* disabled by such a request or by a redirect that found its clicks used  *)
(* up.                                                                     *)
THEOREM LinkServiceHolds ==
  SysSpec => /\ [](L!SlugUnique /\ L!QuotaOvershoot)
             /\ L!NoResurrection /\ L!OwnersOnly /\ DisabledForAReason
<1>0. Alone!IsFiniteSet(LinkIds) /\ Alone!IsFiniteSet(Requests)
  BY IdsAssumption, SystemAssumption DEF IsFiniteSet, Alone!IsFiniteSet
<1> USE PlanAssumption, NullAssumption, SystemAssumption
<1>1. Alone!Spec => []Alone!SlugUnique
  BY <1>0, Alone!SlugsUnique
<1>2. Alone!Spec => []Alone!QuotaOvershoot
  BY <1>0, Alone!QuotaIsNearlyRespected
<1>3. Alone!Spec => Alone!NoResurrection
  BY <1>0, Alone!DeletedStaysDeleted
<1>4. Alone!Spec => Alone!OwnersOnly
  BY <1>0, Alone!OnlyOwnersWrite
<1>5. Alone!SlugUnique => L!SlugUnique
  BY DEF L!SlugUnique, Alone!SlugUnique, L!Live, Alone!Live
<1>6. Alone!QuotaOvershoot => L!QuotaOvershoot
  BY DEF L!QuotaOvershoot, Alone!QuotaOvershoot, L!OwnedBy, Alone!OwnedBy, L!Live, Alone!Live,
         L!Cardinality, Alone!Cardinality, L!IsFiniteSet, Alone!IsFiniteSet
<1>7. [\A i \in usedIds : ~Alone!Live(i) => ~Alone!Live(i)']_(Alone!vars)
        => [\A i \in usedIds : ~L!Live(i) => ~L!Live(i)']_(L!vars)
  BY SameVars DEF L!Live, Alone!Live
<1>8. [\A i \in LinkIds : Alone!Live(i) /\ links'[i] # links[i] =>
         Alone!ByRequest(i) \/ links'[i] = [links[i] EXCEPT !.active = FALSE]]_(Alone!vars)
        => [\A i \in LinkIds : L!Live(i) /\ links'[i] # links[i] =>
              L!ByRequest(i) \/ links'[i] = [links[i] EXCEPT !.active = FALSE]]_(L!vars)
  BY SameVars DEF L!Live, Alone!Live, L!ByRequest, Alone!ByRequest, L!OwnerOps, Alone!OwnerOps
<1>9. Alone!NoResurrection => L!NoResurrection
  BY <1>7, PTL DEF L!NoResurrection, Alone!NoResurrection
<1>10. Alone!OwnersOnly => L!OwnersOnly
  BY <1>8, PTL DEF L!OwnersOnly, Alone!OwnersOnly
<1> QED BY <1>1, <1>2, <1>3, <1>4, <1>5, <1>6, <1>9, <1>10, SystemIsLinkService, SameSpec,
       NothingDisabledWithoutReason, PTL DEF ImplementsLinkService
=============================================================================
