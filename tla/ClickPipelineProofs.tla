------------------------- MODULE ClickPipelineProofs -------------------------
(***************************************************************************)
(* What ClickPipeline guarantees for any number of links, visits and jobs, *)
(* any limits, and any number of errors, crashes and stalls.               *)
(***************************************************************************)
EXTENDS ClickPipeline, LinkStoreProofs, SumTheorems

(* A visit under way holds the snapshot of a link that exists or existed,  *)
(* whose count can only have grown since, and it is about to disable the   *)
(* link only if the snapshot was at its limit.                             *)
SeenInv(v) ==
  /\ pc[v] # "idle" => seen[v] \in SnapshotType /\ seen[v].id \in usedIds
  /\ pc[v] # "idle" /\ Live(seen[v].id) => seen[v].clicks <= clicks[seen[v].id]
  /\ pc[v] = "disable" => seen[v].clicks >= seen[v].perLink

Fresh   == {"free", "emitting", "lost"}
Pending == {"waiting", "active", "delayed"}

(* What a job has been through, by where it is: an attempt or a stall for  *)
(* every run but the last, an error for every attempt on a link that is    *)
(* there, and an error or a crash for every stall.                         *)
JobInv(j) ==
  /\ state[j] # "free" => target[j] \in usedIds
  /\ state[j] \in Fresh => commits[j] = 0 /\ stalls[j] = 0 /\ attempts[j] = 0
  /\ state[j] \in Pending \cup {"failed"} => commits[j] <= attempts[j] + stalls[j]
  /\ state[j] \in Held \cup {"stalled", "completed"} => commits[j] <= 1 + attempts[j] + stalls[j]
  /\ state[j] \in {"committed", "completed"} => commits[j] >= 1
  /\ state[j] = "failed" => attempts[j] + stalls[j] <= Attempts + MaxStalls
  /\ state[j] # "failed" => stalls[j] <= MaxStalls /\ attempts[j] < Attempts
  /\ state[j] = "lost" => errors > 0 \/ crashes > 0
  /\ stalls[j] <= errors + crashes /\ (state[j] = "stalled" => stalls[j] < errors + crashes)
  /\ state[j] # "free" /\ Live(target[j]) => attempts[j] <= errors
  /\ state[j] = "failed" /\ Live(target[j]) => attempts[j] >= Attempts \/ stalls[j] > MaxStalls

PipelineInv == /\ TypeOK
               /\ \A v \in Visits : SeenInv(v)
               /\ \A j \in Jobs : JobInv(j)

-----------------------------------------------------------------------------
(* Rows that are there are still counted at least as much. *)
CountsGrow == RowsGoForGood /\ \A i \in usedIds : Live(i)' => clicks'[i] >= clicks[i]

(* A visit that does not move keeps its invariant while counts grow. *)
LEMMA SeenFrame ==
  ASSUME TypeOK, TypeOK', NEW v \in Visits, SeenInv(v), CountsGrow,
         pc'[v] = pc[v], seen'[v] = seen[v]
  PROVE  SeenInv(v)'
<1>1. pc'[v] # "idle" => seen'[v] \in SnapshotType /\ seen'[v].id \in usedIds /\ seen'[v].id \in usedIds'
  BY DEF SeenInv, CountsGrow, RowsGoForGood
<1>2. ASSUME pc'[v] # "idle", Live(seen[v].id)'
      PROVE  seen[v].clicks <= clicks'[seen[v].id]
  <2>1. /\ seen[v].id \in usedIds /\ Live(seen[v].id)
        /\ clicks'[seen[v].id] >= clicks[seen[v].id]
    BY <1>1, <1>2 DEF CountsGrow, RowsGoForGood
  <2>2. /\ seen[v].clicks <= clicks[seen[v].id]
        /\ seen[v].clicks \in Nat /\ seen[v].id \in LinkIds
    BY <1>1, <1>2, <2>1 DEF SeenInv, SnapshotType
  <2>3. clicks[seen[v].id] \in Nat /\ clicks'[seen[v].id] \in Nat
    BY <2>2 DEF TypeOK
  <2> QED BY <2>1, <2>2, <2>3
<1> QED BY <1>1, <1>2 DEF SeenInv

(* A visit that leaves has nothing in hand. *)
LEMMA SeenIdle ==
  ASSUME NEW v \in Visits, pc'[v] = "idle" PROVE SeenInv(v)'
  BY DEF SeenInv

(* A job that does not move keeps its invariant while faults add up. *)
LEMMA JobFrame ==
  ASSUME TypeOK, TypeOK', NEW j \in Jobs, JobInv(j), RowsGoForGood,
         state'[j] = state[j], target'[j] = target[j], attempts'[j] = attempts[j],
         stalls'[j] = stalls[j], commits'[j] = commits[j],
         errors' >= errors, crashes' >= crashes
  PROVE  JobInv(j)'
<1>1. /\ attempts[j] \in Nat /\ stalls[j] \in Nat /\ commits[j] \in Nat
      /\ errors \in Nat /\ crashes \in Nat /\ errors' \in Nat /\ crashes' \in Nat
  BY QueueAssumption DEF TypeOK
<1>2. state[j] # "free" => target[j] \in usedIds'
  BY DEF JobInv, RowsGoForGood
<1>3. state[j] # "free" /\ Live(target[j])' => Live(target[j])
  BY DEF JobInv, RowsGoForGood
<1> QED BY <1>1, <1>2, <1>3 DEF JobInv

-----------------------------------------------------------------------------
(* What resolveSlug reads of a link is well formed. *)
LEMMA SnapshotTyping ==
  ASSUME TypeOK, NEW i \in LinkIds, Live(i)
  PROVE  Snapshot(i) \in SnapshotType /\ Snapshot(i).id = i /\ Snapshot(i).clicks = clicks[i]
<1>1. links[i].owner \in Users
  BY DEF TypeOK, TablesTypeOK, Live, Link
<1>2. /\ Effective(links[i].owner, "maxClicksPerLink") \in Nat
      /\ Effective(links[i].owner, "maxTotalClicks") \in Nat
  BY <1>1, QueueAssumption, EffectiveNat DEF TypeOK
<1>3. clicks[i] \in Nat
  BY DEF TypeOK
<1> QED BY <1>1, <1>2, <1>3 DEF Snapshot, SnapshotType

(* What ManageLinks does is one statement, and counts of rows that stay do *)
(* not change.                                                             *)
LEMMA ManageTyping ==
  ASSUME TypeOK, ManageLinks
  PROVE  /\ TablesTypeOK' /\ CountsGrow
         /\ clicks' \in [LinkIds -> Nat] /\ events' \in [LinkIds -> Nat]
         /\ UNCHANGED expired
<1>1. Statement
  BY DEF ManageLinks, Statement
<1>2. TablesTypeOK' /\ RowsGoForGood
  BY <1>1, StatementTyping DEF TypeOK
<1>3. ASSUME UNCHANGED rows
      PROVE  /\ clicks' \in [LinkIds -> Nat] /\ events' \in [LinkIds -> Nat]
             /\ UNCHANGED expired
             /\ \A i \in usedIds : Live(i)' => clicks'[i] >= clicks[i]
  BY <1>3 DEF rows, TypeOK, TablesTypeOK
<1>4. ASSUME NEW i \in LinkIds, DeleteLink(i),
             clicks' = [clicks EXCEPT ![i] = 0], events' = [events EXCEPT ![i] = 0]
      PROVE  /\ clicks' \in [LinkIds -> Nat] /\ events' \in [LinkIds -> Nat]
             /\ \A k \in usedIds : Live(k)' => clicks'[k] >= clicks[k]
  BY <1>4 DEF DeleteLink, Live, TypeOK, TablesTypeOK
<1> QED BY <1>2, <1>3, <1>4 DEF ManageLinks, CountsGrow

(* Counting a click adds one to the counts of its link. *)
LEMMA CountTyping ==
  ASSUME TypeOK, NEW i \in LinkIds, CountClick(i), UNCHANGED tables
  PROVE  /\ CountsGrow
         /\ clicks' \in [LinkIds -> Nat] /\ events' \in [LinkIds -> Nat]
  BY DEF CountClick, CountsGrow, RowsGoForGood, tables, Live, TypeOK, TablesTypeOK

(* A statement that does not touch the tables revives nothing. *)
LEMMA CountsStay ==
  ASSUME TypeOK, UNCHANGED <<tables, clicks>>
  PROVE  CountsGrow
  BY DEF CountsGrow, RowsGoForGood, tables, Live, TypeOK, TablesTypeOK

States == {"free", "emitting", "waiting", "active", "committed", "delayed", "stalled"} \cup Settled

(* Every step keeps the types. *)
LEMMA TypeStep == PipelineInv /\ [Next]_vars => TypeOK'
<1> SUFFICES ASSUME PipelineInv, [Next]_vars PROVE TypeOK'
  OBVIOUS
<1> USE DEF TypeOK
<1>t. TypeOK
  BY DEF PipelineInv
<1>1. CASE ManageLinks
  BY <1>t, <1>1, ManageTyping DEF ManageLinks, visit, queue
<1>2. ASSUME NEW i \in LinkIds, Expire(i) PROVE TypeOK'
  BY <1>t, <1>2 DEF Expire, tables, TablesTypeOK, visit, queue, Live
<1>3. ASSUME NEW v \in Visits, NEW s \in Slugs, Find(v, s) PROVE TypeOK'
  <2>1. /\ pc' \in [Visits -> {"idle", "count", "disable"}]
        /\ answer' \in {0, 302, 404, 410, 429, 500}
    BY <1>t, <1>3 DEF Find, Leave
  <2>2. seen' \in [Visits -> SnapshotType \cup {Null}]
    BY <1>t, <1>3, SnapshotTyping DEF Find, Leave
  <2> QED BY <1>t, <1>3, <2>1, <2>2 DEF Find, tables, TablesTypeOK, rows, queue, Live
<1>4. ASSUME NEW v \in Visits, CountTotal(v) PROVE TypeOK'
  <2>1. /\ pc' \in [Visits -> {"idle", "count", "disable"}]
        /\ answer' \in {0, 302, 404, 410, 429, 500}
        /\ seen' \in [Visits -> SnapshotType \cup {Null}]
    BY <1>t, <1>4 DEF CountTotal, Leave
  <2>2. seen[v].id \in LinkIds
    BY <1>t, <1>4 DEF CountTotal, PipelineInv, SeenInv, SnapshotType
  <2>3. /\ state' \in [Jobs -> States]
        /\ target' \in [Jobs -> LinkIds \cup {Null}]
        /\ UNCHANGED <<attempts, stalls, commits>> /\ granted' \in Nat
    BY <1>t, <1>4, <2>2 DEF CountTotal, Emit, queue, States
  <2> QED BY <1>t, <1>4, <2>1, <2>3 DEF CountTotal, tables, TablesTypeOK, rows, Live, States
<1>5. ASSUME NEW v \in Visits, DisableLink(v) PROVE TypeOK'
  <2>1. /\ pc' \in [Visits -> {"idle", "count", "disable"}]
        /\ answer' \in {0, 302, 404, 410, 429, 500}
        /\ seen' \in [Visits -> SnapshotType \cup {Null}]
    BY <1>t, <1>5 DEF DisableLink, Leave
  <2>2. seen[v].id \in LinkIds
    BY <1>t, <1>5 DEF DisableLink, PipelineInv, SeenInv, SnapshotType
  <2>3. TablesTypeOK'
    <3>1. CASE SetActive(seen[v].id, FALSE)
      <4>1. Statement
        BY <2>2, <3>1 DEF Statement
      <4>2. TablesTypeOK
        BY <1>t
      <4> QED BY <4>1, <4>2, StatementTyping
    <3>2. CASE UNCHANGED tables
      BY <1>t, <3>2 DEF tables, TablesTypeOK, Live
    <3> QED BY <1>5, <3>1, <3>2 DEF DisableLink
  <2> QED BY <1>t, <1>5, <2>1, <2>3 DEF DisableLink, rows, queue
<1>6. ASSUME NEW j \in Jobs, Process(j) PROVE TypeOK'
  <2>1. JobInv(j)
    BY DEF PipelineInv
  <2>a. state[j] = "active" => target[j] \in LinkIds /\ attempts[j] + 1 \in 0..Attempts
    BY <1>t, <2>1, QueueAssumption DEF JobInv, TablesTypeOK
  <2>2. CASE Record(j)
    <3>1. target[j] \in LinkIds
      BY <2>a, <2>2 DEF Record, Move
    <3> QED BY <1>t, <2>2, <3>1, CountTyping
            DEF Record, Commit, Move, CountClick, tables, TablesTypeOK, visit, Live, Settled
  <2>3. CASE RecordFails(j)
    <3>1. attempts[j] + 1 \in 0..Attempts
      BY <2>a, <2>3 DEF RecordFails, Retry, Move
    <3> QED BY <1>t, <2>3, <3>1
            DEF RecordFails, Retry, Move, Error, tables, rows, TablesTypeOK, visit, Live, Settled
  <2>6. CASE RecordReplyLost(j)
    <3>1. target[j] \in LinkIds /\ attempts[j] + 1 \in 0..Attempts
      BY <2>a, <2>6 DEF RecordReplyLost, Retry, Move
    <3> QED BY <1>t, <2>6, <3>1, CountTyping
            DEF RecordReplyLost, Retry, Commit, Move, Error, CountClick, tables, TablesTypeOK,
                visit, Live, Settled
  <2>7. CASE AddReplyLost(j)
    BY <1>t, <2>7 DEF AddReplyLost, Move, Error, tables, rows, TablesTypeOK, visit, Live, Settled
  <2>4. CASE Enqueue(j) \/ Take(j) \/ BackoffOver(j) \/ Finish(j)
    BY <1>t, <2>4 DEF Enqueue, Take, BackoffOver, Finish, Move, tables, rows, TablesTypeOK,
                      visit, Live, Settled
  <2>5. CASE EmitFails(j) \/ LockLost(j) \/ Requeue(j)
    BY <1>t, <2>5 DEF EmitFails, LockLost, Requeue, Move, Error, tables, rows, TablesTypeOK,
                      visit, Live, Settled
  <2> QED BY <1>6, <2>2, <2>3, <2>4, <2>5, <2>6, <2>7 DEF Process
<1>7. CASE Crash
  <2>1. state' \in [Jobs -> States]
    BY <1>t, <1>7 DEF Crash, States, Settled, Held
  <2> QED BY <1>t, <1>7, <2>1 DEF Crash, States, tables, rows, TablesTypeOK, Live
<1>8. CASE UNCHANGED vars
  BY <1>t, <1>8 DEF vars, tables, rows, visit, queue, TablesTypeOK, Live
<1> QED BY <1>1, <1>2, <1>3, <1>4, <1>5, <1>6, <1>7, <1>8 DEF Next, Serve

-----------------------------------------------------------------------------
(* The tables and the counts move forward in every step. *)
LEMMA CountsStep ==
  ASSUME PipelineInv, TypeOK', Next
  PROVE  CountsGrow
<1>t. TypeOK
  BY DEF PipelineInv
<1>1. CASE ManageLinks
  BY <1>t, <1>1, ManageTyping
<1>2. ASSUME NEW i \in LinkIds, Expire(i) PROVE CountsGrow
  BY <1>t, <1>2, CountsStay DEF Expire
<1>3. ASSUME NEW v \in Visits, Serve(v) PROVE CountsGrow
  <2>1. CASE DisableLink(v)
    <3>1. CASE UNCHANGED tables
      BY <1>t, <2>1, <3>1, CountsStay DEF DisableLink, rows
    <3>2. CASE SetActive(seen[v].id, FALSE)
      <4>1. Statement
        <5>1. seen[v].id \in LinkIds
          BY <1>t, <2>1 DEF DisableLink, PipelineInv, SeenInv, SnapshotType
        <5> QED BY <3>2, <5>1 DEF Statement
      <4>2. RowsGoForGood
        BY <1>t, <4>1, StatementTyping DEF TypeOK
      <4> QED BY <1>t, <2>1, <4>2 DEF DisableLink, rows, CountsGrow, TypeOK, TablesTypeOK
    <3> QED BY <2>1, <3>1, <3>2 DEF DisableLink
  <2>2. CASE ~DisableLink(v)
    BY <1>t, <1>3, <2>2, CountsStay DEF Serve, Find, CountTotal, rows
  <2> QED BY <2>1, <2>2
<1>4. ASSUME NEW j \in Jobs, Process(j) PROVE CountsGrow
  <2>1. CASE Record(j) \/ RecordReplyLost(j)
    <3>1. target[j] \in LinkIds
      BY <1>t, <2>1
         DEF Record, RecordReplyLost, Retry, Move, PipelineInv, JobInv, TypeOK, TablesTypeOK
    <3> QED BY <1>t, <2>1, <3>1, CountTyping DEF Record, RecordReplyLost, Commit
  <2>2. CASE ~(Record(j) \/ RecordReplyLost(j))
    BY <1>t, <1>4, <2>2, CountsStay
       DEF Process, Enqueue, EmitFails, AddReplyLost, Take, RecordFails, BackoffOver, Finish,
           LockLost, Requeue, rows
  <2> QED BY <2>1, <2>2
<1>5. CASE Crash
  BY <1>t, <1>5, CountsStay DEF Crash, rows
<1> QED BY <1>1, <1>2, <1>3, <1>4, <1>5 DEF Next

(* Every step keeps what visits have in hand. *)
LEMMA SeenStep ==
  ASSUME PipelineInv, TypeOK', Next, NEW w \in Visits
  PROVE  SeenInv(w)'
<1>t. TypeOK /\ SeenInv(w) /\ CountsGrow
  BY CountsStep DEF PipelineInv
<1>f. ASSUME pc'[w] = pc[w], seen'[w] = seen[w] PROVE SeenInv(w)'
  BY <1>t, <1>f, SeenFrame
<1>1. CASE ManageLinks \/ \E i \in LinkIds : Expire(i)
  BY <1>f, <1>1 DEF ManageLinks, Expire, visit
<1>2. ASSUME NEW v \in Visits, NEW s \in Slugs, Find(v, s) PROVE SeenInv(w)'
  <2>1. CASE v # w
    BY <1>t, <1>f, <1>2, <2>1 DEF Find, Leave, TypeOK
  <2>2. CASE v = w /\ \E status \in {404, 410} : Leave(v, status)
    <3>1. pc'[w] = "idle"
      BY <1>t, <2>2 DEF Leave, TypeOK
    <3> QED BY <3>1, SeenIdle
  <2>3. ASSUME v = w, NEW i \in LinkIds, Live(i), pc' = [pc EXCEPT ![v] = "count"],
               seen' = [seen EXCEPT ![v] = Snapshot(i)], UNCHANGED <<tables, rows>>
        PROVE  SeenInv(w)'
    <3>1. /\ pc'[w] = "count" /\ seen'[w] = Snapshot(i)
          /\ clicks' = clicks /\ usedIds' = usedIds
      BY <1>t, <2>3 DEF TypeOK, tables, rows
    <3>2. Snapshot(i) \in SnapshotType /\ Snapshot(i).id = i /\ Snapshot(i).clicks = clicks[i]
      BY <1>t, <2>3, SnapshotTyping
    <3>3. i \in usedIds /\ clicks[i] \in Nat
      BY <1>t, <2>3 DEF TypeOK, TablesTypeOK, Live
    <3> QED BY <3>1, <3>2, <3>3 DEF SeenInv
  <2> QED BY <1>2, <2>1, <2>2, <2>3 DEF Find
<1>3. ASSUME NEW v \in Visits, CountTotal(v) PROVE SeenInv(w)'
  <2>1. CASE v # w
    BY <1>t, <1>f, <1>3, <2>1 DEF CountTotal, Leave, TypeOK
  <2>2. CASE v = w /\ \E status \in {429, 302} : Leave(v, status)
    <3>1. pc'[w] = "idle"
      BY <1>t, <2>2 DEF Leave, TypeOK
    <3> QED BY <3>1, SeenIdle
  <2>3. CASE v = w /\ AtLimit(v) /\ pc' = [pc EXCEPT ![v] = "disable"] /\ UNCHANGED seen
    <3>1. pc[w] = "count" /\ pc'[w] = "disable" /\ seen'[w] = seen[w] /\ UNCHANGED <<tables, clicks>>
      BY <1>t, <1>3, <2>3 DEF CountTotal, TypeOK, rows
    <3> QED BY <1>t, <2>3, <3>1 DEF SeenInv, AtLimit, tables, Live
  <2> QED BY <1>3, <2>1, <2>2, <2>3 DEF CountTotal
<1>4. ASSUME NEW v \in Visits, DisableLink(v) PROVE SeenInv(w)'
  <2>1. pc' = [pc EXCEPT ![v] = "idle"] /\ seen' = [seen EXCEPT ![v] = Null]
    BY <1>4 DEF DisableLink, Leave
  <2>2. CASE v # w
    BY <1>t, <1>f, <2>1, <2>2 DEF TypeOK
  <2>3. CASE v = w
    <3>1. pc'[w] = "idle"
      BY <1>t, <2>1, <2>3 DEF TypeOK
    <3> QED BY <3>1, SeenIdle
  <2> QED BY <2>2, <2>3
<1>5. ASSUME NEW j \in Jobs, Process(j) PROVE SeenInv(w)'
  BY <1>f, <1>5 DEF Process, Enqueue, EmitFails, AddReplyLost, Take, Record, RecordFails,
                    RecordReplyLost, BackoffOver, Finish, LockLost, Requeue, visit
<1>6. CASE Crash
  BY <1>6, SeenIdle DEF Crash
<1> QED BY <1>1, <1>2, <1>3, <1>4, <1>5, <1>6 DEF Next, Serve

(* Every step keeps what jobs have been through. *)
LEMMA JobStep ==
  ASSUME PipelineInv, TypeOK', Next, NEW k \in Jobs
  PROVE  JobInv(k)'
<1>t. TypeOK /\ JobInv(k) /\ RowsGoForGood
  BY CountsStep DEF PipelineInv, CountsGrow
<1>n. /\ attempts[k] \in Nat /\ stalls[k] \in Nat /\ commits[k] \in Nat
      /\ errors \in Nat /\ crashes \in Nat /\ errors' \in Nat /\ crashes' \in Nat
      /\ Attempts \in Nat \ {0} /\ MaxStalls \in Nat
  BY <1>t, QueueAssumption DEF TypeOK
<1>l. state[k] # "free" =>
        /\ target[k] \in usedIds'
        /\ target'[k] = target[k] /\ Live(target[k])' => Live(target[k])
  BY <1>t DEF JobInv, RowsGoForGood
<1>f. ASSUME state'[k] = state[k], target'[k] = target[k], attempts'[k] = attempts[k],
             stalls'[k] = stalls[k], commits'[k] = commits[k],
             errors' >= errors, crashes' >= crashes
      PROVE  JobInv(k)'
  BY <1>t, <1>f, JobFrame
<1>1. CASE ManageLinks \/ \E i \in LinkIds : Expire(i)
  BY <1>f, <1>n, <1>1 DEF ManageLinks, Expire, queue
<1>2. ASSUME NEW v \in Visits, CountTotal(v) PROVE JobInv(k)'
  <2>1. CASE UNCHANGED queue
    BY <1>f, <1>n, <1>2, <2>1 DEF CountTotal, queue
  <2>2. ASSUME NEW j \in Jobs, Emit(j, seen[v].id) PROVE JobInv(k)'
    <3>1. seen[v].id \in usedIds /\ UNCHANGED <<usedIds, errors, crashes>>
      BY <1>t, <1>2 DEF CountTotal, PipelineInv, SeenInv, tables
    <3>2. CASE j # k
      BY <1>t, <1>f, <1>n, <2>2, <3>1, <3>2 DEF Emit, TypeOK
    <3>3. CASE j = k
      <4>1. /\ state[k] = "free" /\ state'[k] = "emitting" /\ target'[k] \in usedIds'
            /\ UNCHANGED <<attempts, stalls, commits>>
        BY <1>t, <2>2, <3>1, <3>3 DEF Emit, TypeOK
      <4> QED BY <1>t, <1>n, <3>1, <4>1 DEF JobInv, Fresh, Pending, Held
    <3> QED BY <3>2, <3>3
  <2> QED BY <1>2, <2>1, <2>2 DEF CountTotal
<1>3. ASSUME NEW v \in Visits, DisableLink(v) \/ \E s \in Slugs : Find(v, s) PROVE JobInv(k)'
  <2>1. UNCHANGED <<queue, errors, crashes>>
    BY <1>3 DEF DisableLink, Find
  <2> QED BY <1>f, <1>n, <2>1 DEF queue
<1>4. ASSUME NEW j \in Jobs, Process(j) PROVE JobInv(k)'
  <2>1. errors' >= errors /\ crashes' = crashes
    BY <1>n, <1>4 DEF Process, Enqueue, EmitFails, AddReplyLost, Take, Record, RecordFails,
                      RecordReplyLost, BackoffOver, Finish, LockLost, Requeue, Error
  <2>c. ASSUME j # k, AddReplyLost(j), state'[k] # state[k] PROVE JobInv(k)'
    <3>1. /\ state[k] = "free" /\ state'[k] = "emitting" /\ target'[k] = target[j]
          /\ state[j] = "emitting" /\ UNCHANGED <<tables, attempts, stalls, commits>>
      BY <1>t, <2>c DEF AddReplyLost, Move, TypeOK
    <3>2. target'[k] \in usedIds'
      BY <3>1 DEF PipelineInv, JobInv, tables
    <3> QED BY <1>t, <1>n, <2>1, <3>1, <3>2 DEF JobInv, Fresh, Pending, Held
  <2>d. ASSUME j # k, AddReplyLost(j), state'[k] = state[k] PROVE JobInv(k)'
    <3>1. target'[k] = target[k] /\ UNCHANGED <<attempts, stalls, commits>>
      BY <1>t, <2>d DEF AddReplyLost, Move, TypeOK
    <3> QED BY <1>f, <1>n, <2>1, <2>d, <3>1
  <2>2. CASE j # k
    <3>1. CASE AddReplyLost(j)
      BY <2>c, <2>d, <2>2, <3>1
    <3>2. CASE ~AddReplyLost(j)
      <4>1. /\ state'[k] = state[k] /\ target'[k] = target[k] /\ attempts'[k] = attempts[k]
            /\ stalls'[k] = stalls[k] /\ commits'[k] = commits[k]
        BY <1>t, <1>4, <2>2, <3>2
           DEF Process, Enqueue, EmitFails, Take, Record, RecordFails, RecordReplyLost, BackoffOver,
               Finish, LockLost, Requeue, Retry, Commit, Move, TypeOK
      <4> QED BY <1>f, <1>n, <2>1, <4>1
    <3> QED BY <3>1, <3>2
  <2>11. ASSUME j = k, AddReplyLost(j) PROVE JobInv(k)'
    <3>1. /\ state[k] = "emitting" /\ state'[k] = "waiting" /\ target'[k] = target[k]
          /\ UNCHANGED <<attempts, stalls, commits, crashes>>
      BY <1>t, <2>11 DEF AddReplyLost, Move, TypeOK
    <3> QED BY <1>t, <1>n, <1>l, <2>1, <3>1 DEF JobInv, Fresh, Pending, Held
  <2>12. ASSUME j = k, LockLost(j) PROVE JobInv(k)'
    <3>1. /\ state[k] \in Held /\ state'[k] = "stalled" /\ errors' = errors + 1
          /\ UNCHANGED <<target, attempts, stalls, commits, crashes>>
      BY <1>t, <2>12 DEF LockLost, Move, Error, TypeOK
    <3> QED BY <1>t, <1>n, <1>l, <2>1, <3>1 DEF JobInv, Fresh, Pending, Held
  <2>13. ASSUME j = k, RecordReplyLost(j) PROVE JobInv(k)'
    <3>1. /\ state[k] = "active"
          /\ state'[k] = IF Retries(attempts[k] + 1) THEN "delayed" ELSE "failed"
          /\ attempts'[k] = attempts[k] + 1 /\ commits'[k] = commits[k] + 1
          /\ errors' = errors + 1 /\ UNCHANGED <<tables, target, stalls, crashes>>
      BY <1>t, <2>13 DEF RecordReplyLost, Retry, Commit, Move, Error, TypeOK
    <3>2. CASE attempts[k] + 1 < Attempts
      BY <1>t, <1>n, <1>l, <2>1, <3>1, <3>2 DEF JobInv, Fresh, Pending, Held, Retries
    <3>3. CASE ~(attempts[k] + 1 < Attempts)
      BY <1>t, <1>n, <1>l, <2>1, <3>1, <3>3 DEF JobInv, Fresh, Pending, Held, Retries
    <3> QED BY <3>2, <3>3
  <2>3. ASSUME j = k, Enqueue(j) PROVE JobInv(k)'
    <3>1. state[k] = "emitting" /\ state'[k] = "waiting"
          /\ UNCHANGED <<target, attempts, stalls, commits, errors, crashes>>
      BY <1>t, <2>3 DEF Enqueue, Move, TypeOK
    <3> QED BY <1>t, <1>n, <1>l, <3>1 DEF JobInv, Fresh, Pending, Held
  <2>4. ASSUME j = k, EmitFails(j) PROVE JobInv(k)'
    <3>1. state[k] = "emitting" /\ state'[k] = "lost" /\ errors' = errors + 1
          /\ UNCHANGED <<target, attempts, stalls, commits, crashes>>
      BY <1>t, <2>4 DEF EmitFails, Move, Error, TypeOK
    <3> QED BY <1>t, <1>n, <1>l, <3>1 DEF JobInv, Fresh, Pending, Held
  <2>5. ASSUME j = k, Take(j) PROVE JobInv(k)'
    <3>1. state[k] = "waiting" /\ state'[k] = "active"
          /\ UNCHANGED <<target, attempts, stalls, commits, errors, crashes>>
      BY <1>t, <2>5 DEF Take, Move, TypeOK
    <3> QED BY <1>t, <1>n, <1>l, <3>1 DEF JobInv, Fresh, Pending, Held
  <2>6. ASSUME j = k, Record(j) PROVE JobInv(k)'
    <3>1. state[k] = "active" /\ state'[k] = "committed" /\ commits'[k] = commits[k] + 1
          /\ UNCHANGED <<target, attempts, stalls, errors, crashes>>
      BY <1>t, <2>6 DEF Record, Commit, Move, TypeOK
    <3> QED BY <1>t, <1>n, <1>l, <3>1 DEF JobInv, Fresh, Pending, Held
  <2>7. ASSUME j = k, RecordFails(j) PROVE JobInv(k)'
    <3>1. /\ state[k] = "active"
          /\ state'[k] = IF Retries(attempts[k] + 1) THEN "delayed" ELSE "failed"
          /\ attempts'[k] = attempts[k] + 1
          /\ UNCHANGED <<tables, target, stalls, commits, crashes>>
      BY <1>t, <2>7 DEF RecordFails, Retry, Move, TypeOK
    <3>2. Live(target[k]) => errors' = errors + 1
      BY <2>7 DEF RecordFails, Error
    <3>3. Live(target[k])' => Live(target[k])
      BY <1>l, <3>1
    <3>4. CASE attempts[k] + 1 < Attempts
      BY <1>t, <1>n, <1>l, <2>1, <3>1, <3>2, <3>3, <3>4 DEF JobInv, Fresh, Pending, Held, Retries
    <3>5. CASE ~(attempts[k] + 1 < Attempts)
      BY <1>t, <1>n, <1>l, <2>1, <3>1, <3>2, <3>3, <3>5 DEF JobInv, Fresh, Pending, Held, Retries
    <3> QED BY <3>4, <3>5
  <2>8. ASSUME j = k, BackoffOver(j) PROVE JobInv(k)'
    <3>1. state[k] = "delayed" /\ state'[k] = "waiting"
          /\ UNCHANGED <<target, attempts, stalls, commits, errors, crashes>>
      BY <1>t, <2>8 DEF BackoffOver, Move, TypeOK
    <3> QED BY <1>t, <1>n, <1>l, <3>1 DEF JobInv, Fresh, Pending, Held
  <2>9. ASSUME j = k, Finish(j) PROVE JobInv(k)'
    <3>1. state[k] = "committed" /\ state'[k] = "completed"
          /\ UNCHANGED <<target, attempts, stalls, commits, errors, crashes>>
      BY <1>t, <2>9 DEF Finish, Move, TypeOK
    <3> QED BY <1>t, <1>n, <1>l, <3>1 DEF JobInv, Fresh, Pending, Held
  <2>10. ASSUME j = k, Requeue(j) PROVE JobInv(k)'
    <3>1. /\ state[k] = "stalled"
          /\ state'[k] = IF stalls[k] < MaxStalls THEN "waiting" ELSE "failed"
          /\ stalls'[k] = stalls[k] + 1
          /\ UNCHANGED <<target, attempts, commits, errors, crashes>>
      BY <1>t, <2>10 DEF Requeue, Move, TypeOK
    <3>2. CASE stalls[k] < MaxStalls
      BY <1>t, <1>n, <1>l, <3>1, <3>2 DEF JobInv, Fresh, Pending, Held
    <3>3. CASE ~(stalls[k] < MaxStalls)
      BY <1>t, <1>n, <1>l, <3>1, <3>3 DEF JobInv, Fresh, Pending, Held
    <3> QED BY <3>2, <3>3
  <2> QED BY <1>4, <2>2, <2>3, <2>4, <2>5, <2>6, <2>7, <2>8, <2>9, <2>10, <2>11, <2>12, <2>13 DEF Process
<1>5. CASE Crash
  <2>1. /\ crashes' = crashes + 1
        /\ UNCHANGED <<target, attempts, stalls, commits, errors>>
    BY <1>5 DEF Crash
  <2>2. CASE state[k] = "emitting"
    <3>1. state'[k] = "lost"
      BY <1>5, <2>2 DEF Crash, Held
    <3> QED BY <1>t, <1>n, <1>l, <2>1, <2>2, <3>1 DEF JobInv, Fresh, Pending, Held
  <2>3. CASE state[k] \in Held
    <3>1. state'[k] = "stalled"
      BY <1>5, <2>3 DEF Crash, Held
    <3> QED BY <1>t, <1>n, <1>l, <2>1, <2>3, <3>1 DEF JobInv, Fresh, Pending, Held
  <2>4. CASE state[k] # "emitting" /\ state[k] \notin Held
    BY <1>f, <1>n, <1>5, <2>1, <2>4 DEF Crash
  <2> QED BY <2>2, <2>3, <2>4
<1> QED BY <1>1, <1>2, <1>3, <1>4, <1>5 DEF Next, Serve

-----------------------------------------------------------------------------
(* Every step keeps what visits and jobs have been through. *)
LEMMA PipelineStep == PipelineInv /\ [Next]_vars => PipelineInv'
<1> SUFFICES ASSUME PipelineInv, [Next]_vars PROVE PipelineInv'
  OBVIOUS
<1>1. TypeOK'
  BY TypeStep
<1>2. CASE Next
  BY <1>1, <1>2, SeenStep, JobStep DEF PipelineInv
<1>3. CASE UNCHANGED vars
  BY <1>1, <1>3 DEF PipelineInv, SeenInv, JobInv, vars, tables, rows, visit, queue, Live
<1> QED BY <1>2, <1>3

(* It holds at the start. *)
LEMMA PipelineStarts == Init => PipelineInv
<1> SUFFICES ASSUME Init PROVE PipelineInv
  OBVIOUS
<1>1. TypeOK
  BY QueueAssumption DEF Init, TypeOK, TablesInit, TablesTypeOK, Settled
<1>2. ASSUME NEW v \in Visits PROVE SeenInv(v)
  BY DEF Init, SeenInv
<1>3. ASSUME NEW j \in Jobs PROVE JobInv(j)
  BY QueueAssumption DEF Init, JobInv, Fresh, Pending, Held
<1> QED BY <1>1, <1>2, <1>3 DEF PipelineInv

(* What visits and jobs have been through holds throughout. *)
LEMMA PipelineInvariant == Spec => []PipelineInv
  BY PipelineStarts, PipelineStep, PTL DEF Spec

(* Type correctness: in particular a job never makes more attempts than it *)
(* has.                                                                    *)
THEOREM TypeCorrect == Spec => []TypeOK
<1>1. PipelineInv => TypeOK
  BY DEF PipelineInv
<1> QED BY <1>1, PipelineInvariant, PTL

(* A job counts its click once in each of its runs at most, whatever the   *)
(* order of its attempts, its stalls and the replies lost, and the queue   *)
(* runs it no more than Attempts + MaxStalls times.                        *)
THEOREM CountedOncePerRun == Spec => []AtMostOncePerRun
<1>1. PipelineInv => AtMostOncePerRun
  <2> SUFFICES ASSUME PipelineInv, NEW j \in Jobs
               PROVE  commits[j] <= 1 + attempts[j] + stalls[j] /\ commits[j] <= Attempts + MaxStalls
    BY DEF AtMostOncePerRun
  <2>1. /\ JobInv(j) /\ state[j] \in States /\ Attempts \in Nat \ {0} /\ MaxStalls \in Nat
        /\ commits[j] \in Nat /\ stalls[j] \in Nat /\ attempts[j] \in Nat
    BY QueueAssumption DEF PipelineInv, TypeOK, States
  <2> QED BY <2>1 DEF JobInv, Fresh, Pending, Held, States, Settled
<1> QED BY <1>1, PipelineInvariant, PTL

(* A click on a link that is still there is dropped only after as many     *)
(* errors as it has attempts, more faults than stalls are forgiven, or a   *)
(* fault before it was queued.                                             *)
THEOREM NothingDroppedInSilence == Spec => []DroppedOnlyByFaults
<1>1. PipelineInv => DroppedOnlyByFaults
  <2> SUFFICES ASSUME PipelineInv, NEW j \in Jobs, commits[j] = 0, target[j] # Null, Live(target[j])
               PROVE  /\ state[j] = "failed" => errors >= Attempts \/ errors + crashes > MaxStalls
                      /\ state[j] = "lost" => errors > 0 \/ crashes > 0
                      /\ state[j] # "completed"
    BY DEF DroppedOnlyByFaults
  <2>1. /\ JobInv(j) /\ attempts[j] \in Nat /\ stalls[j] \in Nat
        /\ errors \in Nat /\ crashes \in Nat /\ Attempts \in Nat /\ MaxStalls \in Nat
    BY QueueAssumption DEF PipelineInv, TypeOK
  <2> QED BY <2>1 DEF JobInv
<1> QED BY <1>1, PipelineInvariant, PTL

(* A link is about to be disabled for its clicks only when it has them,    *)
(* however old the snapshot the redirect decides on.                       *)
THEOREM DisabledOnlyWhenUsedUp == Spec => []DisableJustified
<1>1. PipelineInv => DisableJustified
  <2> SUFFICES ASSUME PipelineInv, NEW v \in Visits, pc[v] = "disable", Live(seen[v].id)
               PROVE  clicks[seen[v].id] >= seen[v].perLink
    BY DEF DisableJustified
  <2>1. SeenInv(v) /\ seen[v] \in SnapshotType
    BY DEF PipelineInv, SeenInv
  <2>2. seen[v].clicks \in Nat /\ seen[v].perLink \in Nat /\ clicks[seen[v].id] \in Nat
    BY <2>1 DEF PipelineInv, TypeOK, SnapshotType
  <2> QED BY <2>1, <2>2 DEF SeenInv
<1> QED BY <1>1, PipelineInvariant, PTL

-----------------------------------------------------------------------------
(* The books of a link: while its row is there its two counts agree with   *)
(* what the worker committed for it, and an identifier not handed out yet  *)
(* starts from nothing.                                                    *)
JobsOf(i) == {j \in Jobs : target[j] = i}
AccountOf(i) ==
  /\ Live(i) => clicks[i] = events[i] /\ clicks[i] = SumFunctionOnSet(commits, JobsOf(i))
  /\ i \notin usedIds => clicks[i] = 0 /\ events[i] = 0
AccountInv == /\ \A j \in Jobs : state[j] = "free" => target[j] = Null
              /\ \A i \in LinkIds : AccountOf(i)

(* No job is for a link whose identifier was not handed out. *)
LEMMA NoJobsYet ==
  ASSUME PipelineInv, AccountInv, NEW i \in LinkIds, i \notin usedIds
  PROVE  JobsOf(i) = {}
<1> SUFFICES ASSUME NEW j \in Jobs, target[j] = i PROVE FALSE
  BY DEF JobsOf
<1>1. state[j] # "free" => target[j] \in usedIds
  BY DEF PipelineInv, JobInv
<1> QED BY <1>1, NullAssumption DEF AccountInv

(* A link's books stay right while its counts and the commits stay.  A row *)
(* inserted in the step opens new ones.                                    *)
LEMMA AccountFrame ==
  ASSUME PipelineInv, AccountInv, RowsGoForGood, NEW i \in LinkIds,
         clicks'[i] = clicks[i], events'[i] = events[i], commits' = commits, target' = target
  PROVE  AccountOf(i)'
<1>0. AccountOf(i)
  BY DEF AccountInv
<1>1. JobsOf(i)' = JobsOf(i)
  BY DEF JobsOf
<1>2. CASE i \in usedIds
  BY <1>0, <1>1, <1>2 DEF AccountOf, RowsGoForGood
<1>3. CASE i \notin usedIds
  <2>1. JobsOf(i) = {}
    BY <1>3, NoJobsYet
  <2>2. SumFunctionOnSet(commits, {}) = 0
    BY SumEmpty
  <2> QED BY <1>0, <1>1, <1>3, <2>1, <2>2 DEF AccountOf
<1> QED BY <1>2, <1>3

(* A job that was just made, by a redirect or by a command sent twice,     *)
(* adds nothing to the books of its link k.                                *)
LEMMA NewJob ==
  ASSUME PipelineInv, AccountInv, NEW j \in Jobs, NEW k \in usedIds, state[j] = "free",
         target' = [target EXCEPT ![j] = k], UNCHANGED <<tables, clicks, events, commits>>,
         \A m \in Jobs : state'[m] = "free" => m # j /\ state[m] = "free"
  PROVE  AccountInv'
<1>t. TypeOK /\ JobInv(j)
  BY DEF PipelineInv
<1>1. /\ k \in LinkIds /\ k # Null /\ target[j] = Null /\ commits[j] = 0
  BY <1>t, NullAssumption DEF AccountInv, JobInv, Fresh, TypeOK, TablesTypeOK
<1>2. \A m \in Jobs : state'[m] = "free" => target'[m] = Null
  BY <1>t DEF AccountInv, TypeOK
<1>3. ASSUME NEW i \in LinkIds PROVE AccountOf(i)'
  <2>1. AccountOf(i) /\ Live(i)' = Live(i) /\ usedIds' = usedIds
    BY DEF AccountInv, Live, tables
  <2>2. CASE i # k
    <3>1. JobsOf(i)' = JobsOf(i)
      BY <1>t, <1>1, <2>2, NullAssumption DEF JobsOf, TypeOK
    <3> QED BY <2>1, <3>1 DEF AccountOf
  <2>3. CASE i = k
    <3>1. JobsOf(i)' = JobsOf(i) \cup {j} /\ j \notin JobsOf(i)
      BY <1>t, <1>1, <2>3 DEF JobsOf, TypeOK
    <3>2. IsFiniteSet(JobsOf(i)) /\ \A y \in JobsOf(i) \cup {j} : commits[y] \in Nat
      BY <1>t, QueueAssumption, FS_Subset DEF JobsOf, TypeOK
    <3>3. SumFunctionOnSet(commits, JobsOf(i) \cup {j})
            = commits[j] + SumFunctionOnSet(commits, JobsOf(i))
      BY <3>1, <3>2, SumAdd
    <3>4. SumFunctionOnSet(commits, JobsOf(i)) \in Nat
      BY <3>2, SumNat
    <3>5. SumFunctionOnSet(commits, JobsOf(i))' = SumFunctionOnSet(commits, JobsOf(i))
      BY <1>1, <3>1, <3>3, <3>4
    <3> QED BY <2>1, <2>3, <3>5 DEF AccountOf
  <2> QED BY <2>2, <2>3
<1> QED BY <1>2, <1>3 DEF AccountInv

(* A commit is entered in both counts of its link.                         *)
LEMMA NewCommit ==
  ASSUME PipelineInv, AccountInv, NEW j \in Jobs, state[j] = "active", Commit(j),
         UNCHANGED <<tables, target>>, \A m \in Jobs : state'[m] = "free" => state[m] = "free"
  PROVE  AccountInv'
<1> DEFINE k == target[j]
<1>t. TypeOK
  BY DEF PipelineInv
<1>1. /\ k \in LinkIds /\ Live(k) /\ commits' = [commits EXCEPT ![j] = @ + 1]
      /\ clicks' = [clicks EXCEPT ![k] = @ + 1] /\ events' = [events EXCEPT ![k] = @ + 1]
  BY <1>t DEF Commit, CountClick, PipelineInv, JobInv, TypeOK, TablesTypeOK
<1>2. \A m \in Jobs : state'[m] = "free" => target'[m] = Null
  BY DEF AccountInv
<1>3. ASSUME NEW i \in LinkIds PROVE AccountOf(i)'
  <2>1. /\ AccountOf(i) /\ Live(i)' = Live(i) /\ usedIds' = usedIds
        /\ JobsOf(i)' = JobsOf(i)
    BY DEF AccountInv, Live, tables, JobsOf
  <2>2. IsFiniteSet(JobsOf(i)) /\ \A y \in JobsOf(i) : commits[y] \in Nat
    BY <1>t, QueueAssumption, FS_Subset DEF JobsOf, TypeOK
  <2>3. CASE i # k
    <3>1. \A y \in JobsOf(i) : commits'[y] = commits[y]
      BY <1>t, <1>1, <2>3 DEF JobsOf, TypeOK
    <3>2. SumFunctionOnSet(commits', JobsOf(i)) = SumFunctionOnSet(commits, JobsOf(i))
      BY <2>2, <3>1, SumEqual
    <3>3. clicks'[i] = clicks[i] /\ events'[i] = events[i]
      BY <1>t, <1>1, <2>3 DEF TypeOK
    <3> QED BY <2>1, <3>2, <3>3 DEF AccountOf
  <2>4. CASE i = k
    <3>1. /\ j \in JobsOf(i) /\ commits'[j] = commits[j] + 1
          /\ \A y \in JobsOf(i) \ {j} : commits'[y] = commits[y]
      BY <1>t, <1>1, <2>4 DEF JobsOf, TypeOK
    <3>2. SumFunctionOnSet(commits', JobsOf(i)) = SumFunctionOnSet(commits, JobsOf(i)) + 1
      BY <2>2, <3>1, SumOneMore
    <3>3. clicks'[i] = clicks[i] + 1 /\ events'[i] = events[i] + 1 /\ i \in usedIds
      BY <1>t, <1>1, <2>4 DEF Live, TypeOK, TablesTypeOK
    <3> QED BY <1>1, <2>1, <2>4, <3>2, <3>3 DEF AccountOf
  <2> QED BY <2>3, <2>4
<1> QED BY <1>2, <1>3 DEF AccountInv

(* Every step keeps the books: a commit is entered in both counts, a click *)
(* just emitted adds nothing, and a deleted row closes its account.        *)
LEMMA AccountStep == PipelineInv /\ AccountInv /\ [Next]_vars => AccountInv'
<1> SUFFICES ASSUME PipelineInv, AccountInv, [Next]_vars PROVE AccountInv'
  OBVIOUS
<1>t. TypeOK /\ TypeOK'
  BY TypeStep DEF PipelineInv
<1>g. CASE UNCHANGED vars
  BY <1>g DEF vars, tables, rows, queue, AccountInv, AccountOf, JobsOf, Live
<1>n. CASE Next
  <2>g. RowsGoForGood
    BY <1>n, <1>t, CountsStep DEF CountsGrow
  <2>f. ASSUME UNCHANGED queue, clicks' = clicks, events' = events PROVE AccountInv'
    BY <2>f, <2>g, AccountFrame DEF AccountInv, queue
  <2>j. \A j \in Jobs : state[j] = "free" => target[j] = Null
    BY DEF AccountInv
  <2>1. CASE ManageLinks
    <3>1. UNCHANGED queue
      BY <2>1 DEF ManageLinks
    <3>2. CASE UNCHANGED rows
      BY <2>f, <3>1, <3>2 DEF rows
    <3>3. ASSUME NEW k \in LinkIds, DeleteLink(k),
                 clicks' = [clicks EXCEPT ![k] = 0], events' = [events EXCEPT ![k] = 0]
          PROVE  AccountInv'
      <4>1. ASSUME NEW i \in LinkIds PROVE AccountOf(i)'
        <5>1. CASE i = k
          <6>1. ~Live(i)' /\ i \in usedIds'
            BY <1>t, <3>3, <5>1 DEF DeleteLink, Live, TypeOK, TablesTypeOK
          <6> QED BY <6>1 DEF AccountOf
        <5>2. CASE i # k
          <6>1. clicks'[i] = clicks[i] /\ events'[i] = events[i]
            BY <1>t, <3>3, <5>2 DEF TypeOK
          <6> QED BY <2>g, <3>1, <6>1, AccountFrame DEF queue
        <5> QED BY <5>1, <5>2
      <4> QED BY <2>j, <3>1, <4>1 DEF AccountInv, queue
    <3> QED BY <2>1, <3>2, <3>3 DEF ManageLinks
  <2>2. ASSUME NEW i \in LinkIds, Expire(i) PROVE AccountInv'
    BY <2>2, <2>f DEF Expire
  <2>3. ASSUME NEW v \in Visits, DisableLink(v) \/ \E s \in Slugs : Find(v, s) PROVE AccountInv'
    BY <2>3, <2>f DEF DisableLink, Find, rows
  <2>4. ASSUME NEW v \in Visits, CountTotal(v) PROVE AccountInv'
    <3>1. CASE UNCHANGED queue
      BY <2>4, <3>1, <2>f DEF CountTotal, rows
    <3>2. ASSUME NEW j \in Jobs, Emit(j, seen[v].id) PROVE AccountInv'
      <4>1. /\ seen[v].id \in usedIds /\ UNCHANGED <<tables, clicks, events>>
            /\ \A m \in Jobs : state'[m] = "free" => m # j /\ state[m] = "free"
        BY <1>t, <2>4, <3>2 DEF CountTotal, Emit, rows, PipelineInv, SeenInv, TypeOK
      <4> QED BY <3>2, <4>1, NewJob DEF Emit
    <3> QED BY <2>4, <3>1, <3>2 DEF CountTotal
  <2>5. ASSUME NEW j \in Jobs, Process(j) PROVE AccountInv'
    <3>1. CASE Record(j) \/ RecordReplyLost(j)
      <4>1. /\ state[j] = "active" /\ Commit(j) /\ UNCHANGED <<tables, target>>
            /\ \A m \in Jobs : state'[m] = "free" => state[m] = "free"
        BY <1>t, <3>1 DEF Record, RecordReplyLost, Retry, Move, TypeOK
      <4> QED BY <4>1, NewCommit
    <3>2. ASSUME AddReplyLost(j), NEW k \in Jobs, state[k] = "free",
                 state' = [state EXCEPT ![j] = "waiting", ![k] = "emitting"],
                 target' = [target EXCEPT ![k] = target[j]]
          PROVE  AccountInv'
      <4>1. /\ target[j] \in usedIds /\ UNCHANGED <<tables, clicks, events, commits>>
            /\ \A m \in Jobs : state'[m] = "free" => m # k /\ state[m] = "free"
        BY <1>t, <3>2 DEF AddReplyLost, rows, PipelineInv, JobInv, TypeOK
      <4> QED BY <3>2, <4>1, NewJob
    <3>3. ASSUME UNCHANGED <<clicks, events, commits, target>>,
                 \A m \in Jobs : state'[m] = "free" => state[m] = "free"
          PROVE  AccountInv'
      BY <2>g, <2>j, <3>3, AccountFrame DEF AccountInv
    <3>4. CASE AddReplyLost(j) /\ UNCHANGED target
      BY <1>t, <3>3, <3>4 DEF AddReplyLost, Move, rows, TypeOK
    <3>5. CASE ~(Record(j) \/ RecordReplyLost(j) \/ AddReplyLost(j))
      <4>1. /\ UNCHANGED <<clicks, events, commits, target>>
            /\ \A m \in Jobs : state'[m] = "free" => state[m] = "free"
        BY <1>t, <2>5, <3>5
           DEF Process, Enqueue, EmitFails, Take, RecordFails, BackoffOver, Finish, LockLost,
               Requeue, Retry, Move, rows, TypeOK
      <4> QED BY <3>3, <4>1
    <3>6. CASE AddReplyLost(j)
      BY <3>2, <3>4, <3>6 DEF AddReplyLost
    <3> QED BY <3>1, <3>5, <3>6
  <2>6. CASE Crash
    <3>1. /\ UNCHANGED <<clicks, events, commits, target>>
          /\ \A m \in Jobs : state'[m] = "free" => state[m] = "free"
      BY <1>t, <2>6 DEF Crash, rows, Held
    <3> QED BY <2>g, <2>j, <3>1, AccountFrame DEF AccountInv
  <2> QED BY <1>n, <2>1, <2>2, <2>3, <2>4, <2>5, <2>6 DEF Next, Serve
<1> QED BY <1>g, <1>n

(* Two tables and a history agree: at any moment a live link's click count *)
(* is the number of its events and of the worker's commits for it.         *)
THEOREM BooksBalance == Spec => []Accounted
<1>1. Init => AccountInv
  <2> SUFFICES ASSUME Init PROVE AccountInv
    OBVIOUS
  <2>1. \A i \in LinkIds : ~Live(i) /\ clicks[i] = 0 /\ events[i] = 0
    BY DEF Init, TablesInit, Live
  <2> QED BY <2>1 DEF Init, AccountInv, AccountOf
<1>2. AccountInv => Accounted
  BY DEF AccountInv, AccountOf, Accounted, JobsOf
<1> QED BY <1>1, <1>2, AccountStep, PipelineInvariant, PTL DEF Spec

-----------------------------------------------------------------------------
(* What a job may still come to: the counts it has, and one more while it  *)
(* is under way.  This, over all jobs, stays within what was granted and   *)
(* the faults so far.  A fault spoils one job at most, as the worker holds *)
(* one at a time.                                                          *)
Going   == {"emitting", "stalled"} \cup Pending
Load    == [j \in Jobs |-> commits[j] + IF state[j] \in Going THEN 1 ELSE 0]
Budget  == granted + errors + crashes
OneHeld == \A j, k \in Jobs : state[j] \in Held /\ state[k] \in Held => j = k
GrantInv == OneHeld /\ SumFunctionOnSet(Load, Jobs) <= Budget

(* A step costs nothing, or it raises the load of one job by one and pays  *)
(* for it.                                                                 *)
Free    == (\A k \in Jobs : Load'[k] <= Load[k]) /\ Budget' >= Budget
Paid(x) == /\ Load'[x] <= Load[x] + 1
           /\ \A k \in Jobs \ {x} : Load'[k] <= Load[k]
           /\ Budget' >= Budget + 1

(* Loads are numbers.                                                      *)
LEMMA LoadNat ==
  TypeOK => Budget \in Nat /\ \A j \in Jobs : Load[j] \in Nat
  BY DEF Load, Budget, TypeOK

LEMMA LoadNatNext ==
  TypeOK' => (Budget \in Nat /\ \A j \in Jobs : Load[j] \in Nat)'
  BY LoadNat, PTL

(* Steps of a job cost nothing, but for a reply or a lock that is lost.    *)
LEMMA JobPaidFor ==
  ASSUME PipelineInv, NEW j \in Jobs, Process(j)
  PROVE  Free \/ \E x \in Jobs : Paid(x)
<1>t. TypeOK
  BY DEF PipelineInv
<1>n. /\ granted \in Nat /\ errors \in Nat /\ crashes \in Nat
      /\ \A k \in Jobs : commits[k] \in Nat
  BY <1>t DEF TypeOK
<1>1. CASE \/ Enqueue(j) \/ Take(j) \/ BackoffOver(j) \/ Finish(j) \/ Requeue(j)
  BY <1>t, <1>n, <1>1 DEF Enqueue, Take, BackoffOver, Finish, Requeue, Move, Free, Budget, Load,
     Going, Pending, TypeOK
<1>2. CASE EmitFails(j) \/ RecordFails(j)
  BY <1>t, <1>n, <1>2 DEF EmitFails, RecordFails, Retry, Move, Error, Free, Budget, Load, Going,
     Pending, TypeOK
<1>3. CASE Record(j)
  BY <1>t, <1>n, <1>3 DEF Record, Commit, Move, Free, Budget, Load, Going, Pending, TypeOK
<1>4. CASE RecordReplyLost(j)
  <2>1. Paid(j)
    BY <1>t, <1>n, <1>4 DEF RecordReplyLost, Retry, Commit, Move, Error, Paid, Budget, Load,
       Going, Pending, TypeOK
  <2> QED BY <2>1
<1>5. CASE LockLost(j)
  <2>1. Paid(j)
    BY <1>t, <1>n, <1>5 DEF LockLost, Move, Error, Paid, Budget, Load, Going, Pending, TypeOK
  <2> QED BY <2>1
<1>6. CASE AddReplyLost(j)
  <2>1. /\ state[j] = "emitting" /\ errors' = errors + 1
        /\ UNCHANGED <<commits, granted, crashes>>
    BY <1>6 DEF AddReplyLost, Error
  <2>2. CASE state' = [state EXCEPT ![j] = "waiting"]
    BY <1>t, <1>n, <2>1, <2>2 DEF Free, Budget, Load, Going, Pending, TypeOK
  <2>3. ASSUME NEW k \in Jobs, state' = [state EXCEPT ![j] = "waiting", ![k] = "emitting"]
        PROVE  Paid(k)
    BY <1>t, <1>n, <2>1, <2>3 DEF Paid, Budget, Load, Going, Pending, TypeOK
  <2> QED BY <1>6, <2>2, <2>3 DEF AddReplyLost, Move
<1> QED BY <1>1, <1>2, <1>3, <1>4, <1>5, <1>6 DEF Process

(* No step costs more than it pays for.                                    *)
LEMMA PaidFor ==
  ASSUME PipelineInv, OneHeld, [Next]_vars
  PROVE  Free \/ \E x \in Jobs : Paid(x)
<1>t. TypeOK
  BY DEF PipelineInv
<1>n. /\ granted \in Nat /\ errors \in Nat /\ crashes \in Nat
      /\ \A k \in Jobs : commits[k] \in Nat
  BY <1>t DEF TypeOK
<1>q. ASSUME UNCHANGED <<queue, errors, crashes>> PROVE Free
  BY <1>n, <1>q DEF queue, Free, Budget, Load
<1>1. CASE ManageLinks \/ \E i \in LinkIds : Expire(i)
  BY <1>1, <1>q DEF ManageLinks, Expire
<1>2. ASSUME NEW v \in Visits, DisableLink(v) \/ \E s \in Slugs : Find(v, s) PROVE Free
  BY <1>2, <1>q DEF DisableLink, Find
<1>3. ASSUME NEW v \in Visits, CountTotal(v) PROVE Free \/ \E x \in Jobs : Paid(x)
  <2>1. CASE UNCHANGED queue
    BY <1>3, <1>q, <2>1 DEF CountTotal
  <2>2. ASSUME NEW j \in Jobs, Emit(j, seen[v].id) PROVE Paid(j)
    BY <1>t, <1>n, <1>3, <2>2 DEF CountTotal, Emit, Paid, Budget, Load, Going, Pending, TypeOK
  <2> QED BY <1>3, <2>1, <2>2 DEF CountTotal
<1>4. CASE Crash
  <2>1. /\ crashes' = crashes + 1 /\ UNCHANGED <<commits, granted, errors>>
        /\ \A k \in Jobs : state[k] \notin Held => Load'[k] <= Load[k]
        /\ \A k \in Jobs : Load'[k] <= Load[k] + 1
    BY <1>t, <1>n, <1>4 DEF Crash, Load, Going, Pending, Held, TypeOK
  <2>2. Budget' >= Budget + 1
    BY <1>n, <2>1 DEF Budget
  <2>3. ASSUME NEW x \in Jobs, state[x] \in Held PROVE Paid(x)
    BY <2>1, <2>2, <2>3 DEF OneHeld, Paid
  <2>4. CASE \A k \in Jobs : state[k] \notin Held
    BY <1>n, <2>1, <2>4 DEF Free, Budget
  <2> QED BY <2>3, <2>4
<1>5. CASE UNCHANGED vars
  BY <1>5, <1>q DEF vars
<1> QED BY <1>1, <1>2, <1>3, <1>4, <1>5, JobPaidFor DEF Next, Serve

(* The worker goes on holding one job at a time.                           *)
LEMMA OneHeldStep ==
  ASSUME PipelineInv, OneHeld, [Next]_vars
  PROVE  OneHeld'
<1>t. TypeOK
  BY DEF PipelineInv
<1>f. ASSUME \A k \in Jobs : state'[k] \in Held => state[k] \in Held PROVE OneHeld'
  BY <1>f DEF OneHeld
<1>1. ASSUME NEW j \in Jobs, Process(j) PROVE OneHeld'
  <2>1. CASE Take(j)
    BY <1>t, <2>1 DEF Take, Move, OneHeld, TypeOK
  <2>2. CASE Record(j)
    BY <1>t, <1>f, <2>2 DEF Record, Move, Held, TypeOK
  <2>3. CASE AddReplyLost(j)
    BY <1>t, <1>f, <2>3 DEF AddReplyLost, Move, Held, TypeOK
  <2>4. CASE ~(Take(j) \/ Record(j) \/ AddReplyLost(j))
    BY <1>t, <1>f, <1>1, <2>4
       DEF Process, Enqueue, EmitFails, RecordFails, RecordReplyLost, BackoffOver, Finish, LockLost,
           Requeue, Retry, Move, Held, TypeOK
  <2> QED BY <2>1, <2>2, <2>3, <2>4
<1>2. ASSUME NEW v \in Visits, Serve(v) PROVE OneHeld'
  <2>1. CASE UNCHANGED queue
    BY <1>f, <2>1 DEF queue
  <2>2. ASSUME NEW j \in Jobs, Emit(j, seen[v].id) PROVE OneHeld'
    BY <1>t, <1>f, <2>2 DEF Emit, Held, TypeOK
  <2> QED BY <1>2, <2>1, <2>2 DEF Serve, Find, CountTotal, DisableLink
<1>3. CASE ManageLinks \/ (\E i \in LinkIds : Expire(i)) \/ UNCHANGED vars
  BY <1>f, <1>3 DEF ManageLinks, Expire, vars, queue
<1>4. CASE Crash
  BY <1>f, <1>4 DEF Crash, Held
<1> QED BY <1>1, <1>2, <1>3, <1>4 DEF Next

(* Clicks are counted beyond the redirects granted only by faults, one     *)
(* count for each: whatever is lost, and in whatever order attempts,       *)
(* stalls and commands sent twice follow each other.                       *)
THEOREM FaultsPayForRecounts == Spec => []CountsAreGranted
<1>1. Init => GrantInv
  <2> SUFFICES ASSUME Init PROVE GrantInv
    OBVIOUS
  <2>1. \A j \in Jobs : Load[j] = 0
    BY DEF Init, Load, Going, Pending
  <2>2. SumFunctionOnSet(Load, Jobs) = 0
    BY <2>1, QueueAssumption, SumZero
  <2> QED BY <2>2 DEF Init, GrantInv, OneHeld, Budget, Held
<1>2. PipelineInv /\ GrantInv /\ [Next]_vars => GrantInv'
  <2> SUFFICES ASSUME PipelineInv, GrantInv, [Next]_vars PROVE GrantInv'
    OBVIOUS
  <2>1. TypeOK /\ TypeOK' /\ OneHeld /\ OneHeld' /\ IsFiniteSet(Jobs)
    BY TypeStep, OneHeldStep, QueueAssumption DEF PipelineInv, GrantInv
  <2>2. /\ Budget \in Nat /\ Budget' \in Nat
        /\ \A j \in Jobs : Load[j] \in Nat /\ Load'[j] \in Nat
    BY <2>1, LoadNat, LoadNatNext
  <2>3. SumFunctionOnSet(Load, Jobs) \in Nat /\ SumFunctionOnSet(Load', Jobs) \in Nat
    <3> HIDE DEF Load, Budget
    <3>1. SumFunctionOnSet(Load, Jobs) \in Nat
      BY <2>1, <2>2, SumNat
    <3>2. SumFunctionOnSet(Load', Jobs) \in Nat
      BY <2>1, <2>2, SumNat
    <3> QED BY <3>1, <3>2
  <2>4. CASE Free
    <3>1. SumFunctionOnSet(Load', Jobs) <= SumFunctionOnSet(Load, Jobs)
      BY <2>1, <2>2, <2>4, SumAtMost DEF Free
    <3> QED BY <2>1, <2>2, <2>3, <2>4, <3>1 DEF Free, GrantInv
  <2>5. ASSUME NEW x \in Jobs, Paid(x) PROVE GrantInv'
    <3>1. SumFunctionOnSet(Load', Jobs) <= SumFunctionOnSet(Load, Jobs) + 1
      BY <2>1, <2>2, <2>5, SumAtMostOneMore DEF Paid
    <3> QED BY <2>1, <2>2, <2>3, <2>5, <3>1 DEF Paid, GrantInv
  <2> QED BY <2>1, <2>4, <2>5, PaidFor
<1>3. PipelineInv /\ GrantInv => CountsAreGranted
  <2> SUFFICES ASSUME PipelineInv, GrantInv PROVE CountsAreGranted
    OBVIOUS
  <2>1. /\ IsFiniteSet(Jobs) /\ Budget \in Nat
        /\ \A j \in Jobs : commits[j] \in Nat /\ Load[j] \in Nat /\ commits[j] <= Load[j]
    BY LoadNat, QueueAssumption DEF PipelineInv, TypeOK, Load
  <2>2. SumFunctionOnSet(commits, Jobs) <= SumFunctionOnSet(Load, Jobs)
    BY <2>1, SumAtMost
  <2>3. SumFunctionOnSet(commits, Jobs) \in Nat /\ SumFunctionOnSet(Load, Jobs) \in Nat
    BY <2>1, SumNat
  <2> QED BY <2>1, <2>2, <2>3 DEF GrantInv, CountsAreGranted, Budget
<1> QED BY <1>1, <1>2, <1>3, PipelineInvariant, PTL DEF Spec

-----------------------------------------------------------------------------
Phases == [j \in Jobs |-> Phase(j)]
Gone   == {i \in usedIds : ~Live(i)}

(* A link's row comes and goes by one statement, so the deleted links are  *)
(* the same unless one is deleted.                                         *)
LEMMA GoneStays ==
  ASSUME TypeOK, Statement, \A i \in LinkIds : ~DeleteLink(i)
  PROVE  Gone' = Gone
<1>1. ASSUME NEW i \in LinkIds, NEW u \in Users, NEW s \in Slugs, InsertLink(i, u, s) PROVE Gone' = Gone
  <2>1. [owner |-> u, slug |-> s, active |-> TRUE] # Null
    <3>1. [owner |-> u, slug |-> s, active |-> TRUE] \in Link
      BY DEF Link
    <3> QED BY <3>1, NullAssumption DEF Link
  <2>2. /\ links'[i] # Null /\ usedIds' = usedIds \cup {i}
        /\ \A k \in LinkIds \ {i} : links'[k] = links[k]
    BY <1>1, <2>1 DEF InsertLink, TypeOK, TablesTypeOK
  <2> QED BY <1>1, <2>2 DEF Gone, Live, InsertLink, TypeOK, TablesTypeOK
<1>2. ASSUME NEW i \in LinkIds, NEW on \in BOOLEAN, SetActive(i, on) PROVE Gone' = Gone
  <2>1. links[i] \in Link
    BY <1>2 DEF SetActive, Live, TypeOK, TablesTypeOK
  <2>2. [links[i] EXCEPT !.active = on] # Null
    BY <2>1, NullAssumption DEF Link
  <2> QED BY <1>2, <2>2 DEF Gone, Live, SetActive, TypeOK, TablesTypeOK
<1>3. CASE \E u \in Users : DeleteOverride(u) \/ \E dto \in OverrideDtos : UpsertOverride(u, dto)
  BY <1>3 DEF Gone, Live, DeleteOverride, UpsertOverride
<1> QED BY <1>1, <1>2, <1>3 DEF Statement

(* Every step of a job is one of the ledger, or none. *)
LEMMA JobInLedger ==
  ASSUME PipelineInv, NEW j \in Jobs, Process(j)
  PROVE  Ledger!Next \/ UNCHANGED Ledger!ledger
<1>t. TypeOK /\ JobInv(j)
  BY DEF PipelineInv
<1>n. /\ commits[j] \in Nat /\ stalls[j] \in Nat /\ attempts[j] \in Nat
      /\ MaxStalls \in Nat /\ Attempts \in Nat
  BY <1>t, QueueAssumption DEF TypeOK
<1>1. CASE Record(j) \/ RecordReplyLost(j)
  <2>1. /\ state[j] = "active" /\ \A k \in Jobs \ {j} : state'[k] = state[k]
        /\ Live(target[j]) /\ clicks' = [clicks EXCEPT ![target[j]] = @ + 1]
        /\ commits' = [commits EXCEPT ![j] = @ + 1]
        /\ UNCHANGED <<tables, target>>
    BY <1>t, <1>1 DEF Record, RecordReplyLost, Retry, Commit, Move, CountClick, TypeOK
  <2>2. Gone' = Gone
    BY <2>1 DEF Gone, Live, tables
  <2>3. commits[j] < 1 + (Attempts + MaxStalls - 1)
    BY <1>t, <1>n, <2>1 DEF JobInv, Pending
  <2>4. Phase(j) \in {"pending", "counted"}
    BY <2>1 DEF Phase
  <2>5. Phases' = [Phases EXCEPT ![j] = "counted"]
    <3>1. commits'[j] = commits[j] + 1 /\ Phase(j)' = "counted"
      BY <1>t, <1>n, <2>1 DEF Phase, TypeOK
    <3>2. \A k \in Jobs \ {j} : Phase(k)' = Phase(k)
      BY <1>t, <2>1 DEF Phase, TypeOK
    <3> QED BY <3>1, <3>2 DEF Phases
  <2>6. target[j] \notin Gone
    BY <2>1 DEF Gone
  <2>7. Ledger!Count(j)
    BY <2>1, <2>2, <2>3, <2>4, <2>5, <2>6 DEF Ledger!Count, Phases, Gone
  <2> QED BY <2>7 DEF Ledger!Next
<1>2. ASSUME AddReplyLost(j), NEW k \in Jobs, state[k] = "free",
             state' = [state EXCEPT ![j] = "waiting", ![k] = "emitting"],
             target' = [target EXCEPT ![k] = target[j]]
      PROVE  Ledger!Next
  <2>1. /\ state[j] = "emitting" /\ j # k /\ commits[k] = 0 /\ target[j] \in LinkIds
        /\ UNCHANGED <<tables, clicks, commits>>
    BY <1>2 DEF AddReplyLost, rows, PipelineInv, JobInv, Fresh, TypeOK, TablesTypeOK
  <2>2. Gone' = Gone
    BY <2>1 DEF Gone, Live, tables
  <2>3. Phase(k) = "none" /\ Phase(k)' = "pending"
    BY <1>t, <1>2, <2>1 DEF Phase, TypeOK
  <2>4. \A m \in Jobs \ {k} : Phase(m)' = Phase(m)
    BY <1>t, <1>2, <2>1 DEF Phase, TypeOK
  <2>5. Ledger!Grant(k, target[j])
    BY <1>2, <2>1, <2>2, <2>3, <2>4 DEF Ledger!Grant, Gone
  <2> QED BY <2>1, <2>5 DEF Ledger!Next
<1>3. CASE /\ ~(Record(j) \/ RecordReplyLost(j))
           /\ AddReplyLost(j) => Move(j, "emitting", "waiting") /\ UNCHANGED target
  <2>1. /\ UNCHANGED <<tables, clicks, target, commits>>
        /\ \A k \in Jobs \ {j} : state'[k] = state[k]
        /\ state[j] # "free" /\ state'[j] # "free"
        /\ state[j] \notin {"failed", "lost"}
    <3>1. CASE AddReplyLost(j)
      BY <1>t, <1>3, <3>1 DEF AddReplyLost, Move, rows, TypeOK
    <3>2. CASE ~AddReplyLost(j)
      BY <1>t, <1>3, <3>2
         DEF Process, Enqueue, EmitFails, Take, RecordFails, BackoffOver, Finish, LockLost,
             Requeue, Retry, Move, rows, Held, TypeOK
    <3> QED BY <3>1, <3>2
  <2>2. Gone' = Gone
    BY <2>1 DEF Gone, Live, tables
  <2>3. \A k \in Jobs \ {j} : Phase(k)' = Phase(k)
    BY <2>1 DEF Phase
  <2>4. CASE Phase(j)' = Phase(j)
    BY <2>1, <2>2, <2>3, <2>4 DEF Ledger!ledger, Phases, Gone
  <2>5. CASE Phase(j)' # Phase(j)
    <3>1. Phase(j) = "pending" /\ Phase(j)' = "dropped"
      BY <1>n, <2>1, <2>5 DEF Phase
    <3>2. Phases' = [k \in Jobs |-> IF k \in {j} THEN "dropped" ELSE Phases[k]]
      BY <2>3, <3>1 DEF Phases
    <3>3. Ledger!Drop({j})
      BY <2>1, <2>2, <3>1, <3>2 DEF Ledger!Drop, Phases, Gone
    <3> QED BY <3>3 DEF Ledger!Next
  <2> QED BY <2>4, <2>5
<1> QED BY <1>1, <1>2, <1>3 DEF AddReplyLost

(* The pipeline implements the ledger: whatever the order of errors,       *)
(* retries, stalls, crashes and deletions, a click is counted or dropped,  *)
(* never both, and a link's total moves with the counts alone.             *)
THEOREM ImplementsLedger == Spec => CountsClicks
<1>1. Init => Ledger!Init
  BY DEF Init, TablesInit, Ledger!Init, Phase
<1>2. PipelineInv /\ [Next]_vars => [Ledger!Next]_(Ledger!ledger)
  <2> SUFFICES ASSUME PipelineInv, [Next]_vars PROVE Ledger!Next \/ UNCHANGED Ledger!ledger
    OBVIOUS
  <2>t. TypeOK
    BY DEF PipelineInv
  <2>q. ASSUME UNCHANGED queue, UNCHANGED clicks, Gone' = Gone PROVE UNCHANGED Ledger!ledger
    BY <2>q DEF queue, Ledger!ledger, Phase, Gone
  <2>1. CASE ManageLinks
    <3>1. UNCHANGED queue
      BY <2>1 DEF ManageLinks
    <3>2. Statement
      BY <2>1 DEF ManageLinks, Statement
    <3>3. ASSUME NEW i \in LinkIds, DeleteLink(i) PROVE Ledger!Next
      <4>1. clicks' = [clicks EXCEPT ![i] = 0]
        <5>1. \A k \in LinkIds, u \in Users, s \in Slugs : ~InsertLink(k, u, s)
          BY <3>3, <2>t DEF InsertLink, DeleteLink, Live, TypeOK, TablesTypeOK
        <5>2. \A k \in LinkIds, on \in BOOLEAN : ~SetActive(k, on)
          <6> SUFFICES ASSUME NEW k \in LinkIds, NEW on \in BOOLEAN, SetActive(k, on) PROVE FALSE
            OBVIOUS
          <6>1. links'[i] = Null /\ Live(i) /\ links[i] \in Link
            BY <2>t, <3>3 DEF DeleteLink, Live, TypeOK, TablesTypeOK
          <6>2. [links[i] EXCEPT !.active = on] # Null
            BY <6>1, NullAssumption DEF Link
          <6>3. links'[i] # Null
            BY <2>t, <6>1, <6>2 DEF SetActive, Live, TypeOK, TablesTypeOK
          <6> QED BY <6>1, <6>3
        <5>3. links' # links
          BY <2>t, <3>3 DEF DeleteLink, Live, TypeOK, TablesTypeOK
        <5>4. PICK k \in LinkIds : DeleteLink(k) /\ clicks' = [clicks EXCEPT ![k] = 0]
          BY <2>1, <5>1, <5>2, <5>3 DEF ManageLinks, UpsertOverride, DeleteOverride
        <5>5. k = i
          BY <2>t, <3>3, <5>4 DEF DeleteLink, Live, TypeOK, TablesTypeOK
        <5> QED BY <5>4, <5>5
      <4>2. i \notin Gone /\ Gone' = Gone \cup {i}
        BY <2>t, <3>3 DEF Gone, DeleteLink, Live, TypeOK, TablesTypeOK
      <4>3. Ledger!Forget(i)
        BY <3>1, <4>1, <4>2 DEF Ledger!Forget, queue, Phase, Gone
      <4> QED BY <4>3 DEF Ledger!Next
    <3>4. CASE \A i \in LinkIds : ~DeleteLink(i)
      <4>1. UNCHANGED clicks
        BY <2>1, <3>4 DEF ManageLinks, rows
      <4>2. Gone' = Gone
        BY <2>t, <3>2, <3>4, GoneStays
      <4> QED BY <2>q, <3>1, <4>1, <4>2
    <3> QED BY <3>3, <3>4
  <2>2. ASSUME NEW i \in LinkIds, Expire(i) PROVE UNCHANGED Ledger!ledger
    BY <2>2, <2>q DEF Expire, Gone, Live, tables
  <2>3. ASSUME NEW v \in Visits, (\E s \in Slugs : Find(v, s)) PROVE UNCHANGED Ledger!ledger
    BY <2>3, <2>q DEF Find, Gone, Live, tables, rows
  <2>4. ASSUME NEW v \in Visits, DisableLink(v) PROVE UNCHANGED Ledger!ledger
    <3>1. CASE UNCHANGED tables
      BY <2>4, <3>1, <2>q DEF DisableLink, Gone, Live, tables, rows
    <3>2. CASE SetActive(seen[v].id, FALSE)
      <4>1. seen[v].id \in LinkIds
        BY <2>4 DEF DisableLink, PipelineInv, SeenInv, SnapshotType
      <4>2. Statement
        BY <3>2, <4>1 DEF Statement
      <4>3. \A i \in LinkIds : ~DeleteLink(i)
        <5> SUFFICES ASSUME NEW i \in LinkIds, DeleteLink(i) PROVE FALSE
          OBVIOUS
        <5>1. links'[i] = Null /\ links[i] \in Link
          BY <2>t DEF DeleteLink, Live, TypeOK, TablesTypeOK
        <5>2. [links[i] EXCEPT !.active = FALSE] # Null
          BY <5>1, NullAssumption DEF Link
        <5>3. links'[i] # Null
          BY <2>t, <3>2, <5>1, <5>2, NullAssumption DEF SetActive, Live, Link, TypeOK, TablesTypeOK
        <5> QED BY <5>1, <5>3
      <4>4. Gone' = Gone
        BY <2>t, <4>2, <4>3, GoneStays
      <4> QED BY <2>4, <4>4, <2>q DEF DisableLink, rows
    <3> QED BY <2>4, <3>1, <3>2 DEF DisableLink
  <2>5. ASSUME NEW v \in Visits, CountTotal(v) PROVE Ledger!Next \/ UNCHANGED Ledger!ledger
    <3>1. UNCHANGED <<tables, clicks, commits>> /\ Gone' = Gone
      BY <2>5 DEF CountTotal, Gone, Live, tables, rows, queue, Emit
    <3>2. CASE UNCHANGED queue
      BY <3>1, <3>2, <2>q
    <3>3. ASSUME NEW j \in Jobs, Emit(j, seen[v].id) PROVE Ledger!Next
      <4>1. seen[v].id \in LinkIds
        BY <2>5 DEF CountTotal, PipelineInv, SeenInv, SnapshotType
      <4>2. state[j] = "free" /\ commits[j] = 0
        BY <3>3 DEF Emit, PipelineInv, JobInv, Fresh
      <4>3. Phase(j) = "none" /\ Phase(j)' = "pending"
        BY <2>t, <3>1, <3>3, <4>2 DEF Emit, Phase, TypeOK
      <4>4. \A k \in Jobs \ {j} : Phase(k)' = Phase(k)
        BY <2>t, <3>1, <3>3 DEF Emit, Phase, TypeOK
      <4>5. Ledger!Grant(j, seen[v].id)
        BY <3>1, <3>3, <4>3, <4>4 DEF Ledger!Grant, Emit, Gone
      <4> QED BY <4>1, <4>5 DEF Ledger!Next
    <3> QED BY <2>5, <3>2, <3>3 DEF CountTotal
  <2>6. ASSUME NEW j \in Jobs, Process(j) PROVE Ledger!Next \/ UNCHANGED Ledger!ledger
    BY <2>6, JobInLedger
  <2>7. CASE Crash
    <3> DEFINE C == {j \in Jobs : state[j] = "emitting"}
    <3>1. UNCHANGED <<tables, clicks, target, commits>> /\ Gone' = Gone
      BY <2>7 DEF Crash, Gone, Live, tables, rows
    <3>2. ASSUME NEW j \in C PROVE Phase(j) = "pending" /\ Phase(j)' = "dropped"
      <4>1. commits[j] = 0 /\ state'[j] = "lost"
        BY <2>7 DEF Crash, Held, PipelineInv, JobInv, Fresh
      <4> QED BY <3>1, <4>1 DEF Phase
    <3>3. ASSUME NEW j \in Jobs \ C PROVE Phase(j)' = Phase(j)
      <4>1. \/ state'[j] = state[j]
            \/ state[j] \in Held /\ state'[j] = "stalled"
        BY <2>7 DEF Crash
      <4> QED BY <3>1, <4>1 DEF Phase, Held
    <3>4. Phases' = [j \in Jobs |-> IF j \in C THEN "dropped" ELSE Phases[j]]
      BY <3>2, <3>3 DEF Phases
    <3>5. Ledger!Drop(C)
      BY <3>1, <3>2, <3>4 DEF Ledger!Drop, Phases, Gone
    <3> QED BY <3>5 DEF Ledger!Next
  <2>8. CASE UNCHANGED vars
    BY <2>8, <2>q DEF vars, Gone, Live, tables, rows
  <2> QED BY <2>1, <2>2, <2>3, <2>4, <2>5, <2>6, <2>7, <2>8 DEF Next, Serve
<1> QED BY <1>1, <1>2, PipelineInvariant, PTL DEF Spec, CountsClicks, Ledger!Spec
=============================================================================
