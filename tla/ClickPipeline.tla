---------------------------- MODULE ClickPipeline ----------------------------
(***************************************************************************)
(* From a redirect to a counted click: RedirectService.resolveSlug after   *)
(* its rate limits, AnalyticsService.emitClickEvent, the BullMQ queue and  *)
(* AnalyticsProcessor, over the rows of LinkStore.  The redirect answers   *)
(* without waiting for its job to be queued; the worker, which lives in    *)
(* the same process, counts the click later.  A crash takes the process's  *)
(* visits and unsent jobs and orphans the job its worker held; PostgreSQL  *)
(* and Redis survive, but a reply of theirs can be lost after they did     *)
(* what they were asked.  The queue is modelled from how src/ uses it.     *)
(***************************************************************************)
EXTENDS LinkStore, Functions

CONSTANTS Visits,     \* redirects in flight at most once each
          Jobs,       \* bound: jobs ever created
          Attempts,   \* attempts: 3
          MaxStalls,  \* BullMQ's maxStalledCount: 1
          MaxErrors,  \* bound: failed statements and commands, lost replies and locks
          MaxCrashes  \* bound: crashes of the process

ASSUME QueueAssumption == /\ Attempts \in Nat \ {0} /\ MaxStalls \in Nat
                          /\ MaxErrors \in Nat /\ MaxCrashes \in Nat
                          /\ {"maxClicksPerLink", "maxTotalClicks"} \subseteq Fields
                          /\ IsFiniteSet(Jobs)

VARIABLES expired,   \* links whose expiresAt has passed
          clicks,    \* clicks[i]: clickCount of the row
          events,    \* events[i]: rows of click_events that refer to it
          pc,        \* pc[v]: the statement visit v runs next, or "idle"
          seen,      \* seen[v]: what v read of the link, or Null
          answer,    \* status of the latest redirect, 0 while it is served
          state,     \* state[j]: where job j is
          target,    \* target[j]: linkId of its payload
          attempts,  \* attempts[j]: attemptsMade
          stalls,    \* stalls[j]: times the queue found it stalled
          commits,   \* history: commits[j] transactions committed for it
          granted,   \* history: redirects answered 302
          errors, crashes

visit == <<pc, seen, answer>>
rows  == <<clicks, events, expired>>
queue == <<state, target, attempts, stalls, commits, granted>>
vars  == <<tables, rows, visit, queue, errors, crashes>>

Held    == {"active", "committed"}          \* in the hands of the worker
Settled == {"completed", "failed", "lost"}

Init == /\ TablesInit
        /\ expired = {}
        /\ clicks = [i \in LinkIds |-> 0] /\ events = [i \in LinkIds |-> 0]
        /\ pc = [v \in Visits |-> "idle"] /\ seen = [v \in Visits |-> Null] /\ answer = 0
        /\ state = [j \in Jobs |-> "free"] /\ target = [j \in Jobs |-> Null]
        /\ attempts = [j \in Jobs |-> 0] /\ stalls = [j \in Jobs |-> 0]
        /\ commits = [j \in Jobs |-> 0] /\ granted = 0
        /\ errors = 0 /\ crashes = 0
-----------------------------------------------------------------------------
(* What LinkService and AdminService do to the rows meanwhile: each of its *)
(* statements, at any moment.  Deleting a link cascades to its events.     *)
ManageLinks ==
  /\ \/ \E i \in LinkIds, u \in Users, s \in Slugs : InsertLink(i, u, s) /\ UNCHANGED rows
     \/ \E i \in LinkIds, on \in BOOLEAN : SetActive(i, on) /\ UNCHANGED rows
     \/ \E i \in LinkIds : /\ DeleteLink(i)
                           /\ clicks' = [clicks EXCEPT ![i] = 0]
                           /\ events' = [events EXCEPT ![i] = 0]
                           /\ UNCHANGED expired
     \/ \E u \in Users, dto \in OverrideDtos : UpsertOverride(u, dto) /\ UNCHANGED rows
     \/ \E u \in Users : DeleteOverride(u) /\ UNCHANGED rows
  /\ UNCHANGED <<visit, queue, errors, crashes>>

(* expiresAt, which only create sets, goes by. *)
Expire(i) == /\ Live(i) /\ i \notin expired
             /\ expired' = expired \cup {i}
             /\ UNCHANGED <<tables, clicks, events, visit, queue, errors, crashes>>
-----------------------------------------------------------------------------
Leave(v, status) == /\ pc' = [pc EXCEPT ![v] = "idle"]
                    /\ seen' = [seen EXCEPT ![v] = Null]
                    /\ answer' = status

Snapshot(i) == [id |-> i, owner |-> links[i].owner, clicks |-> clicks[i],
                perLink |-> Effective(links[i].owner, "maxClicksPerLink"),
                total |-> Effective(links[i].owner, "maxTotalClicks")]

Serves(i) == links[i].active /\ i \notin expired

(* Bound: a visit that may emit sets out only while a job is left for it. *)
MayEmit(s) == s.clicks < s.perLink
JobLeft    == Cardinality({j \in Jobs : state[j] = "free"})
                > Cardinality({v \in Visits : pc[v] = "count" /\ MayEmit(seen[v])})

(* resolveSlug reads the link with its user, plan and overrides. *)
Find(v, s) ==
  /\ pc[v] = "idle"
  /\ \/ ~SlugTaken(s) /\ Leave(v, 404)
     \/ \E i \in LinkIds :
          /\ Live(i) /\ links[i].slug = s
          /\ \/ ~Serves(i) /\ Leave(v, 410)
             \/ /\ Serves(i) /\ (MayEmit(Snapshot(i)) => JobLeft)
                /\ pc' = [pc EXCEPT ![v] = "count"]
                /\ seen' = [seen EXCEPT ![v] = Snapshot(i)]
                /\ answer' = 0
  /\ UNCHANGED <<tables, rows, queue, errors, crashes>>

TotalClicks(u) == SumFunctionOnSet(events, OwnedBy(u))

OverTotal(v) == TotalClicks(seen[v].owner) >= seen[v].total

AtLimitEarly(v) == seen[v].clicks + 1 >= seen[v].perLink   \* mutant: off by one
AtLimit(v)      == seen[v].clicks >= seen[v].perLink

(* emitClickEvent is called and not awaited. *)
Emit(j, i) == /\ state[j] = "free"
              /\ state' = [state EXCEPT ![j] = "emitting"]
              /\ target' = [target EXCEPT ![j] = i]
              /\ granted' = granted + 1
              /\ UNCHANGED <<attempts, stalls, commits>>

(* resolveSlug counts the clicks of all the user's links, then compares    *)
(* the click count it read before.                                         *)
CountTotal(v) ==
  /\ pc[v] = "count"
  /\ \/ OverTotal(v) /\ Leave(v, 429) /\ UNCHANGED queue
     \/ /\ ~OverTotal(v) /\ AtLimit(v)
        /\ pc' = [pc EXCEPT ![v] = "disable"]
        /\ UNCHANGED <<seen, answer, queue>>
     \/ /\ ~OverTotal(v) /\ ~AtLimit(v)
        /\ \E j \in Jobs : Emit(j, seen[v].id)
        /\ Leave(v, 302)
  /\ UNCHANGED <<tables, rows, errors, crashes>>

DisableIfLive(v) ==   \* mutant: no answer once the link is gone
  /\ pc[v] = "disable"
  /\ SetActive(seen[v].id, FALSE) /\ Leave(v, 429)
  /\ UNCHANGED <<rows, queue, errors, crashes>>

SaveLink(v) ==   \* mutant: the link it read is saved, whether the row is there or not
  /\ pc[v] = "disable"
  /\ \E s \in Slugs :
       links' = [links EXCEPT ![seen[v].id] = [owner |-> seen[v].owner, slug |-> s, active |-> FALSE]]
  /\ Leave(v, 429)
  /\ UNCHANGED <<usedIds, overrides, rows, queue, errors, crashes>>

(* The used-up link is disabled by its id; if it is gone, that is a 500. *)
DisableLink(v) ==
  /\ pc[v] = "disable"
  /\ \/ SetActive(seen[v].id, FALSE) /\ Leave(v, 429)
     \/ ~Live(seen[v].id) /\ Leave(v, 500) /\ UNCHANGED tables
  /\ UNCHANGED <<rows, queue, errors, crashes>>
-----------------------------------------------------------------------------
Move(j, from, to) == /\ state[j] = from
                     /\ state' = [state EXCEPT ![j] = to]
Error == errors < MaxErrors /\ errors' = errors + 1

(* queue.add reaches Redis, *)
Enqueue(j) == /\ Move(j, "emitting", "waiting")
              /\ UNCHANGED <<tables, rows, visit, target, attempts, stalls, commits, granted>>
              /\ UNCHANGED <<errors, crashes>>

(* or fails: the error is logged and the click lost, *)
EmitFails(j) == /\ Move(j, "emitting", "lost")
                /\ Error
                /\ UNCHANGED <<tables, rows, visit, target, attempts, stalls, commits, granted, crashes>>

(* or reaches Redis and its reply is lost: the job is queued behind a      *)
(* logged error, or the client sends the command again and, as the queue   *)
(* names its jobs itself, makes a second job k of it.                      *)
AddReplyLost(j) ==
  /\ state[j] = "emitting"
  /\ \/ Move(j, "emitting", "waiting") /\ UNCHANGED target
     \/ \E k \in Jobs : /\ state[k] = "free" /\ JobLeft
                        /\ state' = [state EXCEPT ![j] = "waiting", ![k] = "emitting"]
                        /\ target' = [target EXCEPT ![k] = target[j]]
  /\ Error
  /\ UNCHANGED <<tables, rows, visit, attempts, stalls, commits, granted, crashes>>

(* The worker runs one job at a time. *)
Take(j) == /\ \A k \in Jobs : state[k] \notin Held
           /\ Move(j, "waiting", "active")
           /\ UNCHANGED <<tables, rows, visit, target, attempts, stalls, commits, granted>>
           /\ UNCHANGED <<errors, crashes>>

CountEvent(i) == /\ events' = [events EXCEPT ![i] = @ + 1]   \* mutant: no increment
                 /\ UNCHANGED <<clicks, expired>>

(* handleRecordClick: the event and the increment, in one transaction. *)
CountClick(i) == /\ events' = [events EXCEPT ![i] = @ + 1]
                 /\ clicks' = [clicks EXCEPT ![i] = @ + 1]
                 /\ UNCHANGED expired

CommitTwice(j) ==   \* mutant: the handler repeats a transaction that had committed
  /\ Live(target[j])
  /\ events' = [events EXCEPT ![target[j]] = @ + 2]
  /\ clicks' = [clicks EXCEPT ![target[j]] = @ + 2]
  /\ commits' = [commits EXCEPT ![j] = @ + 2]
  /\ UNCHANGED expired

Commit(j) == /\ Live(target[j])
             /\ CountClick(target[j])
             /\ commits' = [commits EXCEPT ![j] = @ + 1]

Record(j) == /\ Move(j, "active", "committed")
             /\ Commit(j)
             /\ UNCHANGED <<tables, visit, target, attempts, stalls, granted, errors, crashes>>

(* The handler threw: the queue tries the job again later, until its       *)
(* attempts are used up.                                                   *)
RetriesOnce(n) == n < 1              \* mutant: attempts left at BullMQ's default of 1
RetriesMore(n) == n <= Attempts      \* mutant: off by one
Retries(n)     == n < Attempts

Retry(j, from) == /\ Move(j, from, IF Retries(attempts[j] + 1) THEN "delayed" ELSE "failed")
                  /\ attempts' = [attempts EXCEPT ![j] = @ + 1]

(* The transaction is rolled back, as the link is gone or the database     *)
(* failed, and the error is rethrown.                                      *)
RecordFails(j) ==
  /\ Retry(j, "active")
  /\ \/ ~Live(target[j]) /\ UNCHANGED errors
     \/ Live(target[j]) /\ Error
  /\ UNCHANGED <<tables, rows, visit, target, stalls, commits, granted, crashes>>

(* The transaction is committed and its reply lost: to the handler this is *)
(* the same error, and the click it counted is tried again.                *)
RecordReplyLost(j) ==
  /\ Retry(j, "active")
  /\ Commit(j)
  /\ Error
  /\ UNCHANGED <<tables, visit, target, stalls, granted, crashes>>

BackoffOver(j) ==
  /\ Move(j, "delayed", "waiting")
  /\ UNCHANGED <<tables, rows, visit, target, attempts, stalls, commits, granted>>
  /\ UNCHANGED <<errors, crashes>>

ThrowAfterCommit(j) ==   \* mutant: process() throws after its transaction is committed
  /\ Retry(j, "committed")
  /\ UNCHANGED <<tables, rows, visit, target, stalls, commits, granted, errors, crashes>>

FinishIfLive(j) ==   \* mutant: process() never settles once the link is gone
  /\ Move(j, "committed", "completed")
  /\ Live(target[j])
  /\ UNCHANGED <<tables, rows, visit, target, attempts, stalls, commits, granted>>
  /\ UNCHANGED <<errors, crashes>>

(* The queue is told of the success: from here on the job is not rerun. *)
Finish(j) == /\ Move(j, "committed", "completed")
             /\ UNCHANGED <<tables, rows, visit, target, attempts, stalls, commits, granted>>
             /\ UNCHANGED <<errors, crashes>>

(* The lock on the job runs out while the process lives: Redis was away,   *)
(* what the worker then reports is refused, and the job counts as stalled. *)
LockLost(j) == /\ \E held \in Held : Move(j, held, "stalled")
               /\ Error
               /\ UNCHANGED <<tables, rows, visit, target, attempts, stalls, commits, granted, crashes>>

(* The stalled check finds a job whose lock has run out. *)
Requeue(j) ==
  /\ Move(j, "stalled", IF stalls[j] < MaxStalls THEN "waiting" ELSE "failed")
  /\ stalls' = [stalls EXCEPT ![j] = @ + 1]
  /\ UNCHANGED <<tables, rows, visit, target, attempts, commits, granted, errors, crashes>>

Crash == /\ crashes < MaxCrashes
         /\ crashes' = crashes + 1
         /\ pc' = [v \in Visits |-> "idle"] /\ seen' = [v \in Visits |-> Null]
         /\ state' = [j \in Jobs |-> CASE state[j] = "emitting" -> "lost"
                                       [] state[j] \in Held -> "stalled"
                                       [] OTHER -> state[j]]
         /\ UNCHANGED <<tables, rows, answer, target, attempts, stalls, commits, granted, errors>>

Serve(v)   == (\E s \in Slugs : Find(v, s)) \/ CountTotal(v) \/ DisableLink(v)
Process(j) == \/ Enqueue(j) \/ EmitFails(j) \/ AddReplyLost(j) \/ Take(j)
              \/ Record(j) \/ RecordFails(j) \/ RecordReplyLost(j)
              \/ BackoffOver(j) \/ Finish(j) \/ LockLost(j) \/ Requeue(j)
Next == \/ ManageLinks \/ \E i \in LinkIds : Expire(i)
        \/ \E v \in Visits : Serve(v)
        \/ \E j \in Jobs : Process(j)
        \/ Crash

Spec == Init /\ [][Next]_vars
-----------------------------------------------------------------------------
SnapshotType == [id : LinkIds, owner : Users, clicks : Nat, perLink : Nat, total : Nat]

TypeOK == /\ TablesTypeOK
          /\ expired \subseteq LinkIds
          /\ clicks \in [LinkIds -> Nat] /\ events \in [LinkIds -> Nat]
          /\ pc \in [Visits -> {"idle", "count", "disable"}]
          /\ seen \in [Visits -> SnapshotType \cup {Null}]
          /\ answer \in {0, 302, 404, 410, 429, 500}
          /\ state \in [Jobs -> {"free", "emitting", "waiting", "active", "committed",
                                 "delayed", "stalled"} \cup Settled]
          /\ target \in [Jobs -> LinkIds \cup {Null}]
          /\ attempts \in [Jobs -> 0..Attempts]
          /\ stalls \in [Jobs -> Nat] /\ commits \in [Jobs -> Nat]
          /\ granted \in Nat /\ errors \in Nat /\ crashes \in Nat

(* A live link's click count is the number of its events, and both are the *)
(* number of transactions the worker has committed for it.                 *)
Accounted ==
  \A i \in LinkIds : Live(i) =>
    /\ clicks[i] = events[i]
    /\ clicks[i] = SumFunctionOnSet(commits, {j \in Jobs : target[j] = i})

(* However attempts, stalls and lost replies follow each other, a job      *)
(* counts its click once in each of its runs at most, and the queue runs   *)
(* it Attempts + MaxStalls times at most.                                  *)
AtMostOncePerRun ==
  \A j \in Jobs : commits[j] <= 1 + attempts[j] + stalls[j] /\ commits[j] <= Attempts + MaxStalls

(* Clicks are counted beyond the redirects that were granted only by       *)
(* faults, one count for each: a reply lost after the transaction or after *)
(* the job was queued, a lock that ran out, a crash before the queue heard *)
(* of the success.                                                         *)
CountsAreGranted == SumFunctionOnSet(commits, Jobs) <= granted + errors + crashes

(* A click on a link that still exists is never dropped in silence: it     *)
(* takes as many errors as the job has attempts, more faults than the      *)
(* stalls the queue forgives, or a fault before the job reached the queue. *)
DroppedOnlyByFaults ==
  \A j \in Jobs : commits[j] = 0 /\ target[j] # Null /\ Live(target[j]) =>
    /\ state[j] = "failed" => errors >= Attempts \/ errors + crashes > MaxStalls
    /\ state[j] = "lost" => errors > 0 \/ crashes > 0
    /\ state[j] # "completed"

(* A link is disabled for its clicks only when it has them: the count read *)
(* two statements before can be behind, never ahead.                       *)
DisableJustified ==
  \A v \in Visits : pc[v] = "disable" /\ Live(seen[v].id) => clicks[seen[v].id] >= seen[v].perLink

(* What becomes of the clicks is what ClickLedger promises: the retries,   *)
(* the stalls and the crashes in between only lose a click nobody counted  *)
(* yet or count one again in a run of its own.                             *)
Phase(j) == IF commits[j] > 0 THEN "counted"
            ELSE IF state[j] = "free" THEN "none"
            ELSE IF state[j] \in {"failed", "lost"} THEN "dropped" ELSE "pending"
Ledger == INSTANCE ClickLedger
            WITH Clicks <- Jobs, Links <- LinkIds, MaxRepeats <- Attempts + MaxStalls - 1,
                 phase <- [j \in Jobs |-> Phase(j)], of <- target, times <- commits,
                 total <- clicks, gone <- {i \in usedIds : ~Live(i)}
CountsClicks == Ledger!Spec

(* Every emitted click ends counted, failed or lost. *)
JobsSettle == \A j \in Jobs : state[j] = "emitting" ~> state[j] \in Settled

(* maxClicksPerLink, taken literally. *)
ClickQuotaRespected ==
  \A i \in LinkIds : \E max \in Limits \cup {Plan["maxClicksPerLink"]} : clicks[i] <= max
=============================================================================
