-------------------------------- MODULE System --------------------------------
(***************************************************************************)
(* The application over its one database: the requests of LinkService and  *)
(* the redirects and the worker of ClickPipeline, which meet in the rows   *)
(* of links.  Each of them knows the other only as something that may      *)
(* happen at any moment; here both are at work, and a crash of the process *)
(* takes the calls, the visits and the unsent jobs together.               *)
(***************************************************************************)
EXTENDS ClickPipeline

CONSTANTS Requests, MaxAttempts   \* of LinkService

ASSUME SystemAssumption == /\ IsFiniteSet(Requests) /\ Requests # {}
                           /\ MaxAttempts \in Nat /\ "maxLinks" \in Fields

VARIABLES mpc,   \* mpc[r]: the statement request r runs next
          req, limit, chosen, tries, reply

management == <<mpc, req, limit, chosen, tries, reply>>
pipeline   == <<visit, queue, errors, crashes>>
sysVars    == <<vars, management>>

L == INSTANCE LinkService WITH pc <- mpc

SysInit == Init /\ L!Init

(* The deletion of a link takes its count and its events with it. *)
NoCascade == UNCHANGED rows   \* mutant: the events outlive their link
Cascade   == /\ clicks' = [i \in LinkIds |-> IF Live(i) /\ ~Live(i)' THEN 0 ELSE clicks[i]]
             /\ events' = [i \in LinkIds |-> IF Live(i) /\ ~Live(i)' THEN 0 ELSE events[i]]
             /\ UNCHANGED expired

Manage(r) == L!Step(r) /\ Cascade /\ UNCHANGED pipeline
Ask(r)    == (\E q \in L!Calls : L!Start(r, q)) /\ UNCHANGED <<rows, pipeline>>
SetLimits == /\ \E u \in Users, dto \in OverrideDtos : L!SetOverride(u, dto)
             /\ UNCHANGED <<rows, pipeline>>

(* What redirects and the worker do leaves the calls in flight alone. *)
Click(A) == A /\ UNCHANGED management

(* The one process dies with everything in flight. *)
Restart == /\ Crash
           /\ \/ L!Crash
              \/ (\A r \in Requests : mpc[r] = "idle") /\ UNCHANGED management

SysNext == \/ \E r \in Requests : Manage(r) \/ Ask(r)
           \/ SetLimits
           \/ \E i \in LinkIds : Click(Expire(i))
           \/ \E v \in Visits : Click(Serve(v))
           \/ \E j \in Jobs : Click(Process(j))
           \/ Restart

(* Nobody has to ask for anything; a handler that has begun goes on, and   *)
(* so do the queue and its worker.                                         *)
Fairness == /\ \A r \in Requests : WF_sysVars(Manage(r))
            /\ \A v \in Visits : WF_sysVars(Click(CountTotal(v) \/ DisableLink(v)))
            /\ \A j \in Jobs : WF_sysVars(Click(Process(j)))

SysSpec  == SysInit /\ [][SysNext]_sysVars
FairSpec == SysSpec /\ Fairness
-----------------------------------------------------------------------------
(* Each component is in the system what it is alone: what was checked and  *)
(* proved of it against arbitrary neighbours holds in their company.       *)
ImplementsPipeline    == Spec
ImplementsLinkService == L!Spec

(* A live link stops serving only for a reason that still holds when it is *)
(* written: a request of its owner or an administrator, or a redirect that *)
(* found its clicks used up, however long ago either looked.               *)
DisabledForAReason ==
  [][\A i \in LinkIds : Live(i) /\ Live(i)' /\ links[i].active /\ ~links'[i].active =>
       \/ L!ByRequest(i)
       \/ \E v \in Visits : /\ pc[v] = "disable" /\ seen[v].id = i
                            /\ clicks[i] >= seen[v].perLink]_sysVars

(* Every call is answered or cut off by a crash: no interleaving with      *)
(* redirects, deletions or other calls leaves a handler waiting.           *)
EveryRequestReplies == \A r \in Requests : mpc[r] # "idle" ~> mpc[r] = "idle"
EveryVisitAnswered  == \A v \in Visits : pc[v] # "idle" ~> pc[v] = "idle"
=============================================================================
