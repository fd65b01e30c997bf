----------------------------- MODULE RedisClient -----------------------------
(***************************************************************************)
(* The ioredis client of RedisModule under the rate limiter and the health *)
(* check: enableOfflineQueue and maxRetriesPerRequest: null make every     *)
(* command wait out an outage, and retryStrategy ends the client for good  *)
(* after too many attempts in a row, which rejects whatever waits.  What   *)
(* the requests do with the answers is RateLimiter.                        *)
(***************************************************************************)
EXTENDS RateLimiter, FiniteSets

CONSTANTS MaxRetries,   \* the 10 of retryStrategy
          MaxBreaks     \* bound: times an established connection breaks

ASSUME RetriesAssumption == MaxRetries \in Nat \ {0} /\ MaxBreaks \in Nat

VARIABLES status,       \* "down" (connecting, or waiting to), "ready" or "end"
          retries,      \* times: attempts since the connection was last ready
          unanswered,   \* visitors whose command ran, its reply never to arrive
          breaks,
          ping          \* the PING of a health check: "none" or "waiting"

client     == <<status, retries, unanswered, breaks, ping>>
clientVars == <<vars, client>>

ClientInit == /\ Init
              /\ status = "down" /\ retries = 0 /\ breaks = 0
              /\ unanswered = {} /\ ping = "none"
-----------------------------------------------------------------------------
InFlight == {v \in Visitors : pc[v] # "idle"}

GivesUpNever(times)  == FALSE        \* mutant: no limit on the attempts
GivesUpAtOnce(times) == times >= 1   \* mutant: no second attempt
GivesUp(times)       == times > MaxRetries

(* Bound: visitors arrive only while their counters stay below MaxCount.   *)
Room(v) == \A l \in LayerNames :
  count[KeyAt(v, l)] + Cardinality(InFlight) + MaxDrops - drops < MaxCount

(* Once the client has ended, a command is rejected and the visitor        *)
(* answered 500 at once.                                                   *)
Call(v) == status # "end" /\ Room(v) /\ Arrive(v) /\ UNCHANGED client

(* Commands are sent, or sent again, when the connection is ready, and a   *)
(* connection answers in order: behind a lost reply nothing is answered.   *)
Answering  == status = "ready" /\ unanswered = {}
Command(v) == Answering /\ Step(v) /\ UNCHANGED client

LoseReply(v) == /\ status = "ready" /\ breaks < MaxBreaks
                /\ v \notin unanswered
                /\ Lost(v)
                /\ unanswered' = unanswered \cup {v}
                /\ UNCHANGED <<status, retries, breaks, ping>>

(* isHealthy: the PING queues like every other command.                    *)
HealthCheck == /\ ping = "none" /\ status # "end"
               /\ ping' = "waiting"
               /\ UNCHANGED <<vars, status, retries, unanswered, breaks>>

Pong == /\ ping = "waiting" /\ Answering
        /\ ping' = "none"
        /\ UNCHANGED <<vars, status, retries, unanswered, breaks>>

EndForgetsPing ==   \* mutant: what waits is not rejected
  /\ IF InFlight # {} THEN Crash ELSE UNCHANGED vars
  /\ unanswered' = {}
  /\ UNCHANGED ping

(* Every call in flight ends: rejected by the client, or gone with the     *)
(* process.  To the limiter the two are the same.                          *)
EndCalls == /\ IF InFlight # {} THEN Crash ELSE UNCHANGED vars
            /\ ping' = "none"
            /\ unanswered' = {}

Connect == /\ status = "down"
           /\ status' = "ready" /\ retries' = 0
           /\ UNCHANGED <<vars, unanswered, breaks, ping>>

(* The connection closes, or an attempt fails: retryStrategy decides.      *)
Retry ==
  \/ /\ ~GivesUp(retries + 1)
     /\ status' = "down" /\ unanswered' = {}
     /\ retries' = IF retries > MaxRetries THEN retries ELSE retries + 1
     /\ UNCHANGED <<vars, ping>>
  \/ /\ GivesUp(retries + 1)
     /\ status' = "end" /\ UNCHANGED retries
     /\ EndCalls

Break == /\ status = "ready" /\ breaks < MaxBreaks
         /\ breaks' = breaks + 1
         /\ Retry

AttemptFails == status = "down" /\ Retry /\ UNCHANGED breaks

(* The process dies, or is restarted, and makes a new client. *)
Restart == /\ EndCalls
           /\ status' = "down" /\ retries' = 0
           /\ UNCHANGED breaks

RedisTick == Tick /\ UNCHANGED client

ClientNext == \/ \E v \in Visitors : Call(v) \/ Command(v) \/ LoseReply(v)
              \/ HealthCheck \/ Pong
              \/ Connect \/ Break \/ AttemptFails \/ Restart
              \/ RedisTick

(* A ready connection answers or breaks, an attempt ends, time passes.     *)
(* Nothing makes an attempt succeed: where retries stops counting, a       *)
(* client that still goes on may fail for ever.                            *)
ClientFairness == /\ \A v \in Visitors : WF_clientVars(Command(v))
                  /\ WF_clientVars(Pong)
                  /\ WF_clientVars(Break /\ unanswered # {})
                  /\ WF_clientVars((Connect \/ AttemptFails) /\ retries <= MaxRetries)
                  /\ WF_clientVars(RedisTick)

ClientSpec == ClientInit /\ [][ClientNext]_clientVars /\ ClientFairness
-----------------------------------------------------------------------------
ClientTypeOK == /\ status \in {"down", "ready", "end"}
                /\ retries \in 0..MaxRetries + 1
                /\ unanswered \subseteq InFlight
                /\ breaks \in Nat
                /\ ping \in {"none", "waiting"}
                /\ status = "end" => InFlight = {} /\ ping = "none"
                /\ unanswered # {} => status = "ready"

(* Nobody waits for ever, although a command is retried without limit:     *)
(* either Redis comes back or the client gives up, also when it never does.*)
CallersAnswered == /\ \A v \in Visitors : pc[v] # "idle" ~> pc[v] = "idle"
                   /\ ping = "waiting" ~> ping = "none"

(* Outages do not add up: only attempts in a row end the client, never one *)
(* more break of a connection that was ready.                              *)
OutagesDoNotAddUp == [][status = "ready" => status' # "end"]_clientVars

(* Every window closes, however long Redis could not be reached, unless a  *)
(* crash or a lost reply has left a counter without expiry.                *)
WindowsCloseUnlessFaults ==
  [](crashes = 0 /\ drops = 0) => \A k \in Keys : count[k] > 0 ~> count[k] = 0
=============================================================================
