------------------------------- MODULE Service -------------------------------
(***************************************************************************)
(* The process of the API: the readiness check of InfrastructureHealth,    *)
(* made by any number of requests of GET /ready at once, and the shutdown  *)
(* of the lifespan in main.py.  A check runs three probes concurrently and *)
(* answers when all have ended; a step of a probe ends at an await.        *)
(*                                                                         *)
(* The facilities are part of the environment: each is up, is down (what   *)
(* is asked of it raises), or is silent (it does not answer).              *)
(***************************************************************************)
EXTENDS Integers, FiniteSets

CONSTANTS
  Checks,       \* requests of GET /ready
  PoolSize,     \* connections the engine's pool may hand out
  MaxTroubles,  \* bound: facilities that are not up at first
  MaxChanges,   \* bound: how often the environment changes
  None          \* no resource

Facilities == {"database", "redis", "minio"}

\* What a facility that is up may lack: the extension, and the bucket.
Contents == {"vector", "bucket"}

\* The resources that the lifespan closes, in its order.
Resources == {"source", "redis", "engine"}

ASSUME ServiceAssumption ==
  /\ IsFiniteSet(Checks)
  /\ PoolSize \in Nat \ {0}
  /\ {MaxTroubles, MaxChanges} \subseteq Nat
  /\ None \notin Resources

VARIABLES
  health,      \* health[f]: "up", "down" or "silent"
  present,     \* the contents that exist
  changes,     \* changes of the environment so far
  stage,       \* "serving", the resource being closed, or "stopped"
  open,        \* the resources that are open
  broken,      \* the resource whose close raised, or None
  free,        \* connections in the pool
  probe,       \* probe[c][f]: the await of the probe, or what it found
  answer,      \* answer[c]: the status of the response, 0 before it
  met,         \* history: needs met at some moment of the check
  unmet        \* history: needs not met at some moment of the check

environment == <<health, present, changes>>

process == <<stage, open, broken>>

vars == <<environment, process, free, probe, answer, met, unmet>>

Asks == {"connect", "select", "vector", "ask"}

Findings == {"ok", "lacking", "error"}

-----------------------------------------------------------------------------
\* What a check needs to find everything in order.
Needs == Facilities \cup Contents \cup {"connection"}

Met == {f \in Facilities : health[f] = "up"} \cup present
         \cup (IF free > 0 THEN {"connection"} ELSE {})

Begun(c) == probe[c]["redis"] # "idle"

Running(c) == Begun(c) /\ answer[c] = 0

\* Every step shows the checks that run what is met after it.
Witness ==
  /\ met' = [c \in Checks |->
       IF Running(c)' THEN met[c] \cup Met \cup Met' ELSE met[c]]
  /\ unmet' = [c \in Checks |->
       IF Running(c)' THEN unmet[c] \cup (Needs \ Met) \cup (Needs \ Met')
       ELSE unmet[c]]

Init ==
  /\ health \in [Facilities -> {"up", "down", "silent"}]
  /\ Cardinality({f \in Facilities : health[f] # "up"}) <= MaxTroubles
  /\ present \in {Contents, {}}
  /\ changes = 0
  /\ stage = "serving"
  /\ open = Resources
  /\ broken = None
  /\ free = PoolSize
  /\ probe = [c \in Checks |-> [f \in Facilities |-> "idle"]]
  /\ answer = [c \in Checks |-> 0]
  /\ met = [c \in Checks |-> {}]
  /\ unmet = [c \in Checks |-> {}]

(* check: three probes, gathered. *)

Begin(c) ==
  /\ stage = "serving"
  /\ ~Begun(c)
  /\ probe' = [probe EXCEPT ![c] =
       [f \in Facilities |-> IF f = "database" THEN "connect" ELSE "ask"]]
  /\ UNCHANGED <<environment, process, free, answer>>
  /\ Witness

Found(c, f, finding) == probe' = [probe EXCEPT ![c][f] = finding]

(* _database: a connection from the pool, SELECT 1, the query for the      *)
(* extension; the connection goes back to the pool however the block ends. *)

\* Mutant: the pool has no limit.
ConnectUnbounded(c) ==
  /\ probe[c]["database"] = "connect"
  /\ health["database"] = "up"
  /\ free' = free - 1
  /\ Found(c, "database", "select")
  /\ UNCHANGED <<environment, process, answer>>
  /\ Witness

Connect(c) ==
  /\ probe[c]["database"] = "connect"
  /\ health["database"] = "up"
  /\ free > 0
  /\ free' = free - 1
  /\ Found(c, "database", "select")
  /\ UNCHANGED <<environment, process, answer>>
  /\ Witness

\* The pool hands out no connection in time.
ConnectTimesOut(c) ==
  /\ probe[c]["database"] = "connect"
  /\ free = 0
  /\ Found(c, "database", "error")
  /\ UNCHANGED <<environment, process, free, answer>>
  /\ Witness

Select(c) ==
  /\ probe[c]["database"] = "select"
  /\ health["database"] = "up"
  /\ Found(c, "database", "vector")
  /\ UNCHANGED <<environment, process, free, answer>>
  /\ Witness

SelectVector(c) ==
  /\ probe[c]["database"] = "vector"
  /\ health["database"] = "up"
  /\ free' = free + 1
  /\ Found(c, "database", IF "vector" \in present THEN "ok" ELSE "lacking")
  /\ UNCHANGED <<environment, process, answer>>
  /\ Witness

\* _redis_check and _minio_check: one question each.
Ask(c, f) ==
  /\ probe[c][f] = "ask"
  /\ health[f] = "up"
  /\ Found(c, f, IF f = "minio" /\ "bucket" \notin present THEN "lacking"
                 ELSE "ok")
  /\ UNCHANGED <<environment, process, free, answer>>
  /\ Witness

\* Mutant: the connection of a probe that failed is not given back.
LeakedOnError(c, f) == UNCHANGED free

\* A probe that held a connection gives it back.
Returned(c, f) ==
  free' = IF probe[c][f] \in {"select", "vector"} THEN free + 1 ELSE free

\* Mutant: a probe that raises asks again.
ProbeRetried(c, f) ==
  probe[c][f] \in Asks /\ health[f] # "up" /\ UNCHANGED vars

\* What was asked raises: the facility is down, or has been silent for long.
ProbeFails(c, f) ==
  /\ probe[c][f] \in Asks
  /\ health[f] # "up"
  /\ Returned(c, f)
  /\ Found(c, f, "error")
  /\ UNCHANGED <<environment, process, answer>>
  /\ Witness

\* Mutant: the extension is not looked at.
ReadyWithoutVector(c) == \A f \in Facilities : probe[c][f] # "error"

Ready(c) == \A f \in Facilities : probe[c][f] = "ok"

Reply(c) ==
  /\ Running(c)
  /\ \A f \in Facilities : probe[c][f] \in Findings
  /\ answer' = [answer EXCEPT ![c] = IF Ready(c) THEN 200 ELSE 503]
  /\ UNCHANGED <<environment, process, free, probe, met, unmet>>

(* lifespan, after the last request: three calls, one after the other.  The *)
(* histories end with the serving.                                          *)

StopServing ==
  /\ stage = "serving"
  /\ \A c \in Checks : ~Running(c)
  /\ stage' = "source"
  /\ met' = [c \in Checks |-> {}] /\ unmet' = [c \in Checks |-> {}]
  /\ UNCHANGED <<environment, open, broken, free, probe, answer>>

\* Mutant: the engine is disposed of before the client of redis is closed.
FollowingSwapped(r) ==
  CASE r = "source" -> "engine" [] r = "engine" -> "redis"
    [] r = "redis" -> "stopped"

Following(r) ==
  CASE r = "source" -> "redis" [] r = "redis" -> "engine"
    [] r = "engine" -> "stopped"

Close(r) ==
  /\ stage = r
  /\ open' = open \ {r}
  /\ stage' = Following(r)
  /\ UNCHANGED <<environment, broken, free, probe, answer, met, unmet>>

\* A close raises and the lifespan ends there.
CloseRaises(r) ==
  /\ stage = r
  /\ broken' = r
  /\ stage' = "stopped"
  /\ UNCHANGED <<environment, open, free, probe, answer, met, unmet>>

(* The environment. *)

\* Bound: it changes at most MaxChanges times, and only while a check runs;
\* what changes before a check is a state it may begin in.
Change ==
  /\ changes < MaxChanges
  /\ \E c \in Checks : Running(c)
  /\ changes' = changes + 1
  /\ UNCHANGED <<process, free, probe, answer>>

FacilityChanges ==
  /\ Change
  /\ \E f \in Facilities, h \in {"up", "down", "silent"} :
       h # health[f] /\ health' = [health EXCEPT ![f] = h]
  /\ UNCHANGED present
  /\ Witness

ContentChanges ==
  /\ Change
  /\ \E x \in Contents :
       present' = IF x \in present THEN present \ {x} ELSE present \cup {x}
  /\ UNCHANGED health
  /\ Witness

-----------------------------------------------------------------------------
\* A step of the probe that its facility does not withhold.
ProbeStep(c, f) ==
  /\ health[f] # "silent"
  /\ \/ f = "database" /\ (Connect(c) \/ ConnectTimesOut(c) \/ Select(c)
                           \/ SelectVector(c))
     \/ f # "database" /\ Ask(c, f)
     \/ ProbeFails(c, f)

Stopped == stage = "stopped" /\ UNCHANGED vars

Next ==
  \/ \E c \in Checks :
       \/ Begin(c) \/ Reply(c)
       \/ \E f \in Facilities : ProbeStep(c, f) \/ ProbeFails(c, f)
  \/ StopServing
  \/ \E r \in Resources : Close(r) \/ CloseRaises(r)
  \/ FacilityChanges \/ ContentChanges
  \/ Stopped

Spec == Init /\ [][Next]_vars

\* The event loop resumes a probe that has its answer, and the handler.
Fairness ==
  \A c \in Checks :
    WF_vars(Reply(c)) /\ \A f \in Facilities : WF_vars(ProbeStep(c, f))

FairSpec == Spec /\ Fairness

-----------------------------------------------------------------------------
(* Safety. *)

\* Every variable keeps its type.
TypeOK ==
  /\ health \in [Facilities -> {"up", "down", "silent"}]
  /\ present \subseteq Contents
  /\ changes \in 0..MaxChanges
  /\ stage \in Resources \cup {"serving", "stopped"}
  /\ open \subseteq Resources
  /\ broken \in Resources \cup {None}
  /\ free \in Nat
  /\ probe \in [Checks -> [Facilities -> {"idle"} \cup Asks \cup Findings]]
  /\ answer \in [Checks -> {0, 200, 503}]
  /\ met \in [Checks -> SUBSET Needs]
  /\ unmet \in [Checks -> SUBSET Needs]

Components == Facilities \cup {"pgvector"}

\* The needs of a component of the report, and whether it is reported "ok".
NeedsOf(component) ==
  CASE component = "database" -> {"database", "connection"}
    [] component = "pgvector" -> {"database", "connection", "vector"}
    [] component = "redis" -> {"redis"}
    [] component = "minio" -> {"minio", "bucket"}

ReportedOk(c, component) ==
  CASE component = "database" -> probe[c]["database"] \in {"ok", "lacking"}
    [] component = "pgvector" -> probe[c]["database"] = "ok"
    [] OTHER -> probe[c][component] = "ok"

\* The probes look at different moments, so that a report need not be true of
\* any single one; but what it calls available was so at some moment of the
\* check, and what it calls an error was missing at some moment.  In
\* particular 200 is answered only if everything was there.
ReportIsWitnessed ==
  \A c \in Checks : stage = "serving" /\ answer[c] # 0 =>
    /\ \A x \in Components :
         IF ReportedOk(c, x) THEN NeedsOf(x) \subseteq met[c]
                             ELSE NeedsOf(x) \cap unmet[c] # {}
    /\ answer[c] = 200 <=> \A x \in Components : ReportedOk(c, x)

\* Whatever fails in a probe, its connection is in the pool again: the checks
\* do not wear it out.
ConnectionsReturned ==
  free + Cardinality({c \in Checks :
                        probe[c]["database"] \in {"select", "vector"}})
    = PoolSize

\* A shutdown leaves open exactly what comes at or after the close that
\* raised, and nothing if none did; the engine is closed last of all.
LeftOpen ==
  stage = "stopped" =>
    open = CASE broken = None -> {}
             [] broken = "source" -> Resources
             [] broken = "redis" -> {"redis", "engine"}
             [] broken = "engine" -> {"engine"}

(* Liveness, under FairSpec. *)

\* A check is answered, whatever is down, if no facility stays silent for
\* ever: the probes have no timeout of their own.
EveryCheckAnswers ==
  <>[](\A f \in Facilities : health[f] # "silent") =>
    \A c \in Checks : Running(c) ~> ~Running(c)

\* docs/development/local-infrastructure.md, of /ready: "Em caso de falha
\* retorna 503".  Redis failing by not answering is answered too, when nothing
\* else stays silent: the client of Redis is the one built without a timeout.
SilentRedisIsAnswered ==
  <>[](\A f \in Facilities \ {"redis"} : health[f] # "silent") =>
    \A c \in Checks : Running(c) ~> answer[c] = 503 \/ answer[c] = 200
=============================================================================
