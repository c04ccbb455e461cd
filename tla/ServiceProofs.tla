---------------------------- MODULE ServiceProofs ----------------------------
(***************************************************************************)
(* Theorems about Service, for any number of readiness checks, any size of *)
(* the pool and any changes of the environment.                            *)
(***************************************************************************)
EXTENDS Service, FiniteSetTheorems, TLAPS

\* What each probe may be doing, or have found.
Stations(f) ==
  CASE f = "database" -> {"idle", "connect", "select", "vector"} \cup Findings
    [] f = "redis" -> {"idle", "ask", "ok", "error"}
    [] f = "minio" -> {"idle", "ask"} \cup Findings

\* The probes of a check begin together, and are over when it is answered.
\* q and a are the probes and the answer of a check.
Gathered(q, a) ==
  /\ \A f \in Facilities : q[f] \in Stations(f)
  /\ \A f \in Facilities : q[f] = "idle" <=> q["redis"] = "idle"
  /\ a # 0 => /\ \A f \in Facilities : q[f] \in Findings
              /\ a = 200 <=> \A f \in Facilities : q[f] = "ok"

\* What a probe got so far was there, and what it missed was missing, at some
\* moment of its check.
Shown(q, m, n) ==
  /\ q["database"] \in {"select", "vector", "ok", "lacking"} =>
       {"database", "connection"} \subseteq m
  /\ q["database"] = "ok" => "vector" \in m
  /\ q["database"] = "lacking" => "vector" \in n
  /\ q["database"] = "error" => "database" \in n \/ "connection" \in n
  /\ q["redis"] = "ok" => "redis" \in m
  /\ q["redis"] = "error" => "redis" \in n
  /\ q["minio"] = "ok" => {"minio", "bucket"} \subseteq m
  /\ q["minio"] = "lacking" => "bucket" \in n
  /\ q["minio"] = "error" => "minio" \in n

Checked(c) ==
  /\ Gathered(probe[c], answer[c])
  /\ stage = "serving" => Shown(probe[c], met[c], unmet[c])

\* The checks whose probe holds a connection.
Holders == {c \in Checks : probe[c]["database"] \in {"select", "vector"}}

\* The resources are closed in their order.
ClosedInOrder ==
  /\ stage \in {"serving", "source"} => open = Resources /\ broken = None
  /\ stage = "redis" => open = {"redis", "engine"} /\ broken = None
  /\ stage = "engine" => open = {"engine"} /\ broken = None

Words == {"idle"} \cup Asks \cup Findings

ServiceInv ==
  /\ TypeOK
  /\ \A c \in Checks : Checked(c)
  /\ ConnectionsReturned
  /\ ClosedInOrder /\ LeftOpen

-----------------------------------------------------------------------------
(* What a check is shown. *)

LEMMA NeedsAre ==
  ASSUME TypeOK
  PROVE  Met \subseteq Needs /\ (\A c \in Checks :
           met[c] \subseteq Needs /\ unmet[c] \subseteq Needs)
  BY DEF TypeOK, Met, Needs

\* A step shows the checks that run what is met, and never takes it back.
LEMMA WitnessGrows ==
  ASSUME TypeOK, Witness, NEW c \in Checks
  PROVE  /\ met[c] \subseteq met'[c] /\ unmet[c] \subseteq unmet'[c]
         /\ Running(c)' => Met \subseteq met'[c] /\ Needs \ Met \subseteq unmet'[c]
  BY DEF Witness

LEMMA WitnessTypes ==
  ASSUME TypeOK, Witness, Met' \subseteq Needs
  PROVE  /\ met' \in [Checks -> SUBSET Needs]
         /\ unmet' \in [Checks -> SUBSET Needs]
  BY NeedsAre DEF Witness

\* A probe or a request that takes no step keeps what it has.
LEMMA OthersChecked ==
  ASSUME TypeOK, NEW c \in Checks, Checked(c), probe'[c] = probe[c],
         answer'[c] = answer[c],
         \/ stage' # "serving"
         \/ stage' = stage /\ met[c] \subseteq met'[c]
                           /\ unmet[c] \subseteq unmet'[c]
  PROVE  Checked(c)'
<1>1. Gathered(probe[c], answer[c])'
  BY DEF Checked, Gathered
<1>2. ASSUME stage' = "serving" PROVE Shown(probe[c], met[c], unmet[c])'
  BY <1>2 DEF Checked, Shown
<1> QED BY <1>1, <1>2 DEF Checked

\* A probe goes on, or ends: its check runs before and after.
LEMMA GatheredMoves ==
  ASSUME NEW q \in [Facilities -> Words], NEW a, Gathered(q, a),
         NEW f \in Facilities, q[f] \in Asks,
         NEW x \in Words, x \in Stations(f), x # "idle"
  PROVE  /\ a = 0 /\ q["redis"] # "idle"
         /\ Gathered([q EXCEPT ![f] = x], a)
         /\ [q EXCEPT ![f] = x]["redis"] # "idle"
<1>1. q[f] \notin Findings /\ q[f] # "idle"
  BY DEF Asks, Findings
<1>2. a = 0 /\ \A g \in Facilities : q[g] # "idle"
  BY <1>1 DEF Gathered
<1> DEFINE p == [q EXCEPT ![f] = x]
<1>3. \A g \in Facilities : p[g] = IF g = f THEN x ELSE q[g]
  OBVIOUS
<1>4. "redis" \in Facilities
  BY DEF Facilities
<1> HIDE DEF p
<1>5. \A g \in Facilities : p[g] \in Stations(g) /\ p[g] # "idle"
  BY <1>2, <1>3 DEF Gathered
<1>6. Gathered(p, a)
  BY <1>2, <1>4, <1>5 DEF Gathered
<1> QED BY <1>2, <1>4, <1>5, <1>6 DEF p

\* A step of one probe keeps its check and every other, if the check was
\* shown what the probe found.
LEMMA ProbeKeeps ==
  ASSUME ServiceInv, NEW c \in Checks, NEW f \in Facilities,
         probe[c][f] \in Asks, NEW x \in Words, x \in Stations(f), x # "idle",
         Found(c, f, x), UNCHANGED <<answer, stage>>, Witness,
         ASSUME Met \subseteq met'[c], Needs \ Met \subseteq unmet'[c],
                stage = "serving",
                Shown(probe[c], met'[c], unmet'[c])
         PROVE  Shown([probe[c] EXCEPT ![f] = x], met'[c], unmet'[c])
  PROVE  \A d \in Checks : Checked(d)'
<1>1. /\ TypeOK /\ probe[c] \in [Facilities -> Words]
      /\ Gathered(probe[c], answer[c])
  BY DEF ServiceInv, TypeOK, Words, Checked
<1>2. /\ probe'[c] = [probe[c] EXCEPT ![f] = x]
      /\ \A d \in Checks \ {c} : probe'[d] = probe[d]
  BY <1>1 DEF TypeOK, Found
<1>3. Gathered(probe'[c], answer'[c]) /\ Running(c)'
  BY <1>1, <1>2, GatheredMoves DEF Running, Begun
<1>4. /\ met[c] \subseteq met'[c] /\ unmet[c] \subseteq unmet'[c]
      /\ Met \subseteq met'[c] /\ Needs \ Met \subseteq unmet'[c]
  BY <1>1, <1>3, WitnessGrows
<1>5. ASSUME stage = "serving"
      PROVE  Shown([probe[c] EXCEPT ![f] = x], met'[c], unmet'[c])
  <2>1. Shown(probe[c], met[c], unmet[c])
    BY <1>5 DEF ServiceInv, Checked
  <2>2. Shown(probe[c], met'[c], unmet'[c])
    BY <1>4, <2>1 DEF Shown
  <2> QED BY <1>4, <1>5, <2>2
<1>6. Checked(c)'
  BY <1>2, <1>3, <1>5 DEF Checked
<1>7. ASSUME NEW d \in Checks \ {c} PROVE Checked(d)'
  <2>1. met[d] \subseteq met'[d] /\ unmet[d] \subseteq unmet'[d]
    BY <1>1, WitnessGrows
  <2>2. Checked(d) /\ probe'[d] = probe[d] /\ answer'[d] = answer[d]
    BY <1>2 DEF ServiceInv
  <2> QED BY <1>1, <2>1, <2>2, OthersChecked
<1> QED BY <1>6, <1>7

-----------------------------------------------------------------------------
(* The probes. *)

LEMMA ConnectKeeps ==
  ASSUME ServiceInv, NEW c \in Checks, Connect(c)
  PROVE  \A d \in Checks : Checked(d)'
<1>1. /\ probe[c]["database"] \in Asks /\ "database" \in Facilities
      /\ "select" \in Stations("database") /\ "select" \in Words
      /\ Found(c, "database", "select") /\ UNCHANGED <<answer, stage>>
      /\ Witness
  BY DEF Connect, Asks, Facilities, Stations, Words, process
<1>2. {"database", "connection"} \subseteq Met
  BY DEF Connect, Met, Facilities
<1>3. \A m, n : Shown(probe[c], m, n) /\ Met \subseteq m =>
        Shown([probe[c] EXCEPT !["database"] = "select"], m, n)
  <2>1. probe[c] \in [Facilities -> Words]
    BY DEF ServiceInv, TypeOK, Words
  <2> QED BY <1>2, <2>1 DEF Shown, Facilities
<1> QED BY <1>1, <1>3, ProbeKeeps

LEMMA DatabaseKeeps ==
  ASSUME ServiceInv, NEW c \in Checks,
         ConnectTimesOut(c) \/ Select(c) \/ SelectVector(c)
  PROVE  \A d \in Checks : Checked(d)'
<1>1. /\ probe[c]["database"] \in Asks /\ "database" \in Facilities
      /\ UNCHANGED <<answer, stage>> /\ Witness
      /\ probe[c] \in [Facilities -> Words]
  BY DEF ConnectTimesOut, Select, SelectVector, Asks, Facilities, process,
     ServiceInv, TypeOK, Words
<1>2. CASE ConnectTimesOut(c)
  <2>1. /\ "error" \in Stations("database") /\ "error" \in Words
        /\ Found(c, "database", "error")
    BY <1>2 DEF ConnectTimesOut, Stations, Words, Findings
  <2>2. "connection" \in Needs \ Met
    BY <1>2 DEF ConnectTimesOut, Met, Needs, Facilities, Contents, ServiceInv,
       TypeOK
  <2>3. \A m, n : Shown(probe[c], m, n) /\ Needs \ Met \subseteq n =>
          Shown([probe[c] EXCEPT !["database"] = "error"], m, n)
    BY <1>1, <2>2 DEF Shown, Facilities
  <2> QED BY <1>1, <2>1, <2>3, ProbeKeeps
<1>3. CASE Select(c)
  <2>1. /\ "vector" \in Stations("database") /\ "vector" \in Words
        /\ Found(c, "database", "vector") /\ probe[c]["database"] = "select"
    BY <1>3 DEF Select, Stations, Words, Asks
  <2>2. \A m, n : Shown(probe[c], m, n) =>
          Shown([probe[c] EXCEPT !["database"] = "vector"], m, n)
    BY <1>1, <2>1 DEF Shown, Facilities
  <2> QED BY <1>1, <2>1, <2>2, ProbeKeeps
<1>4. CASE SelectVector(c)
  <2> DEFINE x == IF "vector" \in present THEN "ok" ELSE "lacking"
  <2>1. /\ x \in Stations("database") /\ x \in Words /\ x # "idle"
        /\ Found(c, "database", x) /\ probe[c]["database"] = "vector"
    BY <1>4 DEF SelectVector, Stations, Words, Findings
  <2>2. \/ x = "ok" /\ "vector" \in Met
        \/ x = "lacking" /\ "vector" \in Needs \ Met
    <3>1. "vector" \in Needs /\ ("vector" \in Met <=> "vector" \in present)
      BY DEF Met, Needs, Facilities, Contents
    <3> QED BY <3>1
  <2> HIDE DEF x
  <2>3. \A m, n : /\ Shown(probe[c], m, n)
                  /\ Met \subseteq m /\ Needs \ Met \subseteq n
          => Shown([probe[c] EXCEPT !["database"] = x], m, n)
    BY <1>1, <2>1, <2>2 DEF Shown, Facilities
  <2> QED BY <1>1, <2>1, <2>3, ProbeKeeps
<1> QED BY <1>2, <1>3, <1>4

LEMMA AskKeeps ==
  ASSUME ServiceInv, NEW c \in Checks, NEW f \in Facilities, f # "database",
         Ask(c, f)
  PROVE  \A d \in Checks : Checked(d)'
<1> DEFINE x == IF f = "minio" /\ "bucket" \notin present THEN "lacking"
                ELSE "ok"
<1>1. /\ probe[c][f] \in Asks /\ UNCHANGED <<answer, stage>> /\ Witness
      /\ Found(c, f, x) /\ probe[c] \in [Facilities -> Words]
  BY DEF Ask, Asks, process, ServiceInv, TypeOK, Words
<1>2. x \in Stations(f) /\ x \in Words /\ x # "idle"
  BY DEF Stations, Words, Findings, Facilities
<1>3. f \in Met /\ f \in {"redis", "minio"}
  BY DEF Ask, Met, Facilities
<1>4. /\ x = "lacking" => f = "minio" /\ "bucket" \in Needs \ Met
      /\ x = "ok" /\ f = "minio" => "bucket" \in Met
  <2>1. "bucket" \in Needs /\ ("bucket" \in Met <=> "bucket" \in present)
    BY DEF Met, Needs, Facilities, Contents
  <2> QED BY <2>1
<1>5. x \in {"ok", "lacking"}
  OBVIOUS
<1> HIDE DEF x
<1>6. \A m, n : /\ Shown(probe[c], m, n)
                /\ Met \subseteq m /\ Needs \ Met \subseteq n
        => Shown([probe[c] EXCEPT ![f] = x], m, n)
  BY <1>1, <1>3, <1>4, <1>5 DEF Shown, Facilities
<1> QED BY <1>1, <1>2, <1>6, ProbeKeeps

LEMMA FailureKeeps ==
  ASSUME ServiceInv, NEW c \in Checks, NEW f \in Facilities, ProbeFails(c, f)
  PROVE  \A d \in Checks : Checked(d)'
<1>1. /\ probe[c][f] \in Asks /\ UNCHANGED <<answer, stage>> /\ Witness
      /\ Found(c, f, "error") /\ probe[c] \in [Facilities -> Words]
  BY DEF ProbeFails, process, ServiceInv, TypeOK, Words
<1>2. "error" \in Stations(f) /\ "error" \in Words
  BY DEF Stations, Words, Findings, Facilities
<1>3. f \in Needs \ Met
  BY DEF ProbeFails, Met, Needs, Facilities, Contents, ServiceInv, TypeOK
<1>4. \A m, n : Shown(probe[c], m, n) /\ Needs \ Met \subseteq n =>
        Shown([probe[c] EXCEPT ![f] = "error"], m, n)
  BY <1>1, <1>3 DEF Shown, Facilities
<1> QED BY <1>1, <1>2, <1>4, ProbeKeeps

LEMMA BeginKeeps ==
  ASSUME ServiceInv, NEW c \in Checks, Begin(c)
  PROVE  \A d \in Checks : Checked(d)'
<1>1. /\ TypeOK /\ Witness /\ UNCHANGED <<answer, stage>>
      /\ Gathered(probe[c], answer[c]) /\ probe[c]["redis"] = "idle"
  BY DEF ServiceInv, Checked, Begin, Begun, process
<1>2. /\ probe'[c]["database"] = "connect" /\ probe'[c]["redis"] = "ask"
      /\ probe'[c]["minio"] = "ask"
      /\ \A d \in Checks \ {c} : probe'[d] = probe[d]
  BY <1>1 DEF Begin, TypeOK, Facilities
<1>3. answer[c] = 0
  BY <1>1 DEF Gathered, Facilities, Findings
<1>4. Checked(c)'
  BY <1>1, <1>2, <1>3 DEF Checked, Gathered, Shown, Facilities, Stations
<1>5. ASSUME NEW d \in Checks \ {c} PROVE Checked(d)'
  <2>1. met[d] \subseteq met'[d] /\ unmet[d] \subseteq unmet'[d]
    BY <1>1, WitnessGrows
  <2> QED BY <1>1, <1>2, <2>1, OthersChecked DEF ServiceInv
<1> QED BY <1>4, <1>5

LEMMA ReplyKeeps ==
  ASSUME ServiceInv, NEW c \in Checks, Reply(c)
  PROVE  \A d \in Checks : Checked(d)'
<1>1. /\ TypeOK /\ UNCHANGED <<probe, stage, met, unmet>>
      /\ answer'[c] = IF Ready(c) THEN 200 ELSE 503
      /\ \A d \in Checks \ {c} : answer'[d] = answer[d]
  BY DEF ServiceInv, TypeOK, Reply, process
<1>2. Checked(c)'
  BY <1>1 DEF ServiceInv, Reply, Checked, Gathered, Shown, Ready
<1>3. ASSUME NEW d \in Checks \ {c} PROVE Checked(d)'
  BY <1>1, <1>3, OthersChecked DEF ServiceInv
<1> QED BY <1>2, <1>3

\* The steps that change no probe and no answer.
LEMMA QuietKeeps ==
  ASSUME ServiceInv, UNCHANGED <<probe, answer>>,
         \/ stage' # "serving"
         \/ stage' = stage /\ (Witness \/ UNCHANGED <<met, unmet>>)
  PROVE  \A d \in Checks : Checked(d)'
<1> SUFFICES ASSUME NEW d \in Checks PROVE Checked(d)'
  OBVIOUS
<1>1. Witness => met[d] \subseteq met'[d] /\ unmet[d] \subseteq unmet'[d]
  BY WitnessGrows DEF ServiceInv
<1> QED BY <1>1, OthersChecked DEF ServiceInv

LEMMA CheckedNext ==
  ServiceInv /\ [Next]_vars => \A d \in Checks : Checked(d)'
<1> SUFFICES ASSUME ServiceInv, [Next]_vars PROVE \A d \in Checks : Checked(d)'
  OBVIOUS
<1>1. ASSUME NEW c \in Checks, Begin(c) \/ Reply(c)
      PROVE  \A d \in Checks : Checked(d)'
  BY <1>1, BeginKeeps, ReplyKeeps
<1>2. ASSUME NEW c \in Checks, NEW f \in Facilities,
             ProbeStep(c, f) \/ ProbeFails(c, f)
      PROVE  \A d \in Checks : Checked(d)'
  BY <1>2, ConnectKeeps, DatabaseKeeps, AskKeeps, FailureKeeps DEF ProbeStep
<1>3. CASE StopServing
  BY <1>3, QuietKeeps DEF StopServing
<1>4. ASSUME NEW r \in Resources, Close(r) \/ CloseRaises(r)
      PROVE  \A d \in Checks : Checked(d)'
  BY <1>4, QuietKeeps DEF Close, CloseRaises, Following, Resources
<1>5. CASE FacilityChanges \/ ContentChanges
  BY <1>5, QuietKeeps DEF FacilityChanges, ContentChanges, Change, process
<1>6. CASE UNCHANGED vars
  BY <1>6, QuietKeeps DEF vars, process
<1> QED BY <1>1, <1>2, <1>3, <1>4, <1>5, <1>6 DEF Next, Stopped

-----------------------------------------------------------------------------
(* The types, the connections and the resources. *)

LEMMA ServiceInvInit == Init => ServiceInv
<1> SUFFICES ASSUME Init PROVE ServiceInv
  OBVIOUS
<1>1. TypeOK
  BY ServiceAssumption
     DEF Init, TypeOK, Contents, Resources, Needs
<1>2. \A c \in Checks : Checked(c)
  BY DEF Init, Checked, Gathered, Shown, Facilities, Stations
<1>3. ConnectionsReturned
  <2>1. {c \in Checks : probe[c]["database"] \in {"select", "vector"}} = {}
    BY DEF Init, Facilities
  <2>2. free = PoolSize /\ free \in Nat /\ Cardinality({}) = 0
    BY FS_EmptySet, ServiceAssumption DEF Init
  <2>3. ConnectionsReturned <=> free + Cardinality({}) = PoolSize
    BY <2>1 DEF ConnectionsReturned
  <2> QED BY <2>2, <2>3
<1>4. ClosedInOrder /\ LeftOpen
  BY DEF Init, ClosedInOrder, LeftOpen
<1> QED BY <1>1, <1>2, <1>3, <1>4 DEF ServiceInv

LEMMA TypeNext == ServiceInv /\ [Next]_vars => TypeOK'
<1> SUFFICES ASSUME ServiceInv, [Next]_vars PROVE TypeOK'
  OBVIOUS
<1>1. TypeOK
  BY DEF ServiceInv
<1> DEFINE Rest ==
      /\ health' \in [Facilities -> {"up", "down", "silent"}]
      /\ present' \subseteq Contents /\ changes' \in 0..MaxChanges
      /\ stage' \in Resources \cup {"serving", "stopped"}
      /\ open' \subseteq Resources /\ broken' \in Resources \cup {None}
      /\ free' \in Nat
      /\ probe' \in [Checks -> [Facilities -> Words]]
      /\ answer' \in [Checks -> {0, 200, 503}]
<1>2. /\ Rest /\ Met' \subseteq Needs
      /\ \/ Witness \/ UNCHANGED <<met, unmet>>
         \/ met' = [c \in Checks |-> {}] /\ unmet' = [c \in Checks |-> {}]
      => TypeOK'
  <2>1. met \in [Checks -> SUBSET Needs] /\ unmet \in [Checks -> SUBSET Needs]
    BY <1>1 DEF TypeOK
  <2>2. CASE Witness /\ Met' \subseteq Needs
    BY <1>1, <2>2, WitnessTypes DEF TypeOK, Words
  <2>3. CASE ~Witness
    BY <2>1, <2>3 DEF TypeOK, Words
  <2> QED BY <2>2, <2>3
<1>3. Rest => Met' \subseteq Needs
  BY DEF Met, Needs
<1>4. ASSUME NEW c \in Checks, NEW f \in Facilities, NEW x \in Words,
             Found(c, f, x)
      PROVE  probe' \in [Checks -> [Facilities -> Words]]
  <2>1. probe \in [Checks -> [Facilities -> Words]]
    BY <1>1 DEF TypeOK, Words
  <2> QED BY <1>4, <2>1 DEF Found
<1>5. "database" \in Facilities /\ free \in Nat
      /\ {"select", "vector", "ok", "lacking", "error", "idle", "connect", "ask"}
           \subseteq Words
  BY <1>1 DEF Facilities, TypeOK, Words, Asks, Findings
<1>6. ASSUME NEW c \in Checks, Begin(c) PROVE Rest /\ Witness
  <2>1. [f \in Facilities |-> IF f = "database" THEN "connect" ELSE "ask"]
           \in [Facilities -> Words]
    BY <1>5
  <2>2. probe' \in [Checks -> [Facilities -> Words]]
    BY <1>1, <1>6, <2>1 DEF Begin, TypeOK, Words
  <2> QED BY <1>1, <1>6, <2>2 DEF Begin, environment, process, TypeOK
<1>7. ASSUME NEW c \in Checks, Reply(c) PROVE Rest /\ UNCHANGED <<met, unmet>>
  BY <1>1, <1>7 DEF Reply, environment, process, TypeOK, Words
<1>8. ASSUME NEW c \in Checks,
             Connect(c) \/ ConnectTimesOut(c) \/ Select(c) \/ SelectVector(c)
      PROVE  Rest /\ Witness
  <2>1. free' \in Nat
    BY <1>5, <1>8 DEF Connect, ConnectTimesOut, Select, SelectVector
  <2>2. probe' \in [Checks -> [Facilities -> Words]]
    BY <1>4, <1>5, <1>8 DEF Connect, ConnectTimesOut, Select, SelectVector
  <2> QED BY <1>1, <1>8, <2>1, <2>2
          DEF Connect, ConnectTimesOut, Select, SelectVector, environment,
              process, TypeOK
<1>9. ASSUME NEW c \in Checks, NEW f \in Facilities, Ask(c, f) \/ ProbeFails(c, f)
      PROVE  Rest /\ Witness
  <2>1. free' \in Nat
    BY <1>5, <1>9 DEF Ask, ProbeFails, Returned
  <2>2. probe' \in [Checks -> [Facilities -> Words]]
    BY <1>4, <1>5, <1>9 DEF Ask, ProbeFails
  <2> QED BY <1>1, <1>9, <2>1, <2>2
          DEF Ask, ProbeFails, environment, process, TypeOK
<1>10. CASE StopServing
  <2>1. Rest
    BY <1>1, <1>10 DEF StopServing, environment, TypeOK, Words, Resources
  <2> QED BY <1>2, <1>3, <1>10, <2>1 DEF StopServing
<1>11. ASSUME NEW r \in Resources, Close(r) \/ CloseRaises(r)
       PROVE  Rest /\ UNCHANGED <<met, unmet>>
  BY <1>1, <1>11
     DEF Close, CloseRaises, Following, environment, TypeOK, Words, Resources
<1>12. CASE FacilityChanges \/ ContentChanges
  <2>1. changes' \in 0..MaxChanges
    BY <1>1, <1>12, ServiceAssumption
       DEF FacilityChanges, ContentChanges, Change, TypeOK
  <2>2. /\ health' \in [Facilities -> {"up", "down", "silent"}]
        /\ present' \subseteq Contents
    BY <1>1, <1>12 DEF FacilityChanges, ContentChanges, TypeOK
  <2>3. Rest
    BY <1>1, <1>12, <2>1, <2>2
       DEF FacilityChanges, ContentChanges, Change, process, TypeOK, Words
  <2>4. Witness
    BY <1>12 DEF FacilityChanges, ContentChanges
  <2> QED BY <1>2, <1>3, <2>3, <2>4
<1>13. CASE UNCHANGED vars
  BY <1>1, <1>13 DEF vars, environment, process, TypeOK
<1> HIDE DEF Rest
<1> QED
  BY <1>2, <1>3, <1>6, <1>7, <1>8, <1>9, <1>10, <1>11, <1>12, <1>13
     DEF Next, ProbeStep, Stopped

\* A step of a probe takes its check in or out of those that hold a
\* connection.
LEMMA HoldersMove ==
  ASSUME TypeOK, NEW c \in Checks, NEW f \in Facilities, NEW x, Found(c, f, x)
  PROVE  /\ Holders' = IF f # "database" THEN Holders
                       ELSE IF x \in {"select", "vector"} THEN Holders \cup {c}
                       ELSE Holders \ {c}
         /\ IsFiniteSet(Holders) /\ Cardinality(Holders) \in Nat
<1>1. IsFiniteSet(Holders)
  BY FS_Subset, ServiceAssumption DEF Holders
<1>2. /\ probe'[c] = [probe[c] EXCEPT ![f] = x]
      /\ \A d \in Checks \ {c} : probe'[d] = probe[d]
      /\ probe[c] \in [Facilities -> {"idle"} \cup Asks \cup Findings]
  BY DEF Found, TypeOK
<1>3. "database" \in Facilities
  BY DEF Facilities
<1>4. probe'[c]["database"] = IF f = "database" THEN x ELSE probe[c]["database"]
  BY <1>2, <1>3
<1>5. \A d \in Checks \ {c} : d \in Holders' <=> d \in Holders
  BY <1>2 DEF Holders
<1>6. c \in Holders' <=> IF f = "database" THEN x \in {"select", "vector"}
                                          ELSE c \in Holders
  BY <1>4 DEF Holders
<1>7. Holders \subseteq Checks /\ Holders' \subseteq Checks
  BY DEF Holders
<1>8. CASE f # "database"
  <2>1. Holders' = Holders
    BY <1>5, <1>6, <1>7, <1>8
  <2> QED BY <1>1, <1>8, <2>1, FS_CardinalityType
<1>9. CASE f = "database" /\ x \in {"select", "vector"}
  <2>1. Holders' = Holders \cup {c}
    BY <1>5, <1>6, <1>7, <1>9
  <2> QED BY <1>1, <1>9, <2>1, FS_CardinalityType
<1>10. CASE f = "database" /\ x \notin {"select", "vector"}
  <2>1. Holders' = Holders \ {c}
    BY <1>5, <1>6, <1>7, <1>10
  <2> QED BY <1>1, <1>10, <2>1, FS_CardinalityType
<1> QED BY <1>8, <1>9, <1>10

\* The pool and those who hold a connection: one more, one less, or the same.
LEMMA ConnectionsNext ==
  ServiceInv /\ [Next]_vars => ConnectionsReturned'
<1> SUFFICES ASSUME ServiceInv, [Next]_vars PROVE ConnectionsReturned'
  OBVIOUS
<1>1. TypeOK /\ free \in Nat /\ free + Cardinality(Holders) = PoolSize
  BY DEF ServiceInv, ConnectionsReturned, Holders, TypeOK
<1>2. SUFFICES free' + Cardinality(Holders') = PoolSize
  BY DEF ConnectionsReturned, Holders
<1>3. ASSUME probe' = probe, free' = free
      PROVE  free' + Cardinality(Holders') = PoolSize
  BY <1>1, <1>3 DEF Holders
<1>4. ASSUME NEW c \in Checks, Begin(c)
      PROVE  free' + Cardinality(Holders') = PoolSize
  <2>1. probe[c]["redis"] = "idle" /\ Gathered(probe[c], answer[c])
    BY <1>4 DEF Begin, Begun, ServiceInv, Checked
  <2>2. probe[c]["database"] = "idle" /\ probe'[c]["database"] = "connect"
    BY <1>1, <1>4, <2>1 DEF Gathered, Facilities, Begin, TypeOK
  <2>3. \A d \in Checks \ {c} : probe'[d] = probe[d]
    BY <1>1, <1>4 DEF Begin, TypeOK
  <2>4. Holders' = Holders
    BY <2>2, <2>3 DEF Holders
  <2> QED BY <1>1, <1>4, <2>4 DEF Begin
<1>5. ASSUME NEW c \in Checks, NEW f \in Facilities, f # "database",
             Ask(c, f) \/ ProbeFails(c, f)
      PROVE  free' + Cardinality(Holders') = PoolSize
  <2>1. PICK x : Found(c, f, x)
    BY <1>5 DEF Ask, ProbeFails
  <2>2. Holders' = Holders
    BY <1>1, <1>5, <2>1, HoldersMove
  <2>3. Gathered(probe[c], answer[c])
    BY DEF ServiceInv, Checked
  <2>4. probe[c][f] \notin {"select", "vector"}
    BY <1>5, <2>3 DEF Gathered, Stations, Findings, Facilities
  <2>5. free' = free
    BY <1>5, <2>4 DEF Ask, ProbeFails, Returned
  <2> QED BY <1>1, <2>2, <2>5
<1>6. ASSUME NEW c \in Checks,
             \/ Connect(c) \/ ConnectTimesOut(c) \/ Select(c)
             \/ SelectVector(c) \/ ProbeFails(c, "database")
      PROVE  free' + Cardinality(Holders') = PoolSize
  <2>1. /\ "database" \in Facilities
        /\ c \in Holders <=> probe[c]["database"] \in {"select", "vector"}
    BY DEF Facilities, Holders
  <2>2. /\ IsFiniteSet(Holders) /\ Cardinality(Holders) \in Nat
    BY FS_Subset, FS_CardinalityType, ServiceAssumption DEF Holders
  <2>3. /\ Cardinality(Holders \cup {c}) = IF c \in Holders
            THEN Cardinality(Holders) ELSE Cardinality(Holders) + 1
        /\ Cardinality(Holders \ {c}) = IF c \in Holders
            THEN Cardinality(Holders) - 1 ELSE Cardinality(Holders)
    BY <2>2, FS_AddElement, FS_RemoveElement
  <2>4. CASE Connect(c)
    <3>1. Found(c, "database", "select") /\ free' = free - 1 /\ c \notin Holders
      BY <2>1, <2>4 DEF Connect
    <3>2. Holders' = Holders \cup {c}
      BY <1>1, <2>1, <3>1, HoldersMove
    <3> QED BY <1>1, <2>2, <2>3, <3>1, <3>2
  <2>5. CASE Select(c)
    <3>1. Found(c, "database", "vector") /\ free' = free /\ c \in Holders
      BY <2>1, <2>5 DEF Select
    <3>2. Holders' = Holders \cup {c}
      BY <1>1, <2>1, <3>1, HoldersMove
    <3> QED BY <1>1, <2>2, <2>3, <3>1, <3>2
  <2>6. CASE ConnectTimesOut(c)
    <3>1. Found(c, "database", "error") /\ free' = free /\ c \notin Holders
      BY <2>1, <2>6 DEF ConnectTimesOut
    <3>2. Holders' = Holders \ {c}
      BY <1>1, <2>1, <3>1, HoldersMove
    <3> QED BY <1>1, <2>2, <2>3, <3>1, <3>2
  <2>7. CASE SelectVector(c)
    <3>1. /\ \E x \in {"ok", "lacking"} : Found(c, "database", x)
          /\ free' = free + 1 /\ c \in Holders
      BY <2>1, <2>7 DEF SelectVector
    <3>2. Holders' = Holders \ {c}
      BY <1>1, <2>1, <3>1, HoldersMove
    <3> QED BY <1>1, <2>2, <2>3, <3>1, <3>2
  <2>8. CASE ProbeFails(c, "database")
    <3>1. /\ Found(c, "database", "error")
          /\ free' = IF c \in Holders THEN free + 1 ELSE free
      BY <2>1, <2>8 DEF ProbeFails, Returned
    <3>2. Holders' = Holders \ {c}
      BY <1>1, <2>1, <3>1, HoldersMove
    <3> QED BY <1>1, <2>2, <2>3, <3>1, <3>2
  <2> QED BY <1>6, <2>4, <2>5, <2>6, <2>7, <2>8
<1> QED
  BY <1>3, <1>4, <1>5, <1>6
     DEF Next, ProbeStep, Reply, StopServing, Close, CloseRaises,
         FacilityChanges, ContentChanges, Change, Stopped, vars, process

LEMMA ClosingNext ==
  ServiceInv /\ [Next]_vars => ClosedInOrder' /\ LeftOpen'
<1> SUFFICES ASSUME ServiceInv, [Next]_vars PROVE ClosedInOrder' /\ LeftOpen'
  OBVIOUS
<1>1. ClosedInOrder /\ LeftOpen
  BY DEF ServiceInv
<1>2. CASE UNCHANGED <<stage, open, broken>>
  BY <1>1, <1>2 DEF ClosedInOrder, LeftOpen
<1>3. CASE StopServing
  BY <1>1, <1>3 DEF StopServing, ClosedInOrder, LeftOpen
<1>4. ASSUME NEW r \in Resources, Close(r) PROVE ClosedInOrder' /\ LeftOpen'
  <2>1. stage = r /\ open' = open \ {r} /\ stage' = Following(r)
        /\ broken' = broken
    BY <1>4 DEF Close
  <2>2. CASE r = "source"
    <3>1. open' = {"redis", "engine"} /\ stage' = "redis" /\ broken' = None
      BY <1>1, <2>1, <2>2 DEF ClosedInOrder, Following, Resources
    <3> QED BY <3>1 DEF ClosedInOrder, LeftOpen
  <2>3. CASE r = "redis"
    <3>1. open' = {"engine"} /\ stage' = "engine" /\ broken' = None
      BY <1>1, <2>1, <2>3 DEF ClosedInOrder, Following
    <3> QED BY <3>1 DEF ClosedInOrder, LeftOpen
  <2>4. CASE r = "engine"
    <3>1. open' = {} /\ stage' = "stopped" /\ broken' = None
      BY <1>1, <2>1, <2>4 DEF ClosedInOrder, Following
    <3> QED BY <3>1, ServiceAssumption DEF ClosedInOrder, LeftOpen, Resources
  <2> QED BY <2>2, <2>3, <2>4 DEF Resources
<1>5. ASSUME NEW r \in Resources, CloseRaises(r)
      PROVE  ClosedInOrder' /\ LeftOpen'
  BY <1>1, <1>5, ServiceAssumption
     DEF CloseRaises, Resources, ClosedInOrder, LeftOpen
<1> QED
  BY <1>2, <1>3, <1>4, <1>5
     DEF Next, ProbeStep, Begin, Reply, Connect, ConnectTimesOut, Select,
         SelectVector, Ask, ProbeFails, FacilityChanges, ContentChanges,
         Change, Stopped, vars, process

LEMMA ServiceInvariant == Spec => []ServiceInv
<1>1. ServiceInv /\ [Next]_vars => ServiceInv'
  BY CheckedNext, TypeNext, ConnectionsNext, ClosingNext DEF ServiceInv
<1> QED BY <1>1, ServiceInvInit, PTL DEF Spec

-----------------------------------------------------------------------------
\* Every variable keeps its type, for any checks and any environment.
THEOREM ServiceTypeCorrect == Spec => []TypeOK
<1>1. ServiceInv => TypeOK
  BY DEF ServiceInv
<1> QED BY <1>1, ServiceInvariant, PTL

\* What a readiness report says of a component was so at some moment of the
\* check, for any number of checks and any changes of what they look at.
THEOREM ReportsAreWitnessed == Spec => []ReportIsWitnessed
<1>1. ServiceInv => ReportIsWitnessed
  <2> SUFFICES ASSUME ServiceInv, NEW c \in Checks, stage = "serving",
                      answer[c] # 0
               PROVE  /\ \A x \in Components :
                           IF ReportedOk(c, x) THEN NeedsOf(x) \subseteq met[c]
                                               ELSE NeedsOf(x) \cap unmet[c] # {}
                      /\ answer[c] = 200 <=> \A x \in Components : ReportedOk(c, x)
    BY DEF ReportIsWitnessed
  <2>1. Gathered(probe[c], answer[c]) /\ Shown(probe[c], met[c], unmet[c])
    BY DEF ServiceInv, Checked
  <2>2. /\ probe[c]["database"] \in Findings /\ probe[c]["minio"] \in Findings
        /\ probe[c]["redis"] \in {"ok", "error"}
        /\ answer[c] = 200 <=> /\ probe[c]["database"] = "ok"
                               /\ probe[c]["redis"] = "ok"
                               /\ probe[c]["minio"] = "ok"
    BY <2>1 DEF Gathered, Facilities, Findings, Stations
  <2>3. /\ ReportedOk(c, "database") <=> probe[c]["database"] \in {"ok", "lacking"}
        /\ ReportedOk(c, "pgvector") <=> probe[c]["database"] = "ok"
        /\ ReportedOk(c, "redis") <=> probe[c]["redis"] = "ok"
        /\ ReportedOk(c, "minio") <=> probe[c]["minio"] = "ok"
    BY DEF ReportedOk
  <2>4. /\ NeedsOf("database") = {"database", "connection"}
        /\ NeedsOf("pgvector") = {"database", "connection", "vector"}
        /\ NeedsOf("redis") = {"redis"} /\ NeedsOf("minio") = {"minio", "bucket"}
    BY DEF NeedsOf
  <2>5. ASSUME NEW x \in Components
        PROVE  IF ReportedOk(c, x) THEN NeedsOf(x) \subseteq met[c]
                                   ELSE NeedsOf(x) \cap unmet[c] # {}
    BY <2>1, <2>2, <2>3, <2>4 DEF Components, Facilities, Shown, Findings
  <2>6. answer[c] = 200 <=> \A x \in Components : ReportedOk(c, x)
    BY <2>2, <2>3 DEF Components, Facilities, Findings
  <2> QED BY <2>5, <2>6
<1> QED BY <1>1, ServiceInvariant, PTL

\* No probe, however it ends, keeps its connection.
THEOREM PoolIsWhole == Spec => []ConnectionsReturned
<1>1. ServiceInv => ConnectionsReturned
  BY DEF ServiceInv
<1> QED BY <1>1, ServiceInvariant, PTL

\* A shutdown leaves open exactly what comes at or after the close that raised.
THEOREM ShutdownIsOrdered == Spec => []LeftOpen
<1>1. ServiceInv => LeftOpen
  BY DEF ServiceInv
<1> QED BY <1>1, ServiceInvariant, PTL
=============================================================================
