-------------------------- MODULE ProductRegister --------------------------
(***************************************************************************)
(* What importing products promises.  The register holds, for every        *)
(* product of the source, the identity the first import gave it, the local *)
(* values that import protected, and the snapshot of the last import that  *)
(* took effect.  An import says whether the snapshot is new to the         *)
(* register, and one that fails may or may not have taken effect.          *)
(***************************************************************************)
EXTENDS Naturals

CONSTANTS Products, Ids, Fields, Snapshots, None

VARIABLES
  register,  \* register[e]: what is held of product e, or None
  now,       \* the number of imports asked for
  reply      \* what the last one said, of which product and snapshot

Holds(id, fields, kept, snapshot) ==
  [id |-> id, protected |-> fields, kept |-> kept, snapshot |-> snapshot]

Init ==
  /\ register = [e \in Products |-> None]
  /\ now = 0
  /\ reply = [change |-> "none", product |-> None, snapshot |-> None]

Reply(change, e, s) ==
  reply' = [change |-> change, product |-> e, snapshot |-> s]

Taken(held) == \E e \in Products : register[e] # None /\ register[e].id = held

Enter(e, s) ==
  /\ register[e] = None
  /\ \E id \in Ids, fields \in SUBSET Fields :
       /\ ~Taken(id)
       /\ register' = [register EXCEPT ![e] =
            Holds(id, fields, [f \in fields |-> s[f]], s)]

Replace(e, s) ==
  /\ register[e] # None
  /\ register[e].snapshot # s
  /\ register' = [register EXCEPT ![e] =
       Holds(register[e].id, register[e].protected, register[e].kept, s)]

Repeat(e, s) ==
  /\ register[e] # None
  /\ register[e].snapshot = s
  /\ UNCHANGED register

Import(e, s) ==
  \/ Reply("created", e, s) /\ Enter(e, s)
  \/ Reply("updated", e, s) /\ Replace(e, s)
  \/ Reply("unchanged", e, s) /\ Repeat(e, s)

\* The caller is told of a failure, whatever became of the import.
Fail(e, s) ==
  /\ Reply("failed", e, s)
  /\ Enter(e, s) \/ Replace(e, s) \/ UNCHANGED register

\* The product and the snapshot of an import are those its reply names.
Next ==
  /\ now' = now + 1
  /\ \/ LET e == reply'.product
            s == reply'.snapshot
        IN  e \in Products /\ s \in Snapshots /\ (Import(e, s) \/ Fail(e, s))
     \/ Reply("failed", None, None) /\ UNCHANGED register

Spec == Init /\ [][Next]_<<register, now, reply>>
=============================================================================
