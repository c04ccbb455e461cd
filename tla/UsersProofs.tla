---------------------------- MODULE UsersProofs ----------------------------
(***************************************************************************)
(* Theorems about Users, for any calls, names, addresses, ids and initial  *)
(* tables, with or without failures of the database.                       *)
(***************************************************************************)
EXTENDS Users, FiniteSetTheorems, TLAPS

\* A call knows whom it is about: a user nobody stored yet and nobody else
\* inserts, or a stored user of whom it read the e-mail and the creation time.
CallKnows(c) ==
  /\ pc[c] # "done" => answer[c] = "none"
  /\ target[c] # None => draft[c] # None
  /\ pc[c] = "insert" => target[c] # None /\ target[c] \notin Stored
  /\ pc[c] \in {"reload", "commit"} =>
       /\ target[c] \in Stored
       /\ users[target[c]].email = draft[c].email
       /\ users[target[c]].createdAt = draft[c].createdAt
  /\ pc[c] = "commit" =>
       loaded[c] # None /\ loaded[c].email = draft[c].email
  /\ pc[c] = "list" => "list" \in Operations
  /\ pc[c] \in {"idle", "list"} => target[c] = None

InsertsApart ==
  \A c, d \in Calls :
    pc[c] = "insert" /\ pc[d] = "insert" /\ target[c] = target[d] => c = d

UsersInv ==
  /\ TypeOK
  /\ \A c \in Calls : CallKnows(c)
  /\ InsertsApart
  /\ AnsweredIsStored
  /\ OneUserPerMailbox

-----------------------------------------------------------------------------
LEMMA UserEdits ==
  ASSUME NEW u \in User
  PROVE  /\ u # None
         /\ \A n \in Names :
              /\ [u EXCEPT !.name = n] \in User
              /\ [u EXCEPT !.name = n].email = u.email
              /\ [u EXCEPT !.name = n].createdAt = u.createdAt
         /\ [u EXCEPT !.active = FALSE] \in User
         /\ [u EXCEPT !.active = FALSE].email = u.email
         /\ [u EXCEPT !.active = FALSE].createdAt = u.createdAt
<1>1. u # None
  BY ConfigAssumption
<1> QED BY <1>1 DEF User

\* The row after an update is a user with the e-mail and creation time it had,
\* as long as the call did not mean to change the e-mail.
LEMMA UpdatedRowKeeps ==
  ASSUME NEW c \in Calls, draft[c] \in User, loaded[c] \in User,
         users[target[c]] \in User, loaded[c].email = draft[c].email
  PROVE  /\ UpdatedRow(c) \in User
         /\ UpdatedRow(c).email = users[target[c]].email
         /\ UpdatedRow(c).createdAt = users[target[c]].createdAt
<1> DEFINE n == IF draft[c].name # loaded[c].name THEN draft[c].name
                ELSE users[target[c]].name
           a == IF draft[c].active # loaded[c].active THEN draft[c].active
                ELSE users[target[c]].active
           e == users[target[c]].email
           t == users[target[c]].createdAt
<1>1. n \in Names /\ e \in Emails /\ t \in Nat
  BY DEF User
<1>2. a \in BOOLEAN
  <2>1. draft[c].active \in BOOLEAN /\ users[target[c]].active \in BOOLEAN
    BY DEF User
  <2> QED BY <2>1
<1>3. UpdatedRow(c)
        = [name |-> n, email |-> e, active |-> a, createdAt |-> t]
  BY Zenon DEF UpdatedRow
<1> HIDE DEF n, a, e, t
<1>4. [name |-> n, email |-> e, active |-> a, createdAt |-> t] \in User
  BY <1>1, <1>2, Zenon DEF User
<1>5. UpdatedRow(c).email = e /\ UpdatedRow(c).createdAt = t
  BY <1>3
<1> QED BY <1>3, <1>4, <1>5 DEF e, t

LEMMA UsersInvInit == Init => UsersInv
<1> SUFFICES ASSUME Init PROVE UsersInv
  OBVIOUS
<1>1. users \in [Ids -> User \cup {None}]
  BY ConfigAssumption DEF Init
<1>2. OneUserPerMailbox
  BY ConfigAssumption DEF Init, OneUserPerMailbox, Stored
<1> QED BY <1>1, <1>2
        DEF Init, UsersInv, TypeOK, CallKnows, InsertsApart,
            AnsweredIsStored, Answers

-----------------------------------------------------------------------------
\* What one call does leaves the others what they know, as long as no row
\* goes away or changes its e-mail or creation time, and no other call loses
\* the id it is about to insert.
LEMMA OthersKeep ==
  ASSUME UsersInv, NEW c \in Calls,
         \A i \in Stored :
           /\ i \in Stored'
           /\ users'[i].email = users[i].email
           /\ users'[i].createdAt = users[i].createdAt,
         \A d \in Calls \ {c} :
           /\ pc'[d] = pc[d] /\ target'[d] = target[d]
           /\ draft'[d] = draft[d] /\ loaded'[d] = loaded[d]
           /\ answer'[d] = answer[d]
           /\ pc[d] = "insert" => target[d] \notin Stored'
  PROVE  \A d \in Calls \ {c} :
           /\ CallKnows(d)'
           /\ answer'[d] = "ok" /\ target'[d] # None =>
                /\ target'[d] \in Stored'
                /\ users'[target'[d]].email = draft'[d].email
                /\ users'[target'[d]].createdAt = draft'[d].createdAt
<1> TAKE d \in Calls \ {c}
<1>1. CallKnows(d)
  BY DEF UsersInv
<1>2. CallKnows(d)'
  BY <1>1 DEF CallKnows
<1>3. /\ answer[d] = "ok" /\ target[d] # None =>
           /\ target[d] \in Stored
           /\ users[target[d]].email = draft[d].email
           /\ users[target[d]].createdAt = draft[d].createdAt
  BY DEF UsersInv, AnsweredIsStored
<1> QED BY <1>2, <1>3

\* A step that leaves the table alone keeps the invariant, if the call that
\* takes it knows what it needs to, and inserts an id of its own.
LEMMA InvKeepsTable ==
  ASSUME UsersInv, TypeOK', UNCHANGED users, NEW c \in Calls,
         \A d \in Calls \ {c} :
           /\ pc'[d] = pc[d] /\ target'[d] = target[d]
           /\ draft'[d] = draft[d] /\ loaded'[d] = loaded[d]
           /\ answer'[d] = answer[d],
         CallKnows(c)',
         pc'[c] = "insert" => \A d \in Calls \ {c} : target[d] # target'[c],
         answer'[c] = "ok" => target'[c] = None
  PROVE  UsersInv'
<1>1. Stored' = Stored /\ OneUserPerMailbox'
  BY DEF UsersInv, OneUserPerMailbox, Stored
<1>2. \A d \in Calls \ {c} : pc[d] = "insert" => target[d] \notin Stored
  BY DEF UsersInv, CallKnows
<1>3. \A d \in Calls : CallKnows(d)'
  BY <1>1, <1>2, OthersKeep
<1>4. AnsweredIsStored'
  BY <1>1, <1>2, OthersKeep DEF AnsweredIsStored
<1>5. InsertsApart'
  BY DEF UsersInv, InsertsApart
<1> QED BY <1>1, <1>3, <1>4, <1>5 DEF UsersInv

\* A call that writes the row of its user, whose e-mail nobody else has, and
\* then ends, keeps the invariant.
LEMMA InvWritesRow ==
  ASSUME UsersInv, TypeOK', NEW c \in Calls,
         pc[c] \in {"insert", "commit"}, pc'[c] = "done",
         UNCHANGED <<target, draft, loaded>>,
         \A d \in Calls \ {c} : pc'[d] = pc[d] /\ answer'[d] = answer[d],
         NEW row \in User,
         users' = [users EXCEPT ![target[c]] = row],
         row.email = draft[c].email, row.createdAt = draft[c].createdAt,
         \A i \in Stored : users[i].email = row.email => i = target[c]
  PROVE  UsersInv'
<1>1. /\ target[c] \in Ids /\ target[c] # None /\ draft[c] # None
      /\ users \in [Ids -> User \cup {None}]
  <2>1. CallKnows(c) /\ None \notin Ids
    BY ConfigAssumption DEF UsersInv
  <2>2. target[c] \in Ids \cup {None} /\ users \in [Ids -> User \cup {None}]
    BY DEF UsersInv, TypeOK
  <2> QED BY <2>1, <2>2 DEF CallKnows, Stored
<1>2. row # None
  BY ConfigAssumption
<1>3. Stored' = Stored \cup {target[c]}
  BY <1>1, <1>2 DEF Stored
<1>4. /\ users'[target[c]] = row
      /\ \A i \in Stored \ {target[c]} : users'[i] = users[i]
  BY <1>1 DEF Stored
<1>5. \A i \in Stored :
        /\ i \in Stored'
        /\ users'[i].email = users[i].email
        /\ users'[i].createdAt = users[i].createdAt
  <2>1. pc[c] = "insert" => target[c] \notin Stored
    BY DEF UsersInv, CallKnows
  <2>2. pc[c] = "commit" =>
          /\ users[target[c]].email = draft[c].email
          /\ users[target[c]].createdAt = draft[c].createdAt
    BY DEF UsersInv, CallKnows
  <2> QED BY <1>3, <1>4, <2>1, <2>2
<1>6. \A d \in Calls \ {c} : pc[d] = "insert" => target[d] \notin Stored'
  <2> TAKE d \in Calls \ {c}
  <2>1. pc[d] = "insert" => target[d] \notin Stored
    BY DEF UsersInv, CallKnows
  <2>2. pc[d] = "insert" => target[d] # target[c]
    <3>1. CASE pc[c] = "insert"
      BY <3>1 DEF UsersInv, InsertsApart
    <3>2. CASE pc[c] = "commit"
      BY <2>1, <3>2 DEF UsersInv, CallKnows
    <3> QED BY <3>1, <3>2
  <2> QED BY <1>3, <2>1, <2>2
<1>7. CallKnows(c)'
  BY <1>1 DEF CallKnows
<1>8. \A d \in Calls : CallKnows(d)'
  BY <1>5, <1>6, <1>7, OthersKeep
<1>9. AnsweredIsStored'
  <2>1. /\ target'[c] \in Stored'
        /\ users'[target'[c]].email = draft'[c].email
        /\ users'[target'[c]].createdAt = draft'[c].createdAt
    BY <1>3, <1>4
  <2> QED BY <1>5, <1>6, <2>1, OthersKeep DEF AnsweredIsStored
<1>10. InsertsApart'
  BY DEF UsersInv, InsertsApart
<1>11. OneUserPerMailbox'
  <2> SUFFICES ASSUME NEW i \in Stored', NEW j \in Stored',
                      users'[i].email = users'[j].email
               PROVE  i = j
    BY DEF OneUserPerMailbox
  <2>1. i # target[c] /\ j # target[c] => i = j
    BY <1>3, <1>4 DEF UsersInv, OneUserPerMailbox
  <2> QED BY <1>3, <1>4, <2>1
<1> QED BY <1>8, <1>9, <1>10, <1>11 DEF UsersInv

-----------------------------------------------------------------------------
(* The steps. *)

LEMMA TypeOKNext == UsersInv /\ [Next]_vars => TypeOK'
<1> SUFFICES ASSUME UsersInv, [Next]_vars PROVE TypeOK'
  OBVIOUS
<1> USE DEF TypeOK, Answers
<1>0. TypeOK /\ \A c \in Calls : CallKnows(c)
  BY DEF UsersInv
<1>1. ASSUME NEW c \in Calls, NEW a \in Addresses, NEW n \in Names \cup {Blank},
             Create(c, a, n)
      PROVE  TypeOK'
  <2>1. PICK i \in FreeIds, now \in {clock, clock + 1} :
          /\ clock' = now
          /\ target' = [target EXCEPT ![c] = i]
          /\ draft' = [draft EXCEPT ![c] =
               [name |-> n, email |-> Normalized[a], active |-> TRUE,
                createdAt |-> now]]
    BY <1>1 DEF Create
  <2>2. i \in Ids /\ now \in Nat
    BY <1>0, <2>1 DEF FreeIds
  <2>3. n \in Names /\ Normalized[a] \in Emails
    BY <1>1 DEF Create, Emails
  <2>4. [name |-> n, email |-> Normalized[a], active |-> TRUE,
         createdAt |-> now] \in User
    BY <2>2, <2>3 DEF User
  <2>5. draft' \in [Calls -> User \cup {None}]
    BY <1>0, <2>1, <2>4
  <2>6. /\ operation' \in [Calls -> {"none"} \cup Operations]
        /\ pc' \in [Calls -> {"idle", "insert", "reload", "commit", "list",
                              "done"}]
    BY <1>0, <1>1 DEF Create, Begins, Runs, Goto
  <2> QED BY <1>0, <1>1, <2>1, <2>2, <2>5, <2>6 DEF Create, Goto
<1>2. ASSUME NEW c \in Calls, NEW a \in Addresses, NEW n \in Names \cup {Blank},
             CreateRefused(c, a, n)
      PROVE  TypeOK'
  BY <1>0, <1>2 DEF CreateRefused, Answer, Unmoved
<1>3. ASSUME NEW c \in Calls, Insert(c) PROVE TypeOK'
  <2>1. target[c] \in Ids /\ draft[c] \in User
    BY <1>0, <1>3 DEF Insert, CallKnows
  <2> QED BY <1>0, <1>3, <2>1 DEF Insert, InsertRow, Known, Answer
<1>4. ASSUME NEW c \in Calls, InsertRefused(c) PROVE TypeOK'
  BY <1>0, <1>4 DEF InsertRefused, Answer, Unmoved
<1>5. ASSUME NEW c \in Calls, InsertRaises(c) PROVE TypeOK'
  <2>1. target[c] \in Ids /\ draft[c] \in User
    BY <1>0, <1>5 DEF InsertRaises, CallKnows
  <2> QED BY <1>0, <1>5, <2>1 DEF InsertRaises, InsertRow, Answer
<1>6. ASSUME NEW c \in Calls, NEW i \in Ids, NEW n \in Names \cup {Blank},
             Rename(c, i, n)
      PROVE  TypeOK'
  <2>1. users[i] \in User /\ n \in Names
    BY <1>0, <1>6 DEF Rename
  <2>2. draft' \in [Calls -> User \cup {None}]
    BY <1>0, <1>6, <2>1, UserEdits DEF Rename
  <2>3. /\ alone' \in [Calls -> BOOLEAN]
        /\ target' \in [Calls -> Ids \cup {None}]
    BY <1>0, <1>6, Zenon DEF Rename, Claim
  <2>4. operation' \in [Calls -> {"none"} \cup Operations]
    BY <1>0, <1>6 DEF Rename, Begins, Runs
  <2> QED BY <1>0, <1>6, <2>2, <2>3, <2>4 DEF Rename, Goto
<1>7. ASSUME NEW c \in Calls, NEW i \in Ids, NEW n \in Names \cup {Blank},
             UpdateRefused(c, i, n)
      PROVE  TypeOK'
  BY <1>0, <1>7 DEF UpdateRefused, Answer, Unmoved
<1>8. ASSUME NEW c \in Calls, NEW i \in Ids, Deactivate(c, i)
      PROVE  TypeOK'
  <2>1. users[i] \in User
    BY <1>0, <1>8 DEF Deactivate
  <2>2. draft' \in [Calls -> User \cup {None}]
    BY <1>0, <1>8, <2>1, UserEdits DEF Deactivate
  <2>3. /\ alone' \in [Calls -> BOOLEAN]
        /\ target' \in [Calls -> Ids \cup {None}]
    BY <1>0, <1>8, Zenon DEF Deactivate, Claim
  <2>4. operation' \in [Calls -> {"none"} \cup Operations]
    BY <1>0, <1>8 DEF Deactivate, Begins, Runs
  <2> QED BY <1>0, <1>8, <2>2, <2>3, <2>4 DEF Deactivate, Goto
<1>9. ASSUME NEW c \in Calls, Reload(c) PROVE TypeOK'
  <2>1. users[target[c]] \in User \cup {None}
    BY <1>0, <1>9 DEF Reload, CallKnows, Stored
  <2> QED BY <1>0, <1>9, <2>1 DEF Reload, Goto
<1>10. ASSUME NEW c \in Calls, Commit(c) \/ CommitRaises(c) PROVE TypeOK'
  <2>1. /\ target[c] \in Ids /\ users[target[c]] \in User
        /\ draft[c] \in User /\ loaded[c] \in User
        /\ loaded[c].email = draft[c].email
    <3>1. pc[c] = "commit" /\ CallKnows(c) /\ None \notin Ids
      BY <1>0, <1>10, ConfigAssumption DEF Commit, CommitRaises
    <3> QED BY <1>0, <3>1 DEF CallKnows, Stored
  <2>2. UpdatedRow(c) \in User
    BY <2>1, UpdatedRowKeeps
  <2>3. users' \in [Ids -> User \cup {None}]
    BY <1>0, <1>10, <2>1, <2>2 DEF Commit, CommitRaises, UpdateRow
  <2>4. expected' \in [Ids -> User \cup {None}]
    BY <1>0, <1>10, <2>1 DEF Commit, CommitRaises, Known
  <2> QED BY <1>0, <1>10, <2>3, <2>4 DEF Commit, CommitRaises, Answer
<1>11. ASSUME NEW c \in Calls, ReadRaises(c) PROVE TypeOK'
  BY <1>0, <1>11 DEF ReadRaises, Answer, Unmoved
<1>12. ASSUME NEW c \in Calls, ListPage(c) PROVE TypeOK'
  <2>1. listing[c].offset + Limit \in Nat
    BY <1>0, ConfigAssumption
  <2>2. Page(listing[c].offset) \subseteq Ids /\ Stored \subseteq Ids
    BY DEF Page, Stored
  <2>3. listing' \in [Calls ->
          [offset : Nat, got : SUBSET Ids, present : SUBSET Ids]]
    BY <1>0, <1>12, <2>1, <2>2 DEF ListPage
  <2>4. operation' \in [Calls -> {"none"} \cup Operations]
    BY <1>0, <1>12 DEF ListPage, Begins, Runs, CallKnows
  <2> QED BY <1>0, <1>12, <2>3, <2>4 DEF ListPage, Answer, Goto
<1>13. CASE UNCHANGED vars
  BY <1>0, <1>13 DEF vars
<1> QED
  BY <1>1, <1>2, <1>3, <1>4, <1>5, <1>6, <1>7, <1>8, <1>9, <1>10, <1>11,
     <1>12, <1>13 DEF Next, Step, AllDone

\* A step that ends the call without touching the table, the targets or the
\* drafts, and without success.
LEMMA InvFails ==
  ASSUME UsersInv, TypeOK', NEW c \in Calls,
         UNCHANGED <<users, target, draft, loaded>>,
         NEW a \in Answers \ {"ok"}, Answer(c, a)
  PROVE  UsersInv'
<1>1. /\ pc'[c] = "done" /\ answer'[c] = a
      /\ \A d \in Calls \ {c} : pc'[d] = pc[d] /\ answer'[d] = answer[d]
  BY DEF Answer, UsersInv, TypeOK
<1>2. CallKnows(c)'
  BY <1>1 DEF UsersInv, CallKnows
<1> QED BY <1>1, <1>2, InvKeepsTable

\* A call that inserts the row it prepared, if nobody has the e-mail.
LEMMA InvInserts ==
  ASSUME UsersInv, TypeOK', NEW c \in Calls, pc[c] = "insert",
         ~EmailTaken(draft[c].email), InsertRow(c),
         NEW a \in Answers, Answer(c, a),
         UNCHANGED <<target, draft, loaded>>
  PROVE  UsersInv'
<1>1. draft[c] \in User
  BY DEF UsersInv, TypeOK, CallKnows
<1>2. /\ pc'[c] = "done"
      /\ \A d \in Calls \ {c} : pc'[d] = pc[d] /\ answer'[d] = answer[d]
  BY DEF Answer, UsersInv, TypeOK
<1>3. \A i \in Stored : users[i].email # draft[c].email
  BY DEF EmailTaken
<1> QED BY <1>1, <1>2, <1>3, InvWritesRow DEF InsertRow

\* A call that updates the row of its user.
LEMMA InvUpdates ==
  ASSUME UsersInv, TypeOK', NEW c \in Calls, pc[c] = "commit", UpdateRow(c),
         NEW a \in Answers, Answer(c, a),
         UNCHANGED <<target, draft, loaded>>
  PROVE  UsersInv'
<1>1. /\ target[c] \in Stored
      /\ users[target[c]] \in User /\ draft[c] \in User /\ loaded[c] \in User
      /\ loaded[c].email = draft[c].email
      /\ users[target[c]].email = draft[c].email
      /\ users[target[c]].createdAt = draft[c].createdAt
  <2>1. CallKnows(c) /\ None \notin Ids
    BY ConfigAssumption DEF UsersInv
  <2> QED BY <2>1 DEF CallKnows, Stored, UsersInv, TypeOK
<1>2. /\ UpdatedRow(c) \in User
      /\ UpdatedRow(c).email = draft[c].email
      /\ UpdatedRow(c).createdAt = draft[c].createdAt
  BY <1>1, UpdatedRowKeeps
<1>3. \A i \in Stored : users[i].email = UpdatedRow(c).email => i = target[c]
  BY <1>1, <1>2 DEF UsersInv, OneUserPerMailbox
<1>4. /\ pc'[c] = "done"
      /\ \A d \in Calls \ {c} : pc'[d] = pc[d] /\ answer'[d] = answer[d]
  BY DEF Answer, UsersInv, TypeOK
<1> QED BY <1>2, <1>3, <1>4, InvWritesRow DEF UpdateRow

\* A call that read a user and prepared an update of it.
LEMMA InvClaims ==
  ASSUME UsersInv, TypeOK', NEW c \in Calls, NEW i \in Stored, NEW u \in User,
         pc[c] = "idle",
         u.email = users[i].email, u.createdAt = users[i].createdAt,
         draft' = [draft EXCEPT ![c] = u],
         target' = [target EXCEPT ![c] = i],
         Goto(c, "reload"), UNCHANGED <<users, loaded>>
  PROVE  UsersInv'
<1>1. /\ pc'[c] = "reload" /\ target'[c] = i /\ draft'[c] = u
      /\ answer'[c] = "none" /\ u # None
      /\ \A d \in Calls \ {c} :
           /\ pc'[d] = pc[d] /\ target'[d] = target[d]
           /\ draft'[d] = draft[d] /\ loaded'[d] = loaded[d]
           /\ answer'[d] = answer[d]
  BY UserEdits DEF Goto, UsersInv, TypeOK, CallKnows
<1>2. CallKnows(c)'
  BY <1>1 DEF CallKnows, Stored
<1> QED BY <1>1, <1>2, InvKeepsTable

LEMMA UsersInvNext == UsersInv /\ [Next]_vars => UsersInv'
<1> SUFFICES ASSUME UsersInv, [Next]_vars PROVE UsersInv'
  OBVIOUS
<1>t. TypeOK'
  BY TypeOKNext
<1>0. TypeOK /\ (\A c \in Calls : CallKnows(c)) /\ None \notin Ids
  BY ConfigAssumption DEF UsersInv
<1>1. ASSUME NEW c \in Calls, NEW a \in Addresses, NEW n \in Names \cup {Blank},
             Create(c, a, n)
      PROVE  UsersInv'
  <2>1. PICK i \in FreeIds :
          target' = [target EXCEPT ![c] = i]
    BY <1>1 DEF Create
  <2>2. /\ pc[c] = "idle" /\ pc' = [pc EXCEPT ![c] = "insert"]
        /\ UNCHANGED <<users, loaded, answer>>
        /\ \A d \in Calls \ {c} : draft'[d] = draft[d]
    BY <1>0, <1>1 DEF Create, Begins, Goto, TypeOK
  <2>3. i \in Ids /\ i \notin Stored /\ \A d \in Calls : target[d] # i
    BY DEF FreeIds
  <2>4. /\ pc'[c] = "insert" /\ target'[c] = i
        /\ \A d \in Calls \ {c} : pc'[d] = pc[d] /\ target'[d] = target[d]
    BY <1>0, <2>1, <2>2 DEF TypeOK
  <2>5. draft'[c] # None
    <3>1. PICK now \in {clock, clock + 1} :
            /\ clock' = now
            /\ draft'[c] = [name |-> n, email |-> Normalized[a],
                            active |-> TRUE, createdAt |-> now]
      BY <1>0, <1>1 DEF Create, TypeOK
    <3>2. draft'[c] \in User
      <4>1. n \in Names /\ Normalized[a] \in Emails /\ now \in Nat
        BY <1>t, <1>1, <3>1 DEF Create, Emails, TypeOK
      <4> QED BY <3>1, <4>1 DEF User
    <3> QED BY <3>2, ConfigAssumption
  <2>6. CallKnows(c)'
    BY <1>0, <2>2, <2>3, <2>4, <2>5 DEF CallKnows, Stored
  <2>7. answer'[c] = "none"
    BY <1>0, <2>2 DEF CallKnows
  <2> QED BY <1>t, <2>2, <2>3, <2>4, <2>6, <2>7, InvKeepsTable
<1>2. ASSUME NEW c \in Calls, NEW a \in Addresses, NEW n \in Names \cup {Blank},
             CreateRefused(c, a, n)
      PROVE  UsersInv'
  BY <1>t, <1>2, InvFails DEF CreateRefused, Unmoved, Answers
<1>3. ASSUME NEW c \in Calls, Insert(c) PROVE UsersInv'
  BY <1>t, <1>3, InvInserts DEF Insert, Answers
<1>4. ASSUME NEW c \in Calls, InsertRefused(c) PROVE UsersInv'
  BY <1>t, <1>4, InvFails DEF InsertRefused, Unmoved, Answers
<1>5. ASSUME NEW c \in Calls, InsertRaises(c) PROVE UsersInv'
  <2>1. CASE UNCHANGED users
    BY <1>t, <1>5, <2>1, InvFails DEF InsertRaises, Answers
  <2>2. CASE ~EmailTaken(draft[c].email) /\ InsertRow(c)
    BY <1>t, <1>5, <2>2, InvInserts DEF InsertRaises, Answers
  <2> QED BY <1>5, <2>1, <2>2 DEF InsertRaises
<1>6. ASSUME NEW c \in Calls, NEW i \in Ids, NEW n \in Names \cup {Blank},
             Rename(c, i, n)
      PROVE  UsersInv'
  <2>1. i \in Stored /\ users[i] \in User /\ n \in Names
    BY <1>0, <1>6 DEF Rename, Stored, TypeOK
  <2> DEFINE u == [users[i] EXCEPT !.name = n]
  <2>2. /\ u \in User /\ u.email = users[i].email
        /\ u.createdAt = users[i].createdAt
    BY <2>1, UserEdits
  <2>3. /\ pc[c] = "idle" /\ draft' = [draft EXCEPT ![c] = u]
        /\ target' = [target EXCEPT ![c] = i]
        /\ Goto(c, "reload") /\ UNCHANGED <<users, loaded>>
    BY <1>6 DEF Rename, Begins, Claim
  <2> HIDE DEF u
  <2> QED BY <1>t, <2>1, <2>2, <2>3, InvClaims
<1>7. ASSUME NEW c \in Calls, NEW i \in Ids, NEW n \in Names \cup {Blank},
             UpdateRefused(c, i, n)
      PROVE  UsersInv'
  BY <1>t, <1>7, InvFails DEF UpdateRefused, Unmoved, Answers
<1>8. ASSUME NEW c \in Calls, NEW i \in Ids, Deactivate(c, i)
      PROVE  UsersInv'
  <2>1. i \in Stored /\ users[i] \in User
    BY <1>0, <1>8 DEF Deactivate, Stored, TypeOK
  <2> DEFINE u == [users[i] EXCEPT !.active = FALSE]
  <2>2. /\ u \in User /\ u.email = users[i].email
        /\ u.createdAt = users[i].createdAt
    BY <2>1, UserEdits
  <2>3. /\ pc[c] = "idle" /\ draft' = [draft EXCEPT ![c] = u]
        /\ target' = [target EXCEPT ![c] = i]
        /\ Goto(c, "reload") /\ UNCHANGED <<users, loaded>>
    BY <1>8 DEF Deactivate, Begins, Claim
  <2> HIDE DEF u
  <2> QED BY <1>t, <2>1, <2>2, <2>3, InvClaims
<1>9. ASSUME NEW c \in Calls, Reload(c) PROVE UsersInv'
  <2>1. /\ pc[c] = "reload" /\ pc'[c] = "commit"
        /\ loaded'[c] = users[target[c]]
        /\ UNCHANGED <<users, target, draft, answer>>
        /\ \A d \in Calls \ {c} : pc'[d] = pc[d] /\ loaded'[d] = loaded[d]
    BY <1>0, <1>9 DEF Reload, Goto, TypeOK
  <2>2. CallKnows(c)'
    BY <1>0, <2>1 DEF CallKnows, Stored
  <2>3. answer'[c] = "none"
    BY <1>0, <2>1 DEF CallKnows
  <2> QED BY <1>t, <2>1, <2>2, <2>3, InvKeepsTable
<1>10. ASSUME NEW c \in Calls, Commit(c) PROVE UsersInv'
  BY <1>t, <1>10, InvUpdates DEF Commit, Answers
<1>11. ASSUME NEW c \in Calls, CommitRaises(c) PROVE UsersInv'
  <2>1. CASE UNCHANGED users
    BY <1>t, <1>11, <2>1, InvFails DEF CommitRaises, Answers
  <2>2. CASE UpdateRow(c)
    BY <1>t, <1>11, <2>2, InvUpdates DEF CommitRaises, Answers
  <2> QED BY <1>11, <2>1, <2>2 DEF CommitRaises
<1>12. ASSUME NEW c \in Calls, ReadRaises(c) PROVE UsersInv'
  BY <1>t, <1>12, InvFails DEF ReadRaises, Unmoved, Answers
<1>13. ASSUME NEW c \in Calls, ListPage(c) PROVE UsersInv'
  <2>1. /\ UNCHANGED <<users, target, draft, loaded>>
        /\ pc'[c] \in {"list", "done"} /\ pc[c] \in {"idle", "list"}
        /\ pc'[c] # "done" => answer'[c] = "none"
        /\ "list" \in Operations
        /\ \A d \in Calls \ {c} : pc'[d] = pc[d] /\ answer'[d] = answer[d]
    BY <1>0, <1>13 DEF ListPage, Begins, Goto, Answer, TypeOK, CallKnows
  <2>2. target[c] = None
    BY <1>0, <2>1 DEF CallKnows
  <2>3. CallKnows(c)'
    BY <1>0, <2>1 DEF CallKnows
  <2> QED BY <1>t, <2>1, <2>2, <2>3, InvKeepsTable
<1>14. CASE UNCHANGED vars
  BY <1>14 DEF vars, UsersInv, TypeOK, CallKnows, InsertsApart,
               AnsweredIsStored, OneUserPerMailbox, Stored
<1> QED
  BY <1>1, <1>2, <1>3, <1>4, <1>5, <1>6, <1>7, <1>8, <1>9, <1>10, <1>11,
     <1>12, <1>13, <1>14 DEF Next, Step, AllDone

LEMMA UsersInvariant == Spec => []UsersInv
BY UsersInvInit, UsersInvNext, PTL DEF Spec

\* Every variable of the user use cases keeps its type, whoever calls them.
THEOREM UsersTypeCorrect == Spec => []TypeOK
<1>1. UsersInv => TypeOK
  BY DEF UsersInv
<1> QED BY <1>1, UsersInvariant, PTL

\* However the creations, renames, deactivations and failures of any number of
\* callers interleave, a mailbox has one user: the lookup of create_user.py is
\* not enough, and the unique constraint of the column is.
THEOREM UniqueMailbox == Spec => []OneUserPerMailbox
<1>1. UsersInv => OneUserPerMailbox
  BY DEF UsersInv
<1> QED BY <1>1, UsersInvariant, PTL

\* A caller that was told a user exists was told the e-mail and the creation
\* time of a stored row, whatever happened to the user since.
THEOREM AnsweredStored == Spec => []AnsweredIsStored
<1>1. UsersInv => AnsweredIsStored
  BY DEF UsersInv
<1> QED BY <1>1, UsersInvariant, PTL

-----------------------------------------------------------------------------
(* What an answer says of the row. *)

\* Two calls whose updates of a user overlap are neither of them alone, and a
\* call that is alone still has the row in its memory.
Overlapping ==
  \A c, d \in Calls, i \in Ids :
    Updating(c, i) /\ Updating(d, i) /\ alone[c] => c = d

LoadedIsTheRow ==
  \A c \in Calls :
    pc[c] = "commit" /\ alone[c] => loaded[c] = users[target[c]]

RowKnown == AnswerIsTheRow /\ Overlapping /\ LoadedIsTheRow

\* A step after which a call updates nobody, and that leaves the table alone.
LEMMA RowKnownKeeps ==
  ASSUME RowKnown, NEW c \in Calls,
         UNCHANGED <<users, loaded, alone>>,
         pc'[c] \notin {"reload", "commit"},
         \A d \in Calls \ {c} : pc'[d] = pc[d] /\ target'[d] = target[d],
         \A i \in Ids : expected'[i] \in {expected[i], None}
  PROVE  RowKnown'
<1>1. AnswerIsTheRow'
  BY DEF RowKnown, AnswerIsTheRow
<1>2. Overlapping' /\ LoadedIsTheRow'
  BY DEF RowKnown, Overlapping, LoadedIsTheRow, Updating
<1> QED BY <1>1, <1>2 DEF RowKnown

\* A step that writes the row of the user of a call that is done with it, and
\* promises that row or nothing.
LEMMA RowKnownWrites ==
  ASSUME UsersInv, RowKnown, NEW c \in Calls, pc'[c] = "done",
         NEW row, users' = [users EXCEPT ![target[c]] = row],
         UNCHANGED <<target, loaded, alone>>,
         \A d \in Calls \ {c} :
           /\ pc'[d] = pc[d]
           /\ pc[d] = "commit" /\ alone[d] => target[d] # target[c],
         \A i \in Ids \ {target[c]} : expected'[i] = expected[i],
         target[c] \in Ids => expected'[target[c]] \in {row, None}
  PROVE  RowKnown'
<1>1. /\ target[c] \in Ids => users'[target[c]] = row
      /\ \A i \in Ids \ {target[c]} : users'[i] = users[i]
  BY DEF UsersInv, TypeOK
<1>2. AnswerIsTheRow'
  BY <1>1 DEF RowKnown, AnswerIsTheRow
<1>3. Overlapping'
  BY DEF RowKnown, Overlapping, Updating
<1>4. LoadedIsTheRow'
  <2> SUFFICES ASSUME NEW d \in Calls, pc'[d] = "commit", alone'[d]
               PROVE  loaded'[d] = users'[target'[d]]
    BY DEF LoadedIsTheRow
  <2>1. d # c /\ pc[d] = "commit" /\ target[d] # target[c]
    OBVIOUS
  <2>2. target[d] \in Ids
    BY <2>1 DEF UsersInv, CallKnows, Stored
  <2> QED BY <1>1, <2>1, <2>2 DEF RowKnown, LoadedIsTheRow
<1> QED BY <1>2, <1>3, <1>4 DEF RowKnown

\* A call that begins an update sees, and is seen by, those that overlap it.
LEMMA RowKnownClaims ==
  ASSUME UsersInv, RowKnown, NEW c \in Calls, NEW i \in Ids, pc[c] = "idle",
         Claim(c, i), Goto(c, "reload"), UNCHANGED <<users, loaded, expected>>
  PROVE  RowKnown'
<1>1. /\ pc'[c] = "reload" /\ target'[c] = i
      /\ \A d \in Calls \ {c} : pc'[d] = pc[d] /\ target'[d] = target[d]
      /\ alone'[c] = \A o \in Calls : ~Updating(o, i)
      /\ \A d \in Calls \ {c} : alone'[d] = (alone[d] /\ ~Updating(d, i))
  BY Zenon DEF Claim, Goto, UsersInv, TypeOK
<1>2. AnswerIsTheRow'
  BY DEF RowKnown, AnswerIsTheRow
<1>3. Overlapping'
  <2> SUFFICES ASSUME NEW d \in Calls, NEW e \in Calls, NEW j \in Ids,
                      Updating(d, j)', Updating(e, j)', alone'[d], d # e
               PROVE  FALSE
    BY DEF Overlapping
  <2>1. CASE d = c
    <3>1. e # c /\ j = i /\ Updating(e, i)
      BY <1>1, <2>1 DEF Updating
    <3> QED BY <1>1, <2>1, <3>1
  <2>2. CASE e = c
    <3>1. d # c /\ j = i /\ Updating(d, i)
      BY <1>1, <2>2 DEF Updating
    <3> QED BY <1>1, <3>1
  <2>3. CASE d # c /\ e # c
    <3>1. Updating(d, j) /\ Updating(e, j) /\ alone[d]
      BY <1>1, <2>3 DEF Updating
    <3> QED BY <3>1 DEF RowKnown, Overlapping
  <2> QED BY <2>1, <2>2, <2>3
<1>4. LoadedIsTheRow'
  BY <1>1 DEF RowKnown, LoadedIsTheRow
<1> QED BY <1>2, <1>3, <1>4 DEF RowKnown

\* What a call in the middle of an update, or of an insert, knows.
LEMMA CommitKnows ==
  ASSUME UsersInv, NEW c \in Calls, pc[c] = "commit"
  PROVE  /\ target[c] \in Ids /\ users[target[c]] \in User
         /\ draft[c] \in User /\ loaded[c] \in User
         /\ loaded[c].email = draft[c].email
         /\ users[target[c]].createdAt = draft[c].createdAt
<1>1. CallKnows(c) /\ None \notin Ids
  BY ConfigAssumption DEF UsersInv
<1> QED BY <1>1 DEF CallKnows, Stored, UsersInv, TypeOK

LEMMA InsertKnows ==
  ASSUME UsersInv, NEW c \in Calls, pc[c] = "insert"
  PROVE  target[c] \in Ids /\ target[c] \notin Stored /\ draft[c] \in User
<1>1. CallKnows(c) /\ None \notin Ids
  BY ConfigAssumption DEF UsersInv
<1> QED BY <1>1 DEF CallKnows, UsersInv, TypeOK

\* An update that was alone writes what it answers.
LEMMA AloneWritesDraft ==
  ASSUME UsersInv, RowKnown, NEW c \in Calls, pc[c] = "commit", alone[c]
  PROVE  UpdatedRow(c) = draft[c]
<1> DEFINE mine == draft[c]
           base == loaded[c]
           row == users[target[c]]
<1>1. /\ mine \in User /\ base \in User /\ row = base
      /\ row.createdAt = mine.createdAt
  BY CommitKnows DEF RowKnown, LoadedIsTheRow
<1>2. UpdatedRow(c) =
        [ name      |-> IF mine.name # base.name THEN mine.name ELSE row.name,
          email     |-> IF mine.email # base.email THEN mine.email
                        ELSE row.email,
          active    |-> IF mine.active # base.active THEN mine.active
                        ELSE row.active,
          createdAt |-> row.createdAt ]
  BY Zenon DEF UpdatedRow
<1> HIDE DEF mine, base, row
<1>3. mine = [ name |-> mine.name, email |-> mine.email,
               active |-> mine.active, createdAt |-> mine.createdAt ]
  BY <1>1 DEF User
<1> QED BY <1>1, <1>2, <1>3, Zenon DEF mine

\* No update that is alone waits to commit the user another call writes.
LEMMA WriterIsApart ==
  ASSUME UsersInv, RowKnown, NEW c \in Calls, pc[c] \in {"insert", "commit"},
         NEW d \in Calls \ {c}, pc[d] = "commit", alone[d]
  PROVE  target[d] # target[c]
<1>1. target[d] \in Stored /\ target[d] \in Ids
  BY DEF UsersInv, CallKnows, Stored
<1>2. CASE pc[c] = "insert"
  BY <1>1, <1>2, InsertKnows
<1>3. CASE pc[c] = "commit"
  BY <1>1, <1>3 DEF RowKnown, Overlapping, Updating
<1> QED BY <1>2, <1>3

LEMMA RowKnownNext == UsersInv /\ RowKnown /\ [Next]_vars => RowKnown'
<1> SUFFICES ASSUME UsersInv, RowKnown, [Next]_vars PROVE RowKnown'
  OBVIOUS
<1>0. TypeOK
  BY DEF UsersInv
<1>1. ASSUME NEW c \in Calls, NEW a \in Addresses, NEW n \in Names \cup {Blank},
             Create(c, a, n) \/ CreateRefused(c, a, n)
      PROVE  RowKnown'
  <2>1. /\ UNCHANGED <<users, loaded, alone, expected>>
        /\ pc'[c] \in {"insert", "done"}
        /\ \A d \in Calls \ {c} : pc'[d] = pc[d] /\ target'[d] = target[d]
    BY <1>0, <1>1
       DEF Create, CreateRefused, Goto, Answer, Unmoved, TypeOK
  <2> QED BY <2>1, RowKnownKeeps
<1>2. ASSUME NEW c \in Calls, Insert(c) PROVE RowKnown'
  <2>1. /\ pc[c] = "insert" /\ pc'[c] = "done"
        /\ \A d \in Calls \ {c} : pc'[d] = pc[d]
        /\ users' = [users EXCEPT ![target[c]] = draft[c]]
        /\ expected' = [expected EXCEPT ![target[c]] = draft[c]]
        /\ UNCHANGED <<target, loaded, alone>>
    BY <1>0, <1>2 DEF Insert, InsertRow, Known, Answer, TypeOK
  <2> QED BY <1>0, <2>1, WriterIsApart, RowKnownWrites DEF TypeOK
<1>3. ASSUME NEW c \in Calls, InsertRefused(c) \/ ReadRaises(c)
      PROVE  RowKnown'
  BY <1>0, <1>3, RowKnownKeeps
     DEF InsertRefused, ReadRaises, Unmoved, Answer, TypeOK
<1>4. ASSUME NEW c \in Calls, InsertRaises(c) PROVE RowKnown'
  <2>1. /\ pc[c] = "insert" /\ pc'[c] = "done"
        /\ \A d \in Calls \ {c} : pc'[d] = pc[d]
        /\ UNCHANGED <<target, loaded, alone, expected>>
    BY <1>0, <1>4 DEF InsertRaises, Answer, TypeOK
  <2>2. CASE UNCHANGED users
    BY <2>1, <2>2, RowKnownKeeps
  <2>3. CASE InsertRow(c)
    <3>1. expected[target[c]] = None
      BY <2>1, InsertKnows DEF RowKnown, AnswerIsTheRow, Stored
    <3>2. \A d \in Calls \ {c} :
            pc[d] = "commit" /\ alone[d] => target[d] # target[c]
      BY <2>1, WriterIsApart
    <3>3. users' = [users EXCEPT ![target[c]] = draft[c]]
      BY <2>3 DEF InsertRow
    <3> QED BY <2>1, <3>1, <3>2, <3>3, RowKnownWrites
  <2> QED BY <1>4, <2>2, <2>3 DEF InsertRaises
<1>5. ASSUME NEW c \in Calls, NEW i \in Ids, NEW n \in Names \cup {Blank},
             Rename(c, i, n) \/ Deactivate(c, i)
      PROVE  RowKnown'
  BY <1>5, RowKnownClaims DEF Rename, Deactivate, Begins
<1>6. ASSUME NEW c \in Calls, NEW i \in Ids, NEW n \in Names \cup {Blank},
             UpdateRefused(c, i, n)
      PROVE  RowKnown'
  BY <1>0, <1>6, RowKnownKeeps DEF UpdateRefused, Unmoved, Answer, TypeOK
<1>7. ASSUME NEW c \in Calls, Reload(c) PROVE RowKnown'
  <2>1. /\ pc[c] = "reload" /\ pc'[c] = "commit"
        /\ loaded'[c] = users[target[c]]
        /\ UNCHANGED <<users, target, alone, expected>>
        /\ \A d \in Calls \ {c} : pc'[d] = pc[d] /\ loaded'[d] = loaded[d]
    BY <1>0, <1>7 DEF Reload, Goto, TypeOK
  <2>2. \A d \in Calls, i \in Ids : Updating(d, i)' => Updating(d, i)
    BY <2>1 DEF Updating
  <2> QED BY <2>1, <2>2
          DEF RowKnown, AnswerIsTheRow, Overlapping, LoadedIsTheRow
<1>8. ASSUME NEW c \in Calls, Commit(c) \/ CommitRaises(c) PROVE RowKnown'
  <2>1. /\ pc[c] = "commit" /\ pc'[c] = "done"
        /\ \A d \in Calls \ {c} : pc'[d] = pc[d]
        /\ UNCHANGED <<target, loaded, alone>>
        /\ target[c] \in Ids
        /\ \A i \in Ids \ {target[c]} : expected'[i] = expected[i]
        /\ expected'[target[c]] \in {IF alone[c] THEN draft[c] ELSE None, None}
    BY <1>0, <1>8, CommitKnows DEF Commit, CommitRaises, Known, Answer, TypeOK
  <2>2. CASE UNCHANGED users /\ CommitRaises(c)
    <3>1. expected'[target[c]] = None
      BY <1>0, <2>1, <2>2 DEF CommitRaises, Known, TypeOK
    <3> QED BY <2>1, <2>2, <3>1, RowKnownKeeps
  <2>3. CASE UpdateRow(c)
    <3>1. expected'[target[c]] \in {UpdatedRow(c), None}
      BY <2>1, AloneWritesDraft
    <3>2. \A d \in Calls \ {c} :
            pc[d] = "commit" /\ alone[d] => target[d] # target[c]
      BY <2>1, WriterIsApart
    <3>3. users' = [users EXCEPT ![target[c]] = UpdatedRow(c)]
      BY <2>3 DEF UpdateRow
    <3> QED BY <2>1, <3>1, <3>2, <3>3, RowKnownWrites
  <2> QED BY <1>8, <2>2, <2>3 DEF Commit, CommitRaises
<1>9. ASSUME NEW c \in Calls, ListPage(c) PROVE RowKnown'
  BY <1>0, <1>9, RowKnownKeeps DEF ListPage, Answer, Goto, TypeOK
<1>10. CASE UNCHANGED vars
  BY <1>10
     DEF vars, RowKnown, AnswerIsTheRow, Overlapping, LoadedIsTheRow, Updating
<1> QED
  BY <1>1, <1>2, <1>3, <1>4, <1>5, <1>6, <1>7, <1>8, <1>9, <1>10
     DEF Next, Step, AllDone

\* What a caller was told of a user is what the row holds until somebody else
\* updates it, if no other update overlapped the call: the two sessions of an
\* update lose nothing unless another one comes in between.
THEOREM AnsweredIsTheRow == Spec => []AnswerIsTheRow
<1>1. Init => RowKnown
  BY DEF Init, RowKnown, AnswerIsTheRow, Overlapping, LoadedIsTheRow, Updating
<1>2. RowKnown => AnswerIsTheRow
  BY DEF RowKnown
<1> QED BY <1>1, <1>2, RowKnownNext, UsersInvariant, PTL DEF Spec

-----------------------------------------------------------------------------
(* Listing.  The rows stand in an order in which Rank counts those before a  *)
(* row; a page is a window of ranks, and one that is short is the last.      *)

Behind(i) == {j \in Stored : Before(j, i)}

FiniteTable == IsFiniteSet(Stored)

\* What a lister knows between two pages: every row it began with is still
\* there, and those of a rank it has passed it has returned.
ListerKnows(c) ==
  /\ pc[c] \in {"insert", "reload", "commit"} => operation[c] # "list"
  /\ pc[c] = "idle" => listing[c].offset = 0
  /\ pc[c] = "list" =>
       /\ listing[c].present \subseteq Stored
       /\ \A i \in listing[c].present :
            Rank(i) < listing[c].offset => i \in listing[c].got
  /\ answer[c] = "ok" /\ operation[c] = "list" =>
       listing[c].present \subseteq listing[c].got

ListInv == FiniteTable /\ \A c \in Calls : ListerKnows(c)

LEMMA RowDates ==
  ASSUME TypeOK, NEW i \in Stored
  PROVE  i \in Ids /\ i \in Nat /\ users[i].createdAt \in Nat
<1>1. i \in Ids /\ users[i] \in User
  BY DEF Stored, TypeOK
<1> QED BY <1>1, ConfigAssumption DEF User

\* The rows are strictly and totally ordered.
LEMMA BeforeOrders ==
  ASSUME TypeOK, NEW i \in Stored, NEW j \in Stored
  PROVE  /\ ~Before(i, i)
         /\ i # j => Before(i, j) \/ Before(j, i)
         /\ \A k \in Stored : Before(i, j) /\ Before(j, k) => Before(i, k)
<1>1. \A k \in Stored : k \in Nat /\ users[k].createdAt \in Nat
  BY RowDates
<1> QED BY <1>1 DEF Before

LEMMA RankBound ==
  ASSUME TypeOK, FiniteTable, NEW i \in Stored
  PROVE  /\ IsFiniteSet(Behind(i))
         /\ Rank(i) \in Nat /\ Cardinality(Stored) \in Nat
         /\ Rank(i) < Cardinality(Stored)
<1>1. Behind(i) \subseteq Stored /\ i \notin Behind(i)
  BY BeforeOrders DEF Behind
<1>2. /\ IsFiniteSet(Behind(i))
      /\ Cardinality(Behind(i)) <= Cardinality(Stored)
      /\ Cardinality(Stored) # Cardinality(Behind(i))
  BY <1>1, FS_Subset DEF FiniteTable
<1>3. Cardinality(Stored) \in Nat /\ Cardinality(Behind(i)) \in Nat
  BY <1>2, FS_CardinalityType DEF FiniteTable
<1>4. Rank(i) = Cardinality(Behind(i))
  BY DEF Rank, Behind
<1> QED BY <1>2, <1>3, <1>4

LEMMA RankOrders ==
  ASSUME TypeOK, FiniteTable, NEW i \in Stored, NEW j \in Stored, Before(i, j)
  PROVE  Rank(i) < Rank(j)
<1>1. Behind(i) \subseteq Behind(j)
  BY BeforeOrders DEF Behind
<1>2. i \in Behind(j) /\ i \notin Behind(i)
  BY BeforeOrders DEF Behind
<1>3. /\ Cardinality(Behind(i)) <= Cardinality(Behind(j))
      /\ Cardinality(Behind(j)) # Cardinality(Behind(i))
  BY <1>1, <1>2, RankBound, FS_Subset
<1>4. Rank(i) = Cardinality(Behind(i)) /\ Rank(j) = Cardinality(Behind(j))
  BY DEF Rank, Behind
<1> QED BY <1>3, <1>4, RankBound

\* The ranks leave no gap: n rows have the ranks 0 to n - 1.
LEMMA EveryRank ==
  ASSUME TypeOK, FiniteTable, NEW r \in Nat, r < Cardinality(Stored)
  PROVE  \E i \in Stored : Rank(i) = r
<1> DEFINE n == Cardinality(Stored)
           rank == [i \in Stored |-> Rank(i)]
<1>1. n \in Nat
  BY FS_CardinalityType DEF FiniteTable
<1>2. IsFiniteSet(0 .. n - 1) /\ Cardinality(0 .. n - 1) = n
  <2>1. 0 \in Int /\ n - 1 \in Int
    BY <1>1
  <2>2. Cardinality(0 .. n - 1) = IF 0 > n - 1 THEN 0 ELSE (n - 1) - 0 + 1
    BY <2>1, FS_Interval
  <2> QED BY <1>1, <2>1, <2>2, FS_Interval
<1>3. rank \in Injection(Stored, 0 .. n - 1)
  <2>1. rank \in [Stored -> 0 .. n - 1]
    BY <1>1, RankBound
  <2>2. \A i, j \in Stored : Rank(i) = Rank(j) => i = j
    <3> SUFFICES ASSUME NEW i \in Stored, NEW j \in Stored, i # j
                 PROVE  Rank(i) # Rank(j)
      OBVIOUS
    <3>1. Before(i, j) \/ Before(j, i)
      BY BeforeOrders
    <3>2. Rank(i) < Rank(j) \/ Rank(j) < Rank(i)
      BY <3>1, RankOrders
    <3> QED BY <3>2, RankBound
  <2> QED BY <2>1, <2>2 DEF Injection, IsInjective
<1> HIDE DEF rank
<1>4. rank \in Surjection(Stored, 0 .. n - 1)
  BY <1>2, <1>3, FS_Injection
<1>5. r \in 0 .. n - 1
  BY <1>1
<1>6. \E i \in Stored : rank[i] = r
  BY <1>4, <1>5 DEF Surjection
<1> QED BY <1>6 DEF rank

\* A page with rows after it is full.
LEMMA FullPage ==
  ASSUME TypeOK, FiniteTable, NEW offset \in Nat,
         NEW i \in Stored, Rank(i) >= offset + Limit
  PROVE  ~(Cardinality(Page(offset)) < Limit)
<1> DEFINE window == offset .. offset + Limit - 1
           rank == [j \in Page(offset) |-> Rank(j)]
<1>1. Limit \in Nat /\ Limit > 0
  BY ConfigAssumption
<1>2. Page(offset) \subseteq Stored
  BY DEF Page
<1>3. IsFiniteSet(Page(offset)) /\ Cardinality(Page(offset)) \in Nat
  BY <1>2, FS_Subset, FS_CardinalityType DEF FiniteTable
<1>4. Cardinality(window) = Limit
  <2>1. offset \in Int /\ offset + Limit - 1 \in Int
    BY <1>1
  <2>2. Cardinality(window) = IF offset > offset + Limit - 1 THEN 0
                              ELSE (offset + Limit - 1) - offset + 1
    BY <2>1, FS_Interval
  <2> QED BY <1>1, <2>2
<1>5. rank \in Surjection(Page(offset), window)
  <2>1. rank \in [Page(offset) -> window]
    BY <1>1, <1>2, RankBound DEF Page
  <2>2. \A r \in window : \E j \in Page(offset) : rank[j] = r
    <3> SUFFICES ASSUME NEW r \in window
                 PROVE  \E j \in Page(offset) : Rank(j) = r
      OBVIOUS
    <3>1. r \in Nat /\ r < Cardinality(Stored)
      BY <1>1, RankBound
    <3>2. PICK j \in Stored : Rank(j) = r
      BY <3>1, EveryRank
    <3>3. j \in Page(offset)
      BY <1>1, <3>1, <3>2 DEF Page
    <3> QED BY <3>2, <3>3
  <2> QED BY <2>1, <2>2 DEF Surjection
<1> HIDE DEF rank, window
<1>6. Cardinality(window) <= Cardinality(Page(offset))
  BY <1>3, <1>5, FS_Surjection
<1> QED BY <1>1, <1>3, <1>4, <1>6

-----------------------------------------------------------------------------
\* No row is taken away, and none changes its place in the order.
Grows ==
  /\ Stored \subseteq Stored'
  /\ \A i \in Stored : users'[i].createdAt = users[i].createdAt

\* Rows that are added move the others away from the pages already read.
LEMMA RankGrows ==
  ASSUME TypeOK, TypeOK', FiniteTable, FiniteTable', Grows, NEW i \in Stored
  PROVE  Rank(i) <= Rank(i)'
<1>1. i \in Stored' /\ Behind(i) \subseteq Behind(i)'
  BY DEF Grows, Behind, Before
<1>2. IsFiniteSet(Behind(i)')
  <2>1. Behind(i)' \subseteq Stored'
    BY DEF Behind
  <2> QED BY <2>1, FS_Subset DEF FiniteTable
<1>3. Cardinality(Behind(i)) <= Cardinality(Behind(i)')
  BY <1>1, <1>2, FS_Subset
<1>4. Rank(i) = Cardinality(Behind(i)) /\ Rank(i)' = Cardinality(Behind(i)')
  BY DEF Rank, Behind
<1> QED BY <1>3, <1>4

\* A lister loses nothing when the table grows while it waits.
LEMMA ListerWaits ==
  ASSUME TypeOK, TypeOK', FiniteTable, FiniteTable', Grows, NEW c \in Calls,
         ListerKnows(c), pc'[c] = pc[c], answer'[c] = answer[c],
         operation'[c] = operation[c], listing'[c] = listing[c]
  PROVE  ListerKnows(c)'
<1>1. ASSUME pc[c] = "list"
      PROVE  /\ listing[c].present \subseteq Stored'
             /\ \A i \in listing[c].present :
                  Rank(i)' < listing[c].offset => i \in listing[c].got
  <2>1. listing[c].present \subseteq Stored
    BY <1>1 DEF ListerKnows
  <2>2. Stored \subseteq Stored'
    BY DEF Grows
  <2> SUFFICES ASSUME NEW i \in listing[c].present,
                      Rank(i)' < listing[c].offset
               PROVE  i \in listing[c].got
    BY <2>1, <2>2
  <2>3. i \in Stored /\ i \in Stored'
    BY <2>1, <2>2
  <2>4. Rank(i) <= Rank(i)' /\ Rank(i) \in Nat
    BY <2>3, RankGrows, RankBound
  <2>5. Rank(i)' \in Nat
    <3>1. Behind(i)' \subseteq Stored'
      BY DEF Behind
    <3>2. Cardinality(Behind(i)') \in Nat
      BY <3>1, FS_Subset, FS_CardinalityType DEF FiniteTable
    <3> QED BY <3>2 DEF Rank, Behind
  <2>6. listing[c].offset \in Nat
    BY DEF TypeOK
  <2>7. Rank(i) < listing[c].offset
    BY <2>4, <2>5, <2>6
  <2> QED BY <1>1, <2>7 DEF ListerKnows
<1> QED BY <1>1 DEF ListerKnows

\* A step by which no listing moves on, while the table may grow.
LEMMA ListInvKeeps ==
  ASSUME TypeOK, TypeOK', ListInv, FiniteTable', Grows, NEW c \in Calls,
         UNCHANGED listing, pc'[c] \notin {"idle", "list"},
         pc'[c] \in {"insert", "reload", "commit"} \/ answer'[c] = "ok"
           => operation'[c] # "list",
         \A d \in Calls \ {c} :
           /\ pc'[d] = pc[d] /\ answer'[d] = answer[d]
           /\ operation'[d] = operation[d]
  PROVE  ListInv'
<1>1. \A d \in Calls \ {c} : ListerKnows(d)'
  BY ListerWaits DEF ListInv
<1>2. ListerKnows(c)'
  BY DEF ListerKnows
<1> QED BY <1>1, <1>2 DEF ListInv

\* The row of one call is written, with the creation time it had, if any.
LEMMA RowGrows ==
  ASSUME TypeOK, FiniteTable, NEW i \in Ids, NEW row \in User,
         users' = [users EXCEPT ![i] = row],
         i \in Stored => row.createdAt = users[i].createdAt
  PROVE  Grows /\ FiniteTable'
<1>1. row # None
  BY ConfigAssumption
<1>2. Stored' = Stored \cup {i}
  BY <1>1 DEF Stored, TypeOK
<1>3. IsFiniteSet(Stored \cup {i})
  BY FS_AddElement DEF FiniteTable
<1>4. \A k \in Stored : users'[k].createdAt = users[k].createdAt
  BY DEF Stored, TypeOK
<1> QED BY <1>2, <1>3, <1>4 DEF Grows, FiniteTable

LEMMA TableStays ==
  ASSUME ListInv, UNCHANGED users
  PROVE  Grows /\ FiniteTable'
BY DEF ListInv, Grows, FiniteTable, Stored

\* The next page: a lister that stops has passed every rank there is.
LEMMA ListPageKeeps ==
  ASSUME UsersInv, TypeOK', ListInv, NEW c \in Calls, ListPage(c)
  PROVE  ListInv'
<1> DEFINE o == listing[c].offset
           p == IF pc[c] = "idle" THEN Stored ELSE listing[c].present
<1>0. TypeOK /\ FiniteTable /\ ListerKnows(c)
  BY DEF UsersInv, ListInv
<1>1. /\ UNCHANGED users
      /\ pc[c] \in {"idle", "list"} /\ pc'[c] \in {"list", "done"}
      /\ operation'[c] = "list"
      /\ \A d \in Calls \ {c} :
           /\ pc'[d] = pc[d] /\ answer'[d] = answer[d]
           /\ operation'[d] = operation[d] /\ listing'[d] = listing[d]
  BY <1>0 DEF ListPage, Begins, Runs, Answer, Goto, TypeOK
<1>2. /\ listing'[c].offset = o + Limit
      /\ listing'[c].got = listing[c].got \cup Page(o)
      /\ listing'[c].present = p
  BY <1>0 DEF ListPage, TypeOK
<1>3. IF Cardinality(Page(o)) < Limit
      THEN pc'[c] = "done" ELSE pc'[c] = "list" /\ answer'[c] = answer[c]
  BY <1>0 DEF ListPage, Answer, Goto, TypeOK
<1>4. p \subseteq Stored
  BY <1>0, <1>1 DEF ListerKnows
<1>5. o \in Nat /\ Limit \in Nat
  BY <1>0, ConfigAssumption DEF TypeOK
<1>6. \A i \in p : Rank(i) < o => i \in listing[c].got
  <2> SUFFICES ASSUME NEW i \in p, Rank(i) < o PROVE i \in listing[c].got
    OBVIOUS
  <2>1. Rank(i) \in Nat
    BY <1>0, <1>4, RankBound
  <2>2. pc[c] = "list"
    BY <1>0, <1>1, <2>1 DEF ListerKnows
  <2> QED BY <1>0, <2>2 DEF ListerKnows
<1>7. \A i \in p : Rank(i) < o + Limit => i \in listing'[c].got
  <2> SUFFICES ASSUME NEW i \in p, Rank(i) < o + Limit
               PROVE  i \in listing'[c].got
    OBVIOUS
  <2>1. Rank(i) \in Nat /\ i \in Stored
    BY <1>0, <1>4, RankBound
  <2>2. Rank(i) < o \/ i \in Page(o)
    BY <1>5, <2>1 DEF Page
  <2> QED BY <1>2, <1>6, <2>2
<1>8. pc'[c] = "done" => p \subseteq listing'[c].got
  <2> SUFFICES ASSUME pc'[c] = "done", NEW i \in p
               PROVE  i \in listing'[c].got
    OBVIOUS
  <2>1. Cardinality(Page(o)) < Limit
    BY <1>3
  <2>2. i \in Stored /\ Rank(i) \in Nat
    BY <1>0, <1>4, RankBound
  <2>3. ~(Rank(i) >= o + Limit)
    BY <1>0, <1>5, <2>1, <2>2, FullPage
  <2> QED BY <1>5, <1>7, <2>2, <2>3
<1>9. Stored' = Stored /\ \A i : Rank(i)' = Rank(i)
  BY <1>1 DEF Stored, Rank, Before
<1>10. pc'[c] = "list" => answer'[c] = "none"
  BY <1>1, <1>3 DEF UsersInv, CallKnows
<1>11. ListerKnows(c)'
  BY <1>1, <1>2, <1>4, <1>7, <1>8, <1>9, <1>10 DEF ListerKnows
<1>12. \A d \in Calls \ {c} : ListerKnows(d)'
  BY <1>0, <1>1, TableStays, ListerWaits DEF ListInv
<1> QED BY <1>1, <1>11, <1>12, TableStays DEF ListInv

LEMMA ListInvNext == UsersInv /\ TypeOK' /\ ListInv /\ [Next]_vars => ListInv'
<1> SUFFICES ASSUME UsersInv, TypeOK', ListInv, [Next]_vars PROVE ListInv'
  OBVIOUS
<1>0. /\ TypeOK /\ FiniteTable
      /\ \A c \in Calls : CallKnows(c) /\ ListerKnows(c)
  BY DEF UsersInv, ListInv
<1>1. ASSUME NEW c \in Calls, NEW a \in Addresses, NEW n \in Names \cup {Blank},
             Create(c, a, n) \/ CreateRefused(c, a, n)
      PROVE  ListInv'
  <2>1. /\ UNCHANGED <<users, listing>> /\ pc[c] = "idle"
        /\ \/ /\ pc'[c] = "insert" /\ operation'[c] = "create"
              /\ answer'[c] = answer[c]
           \/ pc'[c] = "done" /\ answer'[c] # "ok"
        /\ \A d \in Calls \ {c} :
             /\ pc'[d] = pc[d] /\ answer'[d] = answer[d]
             /\ operation'[d] = operation[d]
    BY <1>0, <1>1
       DEF Create, CreateRefused, Begins, Runs, Goto, Answer, Unmoved, TypeOK
  <2>2. answer[c] = "none"
    BY <1>0, <2>1 DEF CallKnows
  <2> QED BY <1>0, <2>1, <2>2, TableStays, ListInvKeeps
<1>2. ASSUME NEW c \in Calls, Insert(c) \/ InsertRaises(c) PROVE ListInv'
  <2>1. /\ UNCHANGED listing /\ pc[c] = "insert"
        /\ pc'[c] = "done" /\ operation'[c] # "list"
        /\ \A d \in Calls \ {c} :
             /\ pc'[d] = pc[d] /\ answer'[d] = answer[d]
             /\ operation'[d] = operation[d]
    BY <1>0, <1>2 DEF Insert, InsertRaises, Answer, TypeOK, ListerKnows
  <2>2. UNCHANGED users \/ users' = [users EXCEPT ![target[c]] = draft[c]]
    BY <1>2 DEF Insert, InsertRaises, InsertRow
  <2>3. Grows /\ FiniteTable'
    BY <1>0, <2>1, <2>2, InsertKnows, TableStays, RowGrows
  <2> QED BY <1>0, <2>1, <2>3, ListInvKeeps
<1>3. ASSUME NEW c \in Calls, InsertRefused(c) \/ ReadRaises(c)
      PROVE  ListInv'
  <2>1. /\ UNCHANGED <<users, listing>>
        /\ pc'[c] = "done" /\ answer'[c] # "ok"
        /\ \A d \in Calls \ {c} :
             /\ pc'[d] = pc[d] /\ answer'[d] = answer[d]
             /\ operation'[d] = operation[d]
    BY <1>0, <1>3 DEF InsertRefused, ReadRaises, Unmoved, Answer, TypeOK
  <2> QED BY <1>0, <2>1, TableStays, ListInvKeeps
<1>4. ASSUME NEW c \in Calls, NEW i \in Ids, NEW n \in Names \cup {Blank},
             Rename(c, i, n) \/ Deactivate(c, i)
      PROVE  ListInv'
  <2>1. /\ UNCHANGED <<users, listing>>
        /\ pc'[c] = "reload" /\ operation'[c] # "list"
        /\ \A d \in Calls \ {c} :
             /\ pc'[d] = pc[d] /\ answer'[d] = answer[d]
             /\ operation'[d] = operation[d]
    BY <1>0, <1>4 DEF Rename, Deactivate, Runs, Goto, TypeOK
  <2> QED BY <1>0, <2>1, TableStays, ListInvKeeps
<1>5. ASSUME NEW c \in Calls, NEW i \in Ids, NEW n \in Names \cup {Blank},
             UpdateRefused(c, i, n)
      PROVE  ListInv'
  <2>1. /\ UNCHANGED <<users, listing>>
        /\ pc'[c] = "done" /\ answer'[c] # "ok"
        /\ \A d \in Calls \ {c} :
             /\ pc'[d] = pc[d] /\ answer'[d] = answer[d]
             /\ operation'[d] = operation[d]
    BY <1>0, <1>5 DEF UpdateRefused, Unmoved, Answer, TypeOK
  <2> QED BY <1>0, <2>1, TableStays, ListInvKeeps
<1>6. ASSUME NEW c \in Calls, Reload(c) PROVE ListInv'
  <2>1. /\ UNCHANGED <<users, listing>>
        /\ pc'[c] = "commit" /\ operation'[c] # "list"
        /\ \A d \in Calls \ {c} :
             /\ pc'[d] = pc[d] /\ answer'[d] = answer[d]
             /\ operation'[d] = operation[d]
    BY <1>0, <1>6 DEF Reload, Goto, TypeOK, ListerKnows
  <2> QED BY <1>0, <2>1, TableStays, ListInvKeeps
<1>7. ASSUME NEW c \in Calls, Commit(c) \/ CommitRaises(c) PROVE ListInv'
  <2>1. /\ UNCHANGED listing /\ pc[c] = "commit"
        /\ pc'[c] = "done" /\ operation'[c] # "list"
        /\ \A d \in Calls \ {c} :
             /\ pc'[d] = pc[d] /\ answer'[d] = answer[d]
             /\ operation'[d] = operation[d]
    BY <1>0, <1>7 DEF Commit, CommitRaises, Answer, TypeOK, ListerKnows
  <2>2. \/ UNCHANGED users
        \/ users' = [users EXCEPT ![target[c]] = UpdatedRow(c)]
    BY <1>7 DEF Commit, CommitRaises, UpdateRow
  <2>3. /\ target[c] \in Ids /\ UpdatedRow(c) \in User
        /\ UpdatedRow(c).createdAt = users[target[c]].createdAt
    BY <2>1, CommitKnows, UpdatedRowKeeps
  <2>4. Grows /\ FiniteTable'
    BY <1>0, <2>2, <2>3, TableStays, RowGrows
  <2> QED BY <1>0, <2>1, <2>4, ListInvKeeps
<1>8. ASSUME NEW c \in Calls, ListPage(c) PROVE ListInv'
  BY <1>8, ListPageKeeps
<1>9. CASE UNCHANGED vars
  <2>1. Grows /\ FiniteTable'
    BY <1>9, TableStays DEF vars
  <2>2. \A c \in Calls : ListerKnows(c)'
    BY <1>0, <1>9, <2>1, ListerWaits DEF vars
  <2> QED BY <2>1, <2>2 DEF ListInv
<1> QED
  BY <1>1, <1>2, <1>3, <1>4, <1>5, <1>6, <1>7, <1>8, <1>9
     DEF Next, Step, AllDone

\* Reading page after page until one is short returns every user that was
\* stored when the first page was read, whatever is created, renamed or
\* deactivated meanwhile, for any page size.
THEOREM NoUserUnlisted == Spec => []ListMissesNone
<1>1. Init => ListInv
  <2> SUFFICES ASSUME Init PROVE ListInv
    OBVIOUS
  <2>1. FiniteTable
    BY ConfigAssumption DEF Init, FiniteTable, Stored
  <2> QED BY <2>1 DEF Init, ListInv, ListerKnows
<1>2. ListInv => ListMissesNone
  BY DEF ListInv, ListerKnows, ListMissesNone
<1>3. UsersInv => TypeOK
  BY DEF UsersInv
<1> QED BY <1>1, <1>2, <1>3, ListInvNext, UsersInvariant, PTL DEF Spec
=============================================================================
