------------------------------- MODULE Users -------------------------------
(***************************************************************************)
(* The user use cases, run by any number of callers at once over the table *)
(* users.  A step ends at an await.  Each call of the repository opens a   *)
(* session of its own, so that an update reads the user in one session     *)
(* (get_by_id), and reads it again and writes it in another (update); the  *)
(* write is an UPDATE of the columns that differ from the second read.     *)
(* The database runs at READ COMMITTED and enforces the unique e-mail.     *)
(***************************************************************************)
EXTENDS Naturals, FiniteSets

CONSTANTS
  Calls,         \* calls of the use cases; a lister is one call per page
  Ids,           \* UserId values
  Names,         \* names, stripped
  Blank,         \* a name of white space only
  Addresses,     \* e-mail addresses as callers write them
  Normalized,    \* Email.value of an address, or None if it is not valid
  InitialUsers,  \* tables to start from
  Limit,         \* page size of the listers
  Operations,    \* the operations that are called
  DbFails,       \* whether the database may raise
  None           \* no user, no value

Emails == {Normalized[a] : a \in Addresses} \ {None}

User == [name : Names, email : Emails, active : BOOLEAN, createdAt : Nat]

ASSUME ConfigAssumption ==
  /\ Ids \subseteq Nat
  /\ Blank \notin Names
  /\ InitialUsers \subseteq [Ids -> User \cup {None}]
  /\ \A table \in InitialUsers : IsFiniteSet({i \in Ids : table[i] # None})
  /\ \A table \in InitialUsers, i, j \in Ids :
       /\ i # j /\ table[i] # None /\ table[j] # None
       => table[i].email # table[j].email
  /\ Limit \in Nat \ {0}
  /\ Operations \subseteq {"create", "rename", "deactivate", "list"}
  /\ DbFails \in BOOLEAN
  /\ None \notin User \cup Ids

VARIABLES
  users,       \* the table: users[i] is the row with that id, or None
  clock,       \* the time of the last User.create
  pc,          \* pc[c]: the await the call is suspended at
  operation,   \* operation[c]: the use case, once its first read answered
  target,      \* target[c]: the user the call creates or updates
  draft,       \* draft[c]: the User in the memory of the call
  loaded,      \* loaded[c]: the row as the second session read it
  answer,      \* answer[c]: what the call returned or raised
  listing,     \* listing[c]: offset reached, users returned, users there at first
  alone,       \* history: no other update of the user overlapped the call
  expected     \* history: the answer of the last update, if it was alone

vars == <<users, clock, pc, operation, target, draft, loaded, answer, listing,
          alone, expected>>

Answers == {"none", "ok", "email_exists", "invalid", "not_found",
            "already_inactive", "error"}

-----------------------------------------------------------------------------
Stored == {i \in Ids : users[i] # None}

EmailTaken(email) == \E i \in Stored : users[i].email = email

\* uuid4 gives every user an id of its own.
FreeIds == {i \in Ids \ Stored : \A c \in Calls : target[c] # i}

Updating(c, i) == target[c] = i /\ pc[c] \in {"reload", "commit"}

Init ==
  /\ users \in InitialUsers
  /\ clock = 0
  /\ pc = [c \in Calls |-> "idle"]
  /\ operation = [c \in Calls |-> "none"]
  /\ target = [c \in Calls |-> None]
  /\ draft = [c \in Calls |-> None]
  /\ loaded = [c \in Calls |-> None]
  /\ answer = [c \in Calls |-> "none"]
  /\ listing = [c \in Calls |-> [offset |-> 0, got |-> {}, present |-> {}]]
  /\ alone = [c \in Calls |-> TRUE]
  /\ expected = [i \in Ids |-> None]

Begins(c, o) == pc[c] = "idle" /\ o \in Operations

Runs(c, o) == operation' = [operation EXCEPT ![c] = o]

Goto(c, l) == pc' = [pc EXCEPT ![c] = l] /\ UNCHANGED answer

Answer(c, a) ==
  /\ pc' = [pc EXCEPT ![c] = "done"]
  /\ answer' = [answer EXCEPT ![c] = a]

Unmoved == UNCHANGED <<users, clock, operation, target, draft, loaded,
                       listing, alone, expected>>

(* CreateUserUseCase: the lookup of the e-mail, then the insert. *)

\* Mutant: the address is not validated.
CreateUnvalidated(c, address, name) ==
  /\ Begins(c, "create")
  /\ ~EmailTaken(Normalized[address])
  /\ name # Blank
  /\ \E i \in FreeIds :
       /\ target' = [target EXCEPT ![c] = i]
       /\ draft' = [draft EXCEPT ![c] =
            [name |-> name, email |-> Normalized[address], active |-> TRUE,
             createdAt |-> clock]]
  /\ Runs(c, "create")
  /\ Goto(c, "insert")
  /\ UNCHANGED <<users, clock, loaded, listing, alone, expected>>

Create(c, address, name) ==
  /\ Begins(c, "create")
  /\ Normalized[address] # None
  /\ ~EmailTaken(Normalized[address])
  /\ name # Blank
  /\ \E i \in FreeIds, now \in {clock, clock + 1} :
       /\ clock' = now
       /\ target' = [target EXCEPT ![c] = i]
       /\ draft' = [draft EXCEPT ![c] =
            [name |-> name, email |-> Normalized[address], active |-> TRUE,
             createdAt |-> now]]
  /\ Runs(c, "create")
  /\ Goto(c, "insert")
  /\ UNCHANGED <<users, loaded, listing, alone, expected>>

CreateRefused(c, address, name) ==
  /\ Begins(c, "create")
  /\ \/ Normalized[address] = None /\ Answer(c, "invalid")
     \/ /\ Normalized[address] # None
        /\ EmailTaken(Normalized[address])
        /\ Answer(c, "email_exists")
     \/ /\ Normalized[address] # None
        /\ ~EmailTaken(Normalized[address])
        /\ name = Blank
        /\ Answer(c, "invalid")
  /\ Unmoved

InsertRow(c) == users' = [users EXCEPT ![target[c]] = draft[c]]

Known(i, u) == expected' = [expected EXCEPT ![i] = u]

\* Mutant: no unique constraint behind the lookup.
InsertUnguarded(c) ==
  /\ pc[c] = "insert"
  /\ InsertRow(c)
  /\ Known(target[c], draft[c])
  /\ Answer(c, "ok")
  /\ UNCHANGED <<clock, operation, target, draft, loaded, listing, alone>>

Insert(c) ==
  /\ pc[c] = "insert"
  /\ ~EmailTaken(draft[c].email)
  /\ InsertRow(c)
  /\ Known(target[c], draft[c])
  /\ Answer(c, "ok")
  /\ UNCHANGED <<clock, operation, target, draft, loaded, listing, alone>>

InsertRefused(c) ==
  /\ pc[c] = "insert"
  /\ EmailTaken(draft[c].email)
  /\ Answer(c, "email_exists")
  /\ Unmoved

\* Mutant: every error of the commit is swallowed, not only IntegrityError.
InsertRaisesUnseen(c) ==
  /\ pc[c] = "insert"
  /\ DbFails
  /\ UNCHANGED users \/ (~EmailTaken(draft[c].email) /\ InsertRow(c))
  /\ Answer(c, "ok")
  /\ UNCHANGED <<clock, operation, target, draft, loaded, listing, alone,
                 expected>>

\* The commit raises, and may have happened.
InsertRaises(c) ==
  /\ pc[c] = "insert"
  /\ DbFails
  /\ UNCHANGED users \/ (~EmailTaken(draft[c].email) /\ InsertRow(c))
  /\ Answer(c, "error")
  /\ UNCHANGED <<clock, operation, target, draft, loaded, listing, alone,
                 expected>>

(* UpdateUserNameUseCase and DeactivateUserUseCase: the first session. *)

\* From now on the call may overwrite the user, and so may the others.
Claim(c, i) ==
  /\ target' = [target EXCEPT ![c] = i]
  /\ alone' = [d \in Calls |->
       IF d = c THEN \A o \in Calls : ~Updating(o, i)
       ELSE alone[d] /\ ~Updating(d, i)]

Rename(c, i, name) ==
  /\ Begins(c, "rename")
  /\ users[i] # None
  /\ name # Blank
  /\ draft' = [draft EXCEPT ![c] = [users[i] EXCEPT !.name = name]]
  /\ Runs(c, "rename")
  /\ Claim(c, i)
  /\ Goto(c, "reload")
  /\ UNCHANGED <<users, clock, loaded, listing, expected>>

Deactivate(c, i) ==
  /\ Begins(c, "deactivate")
  /\ users[i] # None
  /\ users[i].active
  /\ draft' = [draft EXCEPT ![c] = [users[i] EXCEPT !.active = FALSE]]
  /\ Runs(c, "deactivate")
  /\ Claim(c, i)
  /\ Goto(c, "reload")
  /\ UNCHANGED <<users, clock, loaded, listing, expected>>

UpdateRefused(c, i, name) ==
  /\ \/ /\ Begins(c, "rename") \/ Begins(c, "deactivate")
        /\ users[i] = None
        /\ Answer(c, "not_found")
     \/ /\ Begins(c, "rename")
        /\ users[i] # None
        /\ name = Blank
        /\ Answer(c, "invalid")
     \/ /\ Begins(c, "deactivate")
        /\ users[i] # None
        /\ ~users[i].active
        /\ Answer(c, "already_inactive")
  /\ Unmoved

(* SqlAlchemyUserRepository.update: the second session. *)

Reload(c) ==
  /\ pc[c] = "reload"
  /\ loaded' = [loaded EXCEPT ![c] = users[target[c]]]
  /\ Goto(c, "commit")
  /\ UNCHANGED <<users, clock, operation, target, draft, listing, alone,
                 expected>>

\* Mutant: is_active is not copied to the row.
NameOnlyRow(c) ==
  [users[target[c]] EXCEPT
     !.name = IF draft[c].name # loaded[c].name THEN draft[c].name ELSE @]

\* The row after an UPDATE of the columns that differ from what was loaded.
UpdatedRow(c) ==
  LET mine == draft[c]
      base == loaded[c]
      row == users[target[c]]
  IN  [ name      |-> IF mine.name # base.name THEN mine.name ELSE row.name,
        email     |-> IF mine.email # base.email THEN mine.email ELSE row.email,
        active    |-> IF mine.active # base.active THEN mine.active
                                                   ELSE row.active,
        createdAt |-> row.createdAt ]

UpdateRow(c) == users' = [users EXCEPT ![target[c]] = UpdatedRow(c)]

Commit(c) ==
  /\ pc[c] = "commit"
  /\ UpdateRow(c)
  /\ Known(target[c], IF alone[c] THEN draft[c] ELSE None)
  /\ Answer(c, "ok")
  /\ UNCHANGED <<clock, operation, target, draft, loaded, listing, alone>>

CommitRaises(c) ==
  /\ pc[c] = "commit"
  /\ DbFails
  /\ UNCHANGED users \/ UpdateRow(c)
  /\ Known(target[c], None)
  /\ Answer(c, "error")
  /\ UNCHANGED <<clock, operation, target, draft, loaded, listing, alone>>

\* A read raises: the lookup, get_by_id, a page, or the second read.
ReadRaises(c) ==
  /\ pc[c] \in {"idle", "list", "reload"}
  /\ DbFails
  /\ Answer(c, "error")
  /\ Unmoved

(* ListUsersUseCase, called page after page until one is short. *)

\* Mutant: the list is ordered by name.
BeforeByName(i, j) ==
  \/ users[i].name < users[j].name
  \/ users[i].name = users[j].name /\ i < j

Before(i, j) ==
  \/ users[i].createdAt < users[j].createdAt
  \/ users[i].createdAt = users[j].createdAt /\ i < j

Rank(i) == Cardinality({j \in Stored : Before(j, i)})

Page(offset) == {i \in Stored : offset <= Rank(i) /\ Rank(i) < offset + Limit}

ListPage(c) ==
  /\ Begins(c, "list") \/ pc[c] = "list"
  /\ LET offset == listing[c].offset
     IN  /\ listing' = [listing EXCEPT ![c] =
              [ offset |-> offset + Limit,
                got |-> @.got \cup Page(offset),
                present |-> IF pc[c] = "idle" THEN Stored ELSE @.present ]]
         /\ IF Cardinality(Page(offset)) < Limit THEN Answer(c, "ok")
                                                 ELSE Goto(c, "list")
  /\ Runs(c, "list")
  /\ UNCHANGED <<users, clock, target, draft, loaded, alone, expected>>

-----------------------------------------------------------------------------
AllDone == (\A c \in Calls : pc[c] = "done") /\ UNCHANGED vars

Step(c) ==
  \/ \E address \in Addresses, name \in Names \cup {Blank} :
       Create(c, address, name) \/ CreateRefused(c, address, name)
  \/ Insert(c) \/ InsertRefused(c) \/ InsertRaises(c)
  \/ \E i \in Ids, name \in Names \cup {Blank} :
       Rename(c, i, name) \/ UpdateRefused(c, i, name)
  \/ \E i \in Ids : Deactivate(c, i)
  \/ Reload(c) \/ Commit(c) \/ CommitRaises(c)
  \/ ReadRaises(c) \/ ListPage(c)

Next == (\E c \in Calls : Step(c)) \/ AllDone

Spec == Init /\ [][Next]_vars

-----------------------------------------------------------------------------
(* Safety. *)

\* Every variable keeps its type.
TypeOK ==
  /\ users \in [Ids -> User \cup {None}]
  /\ clock \in Nat
  /\ pc \in [Calls -> {"idle", "insert", "reload", "commit", "list", "done"}]
  /\ operation \in [Calls -> {"none"} \cup Operations]
  /\ target \in [Calls -> Ids \cup {None}]
  /\ draft \in [Calls -> User \cup {None}]
  /\ loaded \in [Calls -> User \cup {None}]
  /\ answer \in [Calls -> Answers]
  /\ listing \in [Calls ->
       [offset : Nat, got : SUBSET Ids, present : SUBSET Ids]]
  /\ alone \in [Calls -> BOOLEAN]
  /\ expected \in [Ids -> User \cup {None}]

\* However many calls looked the e-mail up before any of them inserted it, and
\* however it was written, a mailbox has one user.
OneUserPerMailbox ==
  \A i, j \in Stored : users[i].email = users[j].email => i = j

\* A user a caller was told of is stored, with the e-mail and the creation
\* time the caller was told.
AnsweredIsStored ==
  \A c \in Calls :
    answer[c] = "ok" /\ target[c] # None =>
      /\ target[c] \in Stored
      /\ users[target[c]].email = draft[c].email
      /\ users[target[c]].createdAt = draft[c].createdAt

\* What a caller was told is what the row holds, until another update of the
\* user commits, if no other update of the user overlapped the call.  (If one
\* did, either may be lost, in part or whole.)
AnswerIsTheRow ==
  \A i \in Ids : expected[i] # None => users[i] = expected[i]

\* Listing page after page returns every user that was there when the listing
\* began, whoever is created, renamed or deactivated in between: rows are only
\* added, and no operation moves one towards the pages already read.
ListMissesNone ==
  \A c \in Calls :
    answer[c] = "ok" /\ operation[c] = "list" =>
      listing[c].present \subseteq listing[c].got

\* users/domain/exceptions.py, UserAlreadyInactiveError: "Raised when an
\* inactive user is deactivated again."  No operation activates a user, so a
\* second deactivation of the same user is never answered with success.
DeactivatedOnce ==
  \A c, d \in Calls :
    /\ {operation[c], operation[d]} = {"deactivate"}
    /\ answer[c] = "ok" /\ answer[d] = "ok"
    /\ target[c] = target[d]
    => c = d
=============================================================================
