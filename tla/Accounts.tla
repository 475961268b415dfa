-------------------------------- MODULE Accounts --------------------------------
(***************************************************************************)
(* POST /auth/register and /auth/login. A registration looks for the email *)
(* first, hashes the password, and inserts; two registrations of one email *)
(* may both get past the look, and the unique constraint on users.email    *)
(* decides. PostgreSQL lets the second INSERT of a key wait until the      *)
(* transaction of the first has ended.                                     *)
(***************************************************************************)
EXTENDS FiniteSets

CONSTANTS
  Reqs,        \* registrations that may run together
  Spellings,   \* emails as they may be typed
  Lower,       \* str.lower() on them
  Passwords,
  Ids,         \* what uuid4 may return
  None

ASSUME LowerAssumption ==
  Lower \in [Spellings -> Spellings] /\ \A s \in Spellings : Lower[Lower[s]] = Lower[s]
ASSUME NoneAssumption == None \notin Spellings /\ None \notin Passwords

VARIABLES
  reg,         \* what each registration is doing
  users,       \* committed rows
  created,     \* what clients were told with 201: email as typed, password
  conflicts    \* what clients were told with 409: email as typed

vars == <<reg, users, created, conflicts>>

\* checked: no such user was found; inserted: the row is written, not committed;
\* committed: about to be read again for the response.
Idle == [pc |-> "idle", s |-> None, p |-> None]

RegRow == [pc: {"idle", "checked", "inserted", "committed"},
           s: Spellings \cup {None}, p: Passwords \cup {None}]

\* Emails are stored in lower case.
User == [id: Ids, email: {Lower[s] : s \in Spellings}, password: Passwords]

Init ==
  /\ reg = [r \in Reqs |-> Idle]
  /\ users = {} /\ created = {} /\ conflicts = {}

\* Every variable holds a value of its type; no email with capitals is ever stored,
\* for a comparison that forgets lower() to miss.
TypeOK ==
  /\ reg \in [Reqs -> RegRow]
  /\ users \subseteq User
  /\ created \subseteq Spellings \X Passwords
  /\ conflicts \subseteq Spellings

At(r, pc) == reg[r].pc = pc

\* The email as typed, and as it is stored.
AsTyped(s) == s
Stored(s) == Lower[s]

\* Broken variant: compared as typed.
FoundAsTyped(s) == {x \in users : x.email = s}

\* WHERE lower(users.email) = lower(typed)
Found(s) == {x \in users : Lower[x.email] = Lower[s]}

Register(r, s, p) ==
  /\ At(r, "idle")
  /\ IF Found(s) # {}
     THEN conflicts' = conflicts \cup {s} /\ reg' = reg
     ELSE /\ reg' = [reg EXCEPT ![r] = [pc |-> "checked", s |-> s, p |-> p]]
          /\ UNCHANGED conflicts
  /\ UNCHANGED <<users, created>>

\* A row with this key was committed, or is about to be.
KeyTaken(k) == \E x \in users : x.email = k
KeyPending(k) == \E q \in Reqs : At(q, "inserted") /\ Stored(reg[q].s) = k

\* Broken variant: no unique constraint on users.email.
InsertUnguarded(r) ==
  /\ At(r, "checked")
  /\ reg' = [reg EXCEPT ![r].pc = "inserted"]
  /\ UNCHANGED <<users, created, conflicts>>

Insert(r) ==
  LET k == Stored(reg[r].s) IN
  /\ At(r, "checked")
  /\ ~KeyPending(k) /\ ~KeyTaken(k)
  /\ reg' = [reg EXCEPT ![r].pc = "inserted"]
  /\ UNCHANGED <<users, created, conflicts>>

Refuse(r) ==
  /\ conflicts' = conflicts \cup {reg[r].s}
  /\ reg' = [reg EXCEPT ![r] = Idle]
  /\ UNCHANGED <<users, created>>

\* Broken variants: the INSERT tried again for ever; an answer while the other transaction is still open.
ConflictRetried(r) ==
  At(r, "checked") /\ KeyTaken(Stored(reg[r].s)) /\ UNCHANGED vars
ConflictEarly(r) ==
  LET k == Stored(reg[r].s) IN
  At(r, "checked") /\ (KeyTaken(k) \/ KeyPending(k)) /\ Refuse(r)

\* IntegrityError, rollback, 409.
Conflict(r) ==
  LET k == Stored(reg[r].s) IN
  At(r, "checked") /\ ~KeyPending(k) /\ KeyTaken(k) /\ Refuse(r)

Commit(r) ==
  /\ At(r, "inserted")
  /\ \E id \in Ids :
       /\ \A x \in users : x.id # id
       /\ users' = users \cup
            {[id |-> id, email |-> Stored(reg[r].s), password |-> reg[r].p]}
  /\ reg' = [reg EXCEPT ![r].pc = "committed"]
  /\ UNCHANGED <<created, conflicts>>

\* db.refresh(user) and the answer 201.
Answer(r) ==
  /\ At(r, "committed")
  /\ created' = created \cup {<<reg[r].s, reg[r].p>>}
  /\ reg' = [reg EXCEPT ![r] = Idle]
  /\ UNCHANGED <<users, conflicts>>

\* The process or its connection is lost: an uncommitted row is rolled back, and a
\* committed one stays although nobody was told.
Crash(r) ==
  /\ ~At(r, "idle")
  /\ reg' = [reg EXCEPT ![r] = Idle]
  /\ UNCHANGED <<users, created, conflicts>>

Work(r) == Insert(r) \/ Conflict(r) \/ Commit(r) \/ Answer(r)

Next ==
  \E r \in Reqs :
    \/ Work(r) \/ Crash(r)
    \/ \E s \in Spellings, p \in Passwords : Register(r, s, p)

Spec == Init /\ [][Next]_vars

\* PostgreSQL wakes the waiters for a key in the order of their arrival.
FairSpec == Spec /\ \A r \in Reqs : SF_vars(Work(r))

\* The query of login has no ORDER BY: were there several users, any might be taken.
LoginSucceeds(s, p) == Found(s) # {} /\ \A x \in Found(s) : x.password = p
-------------------------------------------------------------------------------
\* However registrations interleave, crash or differ in capitals, an email has at
\* most one user: what login finds is never a matter of chance.
OneUserPerEmail ==
  \A x, y \in users : Lower[x.email] = Lower[y.email] => x = y

\* A client that was told 201 can log in, with the password it sent and any spelling
\* of its email; of racing registrations only the one whose row was kept is told so.
CreatedCanLogin ==
  \A c \in created : \A s \in Spellings :
    Lower[s] = Lower[c[1]] => LoginSucceeds(s, c[2])

\* A client that was told 409 was told the truth: the email is registered, and not
\* by a registration that came to nothing.
ConflictsAreReal == \A s \in conflicts : Found(s) # {}

\* No registration waits for ever for another one, even for one that died.
RegistrationsEnd == \A r \in Reqs : []<>At(r, "idle")
===============================================================================
