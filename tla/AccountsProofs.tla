----------------------------- MODULE AccountsProofs -----------------------------
(***************************************************************************)
(* For any number of registrations, emails and passwords: an email has at  *)
(* most one user, and the answers to a registration are true.              *)
(***************************************************************************)
EXTENDS Accounts, TLAPS

\* A registration at work knows its email and password.
ShapeInv ==
  \A r \in Reqs : ~At(r, "idle") => reg[r].s \in Spellings /\ reg[r].p \in Passwords

\* Rows are stored in lower case, one per key; a row about to be committed is the
\* only one with its key.
KeyInv ==
  /\ \A x \in users : Lower[x.email] = x.email
  /\ \A x, y \in users : x.email = y.email => x = y
  /\ \A r \in Reqs : At(r, "inserted") =>
       /\ ~KeyTaken(Stored(reg[r].s))
       /\ \A q \in Reqs : At(q, "inserted") /\ Stored(reg[q].s) = Stored(reg[r].s) => q = r

HasRow(s, p) == \E x \in users : x.email = Stored(s) /\ x.password = p

\* Whoever has been or is about to be told 201 has a row, and so has, with whatever
\* password, the email of whoever was told 409.
AnswerInv ==
  /\ \A r \in Reqs : At(r, "committed") => HasRow(reg[r].s, reg[r].p)
  /\ \A c \in created : HasRow(c[1], c[2])
  /\ \A s \in conflicts : Found(s) # {}

IInv == TypeOK /\ ShapeInv /\ KeyInv /\ AnswerInv

\* The strengthened invariant holds initially.
LEMMA IInvInit == Init => IInv
  BY DEF Init, IInv, TypeOK, ShapeInv, KeyInv, AnswerInv, RegRow, Idle, At

\* Register and the abandoning of a registration leave rows and keys alone.
LEMMA IInvRegister ==
  ASSUME IInv, NEW r \in Reqs, NEW s \in Spellings, NEW p \in Passwords, Register(r, s, p)
  PROVE  IInv'
<1>1. /\ users' = users /\ created' = created
      /\ \/ conflicts' = conflicts \cup {s} /\ reg' = reg /\ Found(s) # {}
         \/ /\ reg' = [reg EXCEPT ![r] = [pc |-> "checked", s |-> s, p |-> p]]
            /\ conflicts' = conflicts
  BY DEF Register
<1>2. TypeOK'
  BY <1>1 DEF IInv, TypeOK, RegRow
<1>3. ShapeInv'
  BY <1>1 DEF IInv, TypeOK, ShapeInv, RegRow, At
<1>4. KeyInv'
  BY <1>1 DEF IInv, TypeOK, KeyInv, RegRow, At, Stored, KeyTaken
<1>5. AnswerInv'
  BY <1>1 DEF IInv, TypeOK, AnswerInv, RegRow, At, Stored, HasRow, Found
<1> QED BY <1>2, <1>3, <1>4, <1>5 DEF IInv

\* The row of an INSERT that went through is the only one with its key.
LEMMA IInvInsert ==
  ASSUME IInv, NEW r \in Reqs, Insert(r)
  PROVE  IInv'
<1>1. /\ users' = users /\ created' = created /\ conflicts' = conflicts
      /\ reg' = [reg EXCEPT ![r].pc = "inserted"]
      /\ At(r, "checked")
      /\ ~KeyPending(Stored(reg[r].s)) /\ ~KeyTaken(Stored(reg[r].s))
  BY DEF Insert
<1>2. TypeOK'
  BY <1>1 DEF IInv, TypeOK, RegRow
<1>3. ShapeInv'
  BY <1>1 DEF IInv, TypeOK, ShapeInv, RegRow, At
<1>4. KeyInv'
  BY <1>1 DEF IInv, TypeOK, KeyInv, RegRow, At, Stored, KeyTaken, KeyPending
<1>5. AnswerInv'
  BY <1>1 DEF IInv, TypeOK, AnswerInv, RegRow, At, Stored, HasRow, Found
<1> QED BY <1>2, <1>3, <1>4, <1>5 DEF IInv

\* A refused INSERT met a row with the email it was refused for.
LEMMA IInvConflict ==
  ASSUME IInv, NEW r \in Reqs, Conflict(r)
  PROVE  IInv'
<1>1. /\ users' = users /\ created' = created
      /\ conflicts' = conflicts \cup {reg[r].s}
      /\ reg' = [reg EXCEPT ![r] = Idle]
      /\ At(r, "checked") /\ KeyTaken(Stored(reg[r].s))
  BY DEF Conflict, Refuse
<1>2. reg[r].s \in Spellings
  BY <1>1 DEF IInv, ShapeInv, At
<1>3. Found(reg[r].s) # {}
  <2>1. PICK x \in users : x.email = Lower[reg[r].s]
    BY <1>1 DEF KeyTaken, Stored
  <2> QED BY <2>1, <1>2, LowerAssumption DEF Found
<1>4. TypeOK'
  BY <1>1, <1>2 DEF IInv, TypeOK, RegRow, Idle
<1>5. ShapeInv'
  BY <1>1 DEF IInv, TypeOK, ShapeInv, RegRow, At, Idle
<1>6. KeyInv'
  BY <1>1 DEF IInv, TypeOK, KeyInv, RegRow, At, Idle, Stored, KeyTaken
<1>7. AnswerInv'
  BY <1>1, <1>3 DEF IInv, TypeOK, AnswerInv, RegRow, At, Idle, Stored, HasRow, Found
<1> QED BY <1>4, <1>5, <1>6, <1>7 DEF IInv

\* A committed row is in lower case and new.
LEMMA IInvCommit ==
  ASSUME IInv, NEW r \in Reqs, Commit(r)
  PROVE  IInv'
<1>1. PICK id \in Ids :
        users' = users \cup
          {[id |-> id, email |-> Stored(reg[r].s), password |-> reg[r].p]}
  BY DEF Commit
<1> DEFINE row == [id |-> id, email |-> Stored(reg[r].s), password |-> reg[r].p]
<1>2. /\ created' = created /\ conflicts' = conflicts
      /\ reg' = [reg EXCEPT ![r].pc = "committed"]
      /\ At(r, "inserted")
  BY DEF Commit
<1>3. reg[r].s \in Spellings /\ reg[r].p \in Passwords
  BY <1>2 DEF IInv, ShapeInv, At
<1>4. row.email = Stored(reg[r].s) /\ row.password = reg[r].p /\ row \in User
  BY <1>3, LowerAssumption DEF User, Stored
<1>5. Lower[row.email] = row.email
  BY <1>3, <1>4, LowerAssumption DEF Stored
<1>6. /\ \A x \in users : x.email # row.email
      /\ \A q \in Reqs : At(q, "inserted") /\ Stored(reg[q].s) = row.email => q = r
  BY <1>2, <1>4 DEF IInv, KeyInv, KeyTaken
<1>7. users' = users \cup {row}
  BY <1>1
<1> HIDE DEF row
<1>8. TypeOK'
  BY <1>2, <1>4, <1>7 DEF IInv, TypeOK, RegRow
<1>9. ShapeInv'
  BY <1>2 DEF IInv, TypeOK, ShapeInv, RegRow, At
<1>10. KeyInv'
  <2>1. \A q \in Reqs : At(q, "inserted")' =>
          q # r /\ At(q, "inserted") /\ reg'[q] = reg[q]
    BY <1>2 DEF IInv, TypeOK, RegRow, At
  <2>2. \A x \in users' : Lower[x.email] = x.email
    BY <1>5, <1>7 DEF IInv, KeyInv
  <2>3. \A x, y \in users' : x.email = y.email => x = y
    BY <1>6, <1>7 DEF IInv, KeyInv
  <2>4. \A q \in Reqs : At(q, "inserted")' =>
          /\ ~KeyTaken(Stored(reg[q].s))'
          /\ \A v \in Reqs : At(v, "inserted")' /\ Stored(reg'[v].s) = Stored(reg'[q].s) => v = q
    BY <2>1, <1>6, <1>7 DEF IInv, KeyInv, KeyTaken, Stored
  <2> QED BY <2>2, <2>3, <2>4 DEF KeyInv, Stored
<1>11. AnswerInv'
  <2> DEFINE RowNow(s, p) == \E x \in users' : x.email = Lower[s] /\ x.password = p
  <2>1. \A s, p : HasRow(s, p) => RowNow(s, p)
    BY <1>7 DEF HasRow, Stored
  <2>2. \A s \in conflicts : \E x \in users' : Lower[x.email] = Lower[s]
    BY <1>7 DEF IInv, AnswerInv, Found
  <2>3. RowNow(reg[r].s, reg[r].p)
    BY <1>4, <1>7 DEF Stored
  <2>4. ASSUME NEW q \in Reqs, reg'[q].pc = "committed"
        PROVE  RowNow(reg'[q].s, reg'[q].p)
    <3>1. CASE q = r
      <4>1. reg'[r].s = reg[r].s /\ reg'[r].p = reg[r].p
        BY <1>2 DEF IInv, TypeOK, RegRow
      <4> QED BY <3>1, <4>1, <2>3
    <3>2. CASE q # r
      <4>1. reg'[q] = reg[q]
        BY <3>2, <1>2 DEF IInv, TypeOK
      <4>2. HasRow(reg[q].s, reg[q].p)
        BY <4>1, <2>4 DEF IInv, AnswerInv, At
      <4> QED BY <4>1, <4>2, <2>1
    <3> QED BY <3>1, <3>2
  <2>5. \A c \in created' : RowNow(c[1], c[2])
    BY <2>1, <1>2 DEF IInv, AnswerInv
  <2>6. \A s \in conflicts' : Found(s)' # {}
    BY <2>2, <1>2 DEF Found
  <2> QED BY <2>4, <2>5, <2>6 DEF AnswerInv, HasRow, Stored, At, Found
<1> QED BY <1>8, <1>9, <1>10, <1>11 DEF IInv

\* 201 is answered for a row that is there.
LEMMA IInvAnswer ==
  ASSUME IInv, NEW r \in Reqs, Answer(r)
  PROVE  IInv'
<1>1. /\ users' = users /\ conflicts' = conflicts
      /\ created' = created \cup {<<reg[r].s, reg[r].p>>}
      /\ reg' = [reg EXCEPT ![r] = Idle]
      /\ At(r, "committed")
  BY DEF Answer
<1>2. reg[r].s \in Spellings /\ reg[r].p \in Passwords /\ HasRow(reg[r].s, reg[r].p)
  BY <1>1 DEF IInv, ShapeInv, AnswerInv, At
<1>3. TypeOK'
  BY <1>1, <1>2 DEF IInv, TypeOK, RegRow, Idle
<1>4. ShapeInv'
  BY <1>1 DEF IInv, TypeOK, ShapeInv, RegRow, At, Idle
<1>5. KeyInv'
  BY <1>1 DEF IInv, TypeOK, KeyInv, RegRow, At, Idle, Stored, KeyTaken
<1>6. AnswerInv'
  BY <1>1, <1>2 DEF IInv, TypeOK, AnswerInv, RegRow, At, Idle, Stored, HasRow, Found
<1> QED BY <1>3, <1>4, <1>5, <1>6 DEF IInv

\* A crash loses what was not committed, and nothing else.
LEMMA IInvCrash ==
  ASSUME IInv, NEW r \in Reqs, Crash(r)
  PROVE  IInv'
<1>1. /\ users' = users /\ created' = created /\ conflicts' = conflicts
      /\ reg' = [reg EXCEPT ![r] = Idle]
  BY DEF Crash
<1>2. TypeOK'
  BY <1>1 DEF IInv, TypeOK, RegRow, Idle
<1>3. ShapeInv'
  BY <1>1 DEF IInv, TypeOK, ShapeInv, RegRow, At, Idle
<1>4. KeyInv'
  BY <1>1 DEF IInv, TypeOK, KeyInv, RegRow, At, Idle, Stored, KeyTaken
<1>5. AnswerInv'
  BY <1>1 DEF IInv, TypeOK, AnswerInv, RegRow, At, Idle, Stored, HasRow, Found
<1> QED BY <1>2, <1>3, <1>4, <1>5 DEF IInv

\* Every step preserves the strengthened invariant.
LEMMA IInvStep == IInv /\ [Next]_vars => IInv'
<1> SUFFICES ASSUME IInv, [Next]_vars PROVE IInv'
  OBVIOUS
<1>1. CASE UNCHANGED vars
  BY <1>1 DEF vars, IInv, TypeOK, ShapeInv, KeyInv, AnswerInv, At, Stored, KeyTaken,
              HasRow, Found
<1>2. CASE Next
  <2>1. PICK r \in Reqs :
          \/ Work(r) \/ Crash(r)
          \/ \E s \in Spellings, p \in Passwords : Register(r, s, p)
    BY <1>2 DEF Next
  <2> QED
    BY <2>1, IInvRegister, IInvInsert, IInvConflict, IInvCommit, IInvAnswer, IInvCrash
       DEF Work
<1> QED BY <1>1, <1>2

\* The strengthened invariant holds in every reachable state.
LEMMA IInvAlways == Spec => []IInv
  BY IInvInit, IInvStep, PTL DEF Spec

\* Every variable keeps its type, for every number of registrations.
THEOREM AccountsTyped == Spec => []TypeOK
<1>1. IInv => TypeOK
  BY DEF IInv
<1> QED BY <1>1, IInvAlways, PTL

\* An email never has two users, whatever the number of registrations, their
\* interleaving and their crashes (register, uq_users_email).
THEOREM OneUser == Spec => []OneUserPerEmail
<1>1. IInv => OneUserPerEmail
  BY DEF IInv, KeyInv, OneUserPerEmail
<1> QED BY <1>1, IInvAlways, PTL

\* A client told 201 can log in with its password, however it spells its email.
THEOREM CreatedMeansLogin == Spec => []CreatedCanLogin
<1>1. IInv => CreatedCanLogin
  <2> SUFFICES ASSUME IInv, NEW c \in created, NEW s \in Spellings, Lower[s] = Lower[c[1]]
               PROVE  LoginSucceeds(s, c[2])
    BY DEF CreatedCanLogin
  <2>1. c[1] \in Spellings
    BY DEF IInv, TypeOK
  <2>2. PICK x \in users : x.email = Lower[c[1]] /\ x.password = c[2]
    BY DEF IInv, AnswerInv, HasRow, Stored
  <2>3. Lower[x.email] = Lower[s]
    BY <2>1, <2>2, LowerAssumption
  <2>4. \A y \in users : Lower[y.email] = Lower[s] => y = x
    BY <2>3 DEF IInv, KeyInv
  <2> QED BY <2>2, <2>3, <2>4 DEF LoginSucceeds, Found
<1> QED BY <1>1, IInvAlways, PTL

\* A client told 409 finds the email registered, then and ever after.
THEOREM ConflictMeansUser == Spec => []ConflictsAreReal
<1>1. IInv => ConflictsAreReal
  BY DEF IInv, AnswerInv, ConflictsAreReal
<1> QED BY <1>1, IInvAlways, PTL
===============================================================================
