---------------------------- MODULE UploadInitProofs ----------------------------
(***************************************************************************)
(* For every set of requests, every width of the columns and whatever the  *)
(* labels of the enum types: the two rows of an upload are stored together,*)
(* nothing gets past a test, and the name in the storage key is clean.     *)
(***************************************************************************)
EXTENDS UploadInit, SequenceTheorems, WellFoundedInduction, TLAPS

\* What the open transaction has written and what is committed, at each statement.
RowsInv ==
  /\ pending = CASE pc = "sessions" -> {"file"}
                 [] pc = "commit" -> {"file", "session"}
                 [] OTHER -> {}
  /\ stored \in {{}, {"file", "session"}}
  /\ stored # {} => pc \in {"reload", "201", "500", "lost"}
  /\ pc \in {"reload", "201"} => stored # {}

\* How far a request came says which tests it has passed.
PassedInv ==
  /\ pc \in {"tests", "files", "sessions", "commit"} => InDto(payload)
  /\ pc \in {"files", "sessions", "commit"} => Allowed(payload)
  /\ pc \in {"sessions", "commit"} => FileFits(payload)
  /\ pc = "commit" => SessionFits(payload)

\* What is stored has passed every test of the DTO and the handler and is not cut by a
\* column; in particular its name is neither empty, "." nor "..".
StoredPassed ==
  stored # {} => Accepted(payload) /\ FileFits(payload) /\ SessionFits(payload)

IInv == TypeOK /\ RowsInv /\ PassedInv /\ StoredPassed

LEMMA IInvInit == Init => IInv
  BY DEF Init, IInv, TypeOK, RowsInv, PassedInv, StoredPassed

\* An answer, or the lack of one, leaves the rows as they are: 201 comes after they were
\* stored, and 422 before.
LEMMA AnswerKeeps ==
  ASSUME IInv, NEW status \in {"201", "422", "500", "lost"}, Answer(status),
         status = "201" => pc = "reload",
         pc \notin {"201", "422", "500", "lost"},
         status = "422" => pc # "reload"
  PROVE  IInv'
  <1>1. /\ pc' = status /\ pending' = {} /\ payload' = payload /\ labels' = labels
        /\ stored' = stored
    BY DEF Answer, given
  <1>2. TypeOK'
    BY <1>1 DEF IInv, TypeOK
  <1>3. RowsInv' /\ PassedInv'
    BY <1>1 DEF IInv, RowsInv, PassedInv
  <1>4. StoredPassed'
    BY <1>1 DEF IInv, StoredPassed, Accepted, InDto, Allowed, FileFits, SessionFits
  <1> QED BY <1>2, <1>3, <1>4 DEF IInv

\* The statements of the transaction that go through, in their order.
LEMMA StatementsKeep ==
  ASSUME IInv, ReadMembership \/ TestPayload \/ InsertFile \/ InsertSession \/ Commit,
         pc' \notin {"422", "500"}
  PROVE  IInv'
  <1>1. payload' = payload /\ labels' = labels
    BY DEF ReadMembership, TestPayload, InsertFile, InsertSession, Commit, Answer, given
  <1> USE DEF IInv, TypeOK, RowsInv, PassedInv, StoredPassed, Accepted
  <1>2. CASE ReadMembership
    <2>1. pc' = "tests" /\ pc = "start" /\ InDto(payload) /\ UNCHANGED <<pending, stored>>
      BY <1>2 DEF ReadMembership, Answer
    <2> QED BY <1>1, <2>1
  <1>3. CASE TestPayload
    <2>1. pc' = "files" /\ pc = "tests" /\ Allowed(payload) /\ UNCHANGED <<pending, stored>>
      BY <1>3 DEF TestPayload, Answer
    <2> QED BY <1>1, <2>1
  <1>4. CASE InsertFile
    <2>1. /\ pc' = "sessions" /\ pc = "files" /\ FileFits(payload)
          /\ pending' = {"file"} /\ stored' = stored
      BY <1>4 DEF InsertFile, Answer
    <2> QED BY <1>1, <2>1
  <1>5. CASE InsertSession
    <2>1. /\ pc' = "commit" /\ pc = "sessions" /\ SessionFits(payload)
          /\ pending' = pending \cup {"session"} /\ stored' = stored
      BY <1>5 DEF InsertSession, Answer
    <2> QED BY <1>1, <2>1
  <1>6. CASE Commit
    <2>1. pc' = "reload" /\ pc = "commit" /\ pending' = {} /\ stored' = stored \cup pending
      BY <1>6 DEF Commit
    <2> QED BY <1>1, <2>1
  <1> QED BY <1>2, <1>3, <1>4, <1>5, <1>6

\* A step either answers or is a statement that goes through.
LEMMA IInvStep == IInv /\ [Next]_vars => IInv'
  <1> SUFFICES ASSUME IInv, [Next]_vars PROVE IInv'
    OBVIOUS
  <1>1. CASE UNCHANGED vars
    BY <1>1 DEF vars, IInv, TypeOK, RowsInv, PassedInv, StoredPassed
  <1>2. CASE RefuseBody \/ Reload \/ Crash
    BY <1>2, AnswerKeeps DEF RefuseBody, Reload, Crash
  <1>3. CASE ReadMembership \/ TestPayload \/ InsertFile \/ InsertSession \/ Commit
    <2>1. CASE pc' \in {"422", "500"}
      <3>1. /\ pc \in {"start", "tests", "files", "sessions"}
            /\ \E status \in {"422", "500"} : Answer(status)
        BY <1>3, <2>1
           DEF ReadMembership, TestPayload, InsertFile, InsertSession, Commit, Answer
      <3> QED BY <3>1, AnswerKeeps
    <2>2. CASE pc' \notin {"422", "500"}
      BY <1>3, <2>2, StatementsKeep
    <2> QED BY <2>1, <2>2
  <1> QED BY <1>1, <1>2, <1>3 DEF Next

LEMMA IInvAlways == Spec => []IInv
  BY IInvInit, IInvStep, PTL DEF Spec

\* Every variable keeps its type, and no row waits for a transaction that has ended.
THEOREM InitTyped == Spec => []TypeOK
  <1>1. IInv => TypeOK
    BY DEF IInv
  <1> QED BY <1>1, IInvAlways, PTL

\* Whichever statement fails, the one after the commit included, and wherever the
\* process dies, the File and the UploadSession are stored together; a 201 and a 422
\* say truly whether they are (initialize_upload).
THEOREM BothRowsOrNone == Spec => []NoHalfUpload
  <1>1. IInv => NoHalfUpload
    BY DEF IInv, RowsInv, NoHalfUpload
  <1> QED BY <1>1, IInvAlways, PTL

\* No order of statements, refusals and crashes gets a request past a test
\* (UploadInitializeRequest, initialize_upload).
THEOREM NothingSlipsThrough == Spec => []StoredPassed
  <1>1. IInv => StoredPassed
    BY DEF IInv
  <1> QED BY <1>1, IInvAlways, PTL

-------------------------------------------------------------------------------
(***************************************************************************)
(* The name in the storage key.                                            *)
(***************************************************************************)
\* What Least and Greatest choose is there: the numbers are well-founded.
LEMMA LeastChosen ==
  ASSUME NEW S, \E l \in S : \A n \in S : l <= n
  PROVE  Least(S) \in S /\ \A n \in S : Least(S) <= n
  BY DEF Least

LEMMA GreatestChosen ==
  ASSUME NEW S, \E l \in S : \A n \in S : l >= n
  PROVE  Greatest(S) \in S /\ \A n \in S : Greatest(S) >= n
  BY DEF Greatest

LEMMA LeastIs ==
  ASSUME NEW S \in SUBSET Nat, S # {}
  PROVE  Least(S) \in S /\ \A n \in S : Least(S) <= n
  <1> DEFINE R == OpToRel(<, Nat)
  <1>1. \A n, m \in Nat : n < m => <<n, m>> \in R
    BY DEF OpToRel
  <1>2. IsWellFoundedOn(R, Nat)
    BY NatLessThanWellFounded
  <1> HIDE DEF R
  <1>3. PICK m \in S : \A n \in S : ~(<<n, m>> \in R)
    BY <1>2, WFMin
  <1>4. \A n \in S : m <= n
    <2>1. TAKE n \in S
    <2>2. n \in Nat /\ m \in Nat /\ ~(n < m)
      BY <1>1, <1>3
    <2> QED BY <2>2
  <1>5. \E l \in S : \A n \in S : l <= n
    BY <1>4
  <1> QED BY <1>5, LeastChosen

LEMMA GreatestIs ==
  ASSUME NEW b \in Nat, NEW S \in SUBSET (0 .. b), S # {}
  PROVE  Greatest(S) \in S /\ \A n \in S : Greatest(S) >= n
  <1> DEFINE T == {b - n : n \in S}
  <1>0. \A n \in S : n \in 0 .. b
    OBVIOUS
  <1>1. T \in SUBSET Nat /\ T # {}
    <2>1. \A n \in S : b - n \in Nat
      BY <1>0
    <2> QED BY <2>1
  <1>2. Least(T) \in T /\ \A t \in T : Least(T) <= t
    BY <1>1, LeastIs
  <1>3. PICK m \in S : Least(T) = b - m
    BY <1>2
  <1>4. \A n \in S : m >= n
    <2>1. TAKE n \in S
    <2>2. b - n \in T
      OBVIOUS
    <2>3. b - m <= b - n
      BY <1>2, <1>3, <2>2
    <2> QED BY <1>0, <2>3
  <1>5. \E l \in S : \A n \in S : l >= n
    BY <1>4
  <1> QED BY <1>5, GreatestChosen

\* The name of a path is a stretch of it without a slash, and nothing but slashes and
\* dots follow.
LEMMA PathNameIs ==
  ASSUME NEW f \in Seq(Chars), PathName(f) # <<>>
  PROVE  \E s, e \in 1 .. Len(f) :
           /\ s <= e
           /\ PathName(f) = SubSeq(f, s, e)
           /\ \A k \in s .. e : f[k] # "/"
           /\ \A k \in e + 1 .. Len(f) : f[k] \in {"/", "."}
  <1> DEFINE kept == {k \in DOMAIN f : ~Dropped(f, k)}
             e == Greatest(kept)
             slashes == {k \in 1 .. e : f[k] = "/"}
             g == Greatest(slashes \cup {0})
  <1>0. DOMAIN f = 1 .. Len(f) /\ Len(f) \in Nat
    OBVIOUS
  <1>1. kept # {} /\ PathName(f) = SubSeq(f, g + 1, e)
    BY DEF PathName
  <1>2. e \in kept /\ \A k \in kept : e >= k
    <2>1. kept \in SUBSET (0 .. Len(f))
      BY <1>0
    <2> HIDE DEF kept
    <2> QED BY <1>0, <1>1, <2>1, GreatestIs
  <1>3. e \in 1 .. Len(f) /\ f[e] # "/"
    BY <1>0, <1>2 DEF Dropped
  <1> HIDE DEF e
  <1>4. g \in slashes \cup {0} /\ \A k \in slashes : g >= k
    <2>1. slashes \cup {0} \in SUBSET (0 .. e) /\ e \in Nat
      BY <1>3
    <2> HIDE DEF slashes
    <2> QED BY <2>1, GreatestIs
  <1> HIDE DEF g
  <1>5. g + 1 \in 1 .. Len(f) /\ e \in 1 .. Len(f) /\ g + 1 <= e
    BY <1>3, <1>4
  <1>6. \A k \in (g + 1) .. e : f[k] # "/"
    BY <1>3, <1>4
  <1>7. \A k \in e + 1 .. Len(f) : f[k] \in {"/", "."}
    <2>1. TAKE k \in e + 1 .. Len(f)
    <2>2. k \in DOMAIN f /\ k \notin kept
      BY <1>0, <1>2, <1>3
    <2> QED BY <2>2 DEF Dropped
  <1> QED BY <1>1, <1>5, <1>6, <1>7

\* Stripping leaves a stretch that neither begins nor ends with a space, and only
\* spaces after it.
LEMMA StripIs ==
  ASSUME NEW f \in Seq(Chars), Strip(f) # <<>>
  PROVE  \E a, b \in 1 .. Len(f) :
           /\ a <= b
           /\ Strip(f) = SubSeq(f, a, b)
           /\ f[a] # "space" /\ f[b] # "space"
           /\ \A k \in b + 1 .. Len(f) : f[k] = "space"
  <1> DEFINE solid == {k \in DOMAIN f : f[k] # "space"}
  <1>0. DOMAIN f = 1 .. Len(f) /\ Len(f) \in Nat
    OBVIOUS
  <1>1. solid # {} /\ Strip(f) = SubSeq(f, Least(solid), Greatest(solid))
    BY DEF Strip
  <1>2. /\ Least(solid) \in solid /\ Greatest(solid) \in solid
        /\ \A k \in solid : Least(solid) <= k /\ Greatest(solid) >= k
    <2>1. solid \in SUBSET (0 .. Len(f))
      BY <1>0
    <2> HIDE DEF solid
    <2>2. solid \in SUBSET Nat
      BY <1>0, <2>1
    <2> QED BY <1>0, <1>1, <2>1, <2>2, LeastIs, GreatestIs
  <1>3. /\ Least(solid) \in 1 .. Len(f) /\ f[Least(solid)] # "space"
        /\ Greatest(solid) \in 1 .. Len(f) /\ f[Greatest(solid)] # "space"
    BY <1>0, <1>2
  <1>4. \A k \in Greatest(solid) + 1 .. Len(f) : f[k] = "space"
    <2>1. TAKE k \in Greatest(solid) + 1 .. Len(f)
    <2>2. k \in 1 .. Len(f) /\ ~(Greatest(solid) >= k)
      BY <1>0, <1>3
    <2> QED BY <1>0, <1>2, <2>2
  <1> QED BY <1>1, <1>2, <1>3, <1>4

\* A stretch of a sequence.
LEMMA StretchIs ==
  ASSUME NEW f \in Seq(Chars), NEW s \in 1 .. Len(f), NEW e \in 1 .. Len(f), s <= e
  PROVE  /\ SubSeq(f, s, e) \in Seq(Chars)
         /\ Len(SubSeq(f, s, e)) = e - s + 1
         /\ DOMAIN SubSeq(f, s, e) = 1 .. e - s + 1
         /\ \A k \in 1 .. e - s + 1 : SubSeq(f, s, e)[k] = f[s + k - 1]
  <1>1. \A k \in s .. e : f[k] \in Chars
    OBVIOUS
  <1>2. /\ SubSeq(f, s, e) \in Seq(Chars)
        /\ Len(SubSeq(f, s, e)) = e - s + 1
        /\ \A k \in 1 .. e - s + 1 : SubSeq(f, s, e)[k] = f[s + k - 1]
    BY <1>1, SubSeqProperties
  <1> QED BY <1>2

\* Both together: what is stripped of a path's name is a stretch of the path as well.
LEMMA SafeFilenameIs ==
  ASSUME NEW f \in Seq(Chars), SafeFilename(f) # <<>>
  PROVE  /\ \E i, j \in DOMAIN f :
              /\ SubSeq(f, i, j) = SafeFilename(f)
              /\ \A k \in j + 1 .. Len(f) : f[k] \in {"/", ".", "space"}
         /\ \A k \in DOMAIN SafeFilename(f) : SafeFilename(f)[k] # "/"
         /\ SafeFilename(f)[1] # "space" /\ SafeFilename(f)[Len(SafeFilename(f))] # "space"
  <1>1. SafeFilename(f) = Strip(PathName(f))
    BY DEF SafeFilename
  <1>2. PathName(f) # <<>>
    <2>1. SUFFICES Strip(<<>>) = <<>>
      BY <1>1
    <2>2. {k \in DOMAIN <<>> : <<>>[k] # "space"} = {}
      OBVIOUS
    <2> QED BY <2>2 DEF Strip
  <1>3. PICK s \in 1 .. Len(f), e \in 1 .. Len(f) :
          /\ s <= e
          /\ PathName(f) = SubSeq(f, s, e)
          /\ \A k \in s .. e : f[k] # "/"
          /\ \A k \in e + 1 .. Len(f) : f[k] \in {"/", "."}
    BY <1>2, PathNameIs
  <1>4. /\ PathName(f) \in Seq(Chars) /\ Len(PathName(f)) = e - s + 1
        /\ \A k \in 1 .. e - s + 1 : PathName(f)[k] = f[s + k - 1]
    BY <1>3, StretchIs
  <1>5. PICK a \in 1 .. Len(PathName(f)), b \in 1 .. Len(PathName(f)) :
          /\ a <= b
          /\ SafeFilename(f) = SubSeq(PathName(f), a, b)
          /\ PathName(f)[a] # "space" /\ PathName(f)[b] # "space"
          /\ \A k \in b + 1 .. Len(PathName(f)) : PathName(f)[k] = "space"
    BY <1>1, <1>4, StripIs
  <1>6. /\ Len(SafeFilename(f)) = b - a + 1 /\ DOMAIN SafeFilename(f) = 1 .. b - a + 1
        /\ \A k \in 1 .. b - a + 1 : SafeFilename(f)[k] = PathName(f)[a + k - 1]
    BY <1>4, <1>5, StretchIs
  <1>7. /\ s + a - 1 \in 1 .. Len(f) /\ s + b - 1 \in 1 .. Len(f)
        /\ \A k \in (s + b - 1) + 1 .. Len(f) : f[k] \in {"/", ".", "space"}
    <2>1. s + a - 1 \in 1 .. Len(f) /\ s + b - 1 \in 1 .. Len(f)
      BY <1>3, <1>4, <1>5
    <2>2. ASSUME NEW k \in (s + b - 1) + 1 .. Len(f)
          PROVE  f[k] \in {"/", ".", "space"}
      <3>1. CASE k \in e + 1 .. Len(f)
        BY <1>3, <3>1
      <3>2. CASE k \notin e + 1 .. Len(f)
        <4>1. /\ k - s + 1 \in b + 1 .. Len(PathName(f))
              /\ k - s + 1 \in 1 .. e - s + 1
              /\ s + (k - s + 1) - 1 = k
          BY <1>4, <3>2
        <4>2. f[k] = PathName(f)[k - s + 1]
          BY <1>4, <4>1
        <4> QED BY <1>5, <4>1, <4>2
      <3> QED BY <3>1, <3>2
    <2> QED BY <2>1, <2>2
  <1>8. SafeFilename(f) = SubSeq(f, s + a - 1, s + b - 1)
    <2>1. a \in 1 .. e - s + 1 /\ b \in 1 .. e - s + 1
      BY <1>4
    <2>2. SubSeq(SubSeq(f, s, e), a, b) = SubSeq(f, s + a - 1, s + b - 1)
      BY <2>1, SubSeqOfSubSeq
    <2> QED BY <1>3, <1>5, <2>2
  <1>9. ASSUME NEW k \in DOMAIN SafeFilename(f)
        PROVE  SafeFilename(f)[k] # "/"
    <2>1. k \in 1 .. b - a + 1 /\ SafeFilename(f)[k] = PathName(f)[a + k - 1]
      BY <1>6
    <2>2. a + k - 1 \in 1 .. e - s + 1 /\ s + (a + k - 1) - 1 \in s .. e
      BY <1>4, <2>1
    <2> QED BY <1>3, <1>4, <2>1, <2>2
  <1>10. SafeFilename(f)[1] # "space" /\ SafeFilename(f)[Len(SafeFilename(f))] # "space"
    <2>1. /\ 1 \in 1 .. b - a + 1 /\ a + 1 - 1 = a
          /\ b - a + 1 \in 1 .. b - a + 1 /\ a + (b - a + 1) - 1 = b
      BY <1>4, <1>5
    <2>2. /\ SafeFilename(f)[1] = PathName(f)[a]
          /\ SafeFilename(f)[b - a + 1] = PathName(f)[b]
      BY <1>6, <2>1
    <2> QED BY <1>5, <1>6, <2>2
  <1>11. DOMAIN f = 1 .. Len(f)
    OBVIOUS
  <1> QED BY <1>7, <1>8, <1>9, <1>10, <1>11

\* No path a client may send, however many slashes, dots and spaces it has, makes a
\* storage key with another slash in it or a name that is "." or ".."
\* (_safe_filename, initialize_upload).
THEOREM StoredNamesAreClean == Spec => []NamesAreClean
  <1>1. IInv => NamesAreClean
    <2> SUFFICES ASSUME IInv, stored # {} PROVE NamesAreClean
      BY DEF NamesAreClean
    <2>1. payload.name \in Seq(Chars)
      BY NameAssumption DEF IInv, TypeOK
    <2>2. SafeFilename(payload.name) \notin {<<>>, <<".">>, <<".", ".">>}
      BY DEF IInv, StoredPassed, Accepted, Allowed, NameRefused
    <2> QED BY <2>1, <2>2, SafeFilenameIs DEF NamesAreClean
  <1> QED BY <1>1, IInvAlways, PTL
===============================================================================
