----------------------- MODULE ResourceRevisionsProofs -----------------------
(***************************************************************************)
(* Proofs about ResourceRevisions, for any resources and any number of      *)
(* transactions.  The inductive invariant is Inv: the row lock makes what a *)
(* transaction read under it stay true until it writes, so that the rules   *)
(* the triggers check again are never found broken.                         *)
(***************************************************************************)
EXTENDS ResourceRevisions, TLAPS

\* What a transaction that asked for a lock holds and knows.
InputOK ==
  \A w \in Writers :
    /\ write[w].at # "idle" => write[w].on \in Resources
    /\ write[w].form = "insert" => /\ write[w].revision = "snapshot"
                                   /\ write[w].expected = 0
    /\ write[w].at = "check" => lock[write[w].on] = w

Inv ==
  /\ TypeOK
  /\ InputOK
  /\ HeadIsLatest
  /\ HistoryWellFormed
  /\ NoLostUpdate
  /\ ReadsStayCurrent
  /\ NoGuardFires

-----------------------------------------------------------------------------
(* Type correctness.                                                       *)

LEMMA InitType == ASSUME RevisionsAssumption, Init PROVE TypeOK
  BY DEF RevisionsAssumption, Init, TypeOK, NoRow, Idle, Documents, Points,
         Ended, Forms, ResourceKinds, RevisionRecord, TypedRow, WriteRecord

LEMMA EndType ==
  ASSUME TypeOK, NEW w \in Writers, NEW at \in Points, End(w, at)
  PROVE  /\ lock' \in [Resources -> Writers \union {None}]
         /\ write' \in [Writers -> WriteRecord]
  <1>1. [write[w] EXCEPT !.at = at] \in WriteRecord
    BY DEF TypeOK, WriteRecord
  <1> QED
    BY <1>1 DEF TypeOK, End

LEMMA RevisionType ==
  ASSUME TypeOK, NEW w \in Writers
  PROVE  Revision(w, write[w]) \in RevisionRecord
  BY DEF TypeOK, WriteRecord, Revision, RevisionRecord, Captured, Documents

LEMMA WriteType ==
  ASSUME TypeOK, NEW w \in Writers, Write(w)
  PROVE  TypeOK'
  <1> DEFINE q == write[w]
  <1>1. CASE UNCHANGED store
    <2>1. \/ End(w, "done") \/ End(w, "guarded")
      BY <1>1 DEF Write
    <2> QED
      BY <1>1, <2>1, EndType DEF TypeOK, Write, store, Points, Ended
  <1>2. CASE /\ AppendPrepared(w, q)
             /\ typed' = [typed EXCEPT ![q.on] = TypedAfter(q)]
             /\ End(w, "done")
    <2>1. q \in WriteRecord
      BY DEF TypeOK
    <2>2. /\ q.previous + 1 \in Nat
          /\ q.as \in ResourceKinds
      BY <2>1 DEF WriteRecord
    <2>3. \A r \in Resources :
            Append(history[r], Revision(w, q)) \in Seq(RevisionRecord)
      BY RevisionType DEF TypeOK
    <2>4. history' \in [Resources -> Seq(RevisionRecord)]
      BY <1>2, <2>3 DEF AppendPrepared, TypeOK
    <2>5. /\ head' \in [Resources -> Nat]
          /\ kind' \in [Resources -> ResourceKinds \union {"unknown"}]
      BY <1>2, <2>2 DEF AppendPrepared, TypeOK
    <2>6. q.on \in Resources => TypedAfter(q) \in TypedRow
      <3>1. q.on \in Resources => typed[q.on] \in TypedRow
        BY DEF TypeOK
      <3> QED
        BY <2>1, <3>1
        DEF TypedAfter, NoRow, Row, Documents, TypedRow, WriteRecord, Forms
    <2>7. typed' \in [Resources -> TypedRow]
      BY <1>2, <2>6 DEF TypeOK
    <2>8. rewrites' = rewrites
      BY DEF Write
    <2> QED
      BY <1>2, <2>4, <2>5, <2>7, <2>8, EndType DEF TypeOK, Points, Ended
  <1> QED
    BY <1>1, <1>2 DEF Write

\* Every step keeps the types of the variables.
LEMMA NextType ==
  ASSUME RevisionsAssumption, TypeOK, InputOK, [Next]_vars
  PROVE  TypeOK'
  <1>1. ASSUME NEW w \in Writers, NEW r \in Resources, NEW form \in Forms,
               NEW as \in ResourceKinds,
               NEW revision \in {"snapshot", "whiteout"},
               NEW document \in {w, None},
               Call(w, r, form, as, revision, document)
        PROVE  TypeOK'
    <2>1. head[r] \in Nat
      BY DEF TypeOK
    <2>2. [at |-> "lock", on |-> r, form |-> form, as |-> as,
           revision |-> revision, document |-> document,
           expected |-> IF form = "insert" THEN 0 ELSE head[r],
           previous |-> 0] \in WriteRecord
      BY <2>1 DEF WriteRecord, Points, Documents
    <2> QED
      BY <1>1, <2>2 DEF TypeOK, Call, store
  <1>2. ASSUME NEW w \in Writers, Lock(w)
        PROVE  TypeOK'
    <2>1. [write[w] EXCEPT !.at = "check"] \in WriteRecord
      BY DEF TypeOK, WriteRecord, Points
    <2> QED
      BY <1>2, <2>1 DEF TypeOK, Lock, store
  <1>3. ASSUME NEW w \in Writers, Check(w)
        PROVE  TypeOK'
    <2>1. CASE Admits(write[w])
      <3>1. head[write[w].on] \in Nat
        BY <1>3 DEF TypeOK, InputOK, Check
      <3>2. write[w] \in WriteRecord
        BY DEF TypeOK
      <3>3. [write[w] EXCEPT !.at = "write", !.previous = head[write[w].on]]
              \in WriteRecord
        BY <3>1, <3>2 DEF WriteRecord, Points
      <3>4. write' = [write EXCEPT ![w] =
              [@ EXCEPT !.at = "write", !.previous = head[write[w].on]]]
        BY <1>3, <2>1 DEF Check, TypeOK
      <3> QED
        BY <1>3, <2>1, <3>3, <3>4 DEF TypeOK, Check, store
    <2>2. CASE ~Admits(write[w])
      BY <1>3, <2>2, EndType DEF TypeOK, Check, store, Points, Ended
    <2> QED
      BY <2>1, <2>2
  <1>4. ASSUME NEW w \in Writers, Abort(w)
        PROVE  TypeOK'
    BY <1>4, EndType DEF TypeOK, Abort, store, Points, Ended
  <1>5. ASSUME NEW r \in Resources, Rewrite(r)
        PROVE  TypeOK'
    <2> typed[r] \in TypedRow
      BY DEF TypeOK
    <2>1. [typed[r] EXCEPT !.document = Foreign] \in TypedRow
      BY DEF TypedRow, Documents
    <2>2. NoRow \in TypedRow
      BY DEF NoRow, TypedRow, Documents
    <2>3. rewrites + 1 \in 0 .. MaxRewrites
      BY <1>5 DEF RevisionsAssumption, TypeOK, Rewrite
    <2>4. typed' \in [Resources -> TypedRow]
      BY <1>5, <2>1, <2>2 DEF TypeOK, Rewrite
    <2> QED
      BY <1>5, <2>3, <2>4 DEF TypeOK, Rewrite
  <1>6. CASE UNCHANGED vars
    BY <1>6 DEF TypeOK, vars
  <1> QED
    BY <1>1, <1>2, <1>3, <1>4, <1>5, <1>6, WriteType DEF Next, Transaction

-----------------------------------------------------------------------------
(* The inductive invariant.                                                *)

LEMMA InitInv == ASSUME RevisionsAssumption, Init PROVE Inv
  <1>1. TypeOK
    BY InitType
  <1>2. InputOK
    BY DEF Init, InputOK, Idle
  <1>3. /\ HeadIsLatest
        /\ HistoryWellFormed
        /\ NoLostUpdate
    BY DEF Init, HeadIsLatest, HistoryWellFormed, NoLostUpdate
  <1>4. ReadsStayCurrent /\ NoGuardFires
    BY DEF Init, ReadsStayCurrent, NoGuardFires, Idle
  <1> QED
    BY <1>1, <1>2, <1>3, <1>4 DEF Inv

\* A transaction that is about to write finds nothing its guards refuse.
LEMMA AdmittedIsAllowed ==
  ASSUME Inv, NEW w \in Writers, write[w].at = "write", ~Reuses(write[w])
  PROVE  /\ GuardsAllow(write[w])
         /\ write[w].previous = Len(history[write[w].on])
         /\ write[w].expected = write[w].previous
         /\ write[w].as = "activity" => history[write[w].on] = <<>>
         /\ write[w].on \in Resources
  <1> DEFINE q == write[w]
             r == q.on
  <1>1. /\ r \in Resources
        /\ q.form = "insert" => q.revision = "snapshot" /\ q.expected = 0
    BY DEF Inv, InputOK
  <1>2. /\ q.previous = head[r]
        /\ Admits(q)
    BY DEF Inv, ReadsStayCurrent
  <1>3. /\ head[r] = Len(history[r])
        /\ history[r] \in Seq(RevisionRecord)
        /\ Len(history[r]) \in Nat
        /\ q.as \in ResourceKinds
    BY <1>1 DEF Inv, HeadIsLatest, TypeOK, WriteRecord
  <1>4. Len(history[r]) = 0 => history[r] = <<>>
    BY <1>3
  <1>5. CASE q.form = "insert"
    <2>1. kind[r] = "unknown"
      BY <1>5 DEF Reuses
    <2>2. history[r] = <<>>
      BY <1>1, <2>1 DEF Inv, HistoryWellFormed
    <2> QED
      BY <1>1, <1>2, <1>3, <1>5, <2>2 DEF GuardsAllow
  <1>6. CASE q.form # "insert"
    <2>1. Appendable(q)
      BY <1>2, <1>6 DEF Admits
    <2> QED
      BY <1>1, <1>2, <1>3, <1>4, <2>1 DEF GuardsAllow, Appendable, HeadIs
  <1> QED
    BY <1>5, <1>6

\* A step that leaves the store alone keeps what the store's histories keep.
LEMMA StoreKept ==
  ASSUME Inv, UNCHANGED store
  PROVE  /\ HeadIsLatest'
         /\ HistoryWellFormed'
         /\ NoLostUpdate'
  BY DEF Inv, store, HeadIsLatest, HistoryWellFormed, NoLostUpdate

\* What a transaction was admitted for depends on its own resource alone.
LEMMA AdmitsKept ==
  ASSUME NEW w \in Writers, Admits(write[w]), write'[w] = write[w],
         NEW r, r = write[w].on,
         kind'[r] = kind[r], history'[r] = history[r], head'[r] = head[r],
         typed'[r] = typed[r]
  PROVE  Admits(write[w])'
  BY DEF Admits, Appendable, HeadIs, SameTypedState, Agrees

\* Nor does it disturb a transaction whose input and lock it leaves alone.
LEMMA ReadsKept ==
  ASSUME Inv, UNCHANGED store, NEW w \in Writers, write'[w] = write[w],
         write[w].at \in {"check", "write"} =>
           lock'[write[w].on] = lock[write[w].on]
  PROVE  /\ write'[w].at = "write" =>
              /\ lock'[write'[w].on] = w
              /\ write'[w].previous = head'[write'[w].on]
              /\ Admits(write[w])'
         /\ write'[w].at # "guarded"
         /\ write'[w].at # "idle" => write'[w].on \in Resources
         /\ write'[w].form = "insert" => /\ write'[w].revision = "snapshot"
                                         /\ write'[w].expected = 0
         /\ write'[w].at = "check" => lock'[write'[w].on] = w
  <1>1. write[w].at = "write" => Admits(write[w])'
    BY AdmitsKept DEF Inv, ReadsStayCurrent, store
  <1> QED
    BY <1>1 DEF Inv, ReadsStayCurrent, NoGuardFires, InputOK, store

LEMMA CallInv ==
  ASSUME Inv, NEW w \in Writers, NEW r \in Resources, NEW form \in Forms,
         NEW as \in ResourceKinds, NEW revision \in {"snapshot", "whiteout"},
         NEW document \in {w, None}, TypeOK',
         Call(w, r, form, as, revision, document)
  PROVE  Inv'
  <1>1. \A x \in Writers : x # w => write'[x] = write[x]
    BY DEF Call, Inv, TypeOK
  <1>2. /\ write'[w].at = "lock"
        /\ write'[w].on = r
        /\ write'[w].form = "insert" => /\ write'[w].revision = "snapshot"
                                        /\ write'[w].expected = 0
    BY DEF Call, Inv, TypeOK
  <1>3. UNCHANGED store /\ UNCHANGED lock
    BY DEF Call
  <1>4. InputOK' /\ ReadsStayCurrent' /\ NoGuardFires'
    BY <1>1, <1>2, <1>3, ReadsKept DEF InputOK, ReadsStayCurrent, NoGuardFires
  <1> QED
    BY <1>3, <1>4, StoreKept DEF Inv

LEMMA LockInv ==
  ASSUME RevisionsAssumption, Inv, NEW w \in Writers, TypeOK', Lock(w)
  PROVE  Inv'
  <1>1. /\ UNCHANGED store
        /\ \A x \in Writers : x # w => write'[x] = write[x]
    BY DEF Lock, Inv, TypeOK
  <1>2. write[w].on \in Resources
    BY DEF Lock, Inv, InputOK
  <1>3. /\ write'[w].at = "check"
        /\ write'[w].on = write[w].on
        /\ write'[w].form = write[w].form
        /\ write'[w].revision = write[w].revision
        /\ write'[w].expected = write[w].expected
        /\ lock'[write[w].on] = w
    BY <1>2 DEF Lock, Inv, TypeOK, WriteRecord
  <1>4. \A x \in Writers : write[x].at \in {"check", "write"} =>
          lock'[write[x].on] = lock[write[x].on]
    <2>1. \A x \in Writers : write[x].at \in {"check", "write"} =>
            lock[write[x].on] = x /\ write[x].on \in Resources
      BY DEF Inv, InputOK, ReadsStayCurrent
    <2>2. \A x \in Writers : write[x].at \in {"check", "write"} =>
            write[x].on # write[w].on
      BY <2>1 DEF Lock, RevisionsAssumption
    <2> QED
      BY <2>1, <2>2 DEF Lock, Inv, TypeOK
  <1>5. InputOK' /\ ReadsStayCurrent' /\ NoGuardFires'
    BY <1>1, <1>2, <1>3, <1>4, ReadsKept
    DEF InputOK, ReadsStayCurrent, NoGuardFires, Inv
  <1> QED
    BY <1>1, <1>5, StoreKept DEF Inv

\* Releasing a lock takes it from nobody else.
LEMMA EndKeepsOthers ==
  ASSUME Inv, NEW w \in Writers, NEW at \in Ended \ {"guarded"}, End(w, at)
  PROVE  /\ \A x \in Writers : x # w => write'[x] = write[x]
         /\ \A x \in Writers \ {w} : write[x].at \in {"check", "write"} =>
              lock'[write[x].on] = lock[write[x].on]
         /\ write'[w].at = at
         /\ write'[w].on = write[w].on
         /\ write'[w].form = write[w].form
         /\ write'[w].revision = write[w].revision
         /\ write'[w].expected = write[w].expected
  <1>1. \A x \in Writers : write[x].at \in {"check", "write"} =>
          lock[write[x].on] = x /\ write[x].on \in Resources
    BY DEF Inv, InputOK, ReadsStayCurrent
  <1> QED
    BY <1>1 DEF End, Inv, TypeOK, WriteRecord

\* A transaction that ends without writing keeps the invariant.
LEMMA EndInv ==
  ASSUME Inv, NEW w \in Writers, NEW at \in Ended \ {"guarded"}, End(w, at),
         UNCHANGED store, TypeOK', write[w].at # "idle"
  PROVE  Inv'
  <1>1. InputOK' /\ ReadsStayCurrent' /\ NoGuardFires'
    BY EndKeepsOthers, ReadsKept
    DEF InputOK, ReadsStayCurrent, NoGuardFires, Inv, Ended
  <1> QED
    BY <1>1, StoreKept DEF Inv

LEMMA CheckInv ==
  ASSUME Inv, NEW w \in Writers, TypeOK', Check(w)
  PROVE  Inv'
  <1>1. CASE ~Admits(write[w])
    BY <1>1, EndInv DEF Check, Ended
  <1>2. CASE Admits(write[w])
    <2>1. /\ UNCHANGED store
          /\ UNCHANGED lock
          /\ \A x \in Writers : x # w => write'[x] = write[x]
      BY <1>2 DEF Check, Inv, TypeOK
    <2>2. /\ write'[w] = [write[w] EXCEPT !.at = "write",
                                          !.previous = head[write[w].on]]
          /\ lock[write[w].on] = w
          /\ write[w].on \in Resources
          /\ write[w] \in WriteRecord
      BY <1>2 DEF Check, Inv, TypeOK, InputOK
    <2>3. /\ write'[w].at = "write"
          /\ write'[w].previous = head[write[w].on]
          /\ write'[w].on = write[w].on
          /\ write'[w].form = write[w].form
          /\ write'[w].as = write[w].as
          /\ write'[w].revision = write[w].revision
          /\ write'[w].expected = write[w].expected
      BY <2>2 DEF WriteRecord
    <2>4. Admits(write[w])'
      BY <1>2, <2>1, <2>3
      DEF Admits, Appendable, HeadIs, SameTypedState, Agrees, store
    <2>5. /\ lock'[write'[w].on] = w
          /\ write'[w].previous = head'[write'[w].on]
      BY <2>1, <2>2, <2>3 DEF store
    <2>6. ReadsStayCurrent'
      <3>1. ASSUME NEW x \in Writers, x # w, write'[x].at = "write"
            PROVE  /\ lock'[write'[x].on] = x
                   /\ write'[x].previous = head'[write'[x].on]
                   /\ Admits(write[x])'
        BY <2>1, <3>1, ReadsKept
      <3> QED
        BY <2>4, <2>5, <3>1 DEF ReadsStayCurrent
    <2>7. InputOK'
      <3>1. ASSUME NEW x \in Writers
            PROVE  /\ write'[x].at # "idle" => write'[x].on \in Resources
                   /\ write'[x].form = "insert" =>
                        /\ write'[x].revision = "snapshot"
                        /\ write'[x].expected = 0
                   /\ write'[x].at = "check" => lock'[write'[x].on] = x
        <4>1. CASE x = w
          BY <2>2, <2>3, <4>1 DEF Inv, InputOK
        <4>2. CASE x # w
          BY <2>1, <4>2 DEF Inv, InputOK
        <4> QED
          BY <4>1, <4>2
      <3> QED
        BY <3>1 DEF InputOK
    <2>8. NoGuardFires'
      BY <2>1, <2>3 DEF NoGuardFires, Inv
    <2> QED
      BY <2>1, <2>6, <2>7, <2>8, StoreKept DEF Inv
  <1> QED
    BY <1>1, <1>2

LEMMA RewriteInv ==
  ASSUME Inv, NEW r \in Resources, TypeOK', Rewrite(r)
  PROVE  Inv'
  <1>1. /\ UNCHANGED <<kind, history, head, lock, write>>
        /\ \A s \in Resources : s # r => typed'[s] = typed[s]
    BY DEF Rewrite, Inv, TypeOK
  <1>2. HeadIsLatest' /\ HistoryWellFormed' /\ NoLostUpdate' /\ NoGuardFires'
    BY <1>1 DEF Inv, HeadIsLatest, HistoryWellFormed, NoLostUpdate, NoGuardFires
  <1>3. InputOK'
    BY <1>1 DEF Inv, InputOK
  <1>4. ASSUME NEW w \in Writers, write[w].at = "write"
        PROVE  Admits(write[w])'
    <2>1. Admits(write[w]) /\ write[w].on \in Resources /\ write[w].form \in Forms
      BY <1>4 DEF Inv, ReadsStayCurrent, InputOK, TypeOK, WriteRecord
    <2>2. write[w].on # r
      <3>1. typed[r].present /\ ~RowLocked(r)
        BY DEF Rewrite
      <3>2. CASE write[w].form = "append"
        BY <2>1, <3>1, <3>2 DEF Admits
      <3>3. CASE write[w].form \in {"typed", "insert"}
        BY <1>4, <3>1, <3>3 DEF RowLocked
      <3> QED
        BY <2>1, <3>2, <3>3 DEF Forms
    <2> QED
      BY <1>1, <2>1, <2>2, AdmitsKept
  <1>5. ReadsStayCurrent'
    BY <1>1, <1>4 DEF Inv, ReadsStayCurrent
  <1> QED
    BY <1>2, <1>3, <1>5 DEF Inv

\* The write itself: one revision more, on a resource no one else is writing.
LEMMA WriteInv ==
  ASSUME Inv, NEW w \in Writers, TypeOK', Write(w)
  PROVE  Inv'
  <1> DEFINE q == write[w]
             r == q.on
  <1>1. CASE Reuses(q)
    BY <1>1, EndInv DEF Write, Ended
  <1>2. CASE ~Reuses(q)
    <2>1. /\ GuardsAllow(q)
          /\ q.previous = Len(history[r])
          /\ q.expected = q.previous
          /\ q.as = "activity" => history[r] = <<>>
          /\ r \in Resources
      BY <1>2, AdmittedIsAllowed DEF Write
    <2>2. /\ AppendPrepared(w, q)
          /\ typed' = [typed EXCEPT ![r] = TypedAfter(q)]
          /\ End(w, "done")
      BY <1>2, <2>1 DEF Write
    <2>3. /\ history[r] \in Seq(RevisionRecord)
          /\ Len(history[r]) \in Nat
          /\ history'[r] = Append(history[r], Revision(w, q))
          /\ head'[r] = Len(history[r]) + 1
          /\ kind'[r] = q.as
          /\ q.as \in ResourceKinds
      BY <2>1, <2>2 DEF AppendPrepared, Inv, TypeOK, WriteRecord
    <2>4. /\ Len(history'[r]) = Len(history[r]) + 1
          /\ history'[r][Len(history[r]) + 1] = Revision(w, q)
          /\ \A n \in 1 .. Len(history[r]) : history'[r][n] = history[r][n]
      BY <2>3
    <2>5. \A s \in Resources : s # r => /\ history'[s] = history[s]
                                        /\ head'[s] = head[s]
                                        /\ kind'[s] = kind[s]
                                        /\ typed'[s] = typed[s]
      BY <2>1, <2>2 DEF AppendPrepared, Inv, TypeOK
    <2>6. HeadIsLatest'
      BY <2>3, <2>4, <2>5 DEF Inv, HeadIsLatest
    <2>7. NoLostUpdate'
      <3>1. \A n \in DOMAIN history'[r] : history'[r][n].base = n - 1
        <4>1. Revision(w, q).base = Len(history[r])
          BY <2>1 DEF Revision
        <4>2. \A n \in 1 .. Len(history[r]) : history[r][n].base = n - 1
          BY <2>1, <2>3 DEF Inv, NoLostUpdate
        <4> QED
          BY <2>3, <2>4, <4>1, <4>2
      <3> QED
        BY <2>5, <3>1 DEF Inv, NoLostUpdate
    <2>8. HistoryWellFormed'
      <3>1. \A n \in 1 .. Len(history[r]) : history[r][n].kind # "whiteout"
        BY <2>1, <2>3 DEF Inv, HistoryWellFormed, GuardsAllow
      <3>2. Revision(w, q).kind = "whiteout" => Len(history[r]) # 0
        BY <2>1, <2>3 DEF GuardsAllow, Revision, Captured
      <3>3. \A n \in DOMAIN history'[r] : history'[r][n].kind = "whiteout" =>
              n # 1 /\ n = Len(history'[r])
        BY <2>3, <2>4, <3>1, <3>2
      <3>4. kind'[r] = "activity" => Len(history'[r]) <= 1
        BY <2>1, <2>3, <2>4
      <3>5. kind'[r] # "unknown"
        BY <2>3 DEF ResourceKinds
      <3> QED
        BY <2>5, <3>3, <3>4, <3>5 DEF Inv, HistoryWellFormed
    <2>9. /\ \A x \in Writers : x # w => write'[x] = write[x]
          /\ \A x \in Writers \ {w} : write[x].at \in {"check", "write"} =>
               /\ lock'[write[x].on] = lock[write[x].on]
               /\ lock[write[x].on] = x
               /\ write[x].on # r
               /\ write[x].on \in Resources
      <3>1. lock[r] = w
        BY DEF Inv, ReadsStayCurrent, Write
      <3> QED
        BY <2>2, <3>1, EndKeepsOthers DEF Inv, InputOK, ReadsStayCurrent, Ended
    <2>10. write'[w].at = "done"
           /\ write'[w].on = r
           /\ write'[w].form = q.form
           /\ write'[w].revision = q.revision
           /\ write'[w].expected = q.expected
      BY <2>2, EndKeepsOthers DEF Ended
    <2>11. \A x \in Writers \ {w} : write[x].at = "write" =>
             /\ Admits(write[x])'
             /\ head'[write[x].on] = head[write[x].on]
      BY <2>5, <2>9, AdmitsKept DEF Inv, ReadsStayCurrent
    <2>12. ReadsStayCurrent'
      BY <2>9, <2>10, <2>11 DEF Inv, ReadsStayCurrent
    <2>13. InputOK' /\ NoGuardFires'
      BY <2>1, <2>9, <2>10 DEF Inv, InputOK, NoGuardFires, Write
    <2> QED
      BY <2>6, <2>7, <2>8, <2>12, <2>13 DEF Inv
  <1> QED
    BY <1>1, <1>2

LEMMA NextInv ==
  ASSUME RevisionsAssumption, Inv, [Next]_vars
  PROVE  Inv'
  <1>1. TypeOK'
    BY NextType DEF Inv
  <1>2. ASSUME NEW w \in Writers, Abort(w)
        PROVE  Inv'
    BY <1>1, <1>2, EndInv DEF Abort, Ended
  <1>3. CASE UNCHANGED vars
    <2>1. UNCHANGED store /\ UNCHANGED lock /\ UNCHANGED write
      BY <1>3 DEF vars, store
    <2>2. InputOK' /\ ReadsStayCurrent' /\ NoGuardFires'
      BY <2>1, ReadsKept DEF InputOK, ReadsStayCurrent, NoGuardFires
    <2> QED
      BY <1>1, <2>1, <2>2, StoreKept DEF Inv
  <1> QED
    BY <1>1, <1>2, <1>3, CallInv, LockInv, CheckInv, WriteInv, RewriteInv
    DEF Next, Transaction

-----------------------------------------------------------------------------
\* The invariant holds in every reachable state of any number of writers.
THEOREM Invariance == Spec => []Inv
  <1>1. Init => Inv
    BY RevisionsAssumption, InitInv
  <1>2. Inv /\ [Next]_vars => Inv'
    BY RevisionsAssumption, NextInv
  <1> QED
    BY <1>1, <1>2, PTL DEF Spec

\* Every variable keeps its type (resources, revisions, heads, locks).
THEOREM TypeCorrectness == Spec => []TypeOK
  BY Invariance, PTL DEF Inv

\* No caller of the revision API ever overwrites a revision it had not loaded.
THEOREM UpdatesAreKept == Spec => []NoLostUpdate
  BY Invariance, PTL DEF Inv

\* Deletions end a history, activities have one revision, heads are current.
THEOREM HistoriesAreWellFormed == Spec => [](HistoryWellFormed /\ HeadIsLatest)
  BY Invariance, PTL DEF Inv

\* The checks under the lock subsume the triggers: no trigger ever refuses.
THEOREM TriggersNeverRefuse == Spec => [](ReadsStayCurrent /\ NoGuardFires)
  BY Invariance, PTL DEF Inv

-----------------------------------------------------------------------------
(* Typed rows.                                                             *)

\* Documents written through this API are never Foreign, so a rewritten row
\* never equals the history and no typed write builds on it.
DocumentsOK ==
  /\ \A r \in Resources : \A n \in DOMAIN history[r] :
       history[r][n].document # Foreign
  /\ \A w \in Writers :
       /\ write[w].document # Foreign
       /\ write[w].at # "idle" /\ write[w].form # "insert" =>
            write[w].document # None

TypedInv == Inv /\ DocumentsOK /\ TypedInStep

\* A step that changes no document, and only writers that asked already.
InputsKept ==
  \A x \in Writers : /\ write'[x].document = write[x].document
                     /\ write'[x].form = write[x].form
                     /\ write'[x].at # "idle" => write[x].at # "idle"

LEMMA EndInputs ==
  ASSUME TypeOK, NEW w \in Writers, NEW at, End(w, at), write[w].at # "idle"
  PROVE  InputsKept
  <1>1. \A x \in Writers : x # w => write'[x] = write[x]
    BY DEF TypeOK, End
  <1>2. write'[w] = [write[w] EXCEPT !.at = at] /\ write[w] \in WriteRecord
    BY DEF TypeOK, End
  <1> QED
    BY <1>1, <1>2 DEF WriteRecord, InputsKept

LEMMA DocumentsKept ==
  ASSUME DocumentsOK, UNCHANGED history, InputsKept
  PROVE  DocumentsOK'
  BY DEF DocumentsOK, InputsKept

\* The one step that writes history and typed row leaves them in step.
LEMMA WriteTyped ==
  ASSUME RevisionsAssumption, TypedInv, NEW w \in Writers, Write(w), Inv'
  PROVE  TypedInv'
  <1> DEFINE q == write[w]
             r == q.on
  <1>1. CASE UNCHANGED store
    <2>1. \/ End(w, "done") \/ End(w, "guarded")
      BY <1>1 DEF Write
    <2>2. InputsKept
      BY <2>1, EndInputs DEF TypedInv, Inv, Write
    <2>3. DocumentsOK'
      BY <1>1, <2>2, DocumentsKept DEF TypedInv, store
    <2> QED
      BY <1>1, <2>3 DEF TypedInv, TypedInStep, store, HeadIs
  <1>2. CASE /\ AppendPrepared(w, q)
             /\ typed' = [typed EXCEPT ![r] = TypedAfter(q)]
             /\ End(w, "done")
             /\ ~Reuses(q)
    <2>1. /\ q.previous = Len(history[r])
          /\ r \in Resources
          /\ q.at = "write"
          /\ Admits(q)
          /\ q \in WriteRecord
          /\ typed[r] \in TypedRow
          /\ head[r] = Len(history[r])
      BY <1>2, AdmittedIsAllowed
      DEF Write, TypedInv, Inv, ReadsStayCurrent, TypeOK, HeadIsLatest
    <2>2. /\ history[r] \in Seq(RevisionRecord)
          /\ Len(history[r]) \in Nat
          /\ history'[r] = Append(history[r], Revision(w, q))
          /\ head'[r] = Len(history[r]) + 1
          /\ typed'[r] = TypedAfter(q)
      BY <1>2, <2>1 DEF AppendPrepared, TypedInv, Inv, TypeOK
    <2>3. /\ Len(history'[r]) = Len(history[r]) + 1
          /\ history'[r][Len(history[r]) + 1] = Revision(w, q)
          /\ \A n \in 1 .. Len(history[r]) : history'[r][n] = history[r][n]
      BY <2>2
    <2>4. \A s \in Resources : s # r => /\ history'[s] = history[s]
                                        /\ head'[s] = head[s]
                                        /\ typed'[s] = typed[s]
      BY <1>2, <2>1 DEF AppendPrepared, TypedInv, Inv, TypeOK
    <2>5. DocumentsOK'
      <3>1. q.document # Foreign /\ Revision(w, q).document # Foreign
        BY <2>1 DEF TypedInv, DocumentsOK, Revision, RevisionsAssumption
      <3>2. InputsKept
        BY <1>2, <2>1, EndInputs DEF TypedInv, Inv
      <3>3. \A n \in DOMAIN history'[r] : history'[r][n].document # Foreign
        BY <2>1, <2>2, <2>3, <3>1 DEF TypedInv, DocumentsOK
      <3> QED
        BY <2>4, <3>2, <3>3 DEF TypedInv, DocumentsOK, InputsKept
    <2>6. typed'[r].present =>
            /\ head'[r] # 0
            /\ typed'[r].deleted <=>
                 head'[r] # 0 /\ history'[r][head'[r]].kind = "whiteout"
            /\ typed'[r].document = history'[r][IF typed'[r].deleted
                 THEN head'[r] - 1 ELSE head'[r]].document
      <3>1. /\ head'[r] # 0
            /\ history'[r][head'[r]] = Revision(w, q)
        BY <2>2, <2>3
      <3>2. CASE q.form = "append"
        BY <2>2, <3>2 DEF TypedAfter, NoRow
      <3>3. CASE q.form = "insert"
        <4>1. q.revision = "snapshot"
          BY <3>3 DEF TypedInv, Inv, InputOK
        <4>2. /\ typed'[r].deleted = FALSE
              /\ typed'[r].document = q.document
              /\ Revision(w, q).document = q.document
              /\ Revision(w, q).kind # "whiteout"
          BY <2>2, <3>3, <4>1 DEF TypedAfter, Row, Revision, Captured
        <4> QED
          BY <2>2, <2>3, <3>1, <4>2
      <3>4. CASE q.form = "typed" /\ q.revision = "snapshot"
        <4>1. /\ typed'[r].deleted = FALSE
              /\ typed'[r].document = q.document
              /\ Revision(w, q).document = q.document
              /\ Revision(w, q).kind # "whiteout"
          BY <2>2, <3>4 DEF TypedAfter, Row, Revision
        <4> QED
          BY <2>2, <2>3, <3>1, <4>1
      <3>5. CASE q.form = "typed" /\ q.revision = "whiteout"
        <4>1. /\ typed'[r] = [typed[r] EXCEPT !.deleted = TRUE]
              /\ Revision(w, q).kind = "whiteout"
          BY <2>2, <3>5 DEF TypedAfter, Revision
        <4>2. /\ typed'[r].deleted = TRUE
              /\ typed'[r].document = typed[r].document
          BY <2>1, <4>1 DEF TypedRow
        <4>3. /\ head[r] # 0
              /\ typed[r].document = history[r][head[r]].document
          BY <2>1, <3>5 DEF Admits, HeadIs, SameTypedState
        <4>4. history'[r][Len(history[r])] = history[r][Len(history[r])]
          BY <2>1, <2>2, <2>3, <4>3
        <4> QED
          BY <2>1, <2>2, <3>1, <4>1, <4>2, <4>3, <4>4
      <3> QED
        BY <2>1, <3>2, <3>3, <3>4, <3>5 DEF WriteRecord, Forms
    <2>7. TypedInStep'
      <3>1. ASSUME NEW s \in Resources, s # r
            PROVE  (typed[s].present /\ typed[s].document # Foreign =>
                     /\ head[s] # 0
                     /\ typed[s].deleted <=> HeadIs(s, "whiteout")
                     /\ typed[s].document = history[s][IF typed[s].deleted
                          THEN head[s] - 1 ELSE head[s]].document)'
        BY <2>4, <3>1 DEF TypedInv, TypedInStep, HeadIs
      <3> QED
        BY <2>6, <3>1 DEF TypedInStep, HeadIs
    <2> QED
      BY <2>5, <2>7 DEF TypedInv
  <1> QED
    BY <1>1, <1>2 DEF Write

LEMMA NextTyped ==
  ASSUME RevisionsAssumption, TypedInv, [Next]_vars
  PROVE  TypedInv'
  <1>1. Inv'
    BY NextInv DEF TypedInv
  <1>2. ASSUME UNCHANGED store, DocumentsOK'
        PROVE  TypedInv'
    BY <1>1, <1>2 DEF TypedInv, TypedInStep, store, HeadIs
  <1>3. ASSUME NEW w \in Writers, NEW r \in Resources, NEW form \in Forms,
               NEW as \in ResourceKinds,
               NEW revision \in {"snapshot", "whiteout"},
               NEW document \in {w, None},
               Call(w, r, form, as, revision, document)
        PROVE  TypedInv'
    <2>1. document # Foreign /\ (form # "insert" => document # None)
      BY <1>3 DEF RevisionsAssumption, Call
    <2>2. /\ \A x \in Writers : x # w => write'[x] = write[x]
          /\ write'[w].document = document
          /\ write'[w].form = form
          /\ UNCHANGED store
      BY <1>3 DEF Call, TypedInv, Inv, TypeOK
    <2>3. DocumentsOK'
      BY <2>1, <2>2 DEF TypedInv, DocumentsOK, store
    <2> QED
      BY <1>2, <2>2, <2>3
  <1>4. ASSUME NEW w \in Writers, Lock(w) \/ Check(w) \/ Abort(w)
        PROVE  TypedInv'
    <2>1. InputsKept
      <3>1. CASE Lock(w)
        BY <3>1 DEF Lock, TypedInv, Inv, TypeOK, WriteRecord, InputsKept
      <3>2. CASE Check(w) /\ Admits(write[w])
        <4>1. \A x \in Writers : x # w => write'[x] = write[x]
          BY <3>2 DEF Check, TypedInv, Inv, TypeOK
        <4>2. /\ write'[w] = [write[w] EXCEPT !.at = "write",
                                             !.previous = head[write[w].on]]
              /\ write[w] \in WriteRecord
          BY <3>2 DEF Check, TypedInv, Inv, TypeOK
        <4>3. /\ write'[w].document = write[w].document
              /\ write'[w].form = write[w].form
          BY <4>2 DEF WriteRecord
        <4> QED
          BY <3>2, <4>1, <4>3 DEF InputsKept, Check
      <3>3. CASE Check(w) /\ ~Admits(write[w])
        BY <3>3, EndInputs DEF Check, TypedInv, Inv
      <3>4. CASE Abort(w)
        BY <3>4, EndInputs DEF Abort, TypedInv, Inv
      <3> QED
        BY <1>4, <3>1, <3>2, <3>3, <3>4
    <2>2. UNCHANGED store
      BY <1>4 DEF Lock, Check, Abort
    <2> QED
      BY <1>2, <2>1, <2>2, DocumentsKept DEF TypedInv, store
  <1>5. ASSUME NEW r \in Resources, Rewrite(r)
        PROVE  TypedInv'
    <2>1. /\ UNCHANGED <<kind, history, head, write>>
          /\ \A s \in Resources : s # r => typed'[s] = typed[s]
          /\ typed'[r].present => typed'[r].document = Foreign
      BY <1>5 DEF Rewrite, TypedInv, Inv, TypeOK, TypedRow, NoRow
    <2> QED
      BY <1>1, <2>1 DEF TypedInv, DocumentsOK, TypedInStep, HeadIs
  <1>6. CASE UNCHANGED vars
    BY <1>2, <1>6 DEF vars, store, TypedInv, DocumentsOK
  <1> QED
    BY <1>1, <1>3, <1>4, <1>5, <1>6, WriteTyped DEF Next, Transaction

\* The invariant about documents and typed rows holds throughout.
LEMMA TypedInvariance == Spec => []TypedInv
  <1>1. Init => TypedInv
    BY RevisionsAssumption, InitInv
    DEF Init, TypedInv, DocumentsOK, TypedInStep, NoRow, Idle, RevisionsAssumption
  <1>2. TypedInv /\ [Next]_vars => TypedInv'
    BY RevisionsAssumption, NextTyped
  <1> QED
    BY <1>1, <1>2, PTL DEF Spec

\* A typed row nobody rewrote always agrees with the history it is served for.
THEOREM TypedRowsStayInStep == Spec => []TypedInStep
  BY TypedInvariance, PTL DEF TypedInv

-----------------------------------------------------------------------------
(* The histories implement RevisionHistory.                                *)

LEMMA SameFunction ==
  ASSUME NEW S, NEW f, NEW g, f = [n \in S |-> f[n]], g = [n \in S |-> g[n]],
         \A n \in S : f[n] = g[n]
  PROVE  f = g
  OBVIOUS

\* Reading one field off a history that grew grows the fields by one.
LEMMA KindsAppend ==
  ASSUME NEW s \in Seq(RevisionRecord), NEW e \in RevisionRecord
  PROVE  [n \in DOMAIN Append(s, e) |-> Append(s, e)[n].kind]
           = Append([n \in DOMAIN s |-> s[n].kind], e.kind)
  <1> DEFINE K == {"snapshot", "unavailable", "whiteout"}
             f == [n \in DOMAIN s |-> s[n].kind]
             g == [n \in DOMAIN Append(s, e) |-> Append(s, e)[n].kind]
  <1>1. f \in Seq(K) /\ Len(f) = Len(s) /\ Len(s) \in Nat /\ e.kind \in K
    <2>1. /\ Len(s) \in Nat
          /\ DOMAIN s = 1 .. Len(s)
          /\ \A n \in 1 .. Len(s) : s[n] \in RevisionRecord
      OBVIOUS
    <2>2. \A x \in RevisionRecord : x.kind \in K
      BY DEF RevisionRecord
    <2>3. f \in [1 .. Len(s) -> K]
      BY <2>1, <2>2
    <2> QED
      BY <2>1, <2>2, <2>3
  <1>2. /\ DOMAIN Append(f, e.kind) = 1 .. Len(s) + 1
        /\ DOMAIN g = 1 .. Len(s) + 1
    BY <1>1
  <1>3. \A n \in 1 .. Len(s) + 1 : Append(f, e.kind)[n] = g[n]
    BY <1>1, <1>2
  <1>4. Append(f, e.kind) = [n \in 1 .. Len(s) + 1 |-> Append(f, e.kind)[n]]
    <2>1. Append(f, e.kind) \in Seq(K)
      BY <1>1
    <2> HIDE DEF f
    <2> QED
      BY <1>2, <2>1
  <1>5. g = [n \in 1 .. Len(s) + 1 |-> g[n]]
    BY <1>2
  <1> HIDE DEF f, g
  <1>6. Append(f, e.kind) = g
    BY <1>3, <1>4, <1>5, SameFunction
  <1> QED
    BY <1>6 DEF f, g

LEMMA DocumentsAppend ==
  ASSUME NEW s \in Seq(RevisionRecord), NEW e \in RevisionRecord
  PROVE  [n \in DOMAIN Append(s, e) |-> Append(s, e)[n].document]
           = Append([n \in DOMAIN s |-> s[n].document], e.document)
  <1> DEFINE f == [n \in DOMAIN s |-> s[n].document]
             g == [n \in DOMAIN Append(s, e) |-> Append(s, e)[n].document]
  <1>1. /\ f \in Seq(Documents)
        /\ Len(f) = Len(s)
        /\ Len(s) \in Nat
        /\ e.document \in Documents
    <2>1. /\ Len(s) \in Nat
          /\ DOMAIN s = 1 .. Len(s)
          /\ \A n \in 1 .. Len(s) : s[n] \in RevisionRecord
      OBVIOUS
    <2>2. \A x \in RevisionRecord : x.document \in Documents
      BY DEF RevisionRecord
    <2>3. f \in [1 .. Len(s) -> Documents]
      BY <2>1, <2>2
    <2> QED
      BY <2>1, <2>2, <2>3
  <1>2. /\ DOMAIN Append(f, e.document) = 1 .. Len(s) + 1
        /\ DOMAIN g = 1 .. Len(s) + 1
    BY <1>1
  <1>3. \A n \in 1 .. Len(s) + 1 : Append(f, e.document)[n] = g[n]
    BY <1>1, <1>2
  <1>4. Append(f, e.document)
          = [n \in 1 .. Len(s) + 1 |-> Append(f, e.document)[n]]
    <2>1. Append(f, e.document) \in Seq(Documents)
      BY <1>1
    <2> HIDE DEF f
    <2> QED
      BY <1>2, <2>1
  <1>5. g = [n \in 1 .. Len(s) + 1 |-> g[n]]
    BY <1>2
  <1> HIDE DEF f, g
  <1>6. Append(f, e.document) = g
    BY <1>3, <1>4, <1>5, SameFunction
  <1> QED
    BY <1>6 DEF f, g

KindsOf == [r \in Resources |-> [n \in DOMAIN history[r] |-> history[r][n].kind]]
DocumentsOf ==
  [r \in Resources |-> [n \in DOMAIN history[r] |-> history[r][n].document]]

\* A write is one growth of one history.
LEMMA WriteGrows ==
  ASSUME TypedInv, NEW w \in Writers, Write(w), Inv'
  PROVE  Abstract!Next \/ UNCHANGED Abstract!vars
  <1> DEFINE q == write[w]
             e == Revision(w, q)
  <1>1. CASE UNCHANGED store
    BY <1>1 DEF store, Abstract!vars
  <1>2. CASE /\ AppendPrepared(w, q)
             /\ ~Reuses(q)
    <2> PICK r \in Resources : r = q.on
      BY AdmittedIsAllowed DEF TypedInv, Inv, InputOK, Write
    <2>1. /\ GuardsAllow(q)
          /\ q.previous = Len(history[r])
          /\ Admits(q)
      BY <1>2, AdmittedIsAllowed DEF Write, TypedInv, Inv, ReadsStayCurrent
    <2>2. /\ history[r] \in Seq(RevisionRecord)
          /\ Len(history[r]) \in Nat
          /\ e \in RevisionRecord
          /\ q \in WriteRecord
          /\ head[r] = Len(history[r])
      BY RevisionType DEF TypedInv, Inv, TypeOK, HeadIsLatest
    <2>3. history' = [history EXCEPT ![r] = Append(history[r], e)]
      BY <1>2 DEF AppendPrepared
    <2>4. KindsOf' = [KindsOf EXCEPT ![r] = Append(KindsOf[r], e.kind)]
      <3>1. [n \in DOMAIN Append(history[r], e) |-> Append(history[r], e)[n].kind]
              = Append([n \in DOMAIN history[r] |-> history[r][n].kind], e.kind)
        BY <2>2, KindsAppend
      <3> QED
        BY <2>2, <2>3, <3>1 DEF KindsOf, TypedInv, Inv, TypeOK
    <2>5. DocumentsOf' = [DocumentsOf EXCEPT ![r] =
                            Append(DocumentsOf[r], e.document)]
      <3>1. [n \in DOMAIN Append(history[r], e) |->
               Append(history[r], e)[n].document]
              = Append([n \in DOMAIN history[r] |-> history[r][n].document],
                       e.document)
        BY <2>2, DocumentsAppend
      <3> QED
        BY <2>2, <2>3, <3>1 DEF DocumentsOf, TypedInv, Inv, TypeOK
    <2>6. /\ KindsOf[r] = [n \in 1 .. Len(history[r]) |-> history[r][n].kind]
          /\ Len(KindsOf[r]) = Len(history[r])
      BY <2>2 DEF KindsOf
    <2>7. ~(KindsOf[r] # <<>> /\ KindsOf[r][Len(KindsOf[r])] = "whiteout")
      BY <2>1, <2>2, <2>6 DEF GuardsAllow
    <2>8. Abstract!Grow(r, e.kind, e.document)
      BY <2>4, <2>5, <2>7
      DEF Abstract!Grow, Abstract!Deleted, KindsOf, DocumentsOf
    <2>9. CASE q.revision = "whiteout"
      <3>1. e.kind = "whiteout" /\ e.document = None
        BY <2>9 DEF Revision, TypedInv, Inv, InputOK
      <3>2. KindsOf[r] # <<>>
        BY <2>1, <2>2, <2>6, <2>9 DEF GuardsAllow
      <3>3. Abstract!Delete(r)
        BY <2>8, <3>1, <3>2 DEF Abstract!Delete, Abstract!Grow, KindsOf
      <3> QED
        BY <3>3 DEF Abstract!Next
    <2>10. CASE q.revision = "snapshot" /\ e.document # None
      <3>1. e.kind = "snapshot" /\ e.document \in Documents
        BY <2>2, <2>10 DEF Revision, Captured, RevisionRecord
      <3>2. Abstract!Save(r, e.document)
        BY <2>8, <2>10, <3>1 DEF Abstract!Save, Abstract!Grow
      <3> QED
        BY <3>1, <3>2 DEF Abstract!Next
    <2>11. CASE q.revision = "snapshot" /\ e.document = None
      <3>1. q.form = "insert" /\ q.document = None
        BY <2>11, RevisionsAssumption DEF Revision, TypedInv, DocumentsOK, Write
      <3>2. e.kind = "unavailable"
        BY <3>1 DEF Revision, Captured
      <3>3. KindsOf[r] = <<>>
        <4>1. kind[r] = "unknown"
          BY <1>2, <3>1 DEF Reuses
        <4>2. history[r] = <<>>
          BY <4>1 DEF TypedInv, Inv, HistoryWellFormed
        <4>3. KindsOf[r] = [n \in 1 .. 0 |-> history[r][n].kind]
          BY <2>6, <4>2
        <4> QED
          BY <4>3
      <3>4. Abstract!Save(r, None)
        BY <2>8, <2>11, <3>2, <3>3 DEF Abstract!Save, Abstract!Grow, KindsOf
      <3> QED
        BY <3>4 DEF Abstract!Next, Documents
    <2> QED
      BY <2>2, <2>9, <2>10, <2>11 DEF WriteRecord
  <1> QED
    BY <1>1, <1>2 DEF Write

\* Every other step leaves the histories alone.
LEMMA StepGrows ==
  ASSUME TypedInv, [Next]_vars, Inv'
  PROVE  [Abstract!Next]_Abstract!vars
  <1>1. CASE \E w \in Writers : Write(w)
    BY <1>1, WriteGrows
  <1>2. CASE UNCHANGED history
    BY <1>2 DEF Abstract!vars
  <1> QED
    BY <1>1, <1>2
    DEF Next, vars, store, Transaction, Call, Lock, Check, Abort, Rewrite

\* The empty histories are those the promise starts with.
LEMMA InitGrows == Init => Abstract!Init
  BY DEF Init, Abstract!Init

\* The store keeps the promise of RevisionHistory: whatever the forms, the
\* races and the rewrites, a history only grows, one revision at a time, and
\* ends with a deletion.
THEOREM HistoriesImplement == Spec => ImplementsHistory
  <1>1. TypedInv => Inv
    BY DEF TypedInv
  <1>2. TypedInv /\ Inv' /\ [Next]_vars => [Abstract!Next]_Abstract!vars
    BY StepGrows
  <1> QED
    BY <1>1, <1>2, InitGrows, TypedInvariance, PTL
    DEF Spec, ImplementsHistory, Abstract!Spec
=============================================================================
