-------------------------- MODULE TxExecutorProofs --------------------------
(***************************************************************************)
(* Proofs about the ExecTx retry loop, for every number of goroutines,    *)
(* retries, delays and injected errors.                                   *)
(***************************************************************************)
EXTENDS TxExecutor, TLAPS

(***************************************************************************)
(* Lemmas about the error classifier.                                      *)
(***************************************************************************)

\* MapSQLError returns one of the error classes.
LEMMA MapSQLErrorType ==
    ASSUME NEW e \in RawErrors
    PROVE  MapSQLError(e) \in ErrClasses
BY DEF RawErrors, MapSQLError, parseSqliteError, parsePostgresError,
       sanitizeConnectionError, ErrClasses

\* A plain (non-driver) error is never classified: it is the sanitized
\* connection error or passes unchanged, and is not retried.
LEMMA PlainNotRetried ==
    ASSUME NEW e \in RawErrors, e.drv = "plain"
    PROVE  /\ MapSQLError(e) \in AmbiguousResults
           /\ ~IsSerializationOrDeadlockError(MapSQLError(e))
BY DEF MapSQLError, sanitizeConnectionError, AmbiguousResults,
       IsSerializationOrDeadlockError, IsSerializationError, IsDeadlockError

\* The error of a stale snapshot is a driver error.
LEMMA ConflictErrorType == ConflictError \in RawErrors
BY ExecutorAssumption DEF ConflictError, RawErrors, SqliteCodes, PostgresCodes

\* Every error a transaction can fail with is a driver error.
LEMMA TxErrorsType ==
    ASSUME NEW c \in Clients
    PROVE  TxErrors(c) \subseteq RawErrors
BY ConflictErrorType, ExecutorAssumption DEF TxErrors

(***************************************************************************)
(* The inductive invariant.  TypeOK alone is not inductive: a rollback     *)
(* decrements openTx, which stays a natural number only because a call in *)
(* the body or commit step holds exactly one transaction, and attempt + 1 *)
(* stays within 0..NumRetries only because a transaction is begun with    *)
(* attempt < NumRetries.  CommitMatchesResult needs that a call commits   *)
(* nothing before it returns.                                             *)
(***************************************************************************)
TxInv ==
    /\ TypeOK
    /\ \A c \in Clients :
          /\ openTx[c] = (IF pc[c] \in {"body", "commit"} THEN 1 ELSE 0)
          /\ pc[c] \in {"body", "commit"} => attempt[c] < NumRetries
          /\ pc[c] # "done" => committed[c] = 0 /\ result[c] = "none"
    /\ CommitMatchesResult

\* Every back-off WaitBeforeRetry can choose is one of Delays.
LEMMA RetryDelayInDelays ==
    ASSUME NEW a \in 0..NumRetries, NEW r \in 0..(InitialRetryDelay - 1)
    PROVE  randRetryDelay(a, r) \in Delays
<1>1. r \in 0..InitialRetryDelay
  BY ExecutorAssumption
<1>2. QED
  BY <1>1 DEF Delays

\* The error path preserves the invariant, whichever of its three ends it
\* takes (retry, panic, return), provided the step commits nothing for c
\* unless the error is an unclassified one.
LEMMA FailInv ==
    ASSUME TxInv,
           NEW c \in Clients, NEW cls \in ErrClasses,
           pc[c] \in {"begin", "body", "commit"},
           attempt[c] < NumRetries,
           Fail(c, cls, 0),
           dbVal' \in Nat,
           committed' \in [Clients -> Nat],
           \A d \in Clients \ {c} : committed'[d] = committed[d],
           committed'[c] \in {0, 1},
           committed'[c] = 1 => cls \in AmbiguousResults
    PROVE  TxInv'
<1>. USE DEF TxInv, TypeOK, CommitMatchesResult
<1>1. committed[c] = 0 /\ result[c] = "none"
  OBVIOUS
<1>2. CASE IsSerializationOrDeadlockError(cls) /\ InitialRetryDelay # 0
  <2>1. committed'[c] = 0
    BY <1>2 DEF IsSerializationOrDeadlockError, IsSerializationError,
                IsDeadlockError, AmbiguousResults
  <2>2. PICK r \in 0..(InitialRetryDelay - 1) :
            /\ delay' = [delay EXCEPT ![c] = randRetryDelay(attempt[c], r)]
            /\ attempt' = [attempt EXCEPT ![c] = @ + 1]
            /\ pc' = [pc EXCEPT ![c] = "begin"]
            /\ openTx' = [openTx EXCEPT ![c] = 0]
            /\ UNCHANGED <<result, snap>>
    BY <1>2 DEF Fail, WaitBeforeRetry
  <2>3. randRetryDelay(attempt[c], r) \in Delays
    BY RetryDelayInDelays
  <2>4. TypeOK'
    <3>1. pc' \in [Clients -> PCs]
      BY <2>2 DEF PCs
    <3>2. attempt' \in [Clients -> 0..NumRetries]
      BY <2>2, ExecutorAssumption
    <3>3. openTx' \in [Clients -> Nat]
      BY <2>2
    <3>4. delay' \in [Clients -> Delays]
      BY <2>2, <2>3
    <3>5. snap' \in [Clients -> Nat] /\ result' \in [Clients -> Results]
      BY <2>2
    <3>. QED
      BY <3>1, <3>2, <3>3, <3>4, <3>5
  <2>5. \A d \in Clients :
          /\ openTx'[d] = (IF pc'[d] \in {"body", "commit"} THEN 1 ELSE 0)
          /\ pc'[d] \in {"body", "commit"} => attempt'[d] < NumRetries
          /\ pc'[d] # "done" => committed'[d] = 0 /\ result'[d] = "none"
    BY <1>1, <2>1, <2>2
  <2>6. CommitMatchesResult'
    BY <1>1, <2>1, <2>2
  <2>. QED
    BY <2>4, <2>5, <2>6
<1>3. CASE IsSerializationOrDeadlockError(cls) /\ InitialRetryDelay = 0
  <2>1. committed'[c] = 0
    BY <1>3 DEF IsSerializationOrDeadlockError, IsSerializationError,
                IsDeadlockError, AmbiguousResults
  <2>2. Return(c, "panic")
    BY <1>3 DEF Fail, WaitBeforeRetry
  <2>. QED
    BY <1>1, <2>1, <2>2 DEF Return, PCs, Results
<1>4. CASE ~IsSerializationOrDeadlockError(cls)
  <2>1. Return(c, cls)
    BY <1>4 DEF Fail
  <2>2. cls \in Results /\ cls # "ok"
    BY DEF Results, ErrClasses
  <2>. QED
    BY <1>1, <2>1, <2>2 DEF Return, PCs
<1>. QED
  BY <1>2, <1>3, <1>4

\* The initial state satisfies the invariant.
LEMMA InitTxInv == Init => TxInv
<1>1. 0 \in Delays
  BY DEF Delays
<1>. QED
  BY <1>1, ExecutorAssumption DEF Init, TxInv, TypeOK, PCs, Results,
     CommitMatchesResult

\* Every step of the specification preserves the invariant: one step per
\* action of the retry loop.
LEMMA TxInvStep == TxInv /\ [Next]_vars => TxInv'
<1> SUFFICES ASSUME TxInv, [Next]_vars PROVE TxInv'
  OBVIOUS
<1>. USE DEF TxInv, TypeOK, CommitMatchesResult
<1>1. ASSUME NEW c \in Clients, RetriesExceeded(c) PROVE TxInv'
  BY <1>1 DEF RetriesExceeded, Return, PCs, Results
<1>2. ASSUME NEW c \in Clients, BeginTx(c) PROVE TxInv'
  BY <1>2 DEF BeginTx, PCs
<1>3. ASSUME NEW c \in Clients, BeginTxFail(c) PROVE TxInv'
  <2>1. PICK e \in InjectedErrors : Fail(c, MapSQLError(e), openTx[c])
    BY <1>3 DEF BeginTxFail
  <2>2. e \in RawErrors /\ openTx[c] = 0
    BY <1>3, ExecutorAssumption DEF BeginTxFail
  <2>. QED
    BY <1>3, <2>1, <2>2, MapSQLErrorType, FailInv DEF BeginTxFail
<1>4. ASSUME NEW c \in Clients, RunBody(c) PROVE TxInv'
  BY <1>4 DEF RunBody, PCs
<1>5. ASSUME NEW c \in Clients, BodyFail(c) PROVE TxInv'
  <2>1. PICK e \in TxErrors(c) : Fail(c, MapSQLError(e), openTx[c] - 1)
    BY <1>5 DEF BodyFail
  <2>2. e \in RawErrors /\ openTx[c] - 1 = 0
    BY <1>5, TxErrorsType DEF BodyFail
  <2>. QED
    BY <1>5, <2>1, <2>2, MapSQLErrorType, FailInv DEF BodyFail
<1>6. ASSUME NEW c \in Clients, Commit(c) PROVE TxInv'
  BY <1>6 DEF Commit, Return, PCs, Results
<1>7. ASSUME NEW c \in Clients, CommitFail(c) PROVE TxInv'
  <2>0. PICK e \in TxErrors(c) :
            \E applied \in CommitApplied(c, e) :
              /\ dbVal' = IF applied THEN snap[c] + 1 ELSE dbVal
              /\ committed' = [committed EXCEPT
                                  ![c] = IF applied THEN @ + 1 ELSE @]
              /\ Fail(c, MapSQLError(e), openTx[c] - 1)
    BY <1>7 DEF CommitFail
  <2>1. PICK applied \in CommitApplied(c, e) :
            /\ dbVal' = IF applied THEN snap[c] + 1 ELSE dbVal
            /\ committed' = [committed EXCEPT
                                ![c] = IF applied THEN @ + 1 ELSE @]
            /\ Fail(c, MapSQLError(e), openTx[c] - 1)
    BY <2>0
  <2>2. e \in RawErrors /\ openTx[c] - 1 = 0 /\ pc[c] = "commit"
    BY <1>7, TxErrorsType DEF CommitFail
  <2>3. applied => MapSQLError(e) \in AmbiguousResults
    BY <2>2, PlainNotRetried DEF CommitApplied
  <2>4. committed' \in [Clients -> Nat]
        /\ \A d \in Clients \ {c} : committed'[d] = committed[d]
        /\ committed'[c] \in {0, 1}
        /\ (committed'[c] = 1 => applied)
    BY <2>1, <2>2
  <2>. QED
    BY <2>1, <2>2, <2>3, <2>4, MapSQLErrorType, FailInv
<1>8. CASE Terminating \/ UNCHANGED vars
  BY <1>8 DEF Terminating, vars
<1>. QED
  BY <1>1, <1>2, <1>3, <1>4, <1>5, <1>6, <1>7, <1>8 DEF Next, Client

(***************************************************************************)
(* Theorems                                                                *)
(***************************************************************************)

\* Type correctness of the retry loop.
THEOREM TypeCorrect == Spec => []TypeOK
BY InitTxInv, TxInvStep, PTL DEF Spec, TxInv

\* ExecTx commits a call's body at most once however often it retries, nil
\* means committed, and ErrRetriesExceeded, a panic or a classified
\* database error mean nothing was committed.
THEOREM CommitSafety == Spec => []CommitMatchesResult
BY InitTxInv, TxInvStep, PTL DEF Spec, TxInv

\* Every rollback path of ExecTx closes the transaction it abandons.
THEOREM NoLeakedTxSafety == Spec => []NoLeakedTx
<1>1. TxInv => NoLeakedTx
  BY DEF TxInv, NoLeakedTx
<1>. QED
  BY InitTxInv, TxInvStep, <1>1, PTL DEF Spec

(***************************************************************************)
(* Refinement: ExecTx implements the safety part of ExecTxAbstract under   *)
(* the mapping status = (pc = "done" ? "done" : "running").               *)
(***************************************************************************)

\* The error path maps to an abstract step: a retry is invisible (the call
\* is still running and nothing changed), a panic or a returned error is
\* the abstract ReturnError.
LEMMA FailRefines ==
    ASSUME TxInv,
           NEW c \in Clients, NEW cls \in ErrClasses, NEW ot,
           pc[c] \in {"begin", "body", "commit"},
           Fail(c, cls, ot),
           UNCHANGED <<committed, dbVal>>
    PROVE  [Abs!Next]_Abs!avars
<1>. USE DEF TxInv, TypeOK
<1>1. CASE IsSerializationOrDeadlockError(cls) /\ InitialRetryDelay # 0
  <2>1. pc' = [pc EXCEPT ![c] = "begin"] /\ UNCHANGED result
    BY <1>1 DEF Fail, WaitBeforeRetry
  <2>. QED
    BY <2>1 DEF Abs!avars
<1>2. CASE IsSerializationOrDeadlockError(cls) /\ InitialRetryDelay = 0
  <2>1. Return(c, "panic")
    BY <1>2 DEF Fail, WaitBeforeRetry
  <2>2. Abs!ReturnError(c)
    BY <2>1 DEF Return, Abs!ReturnError, Abs!Finish, Abs!CleanErrors
  <2>. QED
    BY <2>2 DEF Abs!Next
<1>3. CASE ~IsSerializationOrDeadlockError(cls)
  <2>1. Return(c, cls)
    BY <1>3 DEF Fail
  <2>2. cls \in Abs!CleanErrors
    BY <1>3 DEF IsSerializationOrDeadlockError, IsSerializationError,
                IsDeadlockError, ErrClasses, Abs!CleanErrors
  <2>3. Abs!ReturnError(c)
    BY <2>1, <2>2 DEF Return, Abs!ReturnError, Abs!Finish
  <2>. QED
    BY <2>3 DEF Abs!Next
<1>. QED
  BY <1>1, <1>2, <1>3

\* Every step of ExecTx is a step of the abstract specification or leaves
\* the caller-visible state unchanged.
LEMMA StepRefines == TxInv /\ [Next]_vars => [Abs!Next]_Abs!avars
<1> SUFFICES ASSUME TxInv, [Next]_vars PROVE [Abs!Next]_Abs!avars
  OBVIOUS
<1>. USE DEF TxInv, TypeOK
<1>1. ASSUME NEW c \in Clients, RetriesExceeded(c) PROVE [Abs!Next]_Abs!avars
  <2>1. Abs!ReturnError(c)
    BY <1>1 DEF RetriesExceeded, Return, Abs!ReturnError, Abs!Finish,
                Abs!CleanErrors
  <2>. QED
    BY <2>1 DEF Abs!Next
<1>2. ASSUME NEW c \in Clients, BeginTx(c) \/ RunBody(c)
      PROVE  [Abs!Next]_Abs!avars
  BY <1>2 DEF BeginTx, RunBody, Abs!avars
<1>3. ASSUME NEW c \in Clients, BeginTxFail(c) PROVE [Abs!Next]_Abs!avars
  <2>1. PICK e \in InjectedErrors : Fail(c, MapSQLError(e), openTx[c])
    BY <1>3 DEF BeginTxFail
  <2>2. MapSQLError(e) \in ErrClasses
    BY ExecutorAssumption, MapSQLErrorType
  <2>. QED
    BY <1>3, <2>1, <2>2, FailRefines DEF BeginTxFail
<1>4. ASSUME NEW c \in Clients, BodyFail(c) PROVE [Abs!Next]_Abs!avars
  <2>1. PICK e \in TxErrors(c) : Fail(c, MapSQLError(e), openTx[c] - 1)
    BY <1>4 DEF BodyFail
  <2>2. MapSQLError(e) \in ErrClasses
    BY TxErrorsType, MapSQLErrorType
  <2>. QED
    BY <1>4, <2>1, <2>2, FailRefines DEF BodyFail
<1>5. ASSUME NEW c \in Clients, Commit(c) PROVE [Abs!Next]_Abs!avars
  <2>1. Abs!CommitBody(c)
    BY <1>5 DEF Commit, Return, Abs!CommitBody, Abs!Finish, Abs!Apply
  <2>. QED
    BY <2>1 DEF Abs!Next
<1>6. ASSUME NEW c \in Clients, CommitFail(c) PROVE [Abs!Next]_Abs!avars
  <2>1. PICK e \in TxErrors(c) :
            \E applied \in CommitApplied(c, e) :
              /\ dbVal' = IF applied THEN snap[c] + 1 ELSE dbVal
              /\ committed' = [committed EXCEPT
                                  ![c] = IF applied THEN @ + 1 ELSE @]
              /\ Fail(c, MapSQLError(e), openTx[c] - 1)
    BY <1>6 DEF CommitFail
  <2>2. PICK applied \in CommitApplied(c, e) :
            /\ dbVal' = IF applied THEN snap[c] + 1 ELSE dbVal
            /\ committed' = [committed EXCEPT
                                ![c] = IF applied THEN @ + 1 ELSE @]
            /\ Fail(c, MapSQLError(e), openTx[c] - 1)
    BY <2>1
  <2>3. e \in RawErrors /\ MapSQLError(e) \in ErrClasses
    BY TxErrorsType, MapSQLErrorType
  <2>4. CASE applied
    <3>1. e.drv = "plain" /\ snap[c] = dbVal
      BY <2>4 DEF CommitApplied
    <3>2. MapSQLError(e) \in Abs!AmbiguousErrors
          /\ ~IsSerializationOrDeadlockError(MapSQLError(e))
      BY <2>3, <3>1, PlainNotRetried DEF AmbiguousResults, Abs!AmbiguousErrors
    <3>3. Return(c, MapSQLError(e))
      BY <2>2, <3>2 DEF Fail
    <3>4. Abs!ReturnAmbiguous(c)
      BY <1>6, <2>2, <2>4, <3>1, <3>2, <3>3
         DEF CommitFail, Return, Abs!ReturnAmbiguous, Abs!Finish, Abs!Apply
    <3>. QED
      BY <3>4 DEF Abs!Next
  <2>5. CASE ~applied
    <3>1. UNCHANGED <<committed, dbVal>>
      BY <2>2, <2>5
    <3>. QED
      BY <1>6, <2>2, <2>3, <3>1, FailRefines DEF CommitFail
  <2>. QED
    BY <2>4, <2>5
<1>7. CASE Terminating \/ UNCHANGED vars
  BY <1>7 DEF Terminating, vars, Abs!avars
<1>. QED
  BY <1>1, <1>2, <1>3, <1>4, <1>5, <1>6, <1>7 DEF Next, Client

\* ExecTx implements the safety part of its abstract specification: every
\* behaviour of the retry loop, seen through the refinement mapping, is a
\* behaviour in which each call atomically commits once or returns an error.
THEOREM Refinement == Spec => Abs!SafetySpec
<1>1. Init => Abs!Init
  BY DEF Init, Abs!Init
<1>. QED
  BY <1>1, InitTxInv, TxInvStep, StepRefines, PTL DEF Spec, Abs!SafetySpec

=============================================================================
