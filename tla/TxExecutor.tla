----------------------------- MODULE TxExecutor -----------------------------
(***************************************************************************)
(* TransactionExecutor.ExecTx of tapdb/interfaces.go: every store of the  *)
(* daemon runs its queries through this loop, which begins a serializable *)
(* transaction, runs the caller's body in it, commits it, and on a        *)
(* serialization or deadlock error rolls back, sleeps a randomised        *)
(* back-off and tries again, at most numRetries times.                    *)
(*                                                                         *)
(* Each member of Clients is a goroutine in one ExecTx call whose body    *)
(* reads a counter and writes it back incremented (the shape of every     *)
(* read-modify-write a store does).  The database is serializable with    *)
(* first-committer-wins: a transaction whose snapshot is stale fails at   *)
(* its body or its commit with the backend's serialization error.  On top *)
(* of that the environment may fail BeginTx, the body or Commit with any  *)
(* driver error of InjectedErrors; a commit that fails with a plain       *)
(* (connection) error may or may not have been applied by the server.     *)
(***************************************************************************)
EXTENDS Naturals, SQLErrors

CONSTANTS
    Clients,            \* goroutines each inside one ExecTx call
    NumRetries,         \* txExecutorOptions.numRetries
    InitialRetryDelay,  \* txExecutorOptions.initialRetryDelay (time units)
    MaxRetryDelay,      \* txExecutorOptions.maxRetryDelay (time units)
    Backend,            \* sqlc.BackendType: "sqlite" or "postgres"
    DurationBits,       \* width of time.Duration (64, scaled down for TLC)
    MaxExponent,        \* the 32 of math.Min(attempt, 32), scaled likewise
    InjectedErrors      \* driver errors the environment may raise

ASSUME ExecutorAssumption ==
    /\ NumRetries \in Nat
    /\ InitialRetryDelay \in Nat
    /\ MaxRetryDelay \in Nat
    /\ Backend \in {"sqlite", "postgres"}
    /\ DurationBits \in Nat \ {0}
    /\ MaxExponent \in Nat
    /\ InjectedErrors \subseteq RawErrors

VARIABLES
    pc,         \* where each ExecTx call is: "begin", "body", "commit", "done"
    attempt,    \* the loop index i
    openTx,     \* transactions begun by the call and neither committed nor
                \* rolled back yet
    snap,       \* the counter value the call's current transaction read
    result,     \* what ExecTx returned: "none" while running
    committed,  \* how many times the call's body has been committed
    dbVal,      \* the committed counter
    delay       \* the last back-off the call slept (0 before any)

vars == <<pc, attempt, openTx, snap, result, committed, dbVal, delay>>

PCs == {"begin", "body", "commit", "done"}

Results == {"none", "ok", "exceeded", "panic"} \cup ErrClasses

\* The error the backend raises for a transaction with a stale snapshot:
\* sqlite's SQLITE_BUSY_SNAPSHOT in WAL mode, postgres's 40001.
ConflictError ==
    IF Backend = "sqlite"
    THEN [drv |-> "sqlite", code |-> "BUSY_SNAPSHOT", conn |-> FALSE]
    ELSE [drv |-> "postgres", code |-> "SerializationFailure", conn |-> FALSE]

\* The product of two time.Durations: int64 arithmetic wraps around.
DurationMul(x, y) ==
    LET half == 2^(DurationBits - 1)
    IN  ((x * y + half) % (2 * half)) - half

\* randRetryDelay(attempt) with prand.Int63n(initialRetryDelay) = r: half
\* the initial delay plus r, doubled per attempt and capped, except on the
\* first attempt, which returns before the cap.
randRetryDelay(a, r) ==
    LET initialDelay == InitialRetryDelay \div 2 + r
        actualDelay ==
            DurationMul(initialDelay,
                        2^(IF a < MaxExponent THEN a ELSE MaxExponent))
    IN  IF a = 0 THEN initialDelay
        ELSE IF actualDelay > MaxRetryDelay THEN MaxRetryDelay
        ELSE actualDelay

\* ExecTx returns r; its deferred Rollbacks close every transaction it
\* opened (a no-op for a committed one).
Return(c, r) ==
    /\ pc' = [pc EXCEPT ![c] = "done"]
    /\ result' = [result EXCEPT ![c] = r]
    /\ openTx' = [openTx EXCEPT ![c] = 0]
    /\ UNCHANGED <<attempt, snap, delay>>

\* Mutant: a retry that does not advance the loop index.
WaitBeforeRetryNoCount(c, ot) ==
    IF InitialRetryDelay = 0
    THEN Return(c, "panic")
    ELSE /\ \E r \in 0..(InitialRetryDelay - 1) :
                delay' = [delay EXCEPT ![c] = randRetryDelay(attempt[c], r)]
         /\ UNCHANGED attempt
         /\ pc' = [pc EXCEPT ![c] = "begin"]
         /\ openTx' = [openTx EXCEPT ![c] = ot]
         /\ UNCHANGED <<result, snap>>

\* waitBeforeRetry(i) then continue: the loop goes back to BeginTx with i+1.
\* ot is the number of open transactions after the explicit Rollback.
\* prand.Int63n panics on a non-positive argument.
WaitBeforeRetry(c, ot) ==
    IF InitialRetryDelay = 0
    THEN Return(c, "panic")
    ELSE /\ \E r \in 0..(InitialRetryDelay - 1) :
                delay' = [delay EXCEPT ![c] = randRetryDelay(attempt[c], r)]
         /\ attempt' = [attempt EXCEPT ![c] = @ + 1]
         /\ pc' = [pc EXCEPT ![c] = "begin"]
         /\ openTx' = [openTx EXCEPT ![c] = ot]
         /\ UNCHANGED <<result, snap>>

\* The error path shared by BeginTx, txBody and Commit: map the error, retry
\* a serialization or deadlock error, return any other.
Fail(c, cls, ot) ==
    IF IsSerializationOrDeadlockError(cls)
    THEN WaitBeforeRetry(c, ot)
    ELSE Return(c, cls)

\* Errors the body or the commit of c's transaction may fail with.
TxErrors(c) ==
    InjectedErrors \cup (IF snap[c] # dbVal THEN {ConflictError} ELSE {})

\* Whether a commit that failed with e may nevertheless have been applied:
\* only a plain error (the connection broke) leaves the outcome unknown.
CommitApplied(c, e) ==
    IF e.drv = "plain" /\ snap[c] = dbVal THEN BOOLEAN ELSE {FALSE}

-----------------------------------------------------------------------------

Init ==
    /\ pc = [c \in Clients |-> "begin"]
    /\ attempt = [c \in Clients |-> 0]
    /\ openTx = [c \in Clients |-> 0]
    /\ snap = [c \in Clients |-> 0]
    /\ result = [c \in Clients |-> "none"]
    /\ committed = [c \in Clients |-> 0]
    /\ dbVal = 0
    /\ delay = [c \in Clients |-> 0]

\* The loop condition i < numRetries fails: ErrRetriesExceeded.
RetriesExceeded(c) ==
    /\ pc[c] = "begin"
    /\ attempt[c] >= NumRetries
    /\ Return(c, "exceeded")
    /\ UNCHANGED <<committed, dbVal>>

\* BeginTx succeeds; the transaction's snapshot is the committed state.
BeginTx(c) ==
    /\ pc[c] = "begin"
    /\ attempt[c] < NumRetries
    /\ pc' = [pc EXCEPT ![c] = "body"]
    /\ openTx' = [openTx EXCEPT ![c] = @ + 1]
    /\ snap' = [snap EXCEPT ![c] = dbVal]
    /\ UNCHANGED <<attempt, result, committed, dbVal, delay>>

\* Mutant: the loop bound checked with <= instead of <.
BeginTxFailOffByOne(c) ==
    /\ pc[c] = "begin"
    /\ attempt[c] <= NumRetries
    /\ \E e \in InjectedErrors : Fail(c, MapSQLError(e), openTx[c])
    /\ UNCHANGED <<committed, dbVal>>

\* BeginTx fails: nothing to roll back.
BeginTxFail(c) ==
    /\ pc[c] = "begin"
    /\ attempt[c] < NumRetries
    /\ \E e \in InjectedErrors : Fail(c, MapSQLError(e), openTx[c])
    /\ UNCHANGED <<committed, dbVal>>

\* txBody(createQuery(tx)) returns nil: it has read snap and written snap+1
\* inside the transaction.
RunBody(c) ==
    /\ pc[c] = "body"
    /\ pc' = [pc EXCEPT ![c] = "commit"]
    /\ UNCHANGED <<attempt, openTx, snap, result, committed, dbVal, delay>>

\* Mutant: a body failure retried without the explicit Rollback.
BodyFailNoRollback(c) ==
    /\ pc[c] = "body"
    /\ \E e \in TxErrors(c) : Fail(c, MapSQLError(e), openTx[c])
    /\ UNCHANGED <<committed, dbVal>>

\* txBody returns an error: a retryable one is rolled back explicitly.
BodyFail(c) ==
    /\ pc[c] = "body"
    /\ \E e \in TxErrors(c) : Fail(c, MapSQLError(e), openTx[c] - 1)
    /\ UNCHANGED <<committed, dbVal>>

\* Mutant: a commit that does not return but goes round the loop again.
CommitNoReturn(c) ==
    /\ pc[c] = "commit"
    /\ snap[c] = dbVal
    /\ dbVal' = snap[c] + 1
    /\ committed' = [committed EXCEPT ![c] = @ + 1]
    /\ pc' = [pc EXCEPT ![c] = "begin"]
    /\ attempt' = [attempt EXCEPT ![c] = @ + 1]
    /\ openTx' = [openTx EXCEPT ![c] = @ - 1]
    /\ UNCHANGED <<snap, result, delay>>

\* Mutant: transactions begun without sql.LevelSerializable, so a commit
\* on a stale snapshot is not refused.
CommitWithoutSerializable(c) ==
    /\ pc[c] = "commit"
    /\ dbVal' = snap[c] + 1
    /\ committed' = [committed EXCEPT ![c] = @ + 1]
    /\ Return(c, "ok")

\* tx.Commit() succeeds and ExecTx returns nil.
Commit(c) ==
    /\ pc[c] = "commit"
    /\ snap[c] = dbVal
    /\ dbVal' = snap[c] + 1
    /\ committed' = [committed EXCEPT ![c] = @ + 1]
    /\ Return(c, "ok")

\* tx.Commit() returns an error; a retryable one is rolled back explicitly.
CommitFail(c) ==
    /\ pc[c] = "commit"
    /\ \E e \in TxErrors(c) :
         \E applied \in CommitApplied(c, e) :
            /\ dbVal' = IF applied THEN snap[c] + 1 ELSE dbVal
            /\ committed' = [committed EXCEPT
                                ![c] = IF applied THEN @ + 1 ELSE @]
            /\ Fail(c, MapSQLError(e), openTx[c] - 1)

\* One step of the goroutine running ExecTx for c.
Client(c) ==
    \/ RetriesExceeded(c)
    \/ BeginTx(c)
    \/ BeginTxFail(c)
    \/ RunBody(c)
    \/ BodyFail(c)
    \/ Commit(c)
    \/ CommitFail(c)

\* Every call has returned.
Terminating ==
    /\ \A c \in Clients : pc[c] = "done"
    /\ UNCHANGED vars

Next == (\E c \in Clients : Client(c)) \/ Terminating

\* A goroutine that can run eventually runs: the Go scheduler is fair and
\* every database call returns (with a result or an error).
Fairness == \A c \in Clients : WF_vars(Client(c))

Spec == Init /\ [][Next]_vars /\ Fairness

-----------------------------------------------------------------------------
(* Properties                                                              *)

\* The back-offs a call can sleep: randRetryDelay of some attempt and jitter.
Delays ==
    {0} \cup {randRetryDelay(a, r) : a \in 0..NumRetries,
                                    r \in 0..InitialRetryDelay}

TypeOK ==
    /\ pc \in [Clients -> PCs]
    /\ attempt \in [Clients -> 0..NumRetries]
    /\ openTx \in [Clients -> Nat]
    /\ snap \in [Clients -> Nat]
    /\ result \in [Clients -> Results]
    /\ committed \in [Clients -> Nat]
    /\ dbVal \in Nat
    /\ delay \in [Clients -> Delays]

\* Results of ExecTx under which the body may nonetheless have committed:
\* an unclassified error from Commit, whose outcome the driver cannot know.
AmbiguousResults == {"Connection", "Unknown"}

\* The caller can trust ExecTx's answer: a call commits its body at most
\* once however often it retried; nil means it committed; ErrRetriesExceeded,
\* a panic or a classified database error mean it did not.
CommitMatchesResult ==
    \A c \in Clients :
        /\ committed[c] <= 1
        /\ result[c] = "ok" => committed[c] = 1
        /\ committed[c] = 1 => result[c] \in {"ok"} \cup AmbiguousResults

\* Each rollback path closes the transaction it abandons: a call never holds
\* two transactions (which on sqlite would block its own retry on the write
\* lock), holds none when it starts a new attempt, and none after returning.
NoLeakedTx ==
    \A c \in Clients :
        /\ openTx[c] <= 1
        /\ pc[c] \in {"begin", "done"} => openTx[c] = 0

\* Every back-off ExecTx sleeps is at most maxRetryDelay.
DelayCapped == \A c \in Clients : delay[c] <= MaxRetryDelay

\* No back-off is shorter than the jittered initial delay (or the cap, if
\* that is lower): doubling only lengthens it, as randRetryDelay's comment
\* says, and limiting the power to 32 is meant to avoid overflows.
NoShortBackoff ==
    \A c \in Clients :
        attempt[c] > 0 =>
            delay[c] >= IF InitialRetryDelay \div 2 < MaxRetryDelay
                        THEN InitialRetryDelay \div 2 ELSE MaxRetryDelay

\* Every ExecTx call returns: the retry loop is bounded.
Termination == \A c \in Clients : <>(pc[c] = "done")

\* The refinement mapping: the abstract call is running until ExecTx
\* returns; result, committed and dbVal are the same variables.
Abs == INSTANCE ExecTxAbstract
         WITH status <- [c \in Clients |->
                           IF pc[c] = "done" THEN "done" ELSE "running"]

\* ExecTx implements its abstract promise: retries, rollbacks and back-offs
\* are invisible to the caller, each call returns once having committed
\* its read-modify-write at most once, no concurrent update is lost, and
\* every call returns.
ImplementsAbstract == Abs!Spec

=============================================================================
