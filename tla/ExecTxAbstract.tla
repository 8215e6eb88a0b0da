--------------------------- MODULE ExecTxAbstract ---------------------------
(***************************************************************************)
(* What TransactionExecutor.ExecTx promises its callers, with the retry    *)
(* loop, the back-off and the rollbacks abstracted away: each call returns *)
(* once, in one atomic step, and either                                    *)
(*   - has committed its read-modify-write of the shared counter and       *)
(*     returns nil,                                                        *)
(*   - has committed nothing and returns an error other than a            *)
(*     serialization or deadlock error, or                                 *)
(*   - has committed and still returns an unclassified error (the          *)
(*     connection broke during Commit).                                    *)
(* Each commit increments the counter by one: no update is lost.          *)
(***************************************************************************)
EXTENDS Naturals

CONSTANT Clients

VARIABLES
    status,     \* "running" until the call returns, then "done"
    result,     \* what the call returned, "none" while running
    committed,  \* how many times the call's body has been committed
    dbVal       \* the committed counter

avars == <<status, result, committed, dbVal>>

\* Errors a call may end with having committed nothing: the retry budget
\* exhausted, the Int63n panic, and every class MapSQLError returns except
\* the two ExecTx retries.
CleanErrors ==
    {"exceeded", "panic", "UniqueViolation", "Schema", "Connection", "Unknown"}

\* Errors a call may end with although its body was committed.
AmbiguousErrors == {"Connection", "Unknown"}

Init ==
    /\ status = [c \in Clients |-> "running"]
    /\ result = [c \in Clients |-> "none"]
    /\ committed = [c \in Clients |-> 0]
    /\ dbVal = 0

\* The call c returns r.
Finish(c, r) ==
    /\ status[c] = "running"
    /\ status' = [status EXCEPT ![c] = "done"]
    /\ result' = [result EXCEPT ![c] = r]

\* The body of c is committed on top of the current counter.
Apply(c) ==
    /\ committed' = [committed EXCEPT ![c] = @ + 1]
    /\ dbVal' = dbVal + 1

CommitBody(c) == Finish(c, "ok") /\ Apply(c)

ReturnError(c) ==
    /\ \E r \in CleanErrors : Finish(c, r)
    /\ UNCHANGED <<committed, dbVal>>

ReturnAmbiguous(c) == \E r \in AmbiguousErrors : Finish(c, r) /\ Apply(c)

Next ==
    \E c \in Clients : CommitBody(c) \/ ReturnError(c) \/ ReturnAmbiguous(c)

SafetySpec == Init /\ [][Next]_avars

\* Every call returns.
Spec ==
    /\ SafetySpec
    /\ \A c \in Clients :
          WF_avars(CommitBody(c) \/ ReturnError(c) \/ ReturnAmbiguous(c))

=============================================================================
