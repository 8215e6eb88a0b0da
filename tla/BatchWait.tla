----------------------------- MODULE BatchWait -----------------------------
(***************************************************************************)
(* WaitForBatchState of itest/assertions.go: wait.NoError polls           *)
(* ListBatches for one batch key until exactly one batch is returned and  *)
(* it is in the target state, or the timeout expires.                     *)
(*                                                                         *)
(* The planter (not in this repository, modelled from the spec) creates  *)
(* the batch and moves it through its states 1 (pending) .. NumStates     *)
(* (finalized) one at a time; 0 means the batch is not listed yet.        *)
(***************************************************************************)
EXTENDS Naturals

CONSTANT NumStates   \* the batch states, the last one final

ASSUME BatchWaitAssumption == NumStates \in Nat \ {0}

VARIABLES
    bstate,     \* the batch's state, 0 before it is listed
    target,     \* targetState, any state a test may wait for
    wpc         \* the helper: "poll", "ok" or "timeout"

vars == <<bstate, target, wpc>>

\* Mutant: the closure compares with the state after the target.
BatchOkOffByOne(st, tg) == st # 0 /\ st = tg + 1

\* The closure: one batch returned, in the target state.
BatchOk(st, tg) == st # 0 /\ st = tg

Init == bstate = 0 /\ target \in 1..NumStates /\ wpc = "poll"

\* The planter creates the batch or moves it to its next state.
Advance ==
    /\ bstate < NumStates
    /\ bstate' = bstate + 1
    /\ UNCHANGED <<target, wpc>>

\* A poll whose closure returns nil ends wait.NoError; one that returns an
\* error changes nothing and is retried.
Poll ==
    /\ wpc = "poll"
    /\ BatchOk(bstate, target)
    /\ wpc' = "ok"
    /\ UNCHANGED <<bstate, target>>

\* wait.NoError's timeout expires: require.NoError fails the test.
Timeout ==
    /\ wpc = "poll"
    /\ wpc' = "timeout"
    /\ UNCHANGED <<bstate, target>>

\* The helper has returned and the batch is final.
Terminating ==
    /\ wpc # "poll"
    /\ bstate = NumStates
    /\ UNCHANGED vars

Next == Advance \/ Poll \/ Timeout \/ Terminating

\* The planter runs to the final state and the helper keeps polling; the
\* timeout is not assumed to expire.
Spec == Init /\ [][Next]_vars /\ WF_vars(Advance) /\ WF_vars(Poll)

-----------------------------------------------------------------------------
(* Properties                                                              *)

\* WaitForBatchState for the final state returns instead of polling
\* forever: the batch stays final once it gets there.
WaitFinalReturns == target = NumStates => <>(wpc # "poll")

=============================================================================
