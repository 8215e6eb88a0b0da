------------------------ MODULE EventStreamAbstract ------------------------
(***************************************************************************)
(* What an event-stream assertion of itest/assertions.go promises the     *)
(* test that calls it, with the channel, the watchdog goroutine, the      *)
(* timer and the event-by-event checks abstracted away:                    *)
(*   - the daemon moves forward one state at a time, up to its final one; *)
(*   - the helper returns normally only on an open stream and only once   *)
(*     the daemon has reached the state it waits for, and it cancels the  *)
(*     stream when that state is the final one;                            *)
(*   - the helper may fail the test at any time while it waits;           *)
(*   - the stream may be cancelled at any time (the timeout), and stays    *)
(*     cancelled.                                                          *)
(***************************************************************************)
EXTENDS Naturals

VARIABLES
    dst,        \* the daemon's progress: the last state it reached
    target,     \* the state the helper waits for (`to`)
    top,        \* the stream's final state
    mpc,        \* the helper: "loop", "ok" (returned) or "fail"
    stream      \* "open" or "cancelled"

avars == <<dst, target, top, mpc, stream>>

Init ==
    /\ target \in Nat /\ top \in Nat /\ target <= top
    /\ dst \in 0..top
    /\ mpc = "loop"
    /\ stream = "open"

\* The daemon reaches its next state.
Progress ==
    /\ dst < top
    /\ dst' = dst + 1
    /\ UNCHANGED <<target, top, mpc, stream>>

\* The helper returns: the daemon has reached the awaited state.
Succeed ==
    /\ mpc = "loop"
    /\ stream = "open"
    /\ dst >= target
    /\ mpc' = "ok"
    /\ stream' = IF target = top THEN "cancelled" ELSE stream
    /\ UNCHANGED <<dst, target, top>>

\* The helper fails the test.
Fail ==
    /\ mpc = "loop"
    /\ mpc' = "fail"
    /\ UNCHANGED <<dst, target, top, stream>>

\* The stream is cancelled.
Cancel ==
    /\ stream' = "cancelled"
    /\ UNCHANGED <<dst, target, top, mpc>>

Next == Progress \/ Succeed \/ Fail \/ Cancel

Spec == Init /\ [][Next]_avars

=============================================================================
