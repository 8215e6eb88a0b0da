---------------------------- MODULE EventStream ----------------------------
(***************************************************************************)
(* The event-stream assertions of itest/assertions.go: AssertReceiveEvents *)
(* (address receive events), AssertMintEvents (minting batch events) and  *)
(* AssertSendEvents (send events from a state `from` to a state `to`).    *)
(*                                                                         *)
(* Each helper starts a watchdog goroutine that waits on a timer and on a *)
(* `success` channel and cancels the stream when the timer fires first,   *)
(* then loops on stream.Recv(), requiring each event to be for the        *)
(* awaited address, batch or script key, to carry no error and to be in  *)
(* the next expected state.  A `require` failure ends the test goroutine. *)
(*                                                                         *)
(* The daemon's side of the subscription (not in this repository) is      *)
(* modelled from the spec as an environment that emits events of its own *)
(* progress, possibly for another address, with an error, or repeated,   *)
(* and that may stop emitting.  States are numbered as the RPC enums are. *)
(***************************************************************************)
EXTENDS Naturals, Sequences

\* The helper calls to check, each a record of
\*   helper: "receive", "mint" or "send";
\*   from, to: the first state the helper expects, the one it returns at;
\*   final: the last state of the stream (completed, finalized);
\*   targetKey: AssertSendEvents, whether a target script key is given;
\*   maxEvents: how many events the daemon emits at most.
CONSTANT Calls

ASSUME StreamAssumption ==
    \A c \in Calls :
        /\ c.helper \in {"receive", "mint", "send"}
        /\ c.from \in Nat /\ c.to \in Nat /\ c.final \in Nat
        /\ c.from <= c.to /\ c.to <= c.final
        /\ c.helper # "send" => c.to = c.final
        /\ c.targetKey \in BOOLEAN
        /\ c.maxEvents \in Nat

VARIABLES
    call,       \* the call under test, one of Calls
    dst,        \* the daemon's progress: the last state it reached
    emitted,    \* events emitted so far
    chan,       \* events emitted and not yet received
    stream,     \* "open" or "cancelled"
    mpc,        \* test goroutine: "loop", "ok" (returned), "fail"
    expected,   \* startStatus / expectedStatus
    got,        \* every event the loop has received, in order (ghost)
    success,    \* whether the success channel is closed
    wpc,        \* watchdog goroutine: "select" or "exited"
    fired       \* whether the timer channel has a value

vars == <<call, dst, emitted, chan, stream, mpc, expected, got, success, wpc,
          fired>>

Helper == call.helper
From == call.from
To == call.to
Final == call.final
TargetKey == call.targetKey
MaxEvents == call.maxEvents

\* An event: its state, whether its Error field is set, and whether it is
\* for the awaited address, batch or script key.
Events == [st : 0..Final, err : BOOLEAN, rel : BOOLEAN]

\* Mutant: the Error field is not checked.
ReceiveStepNoErrCheck(ev) ==
    IF ~ev.rel \/ ev.st # expected THEN "fail"
    ELSE IF ev.st = Final THEN "done" ELSE "next"

\* The loop body of AssertReceiveEvents and AssertMintEvents: an event for
\* another address/batch, in another state or with an error fails the test;
\* the final state ends the loop.
ReceiveStep(ev) ==
    IF ~ev.rel \/ ev.st # expected \/ ev.err THEN "fail"
    ELSE IF ev.st = Final THEN "done" ELSE "next"

\* The loop body of AssertSendEvents: the script-key filter (every event
\* passes when no target key is given), the error, then the state; the
\* helper returns at `to`.
SendStep(ev) ==
    IF (TargetKey /\ ~ev.rel) \/ ev.err \/ ev.st # expected THEN "fail"
    ELSE IF ev.st = To THEN "done" ELSE "next"

Step(ev) == IF Helper = "send" THEN SendStep(ev) ELSE ReceiveStep(ev)

\* The calls the fixed-range helpers make, for a daemon that emits at most n
\* events.  AssertReceiveEvents starts at statusDetected (1) and ends at
\* statusCompleted (4), the last address event status.
ReceiveEventsCall(n) ==
    [helper |-> "receive", from |-> 1, to |-> 4, final |-> 4,
     targetKey |-> TRUE, maxEvents |-> n]

\* AssertMintEvents starts at batchFrozen (2) and ends at batchFinalized (6).
MintEventsCall(n) ==
    [helper |-> "mint", from |-> 2, to |-> 6, final |-> 6,
     targetKey |-> TRUE, maxEvents |-> n]

\* AssertSendEventsComplete: AssertSendEvents from SendStateWaitTxConf to
\* SendStateComplete, the last two of the send states numbered 0..3 here;
\* the script key may be nil (no target key).
SendEventsCompleteCall(hasKey, n) ==
    [helper |-> "send", from |-> 2, to |-> 3, final |-> 3,
     targetKey |-> hasKey, maxEvents |-> n]

-----------------------------------------------------------------------------

\* The helper is called on a fresh subscription: the daemon has reached the
\* state before `from`, or already `from` itself when the subscription was
\* made late.
Init ==
    /\ call \in Calls
    /\ dst \in {From - 1, From} \cap Nat
    /\ emitted = 0
    /\ chan = <<>>
    /\ stream = "open"
    /\ mpc = "loop"
    /\ expected = From
    /\ got = <<>>
    /\ success = FALSE
    /\ wpc = "select"
    /\ fired = FALSE

\* The daemon emits an event: for its next state, or its current one again,
\* with or without an error, for the awaited key or another one.  Events
\* emitted after cancellation are discarded.
Emit ==
    /\ emitted < MaxEvents
    /\ \E st \in {dst, dst + 1} \cap 0..Final, err, rel \in BOOLEAN :
         /\ dst' = st
         /\ chan' = IF stream = "open"
                    THEN Append(chan, [st |-> st, err |-> err, rel |-> rel])
                    ELSE chan
    /\ emitted' = emitted + 1
    /\ UNCHANGED <<call, stream, mpc, expected, got, success, wpc,
                   fired>>

\* Mutant: the helper cancels the stream whenever it returns, not only once
\* it has received the final state.
RecvEventCancelOnReturn ==
    /\ mpc = "loop"
    /\ stream = "open"
    /\ chan # <<>>
    /\ LET ev == Head(chan) IN
         /\ chan' = Tail(chan)
         /\ got' = Append(got, ev)
         /\ CASE Step(ev) = "fail" ->
                   /\ mpc' = "fail"
                   /\ UNCHANGED <<stream, expected, success>>
              [] Step(ev) = "next" ->
                   /\ expected' = expected + 1
                   /\ stream' = IF ev.st = Final THEN "cancelled" ELSE stream
                   /\ UNCHANGED <<mpc, success>>
              [] Step(ev) = "done" ->
                   /\ mpc' = "ok"
                   /\ success' = TRUE
                   /\ stream' = "cancelled"
                   /\ UNCHANGED expected
    /\ UNCHANGED <<call, dst, emitted, wpc, fired>>

\* stream.Recv() returns the next event and the loop body runs on it.
RecvEvent ==
    /\ mpc = "loop"
    /\ stream = "open"
    /\ chan # <<>>
    /\ LET ev == Head(chan) IN
         /\ chan' = Tail(chan)
         /\ got' = Append(got, ev)
         /\ CASE Step(ev) = "fail" ->
                   /\ mpc' = "fail"
                   /\ UNCHANGED <<stream, expected, success>>
              [] Step(ev) = "next" ->
                   /\ expected' = expected + 1
                   /\ stream' = IF ev.st = Final THEN "cancelled" ELSE stream
                   /\ UNCHANGED <<mpc, success>>
              [] Step(ev) = "done" ->
                   /\ mpc' = "ok"
                   /\ success' = TRUE
                   /\ stream' = IF ev.st = Final THEN "cancelled" ELSE stream
                   /\ UNCHANGED expected
    /\ UNCHANGED <<call, dst, emitted, wpc, fired>>

\* stream.Recv() on a cancelled stream returns an error: require.NoError.
RecvError ==
    /\ mpc = "loop"
    /\ stream = "cancelled"
    /\ mpc' = "fail"
    /\ UNCHANGED <<call, dst, emitted, chan, stream, expected, got, success,
                   wpc, fired>>

\* time.After(defaultWaitTimeout) delivers.
TimerFires ==
    /\ ~fired
    /\ fired' = TRUE
    /\ UNCHANGED <<call, dst, emitted, chan, stream, mpc, expected, got,
                   success, wpc>>

\* The watchdog's select takes the timeout case: it cancels the stream.
WatchdogTimeout ==
    /\ wpc = "select"
    /\ fired
    /\ wpc' = "exited"
    /\ stream' = "cancelled"
    /\ UNCHANGED <<call, dst, emitted, chan, mpc, expected, got, success,
                   fired>>

\* The watchdog's select takes the success case.
WatchdogSuccess ==
    /\ wpc = "select"
    /\ success
    /\ wpc' = "exited"
    /\ UNCHANGED <<call, dst, emitted, chan, stream, mpc, expected, got,
                   success, fired>>

\* Mutant: a watchdog without the timeout case.
WatchdogWithoutTimeout == WatchdogSuccess

\* The watchdog goroutine's select.
Watchdog == WatchdogTimeout \/ WatchdogSuccess

\* Both goroutines are finished.
Terminating ==
    /\ mpc # "loop"
    /\ wpc = "exited"
    /\ UNCHANGED vars

Next ==
    \/ Emit
    \/ RecvEvent
    \/ RecvError
    \/ TimerFires
    \/ Watchdog
    \/ Terminating

\* The test goroutine and the watchdog are scheduled, and the timer fires;
\* the daemon may stop emitting at any point.
Fairness ==
    /\ WF_vars(RecvEvent \/ RecvError)
    /\ WF_vars(TimerFires)
    /\ WF_vars(Watchdog)

Spec == Init /\ [][Next]_vars /\ Fairness

-----------------------------------------------------------------------------
(* Properties                                                              *)

TypeOK ==
    /\ call \in Calls
    /\ dst \in 0..Final
    /\ emitted \in 0..MaxEvents
    /\ chan \in Seq(Events)
    /\ stream \in {"open", "cancelled"}
    /\ mpc \in {"loop", "ok", "fail"}
    /\ expected \in Nat
    /\ got \in Seq(Events)
    /\ success \in BOOLEAN
    /\ wpc \in {"select", "exited"}
    /\ fired \in BOOLEAN

\* The events a successful helper must have seen: From, From+1, ..., To, in
\* order, each for the awaited key and without an error.
Expected ==
    [i \in 1..(To - From + 1) |-> [st |-> From + i - 1, err |-> FALSE,
                                   rel |-> TRUE]]

\* A helper that returns has seen exactly the expected sequence of events:
\* a duplicate, a skipped state, an error or a foreign event fails it.
VerdictSound ==
    mpc = "ok" =>
        IF Helper = "send" /\ ~TargetKey
        THEN /\ Len(got) = Len(Expected)
             /\ \A i \in 1..Len(got) :
                    got[i].st = Expected[i].st /\ ~got[i].err
        ELSE got = Expected

\* When the helper returns, the stream is in the state its caller relies
\* on: cancelled once the final event was received ("fully close the stream
\* once we definitely no longer need it"), and still open when the helper
\* stopped before the final state, for the caller to keep reading (as
\* AssertSendEventsComplete does).
StreamStateOnReturn ==
    mpc = "ok" /\ wpc = "exited" =>
        stream = IF To = Final THEN "cancelled" ELSE "open"

\* The helper never hangs, even when the daemon stops emitting: the test
\* goroutine returns or fails, and the watchdog exits.
HelperFinishes == <>[](mpc # "loop" /\ wpc = "exited")

\* The refinement mapping: the daemon's progress, the helper's control
\* state and the stream are the same variables; the state waited for and
\* the final state are those of the call under test.
Abs == INSTANCE EventStreamAbstract WITH target <- To, top <- Final

\* The helper implements what it promises its test: it returns normally
\* only once the daemon has really emitted the awaited state (events are
\* never taken for states the daemon has not reached), never on a
\* cancelled stream, and cancels the stream at the final state; the
\* channel, the watchdog and the timer are invisible to the test.
ImplementsAbstract == Abs!Spec

=============================================================================
