------------------------- MODULE EventStreamProofs -------------------------
(***************************************************************************)
(* Proofs about the event-stream helpers, for every set of helper calls   *)
(* and every behaviour of the daemon that emits the events.               *)
(***************************************************************************)
EXTENDS EventStream, SequenceTheorems, TLAPS

\* The k-th event the loop has passed: the k-th state from `from` on, with
\* no error, and for the awaited address, batch or key unless
\* AssertSendEvents was given no target key.
Accepted(ev, k) ==
    /\ ev.st = From + k - 1
    /\ ~ev.err
    /\ Helper # "send" \/ TargetKey => ev.rel

(***************************************************************************)
(* The inductive invariant.  VerdictSound alone is not inductive: it says *)
(* nothing while the loop runs, and the loop's next step relies on every  *)
(* event received so far having been accepted and on `expected` being the *)
(* state after the last of them, or the last itself once the helper has  *)
(* returned.                                                              *)
(***************************************************************************)
StreamInv ==
    /\ TypeOK
    /\ expected \in From..To
    /\ mpc # "fail" =>
          /\ \A k \in 1..Len(got) : Accepted(got[k], k)
          /\ Len(got) = expected - From + (IF mpc = "ok" THEN 1 ELSE 0)
    /\ mpc = "ok" => expected = To
    /\ To = Final /\ mpc = "ok" => stream = "cancelled"


\* What StreamAssumption says of the call under test.
LEMMA CallFacts ==
    ASSUME call \in Calls
    PROVE  /\ Helper \in {"receive", "mint", "send"}
           /\ From \in Nat /\ To \in Nat /\ Final \in Nat
           /\ From <= To /\ To <= Final
           /\ Helper # "send" => To = Final
           /\ TargetKey \in BOOLEAN
           /\ MaxEvents \in Nat
BY StreamAssumption DEF Helper, From, To, Final, TargetKey, MaxEvents

LEMMA InitStreamInv == Init => StreamInv
<1> SUFFICES ASSUME Init PROVE StreamInv
  OBVIOUS
<1>1. call \in Calls
  BY DEF Init
<1>2. /\ From \in Nat /\ To \in Nat /\ Final \in Nat /\ MaxEvents \in Nat
      /\ From <= To /\ To <= Final
  BY <1>1, CallFacts
<1>3. <<>> \in Seq(Events) /\ Len(<<>>) = 0
  BY EmptySeq
<1>4. dst \in 0..Final
  BY <1>2 DEF Init
<1>5. emitted \in 0..MaxEvents /\ expected \in Nat
  BY <1>2 DEF Init
<1>6. TypeOK
  BY <1>1, <1>3, <1>4, <1>5, Zenon DEF Init, TypeOK
<1>. QED
  BY <1>2, <1>3, <1>6 DEF Init, StreamInv

\* A step that keeps the call keeps every parameter of it.
LEMMA CallUnchanged ==
    ASSUME call' = call
    PROVE  /\ Helper' = Helper /\ From' = From /\ To' = To
           /\ Final' = Final /\ TargetKey' = TargetKey
           /\ MaxEvents' = MaxEvents /\ Events' = Events
BY DEF Helper, From, To, Final, TargetKey, MaxEvents, Events

\* Steps that change neither the loop, nor the ghost, nor the channel keep
\* the invariant as long as they do not reopen the stream.
LEMMA QuietStep ==
    ASSUME StreamInv,
           UNCHANGED <<call, mpc, expected, got, chan, dst, emitted>>,
           stream' \in {stream, "cancelled"},
           success' \in BOOLEAN, wpc' \in {"select", "exited"},
           fired' \in BOOLEAN
    PROVE  StreamInv'
<1>1. call \in Calls
  BY DEF StreamInv, TypeOK
<1>. QED
  BY <1>1, CallUnchanged, CallFacts DEF StreamInv, TypeOK, Accepted

LEMMA EmitStep ==
    ASSUME StreamInv, Emit
    PROVE  StreamInv'
<1>1. call \in Calls /\ call' = call
  BY DEF StreamInv, TypeOK, Emit
<1>2. /\ Final \in Nat /\ MaxEvents \in Nat
      /\ Final' = Final /\ MaxEvents' = MaxEvents /\ Events' = Events
  BY <1>1, CallFacts, CallUnchanged
<1>3. PICK st \in {dst, dst + 1} \cap 0..Final, err \in BOOLEAN,
           rel \in BOOLEAN :
         /\ dst' = st
         /\ chan' = IF stream = "open"
                    THEN Append(chan, [st |-> st, err |-> err, rel |-> rel])
                    ELSE chan
  BY DEF Emit
<1>4. [st |-> st, err |-> err, rel |-> rel] \in Events
  BY <1>2, <1>3 DEF Events
<1>5. chan' \in Seq(Events)
  BY <1>3, <1>4, AppendProperties DEF StreamInv, TypeOK
<1>6. /\ emitted' \in 0..MaxEvents
      /\ dst' \in 0..Final
  BY <1>2, <1>3 DEF Emit, StreamInv, TypeOK
<1>7. TypeOK'
  BY <1>1, <1>2, <1>5, <1>6 DEF Emit, StreamInv, TypeOK
<1>. QED
  BY <1>1, <1>7, CallUnchanged DEF Emit, StreamInv, Accepted

\* What the loop body decides on an event: an event it does not fail on is
\* the awaited one; "next" is below `to`, "done" is `to` itself.
LEMMA StepFacts ==
    ASSUME call \in Calls, NEW ev \in Events, expected \in Nat
    PROVE  /\ Step(ev) \in {"fail", "next", "done"}
           /\ Step(ev) # "fail" =>
                 /\ ev.st = expected /\ ~ev.err
                 /\ Helper # "send" \/ TargetKey => ev.rel
           /\ Step(ev) = "next" => ev.st # To
           /\ Step(ev) = "done" => ev.st = To
<1>1. Helper # "send" => To = Final
  BY CallFacts
<1>. QED
  BY <1>1, CallFacts DEF Step, SendStep, ReceiveStep, Events

LEMMA RecvEventStep ==
    ASSUME StreamInv, RecvEvent
    PROVE  StreamInv'
<1> DEFINE ev == Head(chan)
<1>1. /\ call \in Calls /\ call' = call
      /\ Helper' = Helper /\ From' = From /\ To' = To /\ Final' = Final
      /\ TargetKey' = TargetKey /\ MaxEvents' = MaxEvents /\ Events' = Events
  BY CallUnchanged DEF StreamInv, TypeOK, RecvEvent
<1>2. /\ From \in Nat /\ To \in Nat /\ Final \in Nat
      /\ From <= To /\ To <= Final
  BY <1>1, CallFacts
<1>3. /\ chan \in Seq(Events) /\ chan # <<>> /\ got \in Seq(Events)
      /\ mpc = "loop" /\ expected \in From..To
  BY DEF StreamInv, TypeOK, RecvEvent
<1>4. ev \in Events /\ Tail(chan) \in Seq(Events)
  BY <1>3, HeadTailProperties
<1>5. /\ chan' = Tail(chan) /\ got' = Append(got, ev)
      /\ UNCHANGED <<dst, emitted, wpc, fired>>
  BY DEF RecvEvent
<1>6. /\ got' \in Seq(Events)
      /\ Len(got') = Len(got) + 1
      /\ \A k \in 1..Len(got) : got'[k] = got[k]
      /\ got'[Len(got) + 1] = ev
  BY <1>3, <1>4, <1>5, AppendProperties
<1>7. /\ Len(got) \in Nat
      /\ Len(got) = expected - From
      /\ \A k \in 1..Len(got) : Accepted(got[k], k)
  BY <1>2, <1>3, LenProperties DEF StreamInv
<1>8. /\ Step(ev) \in {"fail", "next", "done"}
      /\ Step(ev) # "fail" =>
            /\ ev.st = expected /\ ~ev.err
            /\ Helper # "send" \/ TargetKey => ev.rel
      /\ Step(ev) = "next" => ev.st # To
      /\ Step(ev) = "done" => ev.st = To
  BY <1>1, <1>2, <1>3, <1>4, StepFacts
\* The types every outcome keeps.
<1>9. ASSUME stream' \in {"open", "cancelled"}, mpc' \in {"loop", "ok", "fail"},
             expected' \in Nat, success' \in BOOLEAN
      PROVE  TypeOK'
  BY <1>1, <1>4, <1>5, <1>6, <1>9 DEF StreamInv, TypeOK
\* An event the loop accepts extends the accepted prefix by one.
<1>10. ASSUME Step(ev) # "fail"
       PROVE  \A k \in 1..Len(got') : Accepted(got'[k], k)
  <2>1. Accepted(got'[Len(got) + 1], Len(got) + 1)
    BY <1>1, <1>2, <1>3, <1>6, <1>7, <1>8, <1>10 DEF Accepted
  <2>2. ASSUME NEW k \in 1..Len(got) PROVE Accepted(got'[k], k)
    BY <1>1, <1>6, <1>7 DEF Accepted
  <2>. QED
    BY <1>6, <1>7, <2>1, <2>2
<1>11. CASE Step(ev) = "fail"
  <2>1. mpc' = "fail" /\ expected' = expected /\ UNCHANGED <<stream, success>>
    BY <1>11 DEF RecvEvent
  <2>2. TypeOK'
    BY <1>2, <1>3, <2>1, <1>9 DEF StreamInv, TypeOK
  <2>. QED
    BY <1>1, <1>3, <2>1, <2>2 DEF StreamInv
<1>12. CASE Step(ev) = "next"
  <2>1. /\ mpc' = "loop" /\ expected' = expected + 1
        /\ stream' \in {stream, "cancelled"} /\ success' = success
    BY <1>12 DEF RecvEvent
  <2>2. ev.st = expected /\ expected # To
    BY <1>8, <1>12
  <2>3. TypeOK'
    BY <1>2, <1>3, <2>1, <1>9 DEF StreamInv, TypeOK
  <2>4. expected' \in From..To /\ Len(got') = expected' - From
    BY <1>2, <1>3, <1>6, <1>7, <2>1, <2>2
  <2>. QED
    BY <1>1, <1>10, <1>12, <2>1, <2>3, <2>4 DEF StreamInv, Accepted
<1>13. CASE Step(ev) = "done"
  <2>1. /\ mpc' = "ok" /\ expected' = expected /\ success' = TRUE
        /\ stream' = IF ev.st = Final THEN "cancelled" ELSE stream
    BY <1>13 DEF RecvEvent
  <2>2. ev.st = expected /\ ev.st = To
    BY <1>8, <1>13
  <2>3. TypeOK'
    BY <1>2, <1>3, <2>1, <1>9 DEF StreamInv, TypeOK
  <2>4. Len(got') = expected' - From + 1
    BY <1>2, <1>3, <1>6, <1>7, <2>1
  <2>5. To = Final => stream' = "cancelled"
    BY <2>1, <2>2
  <2>. QED
    BY <1>1, <1>3, <1>10, <1>13, <2>1, <2>2, <2>3, <2>4, <2>5
       DEF StreamInv, Accepted
<1>. QED
  BY <1>8, <1>11, <1>12, <1>13

LEMMA StreamInvStep == StreamInv /\ [Next]_vars => StreamInv'
<1> SUFFICES ASSUME StreamInv, [Next]_vars PROVE StreamInv'
  OBVIOUS
<1>1. CASE Emit
  BY <1>1, EmitStep
<1>2. CASE RecvEvent
  BY <1>2, RecvEventStep
<1>3. CASE RecvError
  <2>1. call \in Calls /\ call' = call /\ mpc' = "fail"
    BY <1>3 DEF RecvError, StreamInv, TypeOK
  <2>. QED
    BY <1>3, <2>1, CallUnchanged DEF RecvError, StreamInv, TypeOK
<1>4. CASE TimerFires
  BY <1>4, QuietStep DEF TimerFires, StreamInv, TypeOK
<1>5. CASE WatchdogTimeout
  BY <1>5, QuietStep DEF WatchdogTimeout, StreamInv, TypeOK
<1>6. CASE WatchdogSuccess
  BY <1>6, QuietStep DEF WatchdogSuccess, StreamInv, TypeOK
<1>7. CASE Terminating \/ UNCHANGED vars
  BY <1>7, QuietStep DEF Terminating, vars, StreamInv, TypeOK
<1>. QED
  BY <1>1, <1>2, <1>3, <1>4, <1>5, <1>6, <1>7 DEF Next, Watchdog

(***************************************************************************)
(* Theorems                                                                *)
(***************************************************************************)

\* The stream helpers' variables keep their types whatever the daemon
\* emits.
THEOREM TypeCorrect == Spec => []TypeOK
<1>1. StreamInv => TypeOK
  BY DEF StreamInv
<1>. QED
  BY InitStreamInv, StreamInvStep, <1>1, PTL DEF Spec

\* The verdict of the receive, mint and send loops is sound for every
\* call: a helper that returns has received exactly the events from `from`
\* to `to`, in order, each without an error and, unless AssertSendEvents
\* was given no target key, for the awaited address, batch or key.
THEOREM VerdictSoundness == Spec => []VerdictSound
<1>1. StreamInv => VerdictSound
  <2> SUFFICES ASSUME StreamInv, mpc = "ok" PROVE VerdictSound
    BY DEF VerdictSound
  <2>1. call \in Calls /\ got \in Seq(Events)
    BY DEF StreamInv, TypeOK
  <2>2. /\ From \in Nat /\ To \in Nat /\ From <= To
        /\ Helper # "send" => To = Final
    BY <2>1, CallFacts
  <2>3. /\ Len(got) = To - From + 1
        /\ \A k \in 1..Len(got) : Accepted(got[k], k)
    BY <2>2 DEF StreamInv
  <2>4. Expected \in Seq(Events)
    <3>1. To - From + 1 \in Nat
      BY <2>2
    <3>2. \A k \in 1..(To - From + 1) : From + k - 1 \in 0..Final
      BY <2>1, <2>2, CallFacts
    <3>3. Expected \in [1..(To - From + 1) -> Events]
      BY <3>2 DEF Expected, Events
    <3>. QED
      BY <3>1, <3>3
  <2>5. /\ Len(Expected) = Len(got)
        /\ \A k \in 1..Len(got) :
              Expected[k] = [st |-> From + k - 1, err |-> FALSE, rel |-> TRUE]
    <3>1. DOMAIN Expected = 1..Len(Expected) /\ Len(Expected) \in Nat
      BY <2>4, LenProperties
    <3>2. DOMAIN Expected = 1..(To - From + 1)
      BY DEF Expected
    <3>. QED
      BY <2>2, <2>3, <3>1, <3>2 DEF Expected
  <2>6. CASE Helper = "send" /\ ~TargetKey
    BY <2>3, <2>5, <2>6 DEF VerdictSound, Accepted
  <2>7. CASE ~(Helper = "send" /\ ~TargetKey)
    <3>1. ASSUME NEW k \in 1..Len(got) PROVE got[k] = Expected[k]
      <4>1. got[k] \in Events
        BY <2>1, ElementOfSeq
      <4>2. /\ got[k].st = From + k - 1 /\ got[k].err = FALSE
            /\ got[k].rel = TRUE
        BY <2>3, <2>7, <4>1 DEF Accepted, Events
      <4>. QED
        BY <2>5, <4>1, <4>2 DEF Events
    <3>. QED
      BY <2>1, <2>4, <2>5, <2>7, <3>1, SeqEqual DEF VerdictSound
  <2>. QED
    BY <2>6, <2>7
<1>. QED
  BY InitStreamInv, StreamInvStep, <1>1, PTL DEF Spec

(***************************************************************************)
(* Refinement: the helpers implement EventStreamAbstract under the mapping *)
(* target = `to`, top = `final`.  The step that needs an argument is the  *)
(* return: the event the loop accepts at `to` was emitted by the daemon,  *)
(* so the daemon has reached `to`.  Every event in flight carries a state  *)
(* the daemon has already reached, because the daemon never goes back.    *)
(***************************************************************************)

\* Every event still in the channel is for a state the daemon has reached.
ChanBelow == \A k \in 1..Len(chan) : chan[k].st <= dst

LEMMA InitChanBelow == Init => ChanBelow
BY DEF Init, ChanBelow

LEMMA ChanBelowStep ==
    StreamInv /\ ChanBelow /\ [Next]_vars => ChanBelow'
<1> SUFFICES ASSUME StreamInv, ChanBelow, [Next]_vars PROVE ChanBelow'
  OBVIOUS
<1>1. /\ call \in Calls /\ chan \in Seq(Events) /\ dst \in 0..Final
  BY DEF StreamInv, TypeOK
<1>2. Final \in Nat
  BY <1>1, CallFacts
<1>0. /\ Len(chan) \in Nat
      /\ \A k \in 1..Len(chan) : chan[k].st \in Nat
  <2>1. \A k \in 1..Len(chan) : chan[k] \in Events
    BY <1>1, ElementOfSeq
  <2>. QED
    BY <1>1, <1>2, <2>1, LenProperties DEF Events
<1>3. CASE Emit
  <2>1. PICK st \in {dst, dst + 1} \cap 0..Final, err \in BOOLEAN,
             rel \in BOOLEAN :
           /\ dst' = st
           /\ chan' = IF stream = "open"
                      THEN Append(chan, [st |-> st, err |-> err, rel |-> rel])
                      ELSE chan
    BY <1>3 DEF Emit
  <2>2. [st |-> st, err |-> err, rel |-> rel] \in Events
    BY <1>2, <2>1 DEF Events
  <2>3. dst <= dst'
    BY <1>1, <1>2, <2>1
  <2>4. CASE stream = "open"
    <3>1. /\ Len(chan') = Len(chan) + 1
          /\ \A k \in 1..Len(chan) : chan'[k] = chan[k]
          /\ chan'[Len(chan) + 1] = [st |-> st, err |-> err, rel |-> rel]
      BY <1>1, <2>1, <2>2, <2>4, AppendProperties
    <3>2. Len(chan) \in Nat
      BY <1>1, LenProperties
    <3>. QED
      BY <1>0, <1>1, <1>2, <2>1, <2>3, <3>1, <3>2 DEF ChanBelow
  <2>5. CASE stream # "open"
    BY <1>0, <1>1, <1>2, <2>1, <2>3, <2>5 DEF ChanBelow
  <2>. QED
    BY <2>4, <2>5
<1>4. CASE RecvEvent
  <2>1. chan # <<>> /\ chan' = Tail(chan) /\ dst' = dst
    BY <1>4 DEF RecvEvent
  <2>2. /\ Len(Tail(chan)) = Len(chan) - 1
        /\ \A k \in 1..Len(Tail(chan)) : Tail(chan)[k] = chan[k + 1]
    BY <1>1, <2>1, HeadTailProperties
  <2>3. Len(chan) \in Nat
    BY <1>1, LenProperties
  <2>. QED
    BY <2>1, <2>2, <2>3 DEF ChanBelow
<1>5. CASE RecvError \/ TimerFires \/ Watchdog \/ Terminating \/ UNCHANGED vars
  <2>1. chan' = chan /\ dst' = dst
    BY <1>5 DEF RecvError, TimerFires, Watchdog, WatchdogTimeout,
       WatchdogSuccess, Terminating, vars
  <2>. QED
    BY <2>1 DEF ChanBelow
<1>. QED
  BY <1>3, <1>4, <1>5 DEF Next

\* The accepting step of the loop, seen through the mapping: a failure is
\* the abstract Fail, an accepted event below `to` changes nothing the
\* abstraction sees, and the event at `to` is the abstract Succeed.
LEMMA RecvEventRefines ==
    ASSUME StreamInv, ChanBelow, RecvEvent
    PROVE  [Abs!Next]_Abs!avars
<1> DEFINE ev == Head(chan)
<1>1. /\ call \in Calls /\ call' = call
      /\ To' = To /\ Final' = Final
  BY CallUnchanged DEF StreamInv, TypeOK, RecvEvent
<1>2. /\ From \in Nat /\ To \in Nat /\ Final \in Nat
      /\ From <= To /\ To <= Final
  BY <1>1, CallFacts
<1>3. /\ chan \in Seq(Events) /\ chan # <<>>
      /\ mpc = "loop" /\ stream = "open" /\ expected \in From..To
  BY DEF StreamInv, TypeOK, RecvEvent
<1>4. ev \in Events /\ ev = chan[1] /\ Len(chan) \in Nat /\ Len(chan) >= 1
  <2>1. Len(chan) \in Nat /\ Len(chan) # 0
    BY <1>3, LenProperties, EmptySeq
  <2>. QED
    BY <1>3, <2>1, HeadTailProperties
<1>5. ev.st <= dst
  BY <1>4 DEF ChanBelow
<1>6. dst' = dst
  BY DEF RecvEvent
<1>7. /\ Step(ev) \in {"fail", "next", "done"}
      /\ Step(ev) # "fail" => ev.st = expected
      /\ Step(ev) = "next" => ev.st # To
      /\ Step(ev) = "done" => ev.st = To
  BY <1>1, <1>2, <1>3, <1>4, StepFacts
<1>8. CASE Step(ev) = "fail"
  <2>1. mpc' = "fail" /\ stream' = stream
    BY <1>8 DEF RecvEvent
  <2>. QED
    BY <1>1, <1>3, <1>6, <2>1 DEF Abs!Next, Abs!Fail
<1>9. CASE Step(ev) = "next"
  <2>1. mpc' = mpc /\ stream' = IF ev.st = Final THEN "cancelled" ELSE stream
    BY <1>9 DEF RecvEvent
  <2>2. ev.st # Final
    BY <1>2, <1>3, <1>4, <1>7, <1>9 DEF Events
  <2>. QED
    BY <1>1, <1>6, <2>1, <2>2 DEF Abs!avars
<1>10. CASE Step(ev) = "done"
  <2>1. mpc' = "ok" /\ stream' = IF ev.st = Final THEN "cancelled" ELSE stream
    BY <1>10 DEF RecvEvent
  <2>2. ev.st = To /\ dst >= To
    BY <1>2, <1>4, <1>5, <1>7, <1>10 DEF Events
  <2>. QED
    BY <1>1, <1>3, <1>6, <2>1, <2>2 DEF Abs!Next, Abs!Succeed
<1>. QED
  BY <1>7, <1>8, <1>9, <1>10

\* Every step of the helpers and the daemon is an abstract step or a
\* stutter under the mapping.
LEMMA StepRefinesStream ==
    StreamInv /\ ChanBelow /\ [Next]_vars => [Abs!Next]_Abs!avars
<1> SUFFICES ASSUME StreamInv, ChanBelow, [Next]_vars
             PROVE  [Abs!Next]_Abs!avars
  OBVIOUS
<1>1. call \in Calls /\ dst \in 0..Final
  BY DEF StreamInv, TypeOK
<1>2. Final \in Nat
  BY <1>1, CallFacts
<1>3. CASE Emit
  <2>1. /\ call' = call /\ To' = To /\ Final' = Final
        /\ UNCHANGED <<mpc, stream>>
        /\ dst' \in {dst, dst + 1} \cap 0..Final
    BY <1>3, CallUnchanged DEF Emit
  <2>. QED
    BY <1>1, <1>2, <2>1 DEF Abs!Next, Abs!Progress, Abs!avars
<1>4. CASE RecvEvent
  BY <1>4, RecvEventRefines
<1>5. CASE RecvError
  <2>1. /\ call' = call /\ To' = To /\ Final' = Final
        /\ mpc = "loop" /\ mpc' = "fail" /\ UNCHANGED <<dst, stream>>
    BY <1>5, CallUnchanged DEF RecvError
  <2>. QED
    BY <2>1 DEF Abs!Next, Abs!Fail
<1>6. CASE WatchdogTimeout
  <2>1. /\ call' = call /\ To' = To /\ Final' = Final
        /\ stream' = "cancelled" /\ UNCHANGED <<dst, mpc>>
    BY <1>6, CallUnchanged DEF WatchdogTimeout
  <2>. QED
    BY <2>1 DEF Abs!Next, Abs!Cancel
<1>7. CASE TimerFires \/ WatchdogSuccess \/ Terminating \/ UNCHANGED vars
  <2>1. /\ call' = call /\ To' = To /\ Final' = Final
        /\ UNCHANGED <<dst, mpc, stream>>
    BY <1>7, CallUnchanged DEF TimerFires, WatchdogSuccess, Terminating, vars
  <2>. QED
    BY <2>1 DEF Abs!avars
<1>. QED
  BY <1>3, <1>4, <1>5, <1>6, <1>7 DEF Next, Watchdog

\* The helpers implement what they promise their tests: a normal return
\* only on an open stream once the daemon has reached the awaited state,
\* with the stream cancelled at the final state.
THEOREM Refinement == Spec => ImplementsAbstract
<1>1. Init => Abs!Init
  <2> SUFFICES ASSUME Init PROVE Abs!Init
    OBVIOUS
  <2>1. call \in Calls
    BY DEF Init
  <2>2. /\ From \in Nat /\ To \in Nat /\ Final \in Nat
        /\ From <= To /\ To <= Final
    BY <2>1, CallFacts
  <2>. QED
    BY <2>2 DEF Init, Abs!Init
<1>2. StreamInv /\ ChanBelow /\ [Next]_vars => (StreamInv /\ ChanBelow)'
  BY StreamInvStep, ChanBelowStep
<1>. QED
  BY <1>1, <1>2, InitStreamInv, InitChanBelow, StepRefinesStream,
     PTL DEF Spec, ImplementsAbstract, Abs!Spec

=============================================================================
