----------------------------- MODULE AddrEvents -----------------------------
(***************************************************************************)
(* The polling assertions on address receive events of                    *)
(* itest/assertions.go: AssertAddrEventCustomTimeout (and AssertAddrEvent),*)
(* AssertAddrEventByStatus and AssertNonInteractiveRecvComplete.  Each     *)
(* calls AddrReceives inside wait.NoError until its closure returns nil or *)
(* the timeout expires.                                                    *)
(*                                                                         *)
(* The receiving daemon (not in this repository, modelled from the spec)   *)
(* creates an event when it detects an inbound transfer and moves it       *)
(* through detected (1), confirmed (2), proof received (3) and completed   *)
(* (4), independently for each event.  AddrReceives lists the events in   *)
(* the order they were created, here the order of their ids.             *)
(***************************************************************************)
EXTENDS Naturals, FiniteSets

CONSTANTS
    EventIds,   \* the inbound transfers, numbered in creation order
    Helper,     \* "addrEvent", "byStatus" or "recvComplete"
    NumEvents,  \* numEvents / totalInboundTransfers
    Want,       \* expectedStatus / filterStatus (4 for recvComplete)
    Detected    \* the transfers already detected when the helper is called

ASSUME AddrEventsAssumption ==
    /\ EventIds \subseteq Nat \ {0} /\ IsFiniteSet(EventIds)
    /\ Helper \in {"addrEvent", "byStatus", "recvComplete"}
    /\ NumEvents \in Nat
    /\ Want \in 1..4
    /\ Helper = "recvComplete" => Want = 4
    /\ Detected \subseteq EventIds

Completed == 4
ProofReceived == 3

VARIABLES
    status,     \* status[e]: 0 before the transfer is detected
    hasProof,   \* hasProof[e]: the event's HasProof flag
    hpc,        \* the helper: "poll", "ok", "fail" or "timeout"
    seen        \* the statuses the successful poll saw (ghost)

vars == <<status, hasProof, hpc, seen>>

\* The events AddrReceives returns.
Listed(st) == {e \in EventIds : st[e] > 0}

\* resp.Events[0]: the oldest listed event.
First(st) == CHOOSE e \in Listed(st) : \A f \in Listed(st) : e <= f

\* The closure of AssertAddrEventCustomTimeout: the number of events, then
\* the status of the first one.
AddrEventOk(st) ==
    /\ Cardinality(Listed(st)) = NumEvents
    /\ Listed(st) # {}
    /\ st[First(st)] = Want

\* The closure of AssertAddrEventByStatus: the server filters by status,
\* the helper counts and rechecks every event's status.
ByStatusOk(st) ==
    LET filtered == {e \in Listed(st) : st[e] = Want}
    IN  /\ Cardinality(filtered) = NumEvents
        /\ \A e \in filtered : st[e] = Want

\* Mutant: waiting for "proof received" instead of "completed".
RecvCompleteOkWrongStatus(st, pr) ==
    /\ Cardinality(Listed(st)) = NumEvents
    /\ \A e \in Listed(st) : st[e] = ProofReceived /\ pr[e]

\* The closure of AssertNonInteractiveRecvComplete: exactly the expected
\* number of events, each completed and with a proof.
RecvCompleteOk(st, pr) ==
    /\ Cardinality(Listed(st)) = NumEvents
    /\ \A e \in Listed(st) : st[e] = Completed /\ pr[e]

PollOk(st, pr) ==
    CASE Helper = "addrEvent" -> AddrEventOk(st)
      [] Helper = "byStatus" -> ByStatusOk(st)
      [] Helper = "recvComplete" -> RecvCompleteOk(st, pr)

-----------------------------------------------------------------------------

Init ==
    /\ status = [e \in EventIds |-> IF e \in Detected THEN 1 ELSE 0]
    /\ hasProof = [e \in EventIds |-> FALSE]
    /\ hpc = "poll"
    /\ seen = [e \in EventIds |-> 0]

\* The daemon detects inbound transfer e.
Detect(e) ==
    /\ status[e] = 0
    /\ status' = [status EXCEPT ![e] = 1]
    /\ UNCHANGED <<hasProof, hpc, seen>>

\* The daemon moves event e one status on; it has a proof from "proof
\* received" on.
Advance(e) ==
    /\ status[e] \in 1..(Completed - 1)
    /\ status' = [status EXCEPT ![e] = @ + 1]
    /\ hasProof' = [hasProof EXCEPT ![e] = status'[e] >= ProofReceived]
    /\ UNCHANGED <<hpc, seen>>

\* A poll whose closure returns nil ends wait.NoError; a poll that returns
\* an error changes nothing and is retried.
Poll ==
    /\ hpc = "poll"
    /\ PollOk(status, hasProof)
    /\ hpc' = "ok"
    /\ seen' = status
    /\ UNCHANGED <<status, hasProof>>

\* AssertNonInteractiveRecvComplete's require.Len inside the closure: a
\* response with another number of events fails the test at once instead
\* of being retried.
PollFail ==
    /\ hpc = "poll"
    /\ Helper = "recvComplete"
    /\ Cardinality(Listed(status)) # NumEvents
    /\ hpc' = "fail"
    /\ UNCHANGED <<status, hasProof, seen>>

\* wait.NoError's timeout expires: require.NoError fails the test.
Timeout ==
    /\ hpc = "poll"
    /\ hpc' = "timeout"
    /\ UNCHANGED <<status, hasProof, seen>>

\* The helper has returned and the daemon has nothing left to do.
Terminating ==
    /\ hpc # "poll"
    /\ \A e \in EventIds : status[e] = Completed
    /\ UNCHANGED vars

Next ==
    \/ \E e \in EventIds : Detect(e) \/ Advance(e)
    \/ Poll
    \/ PollFail
    \/ Timeout
    \/ Terminating

\* The daemon processes every transfer to completion and the helper keeps
\* polling; the timeout is not assumed to expire.
Spec ==
    /\ Init /\ [][Next]_vars
    /\ \A e \in EventIds : WF_vars(Detect(e)) /\ WF_vars(Advance(e))
    /\ WF_vars(Poll) /\ WF_vars(PollFail)

-----------------------------------------------------------------------------
(* Properties                                                              *)

\* A helper that returns saw, in one AddrReceives response, exactly
\* NumEvents events with the awaited status: the test goes on only once
\* every awaited transfer has reached it.
PollSound ==
    hpc = "ok" => Cardinality({e \in EventIds : seen[e] = Want}) = NumEvents

\* AssertNonInteractiveRecvComplete never polls forever: it returns or
\* fails once the daemon has processed every transfer (when no timeout cuts
\* it short).
RecvCompleteReturns ==
    <>(hpc # "poll")

=============================================================================
