--------------------------- MODULE MCEventStreams ---------------------------
(***************************************************************************)
(* Model-checking instance of EventStream: the helper calls of the runs.  *)
(***************************************************************************)
EXTENDS EventStream

\* AssertReceiveEvents, AssertMintEvents, AssertSendEventsComplete (no
\* target key), and AssertSendEvents stopping at state 1 of 3 for a target
\* script key.
MCCalls ==
    {ReceiveEventsCall(5), MintEventsCall(5),
     SendEventsCompleteCall(FALSE, 4),
     [helper |-> "send", from |-> 0, to |-> 1, final |-> 3,
      targetKey |-> TRUE, maxEvents |-> 3]}

\* AssertSendEvents from state 0 to state 1 of 3, for a target script key:
\* the caller keeps the stream for AssertSendEventsComplete.
MCHandoffCalls ==
    {[helper |-> "send", from |-> 0, to |-> 1, final |-> 3,
      targetKey |-> TRUE, maxEvents |-> 3]}

=============================================================================
