---------------------------- MODULE MCTxExecutor ----------------------------
(***************************************************************************)
(* Model-checking instance of TxExecutor: two goroutines on a sqlite      *)
(* backend, three attempts each, the back-off scaled down so that the     *)
(* doubling reaches the cap within the attempts (default 40ms initial,   *)
(* 3s cap: here 2 and 6 units).                                           *)
(***************************************************************************)
EXTENDS TxExecutor, TLC

CONSTANTS c1, c2

MCClients == {c1, c2}

\* SQLITE_BUSY (retried as a serialization error), SQLITE_LOCKED (retried as
\* a deadlock), a unique-constraint violation raised by the body's own
\* queries (returned), and a dropped connection (returned, sanitized).
MCInjectedErrors ==
    {[drv |-> "sqlite", code |-> "BUSY", conn |-> FALSE],
     [drv |-> "sqlite", code |-> "LOCKED", conn |-> FALSE],
     [drv |-> "sqlite", code |-> "CONSTRAINT_UNIQUE", conn |-> FALSE],
     [drv |-> "plain", code |-> "NONE", conn |-> TRUE]}

=============================================================================
