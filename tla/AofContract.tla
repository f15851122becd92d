---------------------------- MODULE AofContract ----------------------------
(***************************************************************************)
(* What src/persistence/aof.c promises the Reactor: commits are numbered   *)
(* without gaps, the published number only grows, never passes the last    *)
(* commit and stops for good when the writer has failed.  Aof implements   *)
(* it, and Reactor is built on it.                                         *)
(***************************************************************************)
EXTENDS Naturals

VARIABLES
    enqueued,  \* next_sequence: transactions committed
    written,   \* written_sequence: transactions published
    failed     \* async_error # 0

contractVars == <<enqueued, written, failed>>

Init == enqueued = 0 /\ written = 0 /\ failed = FALSE

\* aof_transaction_commit, or aof_flush with pending bytes.
Enqueue ==
    /\ enqueued' = enqueued + 1
    /\ UNCHANGED <<written, failed>>

\* The writer publishes some of the transactions committed so far.
Publish ==
    /\ ~failed
    /\ written' \in (written + 1)..enqueued
    /\ UNCHANGED <<enqueued, failed>>

\* publish_error
Fail ==
    /\ failed' = TRUE
    /\ UNCHANGED <<enqueued, written>>

\* The process ends and starts again.
Restart == enqueued' = 0 /\ written' = 0 /\ failed' = FALSE

Next == Enqueue \/ Publish \/ Fail \/ Restart

Spec == Init /\ [][Next]_contractVars

=============================================================================
