------------------------- MODULE MCOperationLifecycle -------------------------
(***************************************************************************)
(* Instances of OperationLifecycle for TLC: which requests arrive          *)
(* together, and with which idempotency keys.                              *)
(***************************************************************************)
EXTENDS OperationLifecycle, TLC

CONSTANTS key, none, d1, d2, w1, w2

Asks(kinds, keys) == [r \in Requests |-> [kind |-> kinds[r], key |-> keys[r]]]

SafetyWorkloads == {
    \* a planning request and its retry, beside an edit
    Asks(<<"generate", "generate", "save", "nothing">>, <<key, key, none, none>>),
    \* the same beside a cancellation
    Asks(<<"generate", "generate", "cancel planning", "nothing">>, <<key, key, none, none>>),
    \* two edits of one view beside a planning session
    Asks(<<"generate", "save", "save", "nothing">>, <<none, none, none, none>>),
    \* an execution beside a second plan
    Asks(<<"generate", "generate", "execute", "nothing">>, <<none, none, none, none>>),
    \* an execution asked for twice
    Asks(<<"generate", "execute", "execute", "nothing">>, <<none, key, none, none>>),
    \* an execution beside an edit
    Asks(<<"generate", "execute", "save", "nothing">>, <<none, none, none, none>>),
    \* both kinds of session, canceled at any time
    Asks(<<"generate", "execute", "cancel planning", "cancel execution">>,
         <<none, key, none, none>>)}

\* Two planning sessions share the token of two workers; an execution, planned
\* first, has a token of its own, and may be canceled in its queue.
WakeWorkloads == {
    Asks(<<"generate", "generate", "nothing">>, <<none, none, none>>),
    Asks(<<"generate", "execute", "cancel execution">>, <<none, none, none>>)}

\* Two plannings and an execution, as PlanningWaitsForExecution needs.
PlanningsAndExecution == {Asks(<<"generate", "execute", "generate">>, <<none, none, none>>)}

\* A planning request retried twice beside a cancellation, as RetryObservesItsSession needs.
RetriedTwice == {Asks(<<"generate", "generate", "generate", "cancel planning">>, <<key, key, key, none>>)}

WorkerSymmetry == Permutations({w1, w2})
=============================================================================
