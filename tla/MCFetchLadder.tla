--------------------------- MODULE MCFetchLadder ---------------------------
(* A short ladder: a lookup, a plain method, the headless and the headed    *)
(* browser.                                                                 *)
EXTENDS FetchLadder

MCLookups == <<"hister">>
MCOrder == <<"defuddle", "headless", "headed">>

\* A fetch with its decider, one of a routine that may open no window, one of a
\* route without ledger, one cut off before the last rung.
MCSettings == {[auto |-> TRUE, ask |-> TRUE, headed |-> "ask", max |-> 4],
               [auto |-> TRUE, ask |-> FALSE, headed |-> "never", max |-> 4],
               [auto |-> FALSE, ask |-> TRUE, headed |-> "always", max |-> 4],
               [auto |-> TRUE, ask |-> FALSE, headed |-> "always", max |-> 3]}

TwoSettings == {[auto |-> TRUE, ask |-> TRUE, headed |-> "ask", max |-> 4],
                [auto |-> TRUE, ask |-> FALSE, headed |-> "always", max |-> 4]}
=============================================================================
