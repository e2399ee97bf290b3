-------------------------- MODULE MCTradeLifecycle --------------------------
(* Single entry orders and ladders, each with some of what may happen to it. *)
(* A ladder has many more interleavings, so it meets one or two things.      *)
EXTENDS TradeLifecycle

Case(l, n, E) == [ladder |-> l, aims |-> n, meets |-> E]
MCCases ==
  {Case(FALSE, 1, E) : E \in {{"send", "submit", "cancel", "part"},
                              {"lag", "die", "query"}, {"monitor", "message"},
                              {"monitor", "expiry", "part"},
                              {"residual", "message", "part"},
                              {"answer", "send", "cancel", "expiry"},
                              {"query", "message"}}}
  \union
  {Case(FALSE, 2, E) : E \in {{"price", "submit"}, {"price", "die"}, {"half", "die"}}}
  \union
  {Case(TRUE, 1, E) : E \in {{"send"}, {"expiry"}, {"price"}}}

\* One ladder that meets no fault.
MCPlainCase == {Case(TRUE, 1, {})}
=============================================================================
