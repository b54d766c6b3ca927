---------------------------- MODULE MCModelRouter ----------------------------
EXTENDS ModelRouter, TLC

CONSTANTS c1, c2, c3

MCPolicy(network, sensitive) ==
  [valid |-> TRUE, network |-> network, sensitive |-> sensitive, companion |-> "ask"]
MCPolicies == {MCPolicy(TRUE, "ask"), MCPolicy(TRUE, "allow"), MCPolicy(FALSE, "block")}
MCRouting(planning, tokens, exceed) ==
  [valid |-> TRUE, legs |-> [t \in Tasks |-> IF t = "planning" THEN planning ELSE <<>>],
   tokens |-> tokens, cost |-> 1, exceed |-> exceed]
MCRoutings == {MCRouting(<<"cloud", "backup">>, 99, "fail_closed"),
               MCRouting(<<"local", "cloud">>, 2, "fail_closed"),
               MCRouting(<<"cloud", "stub">>, 2, "downgrade_stub"),
               [MCRouting(<<"spare">>, 99, "fail_closed") EXCEPT !.valid = FALSE],
               MCRouting(<<"spare">>, 99, "fail_closed")}
MCCallSymmetry == Permutations(Calls)
=============================================================================
