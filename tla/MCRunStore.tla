----------------------------- MODULE MCRunStore -----------------------------
(* Two tasks of one attempt, both fixtureless triggers or one with a         *)
(* fixture, and one skill of two.  Two plain judges, so that the rest of the *)
(* assertions run beside each other, and an agentic one.  A rescore is of    *)
(* both tasks or of the first.  For one question, two attempts of one task.  *)
EXTENDS RunStore, TLC

MCPlans == {<<"bare", "bare">>, <<"fixtured", "bare">>}
OneFixtured == {<<"fixtured">>}
Same == Permutations(Text)
MCScopes == {{1}, {1, 2}}
MCAsserts == <<"judge", "judge_agent", "judge">>
=============================================================================
