--------------------------- MODULE MCProviderInvoke ---------------------------
(* A small instance of ProviderInvoke: every kind of task, and the ones a    *)
(* single question is about.                                                 *)
EXTENDS ProviderInvoke

AllModes == Mode
PositiveSkill == {"skill+"}
PositiveTool == {"tool+"}
=============================================================================
