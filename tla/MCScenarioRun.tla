--------------------------- MODULE MCScenarioRun ---------------------------
(* Finite instances of ScenarioRun.                                        *)
EXTENDS ScenarioRun

CONSTANTS scripted, injected

\* A command to an asset, and something that comes later than what it schedules.
Timeline == <<[at |-> 0, issues |-> scripted], [at |-> 2, issues |-> NoCommand]>>
=============================================================================
