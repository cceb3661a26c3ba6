----------------------------- MODULE MCCaseWork -----------------------------
EXTENDS CaseWork, TLC

CONSTANTS i1, i2, m1

Desk(kinds, cases) == [kinds |-> kinds, cases |-> cases]

\* Handlers that write different tables do not meet; two incidents compete only for an
\* alert.
FiveDesks ==
  {Desk({"open", "attach"}, {i1, i2}),
   Desk({"open", "edit"}, {i1}),
   Desk({"open", "moveIncident"}, {i1}),
   Desk({"plan", "moveMission"}, {m1}),
   Desk({"plan", "assign", "task"}, {m1})}

Interchangeable == Permutations(Requests)
=============================================================================
