------------------------------ MODULE MCGateway ------------------------------
EXTENDS Gateway, TLC

CONSTANTS op, chief, admin, sage, guest, tok, chiefTok, adminTok, sageTok, sweep, office, hirer, worker

Setting(environment, required, tokens) ==
  [environment |-> environment, required |-> required, tokens |-> tokens]

AllTokens == tok :> op @@ chiefTok :> chief @@ adminTok :> admin @@ sageTok :> sage

FourSettings ==
  {Setting("production", TRUE, AllTokens), Setting("development", FALSE, AllTokens),
   Setting("production", FALSE, AllTokens), Setting("staging", TRUE, <<>>)}

FourRoles == chief :> "supervisor" @@ admin :> "administrator" @@ sage :> "analyst"

\* Every mounted path with an identifier in it, and its neighbours: one segment less, one
\* more, and the last one another.
Named(path) == [i \in 1..Len(path) |-> IF path[i] = Param THEN "x" ELSE path[i]]
Near(path) == {path, Append(path, "x"), SubSeq(path, 1, Len(path) - 1),
               [path EXCEPT ![Len(path)] = "x"], [path EXCEPT ![Len(path)] = "status"]}
Paths == UNION {Near(Named(route[2])) : route \in Mounted}

By(token, method, path) == [NoCall EXCEPT !.token = token, !.method = method, !.path = path]

Probes == {By(t, m, p) : t \in Tokens, m \in {"GET", "POST", "PATCH", "DELETE"}, p \in Paths}

\* One that probes every path, one that works, and the background.
Sweeps == {c \in Probes : c.method = "GET" \/ ~Routed(c.method, c.path)}

Work ==
  {By(t, "POST", p) : t \in {tok, chiefTok, None},
     p \in {<<"observations">>, <<"alerts", "x", "acknowledge">>, <<"commands">>}} \cup
  {[By(t, "POST", <<"assessments">>) EXCEPT !.evidence = Evidence, !.header = h] :
     t \in {None, sageTok}, h \in {None, guest}} \cup
  {[By(None, "POST", <<"alerts", "x", "resolve">>) EXCEPT !.header = h] : h \in {guest, chief}}

Hires == {[By(adminTok, "POST", <<"operators">>) EXCEPT !.newcomer = guest, !.role = r] :
            r \in {"operator", "analyst"}}

\* The writes of every route, each once.
Writes == {[By(adminTok, r[1], Named(r[2])) EXCEPT !.newcomer = guest] : r \in {m \in Mounted : m[1] # "GET"}}

FourShifts == {{}, {sweep}, {worker}, {office, hirer}}

DeskCalls == [d \in Desks |-> CASE d = sweep  -> Sweeps \cup Writes
                                [] d = office -> Work
                                [] d = hirer  -> Hires
                                [] OTHER      -> {}]
=============================================================================
