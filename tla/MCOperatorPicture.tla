-------------------------- MODULE MCOperatorPicture -------------------------
EXTENDS OperatorPicture

Default == [delayed |-> 1, stale |-> 4, unavailable |-> 6]

\* Narrow bands, and bands out of order that the repair leaves out of order.
TwoPolicies == {[delayed |-> 1, stale |-> 2, unavailable |-> 3],
                [delayed |-> 5, stale |-> 1, unavailable |-> 1]}

MonitorOrReplay == {{"monitor"}, {"replay"}}

\* A replay needs one more than the monitor, but less time: behaviours in which it has more
\* are not followed.
UpdatesOf == [d \in Deployments |-> IF "monitor" \in d THEN 3 ELSE 4]

EnoughTime == "replay" \in readers => now <= 2
=============================================================================
