--------------------------- MODULE MCClaudeBridge ---------------------------
(* Instances for TLC of ClaudeBridge. *)
EXTENDS ClaudeBridge

CONSTANTS p1, p2, r1, r2

TwoProcs == {p1, p2}
TwoRequests == {r1, r2}

\* Two requests of one process, or one each of two processes.
Together == [r \in TwoRequests |-> p1]
Apart == [r \in TwoRequests |-> IF r = r1 THEN p1 ELSE p2]

\* The first 20 characters tell all tokens apart, or none.
Distinct == [x \in Accounts \X Tokens |-> x]
Same == [x \in Accounts \X Tokens |-> <<1, 1>>]

Setting(how, pre, may) == [proc |-> how, prefix |-> pre, faults |-> may]

PoolSettings ==
    {Setting(Together, Distinct, {"outage", "restrict", "cap", "flaky"}),
     Setting(Together, Same, {"restrict", "cap"}),
     Setting(Apart, Distinct, {"outage", "lost", "write", "files", "flaky"})}
NoFaults == {Setting(Apart, Distinct, {})}
=============================================================================
