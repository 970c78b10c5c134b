--------------------------- MODULE MCRequestSizes ---------------------------
(* All tables that rise strictly to 1 in quarters; and one such table with *)
(* an empty line at its end, as in conf/VAR_CDF.txt.                       *)
EXTENDS RequestSizes

Sizes == {0, 24, 72}
Rising(n) ==
    {t \in [1 .. n -> [value : Sizes, cdf : 0 .. Unit]] :
        /\ t[n].cdf = Unit
        /\ \A i \in 2 .. n : t[i - 1].cdf < t[i].cdf /\ t[i - 1].value <= t[i].value}
ProperFiles == UNION {Rising(n) : n \in 2 .. 4}
EndsEmpty == {<<[value |-> 0, cdf |-> 0], [value |-> 24, cdf |-> 2],
                [value |-> 72, cdf |-> 4], NoNumbers>>}
Zeroed == {[value |-> 0, cdf |-> 0]}
=============================================================================
