--------------------------- MODULE MCAutoStaking ----------------------------
(***************************************************************************)
(* Genesis files of three to five balances over four validators: balances  *)
(* at each of the thresholds, whales, and balances that hold another       *)
(* denomination, which the comparison does not order.                      *)
(***************************************************************************)
EXTENDS AutoStaking

Amounts == {0, 15, 16, 23, 24, 39, 40, 63, 90}
Plain(n) == [tokens |-> n, other |-> 0]
Mixed(n, m) == [tokens |-> n, other |-> m]

\* Four plain balances in ascending order, and files with special balances.
MCBalanceLists ==
  {<<Plain(a), Plain(b), Plain(c), Plain(d)>> :
     <<a, b, c, d>> \in {q \in Amounts \X Amounts \X Amounts \X Amounts :
                          q[1] <= q[2] /\ q[2] <= q[3] /\ q[3] <= q[4]}}
  \cup {<<Mixed(40, 3), Plain(16), Mixed(0, 2), Plain(63)>>,
        <<Mixed(24, 1), Mixed(23, 2), Plain(90), Plain(25), Plain(0)>>,
        <<Plain(90), Plain(63), Plain(16)>>,
        <<>>}
=============================================================================
