---------------------------- MODULE MCGasMonitor ----------------------------
(***************************************************************************)
(* Two runs, at the same time or one after the other, over chains of four  *)
(* blocks of low and high gas; two consecutive stable blocks are enough.   *)
(***************************************************************************)
EXTENDS GasMonitor

CONSTANTS Low, High

MCChains == {<<High, Low, Low, Low>>, <<Low, High, Low, Low>>,
             <<Low, High, Low, High>>}
MCFlags(noCache) ==
  {[start |-> s, num |-> n, untilStable |-> u, noCache |-> c] :
     s \in {0, 2}, n \in {1, 3}, u \in {FALSE}, c \in noCache}
  \cup {[start |-> 1, num |-> 1, untilStable |-> TRUE, noCache |-> c] :
     c \in noCache}
CacheFlags == MCFlags({FALSE})
AllFlags == MCFlags(BOOLEAN)
=============================================================================
