----------------------------- MODULE MCWorkflow -----------------------------
(***************************************************************************)
(* Two processes that start four commands, over two snapshots of the Hub   *)
(* and one of AtomOne; the default multiplier of the No votes, another,    *)
(* and a list of two.                                                      *)
(***************************************************************************)
EXTENDS Workflow

MCFlags == {[params |-> <<9>>, prefix |-> ""], [params |-> <<4>>, prefix |-> "atone"],
            [params |-> <<9, 4>>, prefix |-> ""]}

MCChainOf == <<"cosmos", "atone", "cosmos">>
=============================================================================
