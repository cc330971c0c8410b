----------------------------- MODULE MCReaders -----------------------------
(***************************************************************************)
(* States on both sides of 128 bytes, whole and cut; transactions with     *)
(* nested, repeated and untyped objects and arrays; releases in several    *)
(* orders; files with zeros, repeated and malformed amounts.               *)
(*                                                                         *)
(* Snapshots with two validators, active or not, with tokens that do not   *)
(* divide evenly among their delegations, one account that delegates to    *)
(* both, one that only holds coins (of a denomination of its own), a       *)
(* module account and an interchain account that delegates and holds       *)
(* coins; "duatone" coins that exist already; and one snapshot of the      *)
(* Cosmos Hub, which gno-accounts does not parse.                          *)
(***************************************************************************)
EXTENDS Readers

CONSTANTS TypeA, TypeB, Send

MCBytes(n, byte) == [i \in 1..n |-> byte]
MCState(p, r, w, i) ==
  [price |-> MCBytes(p, 49), rate |-> MCBytes(r, 50), window |-> MCBytes(w, 10), index |-> i]
MCStates ==
  {MCState(p, r, 0, i) : p \in {0, 1, 17}, r \in {0, 9}, i \in {0, 3, 200}}
  \cup {MCState(17, 9, w, 0) : w \in {1, 8} \cup 92..98 \cup {120, 127, 128, 200}}
MCResponses ==
  {[state |-> s, cut |-> 1000] : s \in MCStates}
  \cup {[state |-> MCState(17, 9, w, 200), cut |-> c] : w \in {8, 100, 120}, c \in 0..40}

\* The types of the objects o1, o2..., their objects and their arrays.
MCObjects == {"o1", "o2", "o3", "o4"}
MCShapes ==
  {[objects |-> [o \in MCObjects |-> CASE o = "o1" -> {"o2"} [] o = "o2" -> {"o3"} [] OTHER -> {}],
    arrays |-> [o \in MCObjects |-> IF o = "o1" THEN {"o4"} ELSE {}], messages |-> <<"o1">>],
   [objects |-> [o \in MCObjects |-> IF o = "o2" THEN {"o3", "o4"} ELSE {}],
    arrays |-> [o \in MCObjects |-> {}], messages |-> <<"o1", "o2">>],
   [objects |-> [o \in MCObjects |-> IF o = "o1" THEN {"o2", "o4"} ELSE {}],
    arrays |-> [o \in MCObjects |-> IF o = "o2" THEN {"o3"} ELSE {}], messages |-> <<"o1">>]}
MCTransactions ==
  {[type |-> t, objects |-> s.objects, arrays |-> s.arrays, messages |-> s.messages] :
     s \in MCShapes,
     t \in {u \in [MCObjects -> {TypeA, TypeB, Send, Untyped, NotAString}] :
              u["o1"] \in {TypeA, Send} /\ u["o4"] # Send}}

MCAsset(s, r) == [stem |-> s, rest |-> r]
MCNames ==
  {<<MCAsset("checksums", "other"), MCAsset("program", "linux-amd64"), MCAsset("program", "darwin-arm64")>>,
   <<MCAsset("program", "linux-arm64"), MCAsset("program", "darwin-amd64"),
     MCAsset("program", "other"), MCAsset("checksums", "other")>>,
   <<MCAsset("program", "linux-amd64"), MCAsset("lookalike", "linux-amd64"),
     MCAsset("checksums", "other"), MCAsset("beginning", "")>>,
   <<MCAsset("program", "linux-amd64"), MCAsset("shorter", "")>>,
   <<MCAsset("program", "linux-amd64")>>,
   <<>>}
\* All checksums, or only those of the programs for linux.
MCReleases ==
  {[assets |-> names, sums |-> [a \in ToSet(names) |-> a]] : names \in MCNames}
  \cup {[assets |-> names, sums |-> [a \in {b \in ToSet(names) : b.rest = "linux-amd64"} |-> a]]
          : names \in MCNames}
MCUpgrades == [dot : BOOLEAN, plan : BOOLEAN, summary : BOOLEAN]

CONSTANTS a1, a2, a3, module, ica, v1, v2, other

MCAddressOrder == <<a1, a2, a3, module, ica>>
MCAddress == {a1, a2, a3, module, ica}
MCOperator == {v1, v2, other}
MCAccountOf == [v \in MCOperator |-> CASE v = v1 -> a1 [] v = v2 -> a2 [] v = other -> a3]
MCPrefixOf == [v \in MCOperator |-> IF v = other THEN "cosmos" ELSE "atone"]

Delegate(a, v, n) == [delegator |-> a, validator |-> v, shares |-> n]
MCDelegationFiles ==
  {<<Delegate(a1, v1, 3000)>>,
   <<Delegate(a1, v1, 30000), Delegate(a2, v1, 9999), Delegate(a2, v2, 20000)>>,
   <<Delegate(a2, v2, 7000), Delegate(ica, v2, 5000), Delegate(a2, v1, 1111)>>,
   <<Delegate(a1, v1, 1), Delegate(a2, v1, 1), Delegate(module, v1, 1), Delegate(ica, v1, 1)>>,
   <<Delegate(a3, other, 3000)>>}

MCValidator(df, v, tokens) ==
  [operator |-> v, tokens |-> tokens, shares |-> SharesOf(df, v)]
Active(df) == {v \in MCOperator : SharesOf(df, v) > 0}
MCValidatorFiles ==
  [df \in MCDelegationFiles |->
     {<<MCValidator(df, IF other \in Active(df) THEN other ELSE v1, 30)>>}
     \cup {<<MCValidator(df, v2, t), MCValidator(df, v1, 29)>> :
             t \in IF Active(df) = {v1, v2} THEN {0, 7, 20} ELSE {}}]

Balance(a, coins) == [address |-> a, coins |-> coins]
Coin(d, n) == [x \in {d} |-> n]
MCBalanceFiles ==
  {<<Balance(a1, Coin("uatone", 5)), Balance(module, Coin("uatone", 7))>>,
   <<Balance(a2, AddCoins(Coin("uatone", 30), Coin("duatone", 4))), Balance(a3, Coin("uphoton", 12)),
     Balance(ica, Coin("uatone", 1))>>,
   <<Balance(a1, Coin("uphoton", 4)), Balance(a2, <<>>), Balance(a3, Coin("duatone", 1))>>}

MCTypeFiles ==
  {[a \in MCAddress |-> CASE a = module -> "module" [] a = ica -> "interchain"
                          [] OTHER -> "base"]}

MCGnoFiles == UNION {[1..n -> {0, 1, 7, 30, 31, Malformed}] : n \in 0..3}
=============================================================================
