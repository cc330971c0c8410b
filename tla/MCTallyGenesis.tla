---------------------------- MODULE MCTallyGenesis --------------------------
(***************************************************************************)
(* All chains of up to three validators, two delegators and two governors, *)
(* with the amounts of the program in millions of uatone, five delegations *)
(* each, so that turns end in the middle of a delegator, and at most two   *)
(* validators bonded.  Each number is tried one too low too, and the names *)
(* of the node missing, malformed and well formed.  Votes are cut to every *)
(* number from one too low to one too high.                                *)
(***************************************************************************)
EXTENDS TallyGenesis

MCNames == {"", "malformed", "node"}
MCFlagSets ==
  [numVals : 0 .. 3, numDels : -1 .. 2, numGovs : -1 .. 2,
   nodeAddr : MCNames, nodeConsPubkey : MCNames]
MCHighs == -1 .. 5
=============================================================================
