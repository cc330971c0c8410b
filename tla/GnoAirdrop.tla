----------------------------- MODULE GnoAirdrop -----------------------------
(***************************************************************************)
(* main.go, gno-airdrop: a file of lines "address=coin" scaled to the      *)
(* supply of the new chain.  The amounts of all denominations are summed   *)
(* together, and each is multiplied by one factor, rounded.                *)
(***************************************************************************)
EXTENDS LegacyDec, Sequences, FiniteSetsExt

CONSTANTS
  ExpSupply,    \* the supply wanted: 700000000000000
  GnoFiles      \* the possible files

\* A line whose coin cannot be read, or that has no "=", is Malformed.
CONSTANT Malformed

ASSUME GnoAssumption ==
  /\ ExpSupply \in Nat /\ Malformed \notin Nat
  /\ GnoFiles # {} /\ GnoFiles \subseteq Seq(Nat \cup {Malformed})

VARIABLES
  lines,        \* the file
  read,         \* lines read, then lines printed
  gnoSupply,    \* the sum of the amounts
  fact,         \* what each amount is multiplied by
  allocs,       \* the amounts printed
  newSup,       \* their sum
  scaling       \* "scan", "scale", then "done" or "panic"

gnoVars == <<lines, read, gnoSupply, fact, allocs, newSup, scaling>>

GnoInit(files) ==
  /\ lines \in files
  /\ read = 0
  /\ gnoSupply = 0
  /\ fact = 0
  /\ allocs = <<>>
  /\ newSup = 0
  /\ scaling = "scan"

ScanLine ==
  /\ scaling = "scan"
  /\ read < Len(lines)
  /\ lines[read + 1] # Malformed
  /\ gnoSupply' = gnoSupply + lines[read + 1]
  /\ read' = read + 1
  /\ UNCHANGED <<lines, fact, allocs, newSup, scaling>>

ScanPanics ==
  /\ scaling = "scan"
  /\ read < Len(lines)
  /\ lines[read + 1] = Malformed
  /\ scaling' = "panic"
  /\ UNCHANGED <<lines, read, gnoSupply, fact, allocs, newSup>>

\* Mutant: the factor is a whole number.
Factor_Whole(sum) == FromInt(ExpSupply \div sum)

Factor(sum) == Quo(FromInt(ExpSupply), FromInt(sum))

\* The division by zero of an empty file, or of zeros, panics.
EndScan ==
  /\ scaling = "scan"
  /\ read = Len(lines)
  /\ IF gnoSupply = 0
     THEN scaling' = "panic" /\ fact' = fact
     ELSE scaling' = "scale" /\ fact' = Factor(gnoSupply)
  /\ read' = 0
  /\ UNCHANGED <<lines, gnoSupply, allocs, newSup>>

Scaled(amount) == RoundInt(Mul(FromInt(amount), fact))

ScaleLine ==
  /\ scaling = "scale"
  /\ read < Len(lines)
  /\ LET newAmt == Scaled(lines[read + 1])
     IN  /\ allocs' = Append(allocs, newAmt)
         /\ newSup' = newSup + newAmt
  /\ read' = read + 1
  /\ UNCHANGED <<lines, gnoSupply, fact, scaling>>

EndScale ==
  /\ scaling = "scale"
  /\ read = Len(lines)
  /\ scaling' = "done"
  /\ UNCHANGED <<lines, read, gnoSupply, fact, allocs, newSup>>

GnoNext == ScanLine \/ ScanPanics \/ EndScan \/ ScaleLine \/ EndScale
=============================================================================
