------------------------------ MODULE Workflow ------------------------------
(***************************************************************************)
(* main.go: the commands that hand each other files of one data directory. *)
(*                                                                         *)
(*     accounts, gno-accounts   snapshot      -> accounts.json             *)
(*     distribution             accounts.json -> airdrop.json,             *)
(*                                               airdrop_detail.csv        *)
(*     genesis                  accounts.json -> standard output           *)
(*     top20                    airdrop.json  -> standard output           *)
(*                                                                         *)
(* accounts and gno-accounts write different JSON objects into one file,   *)
(* which distribution and genesis read back as Accounts.                   *)
(*                                                                         *)
(* Files are written in place: os.WriteFile and os.Create truncate, then   *)
(* the contents follow.  Commands may overlap, fail at any call and be     *)
(* interrupted anywhere.  A file that does not decode is Torn: emptied,    *)
(* cut, or parts of two.  The tail that a longer write leaves behind a     *)
(* shorter one is no harm in JSON: Decode reads the first value only.      *)
(***************************************************************************)
EXTENDS Naturals, Sequences, FiniteSets

CONSTANTS
  Runs,             \* the processes
  Flags,            \* the possible flags of distribution
  DefaultParams,    \* defaultDistriParams()
  Absent, Torn,     \* a file that isn't there, one that does not decode
  ChainOf,          \* whose snapshot it is: its addresses' prefix
  MaxSnapshots,     \* bound: the snapshots the user extracts
  MaxStarts         \* bound: the commands the user starts

ASSUME FlagsAssumption ==
  \A f \in Flags : f.params \in Seq(Nat) \ {<<>>} /\ f.prefix \in {"", "atone"}

ASSUME ConstantsAssumption ==
  /\ DefaultParams \in Nat /\ MaxSnapshots \in Nat \ {0}
  /\ ChainOf \in [1..MaxSnapshots -> {"cosmos", "atone"}]

VARIABLES
  snapshot,         \* the snapshot in the directory
  accountsFile, airdropFile, airdropDetailFile,
  printed,          \* the airdrops that genesis and top20 printed
  starts,           \* how many commands were started
  run               \* what each process is at

vars == <<snapshot, accountsFile, airdropFile, airdropDetailFile, printed, starts, run>>
airdropFiles == <<airdropFile, airdropDetailFile>>

\* Mutant: the two commands write the same type.
FieldsOf_Same(c) ==
  {"Address", "Type", "LiquidAmount", "StakedAmount", "Vote", "Delegations"}

\* The fields of the objects that the command encodes: Account and GnoAccount.
FieldsOf(c) ==
  IF c = "accounts"
  THEN {"Address", "Type", "LiquidAmount", "StakedAmount", "Vote", "Delegations"}
  ELSE {"address", "coins"}

\* A list of accounts: the fields it has, the snapshot it was made of.
List == [fields : {FieldsOf("accounts"), FieldsOf("gno-accounts")}, of : 1..MaxSnapshots]

\* An airdrop: the list, the multipliers and the prefix it was computed with.
Airdrop == [list : List, params : Nat, prefix : {"", "atone"}]

Command == {"accounts", "gno-accounts", "distribution", "genesis", "top20"}

\* A process at the first step of a command.  before and alone are history:
\* the airdrop files when the command started, and whether no other command
\* has written them since.
Started(pc, c, params, prefix, before) ==
  [pc |-> pc, command |-> c, params |-> params, prefix |-> prefix,
   list |-> <<>>, airdrops |-> <<>>, before |-> before, alone |-> TRUE]

At(r, pc) == run[r].pc = pc
Go(r, pc) == run' = [run EXCEPT ![r].pc = pc]
IsOver(r) == run[r].pc \in {"idle", "ok", "error", "panic", "killed"}

\* r goes to pc having written an airdrop file.
GoWriting(r, pc) ==
  run' = [s \in Runs |-> IF s = r THEN [run[r] EXCEPT !.pc = pc]
                                  ELSE [run[s] EXCEPT !.alone = FALSE]]

-----------------------------------------------------------------------------
Init ==
  /\ snapshot = 1
  /\ accountsFile = Absent /\ airdropFile = Absent /\ airdropDetailFile = Absent
  /\ printed = {}
  /\ starts = 0
  /\ run = [r \in Runs |-> Started("idle", "top20", <<>>, "", <<>>)]

\* The user extracts another snapshot into the directory, when no command is
\* reading the old one.
NewSnapshot ==
  /\ snapshot < MaxSnapshots
  /\ \A r \in Runs : ~At(r, "parse")
  /\ snapshot' = snapshot + 1
  /\ UNCHANGED <<accountsFile, airdropFile, airdropDetailFile, printed, starts, run>>

\* The process starts command c.  genesis has its own parameters.
StartAs(r, c, params, prefix, pc) ==
  /\ IsOver(r)
  /\ starts < MaxStarts
  /\ starts' = starts + 1
  /\ run' = [run EXCEPT ![r] = Started(pc, c, params, prefix, airdropFiles)]
  /\ UNCHANGED <<snapshot, accountsFile, airdropFile, airdropDetailFile, printed>>

StartAccounts(r) ==
  \E c \in {"accounts", "gno-accounts"} : StartAs(r, c, <<>>, "", "parse")
StartDistribution(r) ==
  \E f \in Flags : StartAs(r, "distribution", f.params, f.prefix, "read")
StartGenesis(r) == StartAs(r, "genesis", <<DefaultParams>>, "atone", "read")
StartTop20(r) == StartAs(r, "top20", <<>>, "", "read airdrop")

\* No argument: help, but top20 reads args[0].  A multiplier that is not a
\* number panics.
StartWrong(r) ==
  \E end \in {"error", "panic"}, c \in Command :
    /\ end = "error" => c # "top20"
    /\ end = "panic" => c \in {"top20", "distribution"}
    /\ StartAs(r, c, <<>>, "", end)

-----------------------------------------------------------------------------
(* accounts and gno-accounts                                               *)

\* The prefix of the SDK's configuration, which only gno-accounts sets.
ConfiguredPrefix(r) == IF run[r].command = "accounts" THEN "cosmos" ELSE "atone"

\* Mutant: any prefix decodes.
Parses_AnyPrefix(r) == TRUE

\* The operator address of a bonded validator decodes; else ParseValidators
\* panics.  Every snapshot has one.
Parses(r) == ChainOf[snapshot] = ConfiguredPrefix(r)

ParsePanics(r) ==
  /\ At(r, "parse")
  /\ ~Parses(r)
  /\ Go(r, "panic")
  /\ UNCHANGED <<snapshot, accountsFile, airdropFile, airdropDetailFile, printed, starts>>

ParseSnapshot(r) ==
  /\ At(r, "parse")
  /\ Parses(r)
  /\ run' = [run EXCEPT ![r].pc = "open accounts",
                        ![r].list = [fields |-> FieldsOf(run[r].command), of |-> snapshot]]
  /\ UNCHANGED <<snapshot, accountsFile, airdropFile, airdropDetailFile, printed, starts>>

TruncateAccounts(r) ==
  /\ At(r, "open accounts")
  /\ accountsFile' = Torn
  /\ Go(r, "write accounts")
  /\ UNCHANGED <<snapshot, airdropFile, airdropDetailFile, printed, starts>>

WriteAccounts(r) ==
  /\ At(r, "write accounts")
  /\ \/ accountsFile' = run[r].list /\ Go(r, "ok")
     \/ accountsFile' = Torn /\ Go(r, "error")
  /\ UNCHANGED <<snapshot, airdropFile, airdropDetailFile, printed, starts>>

-----------------------------------------------------------------------------
(* distribution and genesis                                                *)

ReadAccounts(r) ==
  /\ At(r, "read")
  /\ accountsFile \notin {Absent, Torn}
  /\ run' = [run EXCEPT ![r].pc = "distribute", ![r].list = accountsFile]
  /\ UNCHANGED <<snapshot, accountsFile, airdropFile, airdropDetailFile, printed, starts>>

CannotRead(r) ==
  /\ \/ At(r, "read") /\ accountsFile \in {Absent, Torn}
     \/ At(r, "read airdrop") /\ airdropFile \in {Absent, Torn}
  /\ Go(r, "error")
  /\ UNCHANGED <<snapshot, accountsFile, airdropFile, airdropDetailFile, printed, starts>>

\* Mutant: amounts that aren't in the list count as zero.
Distributes_Zero(r) == TRUE

\* Decode takes any objects, and ignores the fields that Account has not.  A
\* Dec that is not in them stays nil, and the first use of it panics.
Distributes(r) == {"LiquidAmount", "StakedAmount"} \subseteq run[r].list.fields

\* The distribution for the next parameters.
Distribute(r) ==
  /\ At(r, "distribute")
  /\ Distributes(r)
  /\ Len(run[r].airdrops) < Len(run[r].params)
  /\ run' = [run EXCEPT ![r].airdrops = Append(@,
       [list |-> run[r].list, params |-> run[r].params[Len(@) + 1],
        prefix |-> run[r].prefix])]
  /\ UNCHANGED <<snapshot, accountsFile, airdropFile, airdropDetailFile, printed, starts>>

\* Nil amounts, or a division by zero, for which the list is what it takes.
DistributePanics(r) ==
  /\ At(r, "distribute")
  /\ Len(run[r].airdrops) < Len(run[r].params)
  /\ Go(r, "panic")
  /\ UNCHANGED <<snapshot, accountsFile, airdropFile, airdropDetailFile, printed, starts>>

\* Mutant: the first of several airdrops is written.
WritesFiles_First(r) == Len(run[r].airdrops) >= 1

\* The files are written only if there is a single set of parameters.
WritesFiles(r) == Len(run[r].airdrops) = 1

EndDistribute(r) ==
  /\ At(r, "distribute")
  /\ Len(run[r].airdrops) = Len(run[r].params)
  /\ \/ run[r].command = "genesis" /\ Go(r, "print")
     \/ run[r].command # "genesis" /\ WritesFiles(r) /\ Go(r, "open airdrop")
     \/ run[r].command # "genesis" /\ ~WritesFiles(r) /\ Go(r, "ok")
  /\ UNCHANGED <<snapshot, accountsFile, airdropFile, airdropDetailFile, printed, starts>>

TruncateAirdrop(r) ==
  /\ At(r, "open airdrop")
  /\ airdropFile' = Torn
  /\ GoWriting(r, "write airdrop")
  /\ UNCHANGED <<snapshot, accountsFile, airdropDetailFile, printed, starts>>

WriteAirdrop(r) ==
  /\ At(r, "write airdrop")
  /\ \/ airdropFile' = run[r].airdrops[1] /\ GoWriting(r, "create detail")
     \/ airdropFile' = Torn /\ GoWriting(r, "error")
  /\ UNCHANGED <<snapshot, accountsFile, airdropDetailFile, printed, starts>>

CreateDetail(r) ==
  /\ At(r, "create detail")
  /\ airdropDetailFile' = Torn
  /\ GoWriting(r, "write detail")
  /\ UNCHANGED <<snapshot, accountsFile, airdropFile, printed, starts>>

\* The rows are written as the buffer fills; the errors of w.Write and
\* w.Flush are not looked at.
WriteDetail(r) ==
  /\ At(r, "write detail")
  /\ airdropDetailFile' \in {run[r].airdrops[1], Torn}
  /\ GoWriting(r, "ok")
  /\ UNCHANGED <<snapshot, accountsFile, airdropFile, printed, starts>>

PrintGenesis(r) ==
  /\ At(r, "print")
  /\ printed' = printed \cup {run[r].airdrops[1]}
  /\ Go(r, "ok")
  /\ UNCHANGED <<snapshot, accountsFile, airdropFile, airdropDetailFile, starts>>

-----------------------------------------------------------------------------
(* top20                                                                   *)

\* With fewer than 20 addresses the amount of "" is nil, and panics.
Top20(r) ==
  /\ At(r, "read airdrop")
  /\ airdropFile \notin {Absent, Torn}
  /\ \/ printed' = printed \cup {airdropFile} /\ Go(r, "ok")
     \/ printed' = printed /\ Go(r, "panic")
  /\ UNCHANGED <<snapshot, accountsFile, airdropFile, airdropDetailFile, starts>>

-----------------------------------------------------------------------------
(* A call fails before it has changed a file, and the command returns its  *)
(* error: a snapshot that does not parse, an address that does not         *)
(* convert, a file that does not open, a genesis without constitution.     *)
CallFails(r) ==
  /\ run[r].pc \in {"parse", "open accounts", "distribute", "open airdrop",
                    "create detail", "print"}
  /\ At(r, "distribute") => Distributes(r)
  /\ Go(r, "error")
  /\ UNCHANGED <<snapshot, accountsFile, airdropFile, airdropDetailFile, printed, starts>>

\* The process is interrupted, maybe in the middle of a write.
Crash(r) ==
  /\ ~IsOver(r)
  /\ \/ UNCHANGED <<accountsFile, airdropFile, airdropDetailFile>>
     \/ /\ At(r, "write accounts")
        /\ accountsFile' = Torn
        /\ UNCHANGED airdropFiles
     \/ /\ At(r, "write airdrop")
        /\ airdropFile' = Torn
        /\ UNCHANGED <<accountsFile, airdropDetailFile>>
     \/ /\ At(r, "write detail")
        /\ airdropDetailFile' = Torn
        /\ UNCHANGED <<accountsFile, airdropFile>>
  /\ IF airdropFiles' = airdropFiles THEN Go(r, "killed") ELSE GoWriting(r, "killed")
  /\ UNCHANGED <<snapshot, printed, starts>>

Step(r) ==
  \/ StartAccounts(r) \/ StartDistribution(r) \/ StartGenesis(r) \/ StartTop20(r)
  \/ StartWrong(r)
  \/ ParseSnapshot(r) \/ ParsePanics(r) \/ TruncateAccounts(r) \/ WriteAccounts(r)
  \/ ReadAccounts(r) \/ CannotRead(r)
  \/ Distribute(r) \/ DistributePanics(r) \/ EndDistribute(r)
  \/ TruncateAirdrop(r) \/ WriteAirdrop(r) \/ CreateDetail(r) \/ WriteDetail(r)
  \/ PrintGenesis(r) \/ Top20(r)
  \/ CallFails(r) \/ Crash(r)

\* No command is left to start.
Ended ==
  /\ \A r \in Runs : IsOver(r)
  /\ UNCHANGED vars

Next == (\E r \in Runs : Step(r)) \/ NewSnapshot \/ Ended

Spec == Init /\ [][Next]_vars

-----------------------------------------------------------------------------
(* Properties                                                              *)

\* Every airdrop that is in a file or was printed is one of the holders of a
\* snapshot of the Cosmos Hub.  accounts.json does not say whose snapshot it
\* is, any list decodes as Accounts, and any command may replace it; but the
\* two commands that write it refuse each other's snapshots, and what
\* gno-accounts writes has no amounts (main.go 148, 172, 191-195, 224, 312).
Airdrops == printed \cup ({airdropFile, airdropDetailFile} \ {Absent, Torn})
OnlyHubAirdrops == \A a \in Airdrops : a \in Airdrop /\ ChainOf[a.list.of] = "cosmos"

\* What a distribution that no other command disturbs leaves in airdrop.json
\* and airdrop_detail.csv (main.go 326-367): with several parameters, what was
\* there; otherwise the detail is not touched before airdrop.json is whole, and
\* success means that airdrop.json is its airdrop.  A pair of two airdrops is
\* thus always the work of a command that failed, was killed or was not alone.
PairMatches ==
  \A r \in Runs :
    run[r].command = "distribution" /\ run[r].alone =>
      IF Len(run[r].params) # 1 THEN airdropFiles = run[r].before
      ELSE /\ airdropDetailFile # run[r].before[2] =>
                airdropFile = run[r].airdrops[1]
           /\ At(r, "ok") =>
                /\ airdropFile = run[r].airdrops[1]
                /\ airdropDetailFile \in {airdropFile, Torn}

\* The message of main.go 366: when distribution says "has been
\* created/updated" of airdrop_detail.csv, the file is whole.
UpdatedMeansWritten ==
  \A r \in Runs :
    At(r, "ok") /\ run[r].command = "distribution" /\ run[r].alone
      /\ Len(run[r].params) = 1
      => airdropDetailFile # Torn
=============================================================================
