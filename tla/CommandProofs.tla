---------------------------- MODULE CommandProofs ----------------------------
(***************************************************************************)
(* The properties of Workflow for any number of processes, snapshots and   *)
(* commands, and any flags, and those of Readers for any input.            *)
(*                                                                         *)
(* OnlyHubAirdrops holds because every list on its way, in a process or in *)
(* accounts.json, is of a Hub snapshot or has no amounts, and airdrops are *)
(* only computed from lists with amounts.  PairMatches takes the phases of *)
(* a distribution: what the two files are at each of them, as long as it   *)
(* is alone.                                                               *)
(*                                                                         *)
(* The commands of Readers share nothing: each of the four proved here has *)
(* an invariant of its own, what its loop has done so far.                 *)
(***************************************************************************)
EXTENDS Workflow, Readers, SnapshotProofs

-----------------------------------------------------------------------------
(* The files of the data directory.                                        *)

Pc == {"idle", "parse", "open accounts", "write accounts", "read", "distribute",
       "open airdrop", "write airdrop", "create detail", "write detail", "print",
       "read airdrop", "ok", "error", "panic", "killed"}
Writing == {"open airdrop", "write airdrop", "create detail", "write detail"}

\* The lists that the commands make: with amounts, of the Hub.
Made == {l \in List : "LiquidAmount" \in l.fields => ChainOf[l.of] = "cosmos"}

\* The airdrops of Hub snapshots.
Sound == {a \in Airdrop : ChainOf[a.list.of] = "cosmos"}
ListFile == Made \cup {Absent, Torn}
AirdropFile == Sound \cup {Absent, Torn}

RunType ==
  [pc : Pc, command : Command, params : Seq(Nat), prefix : {"", "atone"},
   list : Made \cup {<<>>}, airdrops : Seq(Sound),
   before : (AirdropFile \X AirdropFile) \cup {<<>>}, alone : BOOLEAN]

\* What is known of a run at each of its steps.
Control(r) ==
  /\ r.pc \in {"open accounts", "write accounts", "distribute"} => r.list \in Made
  /\ r.pc \in {"parse", "open accounts", "write accounts"} =>
       r.command \in {"accounts", "gno-accounts"}
  /\ r.pc \in {"read", "distribute"} =>
       r.command \in {"distribution", "genesis"} /\ r.params # <<>>
  /\ r.pc \in Writing =>
       r.command = "distribution" /\ Len(r.params) = 1 /\ Len(r.airdrops) = 1
  /\ r.pc = "print" => r.command = "genesis" /\ r.airdrops # <<>>
  /\ r.pc = "read airdrop" => r.command = "top20"

\* What the files a and d are for a distribution that is alone.
Pair(r, a, d) ==
  r.command = "distribution" /\ r.alone =>
    /\ r.before = <<r.before[1], r.before[2]>>
    /\ r.pc \in {"read", "distribute", "open airdrop"} =>
         a = r.before[1] /\ d = r.before[2]
    /\ r.pc \in {"write airdrop", "create detail"} => d = r.before[2]
    /\ r.pc \in {"create detail", "write detail"} => a = r.airdrops[1]
    /\ IF Len(r.params) # 1 THEN a = r.before[1] /\ d = r.before[2]
       ELSE /\ d # r.before[2] => a = r.airdrops[1]
            /\ r.pc = "ok" => a = r.airdrops[1] /\ d \in {a, Torn}

TypeInv ==
  /\ snapshot \in 1..MaxSnapshots
  /\ accountsFile \in ListFile
  /\ airdropFile \in AirdropFile
  /\ airdropDetailFile \in AirdropFile
  /\ printed \subseteq Sound
  /\ run \in [Runs -> RunType]

IInv ==
  /\ TypeInv
  /\ \A r \in Runs : Control(run[r]) /\ Pair(run[r], airdropFile, airdropDetailFile)

-----------------------------------------------------------------------------
(* The steps that all actions share.                                       *)

\* A run goes on, and the airdrop files stay as they are.
LEMMA Goes ==
  ASSUME IInv, NEW r \in Runs, NEW rec \in RunType,
         run' = [run EXCEPT ![r] = rec],
         snapshot' \in 1..MaxSnapshots, accountsFile' \in ListFile,
         airdropFile' = airdropFile, airdropDetailFile' = airdropDetailFile,
         printed' \subseteq Sound,
         Control(rec), Pair(rec, airdropFile, airdropDetailFile)
  PROVE  IInv'
<1>1. TypeInv'
  BY DEF IInv, TypeInv
<1>2. ASSUME NEW s \in Runs
      PROVE  Control(run[s])' /\ Pair(run[s], airdropFile, airdropDetailFile)'
  <2>1. CASE s = r
    <3>1. run'[s] = rec
      BY <2>1 DEF IInv, TypeInv
    <3> QED BY <3>1 DEF Control, Pair
  <2>2. CASE s # r
    <3>1. run'[s] = run[s]
      BY <2>2 DEF IInv, TypeInv
    <3>2. Control(run[s]) /\ Pair(run[s], airdropFile, airdropDetailFile)
      BY DEF IInv
    <3> QED BY <3>1, <3>2 DEF Control, Pair
  <2> QED BY <2>1, <2>2
<1> QED BY <1>1, <1>2 DEF IInv

\* A run goes on and writes an airdrop file: the others aren't alone.
LEMMA GoesWriting ==
  ASSUME IInv, NEW r \in Runs, NEW rec \in RunType,
         run' = [s \in Runs |-> IF s = r THEN rec ELSE [run[s] EXCEPT !.alone = FALSE]],
         snapshot' = snapshot, accountsFile' = accountsFile, printed' = printed,
         airdropFile' \in AirdropFile, airdropDetailFile' \in AirdropFile,
         Control(rec), Pair(rec, airdropFile', airdropDetailFile')
  PROVE  IInv'
<1>1. ASSUME NEW s \in Runs, s # r
      PROVE  /\ run'[s] \in RunType
             /\ Control(run[s])'
             /\ Pair(run[s], airdropFile, airdropDetailFile)'
  <2>1. run[s] \in RunType /\ Control(run[s])
    BY DEF IInv, TypeInv
  <2>2. run'[s] = [run[s] EXCEPT !.alone = FALSE]
    BY <1>1
  <2>3. run'[s] \in RunType /\ ~run'[s].alone
    BY <2>1, <2>2 DEF RunType
  <2>4. Control(run[s])'
    BY <2>1, <2>2 DEF RunType, Control
  <2> QED BY <2>3, <2>4 DEF Pair
<1>2. run'[r] = rec
  OBVIOUS
<1>3. run' \in [Runs -> RunType]
  BY <1>1, <1>2
<1>4. Control(run[r])' /\ Pair(run[r], airdropFile, airdropDetailFile)'
  BY <1>2 DEF Control, Pair
<1> QED BY <1>1, <1>3, <1>4 DEF IInv, TypeInv

LEMMA StartStep ==
  ASSUME IInv, NEW r \in Runs,
         NEW c \in Command, NEW ps \in Seq(Nat), NEW x \in {"", "atone"}, NEW pc \in Pc,
         StartAs(r, c, ps, x, pc),
         pc \in {"parse", "read", "read airdrop", "error", "panic"},
         pc = "parse" => c \in {"accounts", "gno-accounts"},
         pc = "read" => c \in {"distribution", "genesis"} /\ ps # <<>>,
         pc = "read airdrop" => c = "top20"
  PROVE  IInv'
<1> DEFINE rec == Started(pc, c, ps, x, airdropFiles)
<1>1. rec = [pc |-> pc, command |-> c, params |-> ps, prefix |-> x, list |-> <<>>,
             airdrops |-> <<>>, before |-> <<airdropFile, airdropDetailFile>>,
             alone |-> TRUE]
  BY DEF Started, airdropFiles
<1>2. run' = [run EXCEPT ![r] = rec]
  BY DEF StartAs
<1> HIDE DEF rec
<1>3. rec \in RunType
  <2>1. <<airdropFile, airdropDetailFile>> \in AirdropFile \X AirdropFile
    BY DEF IInv, TypeInv
  <2>2. <<>> \in Seq(Sound)
    BY EmptySeq
  <2> QED BY <1>1, <2>1, <2>2 DEF RunType
<1>4. Control(rec)
  BY <1>1 DEF Control, Writing
<1>5. Pair(rec, airdropFile, airdropDetailFile)
  BY <1>1 DEF Pair
<1> QED BY <1>2, <1>3, <1>4, <1>5, Goes DEF StartAs, IInv, TypeInv

\* A run that only goes to another step.
LEMMA GoStep ==
  ASSUME IInv, NEW r \in Runs, NEW pc \in Pc, Go(r, pc),
         snapshot' = snapshot, accountsFile' \in ListFile, airdropFile' = airdropFile,
         airdropDetailFile' = airdropDetailFile, printed' \subseteq Sound,
         Control([run[r] EXCEPT !.pc = pc]),
         Pair([run[r] EXCEPT !.pc = pc], airdropFile, airdropDetailFile)
  PROVE  IInv'
<1> DEFINE rec == [run[r] EXCEPT !.pc = pc]
<1>1. run[r] \in RunType
  BY DEF IInv, TypeInv
<1>2. rec \in RunType
  BY <1>1 DEF RunType
<1>3. run' = [run EXCEPT ![r] = rec]
  BY DEF Go
<1> HIDE DEF rec
<1> QED BY <1>2, <1>3, Goes DEF IInv, TypeInv, rec

\* A run that ends without success, without having touched a file.
LEMMA EndStep ==
  ASSUME IInv, NEW r \in Runs, NEW pc \in {"error", "panic", "killed"}, Go(r, pc),
         snapshot' = snapshot, accountsFile' \in ListFile, airdropFile' = airdropFile,
         airdropDetailFile' = airdropDetailFile, printed' = printed
  PROVE  IInv'
<1> DEFINE rec == [run[r] EXCEPT !.pc = pc]
<1>1. /\ run[r] \in RunType
      /\ Control(run[r])
      /\ Pair(run[r], airdropFile, airdropDetailFile)
  BY DEF IInv, TypeInv
<1>2. Control(rec)
  BY <1>1 DEF RunType, Control, Writing
<1>3. Pair(rec, airdropFile, airdropDetailFile)
  BY <1>1 DEF RunType, Pair
<1>4. printed' \subseteq Sound /\ pc \in Pc
  BY DEF IInv, TypeInv, Pc
<1> QED BY <1>2, <1>3, <1>4, GoStep

LEMMA WriteStep ==
  ASSUME IInv, NEW r \in Runs, NEW pc \in Pc, GoWriting(r, pc),
         snapshot' = snapshot, accountsFile' = accountsFile, printed' = printed,
         airdropFile' \in AirdropFile, airdropDetailFile' \in AirdropFile,
         Control([run[r] EXCEPT !.pc = pc]),
         Pair([run[r] EXCEPT !.pc = pc], airdropFile', airdropDetailFile')
  PROVE  IInv'
<1> DEFINE rec == [run[r] EXCEPT !.pc = pc]
<1>1. run[r] \in RunType
  BY DEF IInv, TypeInv
<1>2. rec \in RunType
  BY <1>1 DEF RunType
<1>3. run' = [s \in Runs |-> IF s = r THEN rec ELSE [run[s] EXCEPT !.alone = FALSE]]
  BY DEF GoWriting
<1> HIDE DEF rec
<1> QED BY <1>2, <1>3, GoesWriting DEF rec

-----------------------------------------------------------------------------
(* The invariant.                                                          *)

LEMMA InitInv == Init => IInv
<1> SUFFICES ASSUME Init PROVE IInv
  OBVIOUS
<1> DEFINE rec == [pc |-> "idle", command |-> "top20", params |-> <<>>, prefix |-> "",
                   list |-> <<>>, airdrops |-> <<>>, before |-> <<>>, alone |-> TRUE]
<1>1. run = [r \in Runs |-> rec]
  BY DEF Init, Started
<1>2. <<>> \in Seq(Sound) /\ <<>> \in Seq(Nat)
  BY EmptySeq
<1>3. rec \in RunType
  BY <1>2 DEF RunType, Pc, Command
<1>4. Control(rec) /\ Pair(rec, airdropFile, airdropDetailFile)
  BY DEF Control, Pair, Writing
<1> HIDE DEF rec
<1>5. TypeInv
  <2>1. run \in [Runs -> RunType]
    BY <1>1, <1>3
  <2>2. snapshot \in 1..MaxSnapshots
    <3>1. snapshot = 1
      BY DEF Init
    <3> QED BY <3>1, ConstantsAssumption
  <2>3. printed \subseteq Sound
    BY DEF Init
  <2> QED BY <2>1, <2>2, <2>3 DEF Init, TypeInv, ListFile, AirdropFile
<1> QED BY <1>1, <1>4, <1>5 DEF IInv

\* The commands start.
LEMMA StartsInv ==
  ASSUME IInv, NEW r \in Runs,
         StartAccounts(r) \/ StartDistribution(r) \/ StartGenesis(r) \/ StartTop20(r)
           \/ StartWrong(r)
  PROVE  IInv'
<1>1. <<>> \in Seq(Nat)
  BY EmptySeq
<1>2. CASE StartAccounts(r)
  <2>1. PICK c \in {"accounts", "gno-accounts"} : StartAs(r, c, <<>>, "", "parse")
    BY <1>2 DEF StartAccounts
  <2> QED BY <1>1, <2>1, StartStep DEF Command, Pc
<1>3. CASE StartDistribution(r)
  <2>1. PICK f \in Flags : StartAs(r, "distribution", f.params, f.prefix, "read")
    BY <1>3 DEF StartDistribution
  <2>2. f.params \in Seq(Nat) /\ f.params # <<>> /\ f.prefix \in {"", "atone"}
    BY FlagsAssumption
  <2>3. "distribution" \in Command /\ "read" \in Pc
    BY DEF Command, Pc
  <2> QED BY <2>1, <2>2, <2>3, StartStep
<1>4. CASE StartGenesis(r)
  <2>1. <<DefaultParams>> \in Seq(Nat) /\ <<DefaultParams>> # <<>>
    BY ConstantsAssumption
  <2>2. "genesis" \in Command /\ "read" \in Pc
    BY DEF Command, Pc
  <2> QED BY <1>4, <2>1, <2>2, StartStep DEF StartGenesis
<1>5. CASE StartTop20(r)
  BY <1>1, <1>5, StartStep DEF StartTop20, Command, Pc
<1>6. CASE StartWrong(r)
  <2>1. PICK end \in {"error", "panic"}, c \in Command : StartAs(r, c, <<>>, "", end)
    BY <1>6 DEF StartWrong
  <2> QED BY <1>1, <2>1, StartStep DEF Pc
<1> QED BY <1>2, <1>3, <1>4, <1>5, <1>6

\* accounts and gno-accounts write lists, and nothing else.
LEMMA AccountsInv ==
  ASSUME IInv, NEW r \in Runs,
         ParseSnapshot(r) \/ TruncateAccounts(r) \/ WriteAccounts(r)
  PROVE  IInv'
<1>1. /\ run[r] \in RunType
      /\ Control(run[r])
      /\ Pair(run[r], airdropFile, airdropDetailFile)
  BY DEF IInv, TypeInv
<1>2. CASE ParseSnapshot(r)
  <2> DEFINE l   == [fields |-> FieldsOf(run[r].command), of |-> snapshot]
             rec == [run[r] EXCEPT !.pc = "open accounts", !.list = l]
  <2>1. run[r].command \in {"accounts", "gno-accounts"}
    BY <1>1, <1>2 DEF ParseSnapshot, At, Control
  <2>2. l \in Made
    <3>1. l \in List
      BY <2>1 DEF IInv, TypeInv, List
    <3>2. ASSUME "LiquidAmount" \in l.fields PROVE ChainOf[l.of] = "cosmos"
      <4>1. run[r].command = "accounts"
        BY <3>2 DEF FieldsOf
      <4> QED BY <1>2, <4>1 DEF ParseSnapshot, Parses, ConfiguredPrefix
    <3> QED BY <3>1, <3>2 DEF Made
  <2> HIDE DEF l
  <2>3. rec \in RunType
    BY <1>1, <2>2 DEF RunType, Pc
  <2>4. Control(rec)
    BY <1>1, <2>1, <2>2 DEF RunType, Control, Writing
  <2>5. Pair(rec, airdropFile, airdropDetailFile)
    BY <1>1, <2>1 DEF RunType, Pair
  <2>6. run' = [run EXCEPT ![r] = rec]
    BY <1>2 DEF ParseSnapshot, l
  <2> HIDE DEF rec
  <2> QED BY <1>2, <2>3, <2>4, <2>5, <2>6, Goes DEF ParseSnapshot, IInv, TypeInv
<1>3. CASE TruncateAccounts(r)
  <2> DEFINE rec == [run[r] EXCEPT !.pc = "write accounts"]
  <2>1. Control(rec) /\ Pair(rec, airdropFile, airdropDetailFile)
    BY <1>1, <1>3 DEF TruncateAccounts, At, RunType, Control, Pair, Writing
  <2>2. "write accounts" \in Pc /\ Torn \in ListFile /\ printed \subseteq Sound
    BY DEF Pc, ListFile, IInv, TypeInv
  <2> QED BY <1>3, <2>1, <2>2, GoStep DEF TruncateAccounts
<1>4. CASE WriteAccounts(r)
  <2>1. CASE accountsFile' = Torn /\ Go(r, "error")
    BY <1>4, <2>1, EndStep DEF WriteAccounts, ListFile
  <2>2. CASE accountsFile' = run[r].list /\ Go(r, "ok")
    <3> DEFINE rec == [run[r] EXCEPT !.pc = "ok"]
    <3>1. Control(rec)
      BY <1>1 DEF RunType, Control, Writing
    <3>2. run[r].command # "distribution"
      BY <1>1, <1>4 DEF WriteAccounts, At, Control, Writing
    <3>3. Pair(rec, airdropFile, airdropDetailFile)
      BY <1>1, <3>2 DEF RunType, Pair
    <3>4. run[r].list \in ListFile
      BY <1>1, <1>4 DEF WriteAccounts, At, Control, ListFile
    <3>5. "ok" \in Pc /\ printed \subseteq Sound
      BY DEF Pc, IInv, TypeInv
    <3> QED BY <1>4, <2>2, <3>1, <3>3, <3>4, <3>5, GoStep DEF WriteAccounts
  <2> QED BY <1>4, <2>1, <2>2 DEF WriteAccounts
<1> QED BY <1>2, <1>3, <1>4

\* distribution and genesis, up to their first write.
LEMMA DistributeInv ==
  ASSUME IInv, NEW r \in Runs,
         ReadAccounts(r) \/ Distribute(r) \/ EndDistribute(r)
  PROVE  IInv'
<1>1. /\ run[r] \in RunType
      /\ Control(run[r])
      /\ Pair(run[r], airdropFile, airdropDetailFile)
  BY DEF IInv, TypeInv
<1>2. CASE ReadAccounts(r)
  <2> DEFINE rec == [run[r] EXCEPT !.pc = "distribute", !.list = accountsFile]
  <2>1. accountsFile \in Made
    BY <1>2 DEF ReadAccounts, IInv, TypeInv, ListFile
  <2>2. rec \in RunType
    BY <1>1, <2>1 DEF RunType, Pc
  <2>3. Control(rec)
    BY <1>1, <1>2, <2>1 DEF ReadAccounts, At, RunType, Control, Writing
  <2>4. Pair(rec, airdropFile, airdropDetailFile)
    BY <1>1, <1>2 DEF ReadAccounts, At, RunType, Pair
  <2>5. run' = [run EXCEPT ![r] = rec]
    BY <1>2 DEF ReadAccounts
  <2> HIDE DEF rec
  <2> QED BY <1>2, <2>2, <2>3, <2>4, <2>5, Goes DEF ReadAccounts, IInv, TypeInv
<1>3. CASE Distribute(r)
  <2> DEFINE airdrops == run[r].airdrops
             a   == [list |-> run[r].list, params |-> run[r].params[Len(airdrops) + 1],
                     prefix |-> run[r].prefix]
             rec == [run[r] EXCEPT !.airdrops = Append(@, a)]
  <2>1. /\ At(r, "distribute") /\ Distributes(r)
        /\ Len(airdrops) < Len(run[r].params)
        /\ run' = [run EXCEPT ![r] = rec]
    BY <1>3 DEF Distribute
  <2>2. a \in Sound
    <3>1. run[r].list \in List /\ ChainOf[run[r].list.of] = "cosmos"
      BY <1>1, <2>1 DEF At, Control, Distributes, Made
    <3>2. run[r].params \in Seq(Nat) /\ airdrops \in Seq(Sound)
      BY <1>1 DEF RunType
    <3>3. Len(airdrops) + 1 \in 1..Len(run[r].params)
      BY <2>1, <3>2
    <3>4. run[r].params[Len(airdrops) + 1] \in Nat
      BY <3>2, <3>3
    <3> QED BY <1>1, <3>1, <3>4 DEF RunType, Sound, Airdrop
  <2> HIDE DEF a
  <2>3. Append(airdrops, a) \in Seq(Sound)
    BY <1>1, <2>2, AppendProperties DEF RunType
  <2>4. rec \in RunType
    BY <1>1, <2>3 DEF RunType
  <2>5. rec.pc = "distribute"
    BY <1>1, <2>1 DEF At, RunType
  <2>6. Control(rec)
    BY <1>1, <2>5 DEF RunType, Control, Writing
  <2>7. Pair(rec, airdropFile, airdropDetailFile)
    BY <1>1, <2>5 DEF RunType, Pair
  <2> HIDE DEF rec
  <2> QED BY <1>3, <2>1, <2>4, <2>6, <2>7, Goes DEF Distribute, IInv, TypeInv
<1>4. CASE EndDistribute(r)
  <2>1. /\ At(r, "distribute")
        /\ Len(run[r].airdrops) = Len(run[r].params)
        /\ run[r].params \in Seq(Nat) /\ run[r].airdrops \in Seq(Sound)
        /\ run[r].command \in {"distribution", "genesis"} /\ run[r].params # <<>>
    BY <1>1, <1>4 DEF EndDistribute, RunType, Control, At
  <2>2. Len(run[r].params) \in Nat \ {0}
    BY <2>1, EmptySeq
  <2>3. run[r].airdrops # <<>>
    BY <2>1, <2>2
  <2>4. PICK pc \in {"print", "open airdrop", "ok"} :
          /\ Go(r, pc)
          /\ pc = "print" => run[r].command = "genesis"
          /\ pc = "open airdrop" => run[r].command # "genesis" /\ WritesFiles(r)
          /\ pc = "ok" => run[r].command # "genesis" /\ ~WritesFiles(r)
    BY <1>4 DEF EndDistribute
  <2> DEFINE rec == [run[r] EXCEPT !.pc = pc]
  <2>5. Control(rec)
    BY <1>1, <2>1, <2>3, <2>4 DEF RunType, Control, Writing, WritesFiles
  <2>6. Pair(rec, airdropFile, airdropDetailFile)
    BY <1>1, <2>1, <2>4 DEF At, RunType, Pair, WritesFiles
  <2>7. pc \in Pc /\ printed \subseteq Sound /\ accountsFile \in ListFile
    BY DEF Pc, IInv, TypeInv
  <2> QED BY <1>4, <2>4, <2>5, <2>6, <2>7, GoStep DEF EndDistribute
<1> QED BY <1>2, <1>3, <1>4

\* The two writes of distribution.
LEMMA WritesInv ==
  ASSUME IInv, NEW r \in Runs,
         TruncateAirdrop(r) \/ WriteAirdrop(r) \/ CreateDetail(r) \/ WriteDetail(r)
  PROVE  IInv'
<1>1. /\ run[r] \in RunType
      /\ Control(run[r])
      /\ Pair(run[r], airdropFile, airdropDetailFile)
      /\ airdropFile \in AirdropFile /\ airdropDetailFile \in AirdropFile
      /\ Torn \in AirdropFile
  BY DEF IInv, TypeInv, AirdropFile
<1>2. run[r].pc \in Writing
  BY DEF TruncateAirdrop, WriteAirdrop, CreateDetail, WriteDetail, At, Writing
<1>3. /\ run[r].command = "distribution"
      /\ Len(run[r].params) = 1
      /\ Len(run[r].airdrops) = 1
      /\ run[r].airdrops \in Seq(Sound)
  BY <1>1, <1>2 DEF Control, RunType
<1>4. run[r].airdrops[1] \in AirdropFile
  BY <1>3 DEF AirdropFile
<1>5. ASSUME NEW pc \in Pc, pc \notin {"open accounts", "write accounts", "distribute",
                                     "parse", "read", "print", "read airdrop"}
      PROVE  Control([run[r] EXCEPT !.pc = pc])
  BY <1>1, <1>3, <1>5 DEF RunType, Control
<1>6. CASE TruncateAirdrop(r)
  <2>1. "write airdrop" \in Pc
    BY DEF Pc
  <2>2. Control([run[r] EXCEPT !.pc = "write airdrop"])
    BY <1>5, <2>1
  <2>3. Pair([run[r] EXCEPT !.pc = "write airdrop"], airdropFile', airdropDetailFile')
    BY <1>1, <1>3, <1>6 DEF TruncateAirdrop, At, RunType, Pair
  <2> QED BY <1>1, <1>6, <2>1, <2>2, <2>3, WriteStep DEF TruncateAirdrop
<1>7. CASE WriteAirdrop(r)
  <2>1. PICK pc \in {"create detail", "error"} :
          /\ GoWriting(r, pc)
          /\ pc = "create detail" => airdropFile' = run[r].airdrops[1]
          /\ airdropFile' \in {run[r].airdrops[1], Torn}
    BY <1>7 DEF WriteAirdrop
  <2>2. pc \in Pc
    BY DEF Pc
  <2>3. Control([run[r] EXCEPT !.pc = pc])
    BY <1>5, <2>2
  <2>4. Pair([run[r] EXCEPT !.pc = pc], airdropFile', airdropDetailFile')
    BY <1>1, <1>3, <1>7, <2>1 DEF WriteAirdrop, At, RunType, Pair
  <2> QED BY <1>1, <1>4, <1>7, <2>1, <2>2, <2>3, <2>4, WriteStep DEF WriteAirdrop
<1>8. CASE CreateDetail(r)
  <2>1. "write detail" \in Pc
    BY DEF Pc
  <2>2. Control([run[r] EXCEPT !.pc = "write detail"])
    BY <1>5, <2>1
  <2>3. Pair([run[r] EXCEPT !.pc = "write detail"], airdropFile', airdropDetailFile')
    BY <1>1, <1>3, <1>8 DEF CreateDetail, At, RunType, Pair
  <2> QED BY <1>1, <1>8, <2>1, <2>2, <2>3, WriteStep DEF CreateDetail
<1>9. CASE WriteDetail(r)
  <2>1. "ok" \in Pc
    BY DEF Pc
  <2>2. Control([run[r] EXCEPT !.pc = "ok"])
    BY <1>5, <2>1
  <2>3. Pair([run[r] EXCEPT !.pc = "ok"], airdropFile', airdropDetailFile')
    BY <1>1, <1>3, <1>9 DEF WriteDetail, At, RunType, Pair
  <2> QED BY <1>1, <1>4, <1>9, <2>1, <2>2, <2>3, WriteStep DEF WriteDetail
<1> QED BY <1>6, <1>7, <1>8, <1>9

\* What ends a command: output, a failure, an interruption.
LEMMA EndsInv ==
  ASSUME IInv, NEW r \in Runs,
         ParsePanics(r) \/ CannotRead(r) \/ DistributePanics(r) \/ PrintGenesis(r) \/ Top20(r)
           \/ CallFails(r) \/ Crash(r)
  PROVE  IInv'
<1>1. /\ run[r] \in RunType
      /\ Control(run[r])
      /\ Pair(run[r], airdropFile, airdropDetailFile)
      /\ accountsFile \in ListFile
      /\ airdropFile \in AirdropFile /\ airdropDetailFile \in AirdropFile
      /\ printed \subseteq Sound
      /\ Torn \in AirdropFile /\ Torn \in ListFile
  BY DEF IInv, TypeInv, AirdropFile, ListFile
<1>2. CASE CannotRead(r)
  BY <1>1, <1>2, EndStep DEF CannotRead
<1>3. CASE ParsePanics(r) \/ DistributePanics(r)
  BY <1>1, <1>3, EndStep DEF ParsePanics, DistributePanics
<1>4. CASE CallFails(r)
  BY <1>1, <1>4, EndStep DEF CallFails
<1>5. ASSUME At(r, "print") \/ At(r, "read airdrop")
      PROVE  Control([run[r] EXCEPT !.pc = "ok"])
  BY <1>1, <1>5 DEF At, RunType, Control, Writing
<1>6. CASE PrintGenesis(r)
  <2>1. run[r].command = "genesis"
    BY <1>1, <1>6 DEF PrintGenesis, At, Control
  <2>2. Pair([run[r] EXCEPT !.pc = "ok"], airdropFile, airdropDetailFile)
    BY <1>1, <2>1 DEF RunType, Pair
  <2>3. run[r].airdrops \in Seq(Sound) /\ run[r].airdrops # <<>>
    BY <1>1, <1>6 DEF PrintGenesis, At, RunType, Control
  <2>4. run[r].airdrops[1] \in Sound
    BY <2>3
  <2>5. "ok" \in Pc /\ printed' \subseteq Sound
    BY <1>1, <1>6, <2>4 DEF Pc, PrintGenesis
  <2> QED BY <1>1, <1>5, <1>6, <2>2, <2>5, GoStep DEF PrintGenesis
<1>7. CASE Top20(r)
  <2>1. CASE printed' = printed \cup {airdropFile} /\ Go(r, "ok")
    <3>1. run[r].command = "top20"
      BY <1>1, <1>7 DEF Top20, At, Control
    <3>2. Pair([run[r] EXCEPT !.pc = "ok"], airdropFile, airdropDetailFile)
      BY <1>1, <3>1 DEF RunType, Pair
    <3>3. airdropFile \in Sound
      BY <1>1, <1>7 DEF Top20, AirdropFile
    <3>4. "ok" \in Pc /\ printed' \subseteq Sound
      BY <1>1, <2>1, <3>3 DEF Pc
    <3> QED BY <1>1, <1>5, <1>7, <2>1, <3>2, <3>4, GoStep DEF Top20
  <2>2. CASE printed' = printed /\ Go(r, "panic")
    BY <1>1, <1>7, <2>2, EndStep DEF Top20
  <2> QED BY <1>7, <2>1, <2>2 DEF Top20
<1>8. CASE Crash(r)
  <2>1. CASE airdropFiles' = airdropFiles
    <3>1. Go(r, "killed") /\ snapshot' = snapshot /\ printed' = printed
      BY <1>8, <2>1 DEF Crash
    <3>2. airdropFile' = airdropFile /\ airdropDetailFile' = airdropDetailFile
      BY <2>1 DEF airdropFiles
    <3>3. accountsFile' \in ListFile
      BY <1>1, <1>8 DEF Crash
    <3> QED BY <3>1, <3>2, <3>3, EndStep
  <2>2. CASE airdropFiles' # airdropFiles
    <3>1. GoWriting(r, "killed") /\ snapshot' = snapshot /\ printed' = printed
      BY <1>8, <2>2 DEF Crash
    <3>2. /\ accountsFile' = accountsFile
          /\ \/ /\ At(r, "write airdrop")
                /\ airdropFile' = Torn /\ airdropDetailFile' = airdropDetailFile
             \/ /\ At(r, "write detail")
                /\ airdropDetailFile' = Torn /\ airdropFile' = airdropFile
      BY <1>8, <2>2 DEF Crash, airdropFiles
    <3>3. /\ run[r].command = "distribution" /\ Len(run[r].params) = 1
      BY <1>1, <3>2 DEF At, Control, Writing
    <3>4. Control([run[r] EXCEPT !.pc = "killed"])
      BY <1>1 DEF RunType, Control, Writing
    <3>5. Pair([run[r] EXCEPT !.pc = "killed"], airdropFile', airdropDetailFile')
      BY <1>1, <3>2, <3>3 DEF At, RunType, Pair
    <3>6. "killed" \in Pc
      BY DEF Pc
    <3> QED BY <1>1, <3>1, <3>2, <3>4, <3>5, <3>6, WriteStep
  <2> QED BY <2>1, <2>2
<1> QED BY <1>2, <1>3, <1>4, <1>6, <1>7, <1>8

LEMMA NextInv == IInv /\ [Next]_vars => IInv'
<1> SUFFICES ASSUME IInv, [Next]_vars PROVE IInv'
  OBVIOUS
<1>1. ASSUME NEW r \in Runs, Step(r) PROVE IInv'
  BY <1>1, StartsInv, AccountsInv, DistributeInv, WritesInv, EndsInv DEF Step
<1>2. CASE NewSnapshot
  <2>1. snapshot' \in 1..MaxSnapshots
    BY <1>2, ConstantsAssumption DEF NewSnapshot, IInv, TypeInv
  <2> QED BY <1>2, <2>1 DEF NewSnapshot, IInv, TypeInv, Control, Pair
<1>3. CASE UNCHANGED vars
  BY <1>3 DEF vars, IInv, TypeInv, Control, Pair
<1>4. CASE Ended
  BY <1>3, <1>4 DEF Ended
<1> QED BY <1>1, <1>2, <1>3, <1>4 DEF Next

LEMMA Invariance == Spec => []IInv
BY InitInv, NextInv, PTL DEF Spec

\* Whatever snapshots are extracted and whichever commands overlap, fail or are
\* killed, no airdrop in a file or an output is of anything but a Hub snapshot
\* (main.go 148, 172, 191-195, 224, 312): a list with amounts comes from
\* accounts, which only gets past the validators of the Hub.
THEOREM HubCorrect == Spec => []OnlyHubAirdrops
<1>1. IInv => OnlyHubAirdrops
  BY DEF IInv, TypeInv, AirdropFile, OnlyHubAirdrops, Airdrops, Sound
<1> QED BY <1>1, Invariance, PTL

\* The two files of a distribution that is alone are a pair unless it fails
\* (main.go 326-367): at each step they are what Pair says.
THEOREM PairCorrect == Spec => []PairMatches
<1>1. ASSUME IInv PROVE PairMatches
  <2> SUFFICES ASSUME NEW r \in Runs, run[r].command = "distribution", run[r].alone
               PROVE  IF Len(run[r].params) # 1 THEN airdropFiles = run[r].before
                      ELSE /\ airdropDetailFile # run[r].before[2] =>
                                airdropFile = run[r].airdrops[1]
                           /\ At(r, "ok") =>
                                /\ airdropFile = run[r].airdrops[1]
                                /\ airdropDetailFile \in {airdropFile, Torn}
    BY DEF PairMatches
  <2>1. Pair(run[r], airdropFile, airdropDetailFile)
    BY <1>1 DEF IInv
  <2> QED BY <2>1 DEF Pair, At, airdropFiles
<1> QED BY <1>1, Invariance, PTL


-----------------------------------------------------------------------------
(* gno-airdrop.                                                            *)

\* The factor is the exact one to half a unit, and the digits that the quotient
\* is cut to before it is rounded.
LEMMA FactorError ==
  ASSUME NEW e \in Nat, NEW s \in Nat \ {0}
  PROVE  /\ Quo(FromInt(e), FromInt(s)) \in Nat
         /\ -(s + ((2 * s) \div One)) <= 2 * (s * Quo(FromInt(e), FromInt(s)) - FromInt(e))
         /\ 2 * (s * Quo(FromInt(e), FromInt(s)) - FromInt(e)) <= s
<1> PICK one \in Nat \ {0} : one = One
  BY OneAssumption
<1> DEFINE a == e * one
           b == s * one
           rest == (a % b) * one
           whole == (a \div b) * one
           quo == whole + (rest \div b)
           m == rest % b
           rem == (m * one) \div b
           k == (a % b) - s * (rest \div b)
<1>1. a \in Nat /\ b \in Nat \ {0}
  OBVIOUS
<1>2. Quo(FromInt(e), FromInt(s)) = RoundHalfEven(quo, rem)
  BY DEF Quo, FromInt
<1> HIDE DEF a, b
<1>3. a % b \in 0..(b - 1) /\ a \div b \in Nat /\ a = b * (a \div b) + (a % b)
  BY <1>1
<1>4. rest \in Nat /\ whole \in Nat
  BY <1>3
<1>5. a * one = b * whole + rest
  <2> PICK d \in Nat, n \in Nat : d = a \div b /\ n = a % b
    BY <1>3
  <2>1. (b * d + n) * one = b * (d * one) + n * one
    BY <1>1
  <2> QED
    BY <1>3, <2>1
<1>6. /\ rest \div b \in Nat /\ m \in 0..(b - 1) /\ rest = b * (rest \div b) + m
  BY <1>1, <1>4
<1>7. m = one * k /\ k \in Int
  <2> PICK n \in Nat, d \in Nat : n = a % b /\ d = rest \div b
    BY <1>3, <1>6
  <2>1. n * one - (s * one) * d = one * (n - s * d)
    OBVIOUS
  <2>2. rest = n * one /\ b = s * one
    BY DEF b
  <2>3. m = n * one - (s * one) * d
    BY <1>6, <2>2
  <2> QED
    BY <2>1, <2>3
<1> HIDE DEF rest, whole, m, k
<1>8. k \in 0..(s - 1)
  <2>1. one * k >= 0 /\ one * k < s * one
    BY <1>6, <1>7 DEF b
  <2> QED
    BY <1>7, <2>1
<1>9. rem \in Nat /\ b * rem <= m * one /\ m * one < b * rem + b
  <2> PICK mo \in Nat : mo = m * one
    BY <1>6
  <2> QED
    BY <1>1
<1>10. quo \in Nat
  BY <1>4, <1>6
<1> HIDE DEF quo, rem
<1>11. s * rem <= k * one /\ k * one < s * rem + s
  <2>1. b * rem = one * (s * rem) /\ m * one = one * (k * one) /\ b = one * s
    BY <1>7, <1>8, <1>9 DEF b
  <2> PICK x \in Nat, y \in Nat : x = s * rem /\ y = k * one
    BY <1>8, <1>9
  <2>2. one * x <= one * y /\ one * y < one * (x + s)
    BY <1>9, <2>1
  <2> QED
    BY <2>2
<1>12. /\ s * quo - FromInt(e) = -k
       /\ s * (quo + 1) - FromInt(e) = s - k
  <2> PICK w \in Nat, d \in Nat : w = whole /\ d = rest \div b
    BY <1>4, <1>6
  <2>1. one * (s * (w + d)) = b * w + b * d
    BY DEF b
  <2>2. one * (s * quo) = a * one - m
    <3> PICK x \in Int, y \in Int : x = b * w /\ y = b * d
      BY <1>1
    <3> QED
      BY <1>5, <1>6, <2>1 DEF quo
  <2>3. one * (s * quo - FromInt(e)) = -(one * k)
    BY <1>7, <1>8, <1>10, <2>2 DEF a, FromInt
  <2>4. s * quo - FromInt(e) \in Int /\ FromInt(e) \in Int
    BY <1>10 DEF FromInt
  <2>5. s * quo - FromInt(e) = -k
    BY <1>8, <2>3, <2>4
  <2> QED
    BY <1>8, <1>10, <2>4, <2>5
<1> PICK bound \in Int : bound = (2 * s) \div one
  OBVIOUS
<1>13. \A x \in Int : x * one < 2 * s => x <= bound
  <2>1. 2 * s < (bound + 1) * one
    OBVIOUS
  <2> SUFFICES ASSUME NEW x \in Int, x * one < 2 * s, x >= bound + 1 PROVE FALSE
    OBVIOUS
  <2>2. x * one >= (bound + 1) * one
    OBVIOUS
  <2>3. x * one \in Int /\ (bound + 1) * one \in Int
    OBVIOUS
  <2> QED
    BY <2>1, <2>2, <2>3
<1>14. bound >= 0
  <2>1. 0 * one < 2 * s
    OBVIOUS
  <2> QED
    BY <1>13, <2>1
<1> PICK q \in Nat : q = quo
  BY <1>10
<1> PICK f \in Int : f = FromInt(e)
  BY DEF FromInt
<1>15. CASE 2 * rem > One \/ (2 * rem = One /\ quo % 2 = 1)
  <2>1. Quo(FromInt(e), FromInt(s)) = q + 1
    BY <1>2, <1>15 DEF RoundHalfEven
  <2>2. s * one <= s * (2 * rem)
    <3>1. 2 * rem \in Nat /\ one <= 2 * rem
      BY <1>9, <1>15
    <3> QED
      BY <3>1
  <2>3. s * one <= (2 * k) * one
    <3> PICK x \in Nat, y \in Nat : x = s * rem /\ y = k * one
      BY <1>8, <1>9
    <3>1. s * (2 * rem) = 2 * x /\ (2 * k) * one = 2 * y /\ s * one \in Int
      BY <1>8, <1>9
    <3> QED
      BY <1>11, <2>2, <3>1
  <2>4. s <= 2 * k
    BY <1>8, <2>3
  <2>5. s * (q + 1) - f = s - k /\ s * (q + 1) \in Int
    BY <1>12
  <2> QED
    BY <1>8, <1>14, <2>1, <2>4, <2>5
<1>16. CASE ~(2 * rem > One \/ (2 * rem = One /\ quo % 2 = 1))
  <2>1. Quo(FromInt(e), FromInt(s)) = q
    BY <1>2, <1>16 DEF RoundHalfEven
  <2>2. s * (2 * rem) <= s * one
    <3>1. 2 * rem \in Nat /\ 2 * rem <= one
      BY <1>9, <1>16
    <3> QED
      BY <3>1
  <2>3. (2 * k - s) * one < 2 * s
    <3> PICK x \in Nat, y \in Nat, z \in Nat : x = s * rem /\ y = k * one /\ z = s * one
      BY <1>8, <1>9
    <3>1. s * (2 * rem) = 2 * x /\ (2 * k - s) * one = 2 * y - z
      BY <1>8, <1>9
    <3> QED
      BY <1>11, <2>2, <3>1
  <2>4. 2 * k - s <= bound
    BY <1>8, <1>13, <2>3
  <2>5. s * q - f = -k /\ s * q \in Int
    BY <1>12
  <2> QED
    BY <1>8, <1>14, <2>1, <2>4, <2>5
<1> QED
  BY <1>15, <1>16

\* An amount is scaled to half a coin.
LEMMA ScaledError ==
  ASSUME fact \in Nat, NEW l \in Nat
  PROVE  /\ Scaled(l) = ChopRound(l * fact)
         /\ Scaled(l) \in Nat
         /\ -One <= 2 * (One * Scaled(l) - l * fact)
         /\ 2 * (One * Scaled(l) - l * fact) <= One
<1> PICK one \in Nat \ {0} : one = One
  BY OneAssumption
<1> PICK d \in Nat : d = l * fact
  OBVIOUS
<1>1. (l * one) * fact = one * d
  <2>1. \A f \in Nat : (l * one) * f = one * (l * f)
    OBVIOUS
  <2> QED
    BY <2>1
<1>2. (one * d) \div one = d /\ (one * d) % one = 0
  <2> PICK x \in Nat : x = one * d
    OBVIOUS
  <2>1. x = one * (x \div one) + (x % one) /\ x \div one \in Int /\ x % one \in 0..(one - 1)
    OBVIOUS
  <2> PICK y \in Int, z \in 0..(one - 1) :
        y = x \div one /\ z = x % one /\ one * d = one * y + z
    BY <2>1
  <2>2. one * (d - y) = z
    <3> PICK v \in Int, w \in Int : v = one * d /\ w = one * y
      OBVIOUS
    <3>1. one * (d - y) = v - w
      OBVIOUS
    <3> QED
      BY <3>1
  <2>3. d - y = 0
    <3>1. d - y >= 1 => one * (d - y) >= one
      OBVIOUS
    <3>2. d - y <= -1 => one * (d - y) <= -one
      OBVIOUS
    <3> QED
      BY <2>2, <3>1, <3>2
  <2> QED
    BY <2>2, <2>3
<1>3. Mul(FromInt(l), fact) = d
  BY <1>1, <1>2 DEF Mul, ChopRound, RoundHalfEven, FromInt
<1> QED
  BY <1>3, ChopRoundNat DEF Scaled, RoundInt

LEMMA ChopRoundOrder ==
  ASSUME NEW c \in Nat, NEW d \in Nat, c <= d
  PROVE  ChopRound(c) <= ChopRound(d)
<1> PICK one \in Nat \ {0} : one = One
  BY OneAssumption
<1> PICK q \in Nat, r \in 0..(one - 1) : q = c \div One /\ r = c % One /\ c = one * q + r
  BY DivMod
<1> PICK u \in Nat, v \in 0..(one - 1) : u = d \div One /\ v = d % One /\ d = one * u + v
  BY DivMod
<1>1. q <= u
  <2> SUFFICES ASSUME q >= u + 1 PROVE FALSE
    OBVIOUS
  <2>1. one * q >= one * (u + 1)
    OBVIOUS
  <2>2. one * q \in Int /\ one * (u + 1) = one * u + one /\ one * u \in Int
    OBVIOUS
  <2> QED
    BY <2>1, <2>2
<1>2. ChopRound(c) = RoundHalfEven(q, r) /\ ChopRound(d) = RoundHalfEven(u, v)
  BY DEF ChopRound
<1>3. CASE q = u
  <2>1. r <= v
    <3>1. one * q \in Int
      OBVIOUS
    <3> QED
      BY <1>3, <3>1
  <2> QED
    BY <1>2, <1>3, <2>1 DEF RoundHalfEven
<1>4. CASE q < u
  <2>1. RoundHalfEven(q, r) \in {q, q + 1} /\ RoundHalfEven(u, v) \in {u, u + 1}
    BY DEF RoundHalfEven
  <2> QED
    BY <1>2, <1>4, <2>1
<1> QED
  BY <1>1, <1>3, <1>4

\* What is read, the amounts scaled so far, and how far their sum is from the
\* exact one: half a coin for each line.
SumOfLines(n) == SumFunctionOnSet(lines, 1..n)
GnoInv ==
  /\ lines \in Seq(Nat \cup {Malformed})
  /\ read \in 0..Len(lines)
  /\ scaling \in {"scan", "scale", "done", "panic"}
  /\ scaling = "scan" =>
       /\ allocs = <<>> /\ newSup = 0
       /\ \A i \in 1..read : lines[i] \in Nat
       /\ gnoSupply = SumOfLines(read)
  /\ scaling \in {"scale", "done"} =>
       /\ \A i \in 1..Len(lines) : lines[i] \in Nat
       /\ gnoSupply = SumOfLines(Len(lines)) /\ gnoSupply # 0
       /\ fact = Quo(FromInt(ExpSupply), FromInt(gnoSupply)) /\ fact \in Nat
       /\ allocs \in Seq(Nat) /\ Len(allocs) = read /\ newSup \in Nat
       /\ \A i \in 1..read : allocs[i] = Scaled(lines[i])
       /\ -(One * read) <= 2 * (One * newSup - fact * SumOfLines(read))
       /\ 2 * (One * newSup - fact * SumOfLines(read)) <= One * read
  /\ scaling = "done" => read = Len(lines)

LEMMA SumOfLinesNext ==
  ASSUME lines \in Seq(Nat \cup {Malformed}), NEW n \in 0..Len(lines),
         \A i \in 1..n : lines[i] \in Nat
  PROVE  /\ SumOfLines(n) \in Nat
         /\ n = 0 => SumOfLines(n) = 0
         /\ n < Len(lines) /\ lines[n + 1] \in Nat =>
              SumOfLines(n + 1) = SumOfLines(n) + lines[n + 1]
<1>1. IsFiniteSet(1..n)
  <2>1. 1 \in Int /\ n \in Int
    OBVIOUS
  <2> QED
    BY <2>1, FS_Interval
<1>2. SumOfLines(n) \in Nat
  BY <1>1, SumNat DEF SumOfLines
<1>3. n = 0 => SumOfLines(n) = 0
  <2>1. 1..0 = {}
    OBVIOUS
  <2> QED
    BY <2>1, SumEmpty DEF SumOfLines
<1>4. ASSUME n < Len(lines), lines[n + 1] \in Nat
      PROVE  SumOfLines(n + 1) = SumOfLines(n) + lines[n + 1]
  <2>1. 1..(n + 1) = (1..n) \cup {n + 1} /\ n + 1 \notin 1..n
    OBVIOUS
  <2>2. \A i \in (1..n) \cup {n + 1} : lines[i] \in Int
    BY <1>4
  <2>3. SumFunctionOnSet(lines, (1..n) \cup {n + 1}) = lines[n + 1] + SumFunctionOnSet(lines, 1..n)
    BY <1>1, <2>1, <2>2, SumAdd
  <2>4. SumOfLines(n + 1) = lines[n + 1] + SumOfLines(n)
    BY <2>1, <2>3 DEF SumOfLines
  <2> QED
    BY <1>2, <1>4, <2>4
<1> QED
  BY <1>2, <1>3, <1>4

LEMMA GnoInitStep ==
  ASSUME GnoInit(GnoFiles)
  PROVE  GnoInv
<1>1. lines \in Seq(Nat \cup {Malformed}) /\ read = 0 /\ gnoSupply = 0
  BY GnoAssumption DEF GnoInit
<1>2. read \in 0..Len(lines) /\ \A i \in 1..read : lines[i] \in Nat
  BY <1>1
<1>3. SumOfLines(0) = 0
  BY <1>1, <1>2, SumOfLinesNext
<1> QED
  BY <1>1, <1>2, <1>3 DEF GnoInit, GnoInv

LEMMA GnoScan ==
  ASSUME GnoInv, ScanLine
  PROVE  GnoInv'
<1>1. lines[read + 1] \in Nat
  <2>1. read + 1 \in 1..Len(lines) /\ lines[read + 1] # Malformed
    BY DEF GnoInv, ScanLine
  <2> QED
    BY <2>1 DEF GnoInv
<1>2. SumOfLines(read + 1) = SumOfLines(read) + lines[read + 1]
  BY <1>1, SumOfLinesNext DEF GnoInv, ScanLine
<1>4. \A i \in 1..(read + 1) : lines[i] \in Nat
  <2>1. \A i \in 1..(read + 1) : i \in 1..read \/ i = read + 1
    BY DEF GnoInv
  <2> QED
    BY <1>1, <2>1 DEF GnoInv, ScanLine
<1>5. gnoSupply' = SumOfLines(read + 1)
  BY <1>2 DEF GnoInv, ScanLine
<1>6. read + 1 \in 0..Len(lines)
  BY DEF GnoInv, ScanLine
<1>7. SumOfLines(read)' = SumOfLines(read + 1)
  BY <1>6 DEF SumOfLines, ScanLine
<1> HIDE DEF SumOfLines
<1> QED
  BY <1>4, <1>5, <1>6, <1>7 DEF GnoInv, ScanLine

LEMMA GnoEndScan ==
  ASSUME GnoInv, EndScan
  PROVE  GnoInv'
<1>1. CASE gnoSupply = 0
  BY <1>1 DEF GnoInv, EndScan
<1>2. CASE gnoSupply # 0
  <2>1. /\ read = Len(lines) /\ \A i \in 1..Len(lines) : lines[i] \in Nat
        /\ gnoSupply = SumOfLines(Len(lines)) /\ Len(lines) \in Nat
    BY DEF GnoInv, EndScan
  <2>2. gnoSupply \in Nat \ {0}
    BY <1>2, <2>1, SumOfLinesNext DEF GnoInv
  <2>3. fact' = Quo(FromInt(ExpSupply), FromInt(gnoSupply)) /\ fact' \in Nat
    BY <1>2, <2>2, FactorError, GnoAssumption DEF EndScan, Factor
  <2>4. SumOfLines(0) = 0 /\ SumOfLines(0)' = 0
    <3>1. SumOfLines(0) = 0
      BY SumOfLinesNext DEF GnoInv
    <3> QED
      BY <3>1 DEF SumOfLines, EndScan
  <2>5. SumOfLines(Len(lines))' = SumOfLines(Len(lines))
    BY DEF SumOfLines, EndScan
  <2>6. allocs' = <<>> /\ newSup' = 0 /\ read' = 0 /\ scaling' = "scale" /\ lines' = lines
        /\ gnoSupply' = gnoSupply
    BY <1>2 DEF GnoInv, EndScan
  <2>7. 2 * (One * 0 - fact' * 0) = 0 /\ One * 0 = 0
    BY <2>3, OneAssumption
  <2> HIDE DEF SumOfLines
  <2> QED
    BY <1>2, <2>1, <2>3, <2>4, <2>5, <2>6, <2>7 DEF GnoInv
<1> QED
  BY <1>1, <1>2

LEMMA GnoScale ==
  ASSUME GnoInv, ScaleLine
  PROVE  GnoInv'
<1>1. /\ lines \in Seq(Nat \cup {Malformed}) /\ Len(lines) \in Nat /\ read \in Nat
      /\ read < Len(lines) /\ \A i \in 1..Len(lines) : lines[i] \in Nat
      /\ fact \in Nat /\ allocs \in Seq(Nat) /\ Len(allocs) = read /\ newSup \in Nat
      /\ \A i \in 1..read : allocs[i] = Scaled(lines[i])
  BY DEF GnoInv, ScaleLine
<1> PICK l \in Nat : l = lines[read + 1]
  <2>1. read + 1 \in 1..Len(lines)
    BY <1>1
  <2> QED
    BY <1>1, <2>1
<1>2. /\ Scaled(l) \in Nat /\ -One <= 2 * (One * Scaled(l) - l * fact)
      /\ 2 * (One * Scaled(l) - l * fact) <= One
  BY <1>1, ScaledError
<1>3. /\ allocs' = Append(allocs, Scaled(l)) /\ newSup' = newSup + Scaled(l)
      /\ read' = read + 1 /\ lines' = lines /\ fact' = fact /\ gnoSupply' = gnoSupply
      /\ scaling = "scale" /\ scaling' = "scale"
  BY DEF ScaleLine
<1>4. /\ SumOfLines(read)' = SumOfLines(read + 1)
      /\ SumOfLines(Len(lines))' = SumOfLines(Len(lines))
  BY <1>3 DEF SumOfLines
<1>5. \A i \in 1..Len(lines) : Scaled(lines[i])' = Scaled(lines[i])
  BY <1>3 DEF Scaled
<1>12. read \in 0..Len(lines) /\ \A i \in 1..read : lines[i] \in Nat
  BY <1>1
<1> PICK s \in Nat : s = SumOfLines(read)
  BY <1>1, <1>12, SumOfLinesNext
<1>6. SumOfLines(read + 1) = s + l
  BY <1>1, <1>12, SumOfLinesNext
<1> PICK new \in Nat : new = Scaled(l)
  BY <1>2
<1>7. -(One * (read + 1)) <= 2 * (One * (newSup + new) - fact * (s + l))
      /\ 2 * (One * (newSup + new) - fact * (s + l)) <= One * (read + 1)
  <2> PICK one \in Nat : one = One
    BY OneAssumption
  <2> PICK n \in Nat : n = one * newSup
    BY <1>1
  <2> PICK on \in Nat, r \in Nat : on = one * new /\ r = one * read
    BY <1>1
  <2> PICK fs \in Nat, lf \in Nat : fs = fact * s /\ lf = l * fact
    BY <1>1
  <2>1. one * (newSup + new) = n + on
    BY <1>1
  <2>2. fact * (s + l) = fs + lf
    <3>1. \A x \in Nat, y \in Nat, z \in Nat : x * (y + z) = x * y + z * x
      OBVIOUS
    <3>2. fact \in Nat /\ s \in Nat /\ l \in Nat
      BY <1>1
    <3> QED
      BY <3>1, <3>2
  <2>3. one * (read + 1) = r + one
    BY <1>1
  <2>4. -r <= 2 * (n - fs) /\ 2 * (n - fs) <= r
    BY <1>3 DEF GnoInv
  <2>5. -one <= 2 * (on - lf) /\ 2 * (on - lf) <= one
    BY <1>2
  <2> QED
    BY <2>1, <2>2, <2>3, <2>4, <2>5
<1>8. /\ allocs' \in Seq(Nat) /\ Len(allocs') = read + 1
      /\ \A i \in 1..(read + 1) : allocs'[i] = Scaled(lines[i])
  <2>1. allocs' = Append(allocs, new) /\ allocs' \in Seq(Nat) /\ Len(allocs') = read + 1
    BY <1>1, <1>3
  <2>2. \A i \in 1..read : allocs'[i] = allocs[i]
    BY <1>1, <2>1
  <2>3. allocs'[read + 1] = new
    BY <1>1, <2>1
  <2>4. \A i \in 1..(read + 1) : i \in 1..read \/ i = read + 1
    BY <1>1
  <2> QED
    BY <1>1, <2>1, <2>2, <2>3, <2>4
<1>9. \A i \in 1..(read + 1) : i \in 1..Len(lines)
  BY <1>1
<1>10. read + 1 \in 0..Len(lines) /\ newSup + new \in Nat
  BY <1>1
<1>11. \A i \in 1..(read + 1) : allocs'[i] = Scaled(lines[i])'
  BY <1>5, <1>8, <1>9
<1> HIDE DEF SumOfLines, Scaled
<1> QED
  BY <1>1, <1>3, <1>4, <1>6, <1>7, <1>8, <1>10, <1>11 DEF GnoInv

\* Every step keeps the invariant.
LEMMA GnoStep ==
  ASSUME GnoInv, GnoNext \/ UNCHANGED gnoVars
  PROVE  GnoInv'
<1>1. CASE ScanPanics
  BY <1>1 DEF GnoInv, ScanPanics
<1>2. CASE EndScale
  BY <1>2 DEF GnoInv, EndScale, SumOfLines, Scaled
<1>3. CASE UNCHANGED gnoVars
  BY <1>3 DEF GnoInv, gnoVars, SumOfLines, Scaled
<1> QED
  BY <1>1, <1>2, <1>3, GnoScan, GnoEndScan, GnoScale DEF GnoNext

LEMMA GnoSupplied ==
  ASSUME GnoInv
  PROVE  GnoSupply
<1> SUFFICES ASSUME scaling = "done" PROVE GnoSupply
  BY DEF GnoSupply
<1>1. /\ read = Len(lines) /\ Len(lines) \in Nat /\ lines \in Seq(Nat \cup {Malformed})
      /\ \A i \in 1..Len(lines) : lines[i] \in Nat
      /\ fact \in Nat /\ allocs \in Seq(Nat) /\ Len(allocs) = read /\ newSup \in Nat
      /\ \A i \in 1..read : allocs[i] = Scaled(lines[i])
      /\ gnoSupply = SumOfLines(Len(lines)) /\ gnoSupply # 0
      /\ -(One * read) <= 2 * (One * newSup - fact * SumOfLines(read))
      /\ 2 * (One * newSup - fact * SumOfLines(read)) <= One * read
  BY DEF GnoInv
<1> PICK s \in Nat \ {0} : s = gnoSupply
  BY <1>1, SumOfLinesNext
<1>2. /\ -(s + ((2 * s) \div One)) <= 2 * (s * fact - FromInt(ExpSupply))
      /\ 2 * (s * fact - FromInt(ExpSupply)) <= s
  BY FactorError, GnoAssumption DEF GnoInv
<1>3. LET slack == gnoSupply + FromInt(Len(lines)) + (2 * gnoSupply) \div One
      IN  2 * (FromInt(newSup) - FromInt(ExpSupply)) \in -slack..slack
  <2> PICK one \in Nat \ {0} : one = One
    BY OneAssumption
  <2> PICK e \in Nat, n \in Nat : e = ExpSupply * one /\ n = newSup * one
    BY <1>1, GnoAssumption
  <2> PICK fs \in Nat, m \in Nat : fs = fact * s /\ m = Len(lines) * one
    BY <1>1
  <2> PICK bound \in Int : bound = (2 * s) \div one
    OBVIOUS
  <2>1. s * fact = fs /\ one * newSup = n /\ one * Len(lines) = m
    BY <1>1
  <2>2. bound >= 0
    OBVIOUS
  <2>3. -(s + bound) <= 2 * (fs - e) /\ 2 * (fs - e) <= s
    BY <1>2, <2>1 DEF FromInt
  <2>4. -m <= 2 * (n - fs) /\ 2 * (n - fs) <= m
    BY <1>1, <2>1
  <2>5. \A w \in Nat, x \in Nat, y \in Int, z \in Nat, f \in Nat :
          /\ y >= 0 /\ -(s + y) <= 2 * (f - z) /\ 2 * (f - z) <= s
          /\ -x <= 2 * (w - f) /\ 2 * (w - f) <= x
          => 2 * (w - z) \in -(s + x + y)..(s + x + y)
    OBVIOUS
  <2>6. 2 * (n - e) \in -(s + m + bound)..(s + m + bound)
    BY <2>2, <2>3, <2>4, <2>5
  <2> QED
    BY <2>6 DEF FromInt
<1>4. ASSUME NEW i \in DOMAIN lines, NEW j \in DOMAIN lines, lines[i] <= lines[j]
      PROVE  allocs[i] <= allocs[j]
  <2>3. DOMAIN lines = 1..Len(lines)
    BY <1>1
  <2> PICK a \in Nat, b \in Nat : a = lines[i] /\ b = lines[j]
    BY <1>1, <2>3
  <2>1. a * fact \in Nat /\ b * fact \in Nat /\ a * fact <= b * fact
    <3>1. \A x \in Nat, y \in Nat, z \in Nat :
            x * z \in Nat /\ (x <= y => x * z <= y * z)
      OBVIOUS
    <3>2. a <= b /\ fact \in Nat
      BY <1>1, <1>4
    <3> QED
      BY <3>1, <3>2
  <2>2. allocs[i] = ChopRound(a * fact) /\ allocs[j] = ChopRound(b * fact)
    <3>1. allocs[i] = Scaled(a) /\ allocs[j] = Scaled(b)
      BY <1>1, <2>3
    <3> QED
      BY <1>1, <3>1, ScaledError
  <2> QED
    BY <2>1, <2>2, ChopRoundOrder
<1> QED
  BY <1>3, <1>4 DEF GnoSupply

-----------------------------------------------------------------------------
(* upgrade.                                                                *)

\* The binaries are those of the assets that the loop is done with.
Looked == {release.assets[i] : i \in 1..asset}
ReleaseInv ==
  /\ release \in Releases
  /\ asset \in 0..Len(release.assets)
  /\ checksums \in {release.sums, NoEntry}
  /\ proposing \in {"release", "checksums"} => asset = 0
  /\ DOMAIN binaries = {a.rest : a \in {b \in Looked : ~IsSkipped(b)}} \cap Platform
  /\ \A p \in DOMAIN binaries :
       /\ binaries[p].asset \in Looked /\ binaries[p].asset.rest = p
       /\ binaries[p].checksum = Sum(binaries[p].asset)
  /\ proposing \in {"summary", "plan", "printed"} => asset = Len(release.assets)

LEMMA ReleaseInitStep ==
  ASSUME ReleaseInit(Releases, Upgrades)
  PROVE  ReleaseInv
<1>1. release.assets \in Seq([stem : Stem, rest : STRING])
  BY ReleasesAssumption DEF ReleaseInit
<1>2. Looked = {} /\ DOMAIN binaries = {}
  BY DEF Looked, ReleaseInit, NoEntry
<1> QED
  BY <1>1, <1>2 DEF ReleaseInit, ReleaseInv

\* A step of the loop.
LEMMA ReleaseTake ==
  ASSUME ReleaseInv, TakeAsset
  PROVE  ReleaseInv'
<1> DEFINE a == release.assets[asset + 1]
<1>1. /\ release.assets \in Seq([stem : Stem, rest : STRING])
      /\ asset \in 0..Len(release.assets) /\ Len(release.assets) \in Nat
      /\ asset < Len(release.assets)
  <2>1. release.assets \in Seq([stem : Stem, rest : STRING])
    BY ReleasesAssumption DEF ReleaseInv
  <2> QED
    BY <2>1 DEF ReleaseInv, TakeAsset
<1>2. Looked' = Looked \cup {a}
  <2>1. Looked' = {release.assets[i] : i \in 1..(asset + 1)}
    BY DEF Looked, TakeAsset
  <2>2. 1..(asset + 1) = (1..asset) \cup {asset + 1}
    BY <1>1
  <2> QED
    BY <2>1, <2>2 DEF Looked
<1>3. \A b : Sum(b)' = Sum(b)
  BY DEF Sum, TakeAsset
<1>6. /\ release' = release /\ checksums' = checksums /\ release'.assets = release.assets
      /\ asset' \in 0..Len(release.assets) /\ proposing' = "binaries"
      /\ checksums \in {release.sums, NoEntry} /\ release \in Releases
  BY <1>1 DEF TakeAsset, ReleaseInv
<1> HIDE DEF a
<1>4. CASE IsSkipped(a) \/ a.rest \notin Platform
  <2>1. binaries' = binaries
    BY <1>4 DEF TakeAsset, a
  <2>2. DOMAIN binaries' = {b.rest : b \in {c \in Looked' : ~IsSkipped(c)}} \cap Platform
    BY <1>2, <1>4, <2>1 DEF ReleaseInv
  <2> QED
    BY <1>2, <1>3, <1>6, <2>1, <2>2 DEF ReleaseInv
<1>5. CASE ~IsSkipped(a) /\ a.rest \in Platform
  <2>1. binaries' = [p \in DOMAIN binaries \cup {a.rest} |->
                       IF p = a.rest THEN [asset |-> a, checksum |-> Sum(a)] ELSE binaries[p]]
    BY <1>5 DEF TakeAsset, a
  <2>2. DOMAIN binaries' = {b.rest : b \in {c \in Looked' : ~IsSkipped(c)}} \cap Platform
    BY <1>2, <1>5, <2>1 DEF ReleaseInv
  <2>3. ASSUME NEW p \in DOMAIN binaries'
        PROVE  /\ binaries'[p].asset \in Looked' /\ binaries'[p].asset.rest = p
               /\ binaries'[p].checksum = Sum(binaries'[p].asset)
    <3>1. CASE p = a.rest
      BY <1>2, <2>1, <3>1
    <3>2. CASE p # a.rest
      BY <1>2, <2>1, <3>2 DEF ReleaseInv
    <3> QED
      BY <3>1, <3>2
  <2> QED
    BY <1>3, <1>6, <2>2, <2>3 DEF ReleaseInv
<1> QED
  BY <1>4, <1>5

\* Every step keeps the invariant.
LEMMA ReleaseStep ==
  ASSUME ReleaseInv, ReleaseNext \/ UNCHANGED releaseVars
  PROVE  ReleaseInv'
<1>1. CASE ReadChecksums
  <2>1. Looked' = Looked /\ Looked = {}
    BY <1>1 DEF ReadChecksums, ReleaseInv, Looked
  <2>2. DOMAIN binaries = {} /\ binaries' = binaries
    BY <1>1, <2>1 DEF ReadChecksums, ReleaseInv
  <2> QED
    BY <1>1, <2>1, <2>2 DEF ReadChecksums, ReleaseInv
<1>2. ASSUME UNCHANGED <<release, asset, checksums, binaries>>,
             proposing' \in {"release", "checksums"} => asset = 0,
             proposing' \in {"summary", "plan", "printed"} => asset = Len(release.assets)
      PROVE  ReleaseInv'
  <2>1. Looked' = Looked /\ \A b : Sum(b)' = Sum(b)
    BY <1>2 DEF Looked, Sum
  <2> QED
    BY <1>2, <2>1 DEF ReleaseInv
<1>3. CASE FetchRelease
  BY <1>2, <1>3 DEF FetchRelease, ReleaseInv
<1>4. CASE ChecksumsFail
  BY <1>2, <1>4 DEF ChecksumsFail, ReleaseInv
<1>5. CASE TakeAssetPanics
  BY <1>2, <1>5 DEF TakeAssetPanics, ReleaseInv
<1>6. CASE EndAssets
  BY <1>2, <1>6 DEF EndAssets, ReleaseInv
<1>7. CASE ReadProposalSummary
  BY <1>2, <1>7 DEF ReadProposalSummary, ReleaseInv
<1>8. CASE PrintProposal
  BY <1>2, <1>8 DEF PrintProposal, ReleaseInv
<1>9. CASE UNCHANGED releaseVars
  BY <1>2, <1>9 DEF releaseVars, ReleaseInv
<1> QED
  BY <1>1, <1>3, <1>4, <1>5, <1>6, <1>7, <1>8, <1>9, ReleaseTake DEF ReleaseNext

LEMMA ReleaseVerified ==
  ASSUME ReleaseInv
  PROVE  BinariesVerified
<1> SUFFICES ASSUME proposing = "printed" PROVE BinariesVerified
  BY DEF BinariesVerified
<1>1. release.assets \in Seq([stem : Stem, rest : STRING])
  BY ReleasesAssumption DEF ReleaseInv
<1>2. Looked = ToSet(release.assets)
  <2>1. asset = Len(release.assets) /\ DOMAIN release.assets = 1..Len(release.assets)
    BY <1>1 DEF ReleaseInv
  <2> QED
    BY <2>1 DEF Looked, ToSet
<1>3. ASSUME NEW p \in DOMAIN binaries
      PROVE  LET a == binaries[p].asset
             IN  /\ a \in ToSet(release.assets) /\ a.rest = p
                 /\ binaries[p].checksum
                      \subseteq {release.sums[x] : x \in {a} \cap DOMAIN release.sums}
  <2> PICK a : a = binaries[p].asset
    OBVIOUS
  <2>1. a \in ToSet(release.assets) /\ a.rest = p /\ binaries[p].checksum = Sum(a)
    BY <1>2, <1>3 DEF ReleaseInv
  <2>2. checksums \in {release.sums, NoEntry} /\ DOMAIN NoEntry = {}
    BY DEF ReleaseInv, NoEntry
  <2>3. Sum(a) \subseteq {release.sums[x] : x \in {a} \cap DOMAIN release.sums}
    <3>1. CASE a \in DOMAIN checksums
      <4>1. checksums = release.sums
        BY <2>2, <3>1
      <4> QED
        BY <3>1, <4>1 DEF Sum
    <3>2. CASE a \notin DOMAIN checksums
      BY <3>2 DEF Sum
    <3> QED
      BY <3>1, <3>2
  <2> QED
    BY <2>1, <2>3
<1>4. ASSUME IsRegular, checksums # NoEntry
      PROVE  /\ DOMAIN binaries = {a.rest : a \in ToSet(release.assets)} \cap Platform
             /\ \A p \in DOMAIN binaries : binaries[p].checksum # {}
  <2>1. \A a \in Looked : ~IsSkipped(a)
    BY <1>2, <1>4 DEF IsRegular, ToSet, IsSkipped
  <2>2. DOMAIN checksums = Looked
    BY <1>2, <1>4 DEF ReleaseInv, IsRegular
  <2> QED
    BY <1>2, <2>1, <2>2 DEF ReleaseInv, Sum
<1> QED
  BY <1>3, <1>4 DEF BinariesVerified

-----------------------------------------------------------------------------
(* signTx.                                                                 *)

Objects == DOMAIN tx.type
Kinds == {"@type", "object", "array"}

\* The fields that the calls of the walk w still have to visit.
Pending(w) == UNION {w[k] : k \in 1..Len(w)}

\* The objects of V have been called for, with the first messages, and what they
\* hold is found, called for, or still to visit.
Covers(V) ==
  /\ V \subseteq Objects
  /\ \A i \in 1..msg : tx.messages[i] \in V
  /\ \A o \in V :
       /\ tx.type[o] \in ToSet(types) \cup Registered \cup {Untyped}
            \/ <<"@type", o>> \in Pending(walk)
       /\ \A c \in tx.objects[o] : c \in V \/ <<"object", c>> \in Pending(walk)

SignInv ==
  /\ tx \in Transactions
  /\ msg \in 0..Len(tx.messages)
  /\ walk \in Seq(SUBSET (Kinds \X Objects))
  /\ \A f \in Pending(walk) : \E o \in Reached : f \in Fields(o)
  /\ types \in Seq({tx.type[o] : o \in Reached} \ (Registered \cup {Untyped}))
  /\ IsInjective(types)
  /\ \E V : Covers(V)
  /\ signing = "printed" => walk = <<>> /\ msg = Len(tx.messages)

LEMMA TxType ==
  ASSUME tx \in Transactions
  PROVE  /\ tx.messages \in Seq(Objects)
         /\ tx.objects \in [Objects -> SUBSET Objects]
         /\ \A o \in Objects : Fields(o) \subseteq Kinds \X Objects
<1>1. /\ tx.messages \in Seq(Objects)
      /\ tx.objects \in [Objects -> SUBSET Objects]
      /\ tx.arrays \in [Objects -> SUBSET Objects]
  BY TransactionsAssumption DEF Objects
<1> QED
  BY <1>1 DEF Fields, Kinds

\* What is reached is closed, and in every set that is.
LEMMA ReachedClosed ==
  ASSUME tx \in Transactions
  PROVE  /\ Reached \subseteq Objects
         /\ \A i \in 1..Len(tx.messages) : tx.messages[i] \in Reached
         /\ \A o \in Reached : tx.objects[o] \subseteq Reached
         /\ \A V \in SUBSET Objects : Closed(V) => Reached \subseteq V
<1>1. Reached \subseteq Objects /\ \A V \in SUBSET Objects : Closed(V) => Reached \subseteq V
  BY DEF Reached, Objects
<1>2. ASSUME NEW i \in 1..Len(tx.messages)
      PROVE  tx.messages[i] \in Reached
  <2>1. tx.messages[i] \in Objects /\ tx.messages[i] \in ToSet(tx.messages)
    BY TxType DEF ToSet
  <2> QED
    BY <2>1 DEF Reached, Closed, Objects
<1>3. ASSUME NEW o \in Reached, NEW c \in tx.objects[o]
      PROVE  c \in Reached
  <2>1. c \in Objects
    BY <1>1, TxType
  <2> QED
    BY <2>1 DEF Reached, Closed, Objects
<1> QED
  BY <1>1, <1>2, <1>3

\* A field is taken from the innermost call.
LEMMA PendingRest ==
  ASSUME NEW F, walk \in Seq(SUBSET F), NEW kind, NEW o, Visit(kind, o)
  PROVE  /\ Rest(kind, o) \in Seq(SUBSET F)
         /\ <<kind, o>> \in Pending(walk)
         /\ Pending(Rest(kind, o)) \subseteq Pending(walk)
         /\ Pending(walk) \subseteq Pending(Rest(kind, o)) \cup {<<kind, o>>}
<1> DEFINE n == Len(walk)
           w == Rest(kind, o)
<1>1. n \in Nat \ {0} /\ <<kind, o>> \in walk[n] /\ n \in 1..n
  BY DEF Visit, Last
<1>2. w \in Seq(SUBSET F) /\ Len(w) = n
  <2>1. walk[n] \ {<<kind, o>>} \in SUBSET F
    BY <1>1
  <2> QED
    BY <1>1, <2>1 DEF Rest
<1>3. \A k \in 1..n : w[k] = IF k = n THEN walk[k] \ {<<kind, o>>} ELSE walk[k]
  <2>1. DOMAIN walk = 1..n
    OBVIOUS
  <2>2. w = [k \in 1..n |-> IF k = n THEN walk[n] \ {<<kind, o>>} ELSE walk[k]]
    BY <2>1, Zenon DEF Rest
  <2> HIDE DEF w
  <2> QED
    BY <2>2
<1> HIDE DEF w
<1> QED
  BY <1>1, <1>2, <1>3 DEF Pending, w

\* A call is added, or returns.
LEMMA PendingAppend ==
  ASSUME NEW F, NEW w \in Seq(SUBSET F), NEW s \in SUBSET F
  PROVE  /\ Append(w, s) \in Seq(SUBSET F)
         /\ Pending(Append(w, s)) = Pending(w) \cup s
<1>1. Append(w, s) \in Seq(SUBSET F) /\ Len(Append(w, s)) = Len(w) + 1 /\ Len(w) \in Nat
  OBVIOUS
<1>2. /\ \A k \in 1..Len(w) : Append(w, s)[k] = w[k]
      /\ Append(w, s)[Len(w) + 1] = s
  OBVIOUS
<1>3. 1..(Len(w) + 1) = (1..Len(w)) \cup {Len(w) + 1}
  BY <1>1
<1> QED
  BY <1>1, <1>2, <1>3 DEF Pending

LEMMA PendingFront ==
  ASSUME NEW F, NEW w \in Seq(SUBSET F), w # <<>>, Last(w) = {}
  PROVE  Front(w) \in Seq(SUBSET F) /\ Pending(Front(w)) = Pending(w)
<1>1. Len(w) \in Nat \ {0} /\ w[Len(w)] = {}
  BY DEF Last
<1>2. /\ Front(w) \in Seq(SUBSET F) /\ Len(Front(w)) = Len(w) - 1
      /\ \A k \in 1..(Len(w) - 1) : Front(w)[k] = w[k]
  <2> PICK n \in Nat : n = Len(w) - 1
    BY <1>1
  <2>1. \A k \in 1..n : w[k] \in SUBSET F
    BY <1>1
  <2>2. /\ SubSeq(w, 1, n) \in Seq(SUBSET F)
        /\ Len(SubSeq(w, 1, n)) = IF 1 <= n THEN n - 1 + 1 ELSE 0
        /\ \A k \in 1..(n - 1 + 1) : SubSeq(w, 1, n)[k] = w[1 + k - 1]
    <3>1. 1 \in Int /\ n \in Int
      OBVIOUS
    <3> QED
      BY <2>1, <3>1, SubSeqProperties
  <2>3. Front(w) = SubSeq(w, 1, n)
    BY DEF Front
  <2>4. n - 1 + 1 = n /\ \A k \in 1..n : 1 + k - 1 = k
    OBVIOUS
  <2> QED
    BY <2>2, <2>3, <2>4
<1>3. 1..Len(w) = (1..(Len(w) - 1)) \cup {Len(w)}
  BY <1>1
<1> HIDE DEF Front
<1> QED
  BY <1>1, <1>2, <1>3 DEF Pending

LEMMA SignInitStep ==
  ASSUME SignInit(Transactions)
  PROVE  SignInv
<1>1. Len(tx.messages) \in Nat
  BY TxType DEF SignInit
<1>2. Pending(walk) = {} /\ walk \in Seq(SUBSET (Kinds \X Objects))
  BY DEF SignInit, Pending
<1>3. types \in Seq({tx.type[o] : o \in Reached} \ (Registered \cup {Untyped}))
      /\ IsInjective(types)
  BY DEF SignInit, IsInjective
<1>4. Covers({})
  BY DEF Covers, SignInit
<1> QED
  BY <1>1, <1>2, <1>3, <1>4 DEF SignInv, SignInit

\* The types found are still those of the objects that are reached.
LEMMA SameTx ==
  ASSUME tx' = tx
  PROVE  Reached' = Reached /\ Objects' = Objects /\ \A o : Fields(o)' = Fields(o)
BY DEF Reached, Closed, Objects, Fields

LEMMA SignMessage ==
  ASSUME SignInv, NextMessage
  PROVE  SignInv'
<1> PICK m : m = tx.messages[msg + 1]
  OBVIOUS
<1>1. tx \in Transactions /\ msg \in Nat /\ msg + 1 \in 1..Len(tx.messages)
  BY DEF SignInv, NextMessage, TxType
<1>2. m \in Reached /\ m \in Objects /\ Fields(m) \in SUBSET (Kinds \X Objects)
  BY <1>1, ReachedClosed, TxType
<1>3. Pending(walk) = {}
  BY DEF NextMessage, Pending
<1>4. walk' = <<Fields(m)>> /\ Pending(walk') = Fields(m)
      /\ walk' \in Seq(SUBSET (Kinds \X Objects))
  <2>1. walk' = <<Fields(m)>>
    BY DEF NextMessage
  <2>2. 1..Len(<<Fields(m)>>) = {1} /\ <<Fields(m)>>[1] = Fields(m)
    OBVIOUS
  <2> QED
    BY <1>2, <2>1, <2>2 DEF Pending
<1> PICK V : Covers(V)
  BY DEF SignInv
<1>5. Covers(V \cup {m})'
  <2>1. /\ tx' = tx /\ types' = types /\ msg' = msg + 1 /\ Objects' = Objects
        /\ tx'.type = tx.type /\ tx'.objects = tx.objects /\ tx'.messages = tx.messages
    BY SameTx DEF NextMessage
  <2>2. V \cup {m} \subseteq Objects
    BY <1>2 DEF Covers
  <2>3. \A i \in 1..(msg + 1) : tx.messages[i] \in V \cup {m}
    <3>1. \A i \in 1..(msg + 1) : i \in 1..msg \/ i = msg + 1
      BY <1>1
    <3> QED
      BY <3>1 DEF Covers
  <2>4. ASSUME NEW o \in V \cup {m}
        PROVE  /\ tx.type[o] \in ToSet(types) \cup Registered \cup {Untyped}
                    \/ <<"@type", o>> \in Fields(m)
               /\ \A c \in tx.objects[o] : c \in V \cup {m} \/ <<"object", c>> \in Fields(m)
    <3>1. CASE o = m
      BY <3>1 DEF Fields
    <3>2. CASE o \in V
      BY <1>3, <3>2 DEF Covers
    <3> QED
      BY <3>1, <3>2
  <2>5. Pending(walk)' = Fields(m) /\ ToSet(types)' = ToSet(types)
    BY <1>4, <2>1 DEF ToSet
  <2> SUFFICES /\ V \cup {m} \subseteq Objects'
               /\ \A i \in 1..msg' : tx'.messages[i] \in V \cup {m}
               /\ \A o \in V \cup {m} :
                    /\ tx'.type[o] \in ToSet(types)' \cup Registered \cup {Untyped}
                         \/ <<"@type", o>> \in Pending(walk)'
                    /\ \A c \in tx'.objects[o] :
                         c \in V \cup {m} \/ <<"object", c>> \in Pending(walk)'
    BY DEF Covers
  <2> QED
    BY <2>1, <2>2, <2>3, <2>4, <2>5
<1>6. /\ signing' = "walking" /\ tx' = tx /\ types' = types /\ msg' = msg + 1
      /\ tx'.type = tx.type /\ Objects' = Objects /\ Reached' = Reached
      /\ \A o : Fields(o)' = Fields(o)
  BY SameTx DEF NextMessage
<1>7. \A f \in Pending(walk') : \E o \in Reached : f \in Fields(o)
  BY <1>2, <1>4
<1>8. /\ types \in Seq({tx.type[o] : o \in Reached} \ (Registered \cup {Untyped}))
      /\ IsInjective(types)
  BY DEF SignInv
<1> QED
  <2>1. msg' \in 0..Len(tx'.messages)
    BY <1>1, <1>6
  <2> QED
    BY <1>1, <1>4, <1>5, <1>6, <1>7, <1>8, <2>1 DEF SignInv

\* What a step has to show: what is left to visit and found is of objects that are
\* reached, and some V covers it.
LEMMA SignGoes ==
  ASSUME SignInv, tx' = tx, msg' = msg, signing' = "walking",
         NEW V, V \subseteq Objects, \A i \in 1..msg : tx.messages[i] \in V,
         walk' \in Seq(SUBSET (Kinds \X Objects)),
         \A f \in Pending(walk') : \E o \in Reached : f \in Fields(o),
         types' \in Seq({tx.type[o] : o \in Reached} \ (Registered \cup {Untyped})),
         IsInjective(types'),
         \A o \in V :
           /\ tx.type[o] \in ToSet(types') \cup Registered \cup {Untyped}
                \/ <<"@type", o>> \in Pending(walk')
           /\ \A c \in tx.objects[o] : c \in V \/ <<"object", c>> \in Pending(walk')
  PROVE  SignInv'
<1>1. /\ Objects' = Objects /\ Reached' = Reached /\ \A o : Fields(o)' = Fields(o)
      /\ tx'.type = tx.type /\ tx'.objects = tx.objects /\ tx'.messages = tx.messages
  BY SameTx
<1>2. Pending(walk)' = Pending(walk') /\ ToSet(types)' = ToSet(types')
  BY DEF ToSet
<1>3. Covers(V)'
  <2> SUFFICES /\ V \subseteq Objects'
               /\ \A i \in 1..msg' : tx'.messages[i] \in V
               /\ \A o \in V :
                    /\ tx'.type[o] \in ToSet(types)' \cup Registered \cup {Untyped}
                         \/ <<"@type", o>> \in Pending(walk)'
                    /\ \A c \in tx'.objects[o] : c \in V \/ <<"object", c>> \in Pending(walk)'
    BY DEF Covers
  <2> QED
    BY <1>1, <1>2
<1>4. tx \in Transactions /\ msg \in 0..Len(tx.messages)
  BY DEF SignInv
<1> HIDE DEF Covers
<1> QED
  BY <1>1, <1>3, <1>4 DEF SignInv

LEMMA AppendNew ==
  ASSUME NEW S, NEW s \in Seq(S), IsInjective(s), NEW x \in S, x \notin ToSet(s)
  PROVE  /\ Append(s, x) \in Seq(S) /\ IsInjective(Append(s, x))
         /\ ToSet(Append(s, x)) = ToSet(s) \cup {x}
<1>1. /\ Append(s, x) \in Seq(S) /\ Len(Append(s, x)) = Len(s) + 1 /\ Len(s) \in Nat
      /\ DOMAIN s = 1..Len(s) /\ DOMAIN Append(s, x) = 1..(Len(s) + 1)
  OBVIOUS
<1>2. /\ \A k \in 1..Len(s) : Append(s, x)[k] = s[k]
      /\ Append(s, x)[Len(s) + 1] = x
  OBVIOUS
<1>3. 1..(Len(s) + 1) = (1..Len(s)) \cup {Len(s) + 1}
  BY <1>1
<1>4. \A k \in 1..Len(s) : s[k] \in ToSet(s)
  BY <1>1 DEF ToSet
<1> PICK t : t = Append(s, x)
  OBVIOUS
<1>5. IsInjective(t)
  BY <1>1, <1>2, <1>3, <1>4 DEF IsInjective
<1>6. ToSet(t) = ToSet(s) \cup {x}
  BY <1>1, <1>2, <1>3 DEF ToSet
<1> QED
  BY <1>1, <1>5, <1>6

LEMMA SignType ==
  ASSUME SignInv, NEW o, VisitType(o)
  PROVE  SignInv'
<1> DEFINE S == {tx.type[r] : r \in Reached} \ (Registered \cup {Untyped})
<1>1. Visit("@type", o) /\ walk \in Seq(SUBSET (Kinds \X Objects))
      /\ walk' = Rest("@type", o) /\ tx' = tx /\ msg' = msg /\ signing' = "walking"
  BY DEF VisitType, SignInv, Visit
<1>2. /\ walk' \in Seq(SUBSET (Kinds \X Objects))
      /\ <<"@type", o>> \in Pending(walk)
      /\ Pending(walk') \subseteq Pending(walk)
      /\ Pending(walk) \subseteq Pending(walk') \cup {<<"@type", o>>}
  BY <1>1, PendingRest
<1>3. o \in Reached /\ tx.type[o] # Untyped
  <2>1. PICK r \in Reached : <<"@type", o>> \in Fields(r)
    BY <1>2 DEF SignInv
  <2> QED
    BY <2>1 DEF Fields
<1>4. /\ types' \in Seq(S) /\ IsInjective(types')
      /\ ToSet(types) \subseteq ToSet(types')
      /\ tx.type[o] \in ToSet(types') \cup Registered
  <2>1. types \in Seq(S) /\ IsInjective(types)
    BY DEF SignInv
  <2>2. CASE tx.type[o] \in Registered \cup ToSet(types)
    BY <2>1, <2>2 DEF VisitType
  <2>3. CASE tx.type[o] \notin Registered \cup ToSet(types)
    <3>1. types' = Append(types, tx.type[o])
      BY <2>3 DEF VisitType
    <3>2. tx.type[o] \in S /\ tx.type[o] \notin ToSet(types)
      BY <1>3, <2>3
    <3> HIDE DEF S
    <3> QED
      BY <2>1, <3>1, <3>2, AppendNew
  <2> QED
    BY <2>2, <2>3
<1> PICK V : Covers(V)
  BY DEF SignInv
<1>5. /\ V \subseteq Objects /\ \A i \in 1..msg : tx.messages[i] \in V
      /\ \A r \in V : \A c \in tx.objects[r] : c \in V \/ <<"object", c>> \in Pending(walk')
  BY <1>2 DEF Covers
<1>6. \A r \in V : tx.type[r] \in ToSet(types') \cup Registered \cup {Untyped}
                     \/ <<"@type", r>> \in Pending(walk')
  BY <1>2, <1>4 DEF Covers
<1>7. \A f \in Pending(walk') : \E r \in Reached : f \in Fields(r)
  BY <1>2 DEF SignInv
<1> QED
  BY <1>1, <1>2, <1>4, <1>5, <1>6, <1>7, SignGoes

LEMMA SignObject ==
  ASSUME SignInv, NEW o, VisitObject(o)
  PROVE  SignInv'
<1> DEFINE F == Kinds \X Objects
<1>1. /\ Visit("object", o) /\ walk \in Seq(SUBSET F) /\ tx \in Transactions
      /\ walk' = Append(Rest("object", o), Fields(o)) /\ types' = types
      /\ tx' = tx /\ msg' = msg /\ signing' = "walking"
  BY DEF VisitObject, SignInv, Visit
<1>2. /\ Rest("object", o) \in Seq(SUBSET F)
      /\ <<"object", o>> \in Pending(walk)
      /\ Pending(Rest("object", o)) \subseteq Pending(walk)
      /\ Pending(walk) \subseteq Pending(Rest("object", o)) \cup {<<"object", o>>}
  BY <1>1, PendingRest
<1>3. o \in Reached /\ o \in Objects /\ Fields(o) \in SUBSET F
  <2>1. PICK r \in Reached : <<"object", o>> \in Fields(r)
    BY <1>2 DEF SignInv
  <2>2. o \in tx.objects[r]
    BY <2>1 DEF Fields
  <2> QED
    BY <1>1, <2>2, ReachedClosed, TxType
<1> HIDE DEF F
<1>4. /\ walk' \in Seq(SUBSET F)
      /\ Pending(walk') = Pending(Rest("object", o)) \cup Fields(o)
  <2> PICK w \in Seq(SUBSET F), s \in SUBSET F : w = Rest("object", o) /\ s = Fields(o)
    BY <1>2, <1>3
  <2>1. Append(w, s) \in Seq(SUBSET F) /\ Pending(Append(w, s)) = Pending(w) \cup s
    BY PendingAppend
  <2> QED
    BY <1>1, <2>1
<1> PICK V : Covers(V)
  BY DEF SignInv
<1>5. V \cup {o} \subseteq Objects /\ \A i \in 1..msg : tx.messages[i] \in V \cup {o}
  BY <1>3 DEF Covers
<1>6. ASSUME NEW r \in V \cup {o}
      PROVE  /\ tx.type[r] \in ToSet(types') \cup Registered \cup {Untyped}
                  \/ <<"@type", r>> \in Pending(walk')
             /\ \A c \in tx.objects[r] : c \in V \cup {o} \/ <<"object", c>> \in Pending(walk')
  <2>1. CASE r = o
    <3>1. tx.type[o] = Untyped \/ <<"@type", o>> \in Fields(o)
      BY DEF Fields
    <3>2. \A c \in tx.objects[o] : <<"object", c>> \in Fields(o)
      BY DEF Fields
    <3> QED
      BY <1>4, <2>1, <3>1, <3>2
  <2>2. CASE r \in V
    BY <1>1, <1>2, <1>4, <2>2 DEF Covers
  <2> QED
    BY <2>1, <2>2
<1>7. \A f \in Pending(walk') : \E r \in Reached : f \in Fields(r)
  BY <1>2, <1>3, <1>4 DEF SignInv
<1>8. /\ types' \in Seq({tx.type[r] : r \in Reached} \ (Registered \cup {Untyped}))
      /\ IsInjective(types')
  BY <1>1 DEF SignInv
<1>9. walk' \in Seq(SUBSET (Kinds \X Objects))
  BY <1>4 DEF F
<1> PICK U : U = V \cup {o}
  OBVIOUS
<1> QED
  BY <1>1, <1>5, <1>6, <1>7, <1>8, <1>9, SignGoes

\* Of an array, or a call that returns, nothing is left that counts.
LEMMA SignQuiet ==
  ASSUME SignInv, (\E o : VisitArray(o)) \/ Return
  PROVE  SignInv'
<1>1. /\ tx' = tx /\ msg' = msg /\ signing' = "walking" /\ types' = types
      /\ walk \in Seq(SUBSET (Kinds \X Objects))
  BY DEF VisitArray, Return, SignInv, Visit
<1>2. /\ walk' \in Seq(SUBSET (Kinds \X Objects))
      /\ Pending(walk') \subseteq Pending(walk)
      /\ \A f \in Pending(walk) : f[1] # "array" => f \in Pending(walk')
  <2>1. CASE \E o : VisitArray(o)
    <3>1. PICK o : VisitArray(o)
      BY <2>1
    <3>2. Visit("array", o) /\ walk' = Rest("array", o)
      BY <3>1 DEF VisitArray
    <3>3. /\ walk' \in Seq(SUBSET (Kinds \X Objects))
          /\ Pending(walk') \subseteq Pending(walk)
          /\ Pending(walk) \subseteq Pending(walk') \cup {<<"array", o>>}
      BY <1>1, <3>2, PendingRest
    <3> QED
      BY <3>3
  <2>2. CASE Return
    <3>1. walk # <<>> /\ Last(walk) = {} /\ walk' = Front(walk)
      BY <2>2 DEF Return
    <3> HIDE DEF Front, Last
    <3> QED
      BY <1>1, <3>1, PendingFront
  <2> QED
    BY <2>1, <2>2
<1> PICK V : Covers(V)
  BY DEF SignInv
<1>3. /\ V \subseteq Objects /\ \A i \in 1..msg : tx.messages[i] \in V
      /\ \A r \in V :
           /\ tx.type[r] \in ToSet(types) \cup Registered \cup {Untyped}
                \/ <<"@type", r>> \in Pending(walk)
           /\ \A c \in tx.objects[r] : c \in V \/ <<"object", c>> \in Pending(walk)
  BY DEF Covers
<1>4. \A r : /\ <<"@type", r>> \in Pending(walk) => <<"@type", r>> \in Pending(walk')
             /\ <<"object", r>> \in Pending(walk) => <<"object", r>> \in Pending(walk')
  BY <1>2
<1>5. \A r \in V :
        /\ tx.type[r] \in ToSet(types') \cup Registered \cup {Untyped}
             \/ <<"@type", r>> \in Pending(walk')
        /\ \A c \in tx.objects[r] : c \in V \/ <<"object", c>> \in Pending(walk')
  BY <1>1, <1>3, <1>4
<1>6. \A f \in Pending(walk') : \E r \in Reached : f \in Fields(r)
  BY <1>2 DEF SignInv
<1>7. /\ types' \in Seq({tx.type[r] : r \in Reached} \ (Registered \cup {Untyped}))
      /\ IsInjective(types')
  BY <1>1 DEF SignInv
<1> QED
  BY <1>1, <1>2, <1>3, <1>5, <1>6, <1>7, SignGoes

\* Every step keeps the invariant.
LEMMA SignStep ==
  ASSUME SignInv, SignNext \/ UNCHANGED signVars
  PROVE  SignInv'
<1>1. ASSUME UNCHANGED <<tx, msg, walk, types>>,
             signing' = "printed" => walk = <<>> /\ msg = Len(tx.messages)
      PROVE  SignInv'
  <2>1. /\ Objects' = Objects /\ Reached' = Reached /\ \A o : Fields(o)' = Fields(o)
    BY <1>1, SameTx
  <2>2. \A V : Covers(V) => Covers(V)'
    BY <1>1, <2>1 DEF Covers
  <2> QED
    BY <1>1, <2>1, <2>2 DEF SignInv
<1>2. CASE \E o \in DOMAIN tx.type : TypePanics(o)
  BY <1>1, <1>2 DEF TypePanics
<1>3. CASE PrintTypes
  BY <1>1, <1>3 DEF PrintTypes
<1>4. CASE UNCHANGED signVars
  BY <1>1, <1>4 DEF signVars, SignInv
<1> QED
  BY <1>2, <1>3, <1>4, SignMessage, SignType, SignObject, SignQuiet DEF SignNext

LEMMA SignFound ==
  ASSUME SignInv
  PROVE  TypesFound
<1>1. tx \in Transactions /\ types \in Seq({tx.type[o] : o \in Reached} \ (Registered \cup {Untyped}))
      /\ IsInjective(types)
  BY DEF SignInv
<1>2. ToSet(types) \subseteq {tx.type[o] : o \in Reached} \ (Registered \cup {Untyped})
  BY <1>1 DEF ToSet
<1>3. ASSUME signing = "printed", NEW o \in Reached, tx.type[o] \notin Registered \cup {Untyped}
      PROVE  tx.type[o] \in ToSet(types)
  <2>1. Pending(walk) = {}
    BY <1>3 DEF SignInv, Pending
  <2>2. msg = Len(tx.messages) /\ DOMAIN tx.messages = 1..Len(tx.messages)
    BY <1>1, <1>3, TxType DEF SignInv
  <2> PICK V : Covers(V)
    BY DEF SignInv
  <2>3. V \in SUBSET Objects /\ Closed(V)
    BY <2>1, <2>2 DEF Covers, Closed, ToSet
  <2>4. o \in V
    BY <1>1, <2>3, ReachedClosed
  <2> QED
    BY <1>3, <2>1, <2>4 DEF Covers
<1> QED
  BY <1>1, <1>2, <1>3 DEF TypesFound

-----------------------------------------------------------------------------
(* gasmonitor's price.                                                     *)

\* A State, cut after each of its fields.
IndexOn(s) == Unless(0, s.index, <<8 * 4 + Varint>> \o EncodeVarint(s.index))
WindowOn(s) == Unless(<<>>, s.window, EncodeBytes(3, s.window)) \o IndexOn(s)
RateOn(s) == Unless(<<>>, s.rate, EncodeBytes(2, s.rate)) \o WindowOn(s)

IsState(s) ==
  /\ s.price \in Seq(Nat) /\ s.rate \in Seq(Nat) /\ s.window \in Seq(Nat)
  /\ s.index \in Nat /\ s.index < 128 * 128

LEMMA VarintBytes ==
  ASSUME NEW n \in Nat
  PROVE  /\ EncodeVarint(n) \in Seq(Nat)
         /\ n < 128 => EncodeVarint(n) = <<n>>
         /\ n >= 128 => /\ Len(EncodeVarint(n)) = 2
                        /\ EncodeVarint(n)[1] = (n % 128) + 128
                        /\ EncodeVarint(n)[2] = n \div 128
BY DEF EncodeVarint

\* s is a, of length n, followed by b.
Joined(s, a, n, b) ==
  /\ s \in Seq(Nat) /\ Len(s) = n + Len(b)
  /\ \A i \in 1..n : s[i] = a[i]
  /\ \A i \in 1..Len(b) : s[n + i] = b[i]

LEMMA Parts ==
  ASSUME NEW a \in Seq(Nat), NEW b \in Seq(Nat), NEW n, n = Len(a)
  PROVE  Joined(a \o b, a, n, b)
BY DEF Joined

\* A field is its tag, its length and its bytes, and is followed by t.
IsFieldOf(s, field, b, t) ==
  /\ s \in Seq(Nat) /\ Len(s) >= 2 + Len(b) + Len(t)
  /\ s[1] = 8 * field + 2
  /\ Len(b) >= 128 => s[2] = (Len(b) % 128) + 128 /\ s[3] = Len(b) \div 128
  /\ Len(b) < 128 =>
       /\ Len(s) = 2 + Len(b) + Len(t) /\ s[2] = Len(b)
       /\ \A i \in 1..Len(b) : s[2 + i] = b[i]
       /\ \A i \in 1..Len(t) : s[(2 + Len(b)) + i] = t[i]

LEMMA FieldBytes ==
  ASSUME NEW field \in Nat, NEW b \in Seq(Nat), NEW t \in Seq(Nat)
  PROVE  IsFieldOf(EncodeBytes(field, b) \o t, field, b, t)
<1>n. PICK n \in Nat, k \in Nat : n = Len(b) /\ k = Len(t)
  OBVIOUS
<1>v. PICK v, c : v = EncodeVarint(n) /\ c = <<8 * field + 2>>
  OBVIOUS
<1>1. v \in Seq(Nat) /\ c \in Seq(Nat) /\ Len(c) = 1 /\ c[1] = 8 * field + 2
  BY <1>v, VarintBytes
<1>d. PICK d : d = c \o v
  OBVIOUS
<1>e. PICK e : e = d \o b
  OBVIOUS
<1>s. PICK s : s = e \o t
  OBVIOUS
<1>2. EncodeBytes(field, b) \o t = s
  BY <1>n, <1>v, <1>d, <1>e, <1>s DEF EncodeBytes, LengthDelimited
<1>3. Joined(d, c, 1, v)
  BY <1>1, <1>d, Parts
<1>4. d \in Seq(Nat) /\ d[1] = 8 * field + 2
  BY <1>1, <1>3 DEF Joined
<1>5. CASE n < 128
  <2>1. v = <<n>>
    BY <1>v, <1>5, VarintBytes
  <2>2. Len(v) = 1 /\ v[1] = n
    BY <2>1
  <2>3. Len(d) = 2 /\ d[2] = n
    <3>1. d[1 + 1] = v[1]
      BY <1>3, <2>2 DEF Joined
    <3> QED
      BY <1>3, <2>2, <3>1 DEF Joined
  <2>4. Joined(e, d, 2, b)
    BY <1>4, <1>e, <2>3, Parts
  <2>5. PICK h \in Nat : h = 2 + n
    OBVIOUS
  <2>6. e \in Seq(Nat) /\ Len(e) = h
    BY <1>n, <2>4, <2>5 DEF Joined
  <2>7. Joined(s, e, h, t)
    BY <1>s, <2>6, Parts
  <2>8. \A i \in 1..n : e[2 + i] = b[i] /\ 2 + i \in 1..h
    BY <1>n, <2>4, <2>5 DEF Joined
  <2>9. s[1] = 8 * field + 2 /\ s[2] = n
    <3>1. 1 \in 1..h /\ 2 \in 1..h /\ 1 \in 1..2 /\ 2 \in 1..2
      BY <2>5
    <3> QED
      BY <1>4, <2>3, <2>4, <2>7, <3>1 DEF Joined
  <2>10. \A i \in 1..n : s[2 + i] = b[i]
    BY <2>7, <2>8 DEF Joined
  <2>11. Len(s) = h + k /\ s \in Seq(Nat) /\ \A i \in 1..k : s[h + i] = t[i]
    BY <1>n, <2>7 DEF Joined
  <2>12. IsFieldOf(s, field, b, t)
    BY <1>n, <1>5, <2>5, <2>9, <2>10, <2>11 DEF IsFieldOf
  <2> QED
    BY <1>2, <2>12
<1>6. CASE n >= 128
  <2>1. Len(v) = 2 /\ v[1] = (n % 128) + 128 /\ v[2] = n \div 128
    BY <1>v, <1>6, VarintBytes
  <2>2. Len(d) = 3 /\ d[2] = v[1] /\ d[3] = v[2]
    <3>1. d[1 + 1] = v[1] /\ d[1 + 2] = v[2]
      BY <1>3, <2>1 DEF Joined
    <3> QED
      BY <1>3, <2>1, <3>1 DEF Joined
  <2>3. Joined(e, d, 3, b)
    BY <1>4, <1>e, <2>2, Parts
  <2>4. PICK h \in Nat : h = 3 + n
    OBVIOUS
  <2>5. e \in Seq(Nat) /\ Len(e) = h
    BY <1>n, <2>3, <2>4 DEF Joined
  <2>6. Joined(s, e, h, t)
    BY <1>s, <2>5, Parts
  <2>7. s[1] = d[1] /\ s[2] = d[2] /\ s[3] = d[3]
    <3>1. /\ 1 \in 1..h /\ 2 \in 1..h /\ 3 \in 1..h
          /\ 1 \in 1..3 /\ 2 \in 1..3 /\ 3 \in 1..3
      BY <2>4
    <3> QED
      BY <2>3, <2>6, <3>1 DEF Joined
  <2>8. Len(s) = h + k /\ s \in Seq(Nat)
    BY <1>n, <2>6 DEF Joined
  <2>9. IsFieldOf(s, field, b, t)
    BY <1>n, <1>4, <1>6, <2>1, <2>2, <2>4, <2>7, <2>8 DEF IsFieldOf
  <2> QED
    BY <1>2, <2>9
<1> QED
  BY <1>5, <1>6

LEMMA SameSequence ==
  ASSUME NEW a \in Seq(Nat), NEW b \in Seq(Nat), Len(a) = Len(b),
         \A i \in 1..Len(b) : a[i] = b[i]
  PROVE  a = b
OBVIOUS

LEMMA Associative ==
  ASSUME NEW a \in Seq(Nat), NEW b \in Seq(Nat), NEW c \in Seq(Nat)
  PROVE  (a \o b) \o c = a \o (b \o c)
BY ConcatAssociative

\* The parts of a State that may follow one another.
LEMMA TailBytes ==
  ASSUME NEW s, IsState(s)
  PROVE  /\ IndexOn(s) \in Seq(Nat) /\ WindowOn(s) \in Seq(Nat) /\ RateOn(s) \in Seq(Nat)
         /\ s.index = 0 => IndexOn(s) = <<>>
         /\ s.index # 0 => IndexOn(s) = <<8 * 4 + Varint>> \o EncodeVarint(s.index)
         /\ s.window = <<>> => WindowOn(s) = IndexOn(s)
         /\ s.window # <<>> => IsFieldOf(WindowOn(s), 3, s.window, IndexOn(s))
         /\ s.rate = <<>> => RateOn(s) = WindowOn(s)
         /\ s.rate # <<>> => IsFieldOf(RateOn(s), 2, s.rate, WindowOn(s))
<1>1. s.index = 0 => IndexOn(s) = <<>>
  BY DEF IndexOn, Unless
<1>2. /\ IndexOn(s) \in Seq(Nat)
      /\ s.index # 0 => IndexOn(s) = <<8 * 4 + Varint>> \o EncodeVarint(s.index)
  <2>1. s.index \in Nat
    BY DEF IsState
  <2>2. EncodeVarint(s.index) \in Seq(Nat)
    BY <2>1, VarintBytes
  <2>3. <<>> \in Seq(Nat) /\ <<8 * 4 + Varint>> \o EncodeVarint(s.index) \in Seq(Nat)
    BY <2>2 DEF Varint
  <2> QED
    BY <2>3 DEF IndexOn, Unless
<1>3. ASSUME NEW b \in Seq(Nat), NEW field \in Nat, NEW t \in Seq(Nat)
      PROVE  /\ b = <<>> => Unless(<<>>, b, EncodeBytes(field, b)) \o t = t
             /\ b # <<>> => IsFieldOf(Unless(<<>>, b, EncodeBytes(field, b)) \o t, field, b, t)
             /\ Unless(<<>>, b, EncodeBytes(field, b)) \o t \in Seq(Nat)
  <2>1. IsFieldOf(EncodeBytes(field, b) \o t, field, b, t)
    BY FieldBytes
  <2>2. <<>> \o t = t
    OBVIOUS
  <2>3. EncodeBytes(field, b) \o t \in Seq(Nat)
    BY <2>1 DEF IsFieldOf
  <2> QED
    BY <2>1, <2>2, <2>3 DEF Unless
<1>4. /\ WindowOn(s) \in Seq(Nat)
      /\ s.window = <<>> => WindowOn(s) = IndexOn(s)
      /\ s.window # <<>> => IsFieldOf(WindowOn(s), 3, s.window, IndexOn(s))
  <2>1. s.window \in Seq(Nat) /\ 3 \in Nat
    BY DEF IsState
  <2> QED
    BY <1>2, <1>3, <2>1, Zenon DEF WindowOn
<1>5. /\ RateOn(s) \in Seq(Nat)
      /\ s.rate = <<>> => RateOn(s) = WindowOn(s)
      /\ s.rate # <<>> => IsFieldOf(RateOn(s), 2, s.rate, WindowOn(s))
  <2>1. s.rate \in Seq(Nat) /\ 2 \in Nat
    BY DEF IsState
  <2> QED
    BY <1>3, <1>4, <2>1, Zenon DEF RateOn
<1> QED
  BY <1>1, <1>2, <1>4, <1>5

LEMMA StateBytes ==
  ASSUME NEW s, IsState(s)
  PROVE  /\ EncodeState(s) \in Seq(Nat)
         /\ s.price = <<>> => EncodeState(s) = RateOn(s)
         /\ s.price # <<>> => IsFieldOf(EncodeState(s), 1, s.price, RateOn(s))
<1>p. PICK p, r, w, i : /\ p = Unless(<<>>, s.price, EncodeBytes(1, s.price))
                       /\ r = Unless(<<>>, s.rate, EncodeBytes(2, s.rate))
                       /\ w = Unless(<<>>, s.window, EncodeBytes(3, s.window))
                       /\ i = IndexOn(s)
  OBVIOUS
<1>1. i \in Seq(Nat)
  BY <1>p, TailBytes
<1>2. ASSUME NEW b \in Seq(Nat), NEW field \in Nat
      PROVE  Unless(<<>>, b, EncodeBytes(field, b)) \in Seq(Nat)
  <2>1. <<>> \in Seq(Nat) /\ <<8 * field + LengthDelimited>> \in Seq(Nat)
    BY DEF LengthDelimited
  <2>2. EncodeVarint(Len(b)) \in Seq(Nat)
    BY VarintBytes
  <2>3. EncodeBytes(field, b) \in Seq(Nat)
    BY <2>1, <2>2 DEF EncodeBytes
  <2> QED
    BY <2>1, <2>3 DEF Unless
<1>3. p \in Seq(Nat) /\ r \in Seq(Nat) /\ w \in Seq(Nat)
  <2>1. s.price \in Seq(Nat) /\ s.rate \in Seq(Nat) /\ s.window \in Seq(Nat)
    BY Zenon DEF IsState
  <2>2. 1 \in Nat /\ 2 \in Nat /\ 3 \in Nat
    OBVIOUS
  <2> QED
    BY <1>p, <1>2, <2>1, <2>2, Zenon
<1>4. EncodeState(s) = ((p \o r) \o w) \o i
  BY <1>p, Zenon DEF EncodeState, IndexOn
<1>5. RateOn(s) = r \o (w \o i)
  BY <1>p, Zenon DEF RateOn, WindowOn
<1>6. ((p \o r) \o w) \o i = p \o (r \o (w \o i))
  <2>1. p \o r \in Seq(Nat) /\ r \o w \in Seq(Nat)
    BY <1>3, ConcatProperties
  <2>2. (p \o r) \o w = p \o (r \o w)
    BY <1>3, Associative, Zenon
  <2>3. (r \o w) \o i = r \o (w \o i)
    BY <1>1, <1>3, Associative, Zenon
  <2>4. PICK rw \in Seq(Nat) : rw = r \o w
    BY <2>1
  <2>5. (p \o rw) \o i = p \o (rw \o i)
    <3>1. p \in Seq(Nat) /\ rw \in Seq(Nat) /\ i \in Seq(Nat)
      BY <1>1, <1>3, <2>4
    <3> QED
      BY <3>1, Associative, Zenon
  <2> QED
    BY <2>2, <2>3, <2>4, <2>5, Zenon
<1>7. EncodeState(s) = p \o RateOn(s)
  BY <1>4, <1>5, <1>6, Zenon
<1>8. RateOn(s) \in Seq(Nat)
  BY TailBytes
<1>9. CASE s.price = <<>>
  <2>1. <<>> \o RateOn(s) = RateOn(s)
    BY <1>8
  <2> QED
    BY <1>p, <1>7, <1>8, <1>9, <2>1 DEF Unless
<1>10. CASE s.price # <<>>
  <2>1. IsFieldOf(EncodeBytes(1, s.price) \o RateOn(s), 1, s.price, RateOn(s))
    BY <1>8, FieldBytes, Zenon DEF IsState
  <2>2. EncodeState(s) = EncodeBytes(1, s.price) \o RateOn(s)
    BY <1>p, <1>7, <1>10 DEF Unless
  <2> QED
    BY <1>10, <2>1, <2>2 DEF IsFieldOf
<1> QED
  BY <1>9, <1>10

\* The bytes of an answer: the State is field 1 of it.
LEMMA ResponseBytes ==
  ASSUME response \in Responses
  PROVE  /\ IsState(response.state) /\ EncodeState(response.state) \in Seq(Nat)
         /\ Len(EncodeState(response.state)) < 256
         /\ IsFieldOf(EncodeBytes(1, EncodeState(response.state)), 1,
                      EncodeState(response.state), <<>>)
         /\ IsWhole => Encode(response) = EncodeBytes(1, EncodeState(response.state))
         /\ Encode(response) \in Seq(Nat)
         /\ Len(Encode(response)) <= Len(EncodeBytes(1, EncodeState(response.state)))
         /\ ~IsWhole => Len(Encode(response)) < Len(EncodeBytes(1, EncodeState(response.state)))
         /\ \A i \in 1..Len(Encode(response)) :
              Encode(response)[i] = EncodeBytes(1, EncodeState(response.state))[i]
<1>1. /\ IsState(response.state) /\ Len(EncodeState(response.state)) < 256
      /\ response.cut \in Nat
  BY ResponsesAssumption DEF IsState
<1>b. PICK b \in Seq(Nat) : b = EncodeState(response.state)
  BY <1>1, StateBytes
<1>s. PICK s : s = EncodeBytes(1, b)
  OBVIOUS
<1>2. IsFieldOf(s \o <<>>, 1, b, <<>>)
  <2>1. 1 \in Nat /\ <<>> \in Seq(Nat)
    OBVIOUS
  <2> QED
    BY <1>s, <2>1, FieldBytes, Zenon
<1>3. s \in Seq(Nat)
  <2>1. <<8 * 1 + LengthDelimited>> \in Seq(Nat)
    BY DEF LengthDelimited
  <2>2. EncodeVarint(Len(b)) \in Seq(Nat)
    BY VarintBytes
  <2> QED
    BY <1>s, <2>1, <2>2 DEF EncodeBytes
<1>4. s \o <<>> = s
  BY <1>3
<1>5. IsFieldOf(s, 1, b, <<>>)
  BY <1>2, <1>4
<1>c. PICK c \in Nat : c = response.cut
  BY <1>1
<1>6. Encode(response) = IF c < Len(s) THEN SubSeq(s, 1, c) ELSE s
  BY <1>b, <1>c, <1>s DEF Encode
<1>7. IsWhole <=> c >= Len(s)
  BY <1>b, <1>c, <1>s DEF IsWhole
<1>8. CASE c >= Len(s)
  <2>1. Len(s) \in Nat
    BY <1>3
  <2>2. Encode(response) = s
    BY <1>6, <1>8, <2>1
  <2>3. Len(s) <= Len(s)
    BY <2>1
  <2> QED
    BY <1>1, <1>3, <1>5, <1>7, <1>8, <1>b, <1>s, <2>2, <2>3
<1>9. CASE ~(c >= Len(s))
  <2>1. Len(s) \in Nat /\ c < Len(s)
    BY <1>3, <1>9
  <2>2. /\ SubSeq(s, 1, c) \in Seq(Nat) /\ Len(SubSeq(s, 1, c)) = c
        /\ \A i \in 1..c : SubSeq(s, 1, c)[i] = s[i]
    BY <1>3, <2>1
  <2>3. Encode(response) = SubSeq(s, 1, c)
    BY <1>6, <2>1
  <2> QED
    BY <1>1, <1>5, <1>7, <1>9, <1>b, <1>s, <2>1, <2>2, <2>3
<1> QED
  BY <1>8, <1>9

\* The reader is at the end of one of the fields of a State without a price.
IsTail(t) ==
  /\ t \in {RateOn(response.state), WindowOn(response.state), IndexOn(response.state), <<>>}
  /\ pos \in Nat /\ Len(data) = pos + Len(t)
  /\ \A i \in 1..Len(t) : data[pos + i] = t[i]

\* Of a State of 128 to 255 bytes the reader is given its bytes but the last, after
\* the second byte of their length: a 1, which is the tag of a fixed64.
ProtoInv ==
  /\ response \in Responses
  /\ reader \in {"reading", "price", "error"} /\ level \in {"response", "state"}
  /\ reader = "price" => price = response.state.price /\ IsWhole /\ IsShort
  /\ reader = "error" => ~(IsWhole /\ IsShort) \/ response.state.price = <<>>
  /\ reader = "reading" /\ level = "response" => pos = 0 /\ data = Encode(response)
  /\ reader = "reading" /\ level = "state" =>
       \/ /\ IsWhole /\ IsShort /\ data = EncodeState(response.state)
          /\ IF response.state.price # <<>> THEN pos = 0 ELSE \E t : IsTail(t)
       \/ /\ ~IsShort /\ pos = 0
          /\ data \in Seq(Nat) /\ Len(data) > 0 /\ data[1] = 1

LEMMA ProtoInitStep ==
  ASSUME ProtoInit(Responses)
  PROVE  ProtoInv
<1>1. /\ response \in Responses /\ data = Encode(response) /\ pos = 0 /\ level = "response"
      /\ reader = IF data = <<>> THEN "error" ELSE "reading"
  BY DEF ProtoInit
<1>2. ASSUME data = <<>>
      PROVE  ~IsWhole
  <2>1. IsFieldOf(EncodeBytes(1, EncodeState(response.state)), 1, EncodeState(response.state), <<>>)
        /\ EncodeState(response.state) \in Seq(Nat)
    BY <1>1, ResponseBytes
  <2>2. Len(EncodeBytes(1, EncodeState(response.state))) >= 2
    BY <2>1 DEF IsFieldOf
  <2>3. Encode(response) # EncodeBytes(1, EncodeState(response.state))
    BY <1>1, <1>2, <2>2
  <2> QED
    BY <1>1, <2>3, ResponseBytes
<1> QED
  BY <1>1, <1>2 DEF ProtoInv

\* At the start of an answer there is field 1, and nothing else to do than to read
\* it or to fail.
LEMMA FromResponse ==
  ASSUME ProtoInv, ProtoNext, level = "response"
  PROVE  ProtoInv'
<1>1. /\ response \in Responses /\ reader = "reading" /\ pos = 0 /\ data = Encode(response)
  BY DEF ProtoInv, ProtoNext, Unwrap, TakePrice, SkipField, SkipVarint, ReadFails, IsField
<1>b. PICK b, n, s : /\ b = EncodeState(response.state) /\ n = Len(b)
                     /\ s = EncodeBytes(1, b)
  OBVIOUS
<1>2. /\ b \in Seq(Nat) /\ n \in Nat /\ n < 256 /\ IsFieldOf(s, 1, b, <<>>)
      /\ IsWhole => data = s
      /\ ~IsWhole => Len(data) < Len(s)
      /\ data \in Seq(Nat) /\ Len(data) <= Len(s) /\ \A i \in 1..Len(data) : data[i] = s[i]
  BY <1>1, <1>b, ResponseBytes
<1>3. IsShort <=> n < 128
  BY <1>b DEF IsShort
<1>4. /\ Len(s) \in Nat /\ Len(data) \in Nat /\ s[1] = 10 /\ Len(s) >= 2 + n
      /\ n < 128 => Len(s) = 2 + n /\ s[2] = n /\ \A i \in 1..n : s[2 + i] = b[i]
      /\ n >= 128 => s[2] = n /\ s[3] = 1
  <2>1. Len(<<>>) = 0 /\ 8 * 1 + 2 = 10 /\ n + 0 = n
    BY <1>2
  <2>2. n >= 128 => (n % 128) + 128 = n /\ n \div 128 = 1
    BY <1>2
  <2>3. /\ s \in Seq(Nat) /\ Len(s) >= 2 + n + 0 /\ s[1] = 10
        /\ n >= 128 => s[2] = (n % 128) + 128 /\ s[3] = n \div 128
        /\ n < 128 => /\ Len(s) = 2 + n + 0 /\ s[2] = n
                      /\ \A i \in 1..n : s[2 + i] = b[i]
    BY <1>2, <1>b, <2>1, Zenon DEF IsFieldOf
  <2>4. Len(s) \in Nat /\ Len(data) \in Nat
    BY <1>2, <2>3
  <2> QED
    BY <1>2, <2>2, <2>3, <2>4
<1>5. 0 < Len(data) => WireType = LengthDelimited /\ IsTarget
  <2>1. 0 < Len(data) => data[1] = 10
    BY <1>2, <1>4
  <2>2. 10 \div 8 = 1 /\ 10 % 8 = 2
    OBVIOUS
  <2> QED
    BY <1>1, <2>1, <2>2 DEF WireType, IsTarget, Field, TargetField, LengthDelimited
<1>6. 2 <= Len(data) => Length = n
  BY <1>1, <1>2, <1>4 DEF Length
<1>7. CASE Unwrap
  <2>1. 2 + n <= Len(data) /\ Value = SubSeq(data, 3, 2 + n)
    BY <1>1, <1>2, <1>6, <1>7 DEF Unwrap, FitsIn, Value
  <2>2. /\ Value \in Seq(Nat) /\ Len(Value) = n
        /\ \A i \in 1..n : Value[i] = data[2 + i]
    <3>1. data \in Seq(Nat) /\ n \in Nat
      BY <1>2
    <3> QED
      BY <2>1, <3>1
  <2>3. /\ response' = response /\ data' = Value /\ pos' = 0 /\ level' = "state"
        /\ reader' = "reading" /\ (IsWhole' <=> IsWhole) /\ (IsShort' <=> IsShort)
    BY <1>1, <1>7 DEF Unwrap, IsWhole, IsShort
  <2>4. CASE n < 128
    <3>1. IsWhole
      BY <1>2, <1>4, <2>1, <2>4
    <3>2. \A i \in 1..n : Value[i] = b[i]
      <4>1. \A i \in 1..n : 2 + i \in 1..Len(data)
        BY <1>2, <2>1
      <4> QED
        BY <1>2, <1>4, <2>2, <2>4, <4>1
    <3>3. Value = b
      BY <1>2, <1>b, <2>2, <3>2, SameSequence, Zenon
    <3>4. response.state.price = <<>> => IsTail(RateOn(response.state))'
      <4>1. response.state.price = <<>> => b = RateOn(response.state)
        BY <1>1, <1>b, ResponseBytes, StateBytes
      <4>2. response' = response /\ pos' = 0 /\ data' = b
        BY <2>3, <3>3
      <4>3. Len(b) = 0 + Len(b) /\ \A i \in 1..Len(b) : b[0 + i] = b[i]
        BY <1>2
      <4> QED
        BY <4>1, <4>2, <4>3 DEF IsTail
    <3> HIDE DEF IsTail
    <3> QED
      BY <1>1, <1>3, <1>b, <2>3, <2>4, <3>1, <3>3, <3>4 DEF ProtoInv
  <2>5. CASE n >= 128
    <3>1. Value[1] = 1
      <4>1. Value[1] = data[3] /\ data[3] = s[3]
        <5>1. 1 \in 1..n /\ 3 \in 1..Len(data) /\ 2 + 1 = 3
          BY <1>2, <2>1, <2>5
        <5> QED
          BY <1>2, <2>2, <5>1
      <4> QED
        BY <1>4, <2>5, <4>1
    <3>2. ~IsShort /\ n > 0
      BY <1>2, <1>3, <2>5
    <3> QED
      BY <1>1, <2>2, <2>3, <3>1, <3>2 DEF ProtoInv
  <2> QED
    BY <1>2, <2>4, <2>5
<1>8. CASE ReadFails
  <2>1. IsWhole /\ IsShort => FALSE
    <3> SUFFICES ASSUME IsWhole, IsShort PROVE FALSE
      OBVIOUS
    <3>1. Len(data) = 2 + n /\ n < 128
      BY <1>2, <1>3, <1>4
    <3>2. FitsIn
      BY <1>1, <1>2, <1>6, <3>1 DEF FitsIn
    <3> QED
      BY <1>1, <1>2, <1>5, <1>8, <3>1, <3>2 DEF ReadFails
  <2>2. /\ response' = response /\ level' = "response" /\ reader' = "error"
        /\ (IsWhole' <=> IsWhole) /\ (IsShort' <=> IsShort)
    BY <1>8 DEF ReadFails, IsWhole, IsShort
  <2> QED
    BY <1>1, <2>1, <2>2 DEF ProtoInv
<1>9. ~TakePrice /\ ~SkipField /\ ~SkipVarint
  BY <1>1, <1>5 DEF TakePrice, SkipField, SkipVarint, IsField, Varint, LengthDelimited
<1> QED
  BY <1>7, <1>8, <1>9 DEF ProtoNext

\* The State was cut short: its first byte is the tag of a type the reader has not.
LEMMA FromLongState ==
  ASSUME ProtoInv, ProtoNext, level = "state", ~IsShort
  PROVE  ProtoInv'
<1>1. /\ response \in Responses /\ reader = "reading" /\ pos = 0 /\ Len(data) > 0 /\ data[1] = 1
  BY DEF ProtoInv, ProtoNext, Unwrap, TakePrice, SkipField, SkipVarint, ReadFails, IsField
<1>2. WireType = 1
  <2>1. 1 % 8 = 1
    OBVIOUS
  <2> QED
    BY <1>1, <2>1 DEF WireType
<1>3. ReadFails
  BY <1>2 DEF ProtoNext, Unwrap, TakePrice, SkipField, SkipVarint, IsField, Varint, LengthDelimited
<1>4. response' = response /\ reader' = "error" /\ level' = level /\ (IsShort' <=> IsShort)
  BY <1>3 DEF ReadFails, IsShort
<1> QED
  BY <1>1, <1>4 DEF ProtoInv

\* The State begins with the price.
LEMMA FromPrice ==
  ASSUME ProtoInv, ProtoNext, level = "state", IsShort, response.state.price # <<>>
  PROVE  ProtoInv'
<1>1. /\ response \in Responses /\ reader = "reading" /\ pos = 0 /\ IsWhole
      /\ data = EncodeState(response.state)
  BY DEF ProtoInv, ProtoNext, Unwrap, TakePrice, SkipField, SkipVarint, ReadFails, IsField
<1>p. PICK p, t, k : p = response.state.price /\ t = RateOn(response.state) /\ k = Len(p)
  OBVIOUS
<1>2. p \in Seq(Nat) /\ t \in Seq(Nat) /\ IsFieldOf(data, 1, p, t)
  <2>1. IsState(response.state)
    BY <1>1, ResponseBytes
  <2>2. response.state.price \in Seq(Nat)
    BY <2>1 DEF IsState
  <2> QED
    BY <1>1, <1>p, <2>1, <2>2, StateBytes, TailBytes
<1>3. k \in Nat /\ Len(t) \in Nat
  BY <1>2, <1>p
<1>4. /\ Len(data) \in Nat /\ data \in Seq(Nat) /\ data[1] = 10 /\ Len(data) >= 2 + k + Len(t)
      /\ k < 128 => data[2] = k /\ \A i \in 1..k : data[2 + i] = p[i]
  <2>1. 8 * 1 + 2 = 10
    OBVIOUS
  <2>2. /\ data \in Seq(Nat) /\ data[1] = 10 /\ Len(data) >= 2 + k + Len(t)
        /\ k < 128 => data[2] = k /\ \A i \in 1..k : data[2 + i] = p[i]
    BY <1>2, <1>p, <2>1, Zenon DEF IsFieldOf
  <2> QED
    BY <2>2
<1>5. k < 128 /\ k > 0 /\ data[2] = k
  <2>1. Len(data) < 128
    BY <1>1 DEF IsShort
  <2>2. k > 0
    BY <1>2, <1>p
  <2>3. k < 128
    BY <1>3, <1>4, <2>1
  <2> QED
    BY <1>4, <2>2, <2>3
<1>b. 0 < Len(data) /\ 2 <= Len(data) /\ 2 + k <= Len(data)
  BY <1>3, <1>4
<1>6. WireType = LengthDelimited /\ IsTarget /\ Length = k /\ FitsIn
  <2>1. 10 \div 8 = 1 /\ 10 % 8 = 2
    OBVIOUS
  <2> QED
    BY <1>1, <1>4, <1>5, <1>b, <2>1
       DEF WireType, IsTarget, Field, TargetField, LengthDelimited, Length, FitsIn
<1>7. TakePrice
  <2>1. ~Unwrap
    BY DEF Unwrap
  <2>2. ~SkipField
    BY <1>6 DEF SkipField
  <2>3. ~SkipVarint
    BY <1>6 DEF SkipVarint, IsField, Varint, LengthDelimited
  <2>4. ~ReadFails
    <3>1. pos < Len(data)
      BY <1>1, <1>b
    <3> QED
      BY <1>6, <3>1 DEF ReadFails
  <2> QED
    BY <2>1, <2>2, <2>3, <2>4 DEF ProtoNext
<1>8. Value = p
  <2>1. Value = SubSeq(data, 3, 2 + k)
    BY <1>1, <1>6, <1>3 DEF Value
  <2>2. /\ Value \in Seq(Nat) /\ Len(Value) = k
        /\ \A i \in 1..k : Value[i] = data[2 + i]
    <3>1. data \in Seq(Nat)
      BY <1>4
    <3> QED
      BY <1>3, <1>b, <2>1, <3>1
  <2>3. \A i \in 1..k : Value[i] = p[i]
    BY <1>4, <1>5, <2>2
  <2> QED
    BY <1>2, <1>p, <2>2, <2>3, SameSequence, Zenon
<1>9. /\ response' = response /\ price' = p /\ reader' = "price" /\ level' = level
      /\ (IsWhole' <=> IsWhole) /\ (IsShort' <=> IsShort)
  BY <1>7, <1>8, <1>p DEF TakePrice, IsWhole, IsShort
<1> QED
  BY <1>1, <1>9, <1>p DEF ProtoInv

\* Behind the price come the rate, the window and the index, and the reader steps
\* from one to the next.
LEMMA TailSteps ==
  ASSUME response \in Responses, IsShort, data = EncodeState(response.state),
         NEW t, IsTail(t), pos < Len(data)
  PROVE  \/ /\ WireType = LengthDelimited /\ ~IsTarget /\ FitsIn
            /\ \E u \in {WindowOn(response.state), IndexOn(response.state)} :
                 /\ Len(data) = (pos + 2 + Length) + Len(u)
                 /\ \A i \in 1..Len(u) : data[(pos + 2 + Length) + i] = u[i]
         \/ /\ WireType = Varint
            /\ Continues(data[pos + 2]) => Len(data) = pos + 3 /\ ~Continues(data[pos + 3])
            /\ ~Continues(data[pos + 2]) => Len(data) = pos + 2
<1>s. PICK s : s = response.state
  OBVIOUS
<1>1. IsState(s)
  BY <1>s, ResponseBytes
<1>2. /\ IndexOn(s) \in Seq(Nat) /\ WindowOn(s) \in Seq(Nat) /\ RateOn(s) \in Seq(Nat)
      /\ s.rate \in Seq(Nat) /\ s.window \in Seq(Nat) /\ s.index \in Nat /\ s.index < 128 * 128
  BY <1>1, TailBytes DEF IsState
<1>3. /\ t \in Seq(Nat) /\ Len(t) \in Nat /\ Len(t) > 0 /\ pos \in Nat
      /\ Len(data) = pos + Len(t) /\ \A i \in 1..Len(t) : data[pos + i] = t[i]
      /\ t \in {RateOn(s), WindowOn(s), IndexOn(s)}
  BY <1>2, <1>s DEF IsTail
<1>4. Len(data) < 128
  BY DEF IsShort
<1>5. ASSUME NEW b \in Seq(Nat), NEW f \in {2, 3}, NEW u \in Seq(Nat), IsFieldOf(t, f, b, u)
      PROVE  /\ WireType = LengthDelimited /\ ~IsTarget /\ FitsIn
             /\ Len(data) = (pos + 2 + Length) + Len(u)
             /\ \A i \in 1..Len(u) : data[(pos + 2 + Length) + i] = u[i]
  <2>k. PICK k \in Nat, m \in Nat : k = Len(b) /\ m = Len(u)
    BY <1>5
  <2>1. Len(t) >= 2 + k + m /\ t[1] = 8 * f + 2
    BY <1>5, <2>k, Zenon DEF IsFieldOf
  <2>2. k < 128
    BY <1>3, <1>4, <2>1
  <2>3. Len(t) = 2 + k + m /\ t[2] = k /\ \A i \in 1..m : t[(2 + k) + i] = u[i]
    BY <1>5, <2>2, <2>k, Zenon DEF IsFieldOf
  <2>4. data[pos + 1] = 8 * f + 2 /\ data[pos + 2] = k
    BY <1>3, <2>1, <2>3
  <2>5. (8 * f + 2) % 8 = 2 /\ (8 * f + 2) \div 8 # 1
    OBVIOUS
  <2>6. Length = k /\ WireType = LengthDelimited /\ ~IsTarget
    BY <2>4, <2>5 DEF Length, WireType, LengthDelimited, IsTarget, Field, TargetField
  <2>7. FitsIn
    BY <1>3, <2>3, <2>6 DEF FitsIn
  <2>8. ASSUME NEW i \in 1..m
        PROVE  data[(pos + 2 + k) + i] = u[i]
    <3>1. (2 + k) + i \in 1..Len(t) /\ pos + ((2 + k) + i) = (pos + 2 + k) + i
      BY <1>3, <2>3
    <3> QED
      BY <1>3, <2>3, <3>1
  <2>9. Len(data) = (pos + 2 + k) + m
    BY <1>3, <2>3
  <2> QED
    BY <2>6, <2>7, <2>8, <2>9, <2>k
<1>6. CASE t = IndexOn(s)
  <2>v. PICK v : v = EncodeVarint(s.index)
    OBVIOUS
  <2>1. t = <<32>> \o v /\ v \in Seq(Nat)
    <3>1. s.index # 0
      BY <1>1, <1>3, <1>6, TailBytes
    <3>2. 8 * 4 + Varint = 32
      BY DEF Varint
    <3> QED
      BY <1>1, <1>2, <1>6, <2>v, <3>1, <3>2, TailBytes, VarintBytes
  <2>2. Len(t) = 1 + Len(v) /\ t[1] = 32 /\ \A i \in 1..Len(v) : t[1 + i] = v[i]
    BY <2>1
  <2>3. \/ Len(v) = 1 /\ v[1] < 128
        \/ Len(v) = 2 /\ v[1] >= 128 /\ v[2] < 128
    <3>1. CASE s.index < 128
      <4>1. v = <<s.index>>
        BY <1>2, <2>v, <3>1, VarintBytes
      <4> QED
        BY <3>1, <4>1
    <3>2. CASE s.index >= 128
      <4>1. Len(v) = 2 /\ v[1] = (s.index % 128) + 128 /\ v[2] = s.index \div 128
        BY <1>2, <2>v, <3>2, VarintBytes
      <4>2. s.index \div 128 < 128 /\ (s.index % 128) + 128 >= 128
        BY <1>2
      <4> QED
        BY <4>1, <4>2
    <3> QED
      BY <1>2, <3>1, <3>2
  <2>4. data[pos + 1] = 32
    BY <1>3, <2>2
  <2>5. WireType = Varint
    <3>1. 32 % 8 = 0
      OBVIOUS
    <3> QED
      BY <2>4, <3>1 DEF WireType, Varint
  <2>6. CASE Len(v) = 1 /\ v[1] < 128
    <3>1. Len(data) = pos + 2 /\ data[pos + 2] = v[1]
      BY <1>3, <2>2, <2>6
    <3> QED
      BY <2>1, <2>5, <2>6, <3>1 DEF Continues
  <2>7. CASE Len(v) = 2 /\ v[1] >= 128 /\ v[2] < 128
    <3>1. /\ 2 \in 1..Len(t) /\ 3 \in 1..Len(t) /\ 1 \in 1..Len(v) /\ 2 \in 1..Len(v)
          /\ 1 + 1 = 2 /\ 1 + 2 = 3 /\ Len(t) = 3
      BY <2>2, <2>7
    <3>2. t[2] = v[1] /\ t[3] = v[2]
      BY <2>2, <3>1
    <3>3. Len(data) = pos + 3 /\ data[pos + 2] = t[2] /\ data[pos + 3] = t[3]
      BY <1>3, <3>1
    <3> QED
      BY <2>1, <2>5, <2>7, <3>2, <3>3 DEF Continues
  <2> QED
    BY <2>3, <2>6, <2>7
<1>7. CASE t = WindowOn(s) /\ s.window # <<>>
  <2>1. IsFieldOf(t, 3, s.window, IndexOn(s))
    BY <1>1, <1>7, TailBytes
  <2> QED
    BY <1>2, <1>5, <1>s, <2>1
<1>8. CASE t = RateOn(s) /\ s.rate # <<>>
  <2>1. IsFieldOf(t, 2, s.rate, WindowOn(s))
    BY <1>1, <1>8, TailBytes
  <2> QED
    BY <1>2, <1>5, <1>s, <2>1
<1>9. \/ t = IndexOn(s)
      \/ t = WindowOn(s) /\ s.window # <<>>
      \/ t = RateOn(s) /\ s.rate # <<>>
  BY <1>1, <1>3, TailBytes
<1> QED
  BY <1>6, <1>7, <1>8, <1>9

\* From a field behind the price the reader goes to the next one, to the end, or
\* fails; it takes nothing else for the price.
LEMMA FromTail ==
  ASSUME ProtoInv, ProtoNext, level = "state", IsShort, response.state.price = <<>>
  PROVE  ProtoInv'
<1>1. /\ response \in Responses /\ reader = "reading" /\ IsWhole
      /\ data = EncodeState(response.state) /\ \E t : IsTail(t)
  BY DEF ProtoInv, ProtoNext, Unwrap, TakePrice, SkipField, SkipVarint, ReadFails, IsField
<1>2. PICK t : IsTail(t)
  BY <1>1
<1>3. pos \in Nat /\ Len(data) \in Nat
  <2>1. data \in Seq(Nat)
    BY <1>1, ResponseBytes DEF IsState
  <2> QED
    BY <1>2, <2>1 DEF IsTail
<1>n. ASSUME response' = response, data' = data, level' = level, reader' = reader,
             NEW u, IsTail(u)'
      PROVE  ProtoInv'
  <2>1. (IsWhole' <=> IsWhole) /\ (IsShort' <=> IsShort)
    BY <1>n DEF IsWhole, IsShort
  <2> HIDE DEF IsTail
  <2> QED
    BY <1>1, <1>n, <2>1 DEF ProtoInv
<1>4. ~Unwrap
  BY DEF Unwrap
<1>5. ~TakePrice
  <2>1. pos < Len(data) /\ WireType = LengthDelimited => ~IsTarget
    BY <1>1, <1>2, TailSteps DEF Varint, LengthDelimited
  <2> QED
    BY <2>1 DEF TakePrice, IsField
<1>6. ASSUME SkipField
      PROVE  ProtoInv'
  <2>1. pos < Len(data) /\ WireType = LengthDelimited
    BY <1>6 DEF SkipField, IsField
  <2>2. PICK u \in {WindowOn(response.state), IndexOn(response.state)} :
          /\ Len(data) = (pos + 2 + Length) + Len(u)
          /\ \A i \in 1..Len(u) : data[(pos + 2 + Length) + i] = u[i]
    BY <1>1, <1>2, <2>1, TailSteps DEF Varint, LengthDelimited
  <2>3. pos + 2 + Length \in Nat
    <3>1. data \in Seq(Nat)
      BY <1>1, ResponseBytes
    <3>2. pos + 2 \in 1..Len(data)
      BY <1>3, <1>6 DEF SkipField, FitsIn
    <3>3. data[pos + 2] \in Nat
      BY <3>1, <3>2
    <3> QED
      BY <1>3, <3>3 DEF Length
  <2>4. PICK q \in Nat : q = pos + 2 + Length
    BY <2>3
  <2>5. pos' = q /\ response' = response /\ data' = data /\ level' = level /\ reader' = reader
    BY <1>6, <2>4 DEF SkipField
  <2>6. Len(data) = q + Len(u) /\ \A i \in 1..Len(u) : data[q + i] = u[i]
    BY <2>2, <2>4
  <2>7. IsTail(u)'
    BY <2>5, <2>6 DEF IsTail
  <2> QED
    BY <1>1, <1>n, <2>5, <2>7
<1>7. ASSUME SkipVarint
      PROVE  ProtoInv'
  <2>1. pos < Len(data) /\ WireType = Varint
    BY <1>7 DEF SkipVarint, IsField
  <2>2. /\ Continues(data[pos + 2]) => Len(data) = pos + 3 /\ ~Continues(data[pos + 3])
        /\ ~Continues(data[pos + 2]) => Len(data) = pos + 2
    BY <1>1, <1>2, <2>1, TailSteps DEF Varint, LengthDelimited
  <2>3. PICK ends : ends = {i \in pos + 2 .. Len(data) : ~Continues(data[i])}
    OBVIOUS
  <2>4. ends = {Len(data)}
    <3>1. CASE Continues(data[pos + 2])
      <4>1. Len(data) = pos + 3 /\ ~Continues(data[pos + 3])
        BY <2>2, <3>1
      <4>2. \A i : i \in pos + 2 .. pos + 3 <=> i = pos + 2 \/ i = pos + 3
        BY <1>3
      <4> QED
        BY <2>3, <3>1, <4>1, <4>2, Zenon
    <3>2. CASE ~Continues(data[pos + 2])
      <4>1. Len(data) = pos + 2
        BY <2>2, <3>2
      <4>2. \A i : i \in pos + 2 .. pos + 2 <=> i = pos + 2
        BY <1>3
      <4> QED
        BY <2>3, <3>2, <4>1, <4>2, Zenon
    <3> QED
      BY <3>1, <3>2
  <2>5. (CHOOSE i \in ends : \A j \in ends : i <= j) = Len(data)
    BY <1>3, <2>4
  <2>6. pos' = IF ends = {} THEN Len(data) + 1 ELSE CHOOSE i \in ends : \A j \in ends : i <= j
    BY <1>7, <2>3 DEF SkipVarint
  <2>7. /\ pos' = Len(data) /\ response' = response /\ data' = data /\ level' = level
        /\ reader' = reader
    <3>1. pos' = Len(data)
      BY <2>4, <2>5, <2>6
    <3> QED
      BY <1>7, <3>1 DEF SkipVarint
  <2>8. Len(data) = Len(data) + Len(<<>>) /\ \A i \in 1..Len(<<>>) : data[Len(data) + i] = <<>>[i]
    BY <1>3
  <2>9. IsTail(<<>>)'
    BY <1>3, <2>7, <2>8 DEF IsTail
  <2> QED
    BY <1>1, <1>n, <2>7, <2>9
<1>8. ASSUME ReadFails
      PROVE  ProtoInv'
  <2>1. response' = response /\ reader' = "error" /\ level' = level
    BY <1>8 DEF ReadFails
  <2> QED
    BY <1>1, <2>1 DEF ProtoInv
<1> QED
  BY <1>4, <1>5, <1>6, <1>7, <1>8 DEF ProtoNext

\* Whatever the State, a step of the reader keeps to its bytes.
LEMMA ProtoStep ==
  ASSUME ProtoInv, ProtoNext \/ UNCHANGED protoVars
  PROVE  ProtoInv'
<1>1. CASE ProtoNext
  <2>1. level \in {"response", "state"}
    BY DEF ProtoInv
  <2> QED
    BY <1>1, <2>1, FromResponse, FromLongState, FromPrice, FromTail
<1>2. CASE UNCHANGED protoVars
  <2>1. /\ response' = response /\ data' = data /\ pos' = pos /\ level' = level
        /\ reader' = reader /\ price' = price
    BY <1>2 DEF protoVars
  <2> QED
    BY <2>1 DEF ProtoInv, IsTail, IsWhole, IsShort
<1> QED
  BY <1>1, <1>2

LEMMA ProtoPrice ==
  ASSUME ProtoInv
  PROVE  PriceOrError
BY DEF ProtoInv, PriceOrError

-----------------------------------------------------------------------------
(* One of the commands runs, and the state of the others stays.            *)

ReadersInv == ProtoInv /\ SignInv /\ ReleaseInv /\ GnoInv

LEMMA GivenInputs ==
  ASSUME NEW c, NEW inputs, inputs # {}
  PROVE  Given(c, inputs) \subseteq inputs
BY DEF Given

LEMMA ReadersInitStep ==
  ASSUME ReadersInit
  PROVE  ReadersInv
<1>1. ProtoInit(Responses)
  <2>1. Given("gasmonitor", Responses) \subseteq Responses
    BY ResponsesAssumption, GivenInputs
  <2> QED
    BY <2>1 DEF ReadersInit, ProtoInit
<1>2. SignInit(Transactions)
  <2>1. Given("signTx", Transactions) \subseteq Transactions
    BY TransactionsAssumption, GivenInputs
  <2> QED
    BY <2>1 DEF ReadersInit, SignInit
<1>3. ReleaseInit(Releases, Upgrades)
  <2>1. /\ Given("upgrade", Releases) \subseteq Releases
        /\ Given("upgrade", Upgrades) \subseteq Upgrades
    BY ReleasesAssumption, GivenInputs
  <2> QED
    BY <2>1 DEF ReadersInit, ReleaseInit
<1>4. GnoInit(GnoFiles)
  <2>1. Given("gno-airdrop", GnoFiles) \subseteq GnoFiles
    BY GnoAssumption, GivenInputs
  <2> QED
    BY <2>1 DEF ReadersInit, GnoInit
<1> QED
  BY <1>1, <1>2, <1>3, <1>4, ProtoInitStep, SignInitStep, ReleaseInitStep, GnoInitStep
     DEF ReadersInv

LEMMA ReadersStep ==
  ASSUME ReadersInv, [ReadersNext]_readerVars
  PROVE  ReadersInv'
<1>1. ProtoNext \/ UNCHANGED protoVars
  BY DEF ReadersNext, GasPrice, FindTypes, ProposeUpgrade, ListGnoAccounts, ScaleAirdrop,
     ReadersEnded, readerVars
<1>2. SignNext \/ UNCHANGED signVars
  BY DEF ReadersNext, GasPrice, FindTypes, ProposeUpgrade, ListGnoAccounts, ScaleAirdrop,
     ReadersEnded, readerVars
<1>3. ReleaseNext \/ UNCHANGED releaseVars
  BY DEF ReadersNext, GasPrice, FindTypes, ProposeUpgrade, ListGnoAccounts, ScaleAirdrop,
     ReadersEnded, readerVars
<1>4. GnoNext \/ UNCHANGED gnoVars
  BY DEF ReadersNext, GasPrice, FindTypes, ProposeUpgrade, ListGnoAccounts, ScaleAirdrop,
     ReadersEnded, readerVars
<1> QED
  BY <1>1, <1>2, <1>3, <1>4, ProtoStep, SignStep, ReleaseStep, GnoStep DEF ReadersInv

LEMMA ReadersInvariance == ReadersSpec => []ReadersInv
<1>1. ReadersInit => ReadersInv
  BY ReadersInitStep
<1>2. ReadersInv /\ [ReadersNext]_readerVars => ReadersInv'
  BY ReadersStep
<1> QED
  BY <1>1, <1>2, PTL DEF ReadersSpec

\* The price of the gas monitor is that of the chain, or an error (gasmonitor.go
\* 253-320), for every State that is encoded in less than 256 bytes.
THEOREM PriceCorrect == ReadersSpec => []PriceOrError
<1>1. ReadersInv => PriceOrError
  BY ProtoPrice DEF ReadersInv
<1> QED
  BY <1>1, ReadersInvariance, PTL

\* signTx prints the types that objects alone reach, once each (signtx.go 44-64),
\* for every transaction, whatever its nesting.
THEOREM TypesCorrect == ReadersSpec => []TypesFound
<1>1. ReadersInv => TypesFound
  BY SignFound DEF ReadersInv
<1> QED
  BY <1>1, ReadersInvariance, PTL

\* A binary of a proposal never has the checksum of another asset, and none is left
\* out of a release that is regular (proposal.go 269-285), for every release.
THEOREM BinariesCorrect == ReadersSpec => []BinariesVerified
<1>1. ReadersInv => BinariesVerified
  BY ReleaseVerified DEF ReadersInv
<1> QED
  BY <1>1, ReadersInvariance, PTL

\* The scaled supply is the wanted one to the error of the roundings, and the
\* amounts keep their order (main.go 500-510), for every file and wanted supply.
THEOREM ScaledSupplyCorrect == ReadersSpec => []GnoSupply
<1>1. ReadersInv => GnoSupply
  BY GnoSupplied DEF ReadersInv
<1> QED
  BY <1>1, ReadersInvariance, PTL
=============================================================================
