# A verification development of govbox

govbox is a box of Go commands around the governance of the Cosmos Hub, GovGen
and AtomOne. Most of them are batch programs over a data directory; what is hard
in them is not distribution but arithmetic that decides who gets what, loops over
Go maps whose order is random, state shared by two loops, and files written in
place that the next command trusts. This directory holds TLA+ modules of these
programs, the TLC configurations that check them on small instances, and theorems
that TLAPS checks for every value of the constants.

`PROJECT.json` lists the components, runs, mutants, hazards and theorems, and maps
each definition to the lines it models.

## Inventory

| Component | Source | State | Operations | Modules |
|---|---|---|---|---|
| Snapshot parsing | `parsing.go` | maps by address, built once | `parseVotesByAddr`, `parseDelegationsByAddr`, `parseValidatorsByAddr`, `parseBalancesByAddr`, `parseAccountTypesPerAddr` | Snapshot, Accounts |
| Decimals | `cosmossdk.io/math` | none | multiply, divide, round to int | LegacyDec (external) |
| Vote weights | `accounts.go`, `distribution.go` | none | `Account.voteWeights`, `voteMap` | Votes |
| Tally | `tally.go` | `valsByAddr` with its deductions, `results`, `totalVotingPower` | loop over voters, loop over validators, percentage | Tally, TallySpec |
| Accounts | `accounts.go` | `accountsByAddr` | loop over delegators, loop over balances, sort | Accounts |
| Distribution | `distribution.go` | sums of the two passes, multiplier, slash, airdrop by address | first pass, multiplier, second pass, mint | Distribution |
| Genesis writer | `genesis.go` | bank, auth, distribution and gov sections of the document | reset, add addresses, reserved address, community pool, constitution, print | Genesis |
| Snapshot to genesis | `main.go` | what the commands hand over | `accounts`, then `genesis` | GovBox |
| Auto staking | `autostaking.go` | stake of each validator, stake left of the balance, totals | sort, "basic", "terra", report | AutoStaking |
| Gas monitor | `gasmonitor.go` | cache file shared by runs; cache, window and counters of each run | load, loop (cached or fetched block), save, chart | GasMonitor |
| Protobuf field reader | `gasmonitor.go` | bytes and position | `parseBaseGasPriceFromProto`, `extractProtoField` | ProtoField, Readers |
| Gno accounts, Gno airdrop | `accounts.go`, `main.go` | list of accounts; sums of the amounts | `getGnoAccounts`, `gno-airdrop` | GnoAccounts, GnoAirdrop, Readers |
| Commands over data files | `main.go` | `accounts.json`, `airdrop.json`, `airdrop_detail.csv` | `accounts`, `gno-accounts`, `distribution`, `genesis`, `top20` | Workflow |
| Tally genesis, vote shrinking | `tally_genesis.go`, `shrink_votes.go` | balances, validators, delegations and votes of a benchmark chain | mint, pay, create and bond validators, delegate in turn, propose, vote, export; cut of the votes | TallyGenesis |
| Transactions | `signtx.go`, `signverify.go` | list of types | search for unregistered types; signatures | SignTx, Readers; signatures left out |
| Proposals | `proposal.go` | checksums and binaries by name | upgrade proposal; text and amendment templates | Release, Readers; templates left out |
| Fee simulators | `docs/*.js` | deposit and gas price over time | update rules | left out |
| Tables, charts | `table.go` and parts of others | none | output | left out |

How the parts interact:

- Every command starts from the maps of `parsing.go`. The validators' votes come
  from the map of direct votes, through the account with the same bytes.
- `accounts` parses snapshots of the Cosmos Hub, `gno-accounts` those of AtomOne: each
  panics on the operator addresses of the other chain, by the prefixes it configures.
- `accounts` writes a list of accounts; `distribution` and `genesis` read it.
  `genesis` runs the distribution again and writes its result in the document.
- Tally and accounts compute the votes of the snapshot in two different ways: per
  vote with deductions, per account with weights. Nothing in the code compares
  them; `TallyAgrees` does.
- The commands over a data directory meet in three files, each written in place
  by one command and trusted by the next. Two commands write `accounts.json`, in two
  formats; `distribution` writes two files that belong together, one after the
  other.
- Runs of `gasmonitor` meet only in the cache file, which each reads once and
  writes once, without a lock and without a rename.

What is hard to test:

- Order. `tally.go:27,53`, `accounts.go:82,118` range over maps; `sort.Slice` in
  `autostaking.go:107` gets a comparison that is not an order on some inputs.
- Shared state. The deductions of the first tally loop are read by the second; the
  multiplier of the first pass of the distribution is used by the second, which
  drops accounts the first one counted.
- Rounding. Each product of decimals rounds; the checks of the code compare sums
  of rounded products.
- Failure. An address that does not convert, a panic on a zero divisor, a failed
  fetch, a write cut short, a command killed between two files.
- Formats read by hand. Protobuf with lengths of one byte, names of assets cut at the
  length of a prefix, JSON walked by the types of its Go values.

The hazards are in `PROJECT.json`, each at its line, with the properties that
would catch it or the reason none does yet.

## Modules

`LegacyDec` is the fixed-point arithmetic of the library, external to the
repository: a decimal is its number of smallest units, `One` units make 1, and
`Mul` and `Quo` round half to even as `Dec.Mul` and `Dec.Quo` do. The library has
`One = 10^18`. TLC uses 100 or 1000, which makes rounding errors larger relative
to the amounts, hence more visible; the proofs hold for every even `One`.

`Votes` holds the weighted votes and `voteWeights`. `Snapshot` holds the parsed
files and, as assumptions, what holds of files extracted from one block: a
validator has the shares of its delegations, a delegator delegates once to a
validator, votes have weights that sum to 1, validators are of one chain. A command
that meets validators of the other chain panics while it parses them
(`ValidatorsDecode`): `Tally` and `Accounts` then start, and end, as "not parsed".

`Tally` has one action for each iteration of the two loops (`RangeVoter`,
`IgnoreDelegation`, `CountDelegation`, `EndVoter`, `IgnoreValidator`,
`CountValidator`) and one for the percentage. The keys not reached by the current
`range` are `todo`; an iteration picks any. `TallySpec` is the promise: one answer,
a sum over sets, in which no order can show. `Tally` implements it (property
`OrderIndependent`), with the end of the loops mapped to the answer.

`Accounts` has one action for each iteration of the loops over delegators and
balances, and the sort. `Distribution` has one action for each account of each
pass, with each way an iteration can end an action of its own: slash, skip, entry,
conversion error. `Genesis` has one action for each section of the document, and
prints at the very end, as `writeGenesis` does. `GovBox` composes the three: the
accounts are the input of the distribution and its airdrop the input of the
genesis, through the shared variables `accounts`, `addresses`, `communityPool` and
`reservedAddr`; `TallySpec` is instantiated beside them, over the same snapshot, to
be compared with.

`GnoAccounts` is `getGnoAccounts`, the copy of those loops for snapshots of AtomOne. It
extends `Accounts`, whose loop control, ignored accounts and sort it shares, and has the
actions that differ: an account is a function of coins, a delegation to an active
validator adds whole "duatone" coins, and a balance is added with all its denominations
instead of one. No snapshot is parsed by both commands, so it is composed with the
other readers and not with `GovBox`.

`Workflow` is the data directory. A process starts any command, at any time, several
of them at once; every read, truncation and write is an action of its own
(`ReadAccounts`, `TruncateAccounts`, `WriteAccounts`, `TruncateAirdrop`,
`WriteAirdrop`, `CreateDetail`, `WriteDetail`), and so is the distribution for each
set of parameters (`Distribute`). A file is `Absent`, `Torn`, or holds a value that
says where it comes from: a list says which fields its objects have and of which
snapshot it is, an airdrop which list, multipliers and prefix. A snapshot is of the Hub
or of AtomOne (`ChainOf`); `ParsePanics` is the panic on the operator address of an active
validator that does not have the configured prefix, and every snapshot of a chain has
such a validator. `Torn` is whatever does not decode:
empty, cut, or parts of two writes (that parts of two happen to decode is left out).
A longer JSON file that is overwritten by a shorter one is not torn: `Decode` reads the
first value and ignores what follows. What a distribution computes is that of module
`Distribution`; here it returns an airdrop, an error, or panics, and always panics
for a list without the fields of the amounts: `Decode` ignores the fields `Account` has not,
and leaves nil those that are not in the file (`Distributes`, over `FieldsOf` the command
that wrote it). Any call may fail
(`CallFails`), and a process may be killed anywhere (`Crash`).

`ProtoField`, `SignTx`, `Release`, `GnoAccounts` and `GnoAirdrop` are five commands that
read one thing they did not write and share nothing; `Readers` composes them, with the
command that runs as a variable. `ProtoField` is the loop of `extractProtoField`,
run over the response and then over the State; the bytes are real, made by the
protobuf encoding (`Encode`, external), and may be cut anywhere. `SignTx` is the
recursion of `findUnregisteredTypes` with its stack `walk`, fields in any order.
`Release` has one action for each loop iteration of `cosmovisorBinInfo`, then the
summary and the plan name; an asset's name is its stem and its rest, cut where the
code cuts. `GnoAirdrop` has one action for each line scanned and scaled.

`AutoStaking` takes either algorithm: "basic", which the command calls, and
"terra", which the file keeps. `stake` and `splitStake` are the variables of the
loop; `stakes`, `largestPart` and `hosts` are what the properties talk about.
`SortOutcomes` is what `sort.Slice` may leave: a descending order when the
comparison is a strict weak order on the list, else any permutation.

`GasMonitor` has any number of runs. `Start`, `LoadCache`, `CachedBlock`,
`FetchBlock`, `EndWindow`, `TruncateFile`, `WriteFile` and `Chart` are the run; each
call of the node may fail (`StartFails`, `FetchFails`), opening the file may fail
(`SaveFails`), and a run may be interrupted anywhere (`Crash`), in the middle of its
write too. `os.WriteFile` is two steps, because that is what two overlapping runs
can tell apart. A complete write over a longer one leaves a file that does not
decode, because `json.Unmarshal` refuses what follows the first value, and `loadCache`
then starts from nothing. A write that is cut over the file of another run, by an
interruption or a full disk (`WriteFails`), may leave one that does decode: the first
half of one cache and the second half of the other, at the cut a height of one with
the gas of the other. `CutOutcomes` has every such splice, and `spliced` remembers that
it happened: nothing tells such a file from a cache, so what it says of the chain, and
whether the blocks of the file are kept, is not claimed after it. Types, windows and
the end of the loop are. The chain grows independently (`NewBlock`).

`TallyGenesis` has one action for each iteration of the loops of `tallyGenesis`,
each with the payment it makes. The flags are a variable: the command refuses some
(`IsRefused`: no validator, no name of the node) and panics on others it does not look
at (`CanStart`: negative numbers, which the slices of the addresses do not take, and a
key or an address of the node that does not decode). `Panics` is these, every payment
that cannot be made, and the second address that is not there. A key and an address that
decode are taken to be ones the staking module accepts. `valIdx` is shared by the two loops of
delegations, as in the code. `ShrinkVotes` cuts the votes of the genesis that was
printed, any number of times. The keepers of the SDK are external: the model has who
pays whom, which validators are bonded, and votes exported in the order of random
addresses.

## Runs

All runs keep the deadlock check: a command that is over stutters in `Ended`.

| Run | Bounds | Shows |
|---|---|---|
| `tally` | 3 accounts, 2 validators, every file of up to two votes of four ballots and one vote of each account, 3 delegation files, slashed and inactive validators | Each share counts once, for the right vote (`EffectiveBallots`), deductions stay within shares, nothing leaks but rounding, and the tally is the order-free one (`OrderIndependent`) |
| `distribution` | files of up to four accounts: two ordinary ones, one that does not convert, one ICF wallet, and voters beside a non-voter of one to five units; three parameter sets | Parts add up to the supply; every $ATOM of the accounts passed is slashed, or has the entry it is worth, also when an address does not convert; whole amounts are the supply to the rounding, non-voters hold at most a third |
| `distribution_icf` | the same, with ICF wallets whose stake voted | Finding: the cap of the non-voters does not hold |
| `govbox` | 5 addresses of which one module and one interchain account, 2 validators, 5 vote files, balances with and without uatom, a snapshot of another chain | Accounts hold what the snapshot says, their votes agree with the tally, and a genesis that is printed is one the chain starts from |
| `autostaking` | 4 validators, lists of 0 to 5 balances at and around each threshold, whales, balances that do not compare | Validators stay within one part of each other, and every balance makes all its parts, no more and no less |
| `autostaking_repeat` | the same, "basic" only | Finding: parts of one balance return to the same validator |
| `gasmonitor` | 2 runs, chains of 4 blocks, all modes of the loop, files with 0, 1 or 2 cached blocks | Only blocks of the chain are shown or cached unless two caches were spliced, windows have no hole and end where the flags say, saving keeps the cache, runs over a number of blocks end |
| `gasmonitor_nocache` | the same, with `-no-cache` allowed | Finding: a run that disables the cache replaces it |
| `tally_genesis` | all numbers of 0 to 3 validators, -1 to 2 delegators and governors, names of the node missing, malformed and well formed, the amounts of the code in millions of uatone, at most 2 bonded | The command panics on flags that cannot work and on no others, the node keeps more than 67% of the power, delegations are dealt in turn, exported and shrunk votes are those cast |
| `workflow` | 2 processes that start 4 commands in all over 3 snapshots, the second of AtomOne; two multipliers, and a list of both | Every airdrop in a file or an output is of a snapshot of the Hub; a distribution that succeeds alone leaves the two files of one airdrop, and with several parameters touches neither |
| `workflow_csv` | the same | Finding: `airdrop_detail.csv` is announced as updated although it is cut |
| `readers` | States on both sides of 128 bytes, whole and cut at 0 to 40 bytes; transactions of 4 objects; 6 lists of assets; snapshots of 5 addresses of which one module and one interchain account, 2 validators, delegations that do not divide evenly, three denominations, "duatone" coins held already, and one snapshot of the Hub; files of up to 3 lines | A gas price is the chain's or an error; the types printed are those reached through objects; a binary has its own checksum or none; the list of `gno-accounts` has all coins of the accounts that are not left out, a coin for each token they bond, to the truncation of each delegation, and no address twice; the scaled allocations add up to what is wanted, to the rounding |

Why the bounds are enough. *Tally and accounts*: the interactions are between a
voter and its validators and between two voters of one validator; three accounts
and two validators have all of these, a validator that is wholly covered by
direct votes, one that votes for its own delegation, and one that is inactive. The
order of the loops matters between two keys at least. *Distribution*: the accounts
meet only in sums; two ordinary accounts, one failing and one slashed show each
pair, and a few units beside a voter are where the divisor is mostly rounding. *Auto staking*: the thresholds are scaled down together (15 for 25_000_000
and so on) and keep the inequalities between them, which are `AmountsAssumption`;
amounts lie on both sides of each. *Gas monitor*: two runs are what a lost update
or a torn write takes; two stable blocks in a row are the least that can be
interrupted and restarted; four heights hold a window before, in and after the
cached blocks. *Tally genesis*: five delegations over two or three validators end
their turns in the middle of a delegator, and the third validator is one that is
not bonded (the SDK bonds 100 by default). The amounts are those of the code.
*Workflow*: four commands are two writers of `accounts.json`, a reader, and one
more that meets any of them halfway; two processes are what an overlap takes. The
theorems of `CommandProofs` have no bound. Three snapshots are a change of chain
there and back. *Readers*: the lengths of the window make States of up to 233 bytes,
with all of 124 to 130 among them; 256 bytes and more, where two length bytes leave room for a skipped field, are not claimed. Three of the
four objects can be nested, or in arrays.

`MaxHeight` is the one bound that the code does not have: the chain stops growing
there. A run that asks for more fails as it does above the latest height.
`MaxSnapshots` and `MaxStarts` bound what the user of `Workflow` does.

Every property of a passing run has a mutant in `PROJECT.json`: a plausible slip
in one mapped definition, written just before it, that makes the run fail.

### Fairness

`Tally` assumes `WF_vars(Next)`: it is one sequential program without input or
waiting, and the Go runtime runs it to its end. `GasMonitor` assumes
`WF_vars(Step(r))` for each run: its calls return or fail, as HTTP calls do. Nothing
is assumed of `NewBlock` or `Crash`. `Terminates` is stated only for runs asked for a
number of blocks: with `-until-stable` the loop has no bound of its own, and may
follow an unstable chain for ever. The other modules state safety only and assume
no fairness.

## Proofs

Each theorem is about the same module that TLC checks, for every value of its
constants that satisfies the module's named assumptions. They hold for any number
of accounts, validators, votes and runs, any order of the maps, any parameters and
any even `One`. `PROJECT.json` lists them with the property each one states.

`SnapshotProofs` holds what the others rest on, in this order:

- Sums. What `SumFunction` does when an index is added, removed or changed, when the
  terms are bounded, compared, split or grouped, and when the index set is the image
  of another. The induction theorems of the library take an operator as a parameter,
  which the provers here cannot instantiate. `SetInduction` does without: it is about
  a *set* of subsets that holds the empty one and every set that is one element larger
  than a member. It follows from `MinimalSubset`, which follows from the finiteness of
  the index set.
- Decimals. Rounding half to even moves by at most half of `One`. `Mul` and `Quo` of
  naturals are naturals, and are off by at most half a unit and one unit (`MulError`,
  `QuoError`). `FourParts`: the products of one amount with weights that add up to 1
  add up to the amount, but for two units. This is where the slacks of `Conservation`,
  `EffectiveBallots` and `AtomAccounted` come from. `SumOfPowers`, `SumOfShares` and
  `SumOfParts` compare the three ways in which the code computes what several
  delegations add to an option: from the shares added up, as weights of the stake, or
  one by one.
- Lists. The k-th of a set of indices (`Nth`) runs through the set in order
  (`RankBijection`), a sublist keeps what it is made of (`SublistOf`, `SublistSum`),
  and the sorted keys of a map hold each key once (`SortedKeys`).
- Files. What the parsed maps satisfy, from the assumptions on the files: types,
  delegations listed once, and the shares of a validator as the sum of its delegations
  (`ParsedVotes`, `ParsedDelegations`, `ParsedShares`, `ParsedValidators`).

The components:

- `TallyProofs`. What has been counted at any step is the sum over the delegations and
  validators the two loops have reached (`Counted`, over `Seen` and `SeenVals`),
  whatever the order in which they were reached. The rest of `IInv` is what
  the parsed snapshot satisfies (`InputsOK`), the control of the loops, and the types
  and `Conservation` (`Totals`). It gives
  `TypeCorrect`, `DeductionsCorrect` (deductions are part of the sum of all delegations,
  which is the validator's shares) and `ConservationCorrect`. `AnswerCorrect` is the
  refinement: `Tally` starts as `TallySpec` does, and every step is its one
  answer or a stutter. `EffectiveCorrect` compares each product of a rounded power
  with the exact share of the ballot (`PartError`), groups the delegations by
  validator (`SharesSplit`), and adds up per validator (`ValidatorError`).
- `DistributionProofs`. `TypeCorrect` and `SupplyCorrect` follow the operators up from
  `MulNat`; `AddAirdropStep` is shared by the three actions that add an airdrop.
  `AccountedCorrect` takes one lemma on `voteWeights`, `WeightsSum`: whatever is
  inherited from whichever validators, the weights add up to 1 but for three units
  for each delegation. `AccountError` turns it into the `AtomSlack` of an account, and
  `SurveyInv` adds up the slacks of the accounts surveyed.
  `AirdropInv` follows the second pass, and its failure: what was slashed, that every
  other account passed has the entry it is worth (no address converts to another's
  entry, so none is overwritten), and half an $ATONE for each account, for
  `NothingLostCorrect` and `CreditedCorrect`.
  `CapCorrect` is the cap of the non-voters, under `CapInput`: a target of at most a third,
  malus and supply factor at most 1, a bonus of at least 1 (the defaults of
  `distribution.go:98-102,158` satisfy them), and no ICF wallet whose stake voted Yes
  or No, which is what run `distribution_icf` breaks it with. `CapInv` follows the second
  pass: what the non-voters have so far is at most the multiplier times what they
  hold, and the voters have at least their own products, to three units for
  each account (`Shared`, `SharedAccount`, `SharedAdd`). `CapArithmetic` is the algebra
  of the formula with its five roundings. The proof found that a slack for the
  rounding of the multiplier alone is not enough: when what did not vote is a few units, the
  divisor is a rounding of it, and each share of the multiplier counts (`NonVotersCap`
  says so; with 10^18 units in 1, one unit is nothing).
- `AutoStakingProofs`: `TypeCorrect` for both algorithms; `BalancedCorrect`,
  `DustCorrect` and `PartsCorrect` for "basic". None but `Balanced` is inductive
  as it stands. `IInv` says what the loop on one balance keeps
  (`PlaceInv`: what is left to stake is so many parts plus the remainder of the
  division), what balances before and after the current one have made
  (`StakesInv`), and how many of the balances are over (`DustInv`). Lemma `Left` is
  the heart: a part is at least `PowerReduction` (`PartSize`, from
  `AmountsAssumption`) and a remainder is under it (from `PartsAssumption`), so the
  test `stake >= PowerReduction` is exactly "a part is left".
  `NoRepeatCorrect` is for "terra": the validators of the parts so far are the last so
  many of the turn (`TerraPlace`), and there are no more parts than validators, because
  a whale is cut into as many parts as there are (`TerraRound`).
- `GasMonitorProofs`: `TypeCorrect`, `BlocksCorrect` and `WindowCorrect` for any number
  of runs, any chain and flags, crashes and torn writes included; `CacheCorrect`, the
  action property `CacheKept`, under the assumption that no run has `-no-cache` (run
  `gasmonitor_nocache` shows that it is needed). `IInv` adds that a run still in
  its loop is under the stable count, that a file that does not decode
  holds no block, and, unless two caches were spliced, that all blocks are of the chain
  (`Sound`). `CutInv` is the one step that splices: the file then has blocks, and
  nothing more is known of them. `WindowInv` says of a run in its loop that it has walked from its
  first block without a hole, that its count is the length of the stable run that ends
  there, and that no stable run long enough ended before. Lemma `Kept` is the step all
  actions share: replace one entry of each variable of a run.
- `TallyGenesisProofs`: all six properties of `TallyGenesis`. `PanicsCorrect` has two
  halves: flags that cannot work end in the panic before the proposal is made, and with
  the others every payment has its funds. For the second, `Amounts` gives
  every balance, the module and the deposit as functions of the position in the
  loops, so that each payment has the funds it needs; `Balance` is
  `Ledger`, summed over addresses and validators; `Rounds` says that `valIdx` is the
  number of delegations made, modulo the validators; `Power` bounds the tokens
  of the others against the node's; `Ballots` and `Bonded` are what the votes rest on.
  `DelegatesOne` is the step the two loops of delegations share.
- `CommandProofs`, of `Workflow`: `HubCorrect` and `PairCorrect`, for any number of
  processes, commands, snapshots of either chain and flags. `IInv` adds the types of all
  variables, and `Made`: a list in the file or in a process with the fields of `Account` is of a
  snapshot of the Hub, for the command that writes these fields parsed it with the Hub's
  prefix. A list that was distributed has these fields, so that every airdrop is of
  the Hub (`Sound`). `IInv` also says what is known of a
  process at each step (`Control`), and what the two files are at each step of a
  distribution that is alone (`Pair`): `PairMatches` alone is not inductive, because
  it does not say that `airdrop.json` is whole before the detail is created.
  Lemmas `Goes` and `GoesWriting` are the two ways a step changes the processes;
  the second one ends that the others are alone.
- `CommandProofs`, of `Readers`: four of its five properties, for any transaction, release and
  file, and every State that is encoded in less than 256 bytes. Each command has an
  invariant of its own, what its loop has done so far.
  `ProtoInv`: the reader of a State is at the start of one of its fields (`IsTail`), or of
  one that was cut short, whose first byte it cannot read; with the bytes of the
  encoding (`StateBytes`, `ResponseBytes`) and one lemma for what may come
  first (`FromResponse`, `FromLongState`, `FromPrice`, `FromTail`) it gives `PriceCorrect`.
  `SignInv`: what is on the stack is reached, and some set of objects (`Covers`) has the
  messages so far, and all that its objects hold but for the fields still on the
  stack: when that is empty the set is closed, and nothing is left out (`TypesCorrect`).
  `ReleaseInv`: the binaries are those of the assets looked at (`BinariesCorrect`).
  `GnoInv`: the sums over the lines read, and half a coin for each line scaled; with the error
  of the factor (`FactorError`) it gives `ScaledSupplyCorrect`. The proof found that
  half a unit of the factor is not enough: `Quo` cuts the quotient before it rounds it, which
  is 2 units more for each `One` of coins (`GnoSupply` says so). With 10^18 units
  and 10^15 coins that is nothing.
- `GovBoxProofs`: all six properties of `GovBox`, the way from the snapshot to the
  genesis. `MadeInv` says that, whatever the order of the two loops, the accounts are
  those of the addresses reached, each a function of its address alone
  (`IsAccountFor`); it gives `AccountsTypeCorrect` and `AccountsCompleteCorrect`. `AirdropMade` says that the distribution runs on such a
  list: `ListMade` shows that the list satisfies the assumption `DistributionProofs` makes of
  the accounts, whose invariants hold here through an instance for these lists (`DP`),
  and `DistributionCorrect` follows. `DocInv` says what each section of the document
  holds while it is built: the balances written so far are the beginning of `Coins`, and the
  supply is their sum. With the rounding of each (`RoundIntError`) it
  gives `GenesisStartsCorrect`, `PoolBackedCorrect` and `SupplyIsAirdropCorrect`.
  `TallyAgreesCorrect` takes the delegations to active validators (`Bonded`) and what
  each adds to an option (`PartOf`). The tally is their sum (`TallyError`: grouped by
  validator, where silent delegators are counted through the shares they leave it), the first
  pass of the distribution is their sum (`AddressError`: grouped by address, where they are
  weights of the account), and `StakeUnits` is what the two roundings add up to.

The assumptions that carry weight, and why the code justifies them:

- Files are sequences, and come from one block (`Snapshot`): the shares of a validator
  are those of its delegations, a delegator delegates once to a validator, weights
  add up to 1. The staking and gov modules of the chain enforce all three. The operators
  of one file have one prefix (`PrefixAssumption`, and of `Workflow` `ConstantsAssumption`):
  that of the chain the file was extracted from.
- The accounts of a distribution have distinct addresses (`AccountsAssumption`):
  `accounts.json` is written from a map by address. That its staked amounts are the
  sums of its delegations is how `getAccounts` makes them, and what `govbox` checks.
- Addresses convert one to one, and those of the ICF do convert
  (`ConvertAssumption`): `convertBech32` keeps the bytes and changes the prefix, and
  the ICF wallets are constants of the program.
- `AmountsAssumption` and `RoundAssumption` of `AutoStaking` hold of the numbers of the
  code: 25_000_001 / 2 / 5, 500_000_000 / 10 and 10_000_000_000 / 20 are all at
  least 1_000_000, and 30 validators are fewer than that.
- The bank genesis has one balance for each address (`BalancesAssumption`): the bank
  module refuses another.
- No account has the bytes of the reserved address, and the account that backs the
  pool is a module account wherever the snapshot holds it (`AddedAssumption`): the
  code makes up the first, and a module account has the same bytes on every chain.
- `AmountsAssumption` of `TallyGenesis`: an address can pay its stake, or its
  delegations, and the deposit. It holds of the amounts written in the code.

- A State of the feemarket is encoded in less than 256 bytes (`ResponsesAssumption`): a
  bound of the claim and not of the chain, see the runs. Its index is under 2^14, which is
  what `EncodeVarint` can write: it is an index of the window, which has fewer bytes.
- A transaction names objects of its own (`TransactionsAssumption`), and an asset has one of the
  five stems (`ReleasesAssumption`): records that stand for decoded JSON. The wanted supply
  of `gno-airdrop` is a natural, and a malformed amount is not one (`GnoAssumption`).

Only model-checked:

- `GnoConserves`: that `gno-accounts` keeps all coins. Its loops are those `GovBoxProofs`
  is about, over amounts by denomination.
- `Terminates`, and of `OrderIndependent` that the tally does answer: liveness under
  fairness is out of the prover's reach.

## Findings

1. `distribution.go:39-40` promises that non-voters hold no more than a third of the
   supply. The multiplier is computed before the ICF wallets are slashed: when
   their stake had voted, the cap does not hold.
2. `autostaking.go:53-54` says that the size of the parts prevents staking twice
   on one validator. Algorithm "basic" does so whenever that validator remains
   the least staked; "terra" does not (`TerraNoRepeat`).
3. `gasmonitor.go:48` describes `-no-cache` as "Disable cache". Such a run does not
   read the file but still writes it, and drops every block it did not fetch.
4. `main.go:366` says of `airdrop_detail.csv` that it "has been created/updated". The
   errors of the CSV writer are never asked for (`w.Error()`, `f.Close()`): after a
   failed write the file is cut, and the command says so and succeeds all the same.

Things that no document contradicts, but that a reader should know. The
default flags of `tally-genesis` are one validator and nobody else: there is then no
second address to submit the proposal, and the command panics after all the other
work. It panics at the start on negative numbers of delegators or governors, which it does
not check as it does the number of validators, and on a key or an address of the node
that does not decode (`PanicsOnFlags` says that these are all the cases). And one address' worth of the
coins it mints stays with the bank module, as the node is counted in the amount
minted for all addresses but paid from its own (`Ledger`).

`gno-accounts` writes over the `accounts.json` of `accounts`: the next `distribution`
or `genesis` decodes it without an error and panics at the first amount. Nothing in the
file says whose snapshot it is. That no airdrop is ever of AtomOne's accounts
(`OnlyHubAirdrops`) rests on the prefixes, which make each of the two commands panic on the
other's snapshots, and on the names of the fields (the mutants drop one or the other).
Two caches of `gasmonitor` that are spliced by a cut write are taken for a cache
afterwards. A distribution that fails between its two files, or overlaps another, leaves
the files of two airdrops side by side. The price of a State of 128 to 255 bytes is
always an error, although the answer is right: a long enough window stops the gas
monitor. `findUnregisteredTypes` has a case for arrays that never matches: types in
arrays inside a message (those of a `MsgExec`, for one) are not listed. The arguments of
`HasPrefix` in `proposal.go:271` are swapped: assets of other names that are as long
are taken, and a name shorter than the prefix panics.

## What is left out, and why

- Formatting, tables, charts, logging: no state.
- The decoders of JSON, and what a cut snapshot file does to them
  (`parsing.go:190` accepts one that is cut between two elements): the snapshot
  files are whole here.
- Text and amendment proposals, the report on vesting accounts: templates and
  prints of one input. The fee simulators of `docs/*.js`: floating-point update
  rules, with no statement of what they should satisfy.
- The decoding of the whole transaction that follows the search of `signTx`, and
  `signverify`: calls of the SDK.
- Denominations in `gno-airdrop`: the code sums the amounts of all of them.
- Overflow: amounts of the distribution are big integers. The `int64` of auto
  staking are sums of balances of one token and cannot overflow below 9e18.
- A second chain behind another `-rpc` flag: the cache is keyed by height only, and
  a run then shows blocks of another chain. One chain, that of the default
  endpoint, is modelled.
- Keepers of the SDK, signatures, the services behind downloads: not part of the
  repository.
- The end states "panic" of Tally, Distribution and AutoStaking are modelled, and
  no document says what should happen instead.

## Plan

Done: the decimals, the snapshot, tally, accounts, distribution, genesis and their
composition, auto staking, the gas monitor, the benchmark genesis, the commands over
the data directory, the readers of foreign inputs, and theorems of all of them: every
safety property of a run but `GnoConserves`.

Left:

1. Liveness, which stays with TLC.
2. A theorem of `GnoConserves`.
3. The decoders of JSON on files that are cut, and a cache that is shared by two chains:
   the hazards that no property covers yet.
