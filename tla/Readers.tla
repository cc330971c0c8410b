------------------------------ MODULE Readers ------------------------------
(***************************************************************************)
(* The commands that turn one input they did not write into one output,    *)
(* and share nothing: the gas price out of the bytes of a node, the types  *)
(* out of a transaction, the binaries out of a release, the list of all    *)
(* accounts out of a snapshot of AtomOne, the scaled allocations out of a  *)
(* file.                                                                   *)
(***************************************************************************)
EXTENDS ProtoField, SignTx, Release, GnoAccounts, GnoAirdrop

VARIABLE command    \* the command that runs

readerVars == <<command, protoVars, signVars, releaseVars, accountsVars, gnoVars>>

\* The other commands get an input too, and do not run.
Given(c, inputs) == IF command = c THEN inputs ELSE {CHOOSE x \in inputs : TRUE}

ReadersInit ==
  /\ command \in {"gasmonitor", "signTx", "upgrade", "gno-accounts", "gno-airdrop"}
  /\ ProtoInit(Given("gasmonitor", Responses))
  /\ SignInit(Given("signTx", Transactions))
  /\ ReleaseInit(Given("upgrade", Releases), Given("upgrade", Upgrades))
  /\ GnoAccountsInit(Given("gno-accounts", DelegationFiles), Given("gno-accounts", BalanceFiles),
                     Given("gno-accounts", TypeFiles))
  /\ GnoInit(Given("gno-airdrop", GnoFiles))

GasPrice ==
  /\ command = "gasmonitor"
  /\ ProtoNext
  /\ UNCHANGED <<command, signVars, releaseVars, accountsVars, gnoVars>>

FindTypes ==
  /\ command = "signTx"
  /\ SignNext
  /\ UNCHANGED <<command, protoVars, releaseVars, accountsVars, gnoVars>>

ProposeUpgrade ==
  /\ command = "upgrade"
  /\ ReleaseNext
  /\ UNCHANGED <<command, protoVars, signVars, accountsVars, gnoVars>>

ListGnoAccounts ==
  /\ command = "gno-accounts"
  /\ GnoAccountsNext
  /\ UNCHANGED <<command, protoVars, signVars, releaseVars, gnoVars>>

ScaleAirdrop ==
  /\ command = "gno-airdrop"
  /\ GnoNext
  /\ UNCHANGED <<command, protoVars, signVars, releaseVars, accountsVars>>

ReadersEnded ==
  /\ CASE command = "gasmonitor"   -> reader # "reading"
       [] command = "signTx"       -> signing # "walking"
       [] command = "upgrade"      -> proposing \in {"printed", "error", "panic"}
       [] command = "gno-accounts" -> stage \in {"written", "not parsed"}
       [] command = "gno-airdrop"  -> scaling \in {"done", "panic"}
  /\ UNCHANGED readerVars

ReadersNext ==
  \/ GasPrice \/ FindTypes \/ ProposeUpgrade \/ ListGnoAccounts \/ ScaleAirdrop
  \/ ReadersEnded

ReadersSpec == ReadersInit /\ [][ReadersNext]_readerVars

-----------------------------------------------------------------------------
(* Properties                                                              *)

\* The one-byte lengths of gasmonitor.go 299: a State of less than 128 bytes
\* gives the price of the chain, and a longer one (up to 255 bytes) or one that
\* is cut gives an error, never another price.
IsWhole == response.cut >= Len(EncodeBytes(1, EncodeState(response.state)))
IsShort == Len(EncodeState(response.state)) < 128
PriceOrError ==
  /\ reader = "price" => price = response.state.price /\ IsWhole /\ IsShort
  /\ reader = "error" => ~(IsWhole /\ IsShort) \/ response.state.price = <<>>

\* The types that signTx prints (signtx.go 44-64) are, once each, the
\* unregistered ones of the objects that are reached through objects alone,
\* whatever the order of the fields.  What an array holds is never printed.
Closed(V) == ToSet(tx.messages) \subseteq V /\ \A o \in V : tx.objects[o] \subseteq V
Reached == {o \in DOMAIN tx.type : \A V \in SUBSET DOMAIN tx.type : Closed(V) => o \in V}
TypesFound ==
  /\ IsInjective(types)
  /\ signing = "printed" =>
       ToSet(types) = {tx.type[o] : o \in Reached} \ (Registered \cup {Untyped})

\* The binaries of an upgrade proposal (proposal.go 269-285): each is the asset
\* of its platform, with its own checksum or with none.  When the release only
\* holds binaries of the program and their checksums, and these were read, all
\* are listed with their checksums, whatever the order of the assets.
IsRegular ==
  /\ HasChecksums
  /\ DOMAIN release.sums = ToSet(release.assets)
  /\ \A i \in DOMAIN release.assets :
       release.assets[i].stem \in {"program", "checksums"}
BinariesVerified ==
  proposing = "printed" =>
    /\ \A p \in DOMAIN binaries :
         LET a == binaries[p].asset
         IN  /\ a \in ToSet(release.assets) /\ a.rest = p
             /\ binaries[p].checksum
                  \subseteq {release.sums[x] : x \in {a} \cap DOMAIN release.sums}
    /\ IsRegular /\ checksums # NoEntry =>
         /\ DOMAIN binaries = {a.rest : a \in ToSet(release.assets)} \cap Platform
         /\ \A p \in DOMAIN binaries : binaries[p].checksum # {}

\* The amount of a denomination that a function to coins holds on a set.
AmountOn(coinsOf, S, denom) ==
  SumFunction([x \in S |-> Lookup(coinsOf[x], denom, 0)])

\* gno-accounts (accounts.go 159-210, a copy of the loops of getAccounts): the coins
\* of the list are those of the balances of the accounts that are not
\* left out, in whichever order the two loops range over their maps, and every
\* token bonded to an active validator is one "duatone" more, but for those
\* that the accounts left out delegate, for less than a coin for each
\* delegation, and for the rounding of each voting power.  No address is
\* listed twice.
GnoConserves ==
  stage = "written" =>
    LET coinsOf == [i \in DOMAIN accounts |-> accounts[i].Coins]
        ignored == {a \in Address : accountTypes[a] \in {"module", "interchain"}}
        holders == DOMAIN balancesByAddr \ ignored
        denoms  == {"duatone"} \cup UNION {DOMAIN coinsOf[i] : i \in DOMAIN accounts}
                     \cup UNION {DOMAIN balancesByAddr[a] : a \in holders}
        \* what the list has and the balances don't
        added(d) == AmountOn(coinsOf, DOMAIN accounts, d) - AmountOn(balancesByAddr, holders, d)
        bonded  == SumFunction([v \in DOMAIN valsByAddr |-> valsByAddr[v].BondedTokens])
        active  == {ad \in Delegated(delegsByAddr) : ad[2].validator \in DOMAIN valsByAddr}
        leftOut == SumFunction([ad \in {x \in active : x[1] \in ignored} |->
                     VotingPower(ad[2].shares, valsByAddr[ad[2].validator])])
        missing == FromInt(bonded) - leftOut - FromInt(added("duatone"))
        count   == Cardinality(active)
    IN  /\ \A d \in denoms \ {"duatone"} : added(d) = 0
        /\ missing \in (-count)..(FromInt(count) + count)
        /\ \A i, j \in DOMAIN accounts : accounts[i].Address = accounts[j].Address => i = j

\* gno-airdrop prints the supply that is wanted (main.go 500-510), but for half
\* a coin for each line and half a unit of the factor for each coin scaled (the
\* quotient is cut one digit after the rounding: 2 more units for each Dec One of
\* coins), and scaling keeps the order of the allocations.
GnoSupply ==
  scaling = "done" =>
    LET slack == gnoSupply + FromInt(Len(lines)) + (2 * gnoSupply) \div One
    IN  /\ 2 * (FromInt(newSup) - FromInt(ExpSupply)) \in -slack..slack
        /\ \A i, j \in DOMAIN lines : lines[i] <= lines[j] => allocs[i] <= allocs[j]
=============================================================================
