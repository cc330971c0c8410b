------------------------------ MODULE Release ------------------------------
(***************************************************************************)
(* proposal.go, the upgrade proposal: the binaries of a GitHub release,    *)
(* with their checksums, as cosmovisor wants them, then the summary and    *)
(* the name of the plan.                                                   *)
(*                                                                         *)
(* An asset is the stem and the rest of its name, cut where the expected   *)
(* prefix "atomoned-TAG-" would end.                                       *)
(***************************************************************************)
EXTENDS Naturals, Sequences

CONSTANTS
  Releases,     \* the possible releases: assets in order, checksums by asset
  Upgrades      \* the possible arguments: see upgrade

Stem == {"program",     \* the expected prefix
         "lookalike",   \* another text of its length
         "checksums",   \* the start of SHA256SUMS-TAG.txt, which is longer
         "beginning",   \* the whole name is a beginning of the expected prefix
         "shorter"}     \* the whole name is shorter, and something else
Platform == {"darwin-amd64", "linux-amd64", "darwin-arm64", "linux-arm64"}

ASSUME ReleasesAssumption ==
  /\ Releases # {} /\ Upgrades # {}
  /\ \A r \in Releases : r.assets \in Seq([stem : Stem, rest : STRING])

VARIABLES
  release,      \* what the release holds
  upgrade,      \* whether the tag has a dot, -plan is given, and the summary
  asset,        \* the assets that the second loop is done with
  checksums,    \* the checksums, by asset name
  binaries,     \* the address and checksum found for each platform
  proposing     \* the next step, then "printed", "error" or "panic"

releaseVars == <<release, upgrade, asset, checksums, binaries, proposing>>

NoEntry == [x \in {} |-> x]

ReleaseInit(releases, upgrades) ==
  /\ release \in releases
  /\ upgrade \in upgrades
  /\ asset = 0
  /\ checksums = NoEntry
  /\ binaries = NoEntry
  /\ proposing = "release"

FetchRelease ==
  /\ proposing = "release"
  /\ proposing' \in {"checksums", "error"}
  /\ UNCHANGED <<release, upgrade, asset, checksums, binaries>>

HasChecksums == \E i \in DOMAIN release.assets : release.assets[i].stem = "checksums"

\* The status of the answer is not looked at: no line of an error page names
\* an asset.
ReadChecksums ==
  /\ proposing = "checksums"
  /\ IF HasChecksums THEN checksums' \in {release.sums, NoEntry} ELSE checksums' = NoEntry
  /\ proposing' = "binaries"
  /\ UNCHANGED <<release, upgrade, asset, binaries>>

\* The file cannot be fetched, or read to its end.
ChecksumsFail ==
  /\ proposing = "checksums"
  /\ HasChecksums
  /\ proposing' = "error"
  /\ UNCHANGED <<release, upgrade, asset, checksums, binaries>>

\* Mutant: the arguments of HasPrefix are put right, its negation is not.
IsSkipped_Program(a) == a.stem = "program"

\* strings.HasPrefix(expectedPrefix, name): the names that the expected prefix
\* starts with.
IsSkipped(a) == a.stem = "beginning"

\* The checksum of an asset, if it is known: an empty one is printed otherwise.
Sum(a) == IF a \in DOMAIN checksums THEN {checksums[a]} ELSE {}

\* The rest of the name is looked at, whatever its start.
TakeAsset ==
  /\ proposing = "binaries"
  /\ asset < Len(release.assets)
  /\ LET a == release.assets[asset + 1]
     IN  /\ ~IsSkipped(a) => a.stem \notin {"beginning", "shorter"}
         /\ binaries' = IF IsSkipped(a) \/ a.rest \notin Platform THEN binaries
                        ELSE [p \in DOMAIN binaries \cup {a.rest} |->
                                IF p = a.rest THEN [asset |-> a, checksum |-> Sum(a)]
                                              ELSE binaries[p]]
  /\ asset' = asset + 1
  /\ UNCHANGED <<release, upgrade, checksums, proposing>>

\* a.GetName()[len(expectedPrefix):] of a shorter name.
TakeAssetPanics ==
  /\ proposing = "binaries"
  /\ asset < Len(release.assets)
  /\ LET a == release.assets[asset + 1]
     IN  ~IsSkipped(a) /\ a.stem \in {"beginning", "shorter"}
  /\ proposing' = "panic"
  /\ UNCHANGED <<release, upgrade, asset, checksums, binaries>>

EndAssets ==
  /\ proposing = "binaries"
  /\ asset = Len(release.assets)
  /\ proposing' = "summary"
  /\ UNCHANGED <<release, upgrade, asset, checksums, binaries>>

\* A file that can be read, of at most 10000 characters.
ReadProposalSummary ==
  /\ proposing = "summary"
  /\ proposing' = IF upgrade.summary THEN "plan" ELSE "error"
  /\ UNCHANGED <<release, upgrade, asset, checksums, binaries>>

\* Without -plan the name is the tag up to its first dot: without a dot the
\* slice ends at -1.
PrintProposal ==
  /\ proposing = "plan"
  /\ proposing' = IF upgrade.plan \/ upgrade.dot THEN "printed" ELSE "panic"
  /\ UNCHANGED <<release, upgrade, asset, checksums, binaries>>

ReleaseNext ==
  \/ FetchRelease \/ ReadChecksums \/ ChecksumsFail
  \/ TakeAsset \/ TakeAssetPanics \/ EndAssets
  \/ ReadProposalSummary \/ PrintProposal
=============================================================================
