----------------------------- MODULE GasMonitor -----------------------------
(***************************************************************************)
(* gasmonitor.go: runs of the gasmonitor command over the chain of a node  *)
(* and the cache file they share.                                          *)
(*                                                                         *)
(* A run walks the heights from its first one, takes each block from the   *)
(* cache it loaded or fetches it, and stops after a number of blocks or,   *)
(* with -until-stable, after a number of consecutive blocks of low gas.    *)
(* Then it writes its cache over the file, and draws its blocks.  Several  *)
(* runs may be alive at the same time, each may be interrupted anywhere,   *)
(* and any call of the node, or the write, may fail.                       *)
(***************************************************************************)
EXTENDS Integers, FiniteSets, Functions, FiniteSetsExt

CONSTANTS
  Runs,           \* the runs of the command
  Flags,          \* their flags, [start, num, untilStable, noCache]
  MaxHeight,      \* bound: the chain stops growing there
  Chains,         \* the chains: the total gas of the block at each height
  StableGasThreshold,       \* 1_000_000
  ConsecutiveStableBlocks,  \* 10
  CachedHeights   \* the heights an earlier run may have left in the file

Heights == 1..MaxHeight

ASSUME HeightAssumption == MaxHeight \in Nat \ {0}
ASSUME ChainsAssumption == Chains \subseteq [Heights -> Nat]
ASSUME StableAssumption ==
  /\ StableGasThreshold \in Nat
  /\ ConsecutiveStableBlocks \in Nat \ {0}
ASSUME FlagsAssumption ==
  Flags \subseteq [start : Nat, num : Nat, untilStable : BOOLEAN,
                   noCache : BOOLEAN]
ASSUME CachedAssumption == CachedHeights \subseteq SUBSET Heights

VARIABLES
  chain,       \* the total gas of the block of each height
  latest,      \* the latest height of the chain
  file,        \* the cache file, [content, blocks]
  pc,          \* where each run stands
  flags,       \* its flags
  startBlock,  \* its first height
  height,      \* its current height
  cache,       \* the blocks of its cache
  blocksData,  \* the blocks it shows
  fetchCount,  \* how many of them it fetched
  stableCount, \* how many of the last ones are stable
  inFile,      \* auxiliary: the heights of the file when the run looked at it
  spliced      \* auxiliary: a write that was cut has left a file that decodes

node == <<chain, latest>>
vars == <<node, file, pc, flags, startBlock, height, cache, blocksData,
          fetchCount, stableCount, inFile, spliced>>

-----------------------------------------------------------------------------
\* Blocks are functions from their heights: a run shows them sorted by height.
\* The content of the file is "empty" when there is no file too, and "torn" when
\* it is not the JSON of a cache.
NoBlocks == [h \in {} |-> 0]
IsBlocks(f) == DOMAIN f \subseteq Heights /\ f \in [DOMAIN f -> Nat]
NoContent == [content |-> "empty", blocks |-> NoBlocks]
Torn == [content |-> "torn", blocks |-> NoBlocks]
Whole(blocks) == [content |-> "whole", blocks |-> blocks]

\* What the three calls of the node say of a block: the sum of the gas of its
\* transactions.
BlockGas(h) == chain[h]

Extend(blocks, h, gas) ==
  [x \in DOMAIN blocks \cup {h} |-> IF x = h THEN gas ELSE blocks[x]]

IsStable(gas) == gas < StableGasThreshold
EndBlock(r) == startBlock[r] + flags[r].num - 1

\* loadCache: the file, unless it is not asked for, not there or not readable.
LoadedCache(noCache) ==
  IF noCache \/ file.content # "whole" THEN NoBlocks ELSE file.blocks

\* os.WriteFile truncates the file, then writes from its beginning.  What another
\* run wrote in the meantime is covered only when it is not longer; the JSON of
\* some blocks is not longer than that of these blocks and others.
WriteOutcomes(blocks) ==
  CASE file.content = "empty" -> {Whole(blocks)}
    [] file.content = "torn"  -> {Whole(blocks), Torn}
    [] file.content = "whole" ->
         (IF DOMAIN blocks \subseteq DOMAIN file.blocks
             /\ blocks # file.blocks THEN {} ELSE {Whole(blocks)})
         \cup (IF DOMAIN file.blocks \subseteq DOMAIN blocks
               THEN {} ELSE {Torn})

\* What may decode when a write is cut over the file of another run: entries of
\* both, and at the cut the gas of one under the height of the other.
Splices(blocks, other) ==
  LET gas == Range(blocks) \cup Range(other)
  IN  UNION {[S -> gas] : S \in SUBSET (DOMAIN blocks \cup DOMAIN other)}

\* A write that is interrupted, or fails halfway: the beginning of the cache, then
\* what was in the file.
CutOutcomes(blocks) ==
  {Torn} \cup (IF file.content = "whole"
               THEN {Whole(b) : b \in Splices(blocks, file.blocks)} ELSE {})

-----------------------------------------------------------------------------
Init ==
  /\ chain \in Chains
  /\ latest \in Heights
  /\ file \in {NoContent} \cup
       {Whole(Restrict(chain, S)) : S \in {T \in CachedHeights :
                                             \A h \in T : h <= latest}}
  /\ pc = [r \in Runs |-> "start"]
  /\ flags \in [Runs -> Flags]
  /\ startBlock = [r \in Runs |-> 0]
  /\ height = [r \in Runs |-> 0]
  /\ cache = [r \in Runs |-> NoBlocks]
  /\ blocksData = [r \in Runs |-> NoBlocks]
  /\ fetchCount = [r \in Runs |-> 0]
  /\ stableCount = [r \in Runs |-> 0]
  /\ inFile = [r \in Runs |-> {}]
  /\ spliced = FALSE

\* The chain: a new block (its gas was unknown until then).
NewBlock ==
  /\ latest < MaxHeight
  /\ latest' = latest + 1
  /\ UNCHANGED <<chain, file, pc, flags, startBlock, height, cache, blocksData,
                 fetchCount, stableCount, inFile, spliced>>

\* The first height is the flag's, or is counted back from the latest one.
Start(r) ==
  /\ pc[r] = "start"
  /\ startBlock' = [startBlock EXCEPT ![r] =
       IF flags[r].start # 0 THEN flags[r].start
       ELSE IF latest - flags[r].num < 1 THEN 1
       ELSE latest - flags[r].num]
  /\ height' = [height EXCEPT ![r] = startBlock'[r]]
  /\ pc' = [pc EXCEPT ![r] = "load"]
  /\ UNCHANGED <<node, file, flags, cache, blocksData, fetchCount, stableCount,
                 inFile, spliced>>

\* The node does not tell its latest height.
StartFails(r) ==
  /\ pc[r] = "start"
  /\ flags[r].start = 0
  /\ pc' = [pc EXCEPT ![r] = "failed"]
  /\ UNCHANGED <<node, file, flags, startBlock, height, cache, blocksData,
                 fetchCount, stableCount, inFile, spliced>>

LoadCache(r) ==
  /\ pc[r] = "load"
  /\ cache' = [cache EXCEPT ![r] = LoadedCache(flags[r].noCache)]
  /\ inFile' = [inFile EXCEPT ![r] = DOMAIN file.blocks]
  /\ pc' = [pc EXCEPT ![r] = "loop"]
  /\ UNCHANGED <<node, file, flags, startBlock, height, blocksData, fetchCount,
                 stableCount, spliced>>

\* The cache is saved when some block was fetched.
AfterLoop(r, fetched) == IF fetched > 0 THEN "save" ELSE "chart"

Continues(r) == flags[r].untilStable \/ height[r] <= EndBlock(r)

\* All the blocks asked for were seen.
EndWindow(r) ==
  /\ pc[r] = "loop"
  /\ ~Continues(r)
  /\ pc' = [pc EXCEPT ![r] = AfterLoop(r, fetchCount[r])]
  /\ UNCHANGED <<node, file, flags, startBlock, height, cache, blocksData,
                 fetchCount, stableCount, inFile, spliced>>

\* Mutant: a block that is not stable does not restart the count.
CountStable_NoReset(r, gas) == stableCount[r] + (IF IsStable(gas) THEN 1 ELSE 0)

CountStable(r, gas) == IF IsStable(gas) THEN stableCount[r] + 1 ELSE 0

\* Mutant: the loop breaks one stable block late.
TakeBlock_OneMore(r, gas, fetched) ==
  LET stable == IF flags[r].untilStable THEN CountStable(r, gas) ELSE 0
      stop == flags[r].untilStable /\ stable > ConsecutiveStableBlocks
  IN  /\ blocksData' = [blocksData EXCEPT ![r] = Extend(@, height[r], gas)]
      /\ stableCount' = [stableCount EXCEPT ![r] = stable]
      /\ fetchCount' = [fetchCount EXCEPT ![r] = fetched]
      /\ pc' = [pc EXCEPT ![r] = IF stop THEN AfterLoop(r, fetched) ELSE @]
      /\ height' = [height EXCEPT ![r] = IF stop THEN @ ELSE @ + 1]
      /\ UNCHANGED <<node, file, flags, startBlock, inFile, spliced>>

\* The block of the current height is shown, and the loop goes on or breaks.
TakeBlock(r, gas, fetched) ==
  LET stable == IF flags[r].untilStable THEN CountStable(r, gas) ELSE 0
      stop == flags[r].untilStable /\ stable >= ConsecutiveStableBlocks
  IN  /\ blocksData' = [blocksData EXCEPT ![r] = Extend(@, height[r], gas)]
      /\ stableCount' = [stableCount EXCEPT ![r] = stable]
      /\ fetchCount' = [fetchCount EXCEPT ![r] = fetched]
      /\ pc' = [pc EXCEPT ![r] = IF stop THEN AfterLoop(r, fetched) ELSE @]
      /\ height' = [height EXCEPT ![r] = IF stop THEN @ ELSE @ + 1]
      /\ UNCHANGED <<node, file, flags, startBlock, inFile, spliced>>

\* Mutant: the loop continues without moving to the next height.
CachedBlock_Stuck(r) ==
  /\ pc[r] = "loop"
  /\ Continues(r)
  /\ height[r] \in DOMAIN cache[r]
  /\ blocksData' = [blocksData EXCEPT ![r] =
                      Extend(@, height[r], cache[r][height[r]])]
  /\ UNCHANGED <<node, file, flags, startBlock, inFile, spliced, stableCount,
                 fetchCount, pc, height, cache>>

\* The block is in the cache: it is not fetched again.
CachedBlock(r) ==
  /\ pc[r] = "loop"
  /\ Continues(r)
  /\ height[r] \in DOMAIN cache[r]
  /\ TakeBlock(r, cache[r][height[r]], fetchCount[r])
  /\ UNCHANGED cache

\* Mutant: a height the node has not reached is a block without gas.
FetchBlock_Ahead(r) ==
  /\ pc[r] = "loop"
  /\ Continues(r)
  /\ height[r] \in Heights \ DOMAIN cache[r]
  /\ LET gas == IF height[r] <= latest THEN chain[height[r]] ELSE 0
     IN  /\ TakeBlock(r, gas, fetchCount[r] + 1)
         /\ cache' = [cache EXCEPT ![r] = Extend(@, height[r], gas)]

\* The block is fetched: three calls of the node, about a block that exists.
FetchBlock(r) ==
  /\ pc[r] = "loop"
  /\ Continues(r)
  /\ height[r] \in 1..latest \ DOMAIN cache[r]
  /\ TakeBlock(r, BlockGas(height[r]), fetchCount[r] + 1)
  /\ cache' = [cache EXCEPT ![r] = Extend(@, height[r], BlockGas(height[r]))]

\* One of the calls fails, as they do above the latest height: the run ends, and
\* nothing of what it fetched is saved.
FetchFails(r) ==
  /\ pc[r] = "loop"
  /\ Continues(r)
  /\ height[r] \notin DOMAIN cache[r]
  /\ pc' = [pc EXCEPT ![r] = "failed"]
  /\ UNCHANGED <<node, file, flags, startBlock, height, cache, blocksData,
                 fetchCount, stableCount, inFile, spliced>>

\* saveCache, first half: the file is truncated.
TruncateFile(r) ==
  /\ pc[r] = "save"
  /\ file' = NoContent
  /\ pc' = [pc EXCEPT ![r] = "write"]
  /\ UNCHANGED <<node, flags, startBlock, height, cache, blocksData, fetchCount,
                 stableCount, inFile, spliced>>

\* The file cannot be opened: a warning.
SaveFails(r) ==
  /\ pc[r] = "save"
  /\ pc' = [pc EXCEPT ![r] = "chart"]
  /\ UNCHANGED <<node, file, flags, startBlock, height, cache, blocksData,
                 fetchCount, stableCount, inFile, spliced>>

\* Mutant: only the blocks that are shown are written.
WriteFile_ShownOnly(r) ==
  /\ pc[r] = "write"
  /\ file' \in WriteOutcomes(blocksData[r])
  /\ pc' = [pc EXCEPT ![r] = "chart"]
  /\ UNCHANGED <<node, flags, startBlock, height, cache, blocksData, fetchCount,
                 stableCount, inFile, spliced>>

\* saveCache, second half: the cache is written.
WriteFile(r) ==
  /\ pc[r] = "write"
  /\ file' \in WriteOutcomes(cache[r])
  /\ pc' = [pc EXCEPT ![r] = "chart"]
  /\ UNCHANGED <<node, flags, startBlock, height, cache, blocksData, fetchCount,
                 stableCount, inFile, spliced>>

\* The file is cut, and spliced when what is in it decodes.
CutFile(r) ==
  /\ file' \in CutOutcomes(cache[r])
  /\ spliced' = (spliced \/ file' # Torn)

\* saveCache, second half, fails: the disk is full.  A warning.
WriteFails(r) ==
  /\ pc[r] = "write"
  /\ CutFile(r)
  /\ pc' = [pc EXCEPT ![r] = "chart"]
  /\ UNCHANGED <<node, flags, startBlock, height, cache, blocksData, fetchCount,
                 stableCount, inFile>>

\* The chart is drawn, when there is a block to show.
Chart(r) ==
  /\ pc[r] = "chart"
  /\ pc' = [pc EXCEPT ![r] = IF DOMAIN blocksData[r] = {} THEN "failed"
                             ELSE "done"]
  /\ UNCHANGED <<node, file, flags, startBlock, height, cache, blocksData,
                 fetchCount, stableCount, inFile, spliced>>

\* The run is interrupted: while it writes, it may have written a part.
Crash(r) ==
  /\ pc[r] \notin {"done", "failed", "crashed"}
  /\ pc' = [pc EXCEPT ![r] = "crashed"]
  /\ \/ UNCHANGED <<file, spliced>>
     \/ pc[r] = "write" /\ CutFile(r)
  /\ UNCHANGED <<node, flags, startBlock, height, cache, blocksData, fetchCount,
                 stableCount, inFile>>

Step(r) ==
  \/ Start(r)
  \/ StartFails(r)
  \/ LoadCache(r)
  \/ EndWindow(r)
  \/ CachedBlock(r)
  \/ FetchBlock(r)
  \/ FetchFails(r)
  \/ TruncateFile(r)
  \/ SaveFails(r)
  \/ WriteFile(r)
  \/ WriteFails(r)
  \/ Chart(r)

HasEnded(r) == pc[r] \in {"done", "failed", "crashed"}

\* All the runs have ended: nothing happens any more.
Ended == (\A r \in Runs : HasEnded(r)) /\ UNCHANGED vars

Next ==
  \/ NewBlock
  \/ \E r \in Runs : Step(r) \/ Crash(r)
  \/ Ended

\* A run is one sequential program whose calls return or fail; that the chain
\* grows, or that a run is interrupted, is not assumed.
Spec == Init /\ [][Next]_vars /\ \A r \in Runs : WF_vars(Step(r))

-----------------------------------------------------------------------------
(* Properties                                                              *)

TypeOK ==
  /\ chain \in Chains
  /\ latest \in Heights
  /\ file = [content |-> file.content, blocks |-> file.blocks]
  /\ file.content \in {"empty", "torn", "whole"}
  /\ IsBlocks(file.blocks)
  /\ pc \in [Runs -> {"start", "load", "loop", "save", "write", "chart", "done",
                      "failed", "crashed"}]
  /\ flags \in [Runs -> Flags]
  /\ startBlock \in [Runs -> Nat]
  /\ height \in [Runs -> Nat]
  /\ cache = [r \in Runs |-> cache[r]]
  /\ blocksData = [r \in Runs |-> blocksData[r]]
  /\ \A r \in Runs : IsBlocks(cache[r]) /\ IsBlocks(blocksData[r])
  /\ fetchCount \in [Runs -> Nat]
  /\ stableCount \in [Runs -> 0..ConsecutiveStableBlocks]
  /\ inFile \in [Runs -> SUBSET Heights]
  /\ spliced \in BOOLEAN

IsOfChain(blocks) ==
  \A h \in DOMAIN blocks : h <= latest /\ blocks[h] = chain[h]

\* Whatever the runs overlap, fail or are interrupted, no block is ever shown,
\* cached or read back from the file that is not the block of the chain, unless
\* two caches were spliced: a write was cut over the file of another run, and the
\* bytes of both together decode.
BlocksOfChain ==
  spliced \/ /\ IsOfChain(file.blocks)
             /\ \A r \in Runs : IsOfChain(cache[r]) /\ IsOfChain(blocksData[r])

\* Enough consecutive blocks are stable, up to height b.
IsStableRun(blocks, b) ==
  \A h \in (b - ConsecutiveStableBlocks + 1)..b :
    h \in DOMAIN blocks /\ IsStable(blocks[h])

\* What a run that ends well shows has no hole: it is the window of the flags, or
\* it ends with the first stable run of blocks, cached and fetched ones alike.
ShowsWindow(r) ==
  LET shown == DOMAIN blocksData[r]
      last == Max(shown)
  IN  /\ shown = startBlock[r]..last
      /\ ~flags[r].untilStable => last = EndBlock(r)
      /\ flags[r].untilStable =>
           \A h \in shown : IsStableRun(blocksData[r], h) <=> h = last
WindowShown == \A r \in Runs : pc[r] = "done" => ShowsWindow(r)

\* saveCache: a run that saves its cache loses no block that was in the file when
\* it started (the ones another run added since may be lost, and the file may be
\* torn or spliced when another run saved between its two halves).
CacheKept ==
  [][\A r \in Runs :
       pc[r] = "write" /\ pc'[r] = "chart" /\ file'.content = "whole" /\ ~spliced'
         => inFile[r] \subseteq DOMAIN file'.blocks]_vars

\* A run that was asked for a number of blocks ends.
Terminates ==
  \A r \in Runs : pc[r] = "loop" /\ ~flags[r].untilStable ~> HasEnded(r)
=============================================================================
