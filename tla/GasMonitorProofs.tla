-------------------------- MODULE GasMonitorProofs --------------------------
(***************************************************************************)
(* The properties of GasMonitor for any number of runs, any chain and any  *)
(* flags.                                                                  *)
(*                                                                         *)
(* A block gets into a cache from the chain or from the file, and into the *)
(* file from a cache, whole or not at all: blocks of the chain go round,   *)
(* unless two caches are spliced.                                          *)
(* The count of stable blocks has its type because a run leaves the loop   *)
(* as soon as it reaches its bound.                                        *)
(***************************************************************************)
EXTENDS GasMonitor, TLAPS

\* The phases a run may be in, and the ones in which its loop is not over.
Phases == {"start", "load", "loop", "save", "write", "chart", "done", "failed",
           "crashed"}
Before == {"start", "load", "loop"}

\* A run that may still look at a block has not seen enough stable ones.
StableInv ==
  \A r \in Runs : pc[r] \in Before => stableCount[r] < ConsecutiveStableBlocks

\* A file that cannot be read holds no block.
FileInv == file.content # "whole" => file.blocks = NoBlocks

IInv == TypeOK /\ StableInv /\ FileInv /\ BlocksOfChain

-----------------------------------------------------------------------------
(* Lemmas on the operators.                                                *)

LEMMA HeightType == ConsecutiveStableBlocks \in Nat \ {0} /\ MaxHeight \in Nat \ {0}
BY StableAssumption, HeightAssumption

\* Nothing is said of blocks once two caches were spliced.
Sound(blocks) == spliced \/ IsOfChain(blocks)

LEMMA NoBlocksType == IsBlocks(NoBlocks) /\ Sound(NoBlocks)
BY DEF IsBlocks, NoBlocks, IsOfChain, Sound

LEMMA ExtendType ==
  ASSUME NEW blocks, IsBlocks(blocks), NEW h \in Heights, NEW gas \in Nat
  PROVE  IsBlocks(Extend(blocks, h, gas))
BY DEF IsBlocks, Extend

\* The block of a height of the chain extends blocks of the chain.
LEMMA ExtendSound ==
  ASSUME NEW blocks, Sound(blocks), NEW h \in Heights, NEW gas,
         spliced \/ (h <= latest /\ gas = chain[h])
  PROVE  Sound(Extend(blocks, h, gas))
BY DEF IsOfChain, Extend, Sound

\* What a file is.
IsFile(f) ==
  /\ f = [content |-> f.content, blocks |-> f.blocks]
  /\ f.content \in {"empty", "torn", "whole"}
  /\ IsBlocks(f.blocks)
  /\ f.content # "whole" => f.blocks = NoBlocks
  /\ Sound(f.blocks)

LEMMA FileType ==
  /\ IsFile(NoContent)
  /\ IsFile(Torn)
  /\ \A blocks : IsBlocks(blocks) /\ Sound(blocks) => IsFile(Whole(blocks))
BY NoBlocksType DEF IsFile, NoContent, Torn, Whole

LEMMA WriteType ==
  ASSUME file.content \in {"empty", "torn", "whole"},
         NEW blocks, NEW f \in WriteOutcomes(blocks)
  PROVE  f \in {Torn, Whole(blocks)}
BY DEF WriteOutcomes

\* What an action may make of the file and of one run.
LEMMA Kept ==
  ASSUME IInv, chain' = chain, latest' = latest, flags' = flags, spliced' = spliced,
         IsFile(file), file' = file \/ IsFile(file'),
         NEW r \in Runs,
         NEW p \in Phases, pc' = [pc EXCEPT ![r] = p],
         NEW s \in Nat, NEW h \in Nat,
         startBlock' = [startBlock EXCEPT ![r] = s],
         height' = [height EXCEPT ![r] = h],
         NEW c, IsBlocks(c) /\ Sound(c), cache' = [cache EXCEPT ![r] = c],
         NEW b, IsBlocks(b) /\ Sound(b), blocksData' = [blocksData EXCEPT ![r] = b],
         NEW f \in Nat, fetchCount' = [fetchCount EXCEPT ![r] = f],
         NEW n \in 0..ConsecutiveStableBlocks,
         p \in Before => n < ConsecutiveStableBlocks,
         stableCount' = [stableCount EXCEPT ![r] = n],
         NEW i \in SUBSET Heights, inFile' = [inFile EXCEPT ![r] = i]
  PROVE  IInv'
<1>1. TypeOK /\ StableInv /\ FileInv /\ BlocksOfChain
  BY DEF IInv
<1>2. IsFile(file')
  OBVIOUS
<1>3. cache' = [x \in Runs |-> IF x = r THEN c ELSE cache[x]]
      /\ blocksData' = [x \in Runs |-> IF x = r THEN b ELSE blocksData[x]]
  BY <1>1 DEF TypeOK
<1>4. /\ pc' \in [Runs -> Phases] /\ startBlock' \in [Runs -> Nat]
      /\ height' \in [Runs -> Nat] /\ fetchCount' \in [Runs -> Nat]
      /\ stableCount' \in [Runs -> 0..ConsecutiveStableBlocks]
      /\ inFile' \in [Runs -> SUBSET Heights]
  BY <1>1 DEF TypeOK, Phases
<1>5. \A x \in Runs : /\ IsBlocks(cache'[x]) /\ IsBlocks(blocksData'[x])
                      /\ Sound(cache'[x]) /\ Sound(blocksData'[x])
  BY <1>1, <1>3 DEF TypeOK, BlocksOfChain, Sound
<1>6. cache' = [x \in Runs |-> cache'[x]] /\ blocksData' = [x \in Runs |-> blocksData'[x]]
  BY <1>3
<1>7. TypeOK'
  <2>1. /\ chain' \in Chains /\ latest' \in Heights /\ flags' \in [Runs -> Flags]
        /\ spliced' \in BOOLEAN
    BY <1>1 DEF TypeOK
  <2>2. /\ file' = [content |-> file'.content, blocks |-> file'.blocks]
        /\ file'.content \in {"empty", "torn", "whole"}
        /\ IsBlocks(file'.blocks)
    BY <1>2 DEF IsFile
  <2> QED
    BY <1>4, <1>5, <1>6, <2>1, <2>2 DEF TypeOK, Phases, IsBlocks
<1>8. StableInv'
  <2>1. SUFFICES ASSUME NEW x \in Runs, pc'[x] \in Before
                 PROVE  stableCount'[x] < ConsecutiveStableBlocks
    BY DEF StableInv
  <2>2. CASE x = r
    BY <1>1, <2>1, <2>2 DEF TypeOK
  <2>3. CASE x # r
    BY <1>1, <2>1, <2>3 DEF TypeOK, StableInv
  <2> QED
    BY <2>2, <2>3
<1>9. FileInv'
  BY <1>2 DEF FileInv, IsFile
<1>10. BlocksOfChain'
  BY <1>2, <1>5 DEF BlocksOfChain, IsFile, Sound, IsOfChain
<1> QED
  BY <1>7, <1>8, <1>9, <1>10 DEF IInv

-----------------------------------------------------------------------------
(* The invariant.                                                          *)

LEMMA InitInv == Init => IInv
<1> SUFFICES ASSUME Init PROVE IInv
  OBVIOUS
<1>1. chain \in [Heights -> Nat] /\ latest \in Heights
  BY ChainsAssumption DEF Init
<1>2. IsFile(file)
  <2>1. CASE file = NoContent
    BY <2>1, FileType
  <2>2. ASSUME NEW S \in CachedHeights, \A h \in S : h <= latest,
               file = Whole(Restrict(chain, S))
        PROVE  IsFile(file)
    <3>1. S \subseteq Heights
      BY CachedAssumption
    <3>2. IsBlocks(Restrict(chain, S)) /\ Sound(Restrict(chain, S))
      BY <1>1, <2>2, <3>1 DEF Restrict, IsBlocks, IsOfChain, Sound
    <3> QED
      BY <2>2, <3>2, FileType
  <2> QED
    BY <2>1, <2>2 DEF Init
<1>3. TypeOK
  <2>1. /\ spliced \in BOOLEAN
        /\ \A r \in Runs : IsBlocks(cache[r]) /\ IsBlocks(blocksData[r])
    BY NoBlocksType DEF Init
  <2>2. /\ file = [content |-> file.content, blocks |-> file.blocks]
        /\ file.content \in {"empty", "torn", "whole"} /\ IsBlocks(file.blocks)
    BY <1>2 DEF IsFile
  <2>3. 0 \in 0..ConsecutiveStableBlocks
    BY HeightType
  <2> QED
    BY <2>1, <2>2, <2>3 DEF Init, TypeOK
<1>4. StableInv
  BY HeightType DEF Init, StableInv
<1>5. FileInv
  BY <1>2 DEF FileInv, IsFile
<1>6. BlocksOfChain
  BY <1>2, NoBlocksType DEF Init, BlocksOfChain, IsFile, Sound
<1> QED
  BY <1>3, <1>4, <1>5, <1>6 DEF IInv

\* The block of a height is shown.
LEMMA TakeBlockInv ==
  ASSUME IInv, NEW r \in Runs, pc[r] = "loop", height[r] \in Heights,
         NEW gas \in Nat, spliced \/ (height[r] <= latest /\ gas = chain[height[r]]),
         NEW fetched \in Nat, TakeBlock(r, gas, fetched),
         NEW c, IsBlocks(c) /\ Sound(c), cache' = [cache EXCEPT ![r] = c]
  PROVE  IInv'
<1> DEFINE stable == IF flags[r].untilStable THEN CountStable(r, gas) ELSE 0
           stop == flags[r].untilStable /\ stable >= ConsecutiveStableBlocks
           p == IF stop THEN AfterLoop(r, fetched) ELSE "loop"
           h == IF stop THEN height[r] ELSE height[r] + 1
           b == Extend(blocksData[r], height[r], gas)
<1>1. TypeOK /\ StableInv /\ FileInv /\ BlocksOfChain
  BY DEF IInv
<1>3. IsBlocks(b) /\ Sound(b)
  <2>1. IsBlocks(blocksData[r]) /\ Sound(blocksData[r])
    BY <1>1 DEF TypeOK, BlocksOfChain, Sound
  <2> QED
    BY <2>1, ExtendType, ExtendSound
<1>4. stable \in 0..ConsecutiveStableBlocks
  <2>1. stableCount[r] \in Nat /\ stableCount[r] < ConsecutiveStableBlocks
    BY <1>1 DEF TypeOK, StableInv, Before
  <2> QED
    BY <2>1, HeightType DEF CountStable
<1>5. ~stop => stable < ConsecutiveStableBlocks
  BY <1>4, HeightType
<1>6. p \in Phases /\ (p \in Before => stable < ConsecutiveStableBlocks)
  BY <1>5 DEF Phases, Before, AfterLoop
<1>7. h \in Nat
  BY DEF Heights
<1>8. /\ blocksData' = [blocksData EXCEPT ![r] = b]
      /\ stableCount' = [stableCount EXCEPT ![r] = stable]
      /\ fetchCount' = [fetchCount EXCEPT ![r] = fetched]
      /\ pc' = [pc EXCEPT ![r] = p]
      /\ height' = [height EXCEPT ![r] = h]
      /\ UNCHANGED <<chain, latest, file, flags, startBlock, inFile, spliced>>
  BY DEF TakeBlock, node
<1>9. /\ startBlock[r] \in Nat /\ startBlock' = [startBlock EXCEPT ![r] = startBlock[r]]
      /\ inFile[r] \in SUBSET Heights /\ inFile' = [inFile EXCEPT ![r] = inFile[r]]
      /\ IsFile(file)
  BY <1>1, <1>8 DEF TypeOK, FileInv, BlocksOfChain, IsFile, Sound
<1> HIDE DEF stable, stop, p, h, b
<1> QED
  BY <1>3, <1>4, <1>6, <1>7, <1>8, <1>9, Kept

\* A run that leaves its loop, or is over, does nothing but write the file.
LEMMA MoveInv ==
  ASSUME IInv, NEW r \in Runs, NEW p \in Phases \ Before, pc' = [pc EXCEPT ![r] = p],
         file' \in {file, NoContent, Torn, Whole(cache[r])},
         UNCHANGED <<node, flags, startBlock, height, cache, blocksData, fetchCount,
                     stableCount, inFile, spliced>>
  PROVE  IInv'
<1> DEFINE c == cache[r]
           b == blocksData[r]
           s == startBlock[r]
           h == height[r]
           f == fetchCount[r]
           n == stableCount[r]
           i == inFile[r]
<1>1. TypeOK /\ FileInv /\ BlocksOfChain
  BY DEF IInv
<1>2. /\ IsBlocks(c) /\ Sound(c)
      /\ IsBlocks(b) /\ Sound(b)
  BY <1>1 DEF TypeOK, BlocksOfChain, Sound
<1>3. IsFile(file)
  BY <1>1 DEF TypeOK, FileInv, BlocksOfChain, IsFile, Sound
<1>4. file' = file \/ IsFile(file')
  BY <1>2, FileType
<1>5. /\ s \in Nat /\ startBlock' = [startBlock EXCEPT ![r] = s]
      /\ h \in Nat /\ height' = [height EXCEPT ![r] = h]
      /\ f \in Nat /\ fetchCount' = [fetchCount EXCEPT ![r] = f]
      /\ n \in 0..ConsecutiveStableBlocks
      /\ stableCount' = [stableCount EXCEPT ![r] = n]
      /\ i \in SUBSET Heights /\ inFile' = [inFile EXCEPT ![r] = i]
  BY <1>1 DEF TypeOK
<1>6. cache' = [cache EXCEPT ![r] = c]
      /\ blocksData' = [blocksData EXCEPT ![r] = b]
  BY <1>1 DEF TypeOK
<1>7. chain' = chain /\ latest' = latest /\ flags' = flags
  BY DEF node
<1>8. p \in Phases /\ (p \in Before => n < ConsecutiveStableBlocks)
  OBVIOUS
<1> HIDE DEF c, b, s, h, f, n, i
<1> QED
  BY <1>2, <1>3, <1>4, <1>5, <1>6, <1>7, <1>8, Kept

\* A write is cut: a file that decodes is spliced.
LEMMA CutInv ==
  ASSUME IInv, NEW r \in Runs, CutFile(r), NEW p \in Phases \ Before,
         pc' = [pc EXCEPT ![r] = p],
         UNCHANGED <<node, flags, startBlock, height, cache, blocksData, fetchCount,
                     stableCount, inFile>>
  PROVE  IInv'
<1>1. TypeOK /\ StableInv
  BY DEF IInv
<1>2. CASE file' = Torn
  <2>1. spliced' = spliced
    BY <1>1, <1>2 DEF CutFile, TypeOK
  <2> QED
    BY <1>2, <2>1, MoveInv
<1>3. CASE file' # Torn
  <2>1. PICK b \in Splices(cache[r], file.blocks) : file' = Whole(b)
    BY <1>3 DEF CutFile, CutOutcomes
  <2>2. IsBlocks(cache[r]) /\ IsBlocks(file.blocks)
    BY <1>1 DEF TypeOK
  <2> DEFINE gas == Range(cache[r]) \cup Range(file.blocks)
  <2>3. gas \subseteq Nat
    BY <2>2 DEF IsBlocks, Range
  <2>4. IsBlocks(b)
    <3>1. PICK S \in SUBSET (DOMAIN cache[r] \cup DOMAIN file.blocks) : b \in [S -> gas]
      BY <2>1 DEF Splices
    <3>2. S \subseteq Heights
      BY <2>2, <3>1 DEF IsBlocks
    <3> HIDE DEF gas
    <3>3. b \in [S -> Nat] /\ DOMAIN b = S
      BY <2>3, <3>1
    <3> QED
      BY <3>2, <3>3 DEF IsBlocks
  <2>5. spliced'
    BY <1>3 DEF CutFile
  <2>6. /\ file' = [content |-> "whole", blocks |-> b]
        /\ spliced' \in BOOLEAN
        /\ pc' \in [Runs -> Phases]
    BY <1>1, <2>1, <2>5 DEF Whole, CutFile, TypeOK, Phases
  <2>7. TypeOK'
    BY <1>1, <2>4, <2>6 DEF TypeOK, Phases, IsBlocks, node
  <2>8. StableInv'
    BY <1>1 DEF StableInv, TypeOK
  <2> QED
    BY <2>5, <2>6, <2>7, <2>8 DEF IInv, FileInv, BlocksOfChain
<1> QED
  BY <1>2, <1>3

LEMMA NextInv ==
  ASSUME IInv, [Next]_vars
  PROVE  IInv'
<1>0. TypeOK /\ StableInv /\ FileInv /\ BlocksOfChain
  BY DEF IInv
<1>1. ASSUME NewBlock PROVE IInv'
  <2>1. /\ latest' = latest + 1 /\ latest < MaxHeight
        /\ UNCHANGED <<chain, file, pc, flags, startBlock, height, cache, blocksData,
                       fetchCount, stableCount, inFile, spliced>>
    BY <1>1 DEF NewBlock
  <2>2. latest \in Nat /\ latest' \in Heights
    BY <1>0, <2>1, HeightType DEF TypeOK, Heights
  <2>3. TypeOK'
    BY <1>0, <2>1, <2>2 DEF TypeOK, IsBlocks
  <2>4. BlocksOfChain'
    <3>1. ASSUME NEW blocks, IsBlocks(blocks), IsOfChain(blocks)
          PROVE  \A x \in DOMAIN blocks : x <= latest' /\ blocks[x] = chain'[x]
      BY <2>1, <2>2, <3>1 DEF IsBlocks, IsOfChain, Heights
    <3> QED
      BY <1>0, <2>1, <3>1 DEF BlocksOfChain, IsOfChain, TypeOK
  <2> QED
    BY <1>0, <2>1, <2>3, <2>4 DEF IInv, StableInv, FileInv
<1>2. ASSUME NEW r \in Runs, Step(r) \/ Crash(r) PROVE IInv'
  <2>1. CASE Start(r)
    <3> DEFINE s == IF flags[r].start # 0 THEN flags[r].start
                    ELSE IF latest - flags[r].num < 1 THEN 1
                    ELSE latest - flags[r].num
    <3>1. s \in Nat
      <4>1. flags[r].start \in Nat /\ flags[r].num \in Nat
        BY <1>0, FlagsAssumption DEF TypeOK
      <4>2. latest \in Nat
        BY <1>0 DEF TypeOK, Heights
      <4> QED
        BY <4>1, <4>2
    <3>2. /\ pc[r] = "start" /\ pc' = [pc EXCEPT ![r] = "load"]
          /\ startBlock' = [startBlock EXCEPT ![r] = s]
          /\ UNCHANGED <<chain, latest, file, flags, cache, blocksData, fetchCount,
                         stableCount, inFile, spliced>>
      BY <2>1 DEF Start, node
    <3> HIDE DEF s
    <3>3. height' = [height EXCEPT ![r] = s]
      <4>1. height' = [height EXCEPT ![r] = startBlock'[r]]
        BY <2>1 DEF Start
      <4>2. startBlock'[r] = s
        BY <1>0, <3>2 DEF TypeOK
      <4> QED
        BY <4>1, <4>2
    <3>4. IsFile(file)
      BY <1>0 DEF TypeOK, FileInv, BlocksOfChain, IsFile, Sound
    <3>5. /\ IsBlocks(cache[r]) /\ Sound(cache[r])
          /\ IsBlocks(blocksData[r]) /\ Sound(blocksData[r])
          /\ cache' = [cache EXCEPT ![r] = cache[r]]
          /\ blocksData' = [blocksData EXCEPT ![r] = blocksData[r]]
      BY <1>0, <3>2 DEF TypeOK, BlocksOfChain, Sound
    <3>6. /\ fetchCount[r] \in Nat /\ fetchCount' = [fetchCount EXCEPT ![r] = fetchCount[r]]
          /\ stableCount[r] \in 0..ConsecutiveStableBlocks
          /\ stableCount' = [stableCount EXCEPT ![r] = stableCount[r]]
          /\ inFile[r] \in SUBSET Heights /\ inFile' = [inFile EXCEPT ![r] = inFile[r]]
      BY <1>0, <3>2 DEF TypeOK
    <3>7. stableCount[r] < ConsecutiveStableBlocks /\ "load" \in Phases
      BY <1>0, <3>2 DEF StableInv, Before, Phases
    <3> QED
      BY <3>1, <3>2, <3>3, <3>4, <3>5, <3>6, <3>7, Kept
  <2>2. CASE LoadCache(r)
    <3> DEFINE c == LoadedCache(flags[r].noCache)
               i == DOMAIN file.blocks
    <3>1. /\ pc[r] = "load" /\ pc' = [pc EXCEPT ![r] = "loop"]
          /\ cache' = [cache EXCEPT ![r] = c] /\ inFile' = [inFile EXCEPT ![r] = i]
          /\ UNCHANGED <<chain, latest, file, flags, startBlock, height, blocksData,
                         fetchCount, stableCount, spliced>>
      BY <2>2 DEF LoadCache, node
    <3>2. IsFile(file)
      BY <1>0 DEF TypeOK, FileInv, BlocksOfChain, IsFile, Sound
    <3>3. IsBlocks(c) /\ Sound(c) /\ i \in SUBSET Heights
      BY <3>2, NoBlocksType DEF LoadedCache, IsFile, IsBlocks
    <3> HIDE DEF c, i
    <3>4. /\ IsBlocks(blocksData[r]) /\ Sound(blocksData[r])
          /\ blocksData' = [blocksData EXCEPT ![r] = blocksData[r]]
      BY <1>0, <3>1 DEF TypeOK, BlocksOfChain, Sound
    <3>5. /\ fetchCount[r] \in Nat /\ fetchCount' = [fetchCount EXCEPT ![r] = fetchCount[r]]
          /\ stableCount[r] \in 0..ConsecutiveStableBlocks
          /\ stableCount' = [stableCount EXCEPT ![r] = stableCount[r]]
          /\ startBlock[r] \in Nat /\ startBlock' = [startBlock EXCEPT ![r] = startBlock[r]]
          /\ height[r] \in Nat /\ height' = [height EXCEPT ![r] = height[r]]
      BY <1>0, <3>1 DEF TypeOK
    <3>6. stableCount[r] < ConsecutiveStableBlocks /\ "loop" \in Phases
      BY <1>0, <3>1 DEF StableInv, Before, Phases
    <3> QED
      BY <3>1, <3>2, <3>3, <3>4, <3>5, <3>6, Kept, ZenonT(40)
  <2>3. CASE CachedBlock(r)
    <3>1. pc[r] = "loop" /\ height[r] \in DOMAIN cache[r] /\ cache' = cache
          /\ TakeBlock(r, cache[r][height[r]], fetchCount[r])
      BY <2>3 DEF CachedBlock
    <3>2. /\ IsBlocks(cache[r]) /\ Sound(cache[r]) /\ fetchCount[r] \in Nat
          /\ cache' = [cache EXCEPT ![r] = cache[r]]
      BY <1>0, <3>1 DEF TypeOK, BlocksOfChain, Sound
    <3>3. /\ height[r] \in Heights /\ cache[r][height[r]] \in Nat
          /\ spliced \/ (/\ height[r] <= latest
                         /\ cache[r][height[r]] = chain[height[r]])
      BY <3>1, <3>2 DEF IsBlocks, IsOfChain, Sound
    <3> QED
      BY <3>1, <3>2, <3>3, TakeBlockInv
  <2>4. CASE FetchBlock(r)
    <3> DEFINE c == Extend(cache[r], height[r], chain[height[r]])
    <3>1. /\ pc[r] = "loop" /\ height[r] \in 1..latest
          /\ TakeBlock(r, chain[height[r]], fetchCount[r] + 1)
          /\ cache' = [cache EXCEPT ![r] = c]
      BY <2>4 DEF FetchBlock, BlockGas
    <3>2. latest \in Nat /\ latest <= MaxHeight /\ height[r] \in Heights
          /\ height[r] <= latest
      BY <1>0, <3>1, HeightType DEF TypeOK, Heights
    <3>3. chain[height[r]] \in Nat
      BY <1>0, <3>2, ChainsAssumption DEF TypeOK
    <3>4. IsBlocks(cache[r]) /\ Sound(cache[r]) /\ fetchCount[r] + 1 \in Nat
      BY <1>0 DEF TypeOK, BlocksOfChain, Sound
    <3>5. IsBlocks(c) /\ Sound(c)
      BY <3>2, <3>3, <3>4, ExtendType, ExtendSound
    <3> HIDE DEF c
    <3> QED
      BY <3>1, <3>2, <3>3, <3>4, <3>5, TakeBlockInv
  <2>5. CASE StartFails(r)
    BY <2>5, MoveInv DEF StartFails, node, Phases, Before
  <2>6. CASE EndWindow(r)
    <3>1. AfterLoop(r, fetchCount[r]) \in Phases \ Before
      BY DEF AfterLoop, Phases, Before
    <3> QED
      BY <2>6, <3>1, MoveInv DEF EndWindow, node
  <2>7. CASE FetchFails(r)
    BY <2>7, MoveInv DEF FetchFails, node, Phases, Before
  <2>8. CASE TruncateFile(r)
    BY <2>8, MoveInv DEF TruncateFile, node, Phases, Before
  <2>9. CASE SaveFails(r)
    BY <2>9, MoveInv DEF SaveFails, node, Phases, Before
  <2>10. CASE WriteFile(r)
    <3>1. file' \in {Torn, Whole(cache[r])}
      BY <1>0, <2>10, WriteType DEF WriteFile, TypeOK
    <3> QED
      BY <2>10, <3>1, MoveInv DEF WriteFile, node, Phases, Before
  <2>11. CASE Chart(r)
    <3>1. (IF DOMAIN blocksData[r] = {} THEN "failed" ELSE "done") \in Phases \ Before
      BY DEF Phases, Before
    <3> QED
      BY <2>11, <3>1, MoveInv DEF Chart, node
  <2>12. CASE WriteFails(r)
    BY <2>12, CutInv DEF WriteFails, node, Phases, Before
  <2>13. CASE Crash(r)
    <3>1. "crashed" \in Phases \ Before
      BY DEF Phases, Before
    <3>2. CASE UNCHANGED <<file, spliced>>
      BY <2>13, <3>1, <3>2, MoveInv DEF Crash, node
    <3>3. CASE CutFile(r)
      BY <2>13, <3>1, <3>3, CutInv DEF Crash
    <3> QED
      BY <2>13, <3>2, <3>3 DEF Crash
  <2> QED
    BY <1>2, <2>1, <2>2, <2>3, <2>4, <2>5, <2>6, <2>7, <2>8, <2>9, <2>10, <2>11, <2>12, <2>13
    DEF Step
<1>3. ASSUME UNCHANGED vars PROVE IInv'
  <2>1. TypeOK'
    BY <1>0, <1>3 DEF vars, node, TypeOK, IsBlocks
  <2> QED
    BY <1>0, <1>3, <2>1 DEF vars, node, IInv, StableInv, FileInv, BlocksOfChain, IsOfChain
<1> QED
  BY <1>1, <1>2, <1>3 DEF Next, Ended

LEMMA Invariance == Spec => []IInv
BY InitInv, NextInv, PTL DEF Spec

-----------------------------------------------------------------------------
(* The properties.                                                         *)

\* The variables always have their types; no run counts more consecutive stable
\* blocks than it takes to stop it.
THEOREM TypeCorrect == Spec => []TypeOK
<1>1. IInv => TypeOK
  BY DEF IInv
<1> QED
  BY <1>1, Invariance, PTL

\* No block is shown, cached or read back from the file that is not the block of
\* the chain, whatever the runs overlap, fail or are interrupted, unless a write
\* that was cut left two caches spliced.
THEOREM BlocksCorrect == Spec => []BlocksOfChain
<1>1. IInv => BlocksOfChain
  BY DEF IInv
<1> QED
  BY <1>1, Invariance, PTL

-----------------------------------------------------------------------------
(* Saving the cache.                                                       *)

\* A run whose flags do not keep it from loading the cache has all the blocks that
\* were in the file when it looked at it.
LoadedInv == \A r \in Runs : inFile[r] \subseteq DOMAIN cache[r]

LEMMA LoadedInit == Init => LoadedInv
BY DEF Init, LoadedInv

LEMMA LoadedNext ==
  ASSUME \A f \in Flags : ~f.noCache, IInv, LoadedInv, [Next]_vars
  PROVE  LoadedInv'
<1>0. TypeOK /\ FileInv
  BY DEF IInv
<1>1. ASSUME UNCHANGED <<cache, inFile>> PROVE LoadedInv'
  BY <1>1 DEF LoadedInv
<1>2. ASSUME NEW r \in Runs, LoadCache(r) PROVE LoadedInv'
  <2>1. ~flags[r].noCache
    BY <1>0 DEF TypeOK
  <2>2. DOMAIN LoadedCache(flags[r].noCache) = DOMAIN file.blocks
    BY <1>0, <2>1 DEF LoadedCache, FileInv
  <2>3. /\ cache' = [cache EXCEPT ![r] = LoadedCache(flags[r].noCache)]
        /\ inFile' = [inFile EXCEPT ![r] = DOMAIN file.blocks]
    BY <1>2 DEF LoadCache
  <2>4. \A x \in Runs : x # r => cache'[x] = cache[x] /\ inFile'[x] = inFile[x]
    BY <1>0, <2>3 DEF TypeOK
  <2>5. cache'[r] = LoadedCache(flags[r].noCache) /\ inFile'[r] = DOMAIN file.blocks
    BY <1>0, <2>3 DEF TypeOK
  <2> QED
    BY <2>2, <2>4, <2>5 DEF LoadedInv
<1>3. ASSUME NEW r \in Runs, FetchBlock(r) PROVE LoadedInv'
  <2> DEFINE c == Extend(cache[r], height[r], chain[height[r]])
  <2>1. cache' = [cache EXCEPT ![r] = c] /\ inFile' = inFile
    BY <1>3 DEF FetchBlock, TakeBlock, BlockGas
  <2>2. DOMAIN cache[r] \subseteq DOMAIN c
    BY DEF Extend
  <2> HIDE DEF c
  <2>3. \A x \in Runs : cache'[x] = IF x = r THEN c ELSE cache[x]
    BY <1>0, <2>1 DEF TypeOK
  <2> QED
    BY <2>1, <2>2, <2>3 DEF LoadedInv
<1>4. ASSUME NEW r \in Runs, Step(r) \/ Crash(r), ~LoadCache(r), ~FetchBlock(r)
      PROVE  UNCHANGED <<cache, inFile>>
  BY <1>4
  DEF Step, Crash, Start, StartFails, EndWindow, CachedBlock, TakeBlock, FetchFails,
      TruncateFile, SaveFails, WriteFile, WriteFails, Chart
<1> QED
  BY <1>1, <1>2, <1>3, <1>4 DEF Next, NewBlock, Ended, vars

\* A run that does not skip the cache saves every block that was in the file when
\* it started, whatever the other runs do: this is why the command loads the cache
\* before it writes it.
THEOREM CacheCorrect ==
  ASSUME \A f \in Flags : ~f.noCache
  PROVE  Spec => CacheKept
<1>1. ASSUME IInv, LoadedInv, [Next]_vars
      PROVE  [\A r \in Runs :
                pc[r] = "write" /\ pc'[r] = "chart" /\ file'.content = "whole"
                  /\ ~spliced' => inFile[r] \subseteq DOMAIN file'.blocks]_vars
  <2>1. SUFFICES ASSUME NEW r \in Runs, pc[r] = "write", pc'[r] = "chart",
                        file'.content = "whole", ~spliced'
                 PROVE  inFile[r] \subseteq DOMAIN file'.blocks
    OBVIOUS
  <2>2. TypeOK
    BY <1>1 DEF IInv
  <2>3. PICK q \in Runs : Step(q) \/ Crash(q)
    BY <1>1, <2>1 DEF Next, NewBlock, Ended, vars
  <2>4. q = r
    <3>1. SUFFICES ASSUME q # r PROVE pc'[r] = pc[r]
      BY <2>1
    <3>2. PICK p : pc' = [pc EXCEPT ![q] = p]
      BY <2>3
      DEF Step, Crash, Start, StartFails, LoadCache, EndWindow, CachedBlock, FetchBlock,
          TakeBlock, FetchFails, TruncateFile, SaveFails, WriteFile, WriteFails, Chart
    <3> QED
      BY <2>2, <3>1, <3>2 DEF TypeOK
  <2>5. ~Crash(r)
    <3>1. SUFFICES ASSUME Crash(r) PROVE pc'[r] = "crashed"
      BY <2>1
    <3> QED
      BY <2>2, <3>1 DEF Crash, TypeOK
  <2>6. ~WriteFails(r)
    <3>1. SUFFICES ASSUME CutFile(r) PROVE FALSE
      BY DEF WriteFails
    <3>2. file' = Torn
      BY <2>1, <3>1 DEF CutFile
    <3> QED
      BY <2>1, <3>2 DEF Torn
  <2>7. WriteFile(r)
    BY <2>1, <2>3, <2>4, <2>5, <2>6
    DEF Step, Start, StartFails, LoadCache, EndWindow, CachedBlock, FetchBlock,
        FetchFails, TruncateFile, SaveFails, Chart
  <2>8. file' \in {Torn, Whole(cache[r])}
    BY <2>2, <2>7, WriteType DEF WriteFile, TypeOK
  <2>9. file'.blocks = cache[r]
    BY <2>1, <2>8 DEF Torn, Whole
  <2> QED
    BY <1>1, <2>9 DEF LoadedInv
<1>2. LoadedInv /\ IInv /\ [Next]_vars => LoadedInv'
  BY LoadedNext
<1> QED
  BY <1>1, <1>2, LoadedInit, Invariance, PTL DEF Spec, CacheKept

-----------------------------------------------------------------------------
(* What a run shows.                                                       *)

\* A run with flags f that started at s has come to height h and shows blocks:
\* it skipped none, the last `count` of them are stable and the one before is
\* not, and the stable run that stops the run was not among them.
Walked(f, s, h, blocks, count) ==
  /\ s <= h
  /\ DOMAIN blocks = s..(h - 1)
  /\ ~f.untilStable => h <= s + f.num
  /\ f.untilStable =>
       /\ count <= h - s
       /\ \A x \in (h - count)..(h - 1) : IsStable(blocks[x])
       /\ count < h - s => ~IsStable(blocks[h - count - 1])
       /\ \A x \in s..(h - 1) : ~IsStableRun(blocks, x)

\* What the run shows when it leaves its loop.
Complete(f, s, blocks) ==
  IF f.untilStable
  THEN \E last \in Nat :
         /\ s <= last
         /\ DOMAIN blocks = s..last
         /\ \A x \in s..last : IsStableRun(blocks, x) <=> x = last
  ELSE DOMAIN blocks = s..(s + f.num - 1)

WindowInvOf(r) ==
  /\ pc[r] = "start" => blocksData[r] = NoBlocks /\ stableCount[r] = 0
  /\ pc[r] \in {"load", "loop"} =>
       Walked(flags[r], startBlock[r], height[r], blocksData[r], stableCount[r])
  /\ pc[r] \in {"save", "write", "chart", "done"} =>
       Complete(flags[r], startBlock[r], blocksData[r])
  /\ pc[r] = "done" => DOMAIN blocksData[r] # {}
WindowInv == \A r \in Runs : WindowInvOf(r)

LEMMA WalkStart ==
  ASSUME NEW f \in Flags, NEW s \in Nat
  PROVE  Walked(f, s, s, NoBlocks, 0)
<1>1. DOMAIN NoBlocks = {} /\ s..(s - 1) = {}
  BY DEF NoBlocks
<1>2. f.num \in Nat
  BY FlagsAssumption
<1> QED
  BY <1>1, <1>2 DEF Walked

\* A stable run that ends below h is the same whatever block h is.
LEMMA StableBelow ==
  ASSUME NEW s \in Nat, NEW h \in Nat, NEW blocks, DOMAIN blocks = s..(h - 1),
         NEW gas, NEW x \in s..(h - 1)
  PROVE  IsStableRun(Extend(blocks, h, gas), x) <=> IsStableRun(blocks, x)
<1> DEFINE more == Extend(blocks, h, gas)
           first == x - ConsecutiveStableBlocks + 1
<1>1. first \in Int /\ x \in Int
  BY HeightType
<1>2. \A y \in first..x : /\ y \in DOMAIN more <=> y \in DOMAIN blocks
                          /\ y \in DOMAIN blocks => more[y] = blocks[y]
  <2> HIDE DEF first
  <2> TAKE y \in first..x
  <2>1. y \in Int /\ y # h
    BY <1>1
  <2> QED
    BY <2>1 DEF Extend
<1> HIDE DEF more, first
<1>3. IsStableRun(more, x) <=> \A y \in first..x : y \in DOMAIN more /\ IsStable(more[y])
  BY DEF IsStableRun, first
<1>4. IsStableRun(blocks, x)
        <=> \A y \in first..x : y \in DOMAIN blocks /\ IsStable(blocks[y])
  BY DEF IsStableRun, first
<1> QED
  BY <1>2, <1>3, <1>4 DEF more

\* One more block: the run goes on, or it has reached its stable run.
LEMMA WalkStep ==
  ASSUME NEW f \in Flags, NEW s \in Nat, NEW h \in Nat, NEW blocks,
         NEW count \in Nat, count < ConsecutiveStableBlocks,
         Walked(f, s, h, blocks, count), f.untilStable \/ h <= s + f.num - 1,
         NEW gas, NEW more, more = Extend(blocks, h, gas),
         NEW new, new = IF IsStable(gas) THEN count + 1 ELSE 0
  PROVE  /\ f.untilStable /\ new >= ConsecutiveStableBlocks => Complete(f, s, more)
         /\ f.untilStable /\ new < ConsecutiveStableBlocks => Walked(f, s, h + 1, more, new)
         /\ ~f.untilStable => \A n : Walked(f, s, h + 1, more, n)
<1> PICK c \in Nat \ {0} : c = ConsecutiveStableBlocks
  BY HeightType
<1>1. s <= h /\ DOMAIN blocks = s..(h - 1) /\ f.num \in Nat
  BY FlagsAssumption DEF Walked
<1>2. /\ DOMAIN more = s..h
      /\ more[h] = gas
      /\ \A x \in s..(h - 1) : more[x] = blocks[x]
  <2>1. DOMAIN more = s..h /\ h \in s..h
    BY <1>1 DEF Extend
  <2>2. more = [x \in s..h |-> IF x = h THEN gas ELSE blocks[x]]
    BY <1>1, <2>1 DEF Extend
  <2> QED
    BY <2>1, <2>2
<1>3. \A x \in s..(h - 1) : IsStableRun(more, x) <=> IsStableRun(blocks, x)
  BY <1>1, StableBelow
<1>4. CASE ~f.untilStable
  <2>1. h + 1 <= s + f.num /\ s <= h + 1 /\ (h + 1) - 1 = h
    BY <1>1, <1>4
  <2> QED
    BY <1>2, <1>4, <2>1 DEF Walked
<1>5. CASE f.untilStable
  <2>1. /\ count <= h - s
        /\ \A x \in (h - count)..(h - 1) : IsStable(blocks[x])
        /\ count < h - s => ~IsStable(blocks[h - count - 1])
        /\ \A x \in s..(h - 1) : ~IsStableRun(blocks, x)
    BY <1>5 DEF Walked
  <2>2. \A x \in s..(h - 1) : ~IsStableRun(more, x)
    BY <1>3, <2>1
  <2>3. CASE IsStable(gas)
    <3>1. \A x \in (h - count)..h : x \in s..h /\ IsStable(more[x])
      <4> TAKE x \in (h - count)..h
      <4>1. x \in s..h
        BY <1>1, <2>1
      <4>2. x = h \/ x \in (h - count)..(h - 1)
        OBVIOUS
      <4>3. x # h => x \in s..(h - 1)
        BY <4>1
      <4> QED
        BY <1>2, <2>1, <2>3, <4>1, <4>2, <4>3
    <3>2. new = count + 1
      BY <2>3
    <3>3. CASE new >= c
      <4>1. h - c + 1 = h - count
        BY <3>2, <3>3
      <4>2. IsStableRun(more, h)
        BY <1>2, <3>1, <4>1 DEF IsStableRun
      <4>3. \A x \in s..h : x \in s..(h - 1) \/ x = h
        OBVIOUS
      <4>4. \A x \in s..h : IsStableRun(more, x) <=> x = h
        BY <2>2, <4>2, <4>3
      <4> QED
        BY <1>1, <1>2, <1>5, <3>3, <4>4 DEF Complete
    <3>4. CASE ~(new >= c)
      <4>1. new <= (h + 1) - s /\ s <= h + 1 /\ (h + 1) - 1 = h
        BY <1>1, <2>1, <3>2
      <4>2. (h + 1) - new = h - count
        BY <3>2
      <4>3. new < (h + 1) - s => ~IsStable(more[(h + 1) - new - 1])
        <5> SUFFICES ASSUME new < (h + 1) - s
                     PROVE  ~IsStable(more[h - count - 1])
          BY <4>2
        <5>1. count < h - s
          BY <3>2
        <5>2. h - count - 1 \in s..(h - 1)
          BY <5>1
        <5> QED
          BY <1>2, <2>1, <5>1, <5>2
      <4>4. ~IsStableRun(more, h)
        <5> DEFINE y == h - count - 1
        <5>1. y \in (h - c + 1)..h
          BY <3>2, <3>4
        <5>2. y \notin s..h \/ ~IsStable(more[y])
          <6>1. CASE count < h - s
            <7>1. y \in s..(h - 1)
              BY <6>1
            <7> QED
              BY <1>2, <2>1, <6>1, <7>1
          <6>2. CASE ~(count < h - s)
            <7>1. y < s
              BY <6>2
            <7> QED
              BY <7>1
          <6> QED
            BY <6>1, <6>2
        <5> HIDE DEF y
        <5> QED
          BY <1>2, <5>1, <5>2 DEF IsStableRun
      <4>5. \A x \in s..h : ~IsStableRun(more, x)
        <5>1. \A x \in s..h : x \in s..(h - 1) \/ x = h
          OBVIOUS
        <5> QED
          BY <2>2, <4>4, <5>1
      <4>6. \A x \in ((h + 1) - new)..((h + 1) - 1) : IsStable(more[x])
        BY <3>1, <4>1, <4>2
      <4> QED
        BY <1>2, <1>5, <3>4, <4>1, <4>3, <4>5, <4>6 DEF Walked
    <3> QED
      BY <3>3, <3>4
  <2>4. CASE ~IsStable(gas)
    <3>1. new = 0 /\ ~(new >= c)
      BY <2>4
    <3>2. ~IsStableRun(more, h)
      <4>1. h \in (h - c + 1)..h
        OBVIOUS
      <4> QED
        BY <1>2, <2>4, <4>1 DEF IsStableRun
    <3>3. \A x \in s..h : ~IsStableRun(more, x)
      <4>1. \A x \in s..h : x \in s..(h - 1) \/ x = h
        OBVIOUS
      <4> QED
        BY <2>2, <3>2, <4>1
    <3>4. /\ s <= h + 1 /\ (h + 1) - 1 = h /\ 0 <= (h + 1) - s
          /\ (h + 1) - 0 - 1 = h /\ ((h + 1) - 0)..h = {}
      BY <1>1
    <3> QED
      BY <1>2, <1>5, <2>4, <3>1, <3>3, <3>4 DEF Walked
  <2> QED
    BY <2>3, <2>4
<1> QED
  BY <1>4, <1>5

LEMMA WindowInit == Init => WindowInv
BY DEF Init, WindowInv, WindowInvOf

\* The block of a height is shown, by run r.
LEMMA TakeBlockWindow ==
  ASSUME IInv, NEW r \in Runs, WindowInvOf(r), pc[r] = "loop", Continues(r),
         NEW gas, NEW fetched, TakeBlock(r, gas, fetched)
  PROVE  WindowInvOf(r)'
<1> DEFINE stable == IF flags[r].untilStable THEN CountStable(r, gas) ELSE 0
           stop == flags[r].untilStable /\ stable >= ConsecutiveStableBlocks
           b == Extend(blocksData[r], height[r], gas)
           new == IF IsStable(gas) THEN stableCount[r] + 1 ELSE 0
<1>1. TypeOK /\ stableCount[r] < ConsecutiveStableBlocks
  BY DEF IInv, StableInv, Before
<1>2. /\ flags[r] \in Flags /\ startBlock[r] \in Nat /\ height[r] \in Nat
      /\ stableCount[r] \in Nat
  BY <1>1, HeightType DEF TypeOK
<1>3. /\ blocksData'[r] = b
      /\ stableCount'[r] = stable
      /\ pc'[r] = IF stop THEN AfterLoop(r, fetched) ELSE "loop"
      /\ height'[r] = IF stop THEN height[r] ELSE height[r] + 1
      /\ flags' = flags /\ startBlock' = startBlock
  <2>1. /\ r \in DOMAIN blocksData /\ r \in DOMAIN stableCount
        /\ r \in DOMAIN pc /\ r \in DOMAIN height
    BY <1>1 DEF TypeOK
  <2> QED
    BY <2>1 DEF TakeBlock
<1>4. Walked(flags[r], startBlock[r], height[r], blocksData[r], stableCount[r])
  BY DEF WindowInvOf
<1>5. flags[r].untilStable \/ height[r] <= startBlock[r] + flags[r].num - 1
  BY DEF Continues, EndBlock
<1>6. /\ flags[r].untilStable /\ new >= ConsecutiveStableBlocks
           => Complete(flags[r], startBlock[r], b)
      /\ flags[r].untilStable /\ new < ConsecutiveStableBlocks
           => Walked(flags[r], startBlock[r], height[r] + 1, b, new)
      /\ ~flags[r].untilStable
           => \A n : Walked(flags[r], startBlock[r], height[r] + 1, b, n)
  <2> HIDE DEF b, new
  <2>1. b = Extend(blocksData[r], height[r], gas)
        /\ new = IF IsStable(gas) THEN stableCount[r] + 1 ELSE 0
    BY DEF b, new
  <2> PICK f \in Flags, s \in Nat, h \in Nat, count \in Nat :
        f = flags[r] /\ s = startBlock[r] /\ h = height[r] /\ count = stableCount[r]
    BY <1>2
  <2> QED
    BY <1>1, <1>4, <1>5, <2>1, WalkStep
<1>7. flags[r].untilStable => stable = new
  BY DEF CountStable
<1>8. new \in Nat /\ ConsecutiveStableBlocks \in Nat
  BY <1>2, HeightType
<1>9. AfterLoop(r, fetched) \in {"save", "chart"}
  BY DEF AfterLoop
<1> HIDE DEF b, new, stable
<1>10. CASE stop
  <2>1. Complete(flags[r], startBlock[r], b)
    BY <1>6, <1>7, <1>10
  <2> QED
    BY <1>3, <1>9, <1>10, <2>1 DEF WindowInvOf
<1>11. CASE ~stop
  <2>1. Walked(flags[r], startBlock[r], height[r] + 1, b, stable)
    BY <1>6, <1>7, <1>8, <1>11
  <2> QED
    BY <1>3, <1>11, <2>1 DEF WindowInvOf
<1> QED
  BY <1>10, <1>11

LEMMA WindowNext ==
  ASSUME IInv, WindowInv, [Next]_vars
  PROVE  WindowInv'
<1>0. TypeOK
  BY DEF IInv
<1>1. ASSUME UNCHANGED <<pc, flags, startBlock, height, blocksData, stableCount>>
      PROVE  WindowInv'
  BY <1>1 DEF WindowInv, WindowInvOf
<1>2. ASSUME NEW r \in Runs, Step(r) \/ Crash(r) PROVE WindowInv'
  <2>0. WindowInvOf(r)
    BY DEF WindowInv
  <2>1. ASSUME NEW x \in Runs, x # r PROVE WindowInvOf(x)'
    <3>1. /\ pc'[x] = pc[x] /\ flags'[x] = flags[x] /\ startBlock'[x] = startBlock[x]
          /\ height'[x] = height[x] /\ blocksData'[x] = blocksData[x]
          /\ stableCount'[x] = stableCount[x]
      BY <1>0, <1>2, <2>1
      DEF TypeOK, Step, Crash, Start, StartFails, LoadCache, EndWindow, CachedBlock,
          FetchBlock, TakeBlock, FetchFails, TruncateFile, SaveFails, WriteFile,
          WriteFails, Chart
    <3>2. WindowInvOf(x)
      BY DEF WindowInv
    <3> QED
      BY <3>1, <3>2 DEF WindowInvOf
  <2>2. WindowInvOf(r)'
    <3>1. CASE Start(r)
      <4>1. /\ startBlock'[r] \in Nat /\ height'[r] = startBlock'[r]
        <5>1. flags[r].start \in Nat /\ flags[r].num \in Nat /\ latest \in Nat
          BY <1>0, FlagsAssumption DEF TypeOK, Heights
        <5>2. startBlock'[r] = IF flags[r].start # 0 THEN flags[r].start
                               ELSE IF latest - flags[r].num < 1 THEN 1
                               ELSE latest - flags[r].num
          BY <1>0, <3>1 DEF Start, TypeOK
        <5>3. height'[r] = startBlock'[r]
          BY <1>0, <3>1 DEF Start, TypeOK
        <5> QED
          BY <5>1, <5>2, <5>3
      <4>2. /\ pc[r] = "start" /\ pc'[r] = "load" /\ flags' = flags
            /\ blocksData' = blocksData /\ stableCount' = stableCount
        BY <1>0, <3>1 DEF Start, TypeOK
      <4>3. blocksData[r] = NoBlocks /\ stableCount[r] = 0 /\ flags[r] \in Flags
        BY <1>0, <2>0, <4>2 DEF WindowInvOf, TypeOK
      <4>4. Walked(flags[r], startBlock'[r], startBlock'[r], NoBlocks, 0)
        BY <4>1, <4>3, WalkStart
      <4> QED
        BY <4>1, <4>2, <4>3, <4>4 DEF WindowInvOf
    <3>2. CASE CachedBlock(r)
      BY <2>0, <3>2, TakeBlockWindow DEF CachedBlock
    <3>3. CASE FetchBlock(r)
      BY <2>0, <3>3, TakeBlockWindow DEF FetchBlock
    <3>4. CASE EndWindow(r)
      <4>1. /\ pc[r] = "loop" /\ ~flags[r].untilStable
            /\ ~(height[r] <= startBlock[r] + flags[r].num - 1)
            /\ pc'[r] = AfterLoop(r, fetchCount[r])
            /\ UNCHANGED <<flags, startBlock, height, blocksData, stableCount>>
        BY <1>0, <3>4 DEF EndWindow, Continues, EndBlock, TypeOK
      <4>2. AfterLoop(r, fetchCount[r]) \in {"save", "chart"}
        BY DEF AfterLoop
      <4>3. /\ DOMAIN blocksData[r] = startBlock[r]..(height[r] - 1)
            /\ height[r] <= startBlock[r] + flags[r].num
        BY <2>0, <4>1 DEF WindowInvOf, Walked
      <4>4. startBlock[r] \in Nat /\ height[r] \in Nat /\ flags[r].num \in Nat
        BY <1>0, FlagsAssumption DEF TypeOK
      <4>5. height[r] - 1 = startBlock[r] + flags[r].num - 1
        BY <4>1, <4>3, <4>4
      <4>6. Complete(flags[r], startBlock[r], blocksData[r])
        BY <4>1, <4>3, <4>5 DEF Complete
      <4> QED
        BY <4>1, <4>2, <4>6 DEF WindowInvOf
    <3>5. CASE LoadCache(r)
      <4>1. /\ pc[r] = "load" /\ pc'[r] = "loop"
            /\ UNCHANGED <<flags, startBlock, height, blocksData, stableCount>>
        BY <1>0, <3>5 DEF LoadCache, TypeOK
      <4> QED
        BY <2>0, <4>1 DEF WindowInvOf
    <3>6. CASE TruncateFile(r) \/ SaveFails(r) \/ WriteFile(r) \/ WriteFails(r)
      <4>1. /\ pc[r] \in {"save", "write"} /\ pc'[r] \in {"write", "chart"}
            /\ UNCHANGED <<flags, startBlock, height, blocksData, stableCount>>
        BY <1>0, <3>6 DEF TruncateFile, SaveFails, WriteFile, WriteFails, TypeOK
      <4> QED
        BY <2>0, <4>1 DEF WindowInvOf
    <3>7. CASE Chart(r)
      <4>1. /\ pc[r] = "chart"
            /\ pc'[r] = IF DOMAIN blocksData[r] = {} THEN "failed" ELSE "done"
            /\ UNCHANGED <<flags, startBlock, height, blocksData, stableCount>>
        BY <1>0, <3>7 DEF Chart, TypeOK
      <4> QED
        BY <2>0, <4>1 DEF WindowInvOf
    <3>8. CASE StartFails(r) \/ FetchFails(r) \/ Crash(r)
      <4>1. pc'[r] \in {"failed", "crashed"}
        BY <1>0, <3>8 DEF StartFails, FetchFails, Crash, TypeOK
      <4> QED
        BY <4>1 DEF WindowInvOf
    <3> QED
      BY <1>2, <3>1, <3>2, <3>3, <3>4, <3>5, <3>6, <3>7, <3>8 DEF Step
  <2> QED
    BY <2>1, <2>2 DEF WindowInv
<1> QED
  BY <1>1, <1>2 DEF Next, NewBlock, Ended, vars

\* What a run that ends well shows has no hole, and is what its flags ask for:
\* so many blocks, or the blocks up to the first stable run.  Whether a block
\* came from the cache or from the node, when, and what the other runs did to the
\* file meanwhile, does not show.
THEOREM WindowCorrect == Spec => []WindowShown
<1>1. IInv /\ WindowInv => WindowShown
  <2> SUFFICES ASSUME IInv, WindowInv, NEW r \in Runs, pc[r] = "done"
               PROVE  ShowsWindow(r)
    BY DEF WindowShown
  <2> PICK s \in Nat, n \in Nat : s = startBlock[r] /\ n = flags[r].num
    BY FlagsAssumption DEF IInv, TypeOK
  <2> PICK shown : shown = DOMAIN blocksData[r]
    OBVIOUS
  <2>1. Complete(flags[r], s, blocksData[r]) /\ shown # {}
    BY DEF WindowInv, WindowInvOf
  <2>2. ASSUME NEW last \in Int, shown = s..last PROVE Max(shown) = last
    <3>1. last \in shown /\ \A y \in shown : last >= y /\ (y >= last => y = last)
      BY <2>1, <2>2
    <3>2. Max(shown) \in shown /\ Max(shown) >= last
      BY <3>1 DEF Max
    <3> QED
      BY <3>1, <3>2
  <2>3. CASE flags[r].untilStable
    <3>1. PICK last \in Nat : /\ shown = s..last
                              /\ \A x \in s..last :
                                   IsStableRun(blocksData[r], x) <=> x = last
      BY <2>1, <2>3 DEF Complete
    <3> QED
      BY <2>2, <2>3, <3>1 DEF ShowsWindow
  <2>4. CASE ~flags[r].untilStable
    <3>1. shown = s..(s + n - 1)
      BY <2>1, <2>4 DEF Complete
    <3>2. Max(shown) = s + n - 1
      BY <2>2, <3>1
    <3> QED
      BY <2>4, <3>1, <3>2 DEF ShowsWindow, EndBlock
  <2> QED
    BY <2>3, <2>4
<1>2. IInv /\ WindowInv /\ [Next]_vars => WindowInv'
  BY WindowNext
<1> QED
  BY <1>1, <1>2, WindowInit, Invariance, PTL DEF Spec
=============================================================================
