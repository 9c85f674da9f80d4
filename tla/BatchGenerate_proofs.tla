-------------------------- MODULE BatchGenerate_proofs --------------------------
(***************************************************************************)
(* Proofs about BatchGenerate for any number of runs, chunks, classes and  *)
(* threads.  BatchInv holds whatever is killed or torn; on top of it       *)
(*                                                                         *)
(*   BackedInv   memory and sidecars agree (answers have class lists)      *)
(*   BornInv     nothing is older than the last clearing (not cut short)   *)
(*   FilesInv    the files each phase leaves (none of them cut short)      *)
(*   WantedInv   the pool has only chunks that need an answer              *)
(*                                                                         *)
(* and with the first and the third the refinement of BatchLedger.         *)
(***************************************************************************)
EXTENDS BatchGenerate, FiniteSetTheorems, WellFoundedInduction, TLAPS

(* The inductive invariant.                                                 *)

Before == {"idle", "clear", "load", "write", "plan"}
Working0 == {"write", "plan", "run", "merge", "import", "cleanup"}

\* All chunk files are cut from one arch.json; a fresh run has none left.
ArchInv ==
  /\ \A j, k \in DiskChunks : chunkFile[j] = chunkFile[k]
  /\ pc = "clear" => mode = "fresh"
  /\ pc = "load" /\ mode = "fresh" => \A k \in Chunk : chunkFile[k] = NoFile

\* What a run sends: all slices of arch.json, or those of the files there are,
\* of which some are left while the work directory is removed.
WorkInv ==
  /\ pc \in Working0 =>
       \/ sent = Slice[arch] /\ \A k \in DiskChunks : chunkFile[k] = arch
       \/ \A k \in Chunk : sent[k] = IF k \in DiskChunks THEN Slice[chunkFile[k]][k] ELSE {}
  /\ pc = "remove" => \A k \in DiskChunks : sent[k] = Slice[chunkFile[k]][k]

\* Sessions exist only in the pool, whose results start from nothing.
PoolInv ==
  /\ pc # "run" => queue = {} /\ running = {}
  /\ pc \in Before => fresh = Nothing
  /\ pc = "run" => \A k \in queue \cup running : prior[k] \in {NoAnswer, sidecar[k]}

\* Texts are no newer than the run, and a retry's no older than what it retried.
OrderInv ==
  \A k \in Chunk, c \in Class :
    /\ Result(sidecar[k], c) <= run
    /\ Result(fresh[k], c) # NoText => Result(prior[k], c) <= Result(fresh[k], c)

MergedInv ==
  pc \in {"import", "cleanup"} => merged = UNION {AcceptedOf(k) : k \in Indices}

BatchInv == TypeOK /\ ArchInv /\ WorkInv /\ PoolInv /\ OrderInv /\ MergedInv

-----------------------------------------------------------------------------

LEMMA NotAnOutput ==
  /\ NoFile \notin Output /\ Torn \notin Output
  /\ Classless \notin Output /\ NoAnswer \notin Output
  BY BatchAssumption

\* The texts of a result are numbers of runs.
LEMMA ResultIsRun ==
  ASSUME NEW data, NEW c \in Class
  PROVE  Result(data, c) \in 0 .. MaxRuns
  BY BatchAssumption DEF Result, Output, NoText

LEMMA NoResult ==
  ASSUME NEW c
  PROVE  /\ Result(NoFile, c) = NoText /\ Result(Torn, c) = NoText
         /\ Result(Classless, c) = NoText /\ Result(NoAnswer, c) = NoText
  BY NotAnOutput DEF Result

LEMMA NothingIsTyped ==
  /\ Nothing \in [Chunk -> Output \cup {Classless, NoAnswer}]
  /\ \A k \in Chunk : Nothing[k] = NoAnswer
  BY DEF Nothing

\* What an answer is: texts of this run, or none.
LEMMA AnswerIsTyped ==
  ASSUME run \in 0 .. MaxRuns, NEW answer \in Answer
  PROVE  /\ answer \in Output \cup {Classless, NoAnswer}
         /\ \A c \in Class : Result(answer, c) \in {NoText, run}
<1>1. CASE answer \in {[c \in Class |-> IF c \in cs THEN run ELSE NoText] : cs \in SUBSET Class}
  BY <1>1, BatchAssumption DEF Output, Result, NoText
<1>2. CASE answer \in {Classless, NoAnswer}
  BY <1>2, NoResult
<1> QED
  BY <1>1, <1>2 DEF Answer

LEMMA BatchInit == Init => BatchInv
<1> SUFFICES ASSUME Init PROVE BatchInv
  OBVIOUS
<1> USE BatchAssumption DEF Init
<1>1. TypeOK
  BY NothingIsTyped DEF TypeOK, Step
<1>2. ArchInv /\ WorkInv /\ PoolInv /\ MergedInv
  BY DEF ArchInv, DiskChunks, WorkInv, Working0, PoolInv, MergedInv
<1>3. OrderInv
  BY NoResult, NothingIsTyped DEF OrderInv, NoText
<1> QED
  BY <1>1, <1>2, <1>3 DEF BatchInv

\* A run that exits, in whatever way, leaves the files or fewer and torn ones.
LEMMA ExitStep ==
  ASSUME BatchInv, Exit, UNCHANGED <<arch, run, ghosts, mergedFile>>,
         outChunk' \in [Chunk -> Output \cup {Classless, NoFile}],
         chunkFile' \in [Chunk -> Arch \cup {NoFile, Torn}],
         sidecar' \in [Chunk -> Output \cup {Classless, NoFile, Torn}],
         \A k \in Chunk : chunkFile'[k] \in {chunkFile[k], NoFile, Torn},
         \A k \in Chunk : sidecar'[k] \in {sidecar[k], NoFile, Torn}
  PROVE  BatchInv'
<1>1. /\ pc' = "idle" /\ mode' = "fresh" /\ sent' = [k \in Chunk |-> {}]
      /\ queue' = {} /\ running' = {} /\ prior' = Nothing /\ fresh' = Nothing /\ merged' = {}
  BY DEF Exit, ForgetMemory
<1>2. TypeOK'
  BY <1>1, NothingIsTyped DEF BatchInv, TypeOK, Step, ghosts
<1>3. \A k \in DiskChunks' : k \in DiskChunks /\ chunkFile'[k] = chunkFile[k]
  BY BatchAssumption DEF DiskChunks
<1>4. ArchInv'
  BY <1>1, <1>3 DEF BatchInv, ArchInv
<1>5. WorkInv' /\ PoolInv' /\ MergedInv'
  BY <1>1 DEF WorkInv, Working0, PoolInv, MergedInv
<1>6. OrderInv'
  <2> SUFFICES ASSUME NEW k \in Chunk, NEW c \in Class
               PROVE  /\ Result(sidecar'[k], c) <= run'
                      /\ Result(fresh'[k], c) = NoText
    BY DEF OrderInv
  <2>1. Result(fresh'[k], c) = NoText
    BY <1>1, NoResult, NothingIsTyped
  <2>2. Result(sidecar[k], c) <= run /\ 0 <= run /\ run' = run
    BY DEF BatchInv, OrderInv, TypeOK
  <2>3. Result(sidecar'[k], c) \in {Result(sidecar[k], c), 0}
    BY NoResult DEF NoText
  <2> QED
    BY <2>1, <2>2, <2>3
<1> QED
  BY <1>2, <1>4, <1>5, <1>6 DEF BatchInv

LEMMA ExitingSteps ==
  ASSUME BatchInv,
         \/ GeneratorUnavailable \/ ImportFails \/ KeepWorkDir \/ RemovalEnds \/ Kill
         \/ KillInWriteSidecar \/ \E k \in Chunk : KillInWriteChunk(k)
  PROVE  BatchInv'
<1>1. TypeOK
  BY DEF BatchInv
<1>2. CASE GeneratorUnavailable \/ ImportFails \/ KeepWorkDir \/ Kill
  BY <1>1, <1>2, ExitStep DEF GeneratorUnavailable, ImportFails, KeepWorkDir, Kill, disk, TypeOK
<1>3. CASE RemovalEnds
  BY <1>1, <1>3, ExitStep DEF RemovalEnds, disk, TypeOK
<1>4. CASE KillInWriteSidecar
  BY <1>1, <1>4, ExitStep DEF KillInWriteSidecar, TypeOK
<1>5. CASE \E k \in Chunk : KillInWriteChunk(k)
  BY <1>1, <1>5, ExitStep DEF KillInWriteChunk, TypeOK
<1> QED
  BY <1>2, <1>3, <1>4, <1>5

-----------------------------------------------------------------------------
(* Steps that only move on.                                                 *)

\* Everything but the step and the export stays.
LEMMA QuietStep ==
  ASSUME BatchInv, UNCHANGED <<disk, mode, memory, run, ghosts>>
  PROVE  /\ UNCHANGED <<DiskChunks, Indices>> /\ OrderInv'
         /\ \A k \in Chunk : AcceptedOf(k)' = AcceptedOf(k)
         /\ (arch' \in Arch /\ pc' \in Step) => TypeOK'
<1> USE DEF disk, memory, ghosts
<1>1. UNCHANGED <<DiskChunks, Indices>>
  BY DEF DiskChunks, Indices
<1>2. OrderInv'
  BY DEF BatchInv, OrderInv
<1>3. \A k \in Chunk : AcceptedOf(k)' = AcceptedOf(k)
  BY DEF AcceptedOf, Entries
<1>4. (arch' \in Arch /\ pc' \in Step) => TypeOK'
  BY DEF BatchInv, TypeOK
<1> QED
  BY <1>1, <1>2, <1>3, <1>4

LEMMA ReexportStep == ASSUME BatchInv, Reexport PROVE BatchInv'
<1>1. /\ pc = "idle" /\ pc' = "idle" /\ arch' \in Arch
      /\ UNCHANGED <<disk, mode, memory, run, ghosts>>
  BY DEF Reexport
<1>2. ArchInv' /\ WorkInv' /\ PoolInv' /\ MergedInv'
  BY <1>1, QuietStep DEF BatchInv, ArchInv, WorkInv, Working0, PoolInv, MergedInv, disk, memory
<1> QED
  BY <1>1, <1>2, QuietStep DEF BatchInv, Step

LEMMA StartRunStep ==
  ASSUME BatchInv, NEW m \in {"fresh", "resume", "merge"}, StartRun(m) PROVE BatchInv'
<1>1. /\ pc = "idle" /\ run < MaxRuns /\ run' = run + 1 /\ mode' = m
      /\ pc' = IF m = "fresh" THEN "clear" ELSE "load"
      /\ born' = IF m = "fresh" THEN run + 1 ELSE born
      /\ UNCHANGED <<arch, disk, memory, batch>>
  BY DEF StartRun
<1>2. TypeOK'
  <2>1. run' \in 0 .. MaxRuns /\ born' \in 0 .. run'
    BY <1>1, BatchAssumption DEF BatchInv, TypeOK
  <2>2. pc' \in Step
    BY <1>1 DEF Step
  <2>3. /\ UNCHANGED <<arch, batch, chunkFile, sidecar, outChunk, mergedFile, sent, queue, running,
                       prior, fresh, merged>>
    BY <1>1 DEF disk, memory
  <2> QED
    BY <1>1, <2>1, <2>2, <2>3 DEF BatchInv, TypeOK
<1>3. ArchInv' /\ WorkInv' /\ PoolInv' /\ MergedInv'
  BY <1>1 DEF BatchInv, ArchInv, DiskChunks, WorkInv, Working0, PoolInv, Before, MergedInv, disk, memory
<1>4. OrderInv'
  <2> SUFFICES ASSUME NEW k \in Chunk, NEW c \in Class
               PROVE  /\ Result(sidecar[k], c) <= run'
                      /\ Result(fresh[k], c) # NoText => Result(prior[k], c) <= Result(fresh[k], c)
    BY <1>1 DEF OrderInv, disk, memory
  <2>1. Result(sidecar[k], c) <= run /\ Result(sidecar[k], c) \in 0 .. MaxRuns /\ run \in 0 .. MaxRuns
    BY ResultIsRun DEF BatchInv, OrderInv, TypeOK
  <2> QED
    BY <1>1, <2>1, BatchAssumption DEF BatchInv, OrderInv
<1> QED
  BY <1>2, <1>3, <1>4 DEF BatchInv

LEMMA ClearedStep == ASSUME BatchInv, Cleared PROVE BatchInv'
<1>1. /\ pc = "clear" /\ pc' = "load" /\ Leftover = {} /\ mode = "fresh"
      /\ UNCHANGED <<arch, disk, mode, memory, run, ghosts>>
  BY DEF Cleared, BatchInv, ArchInv
<1>2. \A k \in Chunk : chunkFile[k] = NoFile
  <2>1. Present(chunkFile) = {}
    BY <1>1 DEF Leftover, Files
  <2> QED
    BY <2>1 DEF Present
<1>3. ArchInv' /\ WorkInv' /\ PoolInv' /\ MergedInv'
  BY <1>1, <1>2, QuietStep DEF BatchInv, ArchInv, WorkInv, Working0, PoolInv, Before, MergedInv, disk, memory
<1> QED
  BY <1>1, <1>3, QuietStep DEF BatchInv, Step, TypeOK

LEMMA ChunksWrittenStep == ASSUME BatchInv, ChunksWritten PROVE BatchInv'
<1>1. /\ pc = "write" /\ pc' = "plan" /\ UNCHANGED <<arch, disk, mode, memory, run, ghosts>>
  BY DEF ChunksWritten
<1>2. ArchInv' /\ WorkInv' /\ PoolInv' /\ MergedInv'
  BY <1>1, QuietStep DEF BatchInv, ArchInv, WorkInv, Working0, PoolInv, Before, MergedInv, disk, memory
<1> QED
  BY <1>1, <1>2, QuietStep DEF BatchInv, Step, TypeOK

LEMMA AllSessionsEndedStep == ASSUME BatchInv, AllSessionsEnded PROVE BatchInv'
<1>1. /\ pc = "run" /\ pc' = "merge" /\ queue = {} /\ running = {}
      /\ UNCHANGED <<arch, disk, mode, memory, run, ghosts>>
  BY DEF AllSessionsEnded
<1>2. ArchInv' /\ WorkInv' /\ PoolInv' /\ MergedInv'
  BY <1>1, QuietStep DEF BatchInv, ArchInv, WorkInv, Working0, PoolInv, Before, MergedInv, disk, memory
<1> QED
  BY <1>1, <1>2, QuietStep DEF BatchInv, Step, TypeOK

LEMMA ImportStep == ASSUME BatchInv, Import PROVE BatchInv'
<1>1. /\ pc = "import" /\ pc' = "cleanup" /\ UNCHANGED <<arch, disk, mode, memory, run, ghosts>>
  BY DEF Import
<1>2. ArchInv' /\ WorkInv' /\ PoolInv'
  BY <1>1, QuietStep DEF BatchInv, ArchInv, WorkInv, Working0, PoolInv, Before, disk, memory
<1>3. MergedInv'
  BY <1>1, QuietStep DEF BatchInv, MergedInv, memory, Indices
<1> QED
  BY <1>1, <1>2, <1>3, QuietStep DEF BatchInv, Step, TypeOK

LEMMA BeginRemovalStep == ASSUME BatchInv, BeginRemoval PROVE BatchInv'
<1>1. /\ pc = "cleanup" /\ pc' = "remove" /\ UNCHANGED <<arch, disk, mode, memory, run, ghosts>>
  BY DEF BeginRemoval
<1>2. ArchInv' /\ PoolInv' /\ MergedInv'
  BY <1>1, QuietStep DEF BatchInv, ArchInv, PoolInv, Before, MergedInv, disk, memory
<1>3. WorkInv'
  <2>1. \A k \in DiskChunks : sent[k] = Slice[chunkFile[k]][k]
    BY <1>1 DEF BatchInv, WorkInv, Working0, DiskChunks
  <2> QED
    BY <1>1, <2>1, QuietStep DEF WorkInv, Working0, disk, memory
<1> QED
  BY <1>1, <1>2, <1>3, QuietStep DEF BatchInv, Step, TypeOK

LEMMA BatchStutter == ASSUME BatchInv, UNCHANGED vars PROVE BatchInv'
<1>1. UNCHANGED <<arch, disk, pc, mode, memory, run, ghosts>>
  BY DEF vars
<1>2. ArchInv' /\ WorkInv' /\ PoolInv'
  BY <1>1, QuietStep DEF BatchInv, ArchInv, WorkInv, PoolInv, disk, memory
<1>3. MergedInv'
  BY <1>1, QuietStep DEF BatchInv, MergedInv, memory, Indices
<1> QED
  BY <1>1, <1>2, <1>3, QuietStep DEF BatchInv, TypeOK

-----------------------------------------------------------------------------
(* Steps on the work directory.                                             *)

\* What the unlinking of one file leaves.
LEMMA AFileLess ==
  ASSUME TypeOK, NEW f, UnlinkFile(f)
  PROVE  /\ chunkFile' \in [Chunk -> Arch \cup {NoFile, Torn}]
         /\ sidecar' \in [Chunk -> Output \cup {Classless, NoFile, Torn}]
         /\ outChunk' \in [Chunk -> Output \cup {Classless, NoFile}]
         /\ \A k \in Chunk : /\ chunkFile'[k] \in {chunkFile[k], NoFile}
                             /\ sidecar'[k] \in {sidecar[k], NoFile}
                             /\ outChunk'[k] \in {outChunk[k], NoFile}
         /\ mergedFile' = mergedFile
<1>1. /\ chunkFile' \in [Chunk -> Arch \cup {NoFile, Torn}]
      /\ \A k \in Chunk : chunkFile'[k] \in {chunkFile[k], NoFile}
  BY DEF UnlinkFile, Without, TypeOK
<1>2. /\ sidecar' \in [Chunk -> Output \cup {Classless, NoFile, Torn}]
      /\ \A k \in Chunk : sidecar'[k] \in {sidecar[k], NoFile}
  BY DEF UnlinkFile, Without, TypeOK
<1>3. /\ outChunk' \in [Chunk -> Output \cup {Classless, NoFile}]
      /\ \A k \in Chunk : outChunk'[k] \in {outChunk[k], NoFile}
  BY DEF UnlinkFile, Without, TypeOK
<1> QED
  BY <1>1, <1>2, <1>3 DEF UnlinkFile

LEMMA UnlinkStep == ASSUME BatchInv, Unlink \/ RemoveFile PROVE BatchInv'
<1> USE BatchAssumption
<1>1. /\ pc \in {"clear", "remove"} /\ UNCHANGED <<arch, pc, mode, memory, run, ghosts>>
      /\ \E f : UnlinkFile(f)
  BY DEF Unlink, RemoveFile
<1>2. TypeOK
  BY DEF BatchInv
<1>3. /\ chunkFile' \in [Chunk -> Arch \cup {NoFile, Torn}]
      /\ sidecar' \in [Chunk -> Output \cup {Classless, NoFile, Torn}]
      /\ outChunk' \in [Chunk -> Output \cup {Classless, NoFile}]
      /\ \A k \in Chunk : chunkFile'[k] \in {chunkFile[k], NoFile} /\ sidecar'[k] \in {sidecar[k], NoFile}
      /\ mergedFile' = mergedFile
  BY <1>1, <1>2, AFileLess
<1>4. TypeOK'
  BY <1>1, <1>2, <1>3 DEF TypeOK, memory, ghosts
<1>5. \A k \in DiskChunks' : k \in DiskChunks /\ chunkFile'[k] = chunkFile[k]
  BY <1>3 DEF DiskChunks
<1>6. ArchInv'
  BY <1>1, <1>5 DEF BatchInv, ArchInv
<1>7. WorkInv'
  BY <1>1, <1>5 DEF BatchInv, WorkInv, Working0, memory
<1>8. PoolInv' /\ MergedInv'
  BY <1>1 DEF BatchInv, PoolInv, Before, MergedInv, memory
<1>9. OrderInv'
  <2> SUFFICES ASSUME NEW k \in Chunk, NEW c \in Class
               PROVE  Result(sidecar'[k], c) <= run
    BY <1>1 DEF BatchInv, OrderInv, memory
  <2>1. Result(sidecar[k], c) <= run /\ 0 <= run
    BY DEF BatchInv, OrderInv, TypeOK
  <2>2. Result(sidecar'[k], c) \in {Result(sidecar[k], c), 0}
    BY <1>3, NoResult DEF NoText
  <2> QED
    BY <2>1, <2>2
<1> QED
  BY <1>4, <1>6, <1>7, <1>8, <1>9 DEF BatchInv

LEMMA LoadStep == ASSUME BatchInv, Load PROVE BatchInv'
<1> USE BatchAssumption
<1>1. /\ pc = "load" /\ pc' \in {"merge", "write"}
      /\ sent' = IF FromDisk
                 THEN [k \in Chunk |-> IF k \in DiskChunks THEN Slice[chunkFile[k]][k] ELSE {}]
                 ELSE Slice[arch]
      /\ batch' = IF FromDisk THEN batch ELSE arch
      /\ \/ prior' = [k \in Chunk |-> IF sent'[k] # {} THEN ReadBack(k) ELSE NoAnswer]
         \/ prior' = prior
      /\ UNCHANGED <<arch, disk, mode, queue, running, fresh, merged, run, born>>
  BY DEF Load
<1>2. TypeOK /\ fresh = Nothing /\ queue = {} /\ running = {}
  BY <1>1 DEF BatchInv, PoolInv, Before
<1>3. UNCHANGED <<chunkFile, sidecar, outChunk, mergedFile, DiskChunks>>
  BY <1>1 DEF disk, DiskChunks
<1>4. sent' \in [Chunk -> SUBSET Class]
  <2>1. Slice[arch] \in [Chunk -> SUBSET Class]
    BY <1>2 DEF TypeOK
  <2>2. \A k \in DiskChunks : Slice[chunkFile[k]][k] \in SUBSET Class
    BY DEF DiskChunks
  <2> QED
    BY <1>1, <2>1, <2>2
<1>5. prior' \in [Chunk -> Output \cup {Classless, NoAnswer}]
  <2>1. \A k \in Chunk : ReadBack(k) \in Output \cup {Classless, NoAnswer}
    BY <1>2 DEF TypeOK, ReadBack
  <2> QED
    BY <1>1, <1>2, <2>1 DEF TypeOK
<1>6. TypeOK'
  <2>1. pc' \in Step /\ batch' \in Arch
    BY <1>1, <1>2 DEF TypeOK, Step
  <2> QED
    BY <1>1, <1>2, <1>3, <1>4, <1>5, <2>1 DEF TypeOK
<1>7. ArchInv'
  BY <1>1, <1>3 DEF BatchInv, ArchInv
<1>8. WorkInv'
  <2>1. CASE FromDisk
    <3>1. \A k \in Chunk : sent'[k] = IF k \in DiskChunks THEN Slice[chunkFile[k]][k] ELSE {}
      BY <1>1, <2>1
    <3> QED
      BY <1>1, <1>3, <3>1 DEF WorkInv
  <2>2. CASE ~FromDisk
    <3>1. DiskChunks = {}
      <4>1. mode \in {"fresh", "resume", "merge"}
        BY <1>2 DEF TypeOK
      <4>2. mode = "fresh" => DiskChunks = {}
        BY <1>1 DEF BatchInv, ArchInv, DiskChunks
      <4> QED
        BY <2>2, <4>1, <4>2 DEF FromDisk
    <3> QED
      BY <1>1, <1>3, <2>2, <3>1 DEF WorkInv
  <2> QED
    BY <2>1, <2>2
<1>9. PoolInv' /\ MergedInv'
  BY <1>1, <1>2 DEF PoolInv, MergedInv
<1>10. OrderInv'
  <2>1. \A k \in Chunk, c \in Class : Result(fresh'[k], c) = NoText
    BY <1>1, <1>2, NoResult, NothingIsTyped
  <2> QED
    BY <1>1, <1>3, <2>1 DEF BatchInv, OrderInv
<1> QED
  BY <1>6, <1>7, <1>8, <1>9, <1>10 DEF BatchInv

LEMMA WriteChunkStep == ASSUME BatchInv, NEW k \in Chunk, WriteChunk(k) PROVE BatchInv'
<1> USE BatchAssumption
<1>1. /\ pc = "write" /\ k \in Unwritten /\ chunkFile' = [chunkFile EXCEPT ![k] = arch]
      /\ UNCHANGED <<arch, sidecar, outChunk, mergedFile, pc, mode, memory, run, ghosts>>
  BY DEF WriteChunk
<1>2. TypeOK /\ TypeOK'
  <2>1. TypeOK
    BY DEF BatchInv
  <2>2. chunkFile' \in [Chunk -> Arch \cup {NoFile, Torn}]
    BY <1>1, <2>1 DEF TypeOK
  <2> QED
    BY <1>1, <2>1, <2>2 DEF TypeOK, memory, ghosts
<1>3. sent[k] # {} /\ chunkFile[k] = NoFile
  BY <1>1 DEF Unwritten, Indices
<1>4. sent = Slice[arch] /\ \A j \in DiskChunks : chunkFile[j] = arch
  <2>1. k \notin DiskChunks
    BY <1>3 DEF DiskChunks
  <2> QED
    BY <1>1, <1>3, <2>1 DEF BatchInv, WorkInv, Working0
<1>5. \A j \in DiskChunks' : chunkFile'[j] = arch
  <2>1. TAKE j \in DiskChunks'
  <2>2. CASE j = k
    BY <1>1, <1>2, <2>2 DEF TypeOK
  <2>3. CASE j # k
    BY <1>1, <1>2, <1>4, <2>3 DEF DiskChunks, TypeOK
  <2> QED
    BY <2>2, <2>3
<1>6. ArchInv'
  BY <1>1, <1>5 DEF ArchInv
<1>7. WorkInv'
  BY <1>1, <1>4, <1>5 DEF WorkInv, memory
<1>8. PoolInv' /\ OrderInv' /\ MergedInv'
  BY <1>1 DEF BatchInv, PoolInv, OrderInv, MergedInv, memory
<1> QED
  BY <1>2, <1>6, <1>7, <1>8 DEF BatchInv

LEMMA WriteOutChunkStep == ASSUME BatchInv, NEW k \in Chunk, WriteOutChunk(k) PROVE BatchInv'
<1>1. /\ pc = "idle" /\ UNCHANGED <<arch, chunkFile, sidecar, mergedFile, pc, mode, memory, run, ghosts>>
      /\ \E out \in Answer \ {NoAnswer, outChunk[k]} : outChunk' = [outChunk EXCEPT ![k] = out]
  BY DEF WriteOutChunk
<1>2. outChunk' \in [Chunk -> Output \cup {Classless, NoFile}]
  <2>1. run \in 0 .. MaxRuns /\ outChunk \in [Chunk -> Output \cup {Classless, NoFile}]
    BY DEF BatchInv, TypeOK
  <2>2. \A out \in Answer \ {NoAnswer} : out \in Output \cup {Classless}
    BY <2>1, AnswerIsTyped
  <2> QED
    BY <1>1, <2>1, <2>2
<1>3. TypeOK'
  BY <1>1, <1>2 DEF BatchInv, TypeOK, memory, ghosts
<1>4. ArchInv' /\ WorkInv' /\ PoolInv' /\ OrderInv' /\ MergedInv'
  BY <1>1 DEF BatchInv, ArchInv, DiskChunks, WorkInv, Working0, PoolInv, OrderInv, MergedInv, memory
<1> QED
  BY <1>3, <1>4 DEF BatchInv

-----------------------------------------------------------------------------
(* Sessions and the merge.                                                  *)

LEMMA PlanStep == ASSUME BatchInv, Plan PROVE BatchInv'
<1> DEFINE kept == IF mode = "resume"
                   THEN {k \in Indices : Accepted(sent[k], sidecar[k], {}) # {}} ELSE {}
<1>1. /\ pc = "plan" /\ pc' = "run"
      /\ prior' = [k \in Chunk |-> IF k \in kept THEN sidecar[k] ELSE NoAnswer]
      /\ queue' = {k \in Indices : k \notin kept \/ ~Complete(sent[k], sidecar[k])}
      /\ UNCHANGED <<arch, disk, mode, sent, running, fresh, merged, run, ghosts>>
  BY DEF Plan
<1>2. TypeOK /\ running = {} /\ fresh = Nothing
  BY <1>1 DEF BatchInv, PoolInv, Before
<1>3. \A k \in kept : sidecar[k] \in Output
  BY DEF Accepted, Described
<1>4. prior' \in [Chunk -> Output \cup {Classless, NoAnswer}] /\ queue' \subseteq Chunk
  BY <1>1, <1>3 DEF Indices
<1>5. TypeOK'
  BY <1>1, <1>2, <1>4 DEF TypeOK, Step, disk, ghosts
<1>6. PoolInv'
  <2>1. \A k \in Chunk : prior'[k] \in {NoAnswer, sidecar[k]}
    BY <1>1
  <2> QED
    BY <1>1, <1>2, <1>4, <2>1 DEF PoolInv, Before, disk
<1>7. ArchInv' /\ WorkInv' /\ MergedInv'
  BY <1>1 DEF BatchInv, ArchInv, DiskChunks, WorkInv, Working0, MergedInv, disk
<1>8. OrderInv'
  <2>1. \A k \in Chunk, c \in Class : Result(fresh'[k], c) = NoText
    BY <1>1, <1>2, NoResult, NothingIsTyped
  <2> QED
    BY <1>1, <2>1 DEF BatchInv, OrderInv, disk
<1> QED
  BY <1>5, <1>6, <1>7, <1>8 DEF BatchInv

LEMMA StartSessionStep == ASSUME BatchInv, NEW k \in Chunk, StartSession(k) PROVE BatchInv'
<1>1. /\ pc = "run" /\ k \in queue /\ queue' = queue \ {k} /\ running' = running \cup {k}
      /\ UNCHANGED <<arch, disk, pc, mode, sent, prior, fresh, merged, run, ghosts>>
  BY DEF StartSession
<1>2. TypeOK'
  BY <1>1 DEF BatchInv, TypeOK, disk, ghosts
<1>3. PoolInv'
  BY <1>1 DEF BatchInv, PoolInv, Before, disk
<1>4. ArchInv' /\ WorkInv' /\ OrderInv' /\ MergedInv'
  BY <1>1 DEF BatchInv, ArchInv, DiskChunks, WorkInv, OrderInv, MergedInv, disk
<1> QED
  BY <1>2, <1>3, <1>4 DEF BatchInv

\* What the sidecar holds after an answer: the newest text of each class.
LEMMA MergedSidecar ==
  ASSUME run \in 0 .. MaxRuns, NEW old \in Output \cup {Classless, NoFile, Torn},
         NEW answer \in Answer, answer # NoAnswer
  PROVE  /\ MergeSidecar(old, answer) \in Output \cup {Classless}
         /\ \A c \in Class : \/ Result(MergeSidecar(old, answer), c) = run
                             \/ Result(MergeSidecar(old, answer), c) = Result(old, c)
                             \/ Result(MergeSidecar(old, answer), c) = NoText
<1> DEFINE data == MergeSidecar(old, answer)
<1>1. answer \in Output \cup {Classless} /\ \A c \in Class : Result(answer, c) \in {NoText, run}
  BY AnswerIsTyped
<1>2. CASE answer \in Output /\ old \in Output
  <2>1. data = [c \in Class |-> IF answer[c] # NoText THEN answer[c] ELSE old[c]]
    BY <1>2 DEF MergeSidecar
  <2>2. data \in Output
    BY <1>2, <2>1 DEF Output
  <2>3. \A c \in Class : Result(answer, c) = answer[c] /\ Result(old, c) = old[c]
    BY <1>2 DEF Result
  <2>4. \A c \in Class : Result(data, c) = IF answer[c] # NoText THEN answer[c] ELSE old[c]
    BY <2>1, <2>2 DEF Result
  <2> QED
    BY <1>1, <2>2, <2>3, <2>4
<1>3. CASE ~(answer \in Output /\ old \in Output)
  <2>1. data = answer
    BY <1>3 DEF MergeSidecar
  <2> QED
    BY <1>1, <2>1
<1> QED
  BY <1>2, <1>3

LEMMA EndSessionStep ==
  ASSUME BatchInv, NEW k \in Chunk, NEW answer \in Answer, EndSession(k, answer) PROVE BatchInv'
<1> DEFINE data == MergeSidecar(sidecar[k], answer)
<1>1. /\ pc = "run" /\ k \in running /\ running' = running \ {k}
      /\ IF answer = NoAnswer THEN UNCHANGED <<sidecar, fresh>>
         ELSE /\ sidecar' = [sidecar EXCEPT ![k] = data]
              /\ fresh' = [fresh EXCEPT ![k] = data]
      /\ UNCHANGED <<arch, chunkFile, outChunk, mergedFile, pc, mode, sent, queue,
                     prior, merged, run, ghosts>>
  BY DEF EndSession
<1>2. TypeOK /\ k \notin queue /\ run \in 0 .. MaxRuns
  BY <1>1 DEF BatchInv, TypeOK
<1>3. ArchInv' /\ WorkInv' /\ MergedInv'
  BY <1>1 DEF BatchInv, ArchInv, DiskChunks, WorkInv, MergedInv
<1>4. CASE answer = NoAnswer
  <2>1. TypeOK'
    BY <1>1, <1>2, <1>4 DEF TypeOK, ghosts
  <2>2. PoolInv' /\ OrderInv'
    BY <1>1, <1>4 DEF BatchInv, PoolInv, Before, OrderInv
  <2> QED
    BY <1>3, <2>1, <2>2 DEF BatchInv
<1>5. CASE answer # NoAnswer
  <2>1. /\ data \in Output \cup {Classless}
        /\ \A c \in Class : \/ Result(data, c) = run \/ Result(data, c) = Result(sidecar[k], c)
                            \/ Result(data, c) = NoText
    BY <1>2, <1>5, MergedSidecar DEF TypeOK
  <2> HIDE DEF data
  <2>2. sidecar' = [sidecar EXCEPT ![k] = data] /\ fresh' = [fresh EXCEPT ![k] = data]
    BY <1>1, <1>5
  <2>3. TypeOK'
    BY <1>1, <1>2, <2>1, <2>2 DEF TypeOK, ghosts
  <2>4. PoolInv'
    <3>1. \A j \in queue' \cup running' : j # k /\ j \in queue \cup running
      BY <1>1, <1>2
    <3>2. \A j \in queue' \cup running' : sidecar'[j] = sidecar[j]
      BY <1>2, <2>2, <3>1 DEF TypeOK
    <3> QED
      BY <1>1, <3>1, <3>2 DEF BatchInv, PoolInv, Before
  <2>5. OrderInv'
    <3> SUFFICES ASSUME NEW j \in Chunk, NEW c \in Class
                 PROVE  /\ Result(sidecar'[j], c) <= run
                        /\ Result(fresh'[j], c) # NoText => Result(prior[j], c) <= Result(fresh'[j], c)
      BY <1>1 DEF OrderInv
    <3>1. /\ Result(sidecar[j], c) <= run
          /\ Result(fresh[j], c) # NoText => Result(prior[j], c) <= Result(fresh[j], c)
      BY DEF BatchInv, OrderInv
    <3>2. CASE j # k
      BY <1>2, <2>2, <3>1, <3>2 DEF TypeOK
    <3>3. CASE j = k
      <4>1. sidecar'[j] = data /\ fresh'[j] = data
        BY <1>2, <2>2, <3>3 DEF TypeOK
      <4>2. Result(prior[j], c) \in {NoText, Result(sidecar[j], c)}
        <5>1. prior[k] \in {NoAnswer, sidecar[k]}
          BY <1>1 DEF BatchInv, PoolInv
        <5> QED
          BY <3>3, <5>1, NoResult
      <4>3. Result(sidecar[j], c) \in 0 .. MaxRuns /\ Result(data, c) \in 0 .. MaxRuns
        BY ResultIsRun
      <4>4. \/ Result(data, c) = run \/ Result(data, c) = Result(sidecar[j], c)
            \/ Result(data, c) = NoText
        BY <2>1, <3>3
      <4> QED
        BY <1>2, <3>1, <4>1, <4>2, <4>3, <4>4, BatchAssumption DEF NoText
    <3> QED
      BY <3>2, <3>3
  <2> QED
    BY <1>3, <2>3, <2>4, <2>5 DEF BatchInv
<1> QED
  BY <1>4, <1>5

\* The result of this run where it describes a class, the former one elsewhere.
LEMMA AcceptedText ==
  ASSUME NEW k \in Chunk, NEW e
  PROVE  e \in AcceptedOf(k) <=>
           \E c \in sent[k] \cap Class :
             \/ Result(fresh[k], c) # NoText /\ e = [chunk |-> k, class |-> c, run |-> Result(fresh[k], c)]
             \/ /\ Result(fresh[k], c) = NoText /\ Result(prior[k], c) # NoText
                /\ e = [chunk |-> k, class |-> c, run |-> Result(prior[k], c)]
<1> DEFINE first == Accepted(sent[k], fresh[k], {})
<1> DEFINE second == Accepted(sent[k], prior[k], first)
<1>1. AcceptedOf(k) = {[chunk |-> k, class |-> c, run |-> fresh[k][c]] : c \in first}
                        \cup {[chunk |-> k, class |-> c, run |-> prior[k][c]] : c \in second}
  BY DEF AcceptedOf, Entries
<1>2. \A c : c \in first <=> c \in sent[k] \cap Class /\ Result(fresh[k], c) # NoText
  BY DEF Accepted, Described, Result
<1>3. \A c : c \in second <=> /\ c \in sent[k] \cap Class /\ Result(fresh[k], c) = NoText
                              /\ Result(prior[k], c) # NoText
  BY <1>2 DEF Accepted, Described, Result
<1>4. \A c \in first : Result(fresh[k], c) = fresh[k][c]
  BY <1>2 DEF Result
<1>5. \A c \in second : Result(prior[k], c) = prior[k][c]
  BY <1>3 DEF Result
<1> HIDE DEF first, second
<1> QED
  BY <1>1, <1>2, <1>3, <1>4, <1>5

LEMMA MergeStep == ASSUME BatchInv, Merge PROVE BatchInv'
<1>1. /\ pc = "merge" /\ pc' = "import"
      /\ merged' = UNION {AcceptedOf(k) : k \in Indices}
      /\ mergedFile' = {<<e.chunk, e.class>> : e \in merged'}
      /\ UNCHANGED <<arch, chunkFile, sidecar, outChunk, mode, sent, queue, running,
                     prior, fresh, run, ghosts>>
  BY DEF Merge
<1>2. merged' \subseteq [chunk : Chunk, class : Class, run : 1 .. MaxRuns]
  <2> SUFFICES ASSUME NEW k \in Indices, NEW e \in AcceptedOf(k)
               PROVE  e \in [chunk : Chunk, class : Class, run : 1 .. MaxRuns]
    BY <1>1
  <2>1. k \in Chunk
    BY DEF Indices
  <2>2. \A data : \A c \in Class : Result(data, c) # NoText => Result(data, c) \in 1 .. MaxRuns
    BY ResultIsRun, BatchAssumption DEF NoText
  <2> QED
    BY <2>1, <2>2, AcceptedText
<1>3. mergedFile' \subseteq Chunk \X Class
  BY <1>1, <1>2
<1>4. TypeOK'
  BY <1>1, <1>2, <1>3 DEF BatchInv, TypeOK, Step, ghosts
<1>5. MergedInv'
  <2>1. UNCHANGED Indices /\ \A k \in Chunk : AcceptedOf(k)' = AcceptedOf(k)
    BY <1>1 DEF Indices, AcceptedOf, Entries
  <2> QED
    BY <1>1, <2>1 DEF MergedInv, Indices
<1>6. ArchInv' /\ WorkInv' /\ PoolInv' /\ OrderInv'
  BY <1>1 DEF BatchInv, ArchInv, DiskChunks, WorkInv, Working0, PoolInv, Before, OrderInv
<1> QED
  BY <1>4, <1>5, <1>6 DEF BatchInv

LEMMA BatchInvariant == Spec => []BatchInv
<1>1. BatchInv /\ [Next]_vars => BatchInv'
  BY BatchStutter, ReexportStep, StartRunStep, UnlinkStep, ClearedStep, LoadStep, WriteChunkStep,
     ChunksWrittenStep, PlanStep, StartSessionStep, EndSessionStep, AllSessionsEndedStep, MergeStep,
     ImportStep, BeginRemovalStep, ExitingSteps, WriteOutChunkStep
     DEF Next, Starting, Working, Preparing, Planning, Sessions, Finishing, Environment
<1> QED
  BY BatchInit, <1>1, PTL DEF Spec

-----------------------------------------------------------------------------

\* Every variable has its type, whatever is killed, torn and exported anew.
THEOREM TypeCorrect == Spec => []TypeOK
  BY BatchInvariant, PTL DEF BatchInv

\* batch_generate: the chunk files are always cut from one arch.json, the one
\* the run that works with them sent.
THEOREM WorkDirHasOneArch == Spec => []OneArch
<1>1. BatchInv => OneArch
  <2> SUFFICES ASSUME BatchInv PROVE OneArch
    OBVIOUS
  <2>1. pc \notin {"idle", "clear", "load"} => pc \in Working0 \cup {"remove"}
    BY DEF BatchInv, TypeOK, Step, Working0
  <2>2. \A k \in DiskChunks : pc \in Working0 \cup {"remove"} => sent[k] = Slice[chunkFile[k]][k]
    BY DEF BatchInv, WorkInv, DiskChunks
  <2> QED
    BY <2>1, <2>2 DEF BatchInv, ArchInv, OneArch
<1> QED
  BY BatchInvariant, <1>1, PTL

\* A class is sent with one chunk only.
LEMMA SentOnce ==
  ASSUME BatchInv, pc \in Working0, NEW j \in Chunk, NEW k \in Chunk, j # k
  PROVE  sent[j] \cap sent[k] = {}
<1>1. CASE sent = Slice[arch] /\ \A i \in DiskChunks : chunkFile[i] = arch
  <2>1. arch \in Arch
    BY DEF BatchInv, TypeOK
  <2> QED
    BY <1>1, <2>1, SlicesAreDisjoint
<1>2. CASE \A i \in Chunk : sent[i] = IF i \in DiskChunks THEN Slice[chunkFile[i]][i] ELSE {}
  <2>1. CASE j \in DiskChunks /\ k \in DiskChunks
    <3>1. chunkFile[j] = chunkFile[k] /\ chunkFile[j] \in Arch
      BY <2>1 DEF BatchInv, ArchInv, DiskChunks
    <3> QED
      BY <1>2, <2>1, <3>1, SlicesAreDisjoint
  <2>2. CASE ~(j \in DiskChunks /\ k \in DiskChunks)
    BY <1>2, <2>2
  <2> QED
    BY <2>1, <2>2
<1> QED
  BY <1>1, <1>2 DEF BatchInv, WorkInv

\* _merge: every described class once, with its newest text.
THEOREM MergedIsNewest == Spec => []NewestAcceptedOnce
<1>1. BatchInv => NewestAcceptedOnce
  <2> SUFFICES ASSUME BatchInv, pc \in {"import", "cleanup"}
               PROVE  /\ \A d, e \in merged : d.class = e.class => d = e
                      /\ \A k \in Chunk, c \in Class :
                           LET texts == {Result(fresh[k], c), Result(prior[k], c)} \ {NoText}
                           IN  {e.run : e \in {d \in merged : d.chunk = k /\ d.class = c}}
                                 = IF c \in sent[k] THEN {t \in texts : \A u \in texts : u <= t} ELSE {}
    BY DEF NewestAcceptedOnce
  <2>1. merged = UNION {AcceptedOf(k) : k \in Indices} /\ pc \in Working0
    BY DEF BatchInv, MergedInv, Working0
  <2>2. \A e : \A k \in Chunk : e \in AcceptedOf(k) => k \in Indices /\ e.chunk = k /\ e.class \in sent[k]
    BY AcceptedText DEF Indices
  <2>3. \A e : e \in merged <=> \E k \in Chunk : e \in AcceptedOf(k)
    BY <2>1, <2>2 DEF Indices
  <2>4. ASSUME NEW d \in merged, NEW e \in merged, d.class = e.class PROVE d = e
    <3>1. PICK j \in Chunk : d \in AcceptedOf(j)
      BY <2>3
    <3>2. PICK k \in Chunk : e \in AcceptedOf(k)
      BY <2>3
    <3>3. j = k
      BY <2>1, <2>2, <2>4, <3>1, <3>2, SentOnce
    <3>4. PICK c \in sent[j] \cap Class :
             \/ Result(fresh[j], c) # NoText /\ d = [chunk |-> j, class |-> c, run |-> Result(fresh[j], c)]
             \/ /\ Result(fresh[j], c) = NoText /\ Result(prior[j], c) # NoText
                /\ d = [chunk |-> j, class |-> c, run |-> Result(prior[j], c)]
      BY <3>1, AcceptedText
    <3>5. PICK b \in sent[j] \cap Class :
             \/ Result(fresh[j], b) # NoText /\ e = [chunk |-> j, class |-> b, run |-> Result(fresh[j], b)]
             \/ /\ Result(fresh[j], b) = NoText /\ Result(prior[j], b) # NoText
                /\ e = [chunk |-> j, class |-> b, run |-> Result(prior[j], b)]
      BY <3>2, <3>3, AcceptedText
    <3>6. b = c
      BY <2>4, <3>4, <3>5
    <3> QED
      BY <3>4, <3>5, <3>6
  <2>5. ASSUME NEW k \in Chunk, NEW c \in Class
        PROVE  LET texts == {Result(fresh[k], c), Result(prior[k], c)} \ {NoText}
               IN  {e.run : e \in {d \in merged : d.chunk = k /\ d.class = c}}
                     = IF c \in sent[k] THEN {t \in texts : \A u \in texts : u <= t} ELSE {}
    <3> DEFINE F == Result(fresh[k], c)
    <3> DEFINE P == Result(prior[k], c)
    <3> DEFINE texts == {F, P} \ {NoText}
    <3> DEFINE runs == {e.run : e \in {d \in merged : d.chunk = k /\ d.class = c}}
    <3>1. F \in Nat /\ P \in Nat /\ (F # NoText => P <= F)
      BY ResultIsRun, BatchAssumption DEF BatchInv, OrderInv
    <3>2. \A e : e \in merged /\ e.chunk = k /\ e.class = c <=>
                   c \in sent[k] /\ \/ F # NoText /\ e = [chunk |-> k, class |-> c, run |-> F]
                                    \/ /\ F = NoText /\ P # NoText
                                       /\ e = [chunk |-> k, class |-> c, run |-> P]
      <4>1. \A e : e \in merged /\ e.chunk = k => e \in AcceptedOf(k)
        BY <2>2, <2>3
      <4>2. \A e : e \in merged /\ e.chunk = k /\ e.class = c =>
                   c \in sent[k] /\ \/ F # NoText /\ e = [chunk |-> k, class |-> c, run |-> F]
                                    \/ /\ F = NoText /\ P # NoText
                                       /\ e = [chunk |-> k, class |-> c, run |-> P]
        BY <4>1, AcceptedText
      <4>3. ASSUME NEW e, c \in sent[k],
                   \/ F # NoText /\ e = [chunk |-> k, class |-> c, run |-> F]
                   \/ F = NoText /\ P # NoText /\ e = [chunk |-> k, class |-> c, run |-> P]
            PROVE  e \in merged /\ e.chunk = k /\ e.class = c
        BY <2>3, <4>3, AcceptedText
      <4> QED
        BY <4>2, <4>3
    <3> HIDE DEF F, P
    <3>3. CASE c \notin sent[k]
      BY <3>2, <3>3
    <3>4. CASE c \in sent[k] /\ F # NoText
      <4>1. runs = {F}
        <5> DEFINE r == [chunk |-> k, class |-> c, run |-> F]
        <5>1. \A e : e \in merged /\ e.chunk = k /\ e.class = c <=> e = r
          BY <3>2, <3>4
        <5>2. r.run = F
          OBVIOUS
        <5> HIDE DEF r
        <5>3. {d \in merged : d.chunk = k /\ d.class = c} = {r}
          BY <5>1
        <5> QED
          BY <5>2, <5>3
      <4>2. {t \in texts : \A u \in texts : u <= t} = {F}
        BY <3>1, <3>4 DEF NoText
      <4> QED
        BY <3>4, <4>1, <4>2 DEF F, P
    <3>5. CASE c \in sent[k] /\ F = NoText /\ P # NoText
      <4>1. runs = {P}
        <5> DEFINE r == [chunk |-> k, class |-> c, run |-> P]
        <5>1. \A e : e \in merged /\ e.chunk = k /\ e.class = c <=> e = r
          BY <3>2, <3>5
        <5>2. r.run = P
          OBVIOUS
        <5> HIDE DEF r
        <5>3. {d \in merged : d.chunk = k /\ d.class = c} = {r}
          BY <5>1
        <5> QED
          BY <5>2, <5>3
      <4>2. {t \in texts : \A u \in texts : u <= t} = {P}
        BY <3>1, <3>5 DEF NoText
      <4> QED
        BY <3>5, <4>1, <4>2 DEF F, P
    <3>6. CASE c \in sent[k] /\ F = NoText /\ P = NoText
      <4>1. runs = {} /\ {t \in texts : \A u \in texts : u <= t} = {}
        BY <3>2, <3>6
      <4> QED
        BY <3>6, <4>1 DEF F, P
    <3> QED
      BY <3>3, <3>4, <3>5, <3>6
  <2> QED
    BY <2>4, <2>5
<1> QED
  BY BatchInvariant, <1>1, PTL
-----------------------------------------------------------------------------
(* What a run will merge is what the sidecars hold.                         *)

\* The text of a class a run will merge.
Newest(k, c) == IF Result(fresh[k], c) # NoText THEN Result(fresh[k], c) ELSE Result(prior[k], c)

\* A fresh run starts without sidecars; from then on what is in memory and what
\* is on disk agree, unless the answers were taken from another agent's files.
BackedInv ==
  /\ pc \in {"load", "write", "plan"} /\ mode = "fresh" => \A k \in Chunk : sidecar[k] = NoFile
  /\ pc \in {"write", "plan", "run"} => mode # "merge"
  /\ ~Manual => \A k \in Chunk : outChunk[k] = NoFile
  /\ pc \in {"run", "merge", "import", "cleanup"} /\ (mode # "merge" \/ ~Manual) =>
       \A k \in Chunk : \A c \in sent[k] : Newest(k, c) = Result(sidecar[k], c)

LEMMA BackedInit == Init => BackedInv
  BY DEF Init, BackedInv

LEMMA BackedExit ==
  ASSUME BackedInv, Exit, \A k \in Chunk : outChunk'[k] \in {outChunk[k], NoFile}
  PROVE  BackedInv'
  BY DEF BackedInv, Exit

LEMMA BackedExits ==
  ASSUME TypeOK, BackedInv,
         \/ GeneratorUnavailable \/ ImportFails \/ KeepWorkDir \/ RemovalEnds \/ Kill
         \/ KillInWriteSidecar \/ \E k \in Chunk : KillInWriteChunk(k)
  PROVE  BackedInv'
<1>1. Exit
  BY DEF GeneratorUnavailable, ImportFails, KeepWorkDir, RemovalEnds, Kill, KillInWriteSidecar,
         KillInWriteChunk
<1>2. \A k \in Chunk : outChunk'[k] \in {outChunk[k], NoFile}
  BY DEF GeneratorUnavailable, ImportFails, KeepWorkDir, RemovalEnds, Kill, KillInWriteSidecar,
         KillInWriteChunk, disk
<1> QED
  BY <1>1, <1>2, BackedExit

\* Nothing is left of an earlier generation when the directory is cleared.
LEMMA ClearedIsEmpty ==
  ASSUME Leftover = {} \/ WorkFiles = {}
  PROVE  \A k \in Chunk : chunkFile[k] = NoFile /\ outChunk[k] = NoFile /\ sidecar[k] = NoFile
<1>1. Files("chunk", chunkFile) = {} /\ Files("out", outChunk) = {} /\ Files("sidecar", sidecar) = {}
  BY DEF Leftover, WorkFiles, Files
<1>2. Present(chunkFile) = {} /\ Present(outChunk) = {} /\ Present(sidecar) = {}
  BY <1>1 DEF Files
<1> QED
  BY <1>2 DEF Present

LEMMA BackedStart ==
  ASSUME TypeOK, BackedInv,
         Starting \/ Unlink \/ RemoveFile \/ Cleared \/ \E k \in Chunk : WriteOutChunk(k)
  PROVE  BackedInv'
<1>1. CASE Reexport
  BY <1>1 DEF BackedInv, Reexport, disk
<1>2. CASE \E m \in {"fresh", "resume", "merge"} : StartRun(m)
  BY <1>2 DEF BackedInv, StartRun, disk
<1>3. CASE Unlink \/ RemoveFile
  <2>1. pc' \in {"clear", "remove"} /\ \E f : UnlinkFile(f)
    BY <1>3 DEF Unlink, RemoveFile
  <2>2. \A k \in Chunk : outChunk'[k] \in {outChunk[k], NoFile}
    BY <2>1, AFileLess
  <2> QED
    BY <2>1, <2>2 DEF BackedInv
<1>4. CASE Cleared
  <2>1. pc' = "load" /\ UNCHANGED disk /\ Leftover = {}
    BY <1>4 DEF Cleared
  <2> QED
    BY <2>1, ClearedIsEmpty DEF disk, BackedInv
<1>5. CASE \E k \in Chunk : WriteOutChunk(k)
  BY <1>5 DEF BackedInv, WriteOutChunk
<1> QED
  BY <1>1, <1>2, <1>3, <1>4, <1>5 DEF Starting

LEMMA BackedLoad == ASSUME BatchInv, BackedInv, Load PROVE BackedInv'
<1>1. /\ pc = "load" /\ fresh = Nothing /\ UNCHANGED <<disk, mode, fresh>>
      /\ IF mode = "merge"
         THEN /\ prior' = [k \in Chunk |-> IF sent'[k] # {} THEN ReadBack(k) ELSE NoAnswer]
              /\ pc' = "merge"
         ELSE pc' = "write"
  BY DEF Load, BatchInv, PoolInv, Before
<1>2. CASE mode = "merge"
  <2>1. ASSUME ~Manual, NEW k \in Chunk, NEW c \in sent'[k]
        PROVE  Newest(k, c)' = Result(sidecar'[k], c)
    <3>1. Result(fresh'[k], c) = NoText
      BY <1>1, NoResult, NothingIsTyped
    <3>2. prior'[k] = ReadBack(k) /\ outChunk[k] = NoFile
      BY <1>1, <1>2, <2>1 DEF BackedInv
    <3>3. Result(ReadBack(k), c) = Result(sidecar[k], c)
      BY <3>2, NoResult DEF ReadBack
    <3> QED
      BY <1>1, <3>1, <3>2, <3>3 DEF Newest, disk
  <2> QED
    BY <1>1, <1>2, <2>1 DEF BackedInv, disk
<1>3. CASE mode # "merge"
  BY <1>1, <1>3 DEF BackedInv, disk
<1> QED
  BY <1>2, <1>3

LEMMA BackedPlan == ASSUME BatchInv, BackedInv, Plan PROVE BackedInv'
<1> DEFINE kept == IF mode = "resume"
                   THEN {k \in Indices : Accepted(sent[k], sidecar[k], {}) # {}} ELSE {}
<1>1. /\ pc = "plan" /\ pc' = "run" /\ fresh = Nothing
      /\ prior' = [k \in Chunk |-> IF k \in kept THEN sidecar[k] ELSE NoAnswer]
      /\ UNCHANGED <<disk, mode, sent, fresh>>
  BY DEF Plan, BatchInv, PoolInv, Before
<1>2. ASSUME NEW k \in Chunk, NEW c \in sent[k]
      PROVE  Newest(k, c)' = Result(sidecar[k], c)
  <2>1. Result(fresh'[k], c) = NoText
    BY <1>1, NoResult, NothingIsTyped
  <2>2. Newest(k, c)' = Result(prior'[k], c)
    BY <2>1 DEF Newest
  <2>3. CASE k \in kept
    BY <1>1, <2>2, <2>3
  <2>4. CASE k \notin kept
    <3>1. Result(prior'[k], c) = NoText
      BY <1>1, <2>4, NoResult
    <3>2. Result(sidecar[k], c) = NoText
      <4>1. mode \in {"fresh", "resume"} /\ c \in Class
        BY <1>1 DEF BatchInv, TypeOK, BackedInv
      <4>2. CASE mode = "fresh"
        BY <1>1, <4>2, NoResult DEF BackedInv
      <4>3. CASE mode = "resume"
        <5>1. Accepted(sent[k], sidecar[k], {}) = {}
          BY <2>4, <4>3 DEF Indices
        <5> QED
          BY <4>1, <5>1 DEF Accepted, Described, Result
      <4> QED
        BY <4>1, <4>2, <4>3
    <3> QED
      BY <2>2, <3>1, <3>2
  <2> QED
    BY <2>3, <2>4
<1> QED
  BY <1>1, <1>2 DEF BackedInv, disk

\* An answer is added to the sidecar and to memory alike.
LEMMA BackedEndSession ==
  ASSUME "classless" \notin Answers, BatchInv, BackedInv, NEW k \in Chunk, NEW answer \in Answer,
         EndSession(k, answer)
  PROVE  BackedInv'
<1> DEFINE data == MergeSidecar(sidecar[k], answer)
<1>1. /\ pc = "run" /\ pc' = "run" /\ UNCHANGED <<outChunk, mode, sent, prior>>
      /\ IF answer = NoAnswer THEN UNCHANGED <<sidecar, fresh>>
         ELSE /\ sidecar' = [sidecar EXCEPT ![k] = data]
              /\ fresh' = [fresh EXCEPT ![k] = data]
  BY DEF EndSession
<1>2. CASE answer = NoAnswer
  BY <1>1, <1>2 DEF BackedInv, Newest
<1>3. CASE answer # NoAnswer
  <2>1. answer \in Output
    <3>1. answer \in {[c \in Class |-> IF c \in cs THEN run ELSE NoText] : cs \in SUBSET Class}
      BY <1>3 DEF Answer
    <3> QED
      BY <3>1, BatchAssumption DEF BatchInv, TypeOK, Output, NoText
  <2>2. \A c \in Class : Result(data, c) = NoText => Result(sidecar[k], c) = NoText
    <3>1. CASE sidecar[k] \in Output
      <4>1. data = [c \in Class |-> IF answer[c] # NoText THEN answer[c] ELSE sidecar[k][c]]
        BY <2>1, <3>1 DEF MergeSidecar
      <4>2. data \in Output
        BY <2>1, <3>1, <4>1 DEF Output
      <4> QED
        BY <3>1, <4>1, <4>2 DEF Result
    <3>2. CASE sidecar[k] \notin Output
      BY <3>2 DEF Result
    <3> QED
      BY <3>1, <3>2
  <2> HIDE DEF data
  <2>3. sidecar' = [sidecar EXCEPT ![k] = data] /\ fresh' = [fresh EXCEPT ![k] = data]
    BY <1>1, <1>3
  <2>4. ASSUME NEW j \in Chunk, NEW c \in sent[j], mode # "merge" \/ ~Manual
        PROVE  Newest(j, c)' = Result(sidecar'[j], c)
    <3>1. Newest(j, c) = Result(sidecar[j], c) /\ c \in Class
      BY <1>1, <2>4 DEF BackedInv, BatchInv, TypeOK
    <3>2. CASE j # k
      <4>1. sidecar'[j] = sidecar[j] /\ fresh'[j] = fresh[j]
        BY <2>3, <3>2 DEF BatchInv, TypeOK
      <4> QED
        BY <1>1, <3>1, <4>1 DEF Newest
    <3>3. CASE j = k
      <4>1. sidecar'[j] = data /\ fresh'[j] = data
        BY <2>3, <3>3 DEF BatchInv, TypeOK
      <4> QED
        BY <1>1, <2>2, <3>1, <3>3, <4>1 DEF Newest
    <3> QED
      BY <3>2, <3>3
  <2> QED
    BY <1>1, <2>4 DEF BackedInv
<1> QED
  BY <1>2, <1>3

\* Other steps of a run leave the results and the sidecars alone.
LEMMA BackedElsewhere ==
  ASSUME BackedInv,
         \/ ChunksWritten \/ AllSessionsEnded \/ Merge \/ Import \/ BeginRemoval
         \/ UNCHANGED vars
         \/ \E k \in Chunk : WriteChunk(k) \/ StartSession(k)
  PROVE  BackedInv'
<1>1. CASE ChunksWritten
  BY <1>1 DEF BackedInv, ChunksWritten, Newest, disk, memory
<1>2. CASE AllSessionsEnded
  BY <1>2 DEF BackedInv, AllSessionsEnded, Newest, disk, memory
<1>3. CASE Merge
  BY <1>3 DEF BackedInv, Merge, Newest
<1>4. CASE Import
  BY <1>4 DEF BackedInv, Import, Newest, disk, memory
<1>5. CASE UNCHANGED vars
  BY <1>5 DEF BackedInv, vars, Newest, disk, memory
<1>6. CASE \E k \in Chunk : WriteChunk(k)
  BY <1>6 DEF BackedInv, WriteChunk, Newest, memory
<1>7. CASE \E k \in Chunk : StartSession(k)
  BY <1>7 DEF BackedInv, StartSession, Newest, disk
<1>8. CASE BeginRemoval
  BY <1>8 DEF BackedInv, BeginRemoval, disk
<1> QED
  BY <1>1, <1>2, <1>3, <1>4, <1>5, <1>6, <1>7, <1>8

LEMMA BackedInvariant ==
  ASSUME "classless" \notin Answers
  PROVE  Spec => []BackedInv
<1>1. BatchInv /\ BackedInv /\ [Next]_vars => BackedInv'
  <2> SUFFICES ASSUME BatchInv, BackedInv, [Next]_vars PROVE BackedInv'
    OBVIOUS
  <2>1. TypeOK
    BY DEF BatchInv
  <2> QED
    BY <2>1, BackedExits, BackedStart, BackedLoad, BackedPlan, BackedEndSession, BackedElsewhere
       DEF Next, Starting, Working, Preparing, Planning, Sessions, Finishing, Environment
<1> QED
  BY BackedInit, BatchInvariant, <1>1, PTL DEF Spec

\* The pairs and texts of what a run merges are those of the sidecars.
LEMMA MergedTexts ==
  ASSUME BatchInv, BackedInv, pc \in {"merge", "import", "cleanup"}, mode # "merge" \/ ~Manual,
         NEW k \in Chunk, NEW e
  PROVE  e \in AcceptedOf(k) <=>
           \E c \in sent[k] \cap Described(sidecar[k]) :
              e = [chunk |-> k, class |-> c, run |-> sidecar[k][c]]
<1>1. sent[k] \subseteq Class
  BY DEF BatchInv, TypeOK
<1>2. \A c \in sent[k] : Newest(k, c) = Result(sidecar[k], c)
  BY DEF BackedInv
<1>3. \A c : c \in sent[k] /\ Newest(k, c) # NoText <=> c \in sent[k] \cap Described(sidecar[k])
  BY <1>1, <1>2 DEF Described, Result
<1>4. \A c \in sent[k] \cap Described(sidecar[k]) : Newest(k, c) = sidecar[k][c]
  BY <1>2 DEF Described, Result
<1>5. e \in AcceptedOf(k) <=>
        \E c \in sent[k] : Newest(k, c) # NoText /\ e = [chunk |-> k, class |-> c, run |-> Newest(k, c)]
  BY <1>1, AcceptedText DEF Newest
<1> QED
  BY <1>3, <1>4, <1>5

\* batch_generate: what a run imports can be merged again from the sidecars.
THEOREM MergedIsOnDisk ==
  ASSUME "classless" \notin Answers
  PROVE  Spec => []DiskBacksMerged
<1>1. BatchInv /\ BackedInv => DiskBacksMerged
  <2> SUFFICES ASSUME BatchInv, BackedInv, pc \in {"import", "cleanup"}, mode # "merge"
               PROVE  {<<e.chunk, e.class, e.run>> : e \in merged}
                        = UNION {{<<k, c, sidecar[k][c]>> : c \in sent[k] \cap Described(sidecar[k])}
                                 : k \in Chunk}
    BY DEF DiskBacksMerged
  <2>1. merged = UNION {AcceptedOf(k) : k \in Indices}
    BY DEF BatchInv, MergedInv
  <2>2. \A k \in Chunk : \A c \in sent[k] : k \in Indices
    BY DEF Indices
  <2>3. ASSUME NEW e \in merged
        PROVE  \E k \in Chunk : \E c \in sent[k] \cap Described(sidecar[k]) :
                 <<e.chunk, e.class, e.run>> = <<k, c, sidecar[k][c]>>
    <3>1. PICK k \in Chunk : e \in AcceptedOf(k)
      BY <2>1 DEF Indices
    <3>2. PICK c \in sent[k] \cap Described(sidecar[k]) :
             e = [chunk |-> k, class |-> c, run |-> sidecar[k][c]]
      BY <3>1, MergedTexts
    <3> QED
      BY <3>2
  <2>4. ASSUME NEW k \in Chunk, NEW c \in sent[k] \cap Described(sidecar[k])
        PROVE  \E e \in merged : <<e.chunk, e.class, e.run>> = <<k, c, sidecar[k][c]>>
    <3> DEFINE e == [chunk |-> k, class |-> c, run |-> sidecar[k][c]]
    <3>1. e \in AcceptedOf(k)
      BY MergedTexts
    <3>2. e \in merged
      BY <2>1, <2>2, <3>1
    <3> QED
      BY <3>2
  <2> QED
    BY <2>3, <2>4
<1> QED
  BY BatchInvariant, BackedInvariant, <1>1, PTL
-----------------------------------------------------------------------------
(* Generations.                                                             *)

\* No text of a result is older than the last clearing.
Recent(data) == \A c \in Class : Result(data, c) # NoText => born <= Result(data, c)

\* Once the directory is cleared, whatever can be read back was written since.
BornInv ==
  /\ pc # "clear" => \A k \in Chunk : Recent(sidecar[k]) /\ Recent(outChunk[k])
  /\ \A k \in Chunk : Recent(prior[k]) /\ Recent(fresh[k])
  /\ \A e \in merged : born <= e.run
  /\ pc = "idle" => prior = Nothing /\ merged = {}

LEMMA NoneIsRecent == Recent(NoFile) /\ Recent(Torn) /\ Recent(NoAnswer)
  BY NoResult DEF Recent

LEMMA NothingIsRecent == \A k \in Chunk : Recent(Nothing[k])
  BY NothingIsTyped, NoneIsRecent

LEMMA BornInit == Init => BornInv
<1> SUFFICES ASSUME Init PROVE BornInv
  OBVIOUS
<1> QED
  BY NoneIsRecent, NothingIsRecent DEF Init, BornInv

LEMMA BornExit ==
  ASSUME BornInv, pc # "clear", Exit, born' = born,
         \A k \in Chunk : sidecar'[k] \in {sidecar[k], NoFile, Torn},
         \A k \in Chunk : outChunk'[k] \in {outChunk[k], NoFile}
  PROVE  BornInv'
<1>1. pc' = "idle" /\ prior' = Nothing /\ fresh' = Nothing /\ merged' = {}
  BY DEF Exit, ForgetMemory
<1>2. \A k \in Chunk : Recent(sidecar'[k]) /\ Recent(outChunk'[k])
  BY NoneIsRecent DEF BornInv
<1>3. \A k \in Chunk : Recent(prior'[k]) /\ Recent(fresh'[k])
  BY <1>1, NothingIsRecent
<1> QED
  BY <1>1, <1>2, <1>3 DEF BornInv, Recent

LEMMA BornExits ==
  ASSUME "clear" \notin KillAt, TypeOK, BornInv,
         \/ GeneratorUnavailable \/ ImportFails \/ KeepWorkDir \/ RemovalEnds \/ Kill
         \/ KillInWriteSidecar \/ \E k \in Chunk : KillInWriteChunk(k)
  PROVE  BornInv'
<1>1. Exit /\ pc # "clear" /\ born' = born
  BY DEF GeneratorUnavailable, ImportFails, KeepWorkDir, RemovalEnds, Kill, KillInWriteSidecar,
         KillInWriteChunk, ghosts
<1>2. \A k \in Chunk : outChunk'[k] \in {outChunk[k], NoFile}
  BY DEF GeneratorUnavailable, ImportFails, KeepWorkDir, RemovalEnds, Kill, KillInWriteSidecar,
         KillInWriteChunk, disk
<1>3. \A k \in Chunk : sidecar'[k] \in {sidecar[k], NoFile, Torn}
  BY DEF GeneratorUnavailable, ImportFails, KeepWorkDir, RemovalEnds, Kill, KillInWriteSidecar,
         KillInWriteChunk, disk
<1> QED
  BY <1>1, <1>2, <1>3, BornExit

LEMMA BornStartRun ==
  ASSUME BatchInv, BornInv, NEW m \in {"fresh", "resume", "merge"}, StartRun(m) PROVE BornInv'
<1>1. /\ pc = "idle" /\ prior = Nothing /\ fresh = Nothing /\ merged = {}
      /\ UNCHANGED <<sidecar, outChunk, prior, fresh, merged>> /\ pc' # "idle"
      /\ born' = born \/ pc' = "clear"
  BY DEF StartRun, BornInv, BatchInv, PoolInv, Before, disk, memory
<1>2. \A k \in Chunk : Recent(prior[k])' /\ Recent(fresh[k])'
  BY <1>1, NoResult, NothingIsTyped DEF Recent
<1> QED
  BY <1>1, <1>2 DEF BornInv, Recent

LEMMA BornWriteOutChunk ==
  ASSUME TypeOK, BornInv, NEW k \in Chunk, WriteOutChunk(k) PROVE BornInv'
<1>1. PICK out \in Answer : outChunk' = [outChunk EXCEPT ![k] = out]
  BY DEF WriteOutChunk
<1>2. pc = "idle" /\ UNCHANGED <<pc, sidecar, prior, fresh, merged, born>>
  BY DEF WriteOutChunk, memory, ghosts
<1>3. Recent(out)
  <2>1. run \in 0 .. MaxRuns /\ born <= run
    BY BatchAssumption DEF TypeOK
  <2>2. \A c \in Class : Result(out, c) \in {NoText, run}
    BY <2>1, AnswerIsTyped
  <2> QED
    BY <2>1, <2>2 DEF Recent
<1>4. \A j \in Chunk : outChunk'[j] \in {outChunk[j], out}
  BY <1>1 DEF TypeOK
<1>5. \A j \in Chunk : Recent(outChunk'[j])
  BY <1>2, <1>3, <1>4 DEF BornInv
<1> QED
  BY <1>2, <1>5 DEF BornInv, Recent

LEMMA BornLoad == ASSUME BatchInv, BornInv, Load PROVE BornInv'
<1>1. /\ pc = "load" /\ pc' \in {"merge", "write"}
      /\ UNCHANGED <<sidecar, outChunk, fresh, merged, born>>
      /\ \/ prior' = prior
         \/ prior' = [k \in Chunk |-> IF sent'[k] # {} THEN ReadBack(k) ELSE NoAnswer]
  BY DEF Load, disk
<1>2. \A k \in Chunk : Recent(ReadBack(k))
  BY <1>1, NoneIsRecent DEF BornInv, ReadBack
<1>3. \A k \in Chunk : Recent(prior'[k])
  BY <1>1, <1>2, NoneIsRecent DEF BornInv
<1> QED
  BY <1>1, <1>3 DEF BornInv, Recent

LEMMA BornPlan == ASSUME BatchInv, BornInv, Plan PROVE BornInv'
<1>1. /\ pc = "plan" /\ pc' = "run" /\ UNCHANGED <<sidecar, outChunk, fresh, merged, born>>
      /\ \A k \in Chunk : prior'[k] \in {sidecar[k], NoAnswer}
  BY DEF Plan, disk, ghosts
<1>2. \A k \in Chunk : Recent(prior'[k])
  BY <1>1, NoneIsRecent DEF BornInv
<1> QED
  BY <1>1, <1>2 DEF BornInv, Recent

LEMMA BornEndSession ==
  ASSUME TypeOK, BornInv, NEW k \in Chunk, NEW answer \in Answer, EndSession(k, answer)
  PROVE  BornInv'
<1> DEFINE data == MergeSidecar(sidecar[k], answer)
<1>1. /\ pc = "run" /\ pc' = "run" /\ UNCHANGED <<outChunk, prior, merged, born>>
      /\ IF answer = NoAnswer THEN UNCHANGED <<sidecar, fresh>>
         ELSE /\ sidecar' = [sidecar EXCEPT ![k] = data]
              /\ fresh' = [fresh EXCEPT ![k] = data]
  BY DEF EndSession, ghosts
<1>2. CASE answer = NoAnswer
  BY <1>1, <1>2 DEF BornInv, Recent
<1>3. CASE answer # NoAnswer
  <2>1. Recent(data)
    <3>1. run \in 0 .. MaxRuns /\ born <= run
      BY BatchAssumption DEF TypeOK
    <3>2. \A c \in Class : \/ Result(data, c) = run \/ Result(data, c) = Result(sidecar[k], c)
                           \/ Result(data, c) = NoText
      BY <1>3, <3>1, MergedSidecar DEF TypeOK
    <3>3. Recent(sidecar[k])
      BY <1>1 DEF BornInv
    <3> QED
      BY <3>1, <3>2, <3>3 DEF Recent
  <2> HIDE DEF data
  <2>2. \A j \in Chunk : sidecar'[j] \in {sidecar[j], data} /\ fresh'[j] \in {fresh[j], data}
    BY <1>1, <1>3 DEF TypeOK
  <2>3. \A j \in Chunk : Recent(sidecar'[j]) /\ Recent(fresh'[j])
    BY <1>1, <2>1, <2>2 DEF BornInv
  <2> QED
    BY <1>1, <2>3 DEF BornInv, Recent
<1> QED
  BY <1>2, <1>3

LEMMA BornMerge == ASSUME BatchInv, BornInv, Merge PROVE BornInv'
<1>1. /\ pc = "merge" /\ pc' = "import" /\ merged' = UNION {AcceptedOf(k) : k \in Indices}
      /\ UNCHANGED <<sidecar, outChunk, prior, fresh, born>>
  BY DEF Merge, ghosts
<1>2. ASSUME NEW k \in Indices, NEW e \in AcceptedOf(k) PROVE born <= e.run
  <2>1. k \in Chunk /\ Recent(fresh[k]) /\ Recent(prior[k])
    BY DEF Indices, BornInv
  <2> QED
    BY <2>1, AcceptedText DEF Recent
<1> QED
  BY <1>1, <1>2 DEF BornInv, Recent

LEMMA BornElsewhere ==
  ASSUME TypeOK, BornInv,
         \/ Reexport \/ Unlink \/ Cleared \/ ChunksWritten \/ AllSessionsEnded \/ Import
         \/ BeginRemoval \/ RemoveFile
         \/ UNCHANGED vars
         \/ \E k \in Chunk : WriteChunk(k) \/ StartSession(k)
  PROVE  BornInv'
<1>1. CASE Unlink \/ RemoveFile
  <2>1. /\ UNCHANGED <<pc, memory, ghosts>> /\ \E f : UnlinkFile(f)
    BY <1>1 DEF Unlink, RemoveFile
  <2>2. \A k \in Chunk : sidecar'[k] \in {sidecar[k], NoFile} /\ outChunk'[k] \in {outChunk[k], NoFile}
    BY <2>1, AFileLess
  <2>3. pc # "clear" => \A k \in Chunk : Recent(sidecar'[k]) /\ Recent(outChunk'[k])
    BY <2>2, NoneIsRecent DEF BornInv
  <2> QED
    BY <2>1, <2>3 DEF BornInv, Recent, memory, ghosts
<1>2. CASE Cleared
  <2>1. /\ pc' = "load" /\ UNCHANGED <<disk, memory, ghosts>>
        /\ \A k \in Chunk : Recent(outChunk[k]) /\ Recent(sidecar[k])
    BY <1>2, ClearedIsEmpty, NoneIsRecent DEF Cleared
  <2> QED
    BY <2>1 DEF BornInv, Recent, disk, memory, ghosts
<1>3. CASE Reexport \/ UNCHANGED vars
  BY <1>3 DEF BornInv, Reexport, vars, Recent, disk, memory, ghosts
<1>4. CASE ChunksWritten \/ AllSessionsEnded \/ Import \/ BeginRemoval
  BY <1>4 DEF BornInv, ChunksWritten, AllSessionsEnded, Import, BeginRemoval, Recent, disk, memory, ghosts
<1>5. CASE \E k \in Chunk : WriteChunk(k)
  BY <1>5 DEF BornInv, WriteChunk, Recent, memory, ghosts
<1>6. CASE \E k \in Chunk : StartSession(k)
  BY <1>6 DEF BornInv, StartSession, Recent, disk, ghosts
<1> QED
  BY <1>1, <1>2, <1>3, <1>4, <1>5, <1>6

\* batch_generate: unless a clearing is cut short, a run merges no text older
\* than the last one.
THEOREM MergedIsOfThisGeneration ==
  ASSUME "clear" \notin KillAt
  PROVE  Spec => []NoEarlierGeneration
<1>1. BatchInv /\ BornInv /\ [Next]_vars => BornInv'
  <2> SUFFICES ASSUME BatchInv, BornInv, [Next]_vars PROVE BornInv'
    OBVIOUS
  <2>1. TypeOK
    BY DEF BatchInv
  <2> QED
    BY <2>1, BornExits, BornStartRun, BornWriteOutChunk, BornLoad, BornPlan, BornEndSession, BornMerge,
       BornElsewhere
       DEF Next, Starting, Working, Preparing, Planning, Sessions, Finishing, Environment
<1>2. TypeOK /\ BornInv => NoEarlierGeneration
  BY BatchAssumption DEF TypeOK, BornInv, NoEarlierGeneration
<1> QED
  BY BornInit, BatchInvariant, <1>1, <1>2, PTL DEF Spec, BatchInv
-----------------------------------------------------------------------------
(* The work directory keeps the ledger.                                     *)

\* All chunk files of the batch are there, or none.
Whole == \A k \in Chunk : chunkFile[k] = IF Slice[batch][k] # {} THEN batch ELSE NoFile
Empty == \A k \in Chunk : chunkFile[k] = NoFile
InPart == \A k \in Chunk : chunkFile[k] \in {NoFile, batch} /\ (Slice[batch][k] = {} => chunkFile[k] = NoFile)

\* Chunk files are in part only while they are cleared, written or removed; a run
\* sends the whole batch.
FilesInv ==
  /\ pc \in {"idle", "load", "merge", "import", "cleanup"} => Whole \/ Empty
  /\ pc \in {"plan", "run"} => Whole
  /\ pc = "write" => Whole \/ (batch = arch /\ InPart)
  /\ pc \in Working0 \cup {"remove"} => sent = Slice[batch]

\* No kill while chunk files are written, leftovers unlinked or the directory
\* removed, and no file of it that cannot be unlinked.
FilesUncut == KillAt \cap {"clear", "write", "remove"} = {}

\* Nor while sidecars are written, no answer without classes, no
\* files of another agent: each of these makes the promise false.
Undisturbed ==
  "classless" \notin Answers /\ ~Manual /\ FilesUncut /\ "sidecar" \notin KillAt

LEMMA BatchInArch == TypeOK => batch \in Arch /\ batch # NoFile /\ Slice[batch] \in [Chunk -> SUBSET Class]
  BY BatchAssumption DEF TypeOK

LEMMA FilesInit == Init => FilesInv
  BY DEF Init, FilesInv, Empty, Working0

LEMMA FilesExits ==
  ASSUME FilesUncut, BatchInv, FilesInv,
         \/ GeneratorUnavailable \/ ImportFails \/ KeepWorkDir \/ RemovalEnds \/ Kill
         \/ KillInWriteSidecar \/ \E k \in Chunk : KillInWriteChunk(k)
  PROVE  FilesInv'
<1>1. pc' = "idle"
  BY DEF GeneratorUnavailable, ImportFails, KeepWorkDir, RemovalEnds, Kill, KillInWriteSidecar,
         KillInWriteChunk, Exit
<1>2. (Whole \/ Empty)'
  <2>1. CASE RemovalEnds
    BY <2>1, ClearedIsEmpty DEF RemovalEnds, Empty, disk
  <2>2. CASE GeneratorUnavailable \/ ImportFails \/ KeepWorkDir \/ Kill \/ KillInWriteSidecar
    <3>1. UNCHANGED <<chunkFile, batch>> /\ pc \notin {"clear", "write", "remove"}
      BY <2>2 DEF GeneratorUnavailable, ImportFails, KeepWorkDir, Kill, KillInWriteSidecar, disk, ghosts,
         FilesUncut
    <3>2. pc \in {"idle", "load", "merge", "import", "cleanup", "plan", "run"}
      BY <2>2, <3>1 DEF BatchInv, TypeOK, Step
    <3>3. Whole \/ Empty
      BY <3>2 DEF FilesInv
    <3> QED
      BY <3>1, <3>3 DEF Whole, Empty
  <2>3. \A k \in Chunk : ~KillInWriteChunk(k)
    BY DEF KillInWriteChunk, FilesUncut
  <2> QED
    BY <2>1, <2>2, <2>3
<1> QED
  BY <1>1, <1>2 DEF FilesInv, Working0

LEMMA FilesStart ==
  ASSUME FilesInv, Starting \/ Unlink \/ RemoveFile \/ \E k \in Chunk : WriteOutChunk(k)
  PROVE  FilesInv'
<1>1. CASE Reexport
  BY <1>1 DEF FilesInv, Reexport, Whole, Empty, Working0, disk, ghosts
<1>2. CASE \E m \in {"fresh", "resume", "merge"} : StartRun(m)
  BY <1>2 DEF FilesInv, StartRun, Whole, Empty, Working0, disk
<1>3. CASE Unlink \/ RemoveFile
  BY <1>3 DEF FilesInv, Unlink, RemoveFile, Working0, memory, ghosts
<1>4. CASE \E k \in Chunk : WriteOutChunk(k)
  BY <1>4 DEF FilesInv, WriteOutChunk, Whole, Empty, Working0, ghosts
<1> QED
  BY <1>1, <1>2, <1>3, <1>4 DEF Starting

LEMMA FilesCleared == ASSUME FilesInv, Cleared PROVE FilesInv'
<1>1. pc' = "load" /\ UNCHANGED disk /\ Leftover = {}
  BY DEF Cleared
<1>2. Empty'
  BY <1>1, ClearedIsEmpty DEF Empty, disk
<1> QED
  BY <1>1, <1>2 DEF FilesInv, Working0

\* A run takes up the whole batch there is, or a new one in an empty directory.
LEMMA FilesLoad == ASSUME BatchInv, FilesInv, Load PROVE FilesInv'
<1>1. /\ pc = "load" /\ pc' \in {"merge", "write"} /\ UNCHANGED <<arch, chunkFile>>
      /\ sent' = IF FromDisk
                 THEN [k \in Chunk |-> IF k \in DiskChunks THEN Slice[chunkFile[k]][k] ELSE {}]
                 ELSE Slice[arch]
      /\ batch' = IF FromDisk THEN batch ELSE arch
  BY DEF Load, disk
<1>2. batch \in Arch /\ batch # NoFile /\ Slice[batch] \in [Chunk -> SUBSET Class]
  BY BatchInArch DEF BatchInv
<1>3. Whole \/ Empty
  BY <1>1 DEF FilesInv
<1>4. CASE FromDisk
  <2>1. Whole
    <3>1. DiskChunks # {}
      BY <1>4 DEF FromDisk
    <3>2. ~Empty
      BY <3>1, BatchAssumption DEF Empty, DiskChunks
    <3> QED
      BY <1>3, <3>2
  <2>2. \A k \in Chunk : sent'[k] = Slice[batch][k]
    <3> TAKE k \in Chunk
    <3>1. CASE Slice[batch][k] # {}
      BY <1>1, <1>2, <1>4, <2>1, <3>1 DEF Whole, DiskChunks
    <3>2. CASE Slice[batch][k] = {}
      BY <1>1, <1>4, <2>1, <3>2, BatchAssumption DEF Whole, DiskChunks
    <3> QED
      BY <3>1, <3>2
  <2>3. sent' = Slice[batch]
    BY <1>1, <1>2, <1>4, <2>2
  <2> QED
    BY <1>1, <1>4, <2>1, <2>3 DEF FilesInv, Whole, Working0
<1>5. CASE ~FromDisk
  <2>1. Empty
    <3>1. mode \in {"fresh", "resume", "merge"}
      BY DEF BatchInv, TypeOK
    <3>2. CASE mode = "fresh"
      BY <1>1, <3>2 DEF BatchInv, ArchInv, Empty
    <3>3. CASE DiskChunks = {}
      BY <1>2, <1>3, <3>3 DEF Whole, Empty, DiskChunks
    <3> QED
      BY <1>5, <3>1, <3>2, <3>3 DEF FromDisk
  <2> QED
    BY <1>1, <1>5, <2>1 DEF FilesInv, Empty, InPart, Working0
<1> QED
  BY <1>4, <1>5

LEMMA FilesWriteChunk == ASSUME BatchInv, FilesInv, NEW k \in Chunk, WriteChunk(k) PROVE FilesInv'
<1>1. /\ pc = "write" /\ pc' = "write" /\ sent[k] # {} /\ chunkFile[k] = NoFile
      /\ chunkFile' = [chunkFile EXCEPT ![k] = arch]
      /\ UNCHANGED <<arch, sent, batch>>
  BY DEF WriteChunk, Unwritten, Indices, memory, ghosts
<1>2. sent = Slice[batch] /\ batch # NoFile
  BY <1>1, BatchInArch DEF FilesInv, Working0, BatchInv
<1>3. ~Whole
  BY <1>1, <1>2 DEF Whole
<1>4. batch = arch /\ InPart
  BY <1>1, <1>3 DEF FilesInv
<1>5. InPart'
  BY <1>1, <1>2, <1>4 DEF InPart, BatchInv, TypeOK
<1> QED
  BY <1>1, <1>2, <1>4, <1>5 DEF FilesInv, Working0

LEMMA FilesChunksWritten == ASSUME BatchInv, FilesInv, ChunksWritten PROVE FilesInv'
<1>1. /\ pc = "write" /\ pc' = "plan" /\ Unwritten = {} /\ UNCHANGED <<chunkFile, sent, batch>>
  BY DEF ChunksWritten, disk, memory, ghosts
<1>2. sent = Slice[batch]
  BY <1>1 DEF FilesInv, Working0
<1>3. Whole
  <2>1. \A k \in Chunk : Slice[batch][k] # {} => chunkFile[k] # NoFile
    BY <1>1, <1>2 DEF Unwritten, Indices
  <2>2. InPart => Whole
    BY <2>1 DEF InPart, Whole
  <2> QED
    BY <1>1, <2>2 DEF FilesInv
<1> QED
  BY <1>1, <1>2, <1>3 DEF FilesInv, Whole, Working0

LEMMA FilesMerge == ASSUME FilesInv, Merge PROVE FilesInv'
  BY DEF FilesInv, Merge, Whole, Empty, Working0, ghosts

LEMMA FilesElsewhere ==
  ASSUME FilesInv,
         \/ Plan \/ AllSessionsEnded \/ Import \/ BeginRemoval \/ UNCHANGED vars
         \/ \E k \in Chunk : StartSession(k) \/ \E answer \in Answer : EndSession(k, answer)
  PROVE  FilesInv'
<1>1. CASE Plan
  BY <1>1 DEF FilesInv, Plan, Whole, Working0, disk, ghosts
<1>2. CASE AllSessionsEnded
  BY <1>2 DEF FilesInv, AllSessionsEnded, Whole, Working0, disk, memory, ghosts
<1>3. CASE Import
  BY <1>3 DEF FilesInv, Import, Whole, Empty, Working0, disk, memory, ghosts
<1>4. CASE UNCHANGED vars
  BY <1>4 DEF FilesInv, vars, Whole, Empty, InPart, Working0, disk, memory, ghosts
<1>5. CASE \E k \in Chunk : StartSession(k)
  BY <1>5 DEF FilesInv, StartSession, Whole, Working0, disk, ghosts
<1>6. CASE \E k \in Chunk : \E answer \in Answer : EndSession(k, answer)
  BY <1>6 DEF FilesInv, EndSession, Whole, Working0, ghosts
<1>7. CASE BeginRemoval
  BY <1>7 DEF FilesInv, BeginRemoval, Working0, memory, ghosts
<1> QED
  BY <1>1, <1>2, <1>3, <1>4, <1>5, <1>6, <1>7

LEMMA FilesInvariant ==
  ASSUME FilesUncut
  PROVE  Spec => []FilesInv
<1>1. BatchInv /\ FilesInv /\ [Next]_vars => FilesInv'
  BY FilesExits, FilesStart, FilesCleared, FilesLoad, FilesWriteChunk, FilesChunksWritten, FilesMerge,
     FilesElsewhere
     DEF Next, Starting, Working, Preparing, Planning, Sessions, Finishing, Environment
<1> QED
  BY FilesInit, BatchInvariant, <1>1, PTL DEF Spec

-----------------------------------------------------------------------------
(* What may be removed.                                                     *)

\* arch-merged.json holds what the run merged, and once the work directory is
\* being removed that is all it sent.
PublishedInv ==
  /\ pc \in {"import", "cleanup", "remove"} => mergedFile = {<<e.chunk, e.class>> : e \in merged}
  /\ pc = "remove" => Missing = {}

LEMMA PublishedStep == PublishedInv /\ [Next]_vars => PublishedInv'
<1> SUFFICES ASSUME PublishedInv, [Next]_vars, pc' \in {"import", "cleanup", "remove"} PROVE PublishedInv'
  BY DEF PublishedInv
<1>1. \/ Merge
      \/ BeginRemoval
      \/ pc' = pc /\ UNCHANGED <<sent, merged, mergedFile>>
      \/ pc = "import" /\ pc' = "cleanup" /\ UNCHANGED <<merged, mergedFile>>
  BY DEF Next, Starting, Working, Preparing, Planning, Sessions, Finishing, Environment, Reexport, StartRun,
     Unlink, Cleared, Load, WriteChunk, ChunksWritten, GeneratorUnavailable, Plan, StartSession, EndSession,
     AllSessionsEnded, Import, ImportFails, KeepWorkDir, RemoveFile, RemovalEnds, Kill, KillInWriteSidecar,
     KillInWriteChunk, WriteOutChunk, UnlinkFile, Exit, disk, memory, vars
<1>2. CASE Merge
  BY <1>2 DEF Merge, PublishedInv
<1>3. CASE BeginRemoval
  BY <1>3 DEF BeginRemoval, PublishedInv, Missing, Indices, disk, memory
<1>4. CASE pc' = pc /\ UNCHANGED <<sent, merged, mergedFile>>
  BY <1>4 DEF PublishedInv, Missing, Indices
<1> QED
  BY <1>1, <1>2, <1>3, <1>4 DEF PublishedInv

LEMMA PublishedInvariant == Spec => []PublishedInv
<1>1. Init => PublishedInv
  BY DEF Init, PublishedInv
<1> QED
  BY <1>1, PublishedStep, PTL DEF Spec

\* A run that removes the work directory has published whatever it sent.
LEMMA RemovesPublished ==
  ASSUME PublishedInv, pc = "remove", NEW k \in Chunk
  PROVE  {k} \X sent[k] \subseteq mergedFile
<1>1. Missing = {} /\ mergedFile = {<<e.chunk, e.class>> : e \in merged}
  BY DEF PublishedInv
<1>2. ASSUME NEW c \in sent[k] PROVE <<k, c>> \in mergedFile
  <2>1. k \in Indices
    BY DEF Indices
  <2>2. \E e \in merged : <<e.chunk, e.class>> = <<k, c>>
    BY <1>1, <2>1 DEF Missing
  <2> QED
    BY <1>1, <2>2
<1> QED
  BY <1>2

\* Unless a run is killed while it clears or removes the work directory or writes
\* chunk files, and whatever its sessions and other agents answer: the directory
\* goes only once the whole arch.json it is for is in arch-merged.json.
THEOREM WholeArchIsPublished ==
  ASSUME FilesUncut
  PROVE  Spec => WholeArchBeforeRemoval
<1> DEFINE A == (pc = "remove" /\ disk' # disk)
                  => \A k \in Chunk : {k} \X Slice[batch][k] \subseteq mergedFile
<1>1. FilesInv /\ PublishedInv /\ [Next]_vars => [A]_vars
  <2> SUFFICES ASSUME FilesInv, PublishedInv, pc = "remove"
               PROVE  \A k \in Chunk : {k} \X Slice[batch][k] \subseteq mergedFile
    OBVIOUS
  <2>1. sent = Slice[batch]
    BY DEF FilesInv
  <2> QED
    BY <2>1, RemovesPublished
<1> HIDE DEF A
<1>2. Spec => [][A]_vars
  BY <1>1, FilesInvariant, PublishedInvariant, PTL DEF Spec
<1> QED
  BY <1>2 DEF A, WholeArchBeforeRemoval

\* No chunk file that parses is removed before each of its classes is in
\* arch-merged.json.
ChunksMergedBeforeRemoval ==
  [][(pc = "remove" /\ chunkFile' # chunkFile)
       => \A k \in DiskChunks : {k} \X Slice[chunkFile[k]][k] \subseteq mergedFile]_vars

\* Whatever is killed, torn or re-exported, a chunk file survives until what it
\* asks for is merged: what is lost when writing is cut short are classes that
\* never reached a chunk file.
THEOREM NoChunkIsLost == Spec => ChunksMergedBeforeRemoval
<1> DEFINE A == (pc = "remove" /\ chunkFile' # chunkFile)
                  => \A k \in DiskChunks : {k} \X Slice[chunkFile[k]][k] \subseteq mergedFile
<1>1. BatchInv /\ PublishedInv /\ [Next]_vars => [A]_vars
  <2> SUFFICES ASSUME BatchInv, PublishedInv, pc = "remove", NEW k \in DiskChunks
               PROVE  {k} \X Slice[chunkFile[k]][k] \subseteq mergedFile
    OBVIOUS
  <2>1. k \in Chunk /\ sent[k] = Slice[chunkFile[k]][k]
    BY DEF BatchInv, WorkInv, DiskChunks
  <2> QED
    BY <2>1, RemovesPublished
<1> HIDE DEF A
<1>2. Spec => [][A]_vars
  BY <1>1, BatchInvariant, PublishedInvariant, PTL DEF Spec
<1> QED
  BY <1>2 DEF A, ChunksMergedBeforeRemoval

-----------------------------------------------------------------------------
(* The refinement: what each step is to the ledger.                         *)


LEMMA InPairs ==
  ASSUME NEW f, NEW x
  PROVE  x \in Pairs(f) <=> \E k \in Chunk : \E c \in f[k] : x = <<k, c>>
  BY DEF Pairs

LEMMA PairsGrow ==
  ASSUME NEW f, NEW g, \A k \in Chunk : f[k] \subseteq g[k]
  PROVE  Pairs(f) \subseteq Pairs(g)
  BY InPairs

\* A step that changes nothing the ledger sees.
LEMMA LedgerStutter ==
  ASSUME UNCHANGED <<batch, sidecar, mergedFile>>, pc # "clear", pc' # "clear"
  PROVE  UNCHANGED Ledger!ledger
<1>1. UNCHANGED Pairs(Slice[batch])
  OBVIOUS
<1>2. UNCHANGED Pairs([k \in Chunk |-> Described(sidecar[k])])
  OBVIOUS
<1>3. (pc' = "clear") = (pc = "clear")
  OBVIOUS
<1> QED
  BY <1>1, <1>2, <1>3 DEF Ledger!ledger

LEMMA LedgerStart ==
  ASSUME Starting \/ Cleared
  PROVE  Ledger!Next \/ UNCHANGED Ledger!ledger
<1>1. CASE Reexport \/ \E m \in {"resume", "merge"} : StartRun(m)
  <2>1. UNCHANGED <<batch, sidecar, mergedFile>> /\ pc # "clear" /\ pc' # "clear"
    BY <1>1 DEF Reexport, StartRun, disk, ghosts
  <2> QED
    BY <2>1, LedgerStutter
<1>2. CASE StartRun("fresh") \/ Cleared
  <2>1. UNCHANGED <<batch, sidecar, mergedFile>> /\ (pc' = "clear") = ~(pc = "clear")
    BY <1>2 DEF StartRun, Cleared, disk, ghosts
  <2>2. UNCHANGED <<Pairs(Slice[batch]), Pairs([k \in Chunk |-> Described(sidecar[k])])>>
    BY <2>1
  <2>3. Ledger!Restart
    BY <2>1, <2>2 DEF Ledger!Restart
  <2> QED
    BY <2>3 DEF Ledger!Next
<1> QED
  BY <1>1, <1>2 DEF Starting

LEMMA LedgerUnlink == ASSUME TypeOK, Unlink PROVE Ledger!Next
<1>1. pc = "clear" /\ UNCHANGED <<mergedFile, pc, batch>>
  BY DEF Unlink, UnlinkFile, ghosts
<1>2. \A k \in Chunk : sidecar'[k] \in {sidecar[k], NoFile}
  BY AFileLess DEF Unlink
<1>3. \A k \in Chunk : Described(sidecar'[k]) \subseteq Described(sidecar[k])
  BY <1>2, NotAnOutput DEF Described
<1>4. Pairs([k \in Chunk |-> Described(sidecar[k])])'
        \subseteq Pairs([k \in Chunk |-> Described(sidecar[k])])
  BY <1>3, InPairs
<1>5. UNCHANGED Pairs(Slice[batch]) /\ (pc' = "clear") = (pc = "clear")
  BY <1>1
<1>6. Ledger!Forget
  BY <1>1, <1>4, <1>5 DEF Ledger!Forget
<1> QED
  BY <1>6 DEF Ledger!Next

LEMMA LedgerLoad == ASSUME Load PROVE Ledger!Next
<1>1. pc = "load" /\ pc' # "clear" /\ UNCHANGED <<sidecar, mergedFile>>
  BY DEF Load, disk
<1>2. UNCHANGED Pairs([k \in Chunk |-> Described(sidecar[k])]) /\ (pc' = "clear") = (pc = "clear")
  BY <1>1
<1>3. Ledger!TakeUp
  BY <1>1, <1>2 DEF Ledger!TakeUp
<1> QED
  BY <1>3 DEF Ledger!Next

\* An answer never takes away what the sidecar describes.
LEMMA LedgerLearn ==
  ASSUME "classless" \notin Answers, TypeOK, NEW k \in Chunk, NEW answer \in Answer,
         EndSession(k, answer)
  PROVE  Ledger!Next \/ UNCHANGED Ledger!ledger
<1> DEFINE data == MergeSidecar(sidecar[k], answer)
<1>1. /\ pc = "run" /\ pc' = "run" /\ UNCHANGED <<mergedFile, batch>>
      /\ IF answer = NoAnswer THEN UNCHANGED sidecar ELSE sidecar' = [sidecar EXCEPT ![k] = data]
  BY DEF EndSession, ghosts
<1>2. CASE answer = NoAnswer
  BY <1>1, <1>2, LedgerStutter
<1>3. CASE answer # NoAnswer
  <2>1. Described(sidecar[k]) \subseteq Described(data)
    <3>1. answer \in Output
      <4>1. answer \in {[c \in Class |-> IF c \in cs THEN run ELSE NoText] : cs \in SUBSET Class}
        BY <1>3 DEF Answer
      <4> QED
        BY <4>1, BatchAssumption DEF TypeOK, Output, NoText
    <3>2. CASE sidecar[k] \in Output
      <4>1. data = [c \in Class |-> IF answer[c] # NoText THEN answer[c] ELSE sidecar[k][c]]
        BY <3>1, <3>2 DEF MergeSidecar
      <4>2. data \in Output
        BY <3>1, <3>2, <4>1 DEF Output
      <4> QED
        BY <3>2, <4>1, <4>2 DEF Described
    <3>3. CASE sidecar[k] \notin Output
      BY <3>3 DEF Described
    <3> QED
      BY <3>2, <3>3
  <2> HIDE DEF data
  <2>2. \A j \in Chunk : Described(sidecar[j]) \subseteq Described(sidecar'[j])
    BY <1>1, <1>3, <2>1 DEF TypeOK
  <2>3. Pairs([j \in Chunk |-> Described(sidecar[j])])
          \subseteq Pairs([j \in Chunk |-> Described(sidecar[j])])'
    BY <2>2, InPairs
  <2>4. UNCHANGED Pairs(Slice[batch]) /\ (pc' = "clear") = (pc = "clear")
    BY <1>1
  <2>5. Ledger!Learn
    BY <1>1, <2>3, <2>4 DEF Ledger!Learn
  <2> QED
    BY <2>5 DEF Ledger!Next
<1> QED
  BY <1>2, <1>3

\* What a run publishes is what is described of the batch.
LEMMA LedgerPublish ==
  ASSUME BatchInv, BackedInv, FilesInv, ~Manual, Merge
  PROVE  Ledger!Next
<1>1. /\ pc = "merge" /\ pc' = "import" /\ UNCHANGED <<sidecar, batch>>
      /\ mergedFile' = {<<e.chunk, e.class>> : e \in UNION {AcceptedOf(k) : k \in Indices}}
      /\ sent = Slice[batch]
  BY DEF Merge, ghosts, FilesInv, Working0
<1> DEFINE described == Pairs([k \in Chunk |-> Described(sidecar[k])])
<1>2. \A x : x \in described \cap Pairs(Slice[batch]) <=>
               \E k \in Chunk : \E c \in sent[k] \cap Described(sidecar[k]) : x = <<k, c>>
  BY <1>1, InPairs
<1>3. \A x : x \in mergedFile' <=>
               \E k \in Chunk : \E c \in sent[k] \cap Described(sidecar[k]) : x = <<k, c>>
  <2>1. ASSUME NEW x \in mergedFile'
        PROVE  \E k \in Chunk : \E c \in sent[k] \cap Described(sidecar[k]) : x = <<k, c>>
    <3>1. PICK k \in Indices : \E e \in AcceptedOf(k) : x = <<e.chunk, e.class>>
      BY <1>1, <2>1
    <3>2. PICK e \in AcceptedOf(k) : x = <<e.chunk, e.class>>
      BY <3>1
    <3>3. PICK c \in sent[k] \cap Described(sidecar[k]) :
             e = [chunk |-> k, class |-> c, run |-> sidecar[k][c]]
      BY <1>1, <3>2, MergedTexts DEF Indices
    <3> QED
      BY <3>2, <3>3 DEF Indices
  <2>2. ASSUME NEW k \in Chunk, NEW c \in sent[k] \cap Described(sidecar[k])
        PROVE  <<k, c>> \in mergedFile'
    <3> DEFINE e == [chunk |-> k, class |-> c, run |-> sidecar[k][c]]
    <3>1. e \in AcceptedOf(k) /\ k \in Indices
      BY <1>1, MergedTexts DEF Indices
    <3>2. <<e.chunk, e.class>> = <<k, c>>
      OBVIOUS
    <3> HIDE DEF e
    <3> QED
      BY <1>1, <3>1, <3>2
  <2> QED
    BY <2>1, <2>2
<1>4. mergedFile' = described \cap Pairs(Slice[batch])
  BY <1>2, <1>3
<1>5. UNCHANGED <<Pairs(Slice[batch]), described>> /\ (pc' = "clear") = (pc = "clear")
  BY <1>1
<1>6. Ledger!Publish
  BY <1>4, <1>5 DEF Ledger!Publish
<1> QED
  BY <1>6 DEF Ledger!Next

\* The work directory goes once everything due is published.
LEMMA LedgerRetire ==
  ASSUME BatchInv, FilesInv, PublishedInv, RemoveFile
  PROVE  Ledger!Next
<1>1. /\ pc = "remove" /\ pc' = "remove" /\ sent = Slice[batch] /\ UNCHANGED <<mergedFile, batch>>
  BY DEF RemoveFile, UnlinkFile, ghosts, FilesInv
<1>2. Pairs(Slice[batch]) \subseteq mergedFile
  <2>1. \A k \in Chunk : {k} \X sent[k] \subseteq mergedFile
    BY <1>1, RemovesPublished
  <2> QED
    BY <1>1, <2>1, InPairs
<1>3. \A k \in Chunk : sidecar'[k] \in {sidecar[k], NoFile}
  BY AFileLess DEF RemoveFile, BatchInv
<1>4. \A k \in Chunk : Described(sidecar'[k]) \subseteq Described(sidecar[k])
  BY <1>3, NotAnOutput DEF Described
<1>5. Pairs([k \in Chunk |-> Described(sidecar[k])])'
        \subseteq Pairs([k \in Chunk |-> Described(sidecar[k])])
  BY <1>4, InPairs
<1>6. UNCHANGED Pairs(Slice[batch]) /\ (pc' = "clear") = (pc = "clear")
  BY <1>1
<1>7. Ledger!Retire
  BY <1>1, <1>2, <1>5, <1>6 DEF Ledger!Retire
<1> QED
  BY <1>7 DEF Ledger!Next

LEMMA LedgerElsewhere ==
  ASSUME Undisturbed,
         \/ ChunksWritten \/ Planning \/ AllSessionsEnded
         \/ Import \/ ImportFails \/ KeepWorkDir \/ BeginRemoval \/ RemovalEnds \/ Environment
         \/ \E k \in Chunk : WriteChunk(k) \/ StartSession(k)
  PROVE  UNCHANGED Ledger!ledger
<1>1. CASE \/ ChunksWritten \/ Planning \/ AllSessionsEnded \/ Import \/ ImportFails \/ KeepWorkDir
           \/ BeginRemoval \/ RemovalEnds
  <2>1. UNCHANGED <<batch, sidecar, mergedFile>> /\ pc # "clear" /\ pc' # "clear"
    BY <1>1 DEF ChunksWritten, Planning, GeneratorUnavailable, Plan, AllSessionsEnded, Import,
                ImportFails, KeepWorkDir, BeginRemoval, RemovalEnds, Exit, disk, ghosts
  <2> QED
    BY <2>1, LedgerStutter
<1>2. CASE Environment
  <2>1. Kill
    BY <1>2 DEF Environment, KillInWriteSidecar, KillInWriteChunk, WriteOutChunk, Undisturbed, FilesUncut
  <2>2. UNCHANGED <<batch, sidecar, mergedFile>> /\ pc # "clear" /\ pc' # "clear"
    BY <2>1 DEF Kill, Exit, disk, ghosts, Undisturbed, FilesUncut
  <2> QED
    BY <2>2, LedgerStutter
<1>3. CASE \E k \in Chunk : WriteChunk(k) \/ StartSession(k)
  <2>1. UNCHANGED <<batch, sidecar, mergedFile>> /\ pc # "clear" /\ pc' # "clear"
    BY <1>3 DEF WriteChunk, StartSession, disk, ghosts
  <2> QED
    BY <2>1, LedgerStutter
<1> QED
  BY <1>1, <1>2, <1>3

\* Every step of a batch is a step of the ledger, or none.
LEMMA LedgerStep ==
  ASSUME Undisturbed
  PROVE  BatchInv /\ BackedInv /\ FilesInv /\ PublishedInv /\ [Next]_vars => [Ledger!Next]_(Ledger!ledger)
<1> SUFFICES ASSUME BatchInv, BackedInv, FilesInv, PublishedInv, [Next]_vars
             PROVE  Ledger!Next \/ UNCHANGED Ledger!ledger
  OBVIOUS
<1>1. TypeOK /\ ~Manual /\ "classless" \notin Answers
  BY DEF BatchInv, Undisturbed
<1>2. CASE Starting
  BY <1>2, LedgerStart
<1>3. CASE Preparing
  BY <1>1, <1>3, LedgerUnlink, LedgerStart, LedgerLoad, LedgerElsewhere DEF Preparing
<1>4. CASE Planning \/ Environment
  BY <1>4, LedgerElsewhere
<1>5. CASE Sessions
  BY <1>1, <1>5, LedgerElsewhere, LedgerLearn DEF Sessions
<1>6. CASE Finishing
  BY <1>1, <1>6, LedgerPublish, LedgerRetire, LedgerElsewhere DEF Finishing
<1>7. CASE UNCHANGED vars
  <2>1. UNCHANGED <<batch, sidecar, mergedFile, pc>>
    BY <1>7 DEF vars, disk, ghosts
  <2>2. UNCHANGED <<Pairs(Slice[batch]), Pairs([k \in Chunk |-> Described(sidecar[k])])>>
    BY <2>1
  <2> QED
    BY <2>1, <2>2 DEF Ledger!ledger
<1> QED
  BY <1>2, <1>3, <1>4, <1>5, <1>6, <1>7 DEF Next, Working

\* batch_generate implements BatchLedger, however many runs, resumes and kills it
\* takes, as long as the files are whole when a run is killed and nobody else
\* writes answers.
THEOREM BatchKeepsLedger ==
  ASSUME Undisturbed
  PROVE  Spec => KeepsLedger
<1>1. Init => Ledger!Init
  <2> SUFFICES ASSUME Init PROVE Ledger!Init
    OBVIOUS
  <2>1. \A k \in Chunk : Described(sidecar[k]) = {}
    BY NotAnOutput DEF Init, Described
  <2>2. Pairs([k \in Chunk |-> Described(sidecar[k])]) = {}
    BY <2>1, InPairs
  <2>3. mergedFile = {} /\ (pc = "clear") = FALSE
    BY DEF Init
  <2> QED
    BY <2>2, <2>3 DEF Ledger!Init
<1>2. BatchInv /\ BackedInv /\ FilesInv /\ PublishedInv /\ [Next]_vars => [Ledger!Next]_(Ledger!ledger)
  BY LedgerStep
<1>3. Undisturbed => "classless" \notin Answers /\ FilesUncut
  BY DEF Undisturbed
<1> QED
  BY <1>1, <1>2, <1>3, BatchInvariant, BackedInvariant, FilesInvariant, PublishedInvariant, PTL
     DEF Spec, KeepsLedger, Ledger!Spec

\* A description the work directory holds stays until a fresh run clears it, or
\* all of the arch.json it is for is published.
DescriptionsKept ==
  [][\A k \in Chunk : \A c \in Described(sidecar[k]) \ Described(sidecar'[k]) :
       pc = "clear" \/ Pairs(Slice[batch]) \subseteq mergedFile]_vars

\* The promise of the ledger, told of the files: under the same conditions no
\* retry, shorter answer, failed import or kill loses a text an LLM call was
\* spent on.
THEOREM NothingLearnedIsLost ==
  ASSUME Undisturbed
  PROVE  Spec => DescriptionsKept
<1> DEFINE A == \A k \in Chunk : \A c \in Described(sidecar[k]) \ Described(sidecar'[k]) :
                  pc = "clear" \/ Pairs(Slice[batch]) \subseteq mergedFile
           described == Pairs([k \in Chunk |-> Described(sidecar[k])])
<1>1. [Ledger!Next]_(Ledger!ledger) => [A]_vars
  <2> SUFFICES ASSUME [Ledger!Next]_(Ledger!ledger), NEW k \in Chunk,
                      NEW c \in Described(sidecar[k]) \ Described(sidecar'[k]),
                      pc # "clear"
               PROVE  Pairs(Slice[batch]) \subseteq mergedFile
    OBVIOUS
  <2>1. <<k, c>> \in described
    BY InPairs
  <2>2. <<k, c>> \notin described'
    <3>1. \A j \in Chunk : \A d \in Described(sidecar'[j]) : <<j, d>> = <<k, c>> => j = k /\ d = c
      OBVIOUS
    <3> QED
      BY <3>1, InPairs
  <2> HIDE DEF described
  <2>3. ~(described \subseteq described')
    BY <2>1, <2>2
  <2> USE DEF described
  <2>4. Ledger!Retire
    BY <2>3 DEF Ledger!Next, Ledger!Restart, Ledger!Forget, Ledger!TakeUp, Ledger!Learn,
       Ledger!Publish, Ledger!ledger
  <2> QED
    BY <2>4 DEF Ledger!Retire
<1> HIDE DEF A
<1>2. Undisturbed => "classless" \notin Answers /\ FilesUncut
  BY DEF Undisturbed
<1>3. BatchInv /\ BackedInv /\ FilesInv /\ PublishedInv /\ [Next]_vars => [Ledger!Next]_(Ledger!ledger)
  BY LedgerStep
<1>4. Spec => [][A]_vars
  BY <1>1, <1>2, <1>3, BatchInvariant, BackedInvariant, FilesInvariant, PublishedInvariant, PTL DEF Spec
<1> QED
  BY <1>4 DEF A, DescriptionsKept

-----------------------------------------------------------------------------
(* What is asked.  A chunk in the pool has not been answered in this run, and  *)
(* nothing writes its sidecar before its own session ends.                     *)

\* The result of the chunk is not known, and a resumed run needs it.
Wanted(k) ==
  /\ fresh[k] = NoAnswer
  /\ mode = "resume" => ~Complete(sent[k], sidecar[k])

WantedInv == pc = "run" => \A k \in queue \cup running : Wanted(k)

LEMMA WantedStep == BatchInv /\ WantedInv /\ [Next]_vars => WantedInv'
<1> SUFFICES ASSUME BatchInv, WantedInv, [Next]_vars, pc' = "run" PROVE WantedInv'
  BY DEF WantedInv
<1>1. CASE Plan
  <2>1. /\ pc = "plan" /\ UNCHANGED <<disk, mode, sent, running, fresh>>
        /\ \A k \in queue' : k \in Indices /\ (mode = "resume" =>
             Accepted(sent[k], sidecar[k], {}) = {} \/ ~Complete(sent[k], sidecar[k]))
    BY <1>1 DEF Plan
  <2>2. running = {} /\ fresh = Nothing
    BY <2>1 DEF BatchInv, PoolInv, Before
  <2>3. ASSUME NEW k \in queue' PROVE Wanted(k)'
    <3>1. k \in Chunk /\ fresh'[k] = NoAnswer
      BY <2>1, <2>2, <2>3, NothingIsTyped DEF Indices
    <3>2. mode' = "resume" => ~Complete(sent'[k], sidecar'[k])
      BY <2>1, <2>3 DEF Complete, disk
    <3> QED
      BY <3>1, <3>2 DEF Wanted
  <2> QED
    BY <2>1, <2>2, <2>3 DEF WantedInv
<1>2. CASE \E k \in Chunk : StartSession(k)
  <2>1. PICK k \in Chunk : StartSession(k)
    BY <1>2
  <2>2. /\ pc = "run" /\ queue' \cup running' \subseteq queue \cup running
        /\ UNCHANGED <<disk, mode, sent, fresh>>
    BY <2>1 DEF StartSession
  <2> QED
    BY <2>2 DEF WantedInv, Wanted, Complete, Accepted, disk
<1>3. CASE \E k \in Chunk : \E answer \in Answer : EndSession(k, answer)
  <2>1. PICK k \in Chunk, answer \in Answer : EndSession(k, answer)
    BY <1>3
  <2>2. /\ pc = "run" /\ k \in running /\ running' = running \ {k} /\ UNCHANGED <<queue, mode, sent>>
        /\ \A j \in Chunk \ {k} : fresh'[j] = fresh[j] /\ sidecar'[j] = sidecar[j]
    BY <2>1 DEF EndSession, BatchInv, TypeOK
  <2>3. k \notin queue' \cup running' /\ queue' \cup running' \subseteq (queue \cup running) \cap Chunk
    BY <2>2 DEF BatchInv, TypeOK
  <2>4. ASSUME NEW j \in queue' \cup running' PROVE Wanted(j)'
    <3>1. Wanted(j) /\ fresh'[j] = fresh[j] /\ sidecar'[j] = sidecar[j] /\ sent'[j] = sent[j]
      BY <2>2, <2>3 DEF WantedInv
    <3> QED
      BY <2>2, <3>1 DEF Wanted, Complete, Accepted
  <2> QED
    BY <2>4 DEF WantedInv
<1>4. CASE UNCHANGED vars
  BY <1>4 DEF vars, disk, memory, WantedInv, Wanted, Complete, Accepted
<1>5. \/ Plan \/ UNCHANGED vars
      \/ \E k \in Chunk : StartSession(k)
      \/ \E k \in Chunk : \E answer \in Answer : EndSession(k, answer)
  BY DEF Next, Starting, Working, Preparing, Planning, Sessions, Finishing, Environment, Reexport, StartRun,
     Unlink, Cleared, Load, WriteChunk, ChunksWritten, GeneratorUnavailable, AllSessionsEnded, Merge, Import,
     ImportFails, KeepWorkDir, BeginRemoval, RemoveFile, RemovalEnds, Kill, KillInWriteSidecar, KillInWriteChunk, WriteOutChunk, Exit
<1> QED
  BY <1>1, <1>2, <1>3, <1>4, <1>5

\* A session is started only for a chunk that waits, has no result of this run
\* yet and, in a resumed run, is not already described whole; and a run puts no
\* chunk back into its queue.
AskedOnlyIfWanted ==
  [][/\ \A k \in running' \ running : k \in queue \ queue' /\ Wanted(k)
     /\ pc = "run" => queue' \subseteq queue]_vars

\* main, the pool: an LLM session is spent on a chunk once in a run, and by
\* --resume only if the answer on disk does not describe all of its classes,
\* whatever was killed, torn, written by others, or answered without classes.
THEOREM SessionsAreNeeded == Spec => AskedOnlyIfWanted
<1> DEFINE A == /\ \A k \in running' \ running : k \in queue \ queue' /\ Wanted(k)
                /\ pc = "run" => queue' \subseteq queue
<1>1. BatchInv /\ WantedInv /\ [Next]_vars => [A]_vars
  <2> SUFFICES ASSUME BatchInv, WantedInv, Next PROVE A
    OBVIOUS
  <2>1. CASE \E k \in Chunk : StartSession(k)
    <3>1. PICK k \in Chunk : StartSession(k)
      BY <2>1
    <3>2. pc = "run" /\ k \in queue /\ queue' = queue \ {k} /\ running' = running \cup {k}
      BY <3>1 DEF StartSession
    <3> QED
      BY <3>2 DEF WantedInv
  <2>2. CASE ~ \E k \in Chunk : StartSession(k)
    <3>1. running' \subseteq running /\ (pc = "run" => queue' \subseteq queue)
      BY <2>2 DEF Next, Starting, Working, Preparing, Planning, Sessions, Finishing, Environment, Reexport, StartRun,
         Unlink, Cleared, Load, WriteChunk, ChunksWritten, GeneratorUnavailable, Plan, EndSession,
         AllSessionsEnded, Merge, Import, ImportFails, KeepWorkDir, BeginRemoval, RemoveFile, RemovalEnds, Kill, KillInWriteSidecar,
         KillInWriteChunk, WriteOutChunk, Exit, ForgetMemory, memory
    <3> QED
      BY <3>1
  <2> QED
    BY <2>1, <2>2
<1>2. Init => WantedInv
  BY DEF Init, WantedInv
<1> HIDE DEF A
<1>3. Spec => [][A]_vars
  BY <1>1, <1>2, BatchInvariant, WantedStep, PTL DEF Spec
<1> QED
  BY <1>3 DEF A, AskedOnlyIfWanted

-----------------------------------------------------------------------------
(* A run ends.  RunReturns is a liveness property and stays with TLC; it rests *)
(* on two facts that hold for any number of chunks, threads and runs: a run    *)
(* under way always has a step whose guard holds, and every step that does not *)
(* end it leaves less to do.                                                   *)

\* The guards of the steps of a run, where they are more than a test of pc.
CanWork ==
  \/ pc \in {"clear", "load", "plan", "merge", "import", "cleanup", "remove"}
  \/ /\ pc = "write"
     /\ Unwritten = {} \/ \E k \in Unwritten : \A j \in Unwritten : k <= j
  \/ /\ pc = "run"
     /\ \/ queue = {} /\ running = {}
        \/ queue # {} /\ FreeThread
        \/ running # {} /\ Answer # {}

NoRunHangs == pc # "idle" => CanWork

\* Of chunk files to write one is the next.
LEMMA FirstUnwritten ==
  ASSUME NEW S \in SUBSET Nat, S # {}
  PROVE  \E k \in S : \A j \in S : k <= j
<1> DEFINE R == OpToRel(<, Nat)
<1>1. IsWellFoundedOn(R, Nat)
  BY NatLessThanWellFounded
<1>2. PICK k \in S : \A j \in S : ~ (<<j, k>> \in R)
  <2> HIDE DEF R
  <2> QED
    BY <1>1, WFMin
<1>3. \A j \in S : ~ (j < k)
  BY <1>2 DEF OpToRel
<1> QED
  BY <1>3

\* main, ThreadPoolExecutor: whatever was killed, torn, re-exported or answered,
\* no run comes to a point where every thread waits.
THEOREM RunIsNeverStuck ==
  ASSUME Answers \cap {"classes", "classless", "none"} # {}
  PROVE  Spec => []NoRunHangs
<1>1. BatchInv => NoRunHangs
  <2> SUFFICES ASSUME BatchInv, pc # "idle" PROVE CanWork
    BY DEF NoRunHangs
  <2>1. CASE pc = "write"
    <3>1. Unwritten \subseteq Nat
      BY BatchAssumption DEF Unwritten, Indices, Chunk
    <3> QED
      BY <2>1, <3>1, FirstUnwritten DEF CanWork
  <2>2. CASE pc = "run"
    <3>1. Answer # {}
      BY DEF Answer
    <3>2. running = {} => FreeThread
      BY BatchAssumption, FS_EmptySet DEF FreeThread
    <3> QED
      BY <2>2, <3>1, <3>2 DEF CanWork
  <2>3. CASE pc \notin {"write", "run"}
    BY <2>3 DEF BatchInv, TypeOK, Step, CanWork
  <2> QED
    BY <2>1, <2>2, <2>3
<1> QED
  BY <1>1, BatchInvariant, PTL

StepRank ==
  [x \in Step |-> CASE x = "idle" -> 0 [] x = "clear" -> 1 [] x = "load" -> 2 [] x = "write" -> 3
                    [] x = "plan" -> 4 [] x = "run" -> 5 [] x = "merge" -> 6 [] x = "import" -> 7
                    [] x = "cleanup" -> 8 [] x = "remove" -> 9]

\* What is left of the step a run is at: files to unlink, files to write,
\* sessions to start and to end.
ToDo ==
  CASE pc \in {"clear", "remove"} -> WorkFiles
    [] pc = "write" -> {"write"} \X Unwritten
    [] pc = "run" -> ({"start"} \X queue) \cup ({"end"} \X (queue \cup running))
    [] OTHER -> {}

\* A step of a run leads to a later step of main, or leaves less of this one.
RunAdvances ==
  [][pc # "idle" /\ pc' # "idle" =>
       \/ StepRank[pc] < StepRank[pc']
       \/ pc' = pc /\ ToDo' \subseteq ToDo /\ ToDo' # ToDo]_vars

LEMMA LessToUnlink ==
  ASSUME TypeOK, Unlink \/ RemoveFile
  PROVE  ToDo' \subseteq ToDo /\ ToDo' # ToDo
<1>1. pc \in {"clear", "remove"} /\ pc' = pc
  BY DEF Unlink, RemoveFile
<1>2. PICK f \in WorkFiles : UnlinkFile(f)
  BY DEF Unlink, RemoveFile, Leftover, WorkFiles
<1>3. PICK k \in Chunk : \/ f = <<"chunk", k>> /\ k \in Present(chunkFile)
                         \/ f = <<"out", k>> /\ k \in Present(outChunk)
                         \/ f = <<"sidecar", k>> /\ k \in Present(sidecar)
  BY DEF WorkFiles, Files, Present
<1>4. /\ Present(chunkFile') = IF f[1] = "chunk" THEN Present(chunkFile) \ {k} ELSE Present(chunkFile)
      /\ Present(outChunk') = IF f[1] = "out" THEN Present(outChunk) \ {k} ELSE Present(outChunk)
      /\ Present(sidecar') = IF f[1] = "sidecar" THEN Present(sidecar) \ {k} ELSE Present(sidecar)
  BY <1>2, <1>3 DEF TypeOK, Present, UnlinkFile, Without
<1>5. f \in ToDo /\ f \notin ToDo' /\ ToDo' \subseteq ToDo
  <2>1. ToDo = Files("chunk", chunkFile) \cup Files("out", outChunk) \cup Files("sidecar", sidecar)
    BY <1>1 DEF ToDo, WorkFiles
  <2>2. ToDo' = Files("chunk", chunkFile') \cup Files("out", outChunk') \cup Files("sidecar", sidecar')
    BY <1>1 DEF ToDo, WorkFiles, Files, Present
  <2>3. f[2] = k
    BY <1>3
  <2> QED
    BY <1>3, <1>4, <2>1, <2>2, <2>3 DEF Files
<1> QED
  BY <1>5

LEMMA LessToWrite ==
  ASSUME TypeOK, NEW k \in Chunk, WriteChunk(k)
  PROVE  ToDo' \subseteq ToDo /\ ToDo' # ToDo
<1>1. /\ pc = "write" /\ pc' = "write" /\ k \in Unwritten /\ sent' = sent
      /\ chunkFile' = [chunkFile EXCEPT ![k] = arch] /\ arch # NoFile
  BY BatchAssumption DEF WriteChunk, TypeOK, memory
<1>2. Unwritten' = Unwritten \ {k}
  BY <1>1 DEF Unwritten, Indices, TypeOK
<1>3. ToDo = {"write"} \X Unwritten /\ ToDo' = {"write"} \X Unwritten'
  BY <1>1 DEF ToDo
<1>4. <<"write", k>> \in ToDo /\ <<"write", k>> \notin ToDo'
  BY <1>1, <1>2, <1>3
<1> QED
  BY <1>2, <1>3, <1>4

LEMMA LessToAsk ==
  ASSUME TypeOK, NEW k \in Chunk, pc = "run", pc' = "run",
         \/ k \in queue /\ queue' = queue \ {k} /\ running' = running \cup {k}
         \/ k \in running /\ queue' = queue /\ running' = running \ {k}
  PROVE  ToDo' \subseteq ToDo /\ ToDo' # ToDo
<1>1. /\ ToDo = ({"start"} \X queue) \cup ({"end"} \X (queue \cup running))
      /\ ToDo' = ({"start"} \X queue') \cup ({"end"} \X (queue' \cup running'))
  BY DEF ToDo
<1>2. queue' \subseteq queue /\ queue' \cup running' \subseteq queue \cup running
  OBVIOUS
<1>3. \/ <<"start", k>> \in ToDo /\ <<"start", k>> \notin ToDo'
      \/ <<"end", k>> \in ToDo /\ <<"end", k>> \notin ToDo'
  BY <1>1 DEF TypeOK
<1> QED
  BY <1>1, <1>2, <1>3

\* main: no step of a run is taken back; a run is a bounded number of steps,
\* whatever its sessions answer.
THEOREM RunMovesOn == Spec => RunAdvances
<1> DEFINE A == pc # "idle" /\ pc' # "idle" =>
                  \/ StepRank[pc] < StepRank[pc']
                  \/ pc' = pc /\ ToDo' \subseteq ToDo /\ ToDo' # ToDo
<1>1. TypeOK /\ [Next]_vars => [A]_vars
  <2> SUFFICES ASSUME TypeOK, Next, pc # "idle", pc' # "idle"
               PROVE  \/ StepRank[pc] < StepRank[pc']
                      \/ pc' = pc /\ ToDo' \subseteq ToDo /\ ToDo' # ToDo
    OBVIOUS
  <2>1. CASE Unlink \/ RemoveFile
    BY <2>1, LessToUnlink DEF Unlink, RemoveFile
  <2>2. CASE \E k \in Chunk : WriteChunk(k)
    BY <2>2, LessToWrite DEF WriteChunk
  <2>3. CASE \E k \in Chunk : StartSession(k)
    BY <2>3, LessToAsk DEF StartSession
  <2>4. CASE \E k \in Chunk : \E answer \in Answer : EndSession(k, answer)
    BY <2>4, LessToAsk DEF EndSession
  <2>5. CASE Cleared \/ Load \/ ChunksWritten \/ Plan \/ AllSessionsEnded \/ Merge \/ Import \/ BeginRemoval
    BY <2>5 DEF Cleared, Load, ChunksWritten, Plan, AllSessionsEnded, Merge, Import, BeginRemoval, StepRank, Step
  <2> QED
    BY <2>1, <2>2, <2>3, <2>4, <2>5
       DEF Next, Starting, Working, Preparing, Planning, Sessions, Finishing, Environment, Reexport, StartRun,
           GeneratorUnavailable, ImportFails, KeepWorkDir, RemovalEnds, Kill, KillInWriteSidecar,
           KillInWriteChunk, WriteOutChunk, Exit
<1> HIDE DEF A
<1>2. Spec => [][A]_vars
  BY <1>1, TypeCorrect, PTL DEF Spec
<1> QED
  BY <1>2 DEF A, RunAdvances
=============================================================================
