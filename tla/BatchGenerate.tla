---------------------------- MODULE BatchGenerate ----------------------------
(***************************************************************************)
(* summarizer/batch_generate.py: arch.json is cut into chunk files, each   *)
(* chunk is given to an LLM session by a pool of threads, the answers are  *)
(* accumulated in one sidecar file per chunk, and what they describe of    *)
(* the classes sent is merged, imported, and only then the work directory  *)
(* removed.  A run can be killed at any point and continued by --resume,   *)
(* or finished by --merge-only out of files another agent wrote.           *)
(*                                                                         *)
(* A generated text is known by the number of the run that produced it; an *)
(* arch.json with a --chunk-size is known by the slices it is cut into.    *)
(* A class stands for its normalised id, or pkg + name where the id was    *)
(* rewritten: the two keys by which an answer is matched.                  *)
(***************************************************************************)
EXTENDS Naturals, FiniteSets

CONSTANTS
  Class,      \* classes an arch.json or an answer can name
  Arch,       \* contents of arch.json
  Slice,      \* [Arch -> [Nat -> SUBSET Class]]: its chunks, {} where none
  LastChunk,  \* greatest chunk index
  NoFile,
  Torn,       \* a file whose writer was killed: not parseable
  Classless,  \* parseable JSON without a list of classes
  NoAnswer,   \* timeout, launch error or unparseable output
  Parallel,   \* --parallel
  MaxRuns,    \* bound: runs started
  Answers,    \* answers sessions give: a subset of {"classes", "classless", "none"}
  KillAt,     \* steps at which the process can be killed
  Manual      \* whether another agent writes out-chunk files

Chunk == 0 .. LastChunk
NoText == 0
Output == [Class -> 0 .. MaxRuns]
Step == {"idle", "clear", "load", "write", "plan", "run", "merge", "import",
         "cleanup", "remove"}

ASSUME BatchAssumption ==
  /\ LastChunk \in Nat
  /\ MaxRuns \in Nat
  /\ Parallel \in Nat \ {0}
  /\ Slice \in [Arch -> [Chunk -> SUBSET Class]]
  /\ NoFile \notin Arch /\ Torn \notin Arch /\ NoFile # Torn
  /\ {NoFile, Torn, Classless, NoAnswer} \cap Output = {}
  /\ Cardinality({NoFile, Torn, Classless, NoAnswer}) = 4
  /\ KillAt \subseteq Step \cup {"sidecar"}
  /\ Manual \in BOOLEAN

\* The slices of one arch.json are disjoint.
ASSUME SlicesAreDisjoint ==
  \A a \in Arch, j, k \in Chunk : j # k => Slice[a][j] \cap Slice[a][k] = {}

VARIABLES
  arch,       \* arch.json
  chunkFile,  \* chunk-NNNN.json: the arch it was cut from
  sidecar,    \* chunk-NNNN-stdout.txt
  outChunk,   \* out-chunk-NNNN.json
  mergedFile, \* arch-merged.json: the pairs <<chunk, class>> it describes
  pc,         \* the step the run is at
  mode,       \* "fresh", "resume" or "merge"
  sent,       \* sent_by_idx: [Chunk -> SUBSET Class]
  queue,      \* submitted chunks no thread has taken yet
  running,    \* chunks with an LLM session
  prior,      \* results read back from disk
  fresh,      \* results of this run's sessions
  merged,     \* merged_classes: [chunk, class, run]
  run,        \* number of the current or last run
  born,       \* history: the run that last cleared the work directory
  batch       \* history: the arch whose chunks the work directory is for

disk == <<chunkFile, sidecar, outChunk, mergedFile>>
memory == <<sent, queue, running, prior, fresh, merged>>
ghosts == <<born, batch>>
vars == <<arch, disk, pc, mode, memory, run, ghosts>>

Nothing == [k \in Chunk |-> NoAnswer]

ForgetMemory ==
  /\ sent' = [k \in Chunk |-> {}] /\ queue' = {} /\ running' = {}
  /\ prior' = Nothing /\ fresh' = Nothing /\ merged' = {}

\* The process is gone.
Exit == pc' = "idle" /\ mode' = "fresh" /\ ForgetMemory

Indices == {k \in Chunk : sent[k] # {}}

-----------------------------------------------------------------------------
(* Reading and merging answers *)

\* Classes a parsed answer describes.
Described(data) == IF data \in Output THEN {c \in Class : data[c] # NoText} ELSE {}

\* Mutant: a class a former attempt covered is accepted again.
AcceptedTwice(classes, data, seen) == classes \cap Described(data)

\* Classes of an answer that were sent and no earlier attempt covered.
Accepted(classes, data, seen) == (classes \cap Described(data)) \ seen

Complete(classes, data) ==
  Accepted(classes, data, {}) # {} /\ classes \subseteq Described(data)

\* Mutant: the new answer replaces the sidecar.
MergeSidecarOverwrite(old, new) == new

\* The new answer, with what only the former one describes.
MergeSidecar(old, new) ==
  IF new \in Output /\ old \in Output
  THEN [c \in Class |-> IF new[c] # NoText THEN new[c] ELSE old[c]]
  ELSE new

\* The results of a chunk, those of this run first.
Entries(k) == <<fresh[k], prior[k]>>

\* What the results of a chunk add to merged_classes.
AcceptedOf(k) ==
  LET e == Entries(k)
      first == Accepted(sent[k], e[1], {})
      second == Accepted(sent[k], e[2], first)
  IN  {[chunk |-> k, class |-> c, run |-> e[1][c]] : c \in first}
        \cup {[chunk |-> k, class |-> c, run |-> e[2][c]] : c \in second}

-----------------------------------------------------------------------------
(* Starting a run *)

Reexport ==
  /\ pc = "idle"
  /\ \E a \in Arch \ {arch} : arch' = a
  /\ UNCHANGED <<disk, pc, mode, memory, run, ghosts>>

\* A fresh run clears the leftovers; --resume and --merge-only keep them.
StartRun(m) ==
  /\ pc = "idle" /\ run < MaxRuns
  /\ run' = run + 1
  /\ mode' = m
  /\ pc' = IF m = "fresh" THEN "clear" ELSE "load"
  /\ born' = IF m = "fresh" THEN run + 1 ELSE born
  /\ UNCHANGED <<arch, disk, memory, batch>>

Present(files) == {k \in Chunk : files[k] # NoFile}

Files(kind, files) == {<<kind, k>> : k \in Present(files)}

\* The files of the work directory, and the end of one of them.
WorkFiles == Files("chunk", chunkFile) \cup Files("out", outChunk) \cup Files("sidecar", sidecar)

Without(files, kind, f) == IF f[1] = kind THEN [files EXCEPT ![f[2]] = NoFile] ELSE files

UnlinkFile(f) ==
  /\ chunkFile' = Without(chunkFile, "chunk", f)
  /\ outChunk' = Without(outChunk, "out", f)
  /\ sidecar' = Without(sidecar, "sidecar", f)
  /\ UNCHANGED mergedFile

\* Mutant: the sidecars of the previous generation stay.
LeftoverChunksOnly == Files("chunk", chunkFile) \cup Files("out", outChunk)

\* The leftovers to unlink next: one glob pattern after the other.
Leftover ==
  IF Present(chunkFile) # {} THEN Files("chunk", chunkFile)
  ELSE IF Present(outChunk) # {} THEN Files("out", outChunk) ELSE Files("sidecar", sidecar)

Unlink ==
  /\ pc = "clear"
  /\ \E f \in Leftover : UnlinkFile(f)
  /\ UNCHANGED <<arch, pc, mode, memory, run, ghosts>>

Cleared ==
  /\ pc = "clear" /\ Leftover = {}
  /\ pc' = "load"
  /\ UNCHANGED <<arch, disk, mode, memory, run, ghosts>>

\* Indices of the chunk files that parse.
DiskChunks == {k \in Chunk : chunkFile[k] \in Arch}

\* Mutant: a resumed run is validated against the current arch.json.
FromDiskNever == FALSE

\* A resumed run trusts the chunk files on disk, if any parses.
FromDisk == mode \in {"resume", "merge"} /\ DiskChunks # {}

\* --merge-only: out-chunk first, then the sidecar; the first that parses.
ReadBack(k) ==
  IF outChunk[k] \notin {NoFile, Torn} THEN outChunk[k]
  ELSE IF sidecar[k] \notin {NoFile, Torn} THEN sidecar[k] ELSE NoAnswer

Load ==
  /\ pc = "load"
  /\ sent' = IF FromDisk
             THEN [k \in Chunk |-> IF k \in DiskChunks THEN Slice[chunkFile[k]][k] ELSE {}]
             ELSE Slice[arch]
  /\ batch' = IF FromDisk THEN batch ELSE arch
  /\ IF mode = "merge"
     THEN /\ prior' = [k \in Chunk |-> IF sent'[k] # {} THEN ReadBack(k) ELSE NoAnswer]
          /\ pc' = "merge"
     ELSE prior' = prior /\ pc' = "write"
  /\ UNCHANGED <<arch, disk, mode, queue, running, fresh, merged, run, born>>

-----------------------------------------------------------------------------
(* Writing the chunk files *)

\* Chunk files still to write, in index order; after a clear none exists, and
\* a resumed run keeps those that do.
Unwritten == {k \in Indices : chunkFile[k] = NoFile}

WriteChunk(k) ==
  /\ pc = "write" /\ k \in Unwritten
  /\ \A j \in Unwritten : k <= j
  /\ chunkFile' = [chunkFile EXCEPT ![k] = arch]
  /\ UNCHANGED <<arch, sidecar, outChunk, mergedFile, pc, mode, memory, run, ghosts>>

ChunksWritten ==
  /\ pc = "write" /\ Unwritten = {}
  /\ pc' = "plan"
  /\ UNCHANGED <<arch, disk, mode, memory, run, ghosts>>

\* The generator is not installed: the chunk files are left for others.
GeneratorUnavailable ==
  /\ pc = "plan"
  /\ Exit
  /\ UNCHANGED <<arch, disk, run, ghosts>>

\* A resumed run keeps what the sidecars describe and runs what is not
\* complete.
Plan ==
  /\ pc = "plan"
  /\ LET kept == IF mode = "resume"
                 THEN {k \in Indices : Accepted(sent[k], sidecar[k], {}) # {}} ELSE {}
     IN  /\ prior' = [k \in Chunk |-> IF k \in kept THEN sidecar[k] ELSE NoAnswer]
         /\ queue' = {k \in Indices : k \notin kept \/ ~Complete(sent[k], sidecar[k])}
  /\ pc' = "run"
  /\ UNCHANGED <<arch, disk, mode, sent, running, fresh, merged, run, ghosts>>

-----------------------------------------------------------------------------
(* The pool of sessions *)

FreeThread == Cardinality(running) < Parallel

\* Mutant: a chunk is submitted twice.
StartSessionKeepsQueued(k) ==
  /\ pc = "run" /\ k \in queue /\ FreeThread
  /\ running' = running \cup {k}
  /\ UNCHANGED <<arch, disk, pc, mode, sent, queue, prior, fresh, merged, run, ghosts>>

StartSession(k) ==
  /\ pc = "run" /\ k \in queue /\ FreeThread
  /\ queue' = queue \ {k}
  /\ running' = running \cup {k}
  /\ UNCHANGED <<arch, disk, pc, mode, sent, prior, fresh, merged, run, ghosts>>

\* What a session can return, or NoAnswer after a timeout.
Answer ==
  (IF "classes" \in Answers
   THEN {[c \in Class |-> IF c \in cs THEN run ELSE NoText] : cs \in SUBSET Class} ELSE {})
  \cup (IF "classless" \in Answers THEN {Classless} ELSE {})
  \cup (IF "none" \in Answers THEN {NoAnswer} ELSE {})

\* Mutant: a chunk whose session failed is submitted again, without limit.
EndSessionRetries(k, answer) ==
  /\ pc = "run" /\ k \in running
  /\ running' = running \ {k}
  /\ LET data == MergeSidecar(sidecar[k], answer) IN
       IF answer = NoAnswer THEN queue' = queue \cup {k} /\ UNCHANGED <<sidecar, fresh>>
       ELSE /\ sidecar' = [sidecar EXCEPT ![k] = data]
            /\ fresh' = [fresh EXCEPT ![k] = data]
            /\ UNCHANGED queue
  /\ UNCHANGED <<arch, chunkFile, outChunk, mergedFile, pc, mode, sent,
                 prior, merged, run, ghosts>>

\* A session ends: a parseable answer is merged into the sidecar, anything
\* else leaves it alone.
EndSession(k, answer) ==
  /\ pc = "run" /\ k \in running
  /\ running' = running \ {k}
  /\ LET data == MergeSidecar(sidecar[k], answer) IN
       IF answer = NoAnswer THEN UNCHANGED <<sidecar, fresh>>
       ELSE /\ sidecar' = [sidecar EXCEPT ![k] = data]
            /\ fresh' = [fresh EXCEPT ![k] = data]
  /\ UNCHANGED <<arch, chunkFile, outChunk, mergedFile, pc, mode, sent, queue,
                 prior, merged, run, ghosts>>

AllSessionsEnded ==
  /\ pc = "run" /\ queue = {} /\ running = {}
  /\ pc' = "merge"
  /\ UNCHANGED <<arch, disk, mode, memory, run, ghosts>>

-----------------------------------------------------------------------------
(* Merging, importing, cleaning up *)

\* Validated results, written to arch-merged.json.
Merge ==
  /\ pc = "merge"
  /\ merged' = UNION {AcceptedOf(k) : k \in Indices}
  /\ mergedFile' = {<<e.chunk, e.class>> : e \in merged'}
  /\ pc' = "import"
  /\ UNCHANGED <<arch, chunkFile, sidecar, outChunk, mode, sent, queue, running,
                 prior, fresh, run, ghosts>>

\* Imported, or left to the user (--no-import).
Import ==
  /\ pc = "import"
  /\ pc' = "cleanup"
  /\ UNCHANGED <<arch, disk, mode, memory, run, ghosts>>

\* There is no index database, or the import raises.
ImportFails ==
  /\ pc = "import"
  /\ Exit
  /\ UNCHANGED <<arch, disk, run, ghosts>>

\* Mutant: classes without a description do not keep the work directory.
MissingUnchecked == {k \in Indices : \A e \in merged : e.chunk # k}

\* Chunks of which some class, or every class, is not described.
Missing == {k \in Indices : \E c \in sent[k] :
              \A e \in merged : <<e.chunk, e.class>> # <<k, c>>}

\* Kept on --keep-chunks, for a retry, and when others wrote the answers.
KeepWorkDir ==
  /\ pc = "cleanup"
  /\ Exit
  /\ UNCHANGED <<arch, disk, run, ghosts>>

\* Everything sent is described: the directory goes, file by file, in the order
\* the file system lists it.
BeginRemoval ==
  /\ pc = "cleanup" /\ Missing = {} /\ mode # "merge"
  /\ pc' = "remove"
  /\ UNCHANGED <<arch, disk, mode, memory, run, ghosts>>

RemoveFile ==
  /\ pc = "remove"
  /\ \E f \in WorkFiles : UnlinkFile(f)
  /\ UNCHANGED <<arch, pc, mode, memory, run, ghosts>>

RemovalEnds ==
  /\ pc = "remove" /\ WorkFiles = {}
  /\ Exit
  /\ UNCHANGED <<arch, disk, run, ghosts>>

-----------------------------------------------------------------------------
(* The environment *)

\* Killed; or, at "remove", some files cannot be unlinked, which is ignored.
Kill ==
  /\ pc # "idle" /\ pc \in KillAt
  /\ Exit
  /\ UNCHANGED <<arch, disk, run, ghosts>>

\* Killed between the truncation of a chunk file and the end of its write.
KillInWriteChunk(k) ==
  /\ pc = "write" /\ "write" \in KillAt /\ k \in Unwritten
  /\ \A j \in Unwritten : k <= j
  /\ chunkFile' = [chunkFile EXCEPT ![k] = Torn]
  /\ Exit
  /\ UNCHANGED <<arch, sidecar, outChunk, mergedFile, run, ghosts>>

\* The same while sessions end: their sidecars are truncated.
KillInWriteSidecar ==
  /\ pc = "run" /\ "sidecar" \in KillAt
  /\ \E ks \in SUBSET running \ {{}} :
       sidecar' = [k \in Chunk |-> IF k \in ks THEN Torn ELSE sidecar[k]]
  /\ Exit
  /\ UNCHANGED <<arch, chunkFile, outChunk, mergedFile, run, ghosts>>

\* Another agent answers a chunk by hand.
WriteOutChunk(k) ==
  /\ Manual /\ pc = "idle" /\ chunkFile[k] \in Arch
  /\ \E out \in Answer \ {NoAnswer, outChunk[k]} : outChunk' = [outChunk EXCEPT ![k] = out]
  /\ UNCHANGED <<arch, chunkFile, sidecar, mergedFile, pc, mode, memory, run, ghosts>>

-----------------------------------------------------------------------------
Init ==
  /\ arch \in Arch
  /\ chunkFile = [k \in Chunk |-> NoFile]
  /\ sidecar = [k \in Chunk |-> NoFile]
  /\ outChunk = [k \in Chunk |-> NoFile]
  /\ mergedFile = {}
  /\ pc = "idle" /\ mode = "fresh"
  /\ sent = [k \in Chunk |-> {}] /\ queue = {} /\ running = {}
  /\ prior = Nothing /\ fresh = Nothing /\ merged = {}
  /\ run = 0 /\ born = 0 /\ batch = arch

Starting == (\E m \in {"fresh", "resume", "merge"} : StartRun(m)) \/ Reexport
Preparing == Unlink \/ Cleared \/ Load \/ (\E k \in Chunk : WriteChunk(k)) \/ ChunksWritten
Planning == GeneratorUnavailable \/ Plan
Sessions == \/ \E k \in Chunk : StartSession(k)
            \/ \E k \in Chunk : \E answer \in Answer : EndSession(k, answer)
            \/ AllSessionsEnded
Finishing == Merge \/ Import \/ ImportFails \/ KeepWorkDir
             \/ BeginRemoval \/ RemoveFile \/ RemovalEnds
Environment == \/ Kill \/ KillInWriteSidecar
               \/ \E k \in Chunk : KillInWriteChunk(k) \/ WriteOutChunk(k)

Working == Preparing \/ Planning \/ Sessions \/ Finishing
Next == Starting \/ Working \/ Environment

Spec == Init /\ [][Next]_vars

\* The threads of a run are scheduled, and a session returns: its process
\* tree is killed when it times out.
FairSpec ==
  /\ Spec
  /\ WF_vars(Preparing) /\ WF_vars(Planning) /\ WF_vars(Finishing)
  /\ WF_vars(AllSessionsEnded)
  /\ \A k \in Chunk :
       /\ WF_vars(StartSession(k))
       /\ WF_vars(\E answer \in Answer : EndSession(k, answer))

-----------------------------------------------------------------------------
(* Properties *)

\* Every variable has its type, and a chunk is queued or running, never both.
TypeOK ==
  /\ arch \in Arch /\ batch \in Arch
  /\ chunkFile \in [Chunk -> Arch \cup {NoFile, Torn}]
  /\ sidecar \in [Chunk -> Output \cup {Classless, NoFile, Torn}]
  /\ outChunk \in [Chunk -> Output \cup {Classless, NoFile}]
  /\ mergedFile \subseteq Chunk \X Class
  /\ pc \in Step
  /\ mode \in {"fresh", "resume", "merge"}
  /\ sent \in [Chunk -> SUBSET Class]
  /\ queue \subseteq Chunk /\ running \subseteq Chunk /\ queue \cap running = {}
  /\ prior \in [Chunk -> Output \cup {Classless, NoAnswer}]
  /\ fresh \in [Chunk -> Output \cup {Classless, NoAnswer}]
  /\ merged \subseteq [chunk : Chunk, class : Class, run : 1 .. MaxRuns]
  /\ run \in 0 .. MaxRuns /\ born \in 0 .. run

\* The chunk files of the work directory are all cut from one arch.json,
\* whatever was re-exported and killed between the runs: else the slices would
\* overlap and a class be sent twice.  While a run works they are what it sent.
OneArch ==
  /\ \A j, k \in DiskChunks : chunkFile[j] = chunkFile[k]
  /\ \A k \in DiskChunks : pc \notin {"idle", "clear", "load"}
                             => sent[k] = Slice[chunkFile[k]][k]

Result(data, c) == IF data \in Output THEN data[c] ELSE NoText

\* merged_classes has every class that some result of its own chunk describes,
\* once, with the newest of the texts: a retry wins over what it retried, and
\* no answer speaks for the classes of another chunk.
NewestAcceptedOnce ==
  pc \in {"import", "cleanup"} =>
    /\ \A d, e \in merged : d.class = e.class => d = e
    /\ \A k \in Chunk, c \in Class :
         LET texts == {Result(fresh[k], c), Result(prior[k], c)} \ {NoText}
         IN  {e.run : e \in {d \in merged : d.chunk = k /\ d.class = c}}
               = IF c \in sent[k] THEN {t \in texts : \A u \in texts : u <= t} ELSE {}

\* What a run merges is on disk until the work directory goes: if it is killed
\* now, or its import fails, a resumed run has the same texts without asking
\* the LLM for any of them again.
DiskBacksMerged ==
  (pc \in {"import", "cleanup"} /\ mode # "merge") =>
    {<<e.chunk, e.class, e.run>> : e \in merged}
      = UNION {{<<k, c, sidecar[k][c]>> : c \in sent[k] \cap Described(sidecar[k])}
               : k \in Chunk}

\* A merged text was generated since the work directory was last cleared, so
\* a fresh run never imports, under a fresh structure hash, what an earlier
\* generation left behind.
NoEarlierGeneration == \A e \in merged : e.run >= born

\* A file of the work directory is removed, at the end of a run, only when every
\* class of the arch.json it was set up for is in arch-merged.json.
WholeArchBeforeRemoval ==
  [][(pc = "remove" /\ disk' # disk)
       => \A k \in Chunk : {k} \X Slice[batch][k] \subseteq mergedFile]_vars

Pairs(classes) == UNION {{k} \X classes[k] : k \in Chunk}

Ledger == INSTANCE BatchLedger WITH
  due       <- Pairs(Slice[batch]),
  described <- Pairs([k \in Chunk |-> Described(sidecar[k])]),
  published <- mergedFile,
  clearing  <- pc = "clear"

\* What the directory holds, and is for, over any number of runs, kills and
\* resumes, behaves as BatchLedger says.
KeepsLedger == Ledger!Spec

\* A started run comes to an end, whatever its sessions answer.
RunReturns == (pc # "idle") ~> (pc = "idle")

=============================================================================
