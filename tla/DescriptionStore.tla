-------------------------- MODULE DescriptionStore --------------------------
(***************************************************************************)
(* The two sqlite files that hold the descriptions of a repository, and    *)
(* the three commands that write them:                                     *)
(*                                                                         *)
(*   index.sqlite3         class.summary / method.summary, what readers    *)
(*                         are served; deleted by a forced scan            *)
(*   descriptions.sqlite3  imported_description (durable imports) and      *)
(*                         description_cache (generated texts)             *)
(*                                                                         *)
(* scan (scanner/pipeline.py), describe (summarizer/describe.py) and       *)
(* import-arch (analysis/flat_arch.py) run one at a time here, each in     *)
(* the steps between which the source can be edited or the process can     *)
(* die.  An uncommitted write is in the Tx variable of its file only.      *)
(*                                                                         *)
(* A text is kept as what it was produced for: [src, of], where "of" is    *)
(* the structure hash seen when it was imported or generated.              *)
(***************************************************************************)
EXTENDS Naturals

CONSTANTS
  Class,            \* fqns
  Rev,              \* contents a source file can have
  Gone,             \* the file does not exist
  Sig,              \* canonical method signatures
  MethodsOf,        \* [Rev -> SUBSET Sig]
  Projection,       \* [Rev -> ...]: what the skeleton of a revision hashes to
  Snippet,          \* [Rev \X Source -> ...]: source excerpt, lines picked by the
                    \* indexed revision out of the file now on disk
  NoHash,           \* SQL NULL
  LlmModel,         \* model/language pairs an LLM endpoint can have
  ProgressEvery,    \* describe commits after this many classes
  WholeEntriesOnly  \* every imported entry describes its class and all methods

Source == Rev \cup {Gone}

Hash == {Projection[r] : r \in Rev}
          \X {Snippet[p] : p \in Rev \X Source}

ASSUME ConstantsAssumption ==
  /\ Gone \notin Rev
  /\ NoHash \notin Hash
  /\ MethodsOf \in [Rev -> SUBSET Sig]
  /\ ProgressEvery \in Nat \ {0}
  /\ WholeEntriesOnly \in BOOLEAN
  /\ "deterministic" \notin LlmModel

\* The signatures are part of the hashed projection.
ASSUME SignaturesAreHashed ==
  \A r, s \in Rev : Projection[r] = Projection[s] => MethodsOf[r] = MethodsOf[s]

Model == LlmModel \cup {"deterministic"}

Text == [src : {"none", "scan", "fallback", "llm", "import", "legacy"},
         of  : Hash \cup {NoHash}]
NoText == [src |-> "none", of |-> NoHash]
NoTexts == [m \in Sig |-> NoText]

\* A class row of the index and its method rows.  classAt and methodAt are
\* history fields: the structure hash seen when each text was last settled.
IndexRow == [rev : Source, class : Text, methods : [Sig -> Text],
             classAt : Hash \cup {NoHash}, methodAt : [Sig -> Hash \cup {NoHash}]]
NoRow == [rev |-> Gone, class |-> NoText, methods |-> NoTexts,
          classAt |-> NoHash, methodAt |-> [m \in Sig |-> NoHash]]

\* Rows of imported_description: one for the class, one per method.
ImportRow == [text : Text, hash : Hash \cup {NoHash}]
NoImportRow == [text |-> NoText, hash |-> NoHash]
Imports == [class : ImportRow, methods : [Sig -> ImportRow]]
NoImports == [class |-> NoImportRow, methods |-> [m \in Sig |-> NoImportRow]]

\* A row of description_cache; its content_hash also covers model and lang.
Generated == [hash : Hash \cup {NoHash}, model : Model,
              class : Text, methods : [Sig -> Text]]
NoGenerated == [hash |-> NoHash, model |-> "deterministic",
                class |-> NoText, methods |-> NoTexts]

VARIABLES
  disk,       \* [Class -> Source]
  index,      \* [Class -> IndexRow], committed
  indexTx,    \* the same as the running command's connection sees it
  cache,      \* [imp, gen], committed
  cacheTx,
  pc,         \* the step the running command is at
  todo,       \* classes its loop has still to visit
  asked,      \* {}, or the class, hash and freshness held across an LLM call
  opts,       \* describe's [model, force]
  since       \* classes described since the last commit

vars == <<disk, index, indexTx, cache, cacheTx, pc, todo, asked, opts, since>>
files == <<index, indexTx, cache, cacheTx>>

Step == {"idle", "scan", "reapply", "describe", "llm", "import",
         "commitIndex", "commitCache"}
NoOpts == [model |-> "deterministic", force |-> FALSE]

Indexed == {c \in Class : indexTx[c].rev # Gone}

-----------------------------------------------------------------------------
(* Hashing and freshness *)

\* The skeleton comes from the index, the snippet from the disk.
StructureHash(rev, src) == <<Projection[rev], Snippet[<<rev, src>>]>>
HashNow(c) == StructureHash(indexTx[c].rev, disk[c])

\* The hash that decides whether the imports of a class still hold: the class
\* row's, else that of some method row (no ORDER BY), else NULL.
StoredHashes(g) ==
  LET methodHashes == {g.methods[m].hash : m \in Sig} \ {NoHash}
  IN  IF g.class.hash # NoHash THEN {g.class.hash}
      ELSE IF methodHashes # {} THEN methodHashes ELSE {NoHash}

\* Mutant: the staleness check is gone.
FreshAlways(stored, h) == stored \in {stored, h}

IsFresh(stored, h) == stored = NoHash \/ stored = h

\* Mutant: a stale import loses its class text but keeps its method texts.
FreshMethodsUnchecked(g, fresh) == [m \in Sig |-> g.methods[m].text]

\* Mutant: method imports are dropped when the class is described.
FreshMethodsDropped(g, fresh) == [m \in Sig |-> NoText]

FreshMethods(g, fresh) ==
  [m \in Sig |-> IF fresh THEN g.methods[m].text ELSE NoText]

\* What the LLM answers, or the deterministic text in its place: the class and
\* the methods ms are described.
Describing(src, h, ms) ==
  [class |-> [src |-> src, of |-> h],
   methods |-> [m \in Sig |-> IF m \in ms THEN [src |-> src, of |-> h] ELSE NoText]]

Overlay(over, under) == [m \in Sig |-> IF over[m] # NoText THEN over[m] ELSE under[m]]

\* The row of a described class: a method without a text of its own gets the
\* deterministic one.
Described(row, h, class, methods) ==
  [row EXCEPT
     !.class = class,
     !.methods = [m \in Sig |->
        IF m \notin MethodsOf[row.rev] THEN NoText
        ELSE IF methods[m] # NoText THEN methods[m]
        ELSE [src |-> "fallback", of |-> h]],
     !.classAt = h,
     !.methodAt = [m \in Sig |-> h]]

\* set_class_summary and set_method_summary, uncommitted.
Denormalise(c, h, class, methods) ==
  indexTx' = [indexTx EXCEPT ![c] = Described(@, h, class, methods)]

\* The command is over, its local state gone.
Return ==
  pc' = "idle" /\ todo' = {} /\ asked' = {} /\ opts' = NoOpts /\ since' = 0

-----------------------------------------------------------------------------
(* The environment *)

\* A source file is edited, deleted, restored.
Edit(c) ==
  /\ \E s \in Source \ {disk[c]} : disk' = [disk EXCEPT ![c] = s]
  /\ UNCHANGED <<files, pc, todo, asked, opts, since>>

\* The process dies, or an exception closes its connections: what was not
\* committed is rolled back.
Crash ==
  /\ pc # "idle"
  /\ Return
  /\ indexTx' = index /\ cacheTx' = cache
  /\ UNCHANGED <<disk, index, cache>>

-----------------------------------------------------------------------------
(* scan --force: delete the index, rebuild it, restore fresh imports *)

StartScan ==
  /\ pc = "idle"
  /\ pc' = "scan" /\ todo' = Class
  /\ index' = [c \in Class |-> NoRow] /\ indexTx' = index'
  /\ UNCHANGED <<disk, cache, cacheTx, asked, opts, since>>

\* One file is parsed and committed.
ScanFile(c) ==
  /\ pc = "scan" /\ c \in todo
  /\ todo' = todo \ {c}
  /\ index' = [index EXCEPT ![c].rev = disk[c]] /\ indexTx' = index'
  /\ UNCHANGED <<disk, cache, cacheTx, pc, asked, opts, since>>

\* generate_class_summaries, committed.
SummariseClasses ==
  /\ pc = "scan" /\ todo = {}
  /\ pc' = "reapply"
  /\ todo' = {c \in Class : cache.imp[c] # NoImports}
  /\ index' = [c \in Class |-> IF index[c].rev = Gone THEN index[c]
                 ELSE [index[c] EXCEPT !.class = [src |-> "scan", of |-> NoHash]]]
  /\ indexTx' = index'
  /\ UNCHANGED <<disk, cache, cacheTx, asked, opts, since>>

Restored(row, g, h) ==
  LET ms == {m \in MethodsOf[row.rev] : g.methods[m].text # NoText}
  IN  [row EXCEPT
         !.class = IF g.class.text # NoText THEN g.class.text ELSE @,
         !.methods = [m \in Sig |-> IF m \in ms THEN g.methods[m].text
                                    ELSE row.methods[m]],
         !.classAt = h,
         !.methodAt = [m \in Sig |-> IF m \in ms THEN h ELSE row.methodAt[m]]]

\* One class of the durable store: restored when fresh, else left alone.
ReapplyClass(c) ==
  /\ pc = "reapply" /\ c \in todo
  /\ todo' = todo \ {c}
  /\ IF c \notin Indexed THEN UNCHANGED indexTx
     ELSE \E s \in StoredHashes(cacheTx.imp[c]) :
       indexTx' = IF IsFresh(s, HashNow(c))
         THEN [indexTx EXCEPT ![c] = Restored(@, cacheTx.imp[c], HashNow(c))]
         ELSE [indexTx EXCEPT ![c].classAt = HashNow(c)]
  /\ UNCHANGED <<disk, index, cache, cacheTx, pc, asked, opts, since>>

FinishReapply ==
  /\ pc = "reapply" /\ todo = {}
  /\ Return
  /\ index' = indexTx
  /\ UNCHANGED <<disk, indexTx, cache, cacheTx>>

-----------------------------------------------------------------------------
(* describe *)

StartDescribe(model, force) ==
  /\ pc = "idle"
  /\ pc' = "describe" /\ todo' = Indexed /\ since' = 0
  /\ opts' = [model |-> model, force |-> force]
  /\ UNCHANGED <<disk, files, asked>>

\* Mutant: the progress counter is not reset by a commit.
VisitedNoReset(c) ==
  /\ todo' = todo \ {c}
  /\ pc' = IF since + 1 = ProgressEvery THEN "commitIndex" ELSE "describe"
  /\ since' = since + 1

\* The class is settled; every ProgressEvery classes both files are committed.
Visited(c) ==
  /\ todo' = todo \ {c}
  /\ IF since + 1 = ProgressEvery
     THEN pc' = "commitIndex" /\ since' = 0
     ELSE pc' = "describe" /\ since' = since + 1

CachePut(c, h, result) ==
  cacheTx' = [cacheTx EXCEPT !.gen[c] =
    [hash |-> h, model |-> opts.model,
     class |-> result.class, methods |-> result.methods]]

CacheHit(c, h) ==
  /\ ~opts.force
  /\ cacheTx.gen[c].hash = h
  /\ cacheTx.gen[c].model = opts.model

\* An imported class text that is still fresh wins; the methods it lacks get
\* the deterministic text.
DescribeFromImport(c) ==
  /\ pc = "describe" /\ c \in todo
  /\ LET g == cacheTx.imp[c]
         h == HashNow(c)
     IN  /\ g.class.text # NoText
         /\ \E s \in StoredHashes(g) : IsFresh(s, h)
         /\ Denormalise(c, h, g.class.text, FreshMethods(g, TRUE))
  /\ Visited(c)
  /\ UNCHANGED <<disk, index, cache, cacheTx, asked, opts>>

\* Mutant: a cached or generated text is preferred to a fresh import.
NeedsTextAnyway(c, fresh) ==
  /\ pc = "describe" /\ c \in todo
  /\ \E s \in StoredHashes(cacheTx.imp[c]) : fresh = IsFresh(s, HashNow(c))

\* No fresh class text: fresh method imports still overlay what is generated.
NeedsText(c, fresh) ==
  /\ pc = "describe" /\ c \in todo
  /\ \E s \in StoredHashes(cacheTx.imp[c]) : fresh = IsFresh(s, HashNow(c))
  /\ fresh => cacheTx.imp[c].class.text = NoText

DescribeFromCache(c, fresh) ==
  /\ NeedsText(c, fresh)
  /\ LET h == HashNow(c)
         hit == cacheTx.gen[c]
     IN  /\ CacheHit(c, h)
         /\ Denormalise(c, h, hit.class,
              Overlay(FreshMethods(cacheTx.imp[c], fresh), hit.methods))
  /\ Visited(c)
  /\ UNCHANGED <<disk, index, cache, cacheTx, asked, opts>>

\* Without an LLM the fallback is the final answer, and is cached.
DescribeDeterministically(c, fresh) ==
  /\ NeedsText(c, fresh)
  /\ opts.model \notin LlmModel
  /\ LET h == HashNow(c)
         result == Describing("fallback", h, MethodsOf[indexTx[c].rev])
     IN  /\ ~CacheHit(c, h)
         /\ CachePut(c, h, result)
         /\ Denormalise(c, h, result.class,
              Overlay(FreshMethods(cacheTx.imp[c], fresh), result.methods))
  /\ Visited(c)
  /\ UNCHANGED <<disk, index, cache, asked, opts>>

\* Skeleton, snippet, hash and imports are read before the call.
AskLlm(c, fresh) ==
  /\ NeedsText(c, fresh)
  /\ opts.model \in LlmModel
  /\ ~CacheHit(c, HashNow(c))
  /\ pc' = "llm"
  /\ asked' = {[class |-> c, hash |-> HashNow(c), fresh |-> fresh]}
  /\ UNCHANGED <<disk, files, todo, opts, since>>

\* Mutant: the fallback of a failed call is cached under the model's key.
CacheableAlways(answered) == answered \in BOOLEAN

\* A failed call must be tried again by the next run.
Cacheable(answered) == answered

\* The answer, which may lack methods and is cached as it is, or after a timeout,
\* bad status or unparseable body the deterministic text.
LlmReturns(answered, named) ==
  /\ pc = "llm"
  /\ ~answered => named = Sig
  /\ \E a \in asked :
       LET c == a.class
           result == Describing(IF answered THEN "llm" ELSE "fallback", a.hash,
                                MethodsOf[indexTx[c].rev] \cap named)
       IN  /\ IF Cacheable(answered) THEN CachePut(c, a.hash, result)
                                     ELSE UNCHANGED cacheTx
           /\ Denormalise(c, a.hash, result.class,
                Overlay(FreshMethods(cacheTx.imp[c], a.fresh), result.methods))
           /\ Visited(c)
  /\ asked' = {}
  /\ UNCHANGED <<disk, index, cache, opts>>

FinishDescribe ==
  /\ pc = "describe" /\ todo = {}
  /\ pc' = "commitIndex" /\ since' = 0
  /\ UNCHANGED <<disk, files, todo, asked, opts>>

-----------------------------------------------------------------------------
(* import-arch *)

StartImport(cs) ==
  /\ pc = "idle"
  /\ pc' = "import" /\ todo' = cs
  /\ UNCHANGED <<disk, files, asked, opts, since>>

\* set_imported: the texts of the entry, stamped with the hash of this moment.
SetImported(g, h, withClass, ms) ==
  LET row == [text |-> [src |-> "import", of |-> h], hash |-> h]
  IN  [class   |-> IF withClass THEN row ELSE g.class,
       methods |-> [m \in Sig |-> IF m \in ms THEN row ELSE g.methods[m]]]

\* set_class_summary and set_method_summary for what the entry describes.
WithImport(row, h, withClass, ms) ==
  LET text == [src |-> "import", of |-> h]
  IN  [row EXCEPT
         !.class = IF withClass THEN text ELSE @,
         !.methods = [m \in Sig |-> IF m \in ms THEN text ELSE row.methods[m]],
         !.classAt = IF withClass THEN h ELSE @,
         !.methodAt = [m \in Sig |-> IF m \in ms THEN h ELSE row.methodAt[m]]]

\* An entry that resolves to an indexed class and describes something of it.
ImportEntry(c, withClass, ms) ==
  /\ pc = "import" /\ c \in todo /\ c \in Indexed
  /\ ms \subseteq MethodsOf[indexTx[c].rev]
  /\ withClass \/ ms # {}
  /\ WholeEntriesOnly => withClass /\ ms = MethodsOf[indexTx[c].rev]
  /\ LET h == HashNow(c) IN
       /\ indexTx' = [indexTx EXCEPT ![c] = WithImport(@, h, withClass, ms)]
       /\ cacheTx' = [cacheTx EXCEPT !.imp[c] = SetImported(@, h, withClass, ms)]
  /\ todo' = todo \ {c}
  /\ UNCHANGED <<disk, index, cache, pc, asked, opts, since>>

\* The entry matches no class, or describes nothing.
ImportNothing(c) ==
  /\ pc = "import" /\ c \in todo
  /\ todo' = todo \ {c}
  /\ UNCHANGED <<disk, files, pc, asked, opts, since>>

\* Mutant: conn.commit() is forgotten.
FinishImportUncommitted ==
  /\ pc = "import" /\ todo = {}
  /\ pc' = "commitCache"
  /\ UNCHANGED <<disk, files, todo, asked, opts, since>>

FinishImport ==
  /\ pc = "import" /\ todo = {}
  /\ pc' = "commitIndex"
  /\ UNCHANGED <<disk, files, todo, asked, opts, since>>

-----------------------------------------------------------------------------
(* conn.commit(), then cache.commit() *)

CommitIndex ==
  /\ pc = "commitIndex"
  /\ pc' = "commitCache"
  /\ index' = indexTx
  /\ UNCHANGED <<disk, indexTx, cache, cacheTx, todo, asked, opts, since>>

CommitCache ==
  /\ pc = "commitCache"
  /\ cache' = cacheTx
  /\ \/ /\ todo = {} /\ Return
     \/ /\ todo # {} /\ pc' = "describe"
        /\ UNCHANGED <<todo, asked, opts, since>>
  /\ UNCHANGED <<disk, index, indexTx, cacheTx>>

-----------------------------------------------------------------------------
\* No index yet; the durable store may hold imports from before hashes existed.
LegacyRow == [text |-> [src |-> "legacy", of |-> NoHash], hash |-> NoHash]

Init ==
  /\ disk \in [Class -> Source]
  /\ index = [c \in Class |-> NoRow] /\ indexTx = index
  /\ \E legacy \in SUBSET Class :
       cache = [imp |-> [c \in Class |-> IF c \in legacy
                           THEN [NoImports EXCEPT !.class = LegacyRow]
                           ELSE NoImports],
                gen |-> [c \in Class |-> NoGenerated]]
  /\ cacheTx = cache
  /\ pc = "idle" /\ todo = {} /\ asked = {} /\ since = 0
  /\ opts = NoOpts

Scan == \/ StartScan \/ SummariseClasses \/ FinishReapply
        \/ \E c \in Class : ScanFile(c) \/ ReapplyClass(c)

Describe ==
  \/ \E model \in Model, force \in BOOLEAN : StartDescribe(model, force)
  \/ \E c \in Class : DescribeFromImport(c)
  \/ \E c \in Class, fresh \in BOOLEAN :
       \/ DescribeFromCache(c, fresh)
       \/ DescribeDeterministically(c, fresh)
       \/ AskLlm(c, fresh)
  \/ \E answered \in BOOLEAN, named \in SUBSET Sig : LlmReturns(answered, named)
  \/ FinishDescribe

Import ==
  \/ \E cs \in SUBSET Class \ {{}} : StartImport(cs)
  \/ \E c \in Class, withClass \in BOOLEAN, ms \in SUBSET Sig :
       ImportEntry(c, withClass, ms)
  \/ \E c \in Class : ImportNothing(c)
  \/ FinishImport

Next == \/ Scan \/ Describe \/ Import \/ CommitIndex \/ CommitCache
        \/ Crash \/ \E c \in Class : Edit(c)

Spec == Init /\ [][Next]_vars

-----------------------------------------------------------------------------
(* Properties *)

Store == [imp : [Class -> Imports], gen : [Class -> Generated]]

\* Every variable has its type.
TypeOK ==
  /\ disk \in [Class -> Source]
  /\ index \in [Class -> IndexRow] /\ indexTx \in [Class -> IndexRow]
  /\ cache \in Store /\ cacheTx \in Store
  /\ pc \in Step
  /\ todo \in SUBSET Class
  /\ asked \subseteq [class : Class, hash : Hash, fresh : BOOLEAN]
  /\ opts \in [model : Model, force : BOOLEAN]
  /\ since \in 0 .. ProgressEvery - 1

Describes(text) == text.src \in {"fallback", "llm", "import"}

\* A class text that claims to describe the code was imported or generated
\* for exactly the structure the settling scan, describe or import saw, over
\* edits, aborted runs, cache hits of earlier runs and restored imports
\* (imports from before hashes existed excepted).
NoStaleClassText ==
  \A c \in Class : Describes(index[c].class) => index[c].class.of = index[c].classAt

\* The same of every imported method text served next to it.
NoStaleMethodText ==
  \A c \in Class, m \in Sig :
    index[c].methods[m].src = "import"
      => index[c].methods[m].of = index[c].methodAt[m]

\* A durable class import whose hash is the one the class was settled at is
\* what is served: no generated text, cached or new, displaced it.
ImportedClassWins ==
  \A c \in Class : LET row == cache.imp[c].class IN
    (row.hash # NoHash /\ row.hash = index[c].classAt)
      => index[c].class = [src |-> "import", of |-> row.hash]

\* What the index serves of the imports of a class is what the store has.
IsDurable(c) ==
  /\ index[c].class.src = "import" => cache.imp[c].class.text = index[c].class
  /\ \A m \in Sig : index[c].methods[m].src = "import"
                     => cache.imp[c].methods[m].text = index[c].methods[m]

\* An imported method text that is served, durable and stamped for the very
\* structure the next describe sees is still served after that describe.
UnchangedMethodImportKept ==
  [][\A c \in Class, m \in Sig : LET was == index[c].methods[m] IN
       (/\ was.src = "import" /\ IsDurable(c)
        /\ index'[c].rev = index[c].rev /\ index'[c].methodAt[m] = was.of)
         => index'[c].methods[m] = was]_vars

\* description_cache holds what its key says: text generated for the hash, by
\* the model it names.  A fallback written because the LLM failed is never
\* kept, so the next run asks again; imported method texts never leak in.
CacheHoldsGenerated ==
  \A c \in Class : LET g == cache.gen[c] IN
    g # NoGenerated =>
      /\ g.class = [src |-> IF g.model \in LlmModel THEN "llm" ELSE "fallback",
                    of |-> g.hash]
      /\ \A m \in Sig : g.methods[m] \in {NoText, g.class}

\* An import reaches the durable store only once the index serves it, so a
\* crash between the two commits never leaves a restorable text nobody saw.
StoreFollowsIndex ==
  [][\A c \in Class :
       cache'.imp[c].class # cache.imp[c].class
         => index[c].class = cache'.imp[c].class.text]_vars

\* An imported text the index serves is backed by the durable store once no
\* command runs, so that the next scan --force can restore it.
ServedImportIsDurable ==
  pc = "idle" => \A c \in Class : IsDurable(c)

=============================================================================
