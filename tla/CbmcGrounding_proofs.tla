-------------------------- MODULE CbmcGrounding_proofs --------------------------
(***************************************************************************)
(* Proofs about CbmcGrounding for any number of chunks, classes, threads   *)
(* and permits, any configuration and any answers of the tool.             *)
(***************************************************************************)
EXTENDS CbmcGrounding, FiniteSetTheorems, TLAPS

\* Classes with a call under way.
Calling == {c \in Class : phase[c] \in {"direct", "search", "again"}}

\* A permit is held for each class with a call under way, and by nobody else.
HeldInv == held = Cardinality(Calling) /\ held <= Permits

\* Nothing is chosen, and no chunk started, before the configuration is read.
SetupInv ==
  setting # Forgotten =>
    /\ binary = None /\ project = None /\ chosen = None
    /\ \A k \in Chunk : chunk[k] = "queued"

\* Code is taken only from verified nodes, by a fetch that has ended.
CodeInv ==
  \A c \in Class : code[c] # NoNode =>
    code[c] \in Matches[c] \ Relocated /\ phase[c] = "done"

\* Prompts are built for chunks past their fetches.
PromptInv ==
  \A k \in Chunk :
    /\ prompt[k] # None => chunk[k] \in {"prompted", "ended"}
    /\ prompt[k] = "cbmc" => Fetched(k)

BlockInv ==
  \A c \in Class : block[c] # NoNode =>
    /\ prompt[ChunkOf[c]] = "cbmc"
    /\ \E d \in ClassesOf(ChunkOf[c]) : FqnOf[d] = FqnOf[c] /\ code[d] = block[c]

GroundingInv ==
  TypeOK /\ HeldInv /\ SetupInv /\ CodeInv /\ PromptInv /\ BlockInv /\ NoClassSinksItsChunk

-----------------------------------------------------------------------------
(* The permits.                                                             *)

LEMMA CallingIsFinite == IsFiniteSet(Calling)
  BY GroundingAssumption, FS_Subset DEF Calling

\* Taking a permit, and giving it back.
LEMMA OneMore ==
  ASSUME HeldInv, NEW c \in Class, c \notin Calling, Calling' = Calling \cup {c},
         held' = held + 1, held < Permits
  PROVE  HeldInv' /\ held' \in 0 .. Permits
<1>1. Cardinality(Calling) \in Nat /\ Cardinality(Calling \cup {c}) = Cardinality(Calling) + 1
  BY CallingIsFinite, FS_AddElement, FS_CardinalityType
<1> QED
  BY <1>1, GroundingAssumption DEF HeldInv

LEMMA OneLess ==
  ASSUME HeldInv, NEW c \in Calling, Calling' = Calling \ {c}, held' = held - 1
  PROVE  HeldInv' /\ held' \in 0 .. Permits
<1>1. Cardinality(Calling) \in Nat /\ Cardinality(Calling \ {c}) = Cardinality(Calling) - 1
  BY CallingIsFinite, FS_RemoveElement, FS_CardinalityType
<1>2. Cardinality(Calling \ {c}) \in Nat
  <2>1. IsFiniteSet(Calling \ {c})
    BY CallingIsFinite, FS_Subset
  <2> QED
    BY <2>1, FS_CardinalityType
<1> QED
  BY <1>1, <1>2, GroundingAssumption DEF HeldInv

-----------------------------------------------------------------------------
(* The configuration.                                                       *)

LEMMA ListedIsOwn ==
  ASSUME NEW listing \in SUBSET Project, ListedProject(listing) # None
  PROVE  LET p == ListedProject(listing)
         IN  /\ p \in Project
             /\ \/ p \in OwnRoot /\ listing \cap OwnRoot = {p}
                \/ p \in OwnName /\ listing \cap Rooted = {}
<1> DEFINE byRoot == listing \cap OwnRoot
<1> DEFINE byName == listing \cap OwnName
<1>1. IsFiniteSet(byRoot) /\ IsFiniteSet(byName)
  BY GroundingAssumption, FS_Subset
<1>2. CASE Cardinality(byRoot) = 1
  <2>1. PICK p : byRoot = {p}
    BY <1>1, <1>2, FS_Singleton
  <2>2. ListedProject(listing) = p
    BY <1>2, <2>1 DEF ListedProject
  <2> QED
    BY <2>1, <2>2
<1>3. CASE Cardinality(byRoot) # 1
  <2>1. listing \cap Rooted = {} /\ Cardinality(byName) = 1
    BY <1>3 DEF ListedProject
  <2>2. PICK p : byName = {p}
    BY <1>1, <2>1, FS_Singleton
  <2>3. ListedProject(listing) = p
    BY <1>3, <2>1, <2>2 DEF ListedProject
  <2> QED
    BY <2>1, <2>2, <2>3
<1> QED
  BY <1>2, <1>3

LEMMA ConfigurationIsOwn ==
  ASSUME NEW s \in Setting
  PROVE  /\ ResolvedBinary(s) \in Source \cup {None}
         /\ ExplicitProject(s) \in Source \cup {None}
         /\ ~s.trusted => /\ ResolvedBinary(s) \notin {"toml", "dotenv"}
                          /\ ExplicitProject(s) \notin {"toml", "dotenv"}
         /\ s.envProject => ExplicitProject(s) = "env"
  BY DEF ResolvedBinary, ExplicitProject, LoadsDotenv, Setting, Source, None

-----------------------------------------------------------------------------
(* Steps of a class.                                                        *)

Phase == {"queued", "waiting", "direct", "search", "again", "done"}

\* A step of a fetch that has not ended disturbs no prompt.
LEMMA FetchStep ==
  ASSUME GroundingInv, NEW c \in Class, phase[c] # "done",
         UNCHANGED <<setup, chunk, prompt, block>>,
         NEW x \in Phase, phase' = [phase EXCEPT ![c] = x],
         NEW found \in {NoNode} \cup (Matches[c] \ Relocated), found # NoNode => x = "done",
         code' = [code EXCEPT ![c] = found] \/ UNCHANGED code
  PROVE  /\ phase' \in [Class -> Phase] /\ code' \in [Class -> Node \cup {NoNode}]
         /\ SetupInv' /\ CodeInv' /\ PromptInv' /\ BlockInv' /\ NoClassSinksItsChunk'
<1> USE GroundingAssumption
<1>1. /\ phase \in [Class -> Phase] /\ code \in [Class -> Node \cup {NoNode}]
      /\ phase' \in [Class -> Phase] /\ code' \in [Class -> Node \cup {NoNode}]
      /\ \A d \in Class \ {c} : phase'[d] = phase[d] /\ code'[d] = code[d]
      /\ phase'[c] = x /\ (code'[c] = found \/ code'[c] = code[c])
  <2>1. phase \in [Class -> Phase] /\ code \in [Class -> Node \cup {NoNode}]
    BY DEF GroundingInv, TypeOK, Phase
  <2>2. found \in Node \cup {NoNode}
    OBVIOUS
  <2> QED
    BY <2>1, <2>2
<1>2. code[c] = NoNode
  BY DEF GroundingInv, CodeInv
<1>3. SetupInv'
  BY DEF GroundingInv, SetupInv, setup
<1>4. CodeInv'
  BY <1>1, <1>2 DEF GroundingInv, CodeInv
<1>5. \A k \in Chunk : Fetched(k) => c \notin ClassesOf(k) /\ Fetched(k)'
  BY <1>1 DEF Fetched, ClassesOf
<1>6. PromptInv'
  BY <1>5 DEF GroundingInv, PromptInv
<1>7. BlockInv'
  BY <1>1, <1>2 DEF GroundingInv, BlockInv, ClassesOf
<1>8. NoClassSinksItsChunk'
  <2> SUFFICES ASSUME NEW k \in Chunk, UseCbmc, prompt[k] # None
               PROVE  /\ Fetched(k)'
                      /\ \A d \in ClassesOf(k) : code'[d] # NoNode => block[d] # NoNode
                      /\ prompt[k] = "file" <=> \A d \in ClassesOf(k) : code'[d] = NoNode
    BY DEF NoClassSinksItsChunk, UseCbmc, setup, ClassesOf
  <2>1. Fetched(k)
    BY DEF GroundingInv, NoClassSinksItsChunk
  <2>2. \A d \in ClassesOf(k) : code'[d] = code[d]
    BY <1>1, <1>5, <2>1 DEF ClassesOf
  <2> QED
    BY <1>5, <2>1, <2>2 DEF GroundingInv, NoClassSinksItsChunk
<1> QED
  BY <1>1, <1>3, <1>4, <1>6, <1>7, <1>8

\* Its end gives the permit back.
LEMMA FinishStep ==
  ASSUME GroundingInv, NEW c \in Calling, UNCHANGED <<setup, chunk, prompt, block>>,
         NEW found \in {NoNode} \cup (Matches[c] \ Relocated), Finish(c, found)
  PROVE  GroundingInv'
<1>1. c \in Class /\ phase[c] # "done" /\ phase \in [Class -> Phase]
  BY DEF Calling, GroundingInv, TypeOK, Phase
<1>2. /\ phase' = [phase EXCEPT ![c] = "done"] /\ code' = [code EXCEPT ![c] = found]
      /\ held' = held - 1 /\ UNCHANGED hit
  BY DEF Finish
<1>3. /\ phase' \in [Class -> Phase] /\ code' \in [Class -> Node \cup {NoNode}]
      /\ SetupInv' /\ CodeInv' /\ PromptInv' /\ BlockInv' /\ NoClassSinksItsChunk'
  BY <1>1, <1>2, FetchStep DEF Phase
<1>4. Calling' = Calling \ {c}
  BY <1>1, <1>2 DEF Calling
<1>5. HeldInv' /\ held' \in 0 .. Permits
  BY <1>2, <1>4, OneLess DEF GroundingInv
<1> QED
  BY <1>2, <1>3, <1>5 DEF GroundingInv, TypeOK, setup, Phase

LEMMA StartFetchStep ==
  ASSUME GroundingInv, NEW c \in Class, StartFetch(c) PROVE GroundingInv'
<1>1. /\ phase[c] = "queued" /\ phase' = [phase EXCEPT ![c] = "waiting"]
      /\ UNCHANGED <<setup, chunk, hit, code, held, prompt, block>>
  BY DEF StartFetch
<1>2. /\ phase' \in [Class -> Phase] /\ code' \in [Class -> Node \cup {NoNode}]
      /\ SetupInv' /\ CodeInv' /\ PromptInv' /\ BlockInv' /\ NoClassSinksItsChunk'
  BY <1>1, FetchStep DEF Phase
<1>3. UNCHANGED Calling
  BY <1>1 DEF Calling, GroundingInv, TypeOK
<1> QED
  BY <1>1, <1>2, <1>3 DEF GroundingInv, HeldInv, TypeOK, setup, Phase

LEMMA AcquireStep ==
  ASSUME GroundingInv, NEW c \in Class, Acquire(c) PROVE GroundingInv'
<1>1. /\ phase[c] = "waiting" /\ phase' = [phase EXCEPT ![c] = "direct"]
      /\ held < Permits /\ held' = held + 1
      /\ UNCHANGED <<setup, chunk, hit, code, prompt, block>>
  BY DEF Acquire
<1>2. /\ phase' \in [Class -> Phase] /\ code' \in [Class -> Node \cup {NoNode}]
      /\ SetupInv' /\ CodeInv' /\ PromptInv' /\ BlockInv' /\ NoClassSinksItsChunk'
  BY <1>1, FetchStep DEF Phase
<1>3. c \notin Calling /\ Calling' = Calling \cup {c}
  BY <1>1 DEF Calling, GroundingInv, TypeOK
<1>4. HeldInv' /\ held' \in 0 .. Permits
  BY <1>1, <1>3, OneMore DEF GroundingInv
<1> QED
  BY <1>1, <1>2, <1>4 DEF GroundingInv, TypeOK, setup, Phase

LEMMA DirectStep ==
  ASSUME GroundingInv, NEW c \in Class, Direct(c) PROVE GroundingInv'
<1>1. c \in Calling /\ phase[c] = "direct" /\ UNCHANGED <<setup, chunk, prompt, block>>
  BY DEF Direct, Calling
<1>2. CASE \E n \in Node : Verified(c, n) /\ Finish(c, n)
  BY <1>1, <1>2, FinishStep DEF Verified
<1>3. CASE Finish(c, NoNode)
  BY <1>1, <1>3, FinishStep
<1>4. CASE phase' = [phase EXCEPT ![c] = "search"] /\ UNCHANGED <<hit, code, held>>
  <2>1. /\ phase' \in [Class -> Phase] /\ code' \in [Class -> Node \cup {NoNode}]
        /\ SetupInv' /\ CodeInv' /\ PromptInv' /\ BlockInv' /\ NoClassSinksItsChunk'
    BY <1>1, <1>4, FetchStep DEF Phase
  <2>2. UNCHANGED Calling
    BY <1>1, <1>4 DEF Calling, GroundingInv, TypeOK
  <2> QED
    BY <1>1, <1>4, <2>1, <2>2 DEF GroundingInv, HeldInv, TypeOK, setup, Phase
<1> QED
  BY <1>2, <1>3, <1>4 DEF Direct

LEMMA SearchStep ==
  ASSUME GroundingInv, NEW c \in Class, Search(c) PROVE GroundingInv'
<1>1. c \in Calling /\ phase[c] = "search" /\ UNCHANGED <<setup, chunk, prompt, block>>
  BY DEF Search, Calling
<1>2. PICK hits \in SUBSET Bears[c] :
        IF Cardinality(Candidates(c, hits)) = 1 /\ Candidates(c, hits) \cap Exact[c] = {}
        THEN /\ phase' = [phase EXCEPT ![c] = "again"]
             /\ hit' = [hit EXCEPT ![c] = CHOOSE n \in Candidates(c, hits) : TRUE]
             /\ UNCHANGED <<code, held>>
        ELSE Finish(c, NoNode)
  BY DEF Search
<1>3. CASE Finish(c, NoNode)
  BY <1>1, <1>3, FinishStep
<1>4. CASE /\ Cardinality(Candidates(c, hits)) = 1
           /\ phase' = [phase EXCEPT ![c] = "again"]
           /\ hit' = [hit EXCEPT ![c] = CHOOSE n \in Candidates(c, hits) : TRUE]
           /\ UNCHANGED <<code, held>>
  <2>1. /\ phase' \in [Class -> Phase] /\ code' \in [Class -> Node \cup {NoNode}]
        /\ SetupInv' /\ CodeInv' /\ PromptInv' /\ BlockInv' /\ NoClassSinksItsChunk'
    BY <1>1, <1>4, FetchStep DEF Phase
  <2>2. UNCHANGED Calling
    BY <1>1, <1>4 DEF Calling, GroundingInv, TypeOK
  <2>3. hit' \in [Class -> Node \cup {NoNode}]
    <3>1. Candidates(c, hits) \in SUBSET Node
      BY GroundingAssumption DEF Candidates
    <3>2. IsFiniteSet(Candidates(c, hits))
      BY <3>1, GroundingAssumption, FS_Subset
    <3>3. Candidates(c, hits) # {}
      BY <1>4, <3>2, FS_Singleton
    <3> QED
      BY <1>4, <3>1, <3>3 DEF GroundingInv, TypeOK
  <2> QED
    BY <1>1, <1>4, <2>1, <2>2, <2>3 DEF GroundingInv, HeldInv, TypeOK, setup, Phase
<1> QED
  BY <1>2, <1>3, <1>4

LEMMA AgainStep ==
  ASSUME GroundingInv, NEW c \in Class, Again(c) PROVE GroundingInv'
<1>1. c \in Calling /\ UNCHANGED <<setup, chunk, prompt, block>>
  BY DEF Again, Calling
<1>2. CASE \E n \in Node : Verified(c, n) /\ Finish(c, n)
  BY <1>1, <1>2, FinishStep DEF Verified
<1>3. CASE Finish(c, NoNode)
  BY <1>1, <1>3, FinishStep
<1> QED
  BY <1>2, <1>3 DEF Again

-----------------------------------------------------------------------------
(* Steps of the configuration and of a chunk.                               *)

\* What a reading of the configuration chooses.
LEMMA SetUpChooses ==
  ASSUME GroundingInv, SetUpCbmc
  PROVE  /\ setting \in Setting /\ setting # Forgotten
         /\ binary' \in Source \cup {None} /\ project' \in Source \cup {None}
         /\ chosen' \in Project \cup {None}
         /\ ~setting.trusted => /\ binary' \notin {"toml", "dotenv"}
                                /\ project' \notin {"toml", "dotenv"}
         /\ setting.arg => binary' \in {"arg", None}
         /\ setting.envProject => project' \in {"env", None}
         /\ chosen' # None =>
              \/ chosen' \in OwnRoot /\ setting.listing \cap OwnRoot = {chosen'}
              \/ chosen' \in OwnName /\ setting.listing \cap Rooted = {}
<1> DEFINE chosenBinary == IF setting.arg THEN "arg" ELSE ResolvedBinary(setting)
<1> DEFINE explicit == ExplicitProject(setting)
<1> DEFINE listed == IF explicit = None THEN ListedProject(setting.listing) ELSE None
<1>1. setting \in Setting /\ setting # Forgotten
  BY GroundingAssumption DEF SetUpCbmc, GroundingInv, TypeOK
<1>2. /\ ResolvedBinary(setting) \in Source \cup {None} /\ explicit \in Source \cup {None}
      /\ ~setting.trusted => /\ ResolvedBinary(setting) \notin {"toml", "dotenv"}
                             /\ explicit \notin {"toml", "dotenv"}
      /\ setting.envProject => explicit = "env"
  BY <1>1, ConfigurationIsOwn
<1>3. listed # None =>
        /\ listed \in Project
        /\ \/ listed \in OwnRoot /\ setting.listing \cap OwnRoot = {listed}
           \/ listed \in OwnName /\ setting.listing \cap Rooted = {}
  <2>1. setting.listing \in SUBSET Project
    BY <1>1 DEF Setting
  <2> QED
    BY <2>1, ListedIsOwn
<1>4. \/ /\ binary' = chosenBinary /\ chosen' = listed
         /\ project' = IF listed # None THEN "listed" ELSE explicit
      \/ UNCHANGED <<binary, project, chosen>>
  BY DEF SetUpCbmc
<1>5. binary = None /\ project = None /\ chosen = None
  BY <1>1 DEF GroundingInv, SetupInv
<1>6. listed # None => explicit = None
  OBVIOUS
<1> HIDE DEF explicit, listed
<1> QED
  BY <1>1, <1>2, <1>3, <1>4, <1>5, <1>6 DEF Source, None

LEMMA SetUpStep ==
  ASSUME GroundingInv, SetUpCbmc PROVE GroundingInv'
<1>1. /\ setting # Forgotten /\ setting' = Forgotten
      /\ UNCHANGED <<chunk, phase, hit, code, held, prompt, block>>
  BY DEF SetUpCbmc, fetch
<1>2. \A k \in Chunk : prompt[k] = None
  BY <1>1 DEF GroundingInv, SetupInv, PromptInv
<1>3. TypeOK'
  BY <1>1, SetUpChooses DEF GroundingInv, TypeOK
<1>4. HeldInv' /\ SetupInv' /\ CodeInv'
  BY <1>1 DEF GroundingInv, HeldInv, Calling, SetupInv, CodeInv
<1>5. PromptInv' /\ BlockInv'
  BY <1>1 DEF GroundingInv, PromptInv, Fetched, BlockInv, ClassesOf
<1>6. NoClassSinksItsChunk'
  BY <1>1, <1>2 DEF NoClassSinksItsChunk
<1> QED
  BY <1>3, <1>4, <1>5, <1>6 DEF GroundingInv

LEMMA StartChunkStep ==
  ASSUME GroundingInv, NEW k \in Chunk, StartChunk(k) PROVE GroundingInv'
<1>1. /\ setting = Forgotten /\ chunk[k] = "queued"
      /\ UNCHANGED <<setting, binary, project, chosen, phase, hit, code, held, block>>
      /\ \/ /\ UseCbmc /\ chunk' = [chunk EXCEPT ![k] = "fetching"] /\ UNCHANGED prompt
         \/ /\ ~UseCbmc /\ chunk' = [chunk EXCEPT ![k] = "prompted"]
            /\ prompt' = [prompt EXCEPT ![k] = "file"]
  BY DEF StartChunk, setup, fetch
<1>2. TypeOK' /\ HeldInv' /\ SetupInv' /\ CodeInv'
  BY <1>1 DEF GroundingInv, TypeOK, HeldInv, Calling, SetupInv, CodeInv
<1>3. prompt[k] = None
  BY <1>1 DEF GroundingInv, PromptInv
<1>4. PromptInv'
  BY <1>1, <1>3 DEF GroundingInv, TypeOK, PromptInv, Fetched, ClassesOf, None
<1>5. BlockInv'
  <2>1. \A j \in Chunk : prompt[j] = "cbmc" => prompt'[j] = "cbmc"
    BY <1>1, <1>3 DEF GroundingInv, TypeOK, None
  <2>2. \A c \in Class : ChunkOf[c] \in Chunk
    BY GroundingAssumption
  <2> QED
    BY <1>1, <2>1, <2>2 DEF GroundingInv, BlockInv, ClassesOf
<1>6. NoClassSinksItsChunk'
  BY <1>1 DEF GroundingInv, NoClassSinksItsChunk, UseCbmc, Fetched, ClassesOf
<1> QED
  BY <1>2, <1>4, <1>5, <1>6 DEF GroundingInv

\* What the context of a chunk holds.
LEMMA ContextIsOwn ==
  ASSUME GroundingInv, NEW k \in Chunk, NEW ctx \in Context(k)
  PROVE  /\ \A f \in Fqn : ctx[f] # NoNode =>
              \E d \in ClassesOf(k) : FqnOf[d] = f /\ code[d] = ctx[f]
         /\ \A c \in ClassesOf(k) : code[c] # NoNode => ctx[FqnOf[c]] # NoNode
         /\ \A f \in Fqn : ctx[f] \in Node \cup {NoNode}
<1> DEFINE found(f) == {code[c] : c \in {d \in ClassesOf(k) : FqnOf[d] = f}} \ {NoNode}
<1>1. \A f \in Fqn : IF found(f) = {} THEN ctx[f] = NoNode ELSE ctx[f] \in found(f)
  BY DEF Context
<1>2. \A f \in Fqn : ctx[f] # NoNode => ctx[f] \in found(f)
  BY <1>1
<1>3. ASSUME NEW c \in ClassesOf(k), code[c] # NoNode PROVE ctx[FqnOf[c]] # NoNode
  <2>1. FqnOf[c] \in Fqn /\ code[c] \in found(FqnOf[c])
    BY <1>3, GroundingAssumption DEF ClassesOf
  <2>2. ctx[FqnOf[c]] \in found(FqnOf[c])
    BY <1>1, <2>1
  <2> QED
    BY <2>2
<1>4. \A f \in Fqn : ctx[f] \in Node \cup {NoNode}
  BY DEF Context
<1> QED
  BY <1>2, <1>3, <1>4

LEMMA BuildPromptStep ==
  ASSUME GroundingInv, NEW k \in Chunk, BuildPrompt(k) PROVE GroundingInv'
<1> USE GroundingAssumption
<1>1. /\ chunk[k] = "fetching" /\ Fetched(k) /\ chunk' = [chunk EXCEPT ![k] = "prompted"]
      /\ UNCHANGED <<setting, binary, project, chosen, phase, hit, code, held>>
  BY DEF BuildPrompt, setup, fetch
<1>2. PICK ctx \in Context(k) :
        IF \A f \in Fqn : ctx[f] = NoNode
        THEN prompt' = [prompt EXCEPT ![k] = "file"] /\ UNCHANGED block
        ELSE prompt' = [prompt EXCEPT ![k] = "cbmc"] /\ block' = Blocks(k, ctx)
  BY DEF BuildPrompt
<1>3. /\ \A f \in Fqn : ctx[f] # NoNode =>
           \E d \in ClassesOf(k) : FqnOf[d] = f /\ code[d] = ctx[f]
      /\ \A c \in ClassesOf(k) : code[c] # NoNode => ctx[FqnOf[c]] # NoNode
      /\ \A f \in Fqn : ctx[f] \in Node \cup {NoNode}
  BY ContextIsOwn
<1>4. prompt[k] = None /\ setting = Forgotten
  BY <1>1 DEF GroundingInv, PromptInv, SetupInv
<1>5. TypeOK /\ prompt \in [Chunk -> {None, "file", "cbmc"}]
  BY DEF GroundingInv, TypeOK
<1>6. HeldInv' /\ SetupInv' /\ CodeInv'
  BY <1>1, <1>4 DEF GroundingInv, HeldInv, Calling, SetupInv, CodeInv
<1>7. UNCHANGED UseCbmc /\ \A j \in Chunk : Fetched(j)' = Fetched(j) /\ ClassesOf(j)' = ClassesOf(j)
  BY <1>1 DEF UseCbmc, Fetched, ClassesOf
<1>8. /\ \A j \in Chunk \ {k} : prompt'[j] = prompt[j] /\ chunk'[j] = chunk[j]
      /\ prompt'[k] \in {"file", "cbmc"} /\ chunk'[k] = "prompted"
  BY <1>1, <1>2, <1>5 DEF TypeOK
<1>9. PromptInv'
  BY <1>1, <1>7, <1>8 DEF GroundingInv, PromptInv
<1>10. \A c \in Class : ChunkOf[c] # k => block'[c] = block[c] /\ c \notin ClassesOf(k)
  BY <1>2 DEF Blocks, ClassesOf
<1>11. \A c \in ClassesOf(k) : block[c] = NoNode
  BY <1>4 DEF GroundingInv, BlockInv, ClassesOf, None
<1>12. CASE \A f \in Fqn : ctx[f] = NoNode
  <2>1. prompt' = [prompt EXCEPT ![k] = "file"] /\ UNCHANGED block /\ prompt'[k] = "file"
    BY <1>2, <1>5, <1>12
  <2>2. TypeOK'
    BY <1>1, <2>1 DEF GroundingInv, TypeOK
  <2>3. BlockInv'
    BY <1>1, <1>8, <1>11, <2>1 DEF GroundingInv, BlockInv, ClassesOf
  <2>4. NoClassSinksItsChunk'
    <3> SUFFICES ASSUME NEW j \in Chunk, UseCbmc, prompt'[j] # None
                 PROVE  /\ Fetched(j)
                        /\ \A c \in ClassesOf(j) : code[c] # NoNode => block[c] # NoNode
                        /\ prompt'[j] = "file" <=> \A c \in ClassesOf(j) : code[c] = NoNode
      BY <1>1, <1>7, <2>1 DEF NoClassSinksItsChunk
    <3>1. CASE j = k
      <4>1. \A c \in ClassesOf(k) : code[c] = NoNode
        BY <1>3, <1>12 DEF ClassesOf
      <4> QED
        BY <1>1, <2>1, <3>1, <4>1
    <3>2. CASE j # k
      BY <1>8, <3>2 DEF GroundingInv, NoClassSinksItsChunk
    <3> QED
      BY <3>1, <3>2
  <2> QED
    BY <1>6, <1>9, <2>2, <2>3, <2>4 DEF GroundingInv
<1>13. CASE \E f \in Fqn : ctx[f] # NoNode
  <2>1. prompt' = [prompt EXCEPT ![k] = "cbmc"] /\ block' = Blocks(k, ctx) /\ prompt'[k] = "cbmc"
    BY <1>2, <1>5, <1>13
  <2>2. \A c \in ClassesOf(k) : c \in Class /\ ChunkOf[c] = k /\ block'[c] = ctx[FqnOf[c]]
    BY <2>1 DEF Blocks, ClassesOf
  <2>3. block' \in [Class -> Node \cup {NoNode}]
    <3>1. \A c \in Class : FqnOf[c] \in Fqn
      OBVIOUS
    <3>2. block \in [Class -> Node \cup {NoNode}]
      BY <1>5 DEF TypeOK
    <3> QED
      BY <1>3, <2>1, <3>1, <3>2 DEF Blocks
  <2>4. TypeOK'
    BY <1>1, <2>1, <2>3 DEF GroundingInv, TypeOK
  <2>5. BlockInv'
    <3> SUFFICES ASSUME NEW c \in Class, block'[c] # NoNode
                 PROVE  /\ prompt'[ChunkOf[c]] = "cbmc"
                        /\ \E d \in ClassesOf(ChunkOf[c]) : FqnOf[d] = FqnOf[c] /\ code[d] = block'[c]
      BY <1>1 DEF BlockInv, ClassesOf
    <3>1. CASE ChunkOf[c] = k
      <4>1. c \in ClassesOf(k) /\ FqnOf[c] \in Fqn
        BY <3>1 DEF ClassesOf
      <4> QED
        BY <1>3, <2>1, <2>2, <3>1, <4>1
    <3>2. CASE ChunkOf[c] # k
      BY <1>8, <1>10, <3>2 DEF GroundingInv, BlockInv
    <3> QED
      BY <3>1, <3>2
  <2>6. NoClassSinksItsChunk'
    <3> SUFFICES ASSUME NEW j \in Chunk, UseCbmc, prompt'[j] # None
                 PROVE  /\ Fetched(j)
                        /\ \A c \in ClassesOf(j) : code[c] # NoNode => block'[c] # NoNode
                        /\ prompt'[j] = "file" <=> \A c \in ClassesOf(j) : code[c] = NoNode
      BY <1>1, <1>7 DEF NoClassSinksItsChunk
    <3>1. CASE j = k
      <4>1. \E c \in ClassesOf(k) : code[c] # NoNode
        BY <1>3, <1>13
      <4> QED
        BY <1>1, <1>3, <2>1, <2>2, <3>1, <4>1
    <3>2. CASE j # k
      <4>1. \A c \in ClassesOf(j) : block'[c] = block[c]
        BY <1>10, <3>2 DEF ClassesOf
      <4> QED
        BY <1>8, <3>2, <4>1 DEF GroundingInv, NoClassSinksItsChunk
    <3> QED
      BY <3>1, <3>2
  <2> QED
    BY <1>6, <1>9, <2>4, <2>5, <2>6 DEF GroundingInv
<1> QED
  BY <1>12, <1>13

LEMMA EndSessionStep ==
  ASSUME GroundingInv, NEW k \in Chunk, EndSession(k) PROVE GroundingInv'
<1>1. /\ chunk[k] = "prompted" /\ chunk' = [chunk EXCEPT ![k] = "ended"]
      /\ UNCHANGED <<setting, binary, project, chosen, phase, hit, code, held, prompt, block>>
  BY DEF EndSession, setup, fetch
<1>2. TypeOK' /\ HeldInv' /\ SetupInv' /\ CodeInv'
  BY <1>1 DEF GroundingInv, TypeOK, HeldInv, Calling, SetupInv, CodeInv
<1>3. PromptInv' /\ BlockInv'
  BY <1>1 DEF GroundingInv, TypeOK, PromptInv, Fetched, BlockInv, ClassesOf
<1>4. NoClassSinksItsChunk'
  BY <1>1 DEF GroundingInv, NoClassSinksItsChunk, UseCbmc, Fetched, ClassesOf
<1> QED
  BY <1>2, <1>3, <1>4 DEF GroundingInv

-----------------------------------------------------------------------------

LEMMA GroundingInit == Init => GroundingInv
<1> SUFFICES ASSUME Init PROVE GroundingInv
  OBVIOUS
<1> USE GroundingAssumption DEF Init
<1>1. TypeOK
  BY DEF TypeOK, None
<1>2. HeldInv
  <2>1. Calling = {}
    BY DEF Calling
  <2> QED
    BY <2>1, FS_EmptySet DEF HeldInv
<1>3. SetupInv /\ CodeInv /\ PromptInv /\ BlockInv /\ NoClassSinksItsChunk
  BY DEF SetupInv, CodeInv, PromptInv, BlockInv, NoClassSinksItsChunk, None
<1> QED
  BY <1>1, <1>2, <1>3 DEF GroundingInv

LEMMA GroundingInvariant == Spec => []GroundingInv
<1>1. GroundingInv /\ UNCHANGED vars => GroundingInv'
  BY DEF vars, setup, fetch, GroundingInv, TypeOK, HeldInv, Calling, SetupInv, CodeInv, PromptInv,
     BlockInv, NoClassSinksItsChunk, UseCbmc, Fetched, ClassesOf
<1>2. GroundingInv /\ [Next]_vars => GroundingInv'
  BY <1>1, SetUpStep, StartFetchStep, AcquireStep, DirectStep, SearchStep, AgainStep,
     StartChunkStep, BuildPromptStep, EndSessionStep DEF Next, Call
<1> QED
  BY GroundingInit, <1>2, PTL DEF Spec

\* The variables keep their types, and the calls under way never outnumber the
\* permits, for any number of classes, chunks and threads.
THEOREM TypeCorrect == Spec => []TypeOK
  BY GroundingInvariant, PTL DEF GroundingInv

\* _fetch_class_code: the code in the block of a class is its own, verified.
THEOREM BlocksHoldOwnCode == Spec => []GroundedInOwnCode
<1>1. GroundingInv => GroundedInOwnCode
  <2> SUFFICES ASSUME GroundingInv, NEW c \in Class, block[c] # NoNode
               PROVE  /\ block[c] \in Matches[c] \ Relocated
                      /\ \E d \in ClassesOf(ChunkOf[c]) : FqnOf[d] = FqnOf[c] /\ code[d] = block[c]
                      /\ prompt[ChunkOf[c]] = "cbmc"
    BY DEF GroundedInOwnCode
  <2>1. PICK d \in ClassesOf(ChunkOf[c]) : FqnOf[d] = FqnOf[c] /\ code[d] = block[c]
    BY DEF GroundingInv, BlockInv
  <2>2. d \in Class /\ block[c] \in Matches[d] \ Relocated /\ Matches[d] = Matches[c]
    BY <2>1, GroundingAssumption DEF GroundingInv, CodeInv, ClassesOf
  <2> QED
    BY <2>1, <2>2 DEF GroundingInv, BlockInv
<1> QED
  BY GroundingInvariant, <1>1, PTL

\* _fetch_chunk_context: a prompt has whatever code was found for its classes.
THEOREM EveryFindIsUsed == Spec => []NoClassSinksItsChunk
  BY GroundingInvariant, PTL DEF GroundingInv

\* _setup_cbmc: neither an untrusted repository nor another project of the
\* listing decides where the code comes from.
THEOREM ConfigurationIsTheUsers == Spec => ProjectIsOwn
<1>1. ASSUME GroundingInv, [Next]_vars, setting # Forgotten
      PROVE  /\ ~setting.trusted => /\ binary' \notin {"toml", "dotenv"}
                                    /\ project' \notin {"toml", "dotenv"}
             /\ setting.arg => binary' \in {"arg", None}
             /\ setting.envProject => project' \in {"env", None}
             /\ chosen' # None =>
                  \/ chosen' \in OwnRoot /\ setting.listing \cap OwnRoot = {chosen'}
                  \/ chosen' \in OwnName /\ setting.listing \cap Rooted = {}
  <2>1. CASE SetUpCbmc
    BY <1>1, <2>1, SetUpChooses
  <2>2. CASE ~SetUpCbmc
    <3>1. UNCHANGED <<binary, project, chosen>>
      BY <1>1, <2>2 DEF Next, vars, setup, StartFetch, Acquire, Call, Direct, Search, Again,
         StartChunk, BuildPrompt, EndSession
    <3>2. binary = None /\ project = None /\ chosen = None
      BY <1>1 DEF GroundingInv, SetupInv
    <3> QED
      BY <3>1, <3>2 DEF None
  <2> QED
    BY <2>1, <2>2
<1> QED
  BY GroundingInvariant, <1>1, PTL DEF Spec, ProjectIsOwn

-----------------------------------------------------------------------------
(* The permits and the pools cannot wait for each other.  EveryChunkEnds is a  *)
(* liveness property and stays with TLC; these are the facts it rests on, for  *)
(* any number of chunks, classes, threads and permits: while a chunk has not   *)
(* ended some action's guard holds, and no step takes anything back.           *)

\* When no call is under way every permit is back.
PermitsAreBack == Calling = {} => held = 0

\* The guards of the actions, one by one.
CanMove ==
  \/ setting # Forgotten
  \/ \E k \in Chunk :
       \/ setting = Forgotten /\ chunk[k] = "queued" /\ Cardinality(InSession) < Parallel
       \/ chunk[k] = "fetching" /\ Fetched(k) /\ Context(k) # {}
       \/ chunk[k] = "prompted"
  \/ \E c \in Class :
       \/ /\ chunk[ChunkOf[c]] = "fetching" /\ phase[c] = "queued"
          /\ Cardinality({d \in ClassesOf(ChunkOf[c]) : Busy(d)}) < FetchParallel
       \/ phase[c] = "waiting" /\ held < Permits
       \/ phase[c] \in {"direct", "search", "again"}

\* Whoever waits, waits for somebody who can move.
NobodyIsStuck == (\E k \in Chunk : chunk[k] # "ended") => CanMove

\* Whatever was fetched, there is a context to build the prompt with.
LEMMA ContextExists ==
  ASSUME NEW k \in Chunk, code \in [Class -> Node \cup {NoNode}]
  PROVE  Context(k) # {}
<1> DEFINE found(f) == {code[c] : c \in {d \in ClassesOf(k) : FqnOf[d] = f}} \ {NoNode}
<1> DEFINE ctx == [f \in Fqn |-> IF found(f) = {} THEN NoNode ELSE CHOOSE n \in found(f) : TRUE]
<1>1. ASSUME NEW f \in Fqn PROVE found(f) \subseteq Node
  BY DEF ClassesOf
<1>2. ASSUME NEW f \in Fqn PROVE IF found(f) = {} THEN ctx[f] = NoNode ELSE ctx[f] \in found(f)
  OBVIOUS
<1>3. ctx \in [Fqn -> Node \cup {NoNode}]
  <2> SUFFICES ASSUME NEW f \in Fqn PROVE ctx[f] \in Node \cup {NoNode}
    OBVIOUS
  <2> HIDE DEF ctx, found
  <2> QED
    BY <1>1, <1>2
<1>4. ctx \in Context(k)
  <2> HIDE DEF ctx
  <2> QED
    BY <1>2, <1>3 DEF Context
<1> QED
  BY <1>4

\* Threads wait for threads, threads for permits, and a permit is never held
\* by nobody.
LEMMA SomebodyMoves == GroundingInv => NobodyIsStuck
<1> SUFFICES ASSUME GroundingInv, NEW k \in Chunk, chunk[k] # "ended", ~CanMove
             PROVE  FALSE
  BY DEF NobodyIsStuck
<1>0. /\ Parallel \in Nat \ {0} /\ FetchParallel \in Nat \ {0} /\ Permits \in Nat \ {0}
      /\ Cardinality({}) = 0
  BY GroundingAssumption, FS_EmptySet
<1>1. PICK j \in Chunk : chunk[j] = "fetching"
  <2>1. CASE chunk[k] = "queued"
    <3>1. ~(Cardinality(InSession) < Parallel)
      BY <2>1 DEF CanMove
    <3>2. InSession # {}
      BY <1>0, <3>1
    <3> QED
      BY <3>2 DEF InSession, CanMove
  <2>2. CASE chunk[k] # "queued"
    BY <2>2 DEF GroundingInv, TypeOK, CanMove
  <2> QED
    BY <2>1, <2>2
<1>2. ~Fetched(j)
  BY <1>1, ContextExists DEF CanMove, GroundingInv, TypeOK
<1>3. PICK c \in ClassesOf(j) : phase[c] # "done"
  BY <1>2 DEF Fetched
<1>4. c \in Class /\ ChunkOf[c] = j /\ phase[c] \in {"queued", "waiting", "direct", "search", "again"}
  BY <1>3 DEF ClassesOf, GroundingInv, TypeOK
<1>5. PICK d \in Class : Busy(d)
  <2>1. CASE phase[c] = "queued"
    <3>1. ~(Cardinality({d \in ClassesOf(j) : Busy(d)}) < FetchParallel)
      BY <1>1, <1>4, <2>1 DEF CanMove
    <3>2. {d \in ClassesOf(j) : Busy(d)} # {}
      BY <1>0, <3>1
    <3> QED
      BY <3>2 DEF ClassesOf
  <2>2. CASE phase[c] # "queued"
    BY <1>4, <2>2 DEF Busy
  <2> QED
    BY <2>1, <2>2
<1>6. phase[d] = "waiting" /\ ~(held < Permits)
  BY <1>5 DEF Busy, CanMove
<1>7. Calling # {}
  BY <1>0, <1>6 DEF GroundingInv, HeldInv
<1> QED
  BY <1>7 DEF Calling, CanMove

\* _CBMC_CALL_SEM: when no call is under way, no permit is taken, whichever way
\* the calls have ended.
THEOREM PermitsComeBack == Spec => []PermitsAreBack
<1>1. GroundingInv => PermitsAreBack
  BY FS_EmptySet DEF GroundingInv, HeldInv, PermitsAreBack
<1> QED
  BY GroundingInvariant, <1>1, PTL

\* _fetch_chunk_context within the session pool: threads of two nested pools and
\* the shared permits never all wait, for any sizes of the pools.
THEOREM NoDeadlock == Spec => []NobodyIsStuck
  BY GroundingInvariant, SomebodyMoves, PTL

-----------------------------------------------------------------------------

PhaseRank ==
  [x \in Phase |-> CASE x = "queued" -> 0 [] x = "waiting" -> 1 [] x = "direct" -> 2
                     [] x = "search" -> 3 [] x = "again" -> 4 [] x = "done" -> 5]

ChunkPhase == {"queued", "fetching", "prompted", "ended"}

ChunkRank ==
  [x \in ChunkPhase |-> CASE x = "queued" -> 0 [] x = "fetching" -> 1
                          [] x = "prompted" -> 2 [] x = "ended" -> 3]

\* No class and no chunk goes back.
Forward ==
  /\ \A c \in Class : PhaseRank[phase[c]] <= PhaseRank[phase'[c]]
  /\ \A k \in Chunk : ChunkRank[chunk[k]] <= ChunkRank[chunk'[k]]
  /\ setting = Forgotten => setting' = Forgotten

\* The configuration is read, or one class or one chunk gets further.
Progress ==
  \/ setting # Forgotten /\ setting' = Forgotten
  \/ \E c \in Class : PhaseRank[phase[c]] < PhaseRank[phase'[c]]
  \/ \E k \in Chunk : ChunkRank[chunk[k]] < ChunkRank[chunk'[k]]

OnlyForward == [][Forward /\ Progress]_vars

LEMMA ClassMoves ==
  ASSUME TypeOK, NEW c \in Class, NEW x \in Phase, PhaseRank[phase[c]] < PhaseRank[x],
         phase' = [phase EXCEPT ![c] = x], UNCHANGED <<setting, chunk>>
  PROVE  Forward /\ Progress
<1>1. /\ phase \in [Class -> Phase] /\ chunk \in [Chunk -> ChunkPhase]
      /\ PhaseRank \in [Phase -> Int] /\ ChunkRank \in [ChunkPhase -> Int]
  BY DEF TypeOK, Phase, ChunkPhase, PhaseRank, ChunkRank
<1> QED
  BY <1>1 DEF Forward, Progress

LEMMA ChunkMoves ==
  ASSUME TypeOK, NEW k \in Chunk, NEW x \in ChunkPhase, ChunkRank[chunk[k]] < ChunkRank[x],
         chunk' = [chunk EXCEPT ![k] = x], UNCHANGED <<setting, phase>>
  PROVE  Forward /\ Progress
<1>1. /\ phase \in [Class -> Phase] /\ chunk \in [Chunk -> ChunkPhase]
      /\ PhaseRank \in [Phase -> Int] /\ ChunkRank \in [ChunkPhase -> Int]
  BY DEF TypeOK, Phase, ChunkPhase, PhaseRank, ChunkRank
<1> QED
  BY <1>1 DEF Forward, Progress

\* The batch's fetches never start over: every step is one of a bounded number,
\* five for each class and three for each chunk.
THEOREM NothingIsTakenBack == Spec => OnlyForward
<1>1. ASSUME TypeOK, Next PROVE Forward /\ Progress
  <2>1. CASE SetUpCbmc
    <3>1. /\ setting # Forgotten /\ setting' = Forgotten /\ phase' = phase /\ chunk' = chunk
          /\ phase \in [Class -> Phase] /\ chunk \in [Chunk -> ChunkPhase]
          /\ PhaseRank \in [Phase -> Int] /\ ChunkRank \in [ChunkPhase -> Int]
      BY <1>1, <2>1 DEF SetUpCbmc, fetch, TypeOK, Phase, ChunkPhase, PhaseRank, ChunkRank
    <3> QED
      BY <3>1 DEF Forward, Progress
  <2>2. ASSUME NEW c \in Class, StartFetch(c) \/ Acquire(c) \/ Call(c) PROVE Forward /\ Progress
    <3>1. UNCHANGED <<setting, chunk>>
      BY <2>2 DEF StartFetch, Acquire, Call, Direct, Search, Again, setup
    <3>2. PICK x \in Phase : phase' = [phase EXCEPT ![c] = x] /\ PhaseRank[phase[c]] < PhaseRank[x]
      <4>1. CASE StartFetch(c)
        BY <4>1 DEF StartFetch, Phase, PhaseRank
      <4>2. CASE Acquire(c)
        BY <4>2 DEF Acquire, Phase, PhaseRank
      <4>3. CASE Direct(c)
        BY <4>3 DEF Direct, Finish, Phase, PhaseRank
      <4>4. CASE Search(c)
        BY <4>4 DEF Search, Finish, Phase, PhaseRank
      <4>5. CASE Again(c)
        BY <4>5 DEF Again, Finish, Phase, PhaseRank
      <4> QED
        BY <2>2, <4>1, <4>2, <4>3, <4>4, <4>5 DEF Call
    <3> QED
      BY <1>1, <3>1, <3>2, ClassMoves
  <2>3. ASSUME NEW k \in Chunk, StartChunk(k) \/ BuildPrompt(k) \/ EndSession(k)
        PROVE  Forward /\ Progress
    <3>1. UNCHANGED <<setting, phase>>
      BY <2>3 DEF StartChunk, BuildPrompt, EndSession, setup, fetch
    <3>2. PICK x \in ChunkPhase : chunk' = [chunk EXCEPT ![k] = x] /\ ChunkRank[chunk[k]] < ChunkRank[x]
      BY <2>3 DEF StartChunk, BuildPrompt, EndSession, ChunkPhase, ChunkRank
    <3> QED
      BY <1>1, <3>1, <3>2, ChunkMoves
  <2> QED
    BY <1>1, <2>1, <2>2, <2>3 DEF Next
<1> QED
  BY TypeCorrect, <1>1, PTL DEF Spec, OnlyForward
=============================================================================
