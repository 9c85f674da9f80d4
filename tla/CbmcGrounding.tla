----------------------------- MODULE CbmcGrounding -----------------------------
(***************************************************************************)
(* Grounding of a batch's prompts in source code from the local index of   *)
(* codebase-memory-mcp (CBMC): which binary and project are used           *)
(* (utils/cbmc_config.py), and how the threads of summarizer/              *)
(* batch_generate.py fetch the code of a chunk's classes and build its     *)
(* prompt.  The binary is external: it may answer a call with anything,    *)
(* with an error, or so that reading the answer raises.                    *)
(***************************************************************************)
EXTENDS Integers, FiniteSets, FiniteSetsExt

CONSTANTS
  Class, Fqn, FqnOf,  \* [Class -> Fqn]: pkg and name; modules may share one
  Packaged,           \* classes with a pkg
  Chunk, ChunkOf,     \* [Class -> Chunk]
  Node,               \* what the graph can answer with
  Exact,              \* [Class -> SUBSET Node]: qualified_name is the full name
  Matches,            \* [Class -> SUBSET Node]: it is, or ends with it
  Bears,              \* [Class -> SUBSET Node]: Class nodes of the simple name
  Relocated,          \* nodes whose file is below shaded/, vendor/, ...
  Parallel, FetchParallel, Permits,
  Project, OwnRoot,   \* listed projects with a root_path, OwnRoot with this one
  Rooted, OwnName,    \* without one, OwnName with the name derived from the path
  Settings,           \* configurations to consider
  NoNode, Forgotten

Source == {"arg", "env", "toml", "dotenv", "default", "listed"}
None == "none"

\* What is set where: the user's environment and arguments, the repository's
\* legacy-reverse.toml and .env; and what list_projects answers.
Setting == [envBin : {"unset", "disabled", "set"}, arg : BOOLEAN, envProject : BOOLEAN,
            toml : SUBSET {"binary", "project"}, dotenv : SUBSET {"binary", "project"},
            trusted : BOOLEAN, listing : SUBSET Project]

ASSUME GroundingAssumption ==
  /\ FqnOf \in [Class -> Fqn] /\ ChunkOf \in [Class -> Chunk] /\ Packaged \subseteq Class
  /\ Exact \in [Class -> SUBSET Node] /\ Matches \in [Class -> SUBSET Node]
  /\ Bears \in [Class -> SUBSET Node] /\ Relocated \subseteq Node /\ NoNode \notin Node
  /\ \A c \in Class : Exact[c] \subseteq Matches[c]
  /\ \A c, d \in Class : FqnOf[c] = FqnOf[d] => Matches[c] = Matches[d]
  /\ OwnRoot \subseteq Rooted /\ Rooted \subseteq Project
  /\ OwnName \subseteq Project \ Rooted /\ None \notin Project
  /\ Settings \subseteq Setting /\ Forgotten \notin Setting
  /\ {Parallel, FetchParallel, Permits} \subseteq Nat \ {0}
  /\ IsFiniteSet(Class) /\ IsFiniteSet(Node) /\ IsFiniteSet(Project)

VARIABLES
  setting,          \* until _setup_cbmc returns
  binary, project,  \* what it chose: the source of the binary; whose project
  chosen,           \* the listed project, if that is how it was found
  chunk,            \* [Chunk -> "queued", "fetching", "prompted", "ended"]
  phase,            \* [Class -> "queued", "waiting", "direct", "search", "again", "done"]
  hit,              \* [Class -> the one node a search left, or NoNode]
  code,             \* [Class -> the node its code is from, or NoNode]
  held,             \* permits of _CBMC_CALL_SEM
  prompt,           \* [Chunk -> None, "file", "cbmc"]
  block             \* [Class -> the code in its block of the prompt, or NoNode]

setup == <<setting, binary, project, chosen>>
fetch == <<phase, hit, code, held>>
vars == <<setup, chunk, fetch, prompt, block>>

-----------------------------------------------------------------------------
(* The configuration.                                                       *)

\* .env is read only for a trusted repository, when nothing before it decides.
LoadsDotenv(s) == s.envBin = "unset" /\ s.trusted /\ "binary" \notin s.toml

ResolvedBinary(s) ==
  CASE s.envBin = "disabled" -> None
    [] s.envBin = "set" -> "env"
    [] s.envBin = "unset" /\ s.trusted /\ "binary" \in s.toml -> "toml"
    [] LoadsDotenv(s) /\ "binary" \in s.dotenv -> "dotenv"
    [] OTHER -> "default"

\* Mutant: the section is returned as it was read.
ExplicitProjectUntrusted(s) ==
  CASE s.envProject -> "env"
    [] ~s.envProject /\ LoadsDotenv(s) /\ "project" \in s.dotenv -> "dotenv"
    [] ~s.envProject /\ ~(LoadsDotenv(s) /\ "project" \in s.dotenv) /\ "project" \in s.toml -> "toml"
    [] OTHER -> None

\* The environment, .env loaded into it or not, then the trusted section.
ExplicitProject(s) ==
  CASE s.envProject -> "env"
    [] ~s.envProject /\ LoadsDotenv(s) /\ "project" \in s.dotenv -> "dotenv"
    [] ~s.envProject /\ ~(LoadsDotenv(s) /\ "project" \in s.dotenv)
       /\ s.trusted /\ "project" \in s.toml -> "toml"
    [] OTHER -> None

\* The one project with this root; or, if none has a root, the one of that name.
ListedProject(listing) ==
  LET byRoot == listing \cap OwnRoot
      byName == listing \cap OwnName
  IN  IF Cardinality(byRoot) = 1 THEN CHOOSE p \in byRoot : TRUE
      ELSE IF listing \cap Rooted = {} /\ Cardinality(byName) = 1
           THEN CHOOSE p \in byName : TRUE ELSE None

\* _setup_cbmc.  The chosen binary may turn out not to be there; grounding is
\* then off, as it is without a project.
SetUpCbmc ==
  /\ setting # Forgotten
  /\ \E available \in BOOLEAN :
       LET chosenBinary == IF setting.arg THEN "arg" ELSE ResolvedBinary(setting)
           explicit == ExplicitProject(setting)
           listed == IF explicit = None THEN ListedProject(setting.listing) ELSE None
       IN  IF available /\ chosenBinary # None
           THEN /\ binary' = chosenBinary
                /\ project' = IF listed # None THEN "listed" ELSE explicit
                /\ chosen' = listed
           ELSE UNCHANGED <<binary, project, chosen>>
  /\ setting' = Forgotten
  /\ UNCHANGED <<chunk, fetch, prompt, block>>

UseCbmc == project # None

-----------------------------------------------------------------------------
(* The fetches of a chunk.                                                  *)

Busy(c) == phase[c] \in {"waiting", "direct", "search", "again"}
ClassesOf(k) == {c \in Class : ChunkOf[c] = k}

\* A thread of the chunk's own pool takes the class ...
StartFetch(c) ==
  /\ chunk[ChunkOf[c]] = "fetching" /\ phase[c] = "queued"
  /\ Cardinality({d \in ClassesOf(ChunkOf[c]) : Busy(d)}) < FetchParallel
  /\ phase' = [phase EXCEPT ![c] = "waiting"]
  /\ UNCHANGED <<setup, chunk, hit, code, held, prompt, block>>

\* Mutant: every chunk counts its own calls.
AcquireOfChunk(c) ==
  /\ phase[c] = "waiting"
  /\ Cardinality({d \in ClassesOf(ChunkOf[c]) : phase[d] \in {"direct", "search", "again"}}) < Permits
  /\ phase' = [phase EXCEPT ![c] = "direct"]
  /\ held' = held + 1
  /\ UNCHANGED <<setup, chunk, hit, code, prompt, block>>

\* ... and waits for one of the permits all chunks share.
Acquire(c) ==
  /\ phase[c] = "waiting" /\ held < Permits
  /\ phase' = [phase EXCEPT ![c] = "direct"]
  /\ held' = held + 1
  /\ UNCHANGED <<setup, chunk, hit, code, prompt, block>>

\* Mutant: the name matches, wherever the file lies.
VerifiedByName(c, n) == n \in Matches[c]

Verified(c, n) == n \in Matches[c] \ Relocated

\* Mutant: a fetch that finds nothing leaves its permit taken.
FinishUnlessRaised(c, found) ==
  /\ phase' = [phase EXCEPT ![c] = "done"]
  /\ code' = [code EXCEPT ![c] = found]
  /\ held' = IF found = NoNode THEN held ELSE held - 1
  /\ UNCHANGED hit

\* The end of a fetch, by return or by exception: the permit goes back.
Finish(c, found) ==
  /\ phase' = [phase EXCEPT ![c] = "done"]
  /\ code' = [code EXCEPT ![c] = found]
  /\ held' = held - 1
  /\ UNCHANGED hit

\* get_code_snippet by the full name.
Direct(c) ==
  /\ phase[c] = "direct"
  /\ \/ \E n \in Node : Verified(c, n) /\ Finish(c, n)
     \/ phase' = [phase EXCEPT ![c] = "search"] /\ UNCHANGED <<hit, code, held>>
     \/ Finish(c, NoNode)
  /\ UNCHANGED <<setup, chunk, prompt, block>>

\* What a search by simple name leaves: with a package, the matching ones.
Candidates(c, hits) == IF c \in Packaged THEN hits \cap Matches[c] ELSE hits

\* search_graph: one candidate under another name is looked up again.
Search(c) ==
  /\ phase[c] = "search"
  /\ \E hits \in SUBSET Bears[c] :
       LET left == Candidates(c, hits)
       IN  IF Cardinality(left) = 1 /\ left \cap Exact[c] = {}
           THEN /\ phase' = [phase EXCEPT ![c] = "again"]
                /\ hit' = [hit EXCEPT ![c] = CHOOSE n \in left : TRUE]
                /\ UNCHANGED <<code, held>>
           ELSE Finish(c, NoNode)
  /\ UNCHANGED <<setup, chunk, prompt, block>>

\* Mutant: the second answer is the node that was asked for.
AgainUnverified(c) ==
  /\ phase[c] = "again"
  /\ Finish(c, hit[c])
  /\ UNCHANGED <<setup, chunk, prompt, block>>

\* get_code_snippet by the name found; the answer must be verified once more.
Again(c) ==
  /\ phase[c] = "again"
  /\ \/ \E n \in Node : Verified(c, n) /\ Finish(c, n)
     \/ Finish(c, NoNode)
  /\ UNCHANGED <<setup, chunk, prompt, block>>

-----------------------------------------------------------------------------
(* The chunks.                                                              *)

InSession == {k \in Chunk : chunk[k] \in {"fetching", "prompted"}}

StartChunk(k) ==
  /\ setting = Forgotten /\ chunk[k] = "queued"
  /\ Cardinality(InSession) < Parallel
  /\ IF UseCbmc THEN chunk' = [chunk EXCEPT ![k] = "fetching"] /\ UNCHANGED prompt
     ELSE /\ chunk' = [chunk EXCEPT ![k] = "prompted"]
          /\ prompt' = [prompt EXCEPT ![k] = "file"]
  /\ UNCHANGED <<setup, fetch, block>>

\* The code a block of the prompt is given, by the full name of its class: of
\* classes that share it, any one's.
Context(k) ==
  {ctx \in [Fqn -> Node \cup {NoNode}] :
     \A f \in Fqn :
       LET found == {code[c] : c \in {d \in ClassesOf(k) : FqnOf[d] = f}} \ {NoNode}
       IN  IF found = {} THEN ctx[f] = NoNode ELSE ctx[f] \in found}

\* What stands in the blocks of the chunk's prompt.
Blocks(k, ctx) == [c \in Class |-> IF c \in ClassesOf(k) THEN ctx[FqnOf[c]] ELSE block[c]]

Fetched(k) == \A c \in ClassesOf(k) : phase[c] = "done"

\* Mutant: one class without code makes it a prompt without any.
BuildPromptWhole(k) ==
  /\ chunk[k] = "fetching" /\ Fetched(k)
  /\ \E ctx \in Context(k) :
       IF \E c \in ClassesOf(k) : code[c] = NoNode
       THEN prompt' = [prompt EXCEPT ![k] = "file"] /\ UNCHANGED block
       ELSE /\ prompt' = [prompt EXCEPT ![k] = "cbmc"]
            /\ block' = Blocks(k, ctx)
  /\ chunk' = [chunk EXCEPT ![k] = "prompted"]
  /\ UNCHANGED <<setup, fetch>>

\* When all fetches have ended: a prompt with the code there is, or the one that
\* names the chunk file if there is none at all.
BuildPrompt(k) ==
  /\ chunk[k] = "fetching" /\ Fetched(k)
  /\ \E ctx \in Context(k) :
       IF \A f \in Fqn : ctx[f] = NoNode
       THEN prompt' = [prompt EXCEPT ![k] = "file"] /\ UNCHANGED block
       ELSE /\ prompt' = [prompt EXCEPT ![k] = "cbmc"]
            /\ block' = Blocks(k, ctx)
  /\ chunk' = [chunk EXCEPT ![k] = "prompted"]
  /\ UNCHANGED <<setup, fetch>>

EndSession(k) ==
  /\ chunk[k] = "prompted"
  /\ chunk' = [chunk EXCEPT ![k] = "ended"]
  /\ UNCHANGED <<setup, fetch, prompt, block>>

-----------------------------------------------------------------------------
Init ==
  /\ setting \in Settings
  /\ binary = None /\ project = None /\ chosen = None
  /\ chunk = [k \in Chunk |-> "queued"]
  /\ phase = [c \in Class |-> "queued"]
  /\ hit = [c \in Class |-> NoNode] /\ code = [c \in Class |-> NoNode]
  /\ held = 0
  /\ prompt = [k \in Chunk |-> None] /\ block = [c \in Class |-> NoNode]

Call(c) == Direct(c) \/ Search(c) \/ Again(c)

Next ==
  \/ SetUpCbmc
  \/ \E c \in Class : StartFetch(c) \/ Acquire(c) \/ Call(c)
  \/ \E k \in Chunk : StartChunk(k) \/ BuildPrompt(k) \/ EndSession(k)

\* The pools' threads run, and every call and session ends: run_tree_captured
\* returns.  A permit may be taken by anybody.
Fairness ==
  /\ WF_vars(SetUpCbmc)
  /\ \A c \in Class : WF_vars(StartFetch(c)) /\ WF_vars(Acquire(c)) /\ WF_vars(Call(c))
  /\ \A k \in Chunk : WF_vars(StartChunk(k)) /\ WF_vars(BuildPrompt(k)) /\ WF_vars(EndSession(k))

Spec == Init /\ [][Next]_vars /\ Fairness

-----------------------------------------------------------------------------
(* Properties.                                                              *)

\* The variables keep their types; the permits in use are never too many.
TypeOK ==
  /\ setting \in Settings \cup {Forgotten}
  /\ binary \in Source \cup {None} /\ project \in Source \cup {None}
  /\ chosen \in Project \cup {None}
  /\ chunk \in [Chunk -> {"queued", "fetching", "prompted", "ended"}]
  /\ phase \in [Class -> {"queued", "waiting", "direct", "search", "again", "done"}]
  /\ hit \in [Class -> Node \cup {NoNode}] /\ code \in [Class -> Node \cup {NoNode}]
  /\ held \in 0 .. Permits
  /\ prompt \in [Chunk -> {None, "file", "cbmc"}]
  /\ block \in [Class -> Node \cup {NoNode}]

\* What the repository itself says counts only if it is trusted, what the user
\* says always goes before it, and a listed project is taken only if it is the
\* one of this root or, in a listing without roots, of this name.
ProjectIsOwn ==
  [][setting # Forgotten =>
       /\ ~setting.trusted => /\ binary' \notin {"toml", "dotenv"}
                              /\ project' \notin {"toml", "dotenv"}
       /\ setting.arg => binary' \in {"arg", None}
       /\ setting.envProject => project' \in {"env", None}
       /\ chosen' # None =>
            \/ chosen' \in OwnRoot /\ setting.listing \cap OwnRoot = {chosen'}
            \/ chosen' \in OwnName /\ setting.listing \cap Rooted = {}]_vars

\* Code that stands in the block of a class was fetched for that class, or for
\* one of its full name in the chunk, and proved to be of that name and no
\* relocated copy, by whichever call it came; a prompt that sends the model to
\* the files carries none.
GroundedInOwnCode ==
  \A c \in Class : block[c] # NoNode =>
    /\ block[c] \in Matches[c] \ Relocated
    /\ \E d \in ClassesOf(ChunkOf[c]) : FqnOf[d] = FqnOf[c] /\ code[d] = block[c]
    /\ prompt[ChunkOf[c]] = "cbmc"

\* One class never sinks its chunk: a prompt is built when every fetch of the
\* chunk has ended, and gives every class the code that was found for it,
\* whatever errors and exceptions the others met.
NoClassSinksItsChunk ==
  \A k \in Chunk : UseCbmc /\ prompt[k] # None =>
    /\ Fetched(k)
    /\ \A c \in ClassesOf(k) : code[c] # NoNode => block[c] # NoNode
    /\ prompt[k] = "file" <=> \A c \in ClassesOf(k) : code[c] = NoNode

\* However the calls end, every chunk gets its prompt and its session: no fetch
\* waits for ever for a permit.
EveryChunkEnds == <>(\A k \in Chunk : chunk[k] = "ended")
=============================================================================
