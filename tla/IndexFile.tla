------------------------------ MODULE IndexFile ------------------------------
(***************************************************************************)
(* The file .reverse/index.sqlite3 between the processes that share it: a  *)
(* scan, of the MCP server (scan_repository) or of the CLI, that deletes   *)
(* and rebuilds it, and clients (read tools, describe) that check that it  *)
(* exists, open it and use it.  An open connection keeps its file alive    *)
(* after the path is unlinked.                                             *)
(*                                                                         *)
(* sqlite, external: connecting opens the file, or creates an empty one.   *)
(* A file in WAL mode has a -wal/-shm pair, which a connection finds or    *)
(* creates by name when it first reads the file, and not before; the last  *)
(* connection to an unmoved file removes the pair.  One that finds a pair  *)
(* in use by connections to another file shares their wal-index: it may    *)
(* work or fail with "disk I/O error".                                     *)
(***************************************************************************)
EXTENDS Naturals

CONSTANTS
  Client,    \* processes or calls that only use the index
  Kind,      \* scans there are: a subset of {"mcp", "cli"}
  MaxFiles,  \* bound: index files ever created
  KillAt     \* steps at which a scan can be killed

NoFile == 0
File == 1 .. MaxFiles

ASSUME IndexAssumption ==
  /\ MaxFiles \in Nat
  /\ Kind \subseteq {"mcp", "cli"}

VARIABLES
  at,      \* the file at the path
  state,   \* [File -> ...]: what is committed in it
  made,    \* number of files created
  pair,    \* the file whose connections made the -wal/-shm pair at the path
  scan,    \* the scan's [pc, kind, file]
  scanned, \* result of the last scan
  client,  \* [Client -> [pc, file]]
  result,  \* [Client -> result of its last call]
  aborted, \* history: the last scan that began has not completed
  unswept  \* history: a pair of an unlinked index may lie at the path: it was not
           \* removed with the index, or somebody looked for it after the removal

vars == <<at, state, made, pair, scan, scanned, client, result, aborted, unswept>>
clients == <<client, result>>

NotScanning == [pc |-> "idle", kind |-> "none", file |-> NoFile]
NotConnected == [pc |-> "idle", file |-> NoFile]

-----------------------------------------------------------------------------
(* sqlite *)

\* Connections that hold the pair of a file: those that have read it since it
\* is in WAL mode.
ScanHolds(f) == scan.pc = "build" /\ scan.file = f
Holds(c, f) == client[c].pc = "use" /\ client[c].file = f
InUse(f) == f # NoFile /\ (ScanHolds(f) \/ \E c \in Client : Holds(c, f))

\* The pair at the path belongs to live connections to another file.
SharesPair(f) == pair # f /\ InUse(pair)

Attach(f) == IF SharesPair(f) THEN pair ELSE f

\* sqlite3.connect opens the file at the path, or creates it.
Connect ==
  /\ IF at = NoFile
     THEN /\ made < MaxFiles
          /\ made' = made + 1 /\ at' = made + 1
          /\ state' = [state EXCEPT ![made + 1] = "empty"]
     ELSE UNCHANGED <<at, made, state>>
  /\ UNCHANGED pair

\* A first read of a file that is no longer at the path.
ReadsUnlinked(f) == f # at /\ state[f] # "empty"

\* The last connection to a file still at the path removes its pair.
AfterClose(p, f, others) == IF p = f /\ at = f /\ ~others THEN NoFile ELSE p

OthersThanScan(f) == \E c \in Client : Holds(c, f)
OthersThan(c, f) == ScanHolds(f) \/ \E d \in Client \ {c} : Holds(d, f)

-----------------------------------------------------------------------------
(* The scan *)

ScanExists ==
  /\ scan.pc = "idle" /\ at # NoFile
  /\ scanned' = "exists"
  /\ UNCHANGED <<at, state, made, pair, scan, clients, aborted, unswept>>

\* The first scan, or one with force.
StartScan(kind) ==
  /\ scan.pc = "idle"
  /\ scan' = [pc |-> IF at # NoFile THEN "unlink" ELSE "open",
              kind |-> kind, file |-> NoFile]
  /\ scanned' = "none" /\ aborted' = TRUE
  /\ UNCHANGED <<at, state, made, pair, clients, unswept>>

\* Mutant: only the database is unlinked.
UnlinkDatabaseOnly ==
  /\ scan.pc = "unlink"
  /\ at' = NoFile
  /\ scan' = [scan EXCEPT !.pc = "open"]
  /\ UNCHANGED <<state, made, pair, scanned, clients, aborted, unswept>>

\* The CLI leaves the sidecars where they are.
Unlink ==
  /\ scan.pc = "unlink"
  /\ at' = NoFile /\ unswept' = TRUE
  /\ scan' = [scan EXCEPT !.pc = IF scan.kind = "mcp" THEN "sidecars" ELSE "open"]
  /\ UNCHANGED <<state, made, pair, scanned, clients, aborted>>

UnlinkSidecars ==
  /\ scan.pc = "sidecars"
  /\ pair' = NoFile /\ unswept' = FALSE
  /\ scan' = [scan EXCEPT !.pc = "open"]
  /\ UNCHANGED <<at, state, made, scanned, clients, aborted>>

\* init_db connects; its first read finds an empty file, and then the schema is
\* created.
OpenIndex ==
  /\ scan.pc = "open"
  /\ Connect
  /\ scan' = [scan EXCEPT !.pc = "schema", !.file = at']
  /\ UNCHANGED <<scanned, clients, aborted, unswept>>

CreateSchema ==
  /\ scan.pc = "schema"
  /\ pair' = Attach(scan.file)
  /\ state' = [state EXCEPT ![scan.file] = "partial"]
  /\ scan' = [scan EXCEPT !.pc = "build"]
  /\ UNCHANGED <<at, made, scanned, clients, aborted, unswept>>

\* The schema is created through the wal-index of another file.
SchemaFails ==
  /\ scan.pc = "schema" /\ SharesPair(scan.file)
  /\ scan' = NotScanning /\ scanned' = "raised"
  /\ UNCHANGED <<at, state, made, pair, clients, aborted, unswept>>

\* Mutant: the connection is never closed.
BuildLeavesConnection ==
  /\ scan.pc = "build"
  /\ state' = [state EXCEPT ![scan.file] = "built"]
  /\ scan' = [scan EXCEPT !.pc = "done"]
  /\ scanned' = "scanned" /\ aborted' = FALSE
  /\ UNCHANGED <<at, made, pair, clients, unswept>>

\* build_index returns: every step was committed, the manifest last.
Build ==
  /\ scan.pc = "build"
  /\ state' = [state EXCEPT ![scan.file] = "built"]
  /\ pair' = AfterClose(pair, scan.file, OthersThanScan(scan.file))
  /\ scan' = NotScanning /\ scanned' = "scanned" /\ aborted' = FALSE
  /\ UNCHANGED <<at, made, clients, unswept>>

\* Killed, or build_index raises: what was committed stays.
Kill ==
  /\ scan.pc \in KillAt
  /\ scan' = NotScanning /\ scanned' = "killed"
  /\ UNCHANGED <<at, state, made, pair, clients, aborted, unswept>>

-----------------------------------------------------------------------------
(* A client *)

\* Mutant: the file's existence is not checked.
RequireNothing(c) ==
  /\ client[c].pc = "idle"
  /\ client' = [client EXCEPT ![c].pc = "open"]
  /\ UNCHANGED <<at, state, made, pair, scan, scanned, result, aborted, unswept>>

\* _require_db passes, or the structured "no_index" is returned.
RequireIndex(c) ==
  /\ client[c].pc = "idle"
  /\ IF at = NoFile
     THEN result' = [result EXCEPT ![c] = "no_index"] /\ UNCHANGED client
     ELSE client' = [client EXCEPT ![c].pc = "open"] /\ UNCHANGED result
  /\ UNCHANGED <<at, state, made, pair, scan, scanned, aborted, unswept>>

OpenFile(c) ==
  /\ client[c].pc = "open"
  /\ Connect
  /\ client' = [client EXCEPT ![c] = [pc |-> "read", file |-> at']]
  /\ UNCHANGED <<scan, scanned, result, aborted, unswept>>

\* get_conn's look at the schema is the first read; an empty file has no pair.
FirstRead(c) ==
  /\ client[c].pc = "read"
  /\ LET f == client[c].file IN
       IF state[f] = "empty"
       THEN client' = [client EXCEPT ![c].pc = "blank"] /\ UNCHANGED <<pair, result, unswept>>
       ELSE /\ pair' = Attach(f)
            /\ unswept' = (unswept \/ ReadsUnlinked(f))
            /\ \/ client' = [client EXCEPT ![c].pc = "use"] /\ UNCHANGED result
               \/ /\ SharesPair(f)
                  /\ client' = [client EXCEPT ![c] = NotConnected]
                  /\ result' = [result EXCEPT ![c] = "raised"]
  /\ UNCHANGED <<at, state, made, scan, scanned, aborted>>

\* The index is queried, or its descriptions written; no table, no answer.  A
\* connection that saw an empty file looks for the pair only now.
Use(c) ==
  /\ client[c].pc \in {"use", "blank"}
  /\ LET f == client[c].file
         late == client[c].pc = "blank" /\ state[f] # "empty"
     IN  /\ \E r \in (IF state[f] = "empty" THEN {} ELSE {state[f]})
                       \cup (IF state[f] = "empty" \/ SharesPair(f) THEN {"raised"} ELSE {}) :
              result' = [result EXCEPT ![c] = r]
         /\ pair' = AfterClose(IF late THEN Attach(f) ELSE pair, f, OthersThan(c, f))
         /\ unswept' = (unswept \/ (late /\ ReadsUnlinked(f)))
  /\ client' = [client EXCEPT ![c] = NotConnected]
  /\ UNCHANGED <<at, state, made, scan, scanned, aborted>>

-----------------------------------------------------------------------------
\* No index yet.
Init ==
  /\ at = NoFile /\ made = 0 /\ pair = NoFile
  /\ state = [f \in File |-> "empty"]
  /\ scan = NotScanning /\ scanned = "none"
  /\ client = [c \in Client |-> NotConnected]
  /\ result = [c \in Client |-> "none"]
  /\ aborted = FALSE /\ unswept = FALSE

Scan == \/ ScanExists \/ (\E kind \in Kind : StartScan(kind))
        \/ Unlink \/ UnlinkSidecars \/ OpenIndex
        \/ CreateSchema \/ SchemaFails \/ Build \/ Kill

Call == \E c \in Client : RequireIndex(c) \/ OpenFile(c) \/ FirstRead(c) \/ Use(c)

Next == Scan \/ Call

Spec == Init /\ [][Next]_vars

-----------------------------------------------------------------------------
(* Properties *)

Content == {"empty", "partial", "built"}

TypeOK ==
  /\ at \in 0 .. MaxFiles /\ pair \in 0 .. MaxFiles /\ made \in 0 .. MaxFiles
  /\ state \in [File -> Content]
  /\ scan \in [pc : {"idle", "unlink", "sidecars", "open", "schema", "build"},
               kind : Kind \cup {"none"}, file : 0 .. MaxFiles]
  /\ scanned \in {"none", "exists", "scanned", "raised", "killed"}
  /\ client \in [Client -> [pc : {"idle", "open", "read", "use", "blank"},
                          file : 0 .. MaxFiles]]
  /\ result \in [Client -> Content \cup {"none", "no_index", "raised"}]
  /\ aborted \in BOOLEAN /\ unswept \in BOOLEAN

\* Between scans, none of which was cut short, the file at the path is a whole
\* index: no client that lost the race with a scan's unlink leaves an empty
\* file there, which every later unforced scan would take for an index.
QuiescentIndexIsBuilt ==
  (scan.pc = "idle" /\ ~aborted /\ at # NoFile) => state[at] = "built"

\* A scan rebuilds the index, whatever connections to the old one are open.
ScanRebuilds == scanned # "raised"

\* That holds of every scan once the sidecars of the last unlinked index were
\* removed with it, until a connection opened before the unlink reads that
\* index for the first time: connections that had read it before, and clients
\* that create the file in between, never bring the sidecars back.
SweptScanRebuilds == [][~unswept /\ scanned' = "raised" => scanned = "raised"]_vars

\* A client's answer is data or a structured error.
ErrorsAreStructured == \A c \in Client : result[c] # "raised"

\* A client that opened the file at the path is answered from a whole index
\* between completed scans, also when others are still connected to an old file
\* whose sidecars were removed, and none of them reads it for the first time.
QuietClientsAnswered ==
  [][\A c \in Client :
       (/\ scan.pc = "idle" /\ ~aborted /\ ~unswept /\ client[c].pc \in {"read", "use", "blank"}
        /\ client[c].file = at /\ client'[c].pc = "idle")
         => result'[c] = "built"]_vars

=============================================================================
