--------------------------- MODULE IndexFile_proofs ---------------------------
(* For any number of clients and files: between completed scans the file at  *)
(* the path is a whole index, and once the sidecars of an unlinked index are *)
(* gone, no scan fails and quiet clients are answered until somebody reads   *)
(* that index for the first time; scans of the server fail for nothing else, *)
(* and a whole index is never written over.                                  *)
EXTENDS IndexFile, TLAPS

-----------------------------------------------------------------------------
(* What opening and closing do to the files *)

LEMMA ConnectFiles ==
  ASSUME TypeOK, Connect
  PROVE  /\ at' \in File
         /\ at # NoFile => UNCHANGED <<at, made, state>>
         /\ made' \in 0 .. MaxFiles /\ pair' \in 0 .. MaxFiles
         /\ state' \in [File -> Content]
  BY IndexAssumption DEF TypeOK, Connect, File, NoFile, Content

LEMMA ClosePair ==
  ASSUME NEW p \in 0 .. MaxFiles, NEW f, NEW others
  PROVE  AfterClose(p, f, others) \in 0 .. MaxFiles
  BY IndexAssumption DEF AfterClose, NoFile

LEMMA AttachPair ==
  ASSUME TypeOK, NEW f \in 0 .. MaxFiles
  PROVE  Attach(f) \in 0 .. MaxFiles
  BY DEF TypeOK, Attach

-----------------------------------------------------------------------------
(* The inductive invariant.  A client that passed the existence check opens  *)
(* the path later, and would create an empty file if none were there: that   *)
(* can only happen while a scan is under way, or after one was cut short.    *)

ScanFileAtPath ==
  IF scan.pc \in {"schema", "build"} THEN at # NoFile /\ scan.file = at
                                     ELSE scan.file = NoFile

ScanIsOpenEnded == scan.pc # "idle" => aborted

NoStrayClient ==
  (scan.pc = "idle" /\ ~aborted /\ at = NoFile)
    => \A c \in Client : client[c].pc # "open"

ConnectedClients ==
  \A c \in Client : client[c].pc \in {"read", "use", "blank"} => client[c].file # NoFile

IndexInv ==
  /\ TypeOK /\ ScanFileAtPath /\ ScanIsOpenEnded /\ NoStrayClient
  /\ ConnectedClients /\ QuiescentIndexIsBuilt

LEMMA NotScanningType ==
  NotScanning \in [pc : {"idle", "unlink", "sidecars", "open", "schema", "build"},
                   kind : Kind \cup {"none"}, file : 0 .. MaxFiles]
  BY IndexAssumption DEF NotScanning, NoFile

LEMMA IndexInit == Init => IndexInv
<1> SUFFICES ASSUME Init PROVE IndexInv
  OBVIOUS
<1>1. TypeOK
  <2>1. scan = NotScanning
    BY DEF Init
  <2>2. client \in [Client -> [pc : {"idle", "open", "read", "use", "blank"},
                               file : 0 .. MaxFiles]]
    BY IndexAssumption DEF Init, NotConnected, NoFile
  <2>3. /\ state \in [File -> Content]
        /\ result \in [Client -> Content \cup {"none", "no_index", "raised"}]
    BY DEF Init, Content
  <2>4. at \in 0 .. MaxFiles /\ pair \in 0 .. MaxFiles /\ made \in 0 .. MaxFiles
    BY IndexAssumption DEF Init, NoFile
  <2>5. /\ scanned \in {"none", "exists", "scanned", "raised", "killed"}
        /\ aborted \in BOOLEAN /\ unswept \in BOOLEAN
    BY DEF Init
  <2> QED
    BY <2>1, <2>2, <2>3, <2>4, <2>5, NotScanningType, Zenon DEF TypeOK
<1>2. ScanFileAtPath /\ ScanIsOpenEnded /\ QuiescentIndexIsBuilt
  BY DEF Init, ScanFileAtPath, ScanIsOpenEnded, QuiescentIndexIsBuilt, NotScanning
<1>3. NoStrayClient /\ ConnectedClients
  BY DEF Init, NoStrayClient, ConnectedClients, NotConnected
<1> QED
  BY <1>1, <1>2, <1>3 DEF IndexInv

LEMMA IndexStep == IndexInv /\ [Next]_vars => IndexInv'
<1> SUFFICES ASSUME IndexInv, [Next]_vars PROVE IndexInv'
  OBVIOUS
<1> USE IndexAssumption
    DEF IndexInv, ScanFileAtPath, ScanIsOpenEnded, NoStrayClient,
        ConnectedClients, QuiescentIndexIsBuilt
<1>1. CASE ScanExists
  BY <1>1 DEF ScanExists, clients, TypeOK
<1>2. ASSUME NEW kind \in Kind, StartScan(kind) PROVE IndexInv'
  BY <1>2 DEF StartScan, clients, TypeOK, NoFile
<1>3. CASE Unlink
  BY <1>3 DEF Unlink, clients, TypeOK, NoFile
<1>4. CASE UnlinkSidecars
  BY <1>4 DEF UnlinkSidecars, clients, TypeOK, NoFile
<1>5. CASE OpenIndex
  <2>1. at' \in File /\ at' # NoFile /\ at' \in 0 .. MaxFiles
    BY <1>5, ConnectFiles DEF OpenIndex, File, NoFile
  <2> QED
    BY <1>5, <2>1, ConnectFiles DEF OpenIndex, clients, TypeOK
<1>6. CASE CreateSchema
  <2>1. pair' \in 0 .. MaxFiles
    BY <1>6, AttachPair DEF CreateSchema, TypeOK
  <2> QED
    BY <1>6, <2>1 DEF CreateSchema, clients, TypeOK, Content
<1>7. CASE SchemaFails
  BY <1>7 DEF SchemaFails, clients, TypeOK, NotScanning, NoFile
<1>8. CASE Build
  <2>1. scan.file = at /\ at # NoFile /\ at \in File
    BY <1>8 DEF Build, TypeOK, File, NoFile
  <2>2. pair' \in 0 .. MaxFiles
    BY <1>8, ClosePair DEF Build, TypeOK
  <2>3. state' \in [File -> Content] /\ state'[at] = "built"
    BY <1>8, <2>1 DEF Build, TypeOK, Content
  <2>4. TypeOK'
    BY <1>8, <2>2, <2>3, NotScanningType DEF Build, clients, TypeOK
  <2> QED
    BY <1>8, <2>1, <2>3, <2>4 DEF Build, clients, NotScanning
<1>9. CASE Kill
  BY <1>9 DEF Kill, clients, TypeOK, NotScanning, NoFile
<1>10. ASSUME NEW c \in Client, RequireIndex(c) PROVE IndexInv'
  BY <1>10 DEF RequireIndex, TypeOK, NoFile
<1>11. ASSUME NEW c \in Client, OpenFile(c) PROVE IndexInv'
  <2>1. at' \in File /\ at' # NoFile /\ at' \in 0 .. MaxFiles
    BY <1>11, ConnectFiles DEF OpenFile, File, NoFile
  <2>2. TypeOK'
    BY <1>11, <2>1, ConnectFiles DEF OpenFile, TypeOK
  <2>3. CASE at # NoFile
    BY <1>11, <2>2, <2>3, ConnectFiles DEF OpenFile
  <2>4. CASE at = NoFile
    <3>1. scan.pc # "idle" \/ aborted
      BY <1>11, <2>4 DEF OpenFile
    <3>2. scan.pc \notin {"schema", "build"}
      BY <2>4
    <3> QED
      BY <1>11, <2>1, <2>2, <3>1, <3>2 DEF OpenFile
  <2> QED
    BY <2>3, <2>4
<1>14. ASSUME NEW c \in Client, FirstRead(c) PROVE IndexInv'
  <2>1. client[c].file \in 0 .. MaxFiles /\ client[c].file # NoFile
    BY <1>14 DEF FirstRead, TypeOK
  <2>2. pair' \in 0 .. MaxFiles
    BY <1>14, <2>1, AttachPair DEF FirstRead, TypeOK
  <2>3. client' = [client EXCEPT ![c] = NotConnected] \/
        \E pc \in {"use", "blank"} : client' = [client EXCEPT ![c].pc = pc]
    BY <1>14 DEF FirstRead
  <2>4. /\ client' \in [Client -> [pc : {"idle", "open", "read", "use", "blank"},
                                   file : 0 .. MaxFiles]]
        /\ ConnectedClients'
        /\ \A d \in Client : client'[d].pc = "open" => client[d].pc = "open"
    BY <2>1, <2>3 DEF NotConnected, NoFile, TypeOK
  <2>5. /\ result' \in [Client -> Content \cup {"none", "no_index", "raised"}]
        /\ unswept' \in BOOLEAN
        /\ UNCHANGED <<at, state, made, scan, scanned, aborted>>
    BY <1>14 DEF FirstRead, TypeOK
  <2> QED
    BY <2>2, <2>4, <2>5 DEF TypeOK
<1>12. ASSUME NEW c \in Client, Use(c) PROVE IndexInv'
  <2>1. result' \in [Client -> Content \cup {"none", "no_index", "raised"}]
    <3>1. state[client[c].file] \in Content
      BY <1>12 DEF Use, TypeOK, File, NoFile
    <3>2. \E r \in Content \cup {"raised"} : result' = [result EXCEPT ![c] = r]
      BY <1>12, <3>1 DEF Use
    <3> QED
      BY <3>2 DEF TypeOK
  <2>2. pair' \in 0 .. MaxFiles /\ unswept' \in BOOLEAN
    <3>1. client[c].file \in 0 .. MaxFiles
      BY <1>12 DEF TypeOK
    <3>2. Attach(client[c].file) \in 0 .. MaxFiles /\ pair \in 0 .. MaxFiles
      BY <3>1, AttachPair DEF TypeOK
    <3> QED
      BY <1>12, <3>2, ClosePair DEF Use, TypeOK
  <2>3. \A d \in Client : client'[d].pc = "open" => client[d].pc = "open"
    BY <1>12 DEF Use, NotConnected, TypeOK
  <2> QED
    BY <1>12, <2>1, <2>2, <2>3 DEF Use, NotConnected, TypeOK, NoFile
<1>13. CASE UNCHANGED vars
  BY <1>13 DEF vars, TypeOK
<1> QED
  BY <1>1, <1>2, <1>3, <1>4, <1>5, <1>6, <1>7, <1>8, <1>9, <1>10, <1>11, <1>12, <1>13, <1>14
     DEF Next, Scan, Call

LEMMA IndexInvariant == Spec => []IndexInv
  BY IndexInit, IndexStep, PTL DEF Spec

-----------------------------------------------------------------------------
\* Every variable keeps its type.
THEOREM TypeCorrect == Spec => []TypeOK
<1>1. IndexInv => TypeOK
  BY DEF IndexInv
<1> QED
  BY <1>1, IndexInvariant, PTL

\* Whatever clients race with the unlink, between scans that completed the
\* path holds a whole index, never the empty file of a client that lost.
THEOREM QuiescentIndexIsWhole == Spec => []QuiescentIndexIsBuilt
<1>1. IndexInv => QuiescentIndexIsBuilt
  BY DEF IndexInv
<1> QED
  BY <1>1, IndexInvariant, PTL

-----------------------------------------------------------------------------
(* The pair at the path belongs to the file at the path, once the sidecars of *)
(* the unlinked one are gone, until somebody reads that file for the first    *)
(* time.  Together with IndexInv this is inductive: the scan connects to the  *)
(* file at the path only.                                                     *)

PairIsOwn == ~unswept => pair \in {NoFile, at}

LEMMA OwnPairIsNotShared ==
  ASSUME TypeOK, PairIsOwn, ~unswept
  PROVE  ~SharesPair(at) /\ Attach(at) = at
  BY DEF PairIsOwn, SharesPair, InUse, Attach

LEMMA PairStep == IndexInv /\ PairIsOwn /\ [Next]_vars => PairIsOwn'
<1> SUFFICES ASSUME IndexInv, PairIsOwn, [Next]_vars PROVE PairIsOwn'
  OBVIOUS
<1>0. TypeOK /\ ScanFileAtPath
  BY DEF IndexInv
<1> USE DEF PairIsOwn
<1>1. ASSUME Connect, unswept' = unswept PROVE PairIsOwn'
  BY <1>0, <1>1 DEF Connect, TypeOK, NoFile
<1>2. CASE Unlink \/ UnlinkSidecars
  BY <1>2 DEF Unlink, UnlinkSidecars
<1>3. CASE OpenIndex
  BY <1>1, <1>3 DEF OpenIndex
<1>4. CASE CreateSchema
  <2>1. scan.file = at
    BY <1>0, <1>4 DEF CreateSchema, ScanFileAtPath
  <2> QED
    BY <1>0, <1>4, <2>1, OwnPairIsNotShared DEF CreateSchema
<1>5. CASE Build
  BY <1>5 DEF Build, clients, AfterClose
<1>6. CASE ScanExists \/ SchemaFails \/ Kill \/ \E kind \in Kind : StartScan(kind)
  BY <1>6 DEF ScanExists, SchemaFails, Kill, StartScan
<1>7. ASSUME NEW c \in Client, RequireIndex(c) PROVE PairIsOwn'
  BY <1>7 DEF RequireIndex
<1>8. ASSUME NEW c \in Client, OpenFile(c) PROVE PairIsOwn'
  BY <1>1, <1>8 DEF OpenFile
<1>11. ASSUME NEW c \in Client, FirstRead(c) PROVE PairIsOwn'
  BY <1>0, <1>11, OwnPairIsNotShared DEF FirstRead, ReadsUnlinked
<1>9. ASSUME NEW c \in Client, Use(c) PROVE PairIsOwn'
  <2> DEFINE f == client[c].file
             late == client[c].pc = "blank" /\ state[f] # "empty"
             held == IF late THEN Attach(f) ELSE pair
  <2>1. /\ pair' = AfterClose(held, f, OthersThan(c, f)) /\ at' = at
        /\ unswept' = (unswept \/ (late /\ ReadsUnlinked(f)))
    BY <1>9 DEF Use
  <2>2. CASE ~unswept /\ ~(late /\ f # at)
    <3>1. held \in {NoFile, at}
      BY <1>0, <2>2, OwnPairIsNotShared
    <3> QED
      BY <2>1, <3>1 DEF AfterClose
  <2> QED
    BY <2>1, <2>2 DEF ReadsUnlinked
<1>10. CASE UNCHANGED vars
  BY <1>10 DEF vars
<1> QED
  BY <1>2, <1>3, <1>4, <1>5, <1>6, <1>7, <1>8, <1>9, <1>10, <1>11 DEF Next, Scan, Call

LEMMA PairInvariant == Spec => []PairIsOwn
<1>1. Init => PairIsOwn
  BY DEF Init, PairIsOwn
<1> QED
  BY <1>1, PairStep, IndexInvariant, PTL DEF Spec

\* No scan fails once the old sidecars are gone, whatever is connected, until a
\* connection reads an unlinked index for the first time.
THEOREM ScansAfterSweepRebuild == Spec => SweptScanRebuilds
<1>1. IndexInv /\ PairIsOwn /\ [Next]_vars
        => [~unswept /\ scanned' = "raised" => scanned = "raised"]_vars
  <2> SUFFICES ASSUME IndexInv, PairIsOwn, [Next]_vars, ~unswept, scanned' = "raised"
               PROVE  scanned = "raised"
    OBVIOUS
  <2>1. ~SchemaFails
    <3>1. TypeOK /\ (scan.pc = "schema" => scan.file = at)
      BY DEF IndexInv, ScanFileAtPath
    <3> QED
      BY <3>1, OwnPairIsNotShared DEF SchemaFails
  <2>2. CASE Scan
    BY <2>1, <2>2 DEF Scan, ScanExists, StartScan, Unlink, UnlinkSidecars, OpenIndex,
                      CreateSchema, Build, Kill
  <2>3. CASE Call \/ UNCHANGED vars
    BY <2>3 DEF Call, RequireIndex, OpenFile, FirstRead, Use, vars
  <2> QED
    BY <2>2, <2>3 DEF Next
<1> QED
  BY <1>1, IndexInvariant, PairInvariant, PTL DEF Spec, SweptScanRebuilds

\* A client of the index at the path gets a whole answer between completed scans,
\* whoever is still connected to an unlinked one that was swept and read before.
THEOREM QuietClientsGetAnswers == Spec => QuietClientsAnswered
<1>1. IndexInv /\ PairIsOwn /\ [Next]_vars
        => [\A c \in Client :
              (/\ scan.pc = "idle" /\ ~aborted /\ ~unswept /\ client[c].pc \in {"read", "use", "blank"}
               /\ client[c].file = at /\ client'[c].pc = "idle")
                => result'[c] = "built"]_vars
  <2> SUFFICES ASSUME IndexInv, PairIsOwn, [Next]_vars, NEW c \in Client,
                      scan.pc = "idle", ~aborted, ~unswept,
                      client[c].pc \in {"read", "use", "blank"},
                      client[c].file = at, client'[c].pc = "idle"
               PROVE  result'[c] = "built"
    OBVIOUS
  <2>1. TypeOK /\ QuiescentIndexIsBuilt /\ client[c].file # NoFile
    BY DEF IndexInv, ConnectedClients
  <2>2. state[at] = "built" /\ ~SharesPair(at)
    BY <2>1, OwnPairIsNotShared DEF QuiescentIndexIsBuilt
  <2>3. Use(c)
    <3>1. client' # client
      OBVIOUS
    <3>2. ~Scan /\ ~UNCHANGED vars
      BY <3>1 DEF Scan, ScanExists, StartScan, Unlink, UnlinkSidecars, OpenIndex,
                  CreateSchema, SchemaFails, Build, Kill, clients, vars
    <3>3. ASSUME NEW d \in Client, d # c,
                 RequireIndex(d) \/ OpenFile(d) \/ FirstRead(d) \/ Use(d)
          PROVE  FALSE
      BY <2>1, <3>3 DEF RequireIndex, OpenFile, FirstRead, Use, TypeOK
    <3>4. ~RequireIndex(c) /\ ~OpenFile(c)
      BY DEF RequireIndex, OpenFile
    <3>5. ~FirstRead(c)
      <4>1. client \in [Client -> [pc : {"idle", "open", "read", "use", "blank"},
                                  file : 0 .. MaxFiles]]
        BY <2>1 DEF TypeOK
      <4>2. \A pc : client' = [client EXCEPT ![c].pc = pc] => client'[c].pc = pc
        BY <4>1
      <4> QED
        BY <2>2, <4>2 DEF FirstRead
    <3> QED
      BY <3>2, <3>3, <3>4, <3>5 DEF Next, Call
  <2> QED
    BY <2>1, <2>2, <2>3 DEF Use, TypeOK
<1> QED
  BY <1>1, IndexInvariant, PairInvariant, PTL DEF Spec, QuietClientsAnswered

-----------------------------------------------------------------------------
(* Scans of the server alone: nothing of the scan lies between the unlink and *)
(* the removal of the sidecars, so the index is never opened beside old ones, *)
(* unless a client brings them back.                                          *)

SweepInv ==
  /\ unswept => scan.pc = "sidecars"
  /\ scan.pc # "idle" => scan.kind \in Kind

\* A client does not read for the first time an index unlinked since it opened it.
NoLateRead ==
  \A c \in Client : client[c].pc \in {"read", "blank"} /\ client'[c].pc # client[c].pc
                     => client[c].file = at

LEMMA SweepStep ==
  ASSUME Kind \subseteq {"mcp"}, "sidecars" \notin KillAt
  PROVE  TypeOK /\ SweepInv /\ [Next]_vars /\ [NoLateRead]_vars => SweepInv'
<1> SUFFICES ASSUME TypeOK, SweepInv, [Next]_vars, [NoLateRead]_vars PROVE SweepInv'
  OBVIOUS
<1>0. scan \in [pc : {"idle", "unlink", "sidecars", "open", "schema", "build"},
                kind : Kind \cup {"none"}, file : 0 .. MaxFiles]
  BY DEF TypeOK
<1> USE DEF SweepInv
<1>1. CASE ScanExists
  BY <1>1 DEF ScanExists
<1>2. ASSUME NEW kind \in Kind, StartScan(kind) PROVE SweepInv'
  BY <1>2 DEF StartScan
<1>3. CASE Unlink
  BY <1>0, <1>3 DEF Unlink
<1>4. CASE UnlinkSidecars
  BY <1>0, <1>4 DEF UnlinkSidecars
<1>5. CASE OpenIndex
  BY <1>0, <1>5 DEF OpenIndex
<1>6. CASE CreateSchema
  BY <1>0, <1>6 DEF CreateSchema
<1>7. CASE SchemaFails \/ Build \/ Kill
  BY <1>7 DEF SchemaFails, Build, Kill, NotScanning
<1>8. ASSUME NEW c \in Client, FirstRead(c) \/ Use(c) PROVE SweepInv'
  <2>1. /\ client[c].pc \in {"read", "use", "blank"} /\ client'[c].pc # client[c].pc
        /\ scan' = scan
    <3>1. client \in [Client -> [pc : {"idle", "open", "read", "use", "blank"},
                                file : 0 .. MaxFiles]]
      BY DEF TypeOK
    <3> QED
      BY <1>8, <3>1 DEF FirstRead, Use, NotConnected
  <2>2. client[c].pc \in {"read", "blank"} => client[c].file = at
    <3>1. vars' # vars
      BY <2>1 DEF vars
    <3> QED
      BY <2>1, <3>1 DEF NoLateRead
  <2>3. unswept' = unswept
    <3>1. unswept \in BOOLEAN
      BY DEF TypeOK
    <3>2. CASE UNCHANGED unswept
      BY <3>2
    <3>3. CASE unswept' = (unswept \/ ReadsUnlinked(client[c].file)) /\ client[c].pc = "read"
      <4>1. ~ReadsUnlinked(client[c].file)
        BY <2>2, <3>3 DEF ReadsUnlinked
      <4> QED
        BY <3>1, <3>3, <4>1
    <3>4. ASSUME NEW late \in BOOLEAN, late => client[c].pc = "blank",
                 unswept' = (unswept \/ (late /\ ReadsUnlinked(client[c].file)))
          PROVE  unswept' = unswept
      <4>1. ~(late /\ ReadsUnlinked(client[c].file))
        BY <2>2, <3>4 DEF ReadsUnlinked
      <4> QED
        BY <3>1, <3>4, <4>1
    <3>5. CASE FirstRead(c)
      BY <3>2, <3>3, <3>5 DEF FirstRead
    <3>6. CASE Use(c)
      <4> DEFINE late == client[c].pc = "blank" /\ state[client[c].file] # "empty"
      <4>1. late \in BOOLEAN /\ (late => client[c].pc = "blank")
        OBVIOUS
      <4>2. unswept' = (unswept \/ (late /\ ReadsUnlinked(client[c].file)))
        BY <3>6 DEF Use
      <4> HIDE DEF late
      <4> QED
        BY <3>4, <4>1, <4>2
    <3> QED
      BY <1>8, <3>5, <3>6
  <2> QED
    BY <2>1, <2>3
<1>9. CASE UNCHANGED vars \/ \E c \in Client : RequireIndex(c) \/ OpenFile(c)
  BY <1>9 DEF RequireIndex, OpenFile, vars
<1> QED
  BY <1>1, <1>2, <1>3, <1>4, <1>5, <1>6, <1>7, <1>8, <1>9 DEF Next, Scan, Call

\* If only the server scans, and is not killed right after the unlink, a scan
\* rebuilds the index whatever connections to the old one are open, unless one of
\* them reads it for the first time only after it was unlinked: the failure is that
\* of scans that leave the sidecars of the index they unlinked, or of such a read.
THEOREM ServerScansRebuild ==
  ASSUME Kind \subseteq {"mcp"}, "sidecars" \notin KillAt
  PROVE  Spec /\ [][NoLateRead]_vars => []ScanRebuilds
<1>1. Init => SweepInv /\ ScanRebuilds
  BY DEF Init, SweepInv, ScanRebuilds, NotScanning
<1>2. TypeOK /\ SweepInv /\ [Next]_vars /\ [NoLateRead]_vars => SweepInv'
  BY SweepStep
<1>3. IndexInv /\ PairIsOwn /\ SweepInv /\ ScanRebuilds /\ [Next]_vars => ScanRebuilds'
  <2> SUFFICES ASSUME IndexInv, PairIsOwn, SweepInv, ScanRebuilds, [Next]_vars
               PROVE  ScanRebuilds'
    OBVIOUS
  <2>1. ~SchemaFails
    <3>1. TypeOK /\ (scan.pc = "schema" => scan.file = at /\ ~unswept)
      BY DEF IndexInv, ScanFileAtPath, SweepInv
    <3> QED
      BY <3>1, OwnPairIsNotShared DEF SchemaFails
  <2>2. CASE Scan
    BY <2>1, <2>2 DEF Scan, ScanExists, StartScan, Unlink, UnlinkSidecars, OpenIndex,
                      CreateSchema, Build, Kill, ScanRebuilds
  <2>3. CASE Call \/ UNCHANGED vars
    BY <2>3 DEF Call, RequireIndex, OpenFile, FirstRead, Use, vars, ScanRebuilds
  <2> QED
    BY <2>2, <2>3 DEF Next
<1>4. IndexInv => TypeOK
  BY DEF IndexInv
<1> QED
  BY <1>1, <1>2, <1>3, <1>4, IndexInvariant, PairInvariant, PTL DEF Spec

-----------------------------------------------------------------------------
(* A whole index is never written over.                                       *)

\* What a scan opens after the unlink was created since.
FilesInv ==
  /\ at <= made
  /\ \A f \in File : f > made => state[f] = "empty"
  /\ (scan.pc \in {"sidecars", "open", "schema"} /\ at # NoFile) => state[at] # "built"

\* An index, once whole, stays so for whoever is connected to it: a later scan
\* builds into a file of its own.
WholeIndexStaysWhole ==
  [][\A f \in File : state[f] = "built" => state'[f] = "built"]_vars

\* Opening the path changes no file that is in use.
LEMMA ConnectKeeps ==
  ASSUME TypeOK, FilesInv, Connect
  PROVE  /\ at' <= made' /\ \A f \in File : f > made' => state'[f] = "empty"
         /\ \A f \in File : state[f] = "built" => state'[f] = "built"
         /\ at = NoFile => state'[at'] = "empty"
         /\ at # NoFile => at' = at /\ state' = state
<1>1. CASE at # NoFile
  BY <1>1 DEF Connect, FilesInv
<1>2. CASE at = NoFile
  <2>1. /\ made < MaxFiles /\ made' = made + 1 /\ at' = made + 1
        /\ state' = [state EXCEPT ![made + 1] = "empty"]
    BY <1>2 DEF Connect
  <2>2. made \in 0 .. MaxFiles /\ state \in [File -> Content]
    BY DEF TypeOK
  <2>3. made + 1 \in File /\ made + 1 > made /\ \A f \in File : f > made + 1 => f > made
    BY <2>1, <2>2, IndexAssumption DEF File
  <2> QED
    BY <1>2, <2>1, <2>2, <2>3 DEF FilesInv, NoFile
<1> QED
  BY <1>1, <1>2

\* One step keeps both: the files that are whole, and what a scan will open.
LEMMA FilesStep ==
  ASSUME IndexInv, FilesInv, [Next]_vars
  PROVE  FilesInv' /\ \A f \in File : state[f] = "built" => state'[f] = "built"
<1>0. /\ at \in 0 .. MaxFiles /\ made \in 0 .. MaxFiles /\ state \in [File -> Content]
      /\ at # NoFile => at \in File
      /\ scan.pc \in {"schema", "build"} => at # NoFile /\ scan.file = at
      /\ scan \in [pc : {"idle", "unlink", "sidecars", "open", "schema", "build"},
                   kind : Kind \cup {"none"}, file : 0 .. MaxFiles]
  BY IndexAssumption DEF IndexInv, TypeOK, ScanFileAtPath, File, NoFile
<1>1. TypeOK
  BY DEF IndexInv
<1> USE DEF FilesInv
<1>2. ASSUME NEW kind \in Kind, StartScan(kind)
      PROVE  FilesInv' /\ state' = state
  BY <1>2 DEF StartScan
<1>3. ASSUME Unlink PROVE FilesInv' /\ state' = state
  BY <1>0, <1>3 DEF Unlink, NoFile
<1>4. ASSUME UnlinkSidecars PROVE FilesInv' /\ state' = state
  BY <1>0, <1>4 DEF UnlinkSidecars
<1>5. CASE OpenIndex
  <2>1. at' # NoFile => state'[at'] # "built"
    BY <1>1, <1>5, ConnectKeeps DEF OpenIndex
  <2> QED
    BY <1>0, <1>1, <1>5, <2>1, ConnectKeeps DEF OpenIndex
<1>6. CASE CreateSchema
  <2>1. scan.file = at /\ at \in File /\ state[at] # "built" /\ at <= made
    BY <1>0, <1>6 DEF CreateSchema
  <2>2. /\ state' = [state EXCEPT ![at] = "partial"] /\ UNCHANGED <<at, made>>
        /\ scan' = [scan EXCEPT !.pc = "build"]
    BY <1>6, <2>1 DEF CreateSchema
  <2>3. \A f \in File : f > made => f # at
    BY <1>0, <2>1 DEF File
  <2> QED
    BY <1>0, <2>1, <2>2, <2>3
<1>7. CASE Build
  <2>1. scan.file = at /\ at \in File /\ at <= made
    BY <1>0, <1>7 DEF Build
  <2>2. /\ state' = [state EXCEPT ![at] = "built"] /\ UNCHANGED <<at, made>>
        /\ scan' = NotScanning
    BY <1>7, <2>1 DEF Build
  <2>3. \A f \in File : f > made => f # at
    BY <1>0, <2>1 DEF File
  <2> QED
    BY <1>0, <2>1, <2>2, <2>3 DEF NotScanning
<1>8. CASE SchemaFails \/ Kill
  BY <1>8 DEF SchemaFails, Kill, NotScanning
<1>9. ASSUME NEW c \in Client, OpenFile(c)
      PROVE  FilesInv' /\ \A f \in File : state[f] = "built" => state'[f] = "built"
  BY <1>0, <1>1, <1>9, ConnectKeeps DEF OpenFile
<1>10. CASE \/ ScanExists \/ UNCHANGED vars
            \/ \E c \in Client : RequireIndex(c) \/ FirstRead(c) \/ Use(c)
  BY <1>10 DEF ScanExists, RequireIndex, FirstRead, Use, vars
<1> QED
  BY <1>2, <1>3, <1>4, <1>5, <1>6, <1>7, <1>8, <1>9, <1>10 DEF Next, Scan, Call

\* A client that holds a whole index keeps it, however often others scan.
THEOREM ConnectedIndexStaysWhole == Spec => WholeIndexStaysWhole
<1> DEFINE A == \A f \in File : state[f] = "built" => state'[f] = "built"
<1>1. Init => FilesInv
  BY DEF Init, FilesInv, NotScanning, NoFile
<1>2. IndexInv /\ FilesInv /\ [Next]_vars => FilesInv' /\ A
  BY FilesStep
<1> HIDE DEF A
<1>3. Spec => [][A]_vars
  BY <1>1, <1>2, IndexInvariant, PTL DEF Spec
<1> QED
  BY <1>3 DEF A, WholeIndexStaysWhole

=============================================================================
