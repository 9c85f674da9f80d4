----------------------- MODULE DescriptionStore_proofs -----------------------
(***************************************************************************)
(* Proofs about DescriptionStore for every set of classes, revisions and   *)
(* signatures, whatever the hash tells apart.  Three layers of invariants: *)
(*                                                                         *)
(*   TypeInv    the types, and what describe may find in its loop          *)
(*   FreshInv   rows settled at the hash of their text; the store stamped  *)
(*   WholeInv   (whole entries) the imports of a class under one hash      *)
(*                                                                         *)
(* StoreInv, DurableInv and KeepInv compare the two files on top of them;  *)
(* LossInv, on TypeInv, counts what a crash would lose.                    *)
(***************************************************************************)
EXTENDS DescriptionStore, FiniteSetTheorems, TLAPS

USE DEF Source

-----------------------------------------------------------------------------
(* The operators on rows and texts *)

\* Texts, rows and store entries that stand for "nothing" are well typed.
LEMMA NothingTypes ==
  /\ NoText \in Text /\ NoTexts \in [Sig -> Text]
  /\ NoRow \in IndexRow /\ NoImports \in Imports /\ NoGenerated \in Generated
  /\ LegacyRow \in ImportRow /\ NoOpts \in [model : Model, force : BOOLEAN]
BY DEF NoText, NoTexts, NoRow, NoImports, NoImportRow, NoGenerated, LegacyRow,
       NoOpts, Text, IndexRow, Imports, ImportRow, Generated, Model

\* What is produced for a hash is text for that hash.
LEMMA DescribingType ==
  ASSUME NEW src \in {"fallback", "llm"}, NEW h \in Hash, NEW ms
  PROVE  /\ Describing(src, h, ms).class = [src |-> src, of |-> h]
         /\ Describing(src, h, ms).class \in Text
         /\ Describing(src, h, ms).methods \in [Sig -> Text]
BY NothingTypes DEF Describing, Text

\* Overlaying and filtering method texts yields method texts.
LEMMA OverlayType ==
  ASSUME NEW over \in [Sig -> Text], NEW under \in [Sig -> Text]
  PROVE  Overlay(over, under) \in [Sig -> Text]
BY DEF Overlay

LEMMA FreshMethodsType ==
  ASSUME NEW g \in Imports, NEW fresh \in BOOLEAN
  PROVE  FreshMethods(g, fresh) \in [Sig -> Text]
BY NothingTypes DEF FreshMethods, Imports, ImportRow

\* A described row keeps its revision and is settled at the hash given.
LEMMA DescribedRow ==
  ASSUME NEW row \in IndexRow, NEW h \in Hash, NEW class \in Text,
         NEW methods \in [Sig -> Text]
  PROVE  LET new == Described(row, h, class, methods) IN
         /\ new \in IndexRow /\ new.rev = row.rev
         /\ new.class = class /\ new.classAt = h
<1>1. [src |-> "fallback", of |-> h] \in Text
  BY DEF Text
<1> DEFINE ms == [m \in Sig |->
        IF m \notin MethodsOf[row.rev] THEN NoText
        ELSE IF methods[m] # NoText THEN methods[m]
        ELSE [src |-> "fallback", of |-> h]]
<1>2. ms \in [Sig -> Text]
  BY <1>1, NothingTypes
<1>3. [m \in Sig |-> h] \in [Sig -> Hash \cup {NoHash}]
  OBVIOUS
<1> HIDE DEF ms
<1>4. QED
  BY <1>2, <1>3 DEF Described, IndexRow, ms

\* A restored row serves the imported class text, or keeps the one it had.
LEMMA RestoredRow ==
  ASSUME NEW row \in IndexRow, NEW g \in Imports, NEW h \in Hash
  PROVE  LET new == Restored(row, g, h) IN
         /\ new \in IndexRow /\ new.rev = row.rev /\ new.classAt = h
         /\ new.class = IF g.class.text # NoText THEN g.class.text ELSE row.class
BY DEF Restored, IndexRow, Imports, ImportRow

\* An imported row serves the new text at the hash it is stamped with.
LEMMA WithImportRow ==
  ASSUME NEW row \in IndexRow, NEW h \in Hash, NEW withClass \in BOOLEAN,
         NEW ms \in SUBSET Sig
  PROVE  LET new == WithImport(row, h, withClass, ms) IN
         /\ new \in IndexRow /\ new.rev = row.rev
         /\ withClass => /\ new.class = [src |-> "import", of |-> h]
                         /\ new.classAt = h
         /\ ~withClass => new.class = row.class /\ new.classAt = row.classAt
BY DEF WithImport, IndexRow, Text

LEMMA SetImportedType ==
  ASSUME NEW g \in Imports, NEW h \in Hash, NEW withClass \in BOOLEAN,
         NEW ms \in SUBSET Sig
  PROVE  LET new == SetImported(g, h, withClass, ms) IN
         /\ new \in Imports
         /\ withClass => new.class = [text |-> [src |-> "import", of |-> h], hash |-> h]
         /\ ~withClass => new.class = g.class
BY DEF SetImported, Imports, ImportRow, Text

-----------------------------------------------------------------------------
(* Type correctness *)

\* While describe runs, the classes it has still to visit are indexed: that is
\* what makes their hash one of Hash.
TypeInv ==
  /\ TypeOK
  /\ pc \in {"describe", "llm", "commitIndex", "commitCache"} => todo \subseteq Indexed

\* The hash of an indexed class.
LEMMA HashNowType ==
  ASSUME TypeOK, NEW c \in Indexed
  PROVE  HashNow(c) \in Hash
<1>1. indexTx[c].rev \in Rev /\ disk[c] \in Source
  BY DEF Indexed, TypeOK, IndexRow
<1>2. <<indexTx[c].rev, disk[c]>> \in Rev \X Source
  BY <1>1
<1>3. QED
  BY <1>1, <1>2 DEF HashNow, StructureHash, Hash

\* A class is visited: the loop goes on, or commits.
LEMMA VisitedType ==
  ASSUME TypeOK, NEW c \in Class, Visited(c)
  PROVE  /\ todo' \in SUBSET Class /\ todo' \subseteq todo
         /\ pc' \in {"describe", "commitIndex"}
         /\ since' \in 0 .. ProgressEvery - 1
BY ConstantsAssumption DEF Visited, TypeOK

\* Replacing a row of the index by one of the same revision.
LEMMA ReplaceRow ==
  ASSUME TypeOK, NEW c \in Class, NEW row \in IndexRow, row.rev = indexTx[c].rev,
         indexTx' = [indexTx EXCEPT ![c] = row]
  PROVE  indexTx' \in [Class -> IndexRow] /\ Indexed' = Indexed
BY DEF TypeOK, Indexed

\* What describing a class does to the index.
LEMMA DenormaliseType ==
  ASSUME TypeOK, NEW c \in Class, NEW h \in Hash, NEW class \in Text,
         NEW methods \in [Sig -> Text], Denormalise(c, h, class, methods)
  PROVE  indexTx' \in [Class -> IndexRow] /\ Indexed' = Indexed
<1>1. indexTx[c] \in IndexRow
  BY DEF TypeOK
<1> DEFINE row == Described(indexTx[c], h, class, methods)
<1>2. row \in IndexRow /\ row.rev = indexTx[c].rev
  BY <1>1, DescribedRow
<1>3. indexTx' = [indexTx EXCEPT ![c] = row]
  BY DEF Denormalise
<1> HIDE DEF row
<1>4. QED
  BY <1>2, <1>3, ReplaceRow

\* What caching a result does to the store.
LEMMA CachePutType ==
  ASSUME TypeOK, NEW c \in Class, NEW h \in Hash,
         NEW src \in {"fallback", "llm"}, NEW ms,
         CachePut(c, h, Describing(src, h, ms))
  PROVE  cacheTx' \in Store
<1>1. opts.model \in Model
  BY DEF TypeOK
<1>2. cacheTx.imp \in [Class -> Imports] /\ cacheTx.gen \in [Class -> Generated]
  BY DEF TypeOK, Store
<1>3. [hash |-> h, model |-> opts.model,
       class |-> Describing(src, h, ms).class,
       methods |-> Describing(src, h, ms).methods] \in Generated
  BY <1>1, DescribingType DEF Generated
<1>4. QED
  BY <1>2, <1>3 DEF CachePut, TypeOK, Store

LEMMA TypeInit == Init => TypeInv
<1> SUFFICES ASSUME Init PROVE TypeInv
  OBVIOUS
<1>1. index \in [Class -> IndexRow] /\ indexTx \in [Class -> IndexRow]
  BY NothingTypes DEF Init
<1>2. cache \in Store /\ cacheTx \in Store
  <2>1. [NoImports EXCEPT !.class = LegacyRow] \in Imports
    BY NothingTypes DEF Imports
  <2>2. QED
    BY <2>1, NothingTypes DEF Init, Store
<1>3. QED
  BY <1>1, <1>2, NothingTypes, ConstantsAssumption DEF Init, TypeInv, TypeOK, Step
LEMMA TypeStep == TypeInv /\ [Next]_vars => TypeInv'
<1> SUFFICES ASSUME TypeInv, [Next]_vars PROVE TypeInv'
  OBVIOUS
<1> USE DEF TypeInv, files, Step
<1>1. ASSUME NEW c \in Class, Edit(c) PROVE TypeInv'
  BY <1>1 DEF Edit, TypeOK, Indexed
<1>2. CASE Crash
  BY <1>2, NothingTypes, ConstantsAssumption DEF Crash, Return, TypeOK
<1>3. CASE StartScan
  BY <1>3, NothingTypes DEF StartScan, TypeOK
<1>4. ASSUME NEW c \in Class, ScanFile(c) PROVE TypeInv'
  <2>1. index[c] \in IndexRow /\ disk[c] \in Rev \cup {Gone}
    BY DEF TypeOK
  <2>2. [index[c] EXCEPT !.rev = disk[c]] \in IndexRow
    BY <2>1 DEF IndexRow
  <2>3. index' \in [Class -> IndexRow]
    BY <1>4, <2>2 DEF ScanFile, TypeOK
  <2>4. QED
    BY <1>4, <2>3 DEF ScanFile, TypeOK
<1>5. CASE SummariseClasses
  <2>1. [src |-> "scan", of |-> NoHash] \in Text
    BY DEF Text
  <2>2. ASSUME NEW c \in Class
        PROVE  [index[c] EXCEPT !.class = [src |-> "scan", of |-> NoHash]] \in IndexRow
    <3>1. index[c] \in IndexRow
      BY DEF TypeOK
    <3>2. QED
      BY <2>1, <3>1 DEF IndexRow
  <2>3. index' \in [Class -> IndexRow]
    BY <1>5, <2>2 DEF SummariseClasses, TypeOK
  <2>4. QED
    BY <1>5, <2>3 DEF SummariseClasses, TypeOK
<1>6. ASSUME NEW c \in Class, ReapplyClass(c) PROVE TypeInv'
  <2>1. indexTx' \in [Class -> IndexRow]
    <3>1. CASE c \notin Indexed
      BY <1>6, <3>1 DEF ReapplyClass, TypeOK
    <3>2. CASE c \in Indexed
      <4>1. HashNow(c) \in Hash /\ indexTx[c] \in IndexRow
        BY <3>2, HashNowType DEF TypeOK
      <4>2. Restored(indexTx[c], cacheTx.imp[c], HashNow(c)) \in IndexRow
        BY <4>1, RestoredRow DEF TypeOK, Store
      <4>3. [indexTx[c] EXCEPT !.classAt = HashNow(c)] \in IndexRow
        BY <4>1 DEF IndexRow
      <4>4. QED
        BY <1>6, <3>2, <4>2, <4>3 DEF ReapplyClass, TypeOK
    <3>3. QED
      BY <3>1, <3>2
  <2>2. QED
    BY <1>6, <2>1 DEF ReapplyClass, TypeOK
<1>7. CASE FinishReapply
  BY <1>7, NothingTypes, ConstantsAssumption DEF FinishReapply, Return, TypeOK
<1>8. ASSUME NEW model \in Model, NEW force \in BOOLEAN, StartDescribe(model, force)
      PROVE  TypeInv'
  BY <1>8, ConstantsAssumption DEF StartDescribe, TypeOK, Indexed
<1>9. ASSUME NEW c \in Class, DescribeFromImport(c) PROVE TypeInv'
  <2>1. c \in Indexed /\ HashNow(c) \in Hash
    BY <1>9, HashNowType DEF DescribeFromImport
  <2>2. cacheTx.imp[c] \in Imports
    BY DEF TypeOK, Store
  <2>3. cacheTx.imp[c].class.text \in Text
        /\ FreshMethods(cacheTx.imp[c], TRUE) \in [Sig -> Text]
    BY <2>2, FreshMethodsType DEF Imports, ImportRow
  <2>4. indexTx' \in [Class -> IndexRow] /\ Indexed' = Indexed
    BY <1>9, <2>1, <2>3, DenormaliseType DEF DescribeFromImport
  <2>5. QED
    BY <1>9, <2>4, VisitedType DEF DescribeFromImport, TypeOK
<1>10. ASSUME NEW c \in Class, NEW fresh \in BOOLEAN, DescribeFromCache(c, fresh)
       PROVE  TypeInv'
  <2>1. c \in Indexed /\ HashNow(c) \in Hash
    BY <1>10, HashNowType DEF DescribeFromCache, NeedsText
  <2>2. cacheTx.imp[c] \in Imports /\ cacheTx.gen[c] \in Generated
    BY DEF TypeOK, Store
  <2>3. cacheTx.gen[c].class \in Text
        /\ Overlay(FreshMethods(cacheTx.imp[c], fresh), cacheTx.gen[c].methods)
             \in [Sig -> Text]
    BY <2>2, FreshMethodsType, OverlayType DEF Generated
  <2>4. indexTx' \in [Class -> IndexRow] /\ Indexed' = Indexed
    BY <1>10, <2>1, <2>3, DenormaliseType DEF DescribeFromCache
  <2>5. /\ todo' \in SUBSET Class /\ todo' \subseteq todo
        /\ pc' \in {"describe", "commitIndex"} /\ since' \in 0 .. ProgressEvery - 1
    BY <1>10, VisitedType DEF DescribeFromCache
  <2>6. todo \subseteq Indexed
    BY <1>10 DEF DescribeFromCache, NeedsText
  <2>7. QED
    BY <1>10, <2>4, <2>5, <2>6 DEF DescribeFromCache, TypeOK
<1>11. ASSUME NEW c \in Class, NEW fresh \in BOOLEAN,
              DescribeDeterministically(c, fresh)
       PROVE  TypeInv'
  <2>1. c \in Indexed /\ HashNow(c) \in Hash
    BY <1>11, HashNowType DEF DescribeDeterministically, NeedsText
  <2> DEFINE result == Describing("fallback", HashNow(c), MethodsOf[indexTx[c].rev])
  <2>2. result.class \in Text /\ result.methods \in [Sig -> Text]
    BY <2>1, DescribingType
  <2>3. Overlay(FreshMethods(cacheTx.imp[c], fresh), result.methods) \in [Sig -> Text]
    <3>1. cacheTx.imp[c] \in Imports
      BY DEF TypeOK, Store
    <3>2. QED
      BY <2>2, <3>1, FreshMethodsType, OverlayType
  <2>4. indexTx' \in [Class -> IndexRow] /\ Indexed' = Indexed
    BY <1>11, <2>1, <2>2, <2>3, DenormaliseType DEF DescribeDeterministically
  <2>5. cacheTx' \in Store
    BY <1>11, <2>1, CachePutType DEF DescribeDeterministically
  <2>6. /\ todo' \in SUBSET Class /\ todo' \subseteq todo
        /\ pc' \in {"describe", "commitIndex"} /\ since' \in 0 .. ProgressEvery - 1
    BY <1>11, VisitedType DEF DescribeDeterministically
  <2>7. todo \subseteq Indexed
    BY <1>11 DEF DescribeDeterministically, NeedsText
  <2>8. QED
    BY <1>11, <2>4, <2>5, <2>6, <2>7 DEF DescribeDeterministically, TypeOK
<1>12. ASSUME NEW c \in Class, NEW fresh \in BOOLEAN, AskLlm(c, fresh)
       PROVE  TypeInv'
  <2>1. HashNow(c) \in Hash
    BY <1>12, HashNowType DEF AskLlm, NeedsText
  <2>2. QED
    BY <1>12, <2>1 DEF AskLlm, NeedsText, TypeOK, Indexed
<1>13. ASSUME NEW answered \in BOOLEAN, NEW named \in SUBSET Sig, LlmReturns(answered, named) PROVE TypeInv'
  <2> DEFINE src == IF answered THEN "llm" ELSE "fallback"
             result(a) == Describing(src, a.hash, MethodsOf[indexTx[a.class].rev] \cap named)
  <2>1. PICK a \in asked :
          /\ IF Cacheable(answered) THEN CachePut(a.class, a.hash, result(a))
                                    ELSE UNCHANGED cacheTx
          /\ Denormalise(a.class, a.hash, result(a).class,
               Overlay(FreshMethods(cacheTx.imp[a.class], a.fresh), result(a).methods))
          /\ Visited(a.class)
    BY <1>13 DEF LlmReturns
  <2>2. a.class \in Class /\ a.hash \in Hash /\ a.fresh \in BOOLEAN
    BY DEF TypeOK
  <2>3. src \in {"llm", "fallback"}
    OBVIOUS
  <2> HIDE DEF src
  <2>4. result(a).class \in Text /\ result(a).methods \in [Sig -> Text]
    BY <2>2, <2>3, DescribingType
  <2>5. Overlay(FreshMethods(cacheTx.imp[a.class], a.fresh), result(a).methods)
          \in [Sig -> Text]
    <3>1. cacheTx.imp[a.class] \in Imports
      BY <2>2 DEF TypeOK, Store
    <3>2. QED
      BY <2>2, <2>4, <3>1, FreshMethodsType, OverlayType
  <2>6. indexTx' \in [Class -> IndexRow] /\ Indexed' = Indexed
    BY <2>1, <2>2, <2>4, <2>5, DenormaliseType
  <2>7. cacheTx' \in Store
    BY <2>1, <2>2, <2>3, CachePutType DEF TypeOK
  <2>8. todo' \in SUBSET Class /\ todo' \subseteq todo
        /\ pc' \in {"describe", "commitIndex"} /\ since' \in 0 .. ProgressEvery - 1
    BY <2>1, <2>2, VisitedType
  <2>9. QED
    BY <1>13, <2>6, <2>7, <2>8 DEF LlmReturns, TypeOK
<1>14. CASE FinishDescribe
  BY <1>14, ConstantsAssumption DEF FinishDescribe, TypeOK, Indexed
<1>15. ASSUME NEW cs \in SUBSET Class, StartImport(cs) PROVE TypeInv'
  BY <1>15 DEF StartImport, TypeOK
<1>16. ASSUME NEW c \in Class, NEW withClass \in BOOLEAN, NEW ms \in SUBSET Sig,
              ImportEntry(c, withClass, ms)
       PROVE  TypeInv'
  <2>1. HashNow(c) \in Hash
    BY <1>16, HashNowType DEF ImportEntry
  <2>2. WithImport(indexTx[c], HashNow(c), withClass, ms) \in IndexRow
    BY <2>1, WithImportRow DEF TypeOK
  <2>3. SetImported(cacheTx.imp[c], HashNow(c), withClass, ms) \in Imports
    BY <2>1, SetImportedType DEF TypeOK, Store
  <2>4. cacheTx' \in Store
    BY <1>16, <2>3 DEF ImportEntry, TypeOK, Store
  <2>5. QED
    BY <1>16, <2>2, <2>4 DEF ImportEntry, TypeOK
<1>17. ASSUME NEW c \in Class, ImportNothing(c) PROVE TypeInv'
  BY <1>17 DEF ImportNothing, TypeOK
<1>18. CASE FinishImport
  BY <1>18 DEF FinishImport, TypeOK
<1>19. CASE CommitIndex
  BY <1>19 DEF CommitIndex, TypeOK, Indexed
<1>20. CASE CommitCache
  BY <1>20, NothingTypes, ConstantsAssumption DEF CommitCache, Return, TypeOK, Indexed
<1>21. CASE UNCHANGED vars
  BY <1>21 DEF vars, TypeOK, Indexed
<1>22. QED
  BY <1>1, <1>2, <1>3, <1>4, <1>5, <1>6, <1>7, <1>8, <1>9, <1>10, <1>11, <1>12,
     <1>13, <1>14, <1>15, <1>16, <1>17, <1>18, <1>19, <1>20, <1>21
     DEF Next, Scan, Describe, Import

\* Every variable of the description store keeps its type.
THEOREM TypeCorrect == Spec => []TypeOK
<1>1. TypeInv => TypeOK
  BY DEF TypeInv
<1>2. QED
  BY <1>1, TypeInit, TypeStep, PTL DEF Spec
-----------------------------------------------------------------------------
(* No stale class text, imported texts win, the cache holds what it says *)

FreshRows(idx) ==
  \A c \in Class : Describes(idx[c].class) => idx[c].class.of = idx[c].classAt

Settled(idx, imp) ==
  \A c \in Class : (imp[c].class.hash # NoHash /\ imp[c].class.hash = idx[c].classAt)
    => idx[c].class = [src |-> "import", of |-> imp[c].class.hash]

\* A class row of the durable store is absent, legacy, or stamped with the
\* hash its text was imported at.
Stamped(row) ==
  \/ row = NoImportRow
  \/ row = LegacyRow
  \/ row.hash \in Hash /\ row.text = [src |-> "import", of |-> row.hash]

GeneratedOnly(gen) ==
  \A c \in Class : gen[c] # NoGenerated =>
    /\ gen[c].class = [src |-> IF gen[c].model \in LlmModel THEN "llm" ELSE "fallback",
                       of |-> gen[c].hash]
    /\ \A m \in Sig : gen[c].methods[m] \in {NoText, gen[c].class}

\* Why class c is not described from its import at hash h.
Unserved(g, h, fresh) ==
  /\ \E s \in StoredHashes(g) : fresh = IsFresh(s, h)
  /\ fresh => g.class.text = NoText

FreshInv ==
  /\ TypeInv
  /\ FreshRows(index) /\ FreshRows(indexTx)
  /\ \A c \in Class : Stamped(cache.imp[c].class) /\ Stamped(cacheTx.imp[c].class)
  /\ GeneratedOnly(cache.gen) /\ GeneratedOnly(cacheTx.gen)
  /\ Settled(index, cache.imp)
  /\ Settled(indexTx, cacheTx.imp) /\ Settled(indexTx, cache.imp)
  /\ pc \notin {"import", "commitIndex", "commitCache"} => cacheTx.imp = cache.imp
  /\ pc = "commitCache" => index = indexTx
  /\ pc = "scan" => indexTx = index /\ \A c \in Class : index[c].classAt = NoHash
  /\ pc = "reapply" => \A c \in todo \cap Indexed :
                         indexTx[c].class.src = "scan"
  /\ pc = "llm" => opts.model \in LlmModel
  /\ pc # "llm" => asked = {}
  /\ \A a \in asked : Unserved(cacheTx.imp[a.class], a.hash, a.fresh)

LEMMA HashIsNotNull == \A h \in Hash : h # NoHash
BY ConstantsAssumption

\* Settling class c at h with a text that describes h, and with the import
\* when the import is stamped h.
LEMMA SettleRow ==
  ASSUME TypeOK, FreshRows(indexTx), NEW imp, Settled(indexTx, imp),
         NEW c \in Class, NEW h \in Hash, NEW row \in IndexRow,
         indexTx' = [indexTx EXCEPT ![c] = row],
         row.classAt = h,
         Describes(row.class) => row.class.of = h,
         imp[c].class.hash = h => row.class = [src |-> "import", of |-> h]
  PROVE  FreshRows(indexTx') /\ Settled(indexTx', imp)
<1>1. \A d \in Class : indexTx'[d] = IF d = c THEN row ELSE indexTx[d]
  BY DEF TypeOK
<1>2. QED
  BY <1>1 DEF FreshRows, Settled

\* An import that serves a class at h is legacy, or is stamped h.
LEMMA ServedImport ==
  ASSUME NEW g \in Imports, NEW h \in Hash, Stamped(g.class),
         g.class.text # NoText,
         \E s \in StoredHashes(g) : IsFresh(s, h)
  PROVE  \/ g.class = LegacyRow
         \/ g.class.hash = h /\ g.class.text = [src |-> "import", of |-> h]
<1>1. CASE g.class = NoImportRow
  BY <1>1 DEF NoImportRow
<1>2. CASE g.class.hash \in Hash
  BY <1>2, HashIsNotNull DEF Stamped, StoredHashes, IsFresh, NoImportRow, LegacyRow
<1>3. QED
  BY <1>1, <1>2 DEF Stamped

\* An import that does not serve a class at h is not stamped h.
LEMMA UnservedImport ==
  ASSUME NEW g \in Imports, NEW h \in Hash, NEW fresh \in BOOLEAN,
         Stamped(g.class), Unserved(g, h, fresh)
  PROVE  g.class.hash # h
<1>1. CASE g.class.hash \notin Hash
  BY <1>1
<1>2. CASE g.class.hash \in Hash
  <2>1. g.class.text # NoText
    BY <1>2, HashIsNotNull DEF Stamped, NoImportRow, LegacyRow, NoText
  <2>2. StoredHashes(g) = {g.class.hash}
    BY <1>2, HashIsNotNull DEF StoredHashes
  <2>3. ~IsFresh(g.class.hash, h)
    BY <2>1, <2>2 DEF Unserved
  <2>4. QED
    BY <2>3 DEF IsFresh
<1>3. QED
  BY <1>1, <1>2

\* The texts of a generated result are the class text or nothing.
LEMMA DescribingTexts ==
  ASSUME NEW src, NEW h, NEW ms, NEW m \in Sig
  PROVE  Describing(src, h, ms).methods[m] \in {NoText, Describing(src, h, ms).class}
BY DEF Describing

\* Caching a result under the model it came from keeps the cache honest.
LEMMA CachePutGenerated ==
  ASSUME TypeOK, GeneratedOnly(cacheTx.gen), NEW c \in Class, NEW h \in Hash, NEW ms,
         NEW src \in {"fallback", "llm"},
         src = IF opts.model \in LlmModel THEN "llm" ELSE "fallback",
         CachePut(c, h, Describing(src, h, ms))
  PROVE  GeneratedOnly(cacheTx'.gen) /\ cacheTx'.imp = cacheTx.imp
<1> DEFINE new == [hash |-> h, model |-> opts.model,
                   class |-> Describing(src, h, ms).class,
                   methods |-> Describing(src, h, ms).methods]
<1>1. cacheTx'.gen = [cacheTx.gen EXCEPT ![c] = new] /\ cacheTx'.imp = cacheTx.imp
  BY DEF CachePut, TypeOK, Store
<1>2. new.class = [src |-> src, of |-> new.hash] /\ new.model = opts.model
  BY DescribingType
<1>3. \A m \in Sig : new.methods[m] \in {NoText, new.class}
  BY DescribingTexts
<1> HIDE DEF new
<1>4. \A d \in Class : cacheTx'.gen[d] = IF d = c THEN new ELSE cacheTx.gen[d]
  BY <1>1 DEF TypeOK, Store
<1>5. QED
  BY <1>1, <1>2, <1>3, <1>4 DEF GeneratedOnly

LEMMA FreshInit == Init => FreshInv
<1> SUFFICES ASSUME Init PROVE FreshInv
  OBVIOUS
<1>1. TypeInv
  BY TypeInit
<1>2. FreshRows(index) /\ FreshRows(indexTx)
  BY DEF Init, FreshRows, NoRow, NoText, Describes
<1>3. \A c \in Class : Stamped(cache.imp[c].class)
  <2>1. NoImports.class = NoImportRow
        /\ [NoImports EXCEPT !.class = LegacyRow].class = LegacyRow
    BY DEF NoImports
  <2>2. PICK legacy \in SUBSET Class :
          cache.imp = [c \in Class |-> IF c \in legacy
                         THEN [NoImports EXCEPT !.class = LegacyRow] ELSE NoImports]
    BY DEF Init
  <2>3. QED
    BY <2>1, <2>2 DEF Stamped
<1>4. GeneratedOnly(cache.gen)
  BY DEF Init, GeneratedOnly
<1>5. \A imp : Settled(index, imp)
  BY DEF Init, Settled, NoRow
<1>6. QED
  BY <1>1, <1>2, <1>3, <1>4, <1>5 DEF Init, FreshInv

\* describe settles class c at h, in the index or in the index and the cache.
LEMMA DescribeStep ==
  ASSUME FreshInv, TypeInv',
         NEW c \in Class, NEW h \in Hash, NEW class \in Text,
         NEW methods \in [Sig -> Text],
         Denormalise(c, h, class, methods),
         Describes(class) => class.of = h,
         cacheTx.imp[c].class.hash = h => class = [src |-> "import", of |-> h],
         cacheTx'.imp = cacheTx.imp, GeneratedOnly(cacheTx'.gen),
         UNCHANGED <<index, cache, opts>>, asked' = {},
         pc \in {"describe", "llm"}, pc' \in {"describe", "commitIndex"}
  PROVE  FreshInv'
<1> DEFINE row == Described(indexTx[c], h, class, methods)
<1>1. row \in IndexRow /\ row.class = class /\ row.classAt = h
  BY DescribedRow DEF FreshInv, TypeInv, TypeOK
<1>2. indexTx' = [indexTx EXCEPT ![c] = row]
  BY DEF Denormalise
<1>3. cacheTx.imp = cache.imp
  BY DEF FreshInv
<1> HIDE DEF row
<1>4. FreshRows(indexTx') /\ Settled(indexTx', cacheTx.imp)
  BY <1>1, <1>2, SettleRow DEF FreshInv, TypeInv
<1>5. QED
  BY <1>3, <1>4 DEF FreshInv

\* A class that describe cannot serve from its import is not stamped h.
LEMMA NotStamped ==
  ASSUME FreshInv, NEW c \in Class, NEW h \in Hash, NEW fresh \in BOOLEAN,
         Unserved(cacheTx.imp[c], h, fresh)
  PROVE  cacheTx.imp[c].class.hash # h
BY UnservedImport DEF FreshInv, TypeInv, TypeOK, Store

LEMMA FreshStep == FreshInv /\ [Next]_vars => FreshInv'
<1> SUFFICES ASSUME FreshInv, [Next]_vars PROVE FreshInv'
  OBVIOUS
<1>0. TypeInv /\ TypeInv'
  BY TypeStep DEF FreshInv
<1>1. ASSUME NEW c \in Class, Edit(c) PROVE FreshInv'
  BY <1>0, <1>1 DEF Edit, files, FreshInv, Indexed
<1>2. CASE Crash
  BY <1>0, <1>2 DEF Crash, Return, FreshInv
<1>3. CASE StartScan
  <2>1. \A c \in Class : index'[c] = NoRow /\ indexTx'[c] = NoRow
    BY <1>3 DEF StartScan
  <2>2. FreshRows(index') /\ FreshRows(indexTx')
        /\ \A imp : Settled(index', imp) /\ Settled(indexTx', imp)
    BY <2>1 DEF FreshRows, Settled, NoRow, NoText, Describes
  <2>3. QED
    BY <1>0, <1>3, <2>1, <2>2 DEF StartScan, FreshInv, NoRow
<1>4. ASSUME NEW c \in Class, ScanFile(c) PROVE FreshInv'
  <2>1. \A d \in Class : index'[d].class = index[d].class
                         /\ index'[d].classAt = index[d].classAt
    BY <1>0, <1>4 DEF ScanFile, TypeInv, TypeOK, IndexRow
  <2>2. FreshRows(index') /\ \A imp : Settled(index, imp) => Settled(index', imp)
    BY <2>1 DEF FreshInv, FreshRows, Settled
  <2>3. QED
    BY <1>0, <1>4, <2>1, <2>2 DEF ScanFile, FreshInv
<1>5. CASE SummariseClasses
  <2>1. \A c \in Class : /\ index'[c].classAt = NoHash
                         /\ index'[c].rev = index[c].rev
                         /\ index'[c].class = IF index[c].rev = Gone THEN index[c].class
                              ELSE [src |-> "scan", of |-> NoHash]
    BY <1>0, <1>5 DEF SummariseClasses, FreshInv, TypeInv, TypeOK, IndexRow
  <2>2. FreshRows(index') /\ \A imp : Settled(index', imp)
    BY <1>5, <2>1 DEF SummariseClasses, FreshInv, FreshRows, Settled, Describes
  <2>3. \A c \in Indexed' : index'[c].class.src = "scan"
    BY <1>5, <2>1 DEF SummariseClasses, Indexed
  <2>4. QED
    BY <1>0, <1>5, <2>2, <2>3 DEF SummariseClasses, FreshInv, Indexed
<1>6. ASSUME NEW c \in Class, ReapplyClass(c) PROVE FreshInv'
  <2>1. CASE c \notin Indexed
    BY <1>0, <1>6, <2>1 DEF ReapplyClass, FreshInv, Indexed
  <2>2. CASE c \in Indexed
    <3> DEFINE g == cacheTx.imp[c]
               h == HashNow(c)
    <3>1. h \in Hash /\ indexTx[c] \in IndexRow /\ g \in Imports
      BY <1>0, <2>2, HashNowType DEF TypeInv, TypeOK, Store
    <3>2. indexTx[c].class.src = "scan" /\ cacheTx.imp = cache.imp /\ Stamped(g.class)
      BY <1>6, <2>2 DEF ReapplyClass, FreshInv
    <3> HIDE DEF h
    <3>3. PICK s \in StoredHashes(g) :
            indexTx' = IF IsFresh(s, h)
              THEN [indexTx EXCEPT ![c] = Restored(indexTx[c], g, h)]
              ELSE [indexTx EXCEPT ![c] = [indexTx[c] EXCEPT !.classAt = h]]
      BY <1>6, <2>2 DEF ReapplyClass, h
    <3> HIDE DEF g
    <3>4. \E row \in IndexRow :
            /\ indexTx' = [indexTx EXCEPT ![c] = row]
            /\ row.classAt = h
            /\ Describes(row.class) => row.class.of = h
            /\ g.class.hash = h => row.class = [src |-> "import", of |-> h]
      <4>1. CASE IsFresh(s, h) /\ g.class.text # NoText
        <5>1. Restored(indexTx[c], g, h) \in IndexRow
              /\ Restored(indexTx[c], g, h).classAt = h
              /\ Restored(indexTx[c], g, h).class = g.class.text
          BY <3>1, <4>1, RestoredRow
        <5>2. \/ g.class = LegacyRow
              \/ g.class.hash = h /\ g.class.text = [src |-> "import", of |-> h]
          BY <3>1, <3>2, <3>3, <4>1, ServedImport
        <5>3. LegacyRow.hash # h /\ ~Describes(LegacyRow.text)
          BY <3>1, HashIsNotNull DEF LegacyRow, Describes
        <5>4. /\ Describes(g.class.text) => g.class.text.of = h
              /\ g.class.hash = h => g.class.text = [src |-> "import", of |-> h]
          BY <5>2, <5>3
        <5>5. indexTx' = [indexTx EXCEPT ![c] = Restored(indexTx[c], g, h)]
          BY <3>3, <4>1
        <5>6. QED
          BY <5>1, <5>4, <5>5
      <4>2. CASE IsFresh(s, h) /\ g.class.text = NoText
        <5>1. Restored(indexTx[c], g, h) \in IndexRow
              /\ Restored(indexTx[c], g, h).classAt = h
              /\ Restored(indexTx[c], g, h).class = indexTx[c].class
          BY <3>1, <4>2, RestoredRow
        <5>2. Unserved(g, h, TRUE)
          BY <3>3, <4>2 DEF Unserved
        <5>3. g.class.hash # h
          BY <3>1, <3>2, <5>2, UnservedImport
        <5>4. QED
          BY <3>2, <3>3, <4>2, <5>1, <5>3 DEF Describes
      <4>3. CASE ~IsFresh(s, h)
        <5>1. [indexTx[c] EXCEPT !.classAt = h] \in IndexRow
              /\ [indexTx[c] EXCEPT !.classAt = h].classAt = h
              /\ [indexTx[c] EXCEPT !.classAt = h].class = indexTx[c].class
          BY <3>1 DEF IndexRow
        <5>2. Unserved(g, h, FALSE)
          BY <3>3, <4>3 DEF Unserved
        <5>3. g.class.hash # h
          BY <3>1, <3>2, <5>2, UnservedImport
        <5>4. QED
          BY <3>2, <3>3, <4>3, <5>1, <5>3 DEF Describes
      <4>4. QED
        BY <4>1, <4>2, <4>3
    <3>5. PICK row \in IndexRow :
            /\ indexTx' = [indexTx EXCEPT ![c] = row]
            /\ row.classAt = h
            /\ Describes(row.class) => row.class.of = h
            /\ g.class.hash = h => row.class = [src |-> "import", of |-> h]
      BY <3>4
    <3>6. FreshRows(indexTx') /\ Settled(indexTx', cacheTx.imp)
      BY <1>0, <3>1, <3>5, SettleRow DEF FreshInv, TypeInv, g
    <3>7. \A d \in todo' \cap Indexed' : indexTx'[d].class.src = "scan"
      BY <1>0, <1>6, <3>5 DEF ReapplyClass, FreshInv, Indexed, TypeInv, TypeOK
    <3>8. QED
      BY <1>0, <1>6, <3>2, <3>6, <3>7 DEF ReapplyClass, FreshInv
  <2>3. QED
    BY <2>1, <2>2
<1>7. CASE FinishReapply
  BY <1>0, <1>7 DEF FinishReapply, Return, FreshInv
<1>8. ASSUME NEW model \in Model, NEW force \in BOOLEAN, StartDescribe(model, force)
      PROVE  FreshInv'
  BY <1>0, <1>8 DEF StartDescribe, files, FreshInv
<1>9. ASSUME NEW c \in Class, DescribeFromImport(c) PROVE FreshInv'
  <2> DEFINE g == cacheTx.imp[c]
             h == HashNow(c)
  <2>1. h \in Hash /\ g \in Imports /\ Stamped(g.class)
    BY <1>0, <1>9, HashNowType DEF DescribeFromImport, FreshInv, TypeInv, TypeOK, Store
  <2>2. g.class.text # NoText /\ \E s \in StoredHashes(g) : IsFresh(s, h)
    BY <1>9 DEF DescribeFromImport
  <2>3. \/ g.class = LegacyRow
        \/ g.class.hash = h /\ g.class.text = [src |-> "import", of |-> h]
    BY <2>1, <2>2, ServedImport
  <2>4. /\ Describes(g.class.text) => g.class.text.of = h
        /\ g.class.hash = h => g.class.text = [src |-> "import", of |-> h]
    BY <2>1, <2>3, HashIsNotNull DEF LegacyRow, Describes
  <2>5. g.class.text \in Text /\ FreshMethods(g, TRUE) \in [Sig -> Text]
    BY <2>1, FreshMethodsType DEF Imports, ImportRow
  <2>6. /\ Denormalise(c, h, g.class.text, FreshMethods(g, TRUE))
        /\ pc = "describe" /\ Visited(c)
        /\ UNCHANGED <<index, cache, cacheTx, asked, opts>>
    BY <1>9 DEF DescribeFromImport
  <2>7. pc' \in {"describe", "commitIndex"} /\ asked' = {} /\ GeneratedOnly(cacheTx'.gen)
    BY <2>6 DEF Visited, FreshInv
  <2> HIDE DEF g, h
  <2>8. QED
    BY <1>0, <2>1, <2>4, <2>5, <2>6, <2>7, DescribeStep DEF g
<1>10. ASSUME NEW c \in Class, NEW fresh \in BOOLEAN, DescribeFromCache(c, fresh)
       PROVE  FreshInv'
  <2> DEFINE hit == cacheTx.gen[c]
             h == HashNow(c)
             methods == Overlay(FreshMethods(cacheTx.imp[c], fresh), hit.methods)
  <2>1. h \in Hash
    BY <1>0, <1>10, HashNowType DEF DescribeFromCache, NeedsText, TypeInv
  <2>2. hit \in Generated /\ cacheTx.imp[c] \in Imports
    BY <1>0 DEF TypeInv, TypeOK, Store
  <2>3. hit.class \in Text /\ methods \in [Sig -> Text]
    BY <2>2, FreshMethodsType, OverlayType DEF Generated
  <2>4. /\ Denormalise(c, h, hit.class, methods) /\ hit.hash = h
        /\ Unserved(cacheTx.imp[c], h, fresh)
        /\ pc = "describe" /\ Visited(c)
        /\ UNCHANGED <<index, cache, cacheTx, asked, opts>>
    BY <1>10 DEF DescribeFromCache, NeedsText, CacheHit, Unserved
  <2>5. hit.class.of = h
    <3>1. hit # NoGenerated
      BY <2>1, <2>4, HashIsNotNull DEF NoGenerated
    <3>2. hit.class = [src |-> IF hit.model \in LlmModel THEN "llm" ELSE "fallback",
                       of |-> hit.hash]
      BY <3>1 DEF FreshInv, GeneratedOnly
    <3>3. QED
      BY <2>4, <3>2
  <2> HIDE DEF hit, h, methods
  <2>6. cacheTx.imp[c].class.hash # h
    BY <2>1, <2>4, NotStamped
  <2>7. pc' \in {"describe", "commitIndex"} /\ asked' = {} /\ GeneratedOnly(cacheTx'.gen)
    BY <2>4 DEF Visited, FreshInv
  <2>8. QED
    BY <1>0, <2>1, <2>3, <2>4, <2>5, <2>6, <2>7, DescribeStep
<1>11. ASSUME NEW c \in Class, NEW fresh \in BOOLEAN, DescribeDeterministically(c, fresh)
       PROVE  FreshInv'
  <2> DEFINE h == HashNow(c)
             result == Describing("fallback", h, MethodsOf[indexTx[c].rev])
             methods == Overlay(FreshMethods(cacheTx.imp[c], fresh), result.methods)
  <2>1. h \in Hash /\ cacheTx.imp[c] \in Imports
    BY <1>0, <1>11, HashNowType
       DEF DescribeDeterministically, NeedsText, TypeInv, TypeOK, Store
  <2>2. result.class = [src |-> "fallback", of |-> h] /\ result.class \in Text
        /\ methods \in [Sig -> Text]
    BY <2>1, DescribingType, FreshMethodsType, OverlayType
  <2>3. /\ Denormalise(c, h, result.class, methods) /\ CachePut(c, h, result)
        /\ Unserved(cacheTx.imp[c], h, fresh) /\ opts.model \notin LlmModel
        /\ pc = "describe" /\ Visited(c)
        /\ UNCHANGED <<index, cache, asked, opts>>
    BY <1>11 DEF DescribeDeterministically, NeedsText, Unserved
  <2>4. GeneratedOnly(cacheTx'.gen) /\ cacheTx'.imp = cacheTx.imp
    BY <1>0, <2>1, <2>3, CachePutGenerated DEF FreshInv, TypeInv
  <2> HIDE DEF h, result, methods
  <2>5. cacheTx.imp[c].class.hash # h
    BY <2>1, <2>3, NotStamped
  <2>6. pc' \in {"describe", "commitIndex"} /\ asked' = {}
    BY <2>3 DEF Visited, FreshInv
  <2>7. QED
    BY <1>0, <2>1, <2>2, <2>3, <2>4, <2>5, <2>6, DescribeStep
<1>12. ASSUME NEW c \in Class, NEW fresh \in BOOLEAN, AskLlm(c, fresh)
       PROVE  FreshInv'
  <2>1. Unserved(cacheTx.imp[c], HashNow(c), fresh)
    BY <1>12 DEF AskLlm, NeedsText, Unserved
  <2>2. \A a \in asked' : Unserved(cacheTx.imp[a.class], a.hash, a.fresh)
    BY <1>12, <2>1 DEF AskLlm
  <2>3. QED
    BY <1>0, <1>12, <2>2 DEF AskLlm, NeedsText, files, FreshInv
<1>13. ASSUME NEW answered \in BOOLEAN, NEW named \in SUBSET Sig, LlmReturns(answered, named) PROVE FreshInv'
  <2> DEFINE src == IF answered THEN "llm" ELSE "fallback"
             result(a) == Describing(src, a.hash, MethodsOf[indexTx[a.class].rev] \cap named)
             methods(a) == Overlay(FreshMethods(cacheTx.imp[a.class], a.fresh),
                                   result(a).methods)
  <2>1. PICK a \in asked :
          /\ IF Cacheable(answered) THEN CachePut(a.class, a.hash, result(a))
                                    ELSE UNCHANGED cacheTx
          /\ Denormalise(a.class, a.hash, result(a).class, methods(a))
          /\ Visited(a.class)
    BY <1>13 DEF LlmReturns
  <2>2. /\ a.class \in Class /\ a.hash \in Hash /\ a.fresh \in BOOLEAN
        /\ cacheTx.imp[a.class] \in Imports
    BY <1>0 DEF TypeInv, TypeOK, Store
  <2>3. src \in {"llm", "fallback"}
    OBVIOUS
  <2>4. result(a).class = [src |-> src, of |-> a.hash] /\ result(a).class \in Text
        /\ methods(a) \in [Sig -> Text]
    BY <2>2, <2>3, DescribingType, FreshMethodsType, OverlayType
  <2>5. cacheTx.imp[a.class].class.hash # a.hash
    BY <2>2, NotStamped DEF FreshInv
  <2>6. GeneratedOnly(cacheTx'.gen) /\ cacheTx'.imp = cacheTx.imp
    <3>1. CASE answered
      <4>1. CachePut(a.class, a.hash, Describing("llm", a.hash, MethodsOf[indexTx[a.class].rev] \cap named))
        BY <2>1, <3>1 DEF Cacheable
      <4>2. opts.model \in LlmModel
        BY <1>13 DEF LlmReturns, FreshInv
      <4>3. QED
        BY <1>0, <2>2, <4>1, <4>2, CachePutGenerated DEF FreshInv, TypeInv
    <3>2. CASE ~answered
      BY <2>1, <3>2 DEF Cacheable, FreshInv
    <3>3. QED
      BY <3>1, <3>2
  <2>7. /\ pc = "llm" /\ pc' \in {"describe", "commitIndex"} /\ asked' = {}
        /\ UNCHANGED <<index, cache, opts>>
    BY <1>13, <2>1 DEF LlmReturns, Visited
  <2> HIDE DEF src, result, methods
  <2>8. QED
    BY <1>0, <2>1, <2>2, <2>4, <2>5, <2>6, <2>7, DescribeStep
<1>14. CASE FinishDescribe
  BY <1>0, <1>14 DEF FinishDescribe, files, FreshInv
<1>15. ASSUME NEW cs \in SUBSET Class, StartImport(cs) PROVE FreshInv'
  BY <1>0, <1>15 DEF StartImport, files, FreshInv
<1>16. ASSUME NEW c \in Class, NEW withClass \in BOOLEAN, NEW ms \in SUBSET Sig,
              ImportEntry(c, withClass, ms)
       PROVE  FreshInv'
  <2> DEFINE h == HashNow(c)
             row == WithImport(indexTx[c], h, withClass, ms)
             g == SetImported(cacheTx.imp[c], h, withClass, ms)
  <2>1. h \in Hash /\ indexTx[c] \in IndexRow /\ cacheTx.imp[c] \in Imports
    BY <1>0, <1>16, HashNowType DEF ImportEntry, TypeInv, TypeOK, Store
  <2> HIDE DEF h
  <2>2. /\ row \in IndexRow
        /\ withClass => row.class = [src |-> "import", of |-> h] /\ row.classAt = h
        /\ ~withClass => row.class = indexTx[c].class /\ row.classAt = indexTx[c].classAt
    BY <2>1, WithImportRow
  <2>3. /\ withClass => g.class = [text |-> [src |-> "import", of |-> h], hash |-> h]
        /\ ~withClass => g.class = cacheTx.imp[c].class
    BY <2>1, SetImportedType
  <2>4. /\ indexTx' = [indexTx EXCEPT ![c] = row]
        /\ cacheTx'.imp = [cacheTx.imp EXCEPT ![c] = g]
        /\ cacheTx'.gen = cacheTx.gen
    BY <1>0, <1>16 DEF ImportEntry, TypeInv, TypeOK, Store, h
  <2> HIDE DEF row, g
  <2>5. /\ \A d \in Class : indexTx'[d] = IF d = c THEN row ELSE indexTx[d]
        /\ \A d \in Class : cacheTx'.imp[d] = IF d = c THEN g ELSE cacheTx.imp[d]
    BY <1>0, <2>4 DEF TypeInv, TypeOK, Store
  <2>6. FreshRows(indexTx')
    BY <2>2, <2>5 DEF FreshInv, FreshRows
  <2>7. Settled(indexTx', cacheTx'.imp) /\ Settled(indexTx', cache.imp)
    BY <2>2, <2>3, <2>5 DEF FreshInv, Settled
  <2>8. \A d \in Class : Stamped(cacheTx'.imp[d].class)
    <3>1. CASE withClass
      <4>1. g.class.hash = h /\ g.class.text = [src |-> "import", of |-> h]
        BY <2>3, <3>1
      <4>2. Stamped(g.class)
        BY <2>1, <4>1 DEF Stamped
      <4>3. QED
        BY <2>5, <4>2 DEF FreshInv
    <3>2. CASE ~withClass
      BY <2>3, <2>5, <3>2 DEF FreshInv
    <3>3. QED
      BY <3>1, <3>2
  <2>9. QED
    BY <1>0, <1>16, <2>4, <2>6, <2>7, <2>8 DEF ImportEntry, FreshInv
<1>17. ASSUME NEW c \in Class, ImportNothing(c) PROVE FreshInv'
  BY <1>0, <1>17 DEF ImportNothing, files, FreshInv
<1>18. CASE FinishImport
  BY <1>0, <1>18 DEF FinishImport, files, FreshInv
<1>19. CASE CommitIndex
  BY <1>0, <1>19 DEF CommitIndex, FreshInv
<1>20. CASE CommitCache
  BY <1>0, <1>20 DEF CommitCache, Return, FreshInv
<1>21. CASE UNCHANGED vars
  BY <1>0, <1>21 DEF vars, FreshInv, Indexed
<1>22. QED
  BY <1>1, <1>2, <1>3, <1>4, <1>5, <1>6, <1>7, <1>8, <1>9, <1>10, <1>11, <1>12,
     <1>13, <1>14, <1>15, <1>16, <1>17, <1>18, <1>19, <1>20, <1>21
     DEF Next, Scan, Describe, Import

LEMMA FreshCorrect == Spec => []FreshInv
BY FreshInit, FreshStep, PTL DEF Spec

\* No text produced for one structure of a class is ever served for another.
THEOREM ServedClassTextIsFresh == Spec => []NoStaleClassText
<1>1. FreshInv => NoStaleClassText
  BY DEF FreshInv, FreshRows, NoStaleClassText
<1>2. QED
  BY <1>1, FreshCorrect, PTL

\* A durable import stamped with the structure last seen is what is served.
THEOREM FreshImportIsServed == Spec => []ImportedClassWins
<1>1. FreshInv => ImportedClassWins
  BY DEF FreshInv, Settled, ImportedClassWins
<1>2. QED
  BY <1>1, FreshCorrect, PTL

\* The description cache never holds a failed call's fallback nor an import.
THEOREM CacheIsGenerated == Spec => []CacheHoldsGenerated
<1>1. FreshInv => CacheHoldsGenerated
  BY DEF FreshInv, GeneratedOnly, CacheHoldsGenerated
<1>2. QED
  BY <1>1, FreshCorrect, PTL

-----------------------------------------------------------------------------
(* What a step does to the rows *)

\* A step that writes nothing, and neither enters nor leaves a scan or the
\* point between the two commits.
Quiet ==
  /\ UNCHANGED files
  /\ \/ pc' = pc
     \/ {pc, pc'} \cap {"scan", "reapply", "commitCache"} = {}

\* describe settles class c at h: with its import, which then holds for h, or
\* with a generated text, when the import has no class text that does.
Settles(c, h, class, methods) ==
  LET g == cacheTx.imp[c] IN
  /\ pc \in {"describe", "llm"} /\ pc' \in {"describe", "commitIndex"}
  /\ UNCHANGED <<index, cache>> /\ cacheTx'.imp = cacheTx.imp
  /\ Denormalise(c, h, class, methods)
  /\ \/ /\ c \in Indexed /\ h = HashNow(c)
        /\ g.class.text # NoText /\ \E s \in StoredHashes(g) : IsFresh(s, h)
        /\ class = g.class.text /\ methods = FreshMethods(g, TRUE)
     \/ /\ class.src \in {"llm", "fallback"}
        /\ \E fresh \in BOOLEAN :
             /\ Unserved(g, h, fresh)
             /\ \A m \in Sig : methods[m] \in {FreshMethods(g, fresh)[m], class, NoText}

\* What an overlay of method texts can serve.
LEMMA OverlayTexts ==
  ASSUME NEW over, NEW under, NEW m \in Sig, NEW class,
         under[m] \in {NoText, class}
  PROVE  Overlay(over, under)[m] \in {over[m], class, NoText}
BY DEF Overlay

LEMMA ImportSettles ==
  ASSUME FreshInv, NEW c \in Class, DescribeFromImport(c)
  PROVE  \E h \in Hash, class \in Text, methods \in [Sig -> Text] :
           Settles(c, h, class, methods)
<1> DEFINE g == cacheTx.imp[c]
           h == HashNow(c)
<1>1. h \in Hash /\ g \in Imports
  BY HashNowType DEF DescribeFromImport, FreshInv, TypeInv, TypeOK, Store
<1>2. g.class.text \in Text /\ FreshMethods(g, TRUE) \in [Sig -> Text]
  BY <1>1, FreshMethodsType DEF Imports, ImportRow
<1>3. pc = "describe" /\ pc' \in {"describe", "commitIndex"} /\ c \in Indexed
  BY DEF DescribeFromImport, Visited, FreshInv, TypeInv
<1>4. Settles(c, h, g.class.text, FreshMethods(g, TRUE))
  BY <1>3 DEF DescribeFromImport, Settles
<1>5. QED
  BY <1>1, <1>2, <1>4

LEMMA CacheSettles ==
  ASSUME FreshInv, NEW c \in Class, NEW fresh \in BOOLEAN, DescribeFromCache(c, fresh)
  PROVE  \E h \in Hash, class \in Text, methods \in [Sig -> Text] :
           Settles(c, h, class, methods)
<1> DEFINE g == cacheTx.imp[c]
           h == HashNow(c)
           hit == cacheTx.gen[c]
           methods == Overlay(FreshMethods(g, fresh), hit.methods)
<1>1. h \in Hash /\ g \in Imports /\ hit \in Generated
  BY HashNowType DEF DescribeFromCache, NeedsText, FreshInv, TypeInv, TypeOK, Store
<1>2. hit.class \in Text /\ methods \in [Sig -> Text]
  BY <1>1, FreshMethodsType, OverlayType DEF Generated
<1>3. /\ pc = "describe" /\ pc' \in {"describe", "commitIndex"}
      /\ UNCHANGED <<index, cache, cacheTx>> /\ hit.hash = h
      /\ Denormalise(c, h, hit.class, methods) /\ Unserved(g, h, fresh)
  BY DEF DescribeFromCache, NeedsText, Visited, CacheHit, Unserved
<1>4. /\ hit.class.src \in {"llm", "fallback"}
      /\ \A m \in Sig : hit.methods[m] \in {NoText, hit.class}
  <2>1. hit # NoGenerated
    BY <1>1, <1>3, HashIsNotNull DEF NoGenerated
  <2>2. /\ hit.class = [src |-> IF hit.model \in LlmModel THEN "llm" ELSE "fallback",
                         of |-> hit.hash]
        /\ \A m \in Sig : hit.methods[m] \in {NoText, hit.class}
    BY <2>1 DEF FreshInv, GeneratedOnly
  <2> HIDE DEF hit
  <2>3. QED
    BY <2>2
<1>5. \A m \in Sig : methods[m] \in {FreshMethods(g, fresh)[m], hit.class, NoText}
  BY <1>4, OverlayTexts
<1> HIDE DEF h, hit, methods
<1>6. Settles(c, h, hit.class, methods)
  BY <1>3, <1>4, <1>5 DEF Settles
<1>7. QED
  BY <1>1, <1>2, <1>6

LEMMA FallbackSettles ==
  ASSUME FreshInv, NEW c \in Class, NEW fresh \in BOOLEAN,
         DescribeDeterministically(c, fresh)
  PROVE  \E h \in Hash, class \in Text, methods \in [Sig -> Text] :
           Settles(c, h, class, methods)
<1> DEFINE g == cacheTx.imp[c]
           h == HashNow(c)
           result == Describing("fallback", h, MethodsOf[indexTx[c].rev])
           methods == Overlay(FreshMethods(g, fresh), result.methods)
<1>1. h \in Hash /\ g \in Imports
  BY HashNowType DEF DescribeDeterministically, NeedsText, FreshInv, TypeInv, TypeOK, Store
<1>2. result.class = [src |-> "fallback", of |-> h] /\ result.class \in Text
      /\ methods \in [Sig -> Text]
  BY <1>1, DescribingType, FreshMethodsType, OverlayType
<1>3. /\ pc = "describe" /\ pc' \in {"describe", "commitIndex"}
      /\ UNCHANGED <<index, cache>> /\ CachePut(c, h, result)
      /\ Denormalise(c, h, result.class, methods) /\ Unserved(g, h, fresh)
  BY DEF DescribeDeterministically, NeedsText, Visited, Unserved
<1>4. cacheTx'.imp = cacheTx.imp
  BY <1>3 DEF CachePut, FreshInv, TypeInv, TypeOK, Store
<1>5. \A m \in Sig : result.methods[m] \in {NoText, result.class}
  BY DescribingTexts
<1>6. \A m \in Sig : methods[m] \in {FreshMethods(g, fresh)[m], result.class, NoText}
  BY <1>5, OverlayTexts
<1>7. result.class.src \in {"llm", "fallback"}
  BY <1>2
<1> HIDE DEF h, result, methods
<1>8. Settles(c, h, result.class, methods)
  BY <1>3, <1>4, <1>6, <1>7 DEF Settles
<1>9. QED
  BY <1>1, <1>2, <1>8

LEMMA AnswerSettles ==
  ASSUME FreshInv, NEW answered \in BOOLEAN, NEW named \in SUBSET Sig, LlmReturns(answered, named)
  PROVE  \E c \in Class, h \in Hash, class \in Text, methods \in [Sig -> Text] :
           Settles(c, h, class, methods)
<1> DEFINE src == IF answered THEN "llm" ELSE "fallback"
           result(a) == Describing(src, a.hash, MethodsOf[indexTx[a.class].rev] \cap named)
           methods(a) == Overlay(FreshMethods(cacheTx.imp[a.class], a.fresh),
                                 result(a).methods)
<1>1. PICK a \in asked :
        /\ IF Cacheable(answered) THEN CachePut(a.class, a.hash, result(a))
                                  ELSE UNCHANGED cacheTx
        /\ Denormalise(a.class, a.hash, result(a).class, methods(a))
        /\ Visited(a.class)
  BY DEF LlmReturns
<1>2. /\ a.class \in Class /\ a.hash \in Hash /\ a.fresh \in BOOLEAN
      /\ cacheTx.imp[a.class] \in Imports
      /\ Unserved(cacheTx.imp[a.class], a.hash, a.fresh)
  BY DEF FreshInv, TypeInv, TypeOK, Store
<1>3. src \in {"llm", "fallback"}
  OBVIOUS
<1>4. result(a).class = [src |-> src, of |-> a.hash] /\ result(a).class \in Text
      /\ methods(a) \in [Sig -> Text]
  BY <1>2, <1>3, DescribingType, FreshMethodsType, OverlayType
<1>5. cacheTx'.imp = cacheTx.imp
  BY <1>1 DEF CachePut, FreshInv, TypeInv, TypeOK, Store
<1>6. \A m \in Sig : result(a).methods[m] \in {NoText, result(a).class}
  BY DescribingTexts
<1>7. \A m \in Sig : methods(a)[m] \in
        {FreshMethods(cacheTx.imp[a.class], a.fresh)[m], result(a).class, NoText}
  BY <1>6, OverlayTexts
<1>8. /\ pc = "llm" /\ pc' \in {"describe", "commitIndex"} /\ UNCHANGED <<index, cache>>
  BY <1>1 DEF LlmReturns, Visited
<1>9. Denormalise(a.class, a.hash, result(a).class, methods(a))
  BY <1>1
<1> HIDE DEF src
<1>10. result(a).class.src \in {"llm", "fallback"}
  BY <1>3, <1>4
<1> HIDE DEF result, methods
<1>11. Settles(a.class, a.hash, result(a).class, methods(a))
  BY <1>2, <1>5, <1>7, <1>8, <1>9, <1>10 DEF Settles
<1>12. QED
  BY <1>2, <1>4, <1>11

\* The steps that write, and how.
LEMMA RowSteps ==
  ASSUME FreshInv, [Next]_vars
  PROVE  \/ Quiet \/ Crash \/ StartScan \/ SummariseClasses \/ FinishReapply
         \/ CommitIndex \/ CommitCache
         \/ \E c \in Class : ScanFile(c) \/ ReapplyClass(c)
         \/ \E c \in Class, h \in Hash, class \in Text, methods \in [Sig -> Text] :
              Settles(c, h, class, methods)
         \/ \E c \in Class, withClass \in BOOLEAN, ms \in SUBSET Sig :
              ImportEntry(c, withClass, ms)
<1>1. CASE \E c \in Class : Edit(c)
  BY <1>1 DEF Edit, Quiet
<1>2. CASE Scan
  BY <1>2 DEF Scan
<1>3. CASE Describe
  <2>1. CASE \E c \in Class : DescribeFromImport(c)
    BY <2>1, ImportSettles
  <2>2. CASE \E c \in Class, fresh \in BOOLEAN : DescribeFromCache(c, fresh)
    BY <2>2, CacheSettles
  <2>3. CASE \E c \in Class, fresh \in BOOLEAN : DescribeDeterministically(c, fresh)
    BY <2>3, FallbackSettles
  <2>4. CASE \E answered \in BOOLEAN, named \in SUBSET Sig : LlmReturns(answered, named)
    BY <2>4, AnswerSettles
  <2>5. CASE \/ \E model \in Model, force \in BOOLEAN : StartDescribe(model, force)
             \/ \E c \in Class, fresh \in BOOLEAN : AskLlm(c, fresh)
             \/ FinishDescribe
    BY <2>5 DEF StartDescribe, AskLlm, NeedsText, FinishDescribe, Quiet
  <2>6. QED
    BY <1>3, <2>1, <2>2, <2>3, <2>4, <2>5 DEF Describe
<1>4. CASE Import
  BY <1>4 DEF Import, StartImport, ImportNothing, FinishImport, Quiet
<1>5. CASE UNCHANGED vars
  BY <1>5 DEF vars, Quiet, files
<1>6. QED
  BY <1>1, <1>2, <1>3, <1>4, <1>5 DEF Next

\* The method texts of a described, restored or imported row.
LEMMA DescribedMethods ==
  ASSUME NEW row \in IndexRow, NEW h \in Hash, NEW class \in Text,
         NEW methods \in [Sig -> Text], NEW m \in Sig
  PROVE  LET new == Described(row, h, class, methods) IN
         /\ new.methodAt[m] = h
         /\ m \notin MethodsOf[row.rev] => new.methods[m] = NoText
         /\ m \in MethodsOf[row.rev] =>
              new.methods[m] \in {IF methods[m] # NoText THEN methods[m]
                                  ELSE [src |-> "fallback", of |-> h]}
BY DEF Described, IndexRow

LEMMA RestoredMethods ==
  ASSUME NEW row \in IndexRow, NEW g \in Imports, NEW h \in Hash, NEW m \in Sig
  PROVE  LET new == Restored(row, g, h)
             back == m \in MethodsOf[row.rev] /\ g.methods[m].text # NoText
         IN  /\ back => new.methods[m] = g.methods[m].text /\ new.methodAt[m] = h
             /\ ~back => /\ new.methods[m] = row.methods[m]
                         /\ new.methodAt[m] = row.methodAt[m]
BY DEF Restored, IndexRow

LEMMA WithImportMethods ==
  ASSUME NEW row \in IndexRow, NEW h \in Hash, NEW withClass \in BOOLEAN,
         NEW ms \in SUBSET Sig, NEW m \in Sig
  PROVE  LET new == WithImport(row, h, withClass, ms) IN
         /\ m \in ms => /\ new.methods[m] = [src |-> "import", of |-> h]
                        /\ new.methodAt[m] = h
         /\ m \notin ms => /\ new.methods[m] = row.methods[m]
                           /\ new.methodAt[m] = row.methodAt[m]
BY DEF WithImport, IndexRow

LEMMA SetImportedMethods ==
  ASSUME NEW g \in Imports, NEW h \in Hash, NEW withClass \in BOOLEAN,
         NEW ms \in SUBSET Sig, NEW m \in Sig
  PROVE  LET new == SetImported(g, h, withClass, ms) IN
         /\ m \in ms => new.methods[m] = [text |-> [src |-> "import", of |-> h], hash |-> h]
         /\ m \notin ms => new.methods[m] = g.methods[m]
BY DEF SetImported, Imports

\* What an entry of import-arch does to the two files.
LEMMA ImportRows ==
  ASSUME FreshInv, NEW c \in Class, NEW withClass \in BOOLEAN, NEW ms \in SUBSET Sig,
         ImportEntry(c, withClass, ms)
  PROVE  /\ HashNow(c) \in Hash /\ indexTx[c] \in IndexRow /\ cacheTx.imp[c] \in Imports
         /\ \A d \in Class : indexTx'[d] =
              IF d = c THEN WithImport(indexTx[c], HashNow(c), withClass, ms)
              ELSE indexTx[d]
         /\ \A d \in Class : cacheTx'.imp[d] =
              IF d = c THEN SetImported(cacheTx.imp[c], HashNow(c), withClass, ms)
              ELSE cacheTx.imp[d]
<1>1. HashNow(c) \in Hash
  BY HashNowType DEF ImportEntry, FreshInv, TypeInv
<1>2. QED
  BY <1>1 DEF ImportEntry, FreshInv, TypeInv, TypeOK, Store

\* What settling a class does to the index.
LEMMA SettledRows ==
  ASSUME FreshInv, NEW c \in Class, NEW h \in Hash, NEW class \in Text,
         NEW methods \in [Sig -> Text], Settles(c, h, class, methods)
  PROVE  /\ indexTx[c] \in IndexRow /\ cacheTx.imp[c] \in Imports
         /\ \A d \in Class : indexTx'[d] =
              IF d = c THEN Described(indexTx[c], h, class, methods) ELSE indexTx[d]
         /\ cacheTx.imp = cache.imp /\ cacheTx'.imp = cache'.imp
BY DEF Settles, Denormalise, FreshInv, TypeInv, TypeOK, Store

\* What one class of the durable store does to the index.
LEMMA ReapplyRows ==
  ASSUME FreshInv, NEW c \in Class, ReapplyClass(c)
  PROVE  /\ \A d \in Class \ {c} : indexTx'[d] = indexTx[d]
         /\ \/ indexTx'[c] = indexTx[c]
            \/ /\ HashNow(c) \in Hash /\ c \in Indexed /\ indexTx[c] \in IndexRow
               /\ cacheTx.imp[c] \in Imports
               /\ \/ indexTx'[c] = [indexTx[c] EXCEPT !.classAt = HashNow(c)]
                  \/ /\ \E s \in StoredHashes(cacheTx.imp[c]) : IsFresh(s, HashNow(c))
                     /\ indexTx'[c] = Restored(indexTx[c], cacheTx.imp[c], HashNow(c))
<1>1. CASE c \notin Indexed
  BY <1>1 DEF ReapplyClass
<1>2. CASE c \in Indexed
  <2>1. HashNow(c) \in Hash /\ indexTx[c] \in IndexRow /\ cacheTx.imp[c] \in Imports
        /\ indexTx \in [Class -> IndexRow]
    BY <1>2, HashNowType DEF FreshInv, TypeInv, TypeOK, Store
  <2> DEFINE h == HashNow(c)
  <2> HIDE DEF h
  <2>2. PICK s \in StoredHashes(cacheTx.imp[c]) :
          indexTx' = IF IsFresh(s, h)
            THEN [indexTx EXCEPT ![c] = Restored(indexTx[c], cacheTx.imp[c], h)]
            ELSE [indexTx EXCEPT ![c] = [indexTx[c] EXCEPT !.classAt = h]]
    BY <1>2 DEF ReapplyClass, h
  <2>3. CASE IsFresh(s, h)
    BY <1>2, <2>1, <2>2, <2>3 DEF h
  <2>4. CASE ~IsFresh(s, h)
    BY <1>2, <2>1, <2>2, <2>4 DEF h
  <2>5. QED
    BY <2>3, <2>4
<1>3. QED
  BY <1>1, <1>2

-----------------------------------------------------------------------------
(* The durable store follows the index *)

\* What an import has written to the store and not committed yet is what it
\* has written to the index.
StoreInv ==
  /\ FreshInv
  /\ \A c \in Class :
       /\ cacheTx.imp[c].class # cache.imp[c].class
            => indexTx[c].class = cacheTx.imp[c].class.text
       /\ \A m \in Sig : cacheTx.imp[c].methods[m] # cache.imp[c].methods[m]
            => indexTx[c].methods[m] = cacheTx.imp[c].methods[m].text

\* StoreFollowsIndex for the method texts: a method text reaches the durable
\* store only once the index serves it.
StoreFollowsIndexMethods ==
  [][\A c \in Class, m \in Sig :
       cache'.imp[c].methods[m] # cache.imp[c].methods[m]
         => index[c].methods[m] = cache'.imp[c].methods[m].text]_vars

LEMMA StoreStep == StoreInv /\ [Next]_vars => StoreInv'
<1> SUFFICES ASSUME StoreInv, [Next]_vars PROVE StoreInv'
  OBVIOUS
<1>0. FreshInv /\ FreshInv'
  BY FreshStep DEF StoreInv
<1>1. CASE pc' \notin {"import", "commitIndex", "commitCache"}
  BY <1>0, <1>1 DEF StoreInv, FreshInv
<1>2. CASE Quiet
  BY <1>0, <1>2 DEF Quiet, files, StoreInv
<1>3. CASE CommitIndex
  BY <1>0, <1>3 DEF CommitIndex, StoreInv
<1>4. ASSUME NEW c \in Class, NEW h \in Hash, NEW class \in Text,
             NEW methods \in [Sig -> Text], Settles(c, h, class, methods)
      PROVE  StoreInv'
  BY <1>0, <1>4, SettledRows DEF StoreInv
<1>5. ASSUME NEW c \in Class, NEW withClass \in BOOLEAN, NEW ms \in SUBSET Sig,
             ImportEntry(c, withClass, ms)
      PROVE  StoreInv'
  <2> DEFINE h == HashNow(c)
             row == WithImport(indexTx[c], h, withClass, ms)
             g == SetImported(cacheTx.imp[c], h, withClass, ms)
  <2>1. /\ h \in Hash /\ indexTx[c] \in IndexRow /\ cacheTx.imp[c] \in Imports
        /\ \A d \in Class : /\ indexTx'[d] = IF d = c THEN row ELSE indexTx[d]
                            /\ cacheTx'.imp[d] = IF d = c THEN g ELSE cacheTx.imp[d]
    BY <1>0, <1>5, ImportRows
  <2>2. g.class # cache.imp[c].class => row.class = g.class.text
    <3>1. /\ withClass => row.class = [src |-> "import", of |-> h]
          /\ ~withClass => row.class = indexTx[c].class
      BY <2>1, WithImportRow
    <3>2. /\ withClass => g.class = [text |-> [src |-> "import", of |-> h], hash |-> h]
          /\ ~withClass => g.class = cacheTx.imp[c].class
      BY <2>1, SetImportedType
    <3> HIDE DEF row, g
    <3>3. QED
      BY <3>1, <3>2 DEF StoreInv
  <2>3. ASSUME NEW m \in Sig, g.methods[m] # cache.imp[c].methods[m]
        PROVE  row.methods[m] = g.methods[m].text
    <3>1. /\ m \in ms => row.methods[m] = [src |-> "import", of |-> h]
          /\ m \notin ms => row.methods[m] = indexTx[c].methods[m]
      BY <2>1, WithImportMethods
    <3>2. /\ m \in ms => g.methods[m] = [text |-> [src |-> "import", of |-> h], hash |-> h]
          /\ m \notin ms => g.methods[m] = cacheTx.imp[c].methods[m]
      BY <2>1, SetImportedMethods
    <3> HIDE DEF row, g
    <3>3. QED
      BY <2>3, <3>1, <3>2 DEF StoreInv
  <2>4. cache' = cache
    BY <1>5 DEF ImportEntry
  <2> HIDE DEF row, g
  <2>5. QED
    BY <1>0, <2>1, <2>2, <2>3, <2>4 DEF StoreInv
<1>6. CASE \/ Crash \/ StartScan \/ SummariseClasses \/ FinishReapply \/ CommitCache
           \/ \E c \in Class : ScanFile(c) \/ ReapplyClass(c)
  BY <1>1, <1>6 DEF Crash, StartScan, SummariseClasses, FinishReapply, CommitCache,
       ScanFile, ReapplyClass, Return
<1>7. QED
  BY <1>0, <1>2, <1>3, <1>4, <1>5, <1>6, RowSteps

LEMMA StoreCorrect == Spec => []StoreInv
<1>1. Init => StoreInv
  BY FreshInit DEF Init, StoreInv
<1>2. QED
  BY <1>1, StoreStep, PTL DEF Spec

\* The committed store changes in CommitCache only, once the index is
\* committed.
LEMMA StoreCommits ==
  ASSUME StoreInv, [Next]_vars, cache' # cache
  PROVE  cache' = cacheTx /\ index = indexTx
BY RowSteps DEF StoreInv, Quiet, Crash, StartScan, SummariseClasses, FinishReapply,
     CommitIndex, CommitCache, ScanFile, ReapplyClass, Settles, ImportEntry, files, FreshInv

\* Whatever an import describes, and whenever the process dies: a class text
\* is durable only once the index serves it.
THEOREM ImportsAreServedFirst == Spec => StoreFollowsIndex
<1>1. StoreInv /\ [Next]_vars =>
        [\A c \in Class : cache'.imp[c].class # cache.imp[c].class
           => index[c].class = cache'.imp[c].class.text]_vars
  BY StoreCommits DEF StoreInv
<1>2. QED
  BY <1>1, StoreCorrect, PTL DEF Spec, StoreFollowsIndex

\* The same of every method text of an import.
THEOREM MethodImportsAreServedFirst == Spec => StoreFollowsIndexMethods
<1>1. StoreInv /\ [Next]_vars =>
        [\A c \in Class, m \in Sig :
           cache'.imp[c].methods[m] # cache.imp[c].methods[m]
             => index[c].methods[m] = cache'.imp[c].methods[m].text]_vars
  BY StoreCommits DEF StoreInv
<1>2. QED
  BY <1>1, StoreCorrect, PTL DEF Spec, StoreFollowsIndexMethods

-----------------------------------------------------------------------------
(* Served imports are durable, unless the process dies between the commits *)

\* What a row serves of its imports is what the store has for it.
RowDurable(row, g) ==
  /\ row.class.src = "import" => g.class.text = row.class
  /\ \A m \in Sig : row.methods[m].src = "import"
                     => g.methods[m].text = row.methods[m]

DurableInv ==
  /\ FreshInv
  /\ \A c \in Class :
       /\ RowDurable(indexTx[c], cacheTx.imp[c])
       /\ pc # "commitCache" => RowDurable(index[c], cache.imp[c])

\* No crash falls between conn.commit() and the cache.commit() after it: what
\* leaves that point is the second commit.
CommitSurvives == pc = "commitCache" /\ pc' # pc => cache' = cacheTx
StoreCommitSurvives == [][CommitSurvives]_vars

\* Settling a class serves its import or no import.
LEMMA SettledDurable ==
  ASSUME NEW row \in IndexRow, NEW g \in Imports, NEW h \in Hash,
         NEW class \in Text, NEW methods \in [Sig -> Text], NEW fresh \in BOOLEAN,
         class = g.class.text \/ class.src \in {"llm", "fallback"},
         \A m \in Sig : \/ methods[m] \in {FreshMethods(g, fresh)[m], NoText}
                        \/ methods[m].src \in {"llm", "fallback"}
  PROVE  RowDurable(Described(row, h, class, methods), g)
<1> DEFINE new == Described(row, h, class, methods)
<1>1. new.class = class
  BY DescribedRow
<1>2. ASSUME NEW m \in Sig, new.methods[m].src = "import"
      PROVE  g.methods[m].text = new.methods[m]
  <2>1. \/ new.methods[m] = NoText
        \/ new.methods[m] \in {IF methods[m] # NoText THEN methods[m]
                               ELSE [src |-> "fallback", of |-> h]}
    BY DescribedMethods
  <2> HIDE DEF new
  <2>2. new.methods[m] = methods[m] /\ methods[m] # NoText
    BY <1>2, <2>1 DEF NoText
  <2>3. methods[m] = FreshMethods(g, fresh)[m]
    BY <1>2, <2>2
  <2>4. QED
    BY <2>2, <2>3 DEF FreshMethods
<1> HIDE DEF new
<1>3. QED
  BY <1>1, <1>2 DEF RowDurable, new

\* An import serves what it stores and leaves the rest of the row as it was.
LEMMA ImportedDurable ==
  ASSUME NEW row \in IndexRow, NEW g \in Imports, NEW h \in Hash,
         NEW withClass \in BOOLEAN, NEW ms \in SUBSET Sig, RowDurable(row, g)
  PROVE  RowDurable(WithImport(row, h, withClass, ms), SetImported(g, h, withClass, ms))
<1> DEFINE new == WithImport(row, h, withClass, ms)
           newG == SetImported(g, h, withClass, ms)
<1>1. new.class.src = "import" => newG.class.text = new.class
  <2>1. /\ withClass => new.class = [src |-> "import", of |-> h]
        /\ ~withClass => new.class = row.class
    BY WithImportRow
  <2>2. /\ withClass => newG.class = [text |-> [src |-> "import", of |-> h], hash |-> h]
        /\ ~withClass => newG.class = g.class
    BY SetImportedType
  <2> HIDE DEF new, newG
  <2>3. QED
    BY <2>1, <2>2 DEF RowDurable
<1>2. ASSUME NEW m \in Sig
      PROVE  new.methods[m].src = "import" => newG.methods[m].text = new.methods[m]
  <2>1. /\ m \in ms => new.methods[m] = [src |-> "import", of |-> h]
        /\ m \notin ms => new.methods[m] = row.methods[m]
    BY WithImportMethods
  <2>2. /\ m \in ms => newG.methods[m] = [text |-> [src |-> "import", of |-> h], hash |-> h]
        /\ m \notin ms => newG.methods[m] = g.methods[m]
    BY SetImportedMethods
  <2> HIDE DEF new, newG
  <2>3. QED
    BY <2>1, <2>2 DEF RowDurable
<1> HIDE DEF new, newG
<1>3. QED
  BY <1>1, <1>2 DEF RowDurable, new, newG

\* A restored row serves what the store has.
LEMMA RestoredDurable ==
  ASSUME NEW row \in IndexRow, NEW g \in Imports, NEW h \in Hash, RowDurable(row, g)
  PROVE  RowDurable(Restored(row, g, h), g)
<1> DEFINE new == Restored(row, g, h)
<1>1. new.class = IF g.class.text # NoText THEN g.class.text ELSE row.class
  BY RestoredRow
<1>2. \A m \in Sig : new.methods[m] \in {row.methods[m], g.methods[m].text}
  BY RestoredMethods
<1> HIDE DEF new
<1>3. QED
  BY <1>1, <1>2 DEF RowDurable, new

\* A row without imported texts is durable whatever the store has.
LEMMA UnimportedDurable ==
  ASSUME NEW row, NEW g, row.class.src # "import",
         \A m \in Sig : row.methods[m].src # "import"
  PROVE  RowDurable(row, g)
BY DEF RowDurable

LEMMA DurableStep == DurableInv /\ [Next]_vars /\ [CommitSurvives]_vars => DurableInv'
<1> SUFFICES ASSUME DurableInv, [Next]_vars, [CommitSurvives]_vars PROVE DurableInv'
  OBVIOUS
<1>0. FreshInv /\ FreshInv'
  BY FreshStep DEF DurableInv
<1>1. CASE Quiet
  BY <1>0, <1>1 DEF Quiet, files, DurableInv
<1>2. CASE Crash
  <2>1. \A c \in Class : RowDurable(index[c], cache.imp[c])
    <3>1. CASE pc = "commitCache"
      <4>1. index = indexTx /\ cache = cacheTx
        BY <1>0, <1>2, <3>1 DEF Crash, Return, CommitSurvives, vars, FreshInv
      <4>2. QED
        BY <4>1 DEF DurableInv
    <3>2. QED
      BY <3>1 DEF DurableInv
  <2>2. QED
    BY <1>0, <1>2, <2>1 DEF Crash, DurableInv
<1>3. CASE StartScan
  <2>1. \A c \in Class : index'[c] = NoRow /\ indexTx'[c] = NoRow
    BY <1>3 DEF StartScan
  <2>2. \A g : RowDurable(NoRow, g)
    BY UnimportedDurable DEF NoRow, NoText, NoTexts
  <2>3. QED
    BY <1>0, <2>1, <2>2 DEF DurableInv
<1>4. ASSUME NEW c \in Class, ScanFile(c) PROVE DurableInv'
  <2>1. \A d \in Class : index'[d].class = index[d].class
                         /\ index'[d].methods = index[d].methods
    BY <1>0, <1>4 DEF ScanFile, FreshInv, TypeInv, TypeOK, IndexRow
  <2>2. \A d \in Class : RowDurable(index'[d], cache.imp[d])
    BY <1>4, <2>1 DEF ScanFile, DurableInv, RowDurable
  <2>3. QED
    BY <1>0, <1>4, <2>2 DEF ScanFile, DurableInv, FreshInv
<1>5. CASE SummariseClasses
  <2>1. \A c \in Class : /\ index'[c].methods = index[c].methods
                         /\ \/ index'[c].class = index[c].class
                            \/ index'[c].class = [src |-> "scan", of |-> NoHash]
    BY <1>0, <1>5 DEF SummariseClasses, FreshInv, TypeInv, TypeOK, IndexRow
  <2>2. \A c \in Class : RowDurable(index'[c], cache.imp[c])
    BY <1>5, <2>1 DEF SummariseClasses, DurableInv, RowDurable
  <2>3. QED
    BY <1>0, <1>5, <2>2 DEF SummariseClasses, DurableInv, FreshInv
<1>6. ASSUME NEW c \in Class, ReapplyClass(c) PROVE DurableInv'
  <2>1. UNCHANGED <<index, cache, cacheTx, pc>>
    BY <1>6 DEF ReapplyClass
  <2>2. RowDurable(indexTx'[c], cacheTx.imp[c])
    <3>1. CASE indexTx'[c] = indexTx[c]
      BY <3>1 DEF DurableInv
    <3>2. CASE indexTx[c] \in IndexRow
               /\ indexTx'[c] = [indexTx[c] EXCEPT !.classAt = HashNow(c)]
      <4>1. indexTx'[c].class = indexTx[c].class /\ indexTx'[c].methods = indexTx[c].methods
        BY <3>2 DEF IndexRow
      <4>2. QED
        BY <4>1 DEF DurableInv, RowDurable
    <3>3. CASE /\ HashNow(c) \in Hash /\ indexTx[c] \in IndexRow
               /\ cacheTx.imp[c] \in Imports
               /\ indexTx'[c] = Restored(indexTx[c], cacheTx.imp[c], HashNow(c))
      BY <3>3, RestoredDurable DEF DurableInv
    <3>4. QED
      BY <1>0, <1>6, <3>1, <3>2, <3>3, ReapplyRows
  <2>3. \A d \in Class : RowDurable(indexTx'[d], cacheTx.imp[d])
    BY <1>0, <1>6, <2>2, ReapplyRows DEF DurableInv
  <2>4. QED
    BY <1>0, <2>1, <2>3 DEF DurableInv
<1>7. CASE FinishReapply
  BY <1>0, <1>7 DEF FinishReapply, DurableInv, FreshInv
<1>8. CASE CommitIndex
  BY <1>0, <1>8 DEF CommitIndex, DurableInv
<1>9. CASE CommitCache
  BY <1>0, <1>9 DEF CommitCache, DurableInv, FreshInv
<1>10. ASSUME NEW c \in Class, NEW h \in Hash, NEW class \in Text,
              NEW methods \in [Sig -> Text], Settles(c, h, class, methods)
       PROVE  DurableInv'
  <2> DEFINE g == cacheTx.imp[c]
  <2>1. PICK fresh \in BOOLEAN :
          /\ class = g.class.text \/ class.src \in {"llm", "fallback"}
          /\ \A m \in Sig : \/ methods[m] \in {FreshMethods(g, fresh)[m], NoText}
                            \/ methods[m].src \in {"llm", "fallback"}
    BY <1>10 DEF Settles
  <2>2. RowDurable(Described(indexTx[c], h, class, methods), g)
    BY <1>0, <1>10, <2>1, SettledRows, SettledDurable
  <2>3. \A d \in Class : RowDurable(indexTx'[d], cacheTx'.imp[d])
    <3>1. cacheTx'.imp = cacheTx.imp
      BY <1>10 DEF Settles
    <3>2. \A d \in Class : indexTx'[d] =
            IF d = c THEN Described(indexTx[c], h, class, methods) ELSE indexTx[d]
      BY <1>0, <1>10, SettledRows
    <3>3. QED
      BY <2>2, <3>1, <3>2 DEF DurableInv
  <2>4. QED
    BY <1>0, <1>10, <2>3 DEF DurableInv, Settles
<1>11. ASSUME NEW c \in Class, NEW withClass \in BOOLEAN, NEW ms \in SUBSET Sig,
              ImportEntry(c, withClass, ms)
       PROVE  DurableInv'
  <2>1. \A d \in Class : RowDurable(indexTx'[d], cacheTx'.imp[d])
    BY <1>0, <1>11, ImportRows, ImportedDurable DEF DurableInv
  <2>2. QED
    BY <1>0, <1>11, <2>1 DEF ImportEntry, DurableInv
<1>12. QED
  BY <1>0, <1>1, <1>2, <1>3, <1>4, <1>5, <1>6, <1>7, <1>8, <1>9, <1>10, <1>11, RowSteps

\* Unless the process dies between the two commits, for whatever entries: an
\* imported text the index serves is in the durable store once no command runs.
THEOREM ImportsSurviveScans == Spec /\ StoreCommitSurvives => []ServedImportIsDurable
<1>1. Init => DurableInv
  <2>1. \A g : RowDurable(NoRow, g)
    BY UnimportedDurable DEF NoRow, NoText, NoTexts
  <2>2. QED
    BY <2>1, FreshInit DEF Init, DurableInv
<1>2. DurableInv => ServedImportIsDurable
  BY DEF DurableInv, ServedImportIsDurable, IsDurable, RowDurable
<1>3. QED
  BY <1>1, <1>2, DurableStep, PTL DEF Spec, StoreCommitSurvives

-----------------------------------------------------------------------------
(* Whole entries: no stale method text, and unchanged imports are kept *)

\* The imports of a class have one hash: nothing is imported for its methods,
\* or every method the hashed skeleton has was imported with the class.
WholeImports(g) ==
  \/ g.class.hash \notin Hash /\ \A m \in Sig : g.methods[m] = NoImportRow
  \/ /\ g.class.hash \in Hash
     /\ \A r \in Rev : Projection[r] = g.class.hash[1] =>
          \A m \in MethodsOf[r] : g.methods[m] = g.class

\* Only methods the class has carry a text, and an imported one is that of
\* the class row, settled at the hash it was imported for.
PairedRow(row) ==
  \A m \in Sig :
    /\ row.methods[m] # NoText => m \in MethodsOf[row.rev]
    /\ row.methods[m].src = "import" =>
         /\ row.class = row.methods[m] /\ row.methods[m].of \in Hash
         /\ row.methodAt[m] = row.methods[m].of

WholeInv ==
  /\ FreshInv
  /\ \A c \in Class : /\ WholeImports(cache.imp[c]) /\ WholeImports(cacheTx.imp[c])
                      /\ PairedRow(index[c]) /\ PairedRow(indexTx[c])
  /\ pc \in {"scan", "reapply"} =>
       \A c \in Class, m \in Sig : index[c].methods[m] = NoText

\* Whole imports that hold at the hash of a revision are one text for the
\* class and all its methods, or no method text at all.
LEMMA WholeServed ==
  ASSUME NEW g \in Imports, WholeImports(g), Stamped(g.class),
         NEW h \in Hash, NEW rev \in Rev, h[1] = Projection[rev],
         \E s \in StoredHashes(g) : IsFresh(s, h)
  PROVE  \/ \A m \in Sig : g.methods[m].text = NoText
         \/ /\ g.class.text = [src |-> "import", of |-> h]
            /\ \A m \in MethodsOf[rev] : g.methods[m].text = g.class.text
<1>1. CASE g.class.hash \notin Hash
  BY <1>1 DEF WholeImports, NoImportRow
<1>2. CASE g.class.hash \in Hash
  <2>1. g.class.text # NoText /\ g.class # LegacyRow
    BY <1>2, HashIsNotNull DEF Stamped, NoImportRow, LegacyRow, NoText
  <2>2. g.class.hash = h /\ g.class.text = [src |-> "import", of |-> h]
    BY <2>1, ServedImport
  <2>3. \A m \in MethodsOf[rev] : g.methods[m] = g.class
    BY <1>2, <2>2 DEF WholeImports
  <2>4. QED
    BY <2>2, <2>3
<1>3. QED
  BY <1>1, <1>2

\* Whole imports whose class text is not served give no method text either.
LEMMA WholeUnserved ==
  ASSUME NEW g \in Imports, WholeImports(g), Stamped(g.class),
         NEW h \in Hash, NEW fresh \in BOOLEAN, Unserved(g, h, fresh), NEW m \in Sig
  PROVE  FreshMethods(g, fresh)[m] = NoText
<1>1. CASE ~fresh
  BY <1>1 DEF FreshMethods
<1>2. CASE fresh
  <2>1. g.class = NoImportRow
    BY <1>2 DEF Unserved, Stamped, LegacyRow, NoText
  <2>2. g.methods[m] = NoImportRow
    BY <2>1, HashIsNotNull DEF WholeImports, NoImportRow
  <2>3. QED
    BY <2>2 DEF FreshMethods, NoImportRow
<1>3. QED
  BY <1>1, <1>2

\* A row settled with generated texts only is paired.
LEMMA GeneratedPaired ==
  ASSUME NEW row \in IndexRow, NEW h \in Hash, NEW class \in Text,
         NEW methods \in [Sig -> Text],
         \A m \in Sig : methods[m].src # "import"
  PROVE  PairedRow(Described(row, h, class, methods))
<1> DEFINE new == Described(row, h, class, methods)
<1>1. new.rev = row.rev
  BY DescribedRow
<1>2. ASSUME NEW m \in Sig
      PROVE  /\ new.methods[m] # NoText => m \in MethodsOf[row.rev]
             /\ new.methods[m].src # "import"
  <2>1. \/ m \notin MethodsOf[row.rev] /\ new.methods[m] = NoText
        \/ /\ m \in MethodsOf[row.rev]
           /\ new.methods[m] \in {IF methods[m] # NoText THEN methods[m]
                                  ELSE [src |-> "fallback", of |-> h]}
    BY DescribedMethods
  <2> HIDE DEF new
  <2>2. QED
    BY <2>1 DEF NoText
<1> HIDE DEF new
<1>3. QED
  BY <1>1, <1>2 DEF PairedRow, new

\* So is one settled with a class import and the same text for its methods.
LEMMA ImportedPaired ==
  ASSUME NEW row \in IndexRow, NEW h \in Hash, NEW methods \in [Sig -> Text],
         \A m \in MethodsOf[row.rev] \cap Sig : methods[m] = [src |-> "import", of |-> h]
  PROVE  PairedRow(Described(row, h, [src |-> "import", of |-> h], methods))
<1> DEFINE text == [src |-> "import", of |-> h]
           new == Described(row, h, text, methods)
<1>1. text \in Text
  BY DEF Text
<1>2. new.rev = row.rev /\ new.class = text
  BY <1>1, DescribedRow
<1>3. ASSUME NEW m \in Sig
      PROVE  /\ new.methods[m] # NoText => m \in MethodsOf[row.rev]
             /\ new.methods[m] # NoText => new.methods[m] = text
             /\ new.methodAt[m] = h
  <2>1. /\ new.methodAt[m] = h
        /\ \/ m \notin MethodsOf[row.rev] /\ new.methods[m] = NoText
           \/ /\ m \in MethodsOf[row.rev]
              /\ new.methods[m] \in {IF methods[m] # NoText THEN methods[m]
                                     ELSE [src |-> "fallback", of |-> h]}
    BY <1>1, DescribedMethods
  <2>2. m \in MethodsOf[row.rev] => methods[m] = text /\ text # NoText
    BY DEF NoText
  <2> HIDE DEF new, text
  <2>3. QED
    BY <2>1, <2>2
<1>4. text.src = "import" /\ text.of = h /\ NoText.src # "import"
  BY DEF NoText
<1> HIDE DEF new, text
<1>5. QED
  BY <1>2, <1>3, <1>4 DEF PairedRow, new, text

\* So is a row that gets a whole entry.
LEMMA EntryPaired ==
  ASSUME NEW row \in IndexRow, PairedRow(row), NEW h \in Hash,
         NEW withClass \in BOOLEAN, NEW ms \in SUBSET Sig, ms = MethodsOf[row.rev]
  PROVE  withClass => PairedRow(WithImport(row, h, withClass, ms))
<1> DEFINE new == WithImport(row, h, withClass, ms)
           text == [src |-> "import", of |-> h]
<1>1. new.rev = row.rev /\ (withClass => new.class = text)
  BY WithImportRow
<1>2. ASSUME NEW m \in Sig
      PROVE  /\ m \in MethodsOf[row.rev] => new.methods[m] = text /\ new.methodAt[m] = h
             /\ m \notin MethodsOf[row.rev] => new.methods[m] = NoText
  <2>1. /\ m \in ms => new.methods[m] = text /\ new.methodAt[m] = h
        /\ m \notin ms => new.methods[m] = row.methods[m]
    BY WithImportMethods
  <2> HIDE DEF new, text
  <2>2. QED
    BY <2>1 DEF PairedRow
<1>3. text.src = "import" /\ text.of = h /\ NoText.src # "import"
  BY DEF NoText
<1> HIDE DEF new, text
<1>4. QED
  BY <1>1, <1>2, <1>3 DEF PairedRow, new

\* And a whole entry makes the imports of its class whole.
LEMMA EntryWhole ==
  ASSUME NEW g \in Imports, NEW h \in Hash, NEW rev \in Rev, h[1] = Projection[rev]
  PROVE  WholeImports(SetImported(g, h, TRUE, MethodsOf[rev]))
<1> DEFINE new == SetImported(g, h, TRUE, MethodsOf[rev])
           row == [text |-> [src |-> "import", of |-> h], hash |-> h]
<1>1. \A r \in Rev : MethodsOf[r] \in SUBSET Sig
  BY ConstantsAssumption
<1>2. new.class = row /\ row.hash = h
  BY <1>1, SetImportedType
<1>3. \A m \in MethodsOf[rev] : new.methods[m] = row
  BY <1>1, SetImportedMethods
<1>4. \A r \in Rev : Projection[r] = h[1] => MethodsOf[r] = MethodsOf[rev]
  BY SignaturesAreHashed
<1> HIDE DEF new, row
<1>5. QED
  BY <1>2, <1>3, <1>4 DEF WholeImports, new

\* A row restored from whole imports is paired.
LEMMA RestoredPaired ==
  ASSUME NEW row \in IndexRow, PairedRow(row), row.class.src = "scan",
         NEW g \in Imports, NEW h \in Hash,
         \/ \A m \in Sig : g.methods[m].text = NoText
         \/ /\ g.class.text = [src |-> "import", of |-> h]
            /\ \A m \in MethodsOf[row.rev] : g.methods[m].text = g.class.text
  PROVE  PairedRow(Restored(row, g, h))
<1> DEFINE new == Restored(row, g, h)
<1>1. /\ new.rev = row.rev
      /\ new.class = IF g.class.text # NoText THEN g.class.text ELSE row.class
  BY RestoredRow
<1>2. ASSUME NEW m \in Sig
      PROVE  LET back == m \in MethodsOf[row.rev] /\ g.methods[m].text # NoText IN
             /\ back => new.methods[m] = g.methods[m].text /\ new.methodAt[m] = h
             /\ ~back => new.methods[m] = row.methods[m] /\ row.methods[m].src # "import"
  BY RestoredMethods DEF PairedRow
<1> HIDE DEF new
<1>3. CASE \A m \in Sig : g.methods[m].text = NoText
  BY <1>1, <1>2, <1>3 DEF PairedRow, new
<1>4. CASE /\ g.class.text = [src |-> "import", of |-> h]
           /\ \A m \in MethodsOf[row.rev] : g.methods[m].text = g.class.text
  <2>1. g.class.text # NoText /\ g.class.text.of = h
    BY <1>4 DEF NoText
  <2>2. QED
    BY <1>1, <1>2, <1>4, <2>1 DEF PairedRow, new
<1>5. QED
  BY <1>3, <1>4

LEMMA WholeStep == WholeEntriesOnly /\ WholeInv /\ [Next]_vars => WholeInv'
<1> SUFFICES ASSUME WholeEntriesOnly, WholeInv, [Next]_vars PROVE WholeInv'
  OBVIOUS
<1>0. FreshInv /\ FreshInv'
  BY FreshStep DEF WholeInv
<1>1. CASE Quiet
  BY <1>0, <1>1 DEF Quiet, files, WholeInv
<1>2. CASE Crash
  BY <1>0, <1>2 DEF Crash, Return, WholeInv
<1>3. CASE StartScan
  <2>1. \A c \in Class : index'[c] = NoRow /\ indexTx'[c] = NoRow
    BY <1>3 DEF StartScan
  <2>2. PairedRow(NoRow) /\ \A m \in Sig : NoRow.methods[m] = NoText
    BY DEF PairedRow, NoRow, NoTexts, NoText
  <2>3. QED
    BY <1>0, <1>3, <2>1, <2>2 DEF StartScan, WholeInv
<1>4. ASSUME NEW c \in Class, ScanFile(c) PROVE WholeInv'
  <2>1. \A d \in Class, m \in Sig : index'[d].methods[m] = NoText
    BY <1>0, <1>4 DEF ScanFile, WholeInv, FreshInv, TypeInv, TypeOK, IndexRow
  <2>2. \A d \in Class : PairedRow(index'[d])
    BY <2>1 DEF PairedRow, NoText
  <2>3. QED
    BY <1>0, <1>4, <2>1, <2>2 DEF ScanFile, WholeInv
<1>5. CASE SummariseClasses
  <2>1. \A c \in Class, m \in Sig : index'[c].methods[m] = NoText
    BY <1>0, <1>5 DEF SummariseClasses, WholeInv, FreshInv, TypeInv, TypeOK, IndexRow
  <2>2. \A c \in Class : PairedRow(index'[c])
    BY <2>1 DEF PairedRow, NoText
  <2>3. QED
    BY <1>0, <1>5, <2>1, <2>2 DEF SummariseClasses, WholeInv
<1>6. ASSUME NEW c \in Class, ReapplyClass(c) PROVE WholeInv'
  <2>1. UNCHANGED <<index, cache, cacheTx, pc>>
    BY <1>6 DEF ReapplyClass
  <2>2. PairedRow(indexTx'[c])
    <3>1. CASE indexTx'[c] = indexTx[c]
      BY <3>1 DEF WholeInv
    <3>2. CASE indexTx[c] \in IndexRow
               /\ indexTx'[c] = [indexTx[c] EXCEPT !.classAt = HashNow(c)]
      BY <3>2 DEF WholeInv, PairedRow, IndexRow
    <3>3. CASE /\ HashNow(c) \in Hash /\ c \in Indexed /\ indexTx[c] \in IndexRow
               /\ cacheTx.imp[c] \in Imports
               /\ \E s \in StoredHashes(cacheTx.imp[c]) : IsFresh(s, HashNow(c))
               /\ indexTx'[c] = Restored(indexTx[c], cacheTx.imp[c], HashNow(c))
      <4>1. indexTx[c].class.src = "scan" /\ PairedRow(indexTx[c])
            /\ WholeImports(cacheTx.imp[c]) /\ Stamped(cacheTx.imp[c].class)
        BY <1>6, <3>3 DEF ReapplyClass, WholeInv, FreshInv
      <4>2. indexTx[c].rev \in Rev /\ HashNow(c)[1] = Projection[indexTx[c].rev]
        BY <3>3 DEF Indexed, IndexRow, HashNow, StructureHash
      <4>3. \/ \A m \in Sig : cacheTx.imp[c].methods[m].text = NoText
            \/ /\ cacheTx.imp[c].class.text = [src |-> "import", of |-> HashNow(c)]
               /\ \A m \in MethodsOf[indexTx[c].rev] :
                    cacheTx.imp[c].methods[m].text = cacheTx.imp[c].class.text
        BY <3>3, <4>1, <4>2, WholeServed
      <4>4. QED
        BY <3>3, <4>1, <4>3, RestoredPaired
    <3>4. QED
      BY <1>0, <1>6, <3>1, <3>2, <3>3, ReapplyRows
  <2>3. \A d \in Class : PairedRow(indexTx'[d])
    BY <1>0, <1>6, <2>2, ReapplyRows DEF WholeInv
  <2>4. QED
    BY <1>0, <2>1, <2>3 DEF WholeInv
<1>7. CASE FinishReapply
  BY <1>0, <1>7 DEF FinishReapply, Return, WholeInv
<1>8. CASE CommitIndex
  BY <1>0, <1>8 DEF CommitIndex, WholeInv
<1>9. CASE CommitCache
  BY <1>0, <1>9 DEF CommitCache, Return, WholeInv
<1>10. ASSUME NEW c \in Class, NEW h \in Hash, NEW class \in Text,
              NEW methods \in [Sig -> Text], Settles(c, h, class, methods)
       PROVE  WholeInv'
  <2> DEFINE g == cacheTx.imp[c]
             row == indexTx[c]
  <2>1. /\ row \in IndexRow /\ g \in Imports
        /\ \A d \in Class : indexTx'[d] =
             IF d = c THEN Described(row, h, class, methods) ELSE indexTx[d]
    BY <1>0, <1>10, SettledRows
  <2>2. WholeImports(g) /\ Stamped(g.class)
    BY <1>0 DEF WholeInv, FreshInv
  <2>3. PairedRow(Described(row, h, class, methods))
    <3>1. CASE /\ c \in Indexed /\ h = HashNow(c)
               /\ \E s \in StoredHashes(g) : IsFresh(s, h)
               /\ class = g.class.text /\ methods = FreshMethods(g, TRUE)
      <4>1. row.rev \in Rev /\ h[1] = Projection[row.rev]
        BY <2>1, <3>1 DEF Indexed, IndexRow, HashNow, StructureHash
      <4>2. \A m \in Sig : methods[m] = g.methods[m].text
        BY <3>1 DEF FreshMethods
      <4> HIDE DEF g, row
      <4>3. CASE \A m \in Sig : g.methods[m].text = NoText
        BY <2>1, <4>2, <4>3, GeneratedPaired DEF NoText
      <4>4. CASE /\ g.class.text = [src |-> "import", of |-> h]
                 /\ \A m \in MethodsOf[row.rev] : g.methods[m].text = g.class.text
        <5>1. class = [src |-> "import", of |-> h]
          BY <3>1, <4>4 DEF g
        <5>2. \A m \in MethodsOf[row.rev] \cap Sig : methods[m] = [src |-> "import", of |-> h]
          BY <4>2, <4>4
        <5>3. row \in IndexRow
          BY <2>1
        <5>4. PairedRow(Described(row, h, [src |-> "import", of |-> h], methods))
          BY <5>2, <5>3, ImportedPaired
        <5>5. QED
          BY <5>1, <5>4
      <4>5. QED
        BY <2>1, <2>2, <3>1, <4>1, <4>3, <4>4, WholeServed
    <3>2. ASSUME NEW fresh \in BOOLEAN, class.src \in {"llm", "fallback"},
                 Unserved(g, h, fresh),
                 \A m \in Sig : methods[m] \in {FreshMethods(g, fresh)[m], class, NoText}
          PROVE  PairedRow(Described(row, h, class, methods))
      <4>1. \A m \in Sig : FreshMethods(g, fresh)[m] = NoText
        BY <2>1, <2>2, <3>2, WholeUnserved
      <4>2. \A m \in Sig : methods[m].src # "import"
        BY <3>2, <4>1 DEF NoText
      <4>3. QED
        BY <2>1, <4>2, GeneratedPaired
    <3>3. QED
      BY <1>10, <3>1, <3>2 DEF Settles
  <2>4. \A d \in Class : PairedRow(indexTx'[d])
    BY <2>1, <2>3 DEF WholeInv
  <2>5. /\ UNCHANGED <<index, cache>> /\ cacheTx'.imp = cacheTx.imp
        /\ pc' \notin {"scan", "reapply"}
    BY <1>10 DEF Settles
  <2>6. QED
    BY <1>0, <2>4, <2>5 DEF WholeInv
<1>11. ASSUME NEW c \in Class, NEW withClass \in BOOLEAN, NEW ms \in SUBSET Sig,
              ImportEntry(c, withClass, ms)
       PROVE  WholeInv'
  <2> DEFINE h == HashNow(c)
             rev == indexTx[c].rev
  <2>1. /\ h \in Hash /\ indexTx[c] \in IndexRow /\ cacheTx.imp[c] \in Imports
        /\ \A d \in Class :
             /\ indexTx'[d] = IF d = c THEN WithImport(indexTx[c], h, withClass, ms)
                              ELSE indexTx[d]
             /\ cacheTx'.imp[d] = IF d = c THEN SetImported(cacheTx.imp[c], h, withClass, ms)
                                  ELSE cacheTx.imp[d]
    BY <1>0, <1>11, ImportRows
  <2>2. /\ withClass = TRUE /\ ms = MethodsOf[rev] /\ rev \in Rev
        /\ h[1] = Projection[rev] /\ UNCHANGED <<index, cache, pc>> /\ pc = "import"
    BY <1>11, <2>1 DEF ImportEntry, Indexed, IndexRow, HashNow, StructureHash
  <2> HIDE DEF h
  <2>3. PairedRow(WithImport(indexTx[c], h, withClass, ms))
    BY <2>1, <2>2, EntryPaired DEF WholeInv
  <2>4. WholeImports(SetImported(cacheTx.imp[c], h, withClass, ms))
    BY <2>1, <2>2, EntryWhole
  <2>5. \A d \in Class : PairedRow(indexTx'[d]) /\ WholeImports(cacheTx'.imp[d])
    BY <2>1, <2>3, <2>4 DEF WholeInv
  <2>6. QED
    BY <1>0, <2>2, <2>5 DEF WholeInv
<1>12. QED
  BY <1>0, <1>1, <1>2, <1>3, <1>4, <1>5, <1>6, <1>7, <1>8, <1>9, <1>10, <1>11, RowSteps

LEMMA WholeInit == Init => WholeInv
<1> SUFFICES ASSUME Init PROVE WholeInv
  OBVIOUS
<1>1. FreshInv
  BY FreshInit
<1>2. PairedRow(NoRow) /\ \A m \in Sig : NoRow.methods[m] = NoText
  BY DEF PairedRow, NoRow, NoTexts, NoText
<1>3. \A c \in Class : WholeImports(cache.imp[c])
  <2>1. PICK legacy \in SUBSET Class :
          cache.imp = [c \in Class |-> IF c \in legacy
                         THEN [NoImports EXCEPT !.class = LegacyRow] ELSE NoImports]
    BY DEF Init
  <2>2. WholeImports(NoImports)
    BY HashIsNotNull DEF WholeImports, NoImports, NoImportRow
  <2>3. WholeImports([NoImports EXCEPT !.class = LegacyRow])
    BY HashIsNotNull DEF WholeImports, NoImports, LegacyRow
  <2>4. QED
    BY <2>1, <2>2, <2>3
<1>4. QED
  BY <1>1, <1>2, <1>3 DEF Init, WholeInv

LEMMA WholeCorrect == WholeEntriesOnly /\ Spec => []WholeInv
<1> SUFFICES ASSUME WholeEntriesOnly PROVE Spec => []WholeInv
  OBVIOUS
<1>1. WholeInv /\ [Next]_vars => WholeInv'
  BY WholeStep
<1>2. QED
  BY <1>1, WholeInit, PTL DEF Spec

\* When every entry describes its class and all of its methods: no imported
\* method text is served for another structure than its own.
THEOREM WholeEntriesKeepMethodsFresh ==
  ASSUME WholeEntriesOnly
  PROVE  Spec => []NoStaleMethodText
<1>1. WholeInv => NoStaleMethodText
  BY DEF WholeInv, PairedRow, NoStaleMethodText
<1>2. Spec => []WholeInv
  BY WholeCorrect
<1>3. QED
  BY <1>1, <1>2, PTL

\* A durable class import whose method texts are served holds at their hash.
LEMMA ServedMethodStamped ==
  ASSUME WholeInv, NEW c \in Class, NEW m \in Sig,
         index[c].methods[m].src = "import", IsDurable(c)
  PROVE  LET was == index[c].methods[m] IN
         /\ was.of \in Hash /\ was = [src |-> "import", of |-> was.of]
         /\ index[c].methodAt[m] = was.of /\ m \in MethodsOf[index[c].rev]
         /\ cache.imp[c].class.text = was /\ cache.imp[c].class.hash = was.of
         /\ cache.imp[c].methods[m].text = was
<1> DEFINE was == index[c].methods[m]
<1>1. /\ was \in Text /\ was # NoText
      /\ was.src = "import"
  BY DEF WholeInv, FreshInv, TypeInv, TypeOK, IndexRow, NoText
<1>2. /\ index[c].class = was /\ was.of \in Hash /\ index[c].methodAt[m] = was.of
      /\ m \in MethodsOf[index[c].rev]
  BY <1>1 DEF WholeInv, PairedRow
<1>3. cache.imp[c].class.text = was /\ cache.imp[c].methods[m].text = was
  BY <1>1, <1>2 DEF IsDurable
<1>4. Stamped(cache.imp[c].class)
  BY DEF WholeInv, FreshInv
<1> HIDE DEF was
<1>5. cache.imp[c].class.hash = was.of
  BY <1>1, <1>3, <1>4 DEF Stamped, NoImportRow, LegacyRow
<1>6. was = [src |-> "import", of |-> was.of]
  BY <1>1 DEF Text
<1>7. QED
  BY <1>1, <1>2, <1>3, <1>5, <1>6 DEF was

\* Kept(c, m): the conjunct of KeepInv about one method.
Kept(c, m) ==
  LET was == index[c].methods[m] IN
    (/\ was.src = "import" /\ IsDurable(c)
     /\ indexTx[c].rev = index[c].rev /\ indexTx[c].methodAt[m] = was.of)
      => indexTx[c].methods[m] = was

\* Settling a class keeps its method texts that were stamped for h.
LEMMA SettledKeeps ==
  ASSUME WholeInv, NEW c \in Class, NEW h \in Hash, NEW class \in Text,
         NEW methods \in [Sig -> Text], Settles(c, h, class, methods), NEW m \in Sig
  PROVE  Kept(c, m)'
<1> DEFINE was == index[c].methods[m]
           new == Described(indexTx[c], h, class, methods)
           g == cacheTx.imp[c]
<1> SUFFICES ASSUME was.src = "import", IsDurable(c), indexTx'[c].rev = index[c].rev,
                    indexTx'[c].methodAt[m] = was.of
             PROVE  indexTx'[c].methods[m] = was
  BY DEF Kept, Settles, IsDurable
<1>0. FreshInv
  BY DEF WholeInv
<1>1. indexTx[c] \in IndexRow /\ g \in Imports /\ indexTx'[c] = new
      /\ cacheTx.imp = cache.imp
  BY <1>0, SettledRows
<1>2. /\ was # NoText /\ m \in MethodsOf[index[c].rev]
      /\ g.class.hash = was.of /\ g.methods[m].text = was
  <2>1. was # NoText
    BY DEF NoText
  <2>2. /\ m \in MethodsOf[index[c].rev] /\ cache.imp[c].class.hash = was.of
        /\ cache.imp[c].methods[m].text = was
    BY ServedMethodStamped
  <2>3. QED
    BY <1>1, <2>1, <2>2
<1>3. /\ new.methodAt[m] = h /\ new.rev = indexTx[c].rev
      /\ m \in MethodsOf[indexTx[c].rev] =>
           new.methods[m] \in {IF methods[m] # NoText THEN methods[m]
                               ELSE [src |-> "fallback", of |-> h]}
  BY <1>1, DescribedMethods, DescribedRow
<1> HIDE DEF new, was
<1>4. was.of = h /\ m \in MethodsOf[indexTx[c].rev]
  BY <1>1, <1>2, <1>3
<1>5. methods = FreshMethods(g, TRUE)
  <2>1. \A fresh \in BOOLEAN : ~Unserved(g, h, fresh)
    BY <1>0, <1>2, <1>4, NotStamped
  <2>2. QED
    BY <2>1 DEF Settles
<1>6. methods[m] = was
  BY <1>2, <1>5 DEF FreshMethods
<1>7. QED
  BY <1>1, <1>2, <1>3, <1>4, <1>6

\* What UnchangedMethodImportKept will ask of the next commit.
KeepInv ==
  /\ WholeInv
  /\ \A c \in Class, m \in Sig : Kept(c, m)

LEMMA KeepStep == WholeEntriesOnly /\ KeepInv /\ [Next]_vars => KeepInv'
<1> SUFFICES ASSUME WholeEntriesOnly, KeepInv, [Next]_vars PROVE KeepInv'
  OBVIOUS
<1>0. WholeInv /\ WholeInv' /\ FreshInv
  BY WholeStep DEF KeepInv, WholeInv
<1>1. CASE index' = indexTx'
  <2>1. \A c \in Class, m \in Sig : Kept(c, m)'
    BY <1>1 DEF Kept
  <2>2. QED
    BY <1>0, <2>1 DEF KeepInv
<1>2. CASE pc' \in {"scan", "reapply"}
  <2>1. \A c \in Class, m \in Sig : index'[c].methods[m].src # "import"
    BY <1>0, <1>2 DEF WholeInv, NoText
  <2>2. QED
    BY <1>0, <2>1 DEF KeepInv, Kept
<1>3. CASE Quiet
  BY <1>0, <1>3 DEF Quiet, files, KeepInv, Kept, IsDurable
<1>4. CASE \/ Crash \/ StartScan \/ SummariseClasses \/ FinishReapply \/ CommitIndex
           \/ CommitCache \/ \E c \in Class : ScanFile(c) \/ ReapplyClass(c)
  BY <1>0, <1>1, <1>2, <1>4 DEF Crash, StartScan, SummariseClasses, FinishReapply,
     CommitIndex, CommitCache, ScanFile, ReapplyClass, FreshInv
<1>5. ASSUME NEW c \in Class, NEW h \in Hash, NEW class \in Text,
             NEW methods \in [Sig -> Text], Settles(c, h, class, methods)
      PROVE  KeepInv'
  <2>1. \A m \in Sig : Kept(c, m)'
    BY <1>0, <1>5, SettledKeeps
  <2>2. ASSUME NEW d \in Class \ {c}, NEW m \in Sig PROVE Kept(d, m)'
    <3>1. indexTx'[d] = indexTx[d]
      BY <1>0, <1>5, SettledRows
    <3>2. UNCHANGED <<index, cache>>
      BY <1>5 DEF Settles
    <3>3. QED
      BY <3>1, <3>2 DEF KeepInv, Kept, IsDurable
  <2>3. QED
    BY <1>0, <2>1, <2>2 DEF KeepInv
<1>6. ASSUME NEW c \in Class, NEW withClass \in BOOLEAN, NEW ms \in SUBSET Sig,
             ImportEntry(c, withClass, ms)
      PROVE  KeepInv'
  <2> DEFINE h == HashNow(c)
             new == WithImport(indexTx[c], h, withClass, ms)
  <2>1. /\ h \in Hash /\ indexTx[c] \in IndexRow
        /\ \A d \in Class : indexTx'[d] = IF d = c THEN new ELSE indexTx[d]
    BY <1>0, <1>6, ImportRows
  <2>2. UNCHANGED <<index, cache>>
    BY <1>6 DEF ImportEntry
  <2> HIDE DEF h
  <2>3. new.rev = indexTx[c].rev
    BY <2>1 DEF WithImport, IndexRow
  <2>4. ASSUME NEW m \in Sig PROVE Kept(c, m)'
    <3> DEFINE was == index[c].methods[m]
    <3>1. /\ m \in ms => new.methods[m] = [src |-> "import", of |-> h]
                         /\ new.methodAt[m] = h
          /\ m \notin ms => new.methods[m] = indexTx[c].methods[m]
                            /\ new.methodAt[m] = indexTx[c].methodAt[m]
      BY <2>1, WithImportMethods
    <3> HIDE DEF new
    <3>2. CASE was.src = "import" /\ IsDurable(c)
      <4>1. was = [src |-> "import", of |-> was.of]
        BY <1>0, <3>2, ServedMethodStamped
      <4>2. QED
        BY <2>1, <2>2, <2>3, <3>1, <4>1 DEF KeepInv, Kept, IsDurable
    <3>3. CASE ~(was.src = "import" /\ IsDurable(c))
      BY <2>2, <3>3 DEF Kept, IsDurable
    <3>4. QED
      BY <3>2, <3>3
  <2> HIDE DEF new
  <2>5. ASSUME NEW d \in Class \ {c}, NEW m \in Sig PROVE Kept(d, m)'
    BY <2>1, <2>2 DEF KeepInv, Kept, IsDurable
  <2>6. QED
    BY <1>0, <2>4, <2>5 DEF KeepInv
<1>7. QED
  BY <1>0, <1>3, <1>4, <1>5, <1>6, RowSteps

\* How a step can change what the index has committed.
LEMMA IndexCommits ==
  ASSUME FreshInv, [Next]_vars
  PROVE  \/ index' = index \/ index' = indexTx \/ StartScan
         \/ \A c \in Class : index'[c].methods = index[c].methods
<1>1. \A c \in Class : ScanFile(c) => \A d \in Class : index'[d].methods = index[d].methods
  BY DEF ScanFile, FreshInv, TypeInv, TypeOK, IndexRow
<1>2. SummariseClasses => \A d \in Class : index'[d].methods = index[d].methods
  BY DEF SummariseClasses, FreshInv, TypeInv, TypeOK, IndexRow
<1>3. QED
  BY <1>1, <1>2, RowSteps DEF Quiet, Crash, FinishReapply, CommitIndex, CommitCache,
     ReapplyClass, Settles, ImportEntry, files

\* When every entry describes its class and all of its methods: a describe,
\* an import or a restoring scan that finds the structure a durable method
\* text was stamped for leaves that text in place.
THEOREM WholeEntriesKeepMethods ==
  ASSUME WholeEntriesOnly
  PROVE  Spec => UnchangedMethodImportKept
<1> DEFINE A == \A c \in Class, m \in Sig : LET was == index[c].methods[m] IN
                  (/\ was.src = "import" /\ IsDurable(c)
                   /\ index'[c].rev = index[c].rev /\ index'[c].methodAt[m] = was.of)
                    => index'[c].methods[m] = was
<1>1. Init => KeepInv
  BY WholeInit DEF Init, KeepInv, Kept
<1>2. KeepInv /\ [Next]_vars => KeepInv'
  BY KeepStep
<1>3. KeepInv /\ [Next]_vars => [A]_vars
  <2> SUFFICES ASSUME KeepInv, [Next]_vars PROVE A
    OBVIOUS
  <2>1. SUFFICES ASSUME NEW c \in Class, NEW m \in Sig,
                        index[c].methods[m].src = "import", IsDurable(c),
                        index'[c].rev = index[c].rev,
                        index'[c].methodAt[m] = index[c].methods[m].of
                 PROVE  index'[c].methods[m] = index[c].methods[m]
    OBVIOUS
  <2>2. WholeInv /\ FreshInv
    BY DEF KeepInv, WholeInv
  <2>3. index[c].methods[m].of \in Hash
    BY <2>1, <2>2, ServedMethodStamped
  <2>4. CASE StartScan
    BY <2>1, <2>3, <2>4, HashIsNotNull DEF StartScan, NoRow
  <2>5. CASE index' = indexTx
    BY <2>1, <2>5 DEF KeepInv, Kept
  <2>6. QED
    BY <2>1, <2>2, <2>4, <2>5, IndexCommits
<1> HIDE DEF A
<1>4. Spec => [][A]_vars
  BY <1>1, <1>2, <1>3, PTL DEF Spec
<1>5. QED
  BY <1>4 DEF A, UnchangedMethodImportKept


-----------------------------------------------------------------------------
(* What a crash costs.                                                       *)

\* Classes whose generated text only the running command's connection has.
Unsaved == {c \in Class : cacheTx.gen[c] # cache.gen[c]}

\* Texts to be generated again if the process dies now.
CrashLosesLittle == Cardinality(Unsaved) <= ProgressEvery

\* The counter of the loop bounds them until the next commit; no other command
\* generates any.
LossInv ==
  /\ IsFiniteSet(Unsaved)
  /\ pc \in {"describe", "llm"} => Cardinality(Unsaved) <= since
  /\ pc \in {"commitIndex", "commitCache"} => Cardinality(Unsaved) <= ProgressEvery
  /\ pc \notin {"describe", "llm", "commitIndex", "commitCache"} => Unsaved = {}

\* Settling a class adds it to what is unsaved, or nothing.
LEMMA LossVisit ==
  ASSUME TypeInv, LossInv, pc \in {"describe", "llm"}, NEW c \in Class, Visited(c),
         Unsaved' \subseteq Unsaved \cup {c}
  PROVE  LossInv'
<1>1. /\ since \in 0 .. ProgressEvery - 1 /\ ProgressEvery \in Nat \ {0}
      /\ IsFiniteSet(Unsaved) /\ Cardinality(Unsaved) <= since
  BY ConstantsAssumption DEF TypeInv, TypeOK, LossInv
<1>2. /\ IsFiniteSet(Unsaved \cup {c}) /\ Cardinality(Unsaved \cup {c}) \in Nat
      /\ Cardinality(Unsaved) \in Nat /\ Cardinality(Unsaved \cup {c}) <= Cardinality(Unsaved) + 1
  <2>1. /\ IsFiniteSet(Unsaved \cup {c})
        /\ Cardinality(Unsaved \cup {c}) \in {Cardinality(Unsaved), Cardinality(Unsaved) + 1}
    BY <1>1, FS_AddElement
  <2>2. Cardinality(Unsaved) \in Nat /\ Cardinality(Unsaved \cup {c}) \in Nat
    BY <1>1, <2>1, FS_CardinalityType
  <2>3. QED
    BY <2>1, <2>2
<1>3. IsFiniteSet(Unsaved') /\ Cardinality(Unsaved') \in Nat /\ Cardinality(Unsaved') <= since + 1
  BY <1>1, <1>2, FS_Subset, FS_CardinalityType
<1>4. \/ pc' = "commitIndex" /\ since + 1 = ProgressEvery
      \/ pc' = "describe" /\ since' = since + 1
  BY DEF Visited
<1>5. QED
  BY <1>1, <1>3, <1>4 DEF LossInv

\* A step that generates nothing.
LEMMA LossQuiet ==
  ASSUME LossInv, Unsaved' = Unsaved,
         \/ pc' = pc /\ since' = since
         \/ {pc, pc'} \cap {"describe", "llm", "commitIndex", "commitCache"} = {}
         \/ pc = "describe" /\ pc' = "llm" /\ since' = since
         \/ pc = "commitIndex" /\ pc' = "commitCache"
  PROVE  LossInv'
BY DEF LossInv

\* A step after which nothing is unsaved.
LEMMA LossNone ==
  ASSUME Unsaved' = {}, TypeInv'
  PROVE  LossInv'
<1>1. IsFiniteSet({}) /\ Cardinality({}) = 0
  BY FS_EmptySet
<1>2. since' \in Nat /\ ProgressEvery \in Nat
  BY ConstantsAssumption DEF TypeInv, TypeOK
<1>3. QED
  BY <1>1, <1>2 DEF LossInv

LEMMA LossStep == TypeInv /\ TypeInv' /\ LossInv /\ [Next]_vars => LossInv'
<1> SUFFICES ASSUME TypeInv, TypeInv', LossInv, [Next]_vars PROVE LossInv'
  OBVIOUS
<1>1. CASE UNCHANGED vars \/ \E c \in Class : Edit(c)
  BY <1>1, LossQuiet DEF vars, Edit, files, Unsaved
<1>2. CASE Crash
  BY <1>2, LossNone DEF Crash, Unsaved
<1>3. CASE Scan
  <2>1. UNCHANGED <<cache, cacheTx>>
    BY <1>3 DEF Scan, StartScan, ScanFile, SummariseClasses, ReapplyClass, FinishReapply
  <2>2. {pc, pc'} \cap {"describe", "llm", "commitIndex", "commitCache"} = {}
    BY <1>3 DEF Scan, StartScan, ScanFile, SummariseClasses, ReapplyClass, FinishReapply, Return
  <2>3. QED
    BY <2>1, <2>2, LossQuiet DEF Unsaved
<1>4. CASE \E c \in Class : DescribeFromImport(c)
  <2>1. PICK c \in Class : DescribeFromImport(c)
    BY <1>4
  <2>2. pc = "describe" /\ Visited(c) /\ Unsaved' = Unsaved
    BY <2>1 DEF DescribeFromImport, Unsaved
  <2>3. QED
    BY <2>2, LossVisit
<1>5. CASE \E c \in Class, fresh \in BOOLEAN : DescribeFromCache(c, fresh)
  <2>1. PICK c \in Class, fresh \in BOOLEAN : DescribeFromCache(c, fresh)
    BY <1>5
  <2>2. pc = "describe" /\ Visited(c) /\ Unsaved' = Unsaved
    BY <2>1 DEF DescribeFromCache, NeedsText, Unsaved
  <2>3. QED
    BY <2>2, LossVisit
<1>6. CASE \E c \in Class, fresh \in BOOLEAN : DescribeDeterministically(c, fresh)
  <2>1. PICK c \in Class, fresh \in BOOLEAN : DescribeDeterministically(c, fresh)
    BY <1>6
  <2>2. PICK x : cacheTx' = [cacheTx EXCEPT !.gen[c] = x]
    BY <2>1 DEF DescribeDeterministically, CachePut
  <2>3. pc = "describe" /\ Visited(c) /\ cache' = cache
    BY <2>1 DEF DescribeDeterministically, NeedsText
  <2>4. Unsaved' \subseteq Unsaved \cup {c}
    BY <2>2, <2>3 DEF Unsaved, TypeInv, TypeOK, Store
  <2>5. QED
    BY <2>3, <2>4, LossVisit
<1>7. CASE \E answered \in BOOLEAN, named \in SUBSET Sig : LlmReturns(answered, named)
  <2>1. PICK answered \in BOOLEAN, named \in SUBSET Sig : LlmReturns(answered, named)
    BY <1>7
  <2>2. PICK a \in asked : /\ Visited(a.class)
                           /\ \/ cacheTx' = cacheTx
                              \/ \E x : cacheTx' = [cacheTx EXCEPT !.gen[a.class] = x]
    BY <2>1 DEF LlmReturns, CachePut
  <2>3. pc = "llm" /\ cache' = cache /\ a.class \in Class
    BY <2>1 DEF LlmReturns, TypeInv, TypeOK
  <2>4. Unsaved' \subseteq Unsaved \cup {a.class}
    BY <2>2, <2>3 DEF Unsaved, TypeInv, TypeOK, Store
  <2>5. QED
    BY <2>2, <2>3, <2>4, LossVisit
<1>8. CASE \E model \in Model, force \in BOOLEAN : StartDescribe(model, force)
  <2>1. pc = "idle" /\ UNCHANGED <<cache, cacheTx>>
    BY <1>8 DEF StartDescribe, files
  <2>2. QED
    BY <2>1, LossNone DEF LossInv, Unsaved
<1>9. CASE \E c \in Class, fresh \in BOOLEAN : AskLlm(c, fresh)
  BY <1>9, LossQuiet DEF AskLlm, NeedsText, files, Unsaved
<1>10. CASE FinishDescribe
  <2>1. pc = "describe" /\ pc' = "commitIndex" /\ Unsaved' = Unsaved
    BY <1>10 DEF FinishDescribe, files, Unsaved
  <2>2. since \in 0 .. ProgressEvery - 1 /\ ProgressEvery \in Nat /\ Cardinality(Unsaved) \in Nat
    BY ConstantsAssumption, FS_CardinalityType DEF TypeInv, TypeOK, LossInv
  <2>3. QED
    BY <2>1, <2>2 DEF LossInv
<1>11. CASE Import
  <2>1. /\ pc \in {"idle", "import"} /\ pc' \in {"import", "commitIndex"}
        /\ cache' = cache /\ cacheTx'.gen = cacheTx.gen
    BY <1>11 DEF Import, StartImport, ImportEntry, ImportNothing, FinishImport, files, TypeInv, TypeOK, Store
  <2>2. Unsaved' = {}
    BY <2>1 DEF LossInv, Unsaved
  <2>3. QED
    BY <2>2, LossNone
<1>12. CASE CommitIndex
  BY <1>12, LossQuiet DEF CommitIndex, Unsaved
<1>13. CASE CommitCache
  BY <1>13, LossNone DEF CommitCache, Unsaved
<1>14. QED
  BY <1>1, <1>2, <1>3, <1>4, <1>5, <1>6, <1>7, <1>8, <1>9, <1>10, <1>11, <1>12, <1>13 DEF Next, Describe

\* describe_repo, the commit every progress_every classes: whenever the process
\* dies, the LLM is asked again for at most that many classes.
THEOREM CrashesLoseLittle == Spec => []CrashLosesLittle
<1>1. Init => LossInv
  <2>1. Init => Unsaved = {} /\ pc = "idle"
    BY DEF Init, Unsaved
  <2>2. QED
    BY <2>1, FS_EmptySet DEF LossInv
<1>2. TypeInv /\ LossInv => CrashLosesLittle
  <2> SUFFICES ASSUME TypeInv, LossInv PROVE Cardinality(Unsaved) <= ProgressEvery
    BY DEF CrashLosesLittle
  <2>1. /\ since \in 0 .. ProgressEvery - 1 /\ ProgressEvery \in Nat /\ Cardinality(Unsaved) \in Nat
        /\ Cardinality({}) = 0
    BY ConstantsAssumption, FS_CardinalityType, FS_EmptySet DEF TypeInv, TypeOK, LossInv
  <2>2. QED
    BY <2>1 DEF LossInv
<1>3. QED
  BY <1>1, <1>2, LossStep, TypeInit, TypeStep, PTL DEF Spec
=============================================================================
