------------------------------ MODULE CsvExport -----------------------------
(***************************************************************************)
(* csvExport: nodeset files are imported one after the other and written   *)
(* as CSV, the nodes of each class to a file of their own, the references  *)
(* to one file.  A node id is written as the number of its namespace and   *)
(* its name; the numbers come from addNamespace(), which the loader calls  *)
(* for every namespace uri of a file, and which keeps one table of uris    *)
(* for all of them.                                                        *)
(*                                                                         *)
(* Every line that was written remembers the file and the uri it is about, *)
(* which the program does not.                                             *)
(***************************************************************************)
EXTENDS Integers, FiniteSets, SequencesExt

CONSTANTS Uri, BaseUri,        \* namespaces; that of number 0
          Name,                \* names of nodes
          Class,               \* the node classes, in the order they are written in
          Nodesets,            \* the lists of files a behaviour may be about
          Capacity             \* room in the table of uris

(* A node id in a file: namespace 0, or one of the file's uris.            *)
FileId(file) == [ns : 0..Len(file.uris), name : Name]

FileNode(file) == [id : FileId(file), class : Range(Class), targets : Seq(FileId(file))]

ASSUME CsvAssumption ==
  /\ BaseUri \notin Uri
  /\ Capacity \in Nat \ {0}
  /\ Class \in Seq(Range(Class))
  /\ {"Object", "ObjectType"} \subseteq Range(Class)
  /\ \A fs \in Nodesets :
       /\ fs \in Seq(Range(fs))
       /\ \A file \in Range(fs) :
            /\ file.uris \in Seq(Uri) /\ IsInjective(file.uris)
            /\ file.nodes \in Seq(FileNode(file))

VARIABLES files,               \* constant in one behaviour, as is ...
          kept,                \* do the loader's strings outlive the loader?
          cnt,                 \* the file that is read
          step,                \* "import", "write", "done", "failed", "crashed"
          class,               \* the class that is written next
          uris,                \* the table of addNamespace
          known,               \* its length when the file was opened
          numbers,             \* what it has returned for the uris of the file
          nodeLines, refLines  \* what was written

vars == <<files, kept, cnt, step, class, uris, known, numbers, nodeLines, refLines>>

Init ==
  /\ files \in Nodesets
  /\ kept \in BOOLEAN
  /\ cnt = 1
  /\ step = IF files = <<>> THEN "done" ELSE "import"
  /\ class = 1
  /\ uris = <<BaseUri>>
  /\ known = 1
  /\ numbers = <<>>
  /\ nodeLines = {} /\ refLines = {}

File == files[cnt]

-----------------------------------------------------------------------------
(* The table keeps the loader's strings and copies none.  Where they go    *)
(* with the loader, those of earlier files are memory that was freed: a    *)
(* comparison with one may find it equal or not.                           *)
Stale == IF kept THEN {} ELSE 2..known

(* Defect: the last uri of the table is not compared.                      *)
EqualButLast(uri) == {k \in 1..(Len(uris) - 1) \ Stale : uris[k] = uri}

Equal(uri) == {k \in DOMAIN uris \ Stale : uris[k] = uri}

(* The places where the search may end.                                    *)
Places(uri) ==
  {k \in Stale \cup Equal(uri) : \A e \in Equal(uri) : k <= e}

(* Defect: the index of the uri before the new one.                        *)
NumberNewShort == Len(uris) - 1

(* For a new uri it returns the number of uris, counting the new one.      *)
NumberNew == Len(uris) + 1

(* For a known one the index, which counts from 0.                         *)
NumberKnown(k) == k - 1

NextUri == File.uris[Len(numbers) + 1]

Importing == step = "import" /\ Len(numbers) < Len(File.uris)

AddNamespace ==
  /\ Importing
  /\ \/ \E k \in Places(NextUri) :
          /\ numbers' = Append(numbers, NumberKnown(k))
          /\ UNCHANGED uris
     \/ /\ Equal(NextUri) = {} /\ Len(uris) < Capacity
        /\ numbers' = Append(numbers, NumberNew)
        /\ uris' = Append(uris, NextUri)
  /\ UNCHANGED <<files, kept, cnt, step, class, known, nodeLines, refLines>>

(* Freed memory is read, or the table has no room and is written beyond.   *)
Crash ==
  /\ Importing
  /\ \/ Stale # {}
     \/ Equal(NextUri) = {} /\ Len(uris) = Capacity
  /\ step' = "crashed"
  /\ UNCHANGED <<files, kept, cnt, class, uris, known, numbers, nodeLines, refLines>>

ImportFails ==
  /\ step = "import"
  /\ step' = "failed"
  /\ UNCHANGED <<files, kept, cnt, class, uris, known, numbers, nodeLines, refLines>>

Imported ==
  /\ step = "import"
  /\ Len(numbers) = Len(File.uris)
  /\ step' = "write"
  /\ UNCHANGED <<files, kept, cnt, class, uris, known, numbers, nodeLines, refLines>>

-----------------------------------------------------------------------------
(* A node id as it is written.                                             *)
Written(id) ==
  [file   |-> cnt,
   uri    |-> IF id.ns = 0 THEN BaseUri ELSE File.uris[id.ns],
   number |-> IF id.ns = 0 THEN 0 ELSE numbers[id.ns],
   name   |-> id.name]

OfClass == {n \in Range(File.nodes) : n.class = Class[class]}

DumpNodes == {Written(n.id) : n \in OfClass}

(* Only those of objects and object types.                                 *)
DumpReferences ==
  UNION {{<<Written(n.id), Written(t)>> : t \in Range(n.targets)} :
           n \in {m \in OfClass : m.class \in {"Object", "ObjectType"}}}

(* Defect: the last class is left out.                                     *)
LastClassEarly == class + 1 = Len(Class)

(* Defect: one class more is taken than there are.                         *)
LastClassLate == class = Len(Class) + 1

LastClass == class = Len(Class)

(* Defect: the class does not change.                                      *)
NextClassSame == UNCHANGED <<class, cnt, step, known, numbers>>

NextClass == class' = class + 1 /\ UNCHANGED <<cnt, step, known, numbers>>

(* The loader is deleted.                                                  *)
NextFile ==
  /\ class' = 1
  /\ numbers' = <<>>
  /\ known' = Len(uris)
  /\ IF cnt = Len(files)
     THEN step' = "done" /\ UNCHANGED cnt
     ELSE step' = "import" /\ cnt' = cnt + 1

Write ==
  /\ step = "write"
  /\ nodeLines' = nodeLines \cup DumpNodes
  /\ refLines' = refLines \cup DumpReferences
  /\ IF LastClass THEN NextFile ELSE NextClass
  /\ UNCHANGED <<files, kept, uris>>

Next ==
  \/ AddNamespace
  \/ Crash
  \/ ImportFails
  \/ Imported
  \/ Write

(* One process with one thread.                                            *)
Spec == Init /\ [][Next]_vars /\ WF_vars(Next)

-----------------------------------------------------------------------------
(***************************************************************************)
(* Properties                                                              *)
(***************************************************************************)
Line == [file : Nat \ {0}, uri : Uri \cup {BaseUri}, number : Nat, name : Name]

(* Every variable holds values of the type the code declares for it.       *)
TypeOK ==
  /\ cnt \in 1..(Len(files) + 1)
  /\ step \in {"import", "write", "done", "failed", "crashed"}
  /\ class \in 1..Len(Class)
  /\ uris \in Seq(Uri \cup {BaseUri}) /\ Len(uris) <= Capacity
  /\ known \in 1..Len(uris)
  /\ numbers \in Seq(Nat)
  /\ nodeLines \subseteq Line /\ refLines \subseteq Line \X Line

Lines == nodeLines \cup {r[1] : r \in refLines} \cup {r[2] : r \in refLines}

(* The uri of a line was new to the table, when its file was imported.     *)
New(line) ==
  line.uri # BaseUri /\ \A f \in 1..(line.file - 1) : line.uri \notin Range(files[f].uris)

(* One number means one namespace, in the lines of one file; and in those  *)
(* of two files, if both have added their namespaces or neither has: what  *)
(* addNamespace returns for a new uri is not the number it returns later.  *)
(* With strings that go with the loader it is only so for the first file.  *)
OneNumberOneNamespace ==
  \A l, m \in Lines :
    /\ l.file = m.file \/ (New(l) <=> New(m))
    /\ kept \/ {l.file, m.file} = {1}
    => (l.number = m.number <=> l.uri = m.uri)

WrittenFiles == 1..(IF step = "done" THEN cnt ELSE cnt - 1)

(* When a file is written, each end of a reference is the id of a node     *)
(* that was written, if it is a node of this file: whatever classes the    *)
(* two have and in which order these were written.                         *)
EndsAreWritten ==
  \A r \in refLines : \A f \in WrittenFiles :
    r[1].file = f =>
      /\ r[1] \in nodeLines
      /\ (\E n \in Range(files[f].nodes) :
            /\ n.id.name = r[2].name
            /\ r[2].uri = IF n.id.ns = 0 THEN BaseUri ELSE files[f].uris[n.id.ns])
           => r[2] \in nodeLines

(* Of kept strings, a table without room is one of too many namespaces:    *)
(* files that share them do not add them twice.                            *)
CrashesOnlyIfFull ==
  step = "crashed" /\ kept =>
    Cardinality(UNION {Range(files[f].uris) : f \in 1..cnt}) >= Capacity

(* All files are read, or the process ends before.                         *)
ExportEnds == <>(step \in {"done", "failed", "crashed"})
=============================================================================
