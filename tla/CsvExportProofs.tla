--------------------------- MODULE CsvExportProofs ---------------------------
(***************************************************************************)
(* Proofs about the lines that csvExport writes and the table of           *)
(* uris, for any files and any room in the table.                          *)
(***************************************************************************)
EXTENDS CsvExport, FiniteSetTheorems, SequenceTheorems, TLAPS

-----------------------------------------------------------------------------
Busy == step \in {"import", "write"}

(* No file before f has the uri u.                                         *)
NewIn(u, f) == \A g \in 1..(f - 1) : u \notin Range(files[g].uris)

FirstPlace(u, p) ==
  uris[p] = u /\ \A q \in 1..(p - 1) : uris[q] # u

(* What n is, if it is what addNamespace returned for u in file f.         *)
Numbered(f, u, n) ==
  kept \/ f = 1 =>
    \E p \in DOMAIN uris :
      /\ FirstPlace(u, p)
      /\ n = IF u # BaseUri /\ NewIn(u, f) THEN p ELSE p - 1

(***************************************************************************)
(* The inductive invariant: while a file is read, the table has the uris   *)
(* of the files before it and those of this file that have a number, and   *)
(* the uris of earlier files come first in it.                             *)
(***************************************************************************)
Reading ==
  Busy =>
    /\ cnt \in 1..Len(files)
    /\ Len(numbers) <= Len(File.uris)
    /\ step = "write" => Len(numbers) = Len(File.uris)
    /\ cnt = 1 => known = 1
    /\ \A k \in 1..Len(numbers) : Numbered(cnt, File.uris[k], numbers[k])

NoOthers ==
  Busy /\ (kept \/ cnt = 1) =>
    \A p \in 2..Len(uris) :
      ~NewIn(uris[p], cnt) \/ \E k \in 1..Len(numbers) : uris[p] = File.uris[k]

NoneMissing ==
  Busy /\ kept =>
    \A g \in 1..(cnt - 1) : Range(files[g].uris) \subseteq Range(uris)

Ordered ==
  kept => \A q \in 1..Len(uris), f \in 1..cnt : \A p \in 2..(q - 1) :
            NewIn(uris[p], f) => NewIn(uris[q], f)

LinesNumbered ==
  \A l \in Lines : l.file \in 1..cnt /\ Numbered(l.file, l.uri, l.number)

IInv ==
  /\ TypeOK
  /\ files \in Nodesets /\ kept \in BOOLEAN
  /\ uris[1] = BaseUri
  /\ Reading
  /\ NoOthers
  /\ NoneMissing
  /\ Ordered
  /\ LinesNumbered

-----------------------------------------------------------------------------
LEMMA FilesAreTyped ==
  ASSUME files \in Nodesets
  PROVE  /\ Len(files) \in Nat /\ DOMAIN files = 1..Len(files)
         /\ \A f \in 1..Len(files) :
              /\ files[f].uris \in Seq(Uri) /\ IsInjective(files[f].uris)
              /\ files[f].nodes \in Seq(FileNode(files[f]))
<1>1. files \in Seq(Range(files))
  BY CsvAssumption
<1>2. Len(files) \in Nat /\ DOMAIN files = 1..Len(files)
  BY <1>1, LenProperties
<1>3. \A f \in 1..Len(files) : files[f] \in Range(files)
  BY <1>2 DEF Range
<1> QED
  BY <1>2, <1>3, CsvAssumption

LEMMA TableIsTyped ==
  ASSUME TypeOK
  PROVE  /\ uris \in Seq(Uri \cup {BaseUri}) /\ Len(uris) \in Nat /\ Len(uris) >= 1
         /\ DOMAIN uris = 1..Len(uris)
         /\ numbers \in Seq(Nat) /\ Len(numbers) \in Nat
         /\ DOMAIN numbers = 1..Len(numbers)
         /\ cnt \in Nat /\ known \in Nat
<1>1. /\ uris \in Seq(Uri \cup {BaseUri}) /\ numbers \in Seq(Nat)
      /\ known \in 1..Len(uris) /\ cnt \in 1..(Len(files) + 1)
  BY DEF TypeOK
<1>2. Len(uris) \in Nat /\ DOMAIN uris = 1..Len(uris)
      /\ Len(numbers) \in Nat /\ DOMAIN numbers = 1..Len(numbers)
  BY <1>1, LenProperties
<1> QED
  BY <1>1, <1>2

LEMMA TableGrows ==
  ASSUME TypeOK, NEW v \in Uri, uris' = Append(uris, v)
  PROVE  /\ uris' \in Seq(Uri \cup {BaseUri})
         /\ Len(uris') = Len(uris) + 1 /\ DOMAIN uris' = 1..(Len(uris) + 1)
         /\ \A q \in 1..Len(uris) : uris'[q] = uris[q]
         /\ uris'[Len(uris) + 1] = v
<1>1. uris \in Seq(Uri \cup {BaseUri}) /\ v \in Uri \cup {BaseUri}
  BY TableIsTyped
<1>2. /\ uris' \in Seq(Uri \cup {BaseUri}) /\ Len(uris') = Len(uris) + 1
      /\ \A q \in 1..Len(uris) : uris'[q] = uris[q]
      /\ uris'[Len(uris) + 1] = v
  BY <1>1, AppendProperties
<1>3. DOMAIN uris' = 1..Len(uris')
  BY <1>2, LenProperties
<1> QED
  BY <1>2, <1>3

(* A number keeps its meaning when the table grows.                        *)
LEMMA NumberedGrows ==
  ASSUME TypeOK, UNCHANGED <<files, kept>>,
         uris' = uris \/ \E v \in Uri : uris' = Append(uris, v),
         NEW f, NEW u, NEW n, Numbered(f, u, n)
  PROVE  Numbered(f, u, n)'
<1>1. NewIn(u, f)' <=> NewIn(u, f)
  BY DEF NewIn
<1>2. ASSUME NEW p \in DOMAIN uris, FirstPlace(u, p)
      PROVE  p \in DOMAIN uris' /\ FirstPlace(u, p)'
  <2>1. CASE uris' = uris
    BY <1>2, <2>1 DEF FirstPlace
  <2>2. CASE \E v \in Uri : uris' = Append(uris, v)
    <3>1. Len(uris) \in Nat /\ p \in 1..Len(uris)
      BY <1>2, TableIsTyped
    <3>2. /\ DOMAIN uris' = 1..(Len(uris) + 1)
          /\ \A q \in 1..Len(uris) : uris'[q] = uris[q]
      BY <2>2, TableGrows
    <3> QED
      BY <1>2, <3>1, <3>2 DEF FirstPlace
  <2> QED
    BY <2>1, <2>2
<1>3. CASE kept \/ f = 1
  <2>1. PICK p \in DOMAIN uris :
          FirstPlace(u, p) /\ n = IF u # BaseUri /\ NewIn(u, f) THEN p ELSE p - 1
    BY <1>3 DEF Numbered
  <2>2. p \in DOMAIN uris' /\ FirstPlace(u, p)'
    BY <1>2, <2>1
  <2> QED
    BY <1>1, <2>1, <2>2 DEF Numbered
<1>4. CASE ~(kept \/ f = 1)
  BY <1>4 DEF Numbered
<1> QED
  BY <1>3, <1>4

(* The file that is read.                                                  *)
LEMMA FileIsTyped ==
  ASSUME IInv, Busy
  PROVE  /\ cnt \in 1..Len(files) /\ Len(files) \in Nat
         /\ File.uris \in Seq(Uri) /\ Len(File.uris) \in Nat
         /\ \A k \in 1..Len(File.uris) : File.uris[k] \in Uri /\ File.uris[k] # BaseUri
         /\ \A k, l \in 1..Len(File.uris) : File.uris[k] = File.uris[l] => k = l
         /\ \A n \in Range(File.nodes) :
              n.id \in FileId(File) /\ Range(n.targets) \subseteq FileId(File)
<1>1. /\ cnt \in 1..Len(files) /\ Len(files) \in Nat
      /\ File.uris \in Seq(Uri) /\ IsInjective(File.uris)
      /\ File.nodes \in Seq(FileNode(File))
  BY FilesAreTyped DEF IInv, Reading, File
<1>2. Len(File.uris) \in Nat /\ DOMAIN File.uris = 1..Len(File.uris)
  BY <1>1, LenProperties
<1>3. \A k \in 1..Len(File.uris) : File.uris[k] \in Uri /\ File.uris[k] # BaseUri
  BY <1>1, <1>2, ElementOfSeq, CsvAssumption
<1>4. \A k, l \in 1..Len(File.uris) : File.uris[k] = File.uris[l] => k = l
  BY <1>1, <1>2 DEF IsInjective
<1>5. ASSUME NEW n \in Range(File.nodes)
      PROVE  n.id \in FileId(File) /\ Range(n.targets) \subseteq FileId(File)
  <2>1. n \in FileNode(File)
    BY <1>1, <1>5, LenProperties, ElementOfSeq DEF Range
  <2>2. n.id \in FileId(File) /\ n.targets \in Seq(FileId(File))
    BY <2>1 DEF FileNode
  <2>3. Range(n.targets) \subseteq FileId(File)
    BY <2>2, LenProperties, ElementOfSeq DEF Range
  <2> QED
    BY <2>2, <2>3
<1> QED
  BY <1>1, <1>2, <1>3, <1>4, <1>5

LEMMA InitIInv == Init => IInv
<1> SUFFICES ASSUME Init PROVE IInv
  OBVIOUS
<1>1. Len(files) \in Nat /\ DOMAIN files = 1..Len(files) /\ files \in Seq(Range(files))
  BY FilesAreTyped, CsvAssumption DEF Init
<1>2. uris = <<BaseUri>> /\ Len(uris) = 1 /\ uris[1] = BaseUri /\ Len(numbers) = 0
  BY DEF Init
<1>3. Len(Class) \in Nat /\ Len(Class) >= 1
  <2>1. Class \in Seq(Range(Class)) /\ Range(Class) # {}
    BY CsvAssumption
  <2>2. Len(Class) \in Nat /\ DOMAIN Class = 1..Len(Class)
    BY <2>1, LenProperties
  <2>3. DOMAIN Class # {}
    BY <2>1 DEF Range
  <2> QED
    BY <2>2, <2>3
<1>4. Lines = {}
  BY DEF Init, Lines
<1>5. files # <<>> => Len(files) >= 1
  BY <1>1, EmptySeq
<1>6. TypeOK
  <2>1. uris \in Seq(Uri \cup {BaseUri}) /\ numbers \in Seq(Nat)
    BY <1>2 DEF Init
  <2> QED
    BY <1>1, <1>2, <1>3, <2>1, CsvAssumption DEF Init, TypeOK
<1>7. Reading
  BY <1>1, <1>2, <1>5, FilesAreTyped, LenProperties DEF Init, Reading, Busy, File
<1>8. NoOthers /\ NoneMissing /\ Ordered
  BY <1>2 DEF Init, NoOthers, NoneMissing, Ordered
<1> QED
  BY <1>2, <1>4, <1>6, <1>7, <1>8 DEF Init, IInv, LinesNumbered

-----------------------------------------------------------------------------
(* What addNamespace returns for the next uri, and what is in the table    *)
(* then.                                                                   *)
LEMMA NextIsNumbered ==
  ASSUME IInv, AddNamespace
  PROVE  \E u \in Uri, n \in Nat :
           /\ Len(numbers) + 1 \in 1..Len(File.uris) /\ u = File.uris[Len(numbers) + 1]
           /\ numbers' = Append(numbers, n) /\ Numbered(cnt, u, n)'
           /\ \/ uris' = uris
              \/ /\ uris' = Append(uris, u) /\ Len(uris) < Capacity
                 /\ kept \/ cnt = 1 => NewIn(u, cnt)
<1>1. Busy /\ TypeOK /\ Len(numbers) < Len(File.uris) /\ UNCHANGED <<files, kept, cnt>>
  BY DEF AddNamespace, Importing, Busy, IInv
<1>2. Len(numbers) + 1 \in 1..Len(File.uris) /\ NextUri \in Uri /\ NextUri # BaseUri
  BY <1>1, FileIsTyped, TableIsTyped DEF NextUri
<1>3. PICK u \in Uri : u = NextUri /\ u = File.uris[Len(numbers) + 1] /\ u # BaseUri
  BY <1>2 DEF NextUri
<1>4. \A k \in 1..Len(numbers) : File.uris[k] # u
  BY <1>1, <1>2, <1>3, FileIsTyped, TableIsTyped
<1>5. kept \/ cnt = 1 => Stale = {}
  BY <1>1 DEF IInv, Reading, Stale
<1>6. Stale \subseteq DOMAIN uris /\ DOMAIN uris = 1..Len(uris) /\ Len(uris) \in Nat
  BY <1>1, TableIsTyped DEF Stale, TypeOK
<1>7. ASSUME NEW k \in Places(u), numbers' = Append(numbers, NumberKnown(k)), uris' = uris
      PROVE  NumberKnown(k) \in Nat /\ Numbered(cnt, u, NumberKnown(k))'
  <2>1. k \in 1..Len(uris) /\ NumberKnown(k) = k - 1 /\ NumberKnown(k) \in Nat
    BY <1>6, <1>7 DEF Places, Equal, NumberKnown
  <2>2. ASSUME kept \/ cnt = 1
        PROVE  FirstPlace(u, k) /\ ~NewIn(u, cnt)
    <3>1. k \in Equal(u) /\ \A e \in Equal(u) : k <= e
      BY <1>5, <1>7, <2>2 DEF Places
    <3>2. uris[k] = u /\ \A q \in 1..(k - 1) : uris[q] # u
      BY <1>5, <1>6, <2>1, <2>2, <3>1 DEF Equal
    <3>3. k # 1
      BY <1>3, <3>2 DEF IInv
    <3>4. k \in 2..Len(uris)
      BY <2>1, <3>3, <1>6
    <3>5. ~NewIn(u, cnt)
      BY <1>1, <1>4, <2>2, <3>2, <3>4 DEF IInv, NoOthers
    <3> QED
      BY <3>2, <3>5 DEF FirstPlace
  <2>3. Numbered(cnt, u, k - 1)
    BY <1>6, <2>1, <2>2 DEF Numbered
  <2>4. Numbered(cnt, u, k - 1)'
    BY <1>1, <1>7, <2>3 DEF Numbered, FirstPlace, NewIn
  <2>5. Numbered(cnt, u, NumberKnown(k))'
    BY <2>4 DEF NumberKnown
  <2> QED
    BY <2>1, <2>5
<1>8. ASSUME Equal(u) = {}, uris' = Append(uris, u)
      PROVE  /\ \E n \in Nat : n = NumberNew /\ Numbered(cnt, u, n)'
             /\ kept \/ cnt = 1 => NewIn(u, cnt)
  <2>1. PICK p \in Nat : p = Len(uris) + 1
    BY <1>6
  <2>2. /\ DOMAIN uris' = 1..p /\ uris'[p] = u
        /\ \A q \in 1..(p - 1) : uris'[q] = uris[q]
    BY <1>1, <1>6, <1>8, <2>1, TableGrows
  <2>3. ASSUME kept \/ cnt = 1
        PROVE  NewIn(u, cnt) /\ \A q \in 1..(p - 1) : uris[q] # u
    <3>1. \A q \in 1..(p - 1) : uris[q] # u
      BY <1>5, <1>6, <1>8, <2>1, <2>3 DEF Equal
    <3>2. u \notin Range(uris)
      BY <1>6, <2>1, <3>1 DEF Range
    <3>3. NewIn(u, cnt)
      BY <1>1, <2>3, <3>2 DEF NewIn, IInv, NoneMissing
    <3> QED
      BY <3>1, <3>3
  <2>4. Numbered(cnt, u, p)'
    <3>1. p \in DOMAIN uris' /\ uris'[p] = u
      BY <1>6, <2>1, <2>2
    <3>2. ASSUME kept \/ cnt = 1
          PROVE  FirstPlace(u, p)' /\ NewIn(u, cnt)'
      BY <1>1, <2>2, <2>3, <3>2 DEF FirstPlace, NewIn
    <3> QED
      BY <1>1, <1>3, <3>1, <3>2 DEF Numbered
  <2> QED
    BY <2>1, <2>3, <2>4 DEF NumberNew
<1>9. CASE \E k \in Places(u) : numbers' = Append(numbers, NumberKnown(k)) /\ uris' = uris
  BY <1>2, <1>3, <1>7, <1>9
<1>10. CASE /\ Equal(u) = {} /\ Len(uris) < Capacity
            /\ numbers' = Append(numbers, NumberNew) /\ uris' = Append(uris, u)
  BY <1>2, <1>3, <1>8, <1>10
<1> QED
  BY <1>3, <1>9, <1>10 DEF AddNamespace

LEMMA AddNamespaceStep == IInv /\ AddNamespace => IInv'
<1> SUFFICES ASSUME IInv, AddNamespace PROVE IInv'
  OBVIOUS
<1>1. PICK u \in Uri, n \in Nat :
        /\ Len(numbers) + 1 \in 1..Len(File.uris) /\ u = File.uris[Len(numbers) + 1]
        /\ numbers' = Append(numbers, n) /\ Numbered(cnt, u, n)'
        /\ \/ uris' = uris
           \/ /\ uris' = Append(uris, u) /\ Len(uris) < Capacity
              /\ kept \/ cnt = 1 => NewIn(u, cnt)
  BY NextIsNumbered
<1>2. /\ Busy /\ step = "import" /\ TypeOK /\ UNCHANGED <<File, Lines, Busy>>
      /\ UNCHANGED <<files, kept, cnt, step, class, known, nodeLines, refLines>>
  BY DEF AddNamespace, Importing, Busy, IInv, File, Lines
<1>3. /\ Len(uris) \in Nat /\ Len(uris) >= 1 /\ DOMAIN uris = 1..Len(uris)
      /\ Len(numbers) \in Nat /\ DOMAIN numbers = 1..Len(numbers)
      /\ Len(File.uris) \in Nat
  BY <1>2, TableIsTyped, FileIsTyped
<1>4. /\ numbers' \in Seq(Nat) /\ Len(numbers') = Len(numbers) + 1
      /\ numbers'[Len(numbers) + 1] = n
      /\ \A k \in 1..Len(numbers) : numbers'[k] = numbers[k]
  BY <1>1, <1>2, AppendProperties, TableIsTyped
<1>5. /\ uris' \in Seq(Uri \cup {BaseUri}) /\ Len(uris') \in Nat
      /\ Len(uris') >= Len(uris) /\ Len(uris') <= Capacity
      /\ DOMAIN uris' = 1..Len(uris')
      /\ \A q \in 1..Len(uris) : uris'[q] = uris[q]
      /\ \A q \in 1..Len(uris') : q \notin 1..Len(uris) =>
           uris'[q] = u /\ (kept \/ cnt = 1 => NewIn(u, cnt))
  <2>1. CASE uris' = uris
    BY <1>2, <1>3, <2>1, TableIsTyped DEF TypeOK
  <2>2. CASE /\ uris' = Append(uris, u) /\ Len(uris) < Capacity
             /\ kept \/ cnt = 1 => NewIn(u, cnt)
    BY <1>2, <1>3, <2>2, TableGrows, CsvAssumption
  <2> QED
    BY <1>1, <2>1, <2>2
<1>6. \A v, f : NewIn(v, f)' <=> NewIn(v, f)
  BY <1>2 DEF NewIn
<1>7. TypeOK'
  BY <1>2, <1>3, <1>4, <1>5 DEF TypeOK
<1>8. Reading'
  <2>1. ASSUME NEW k \in 1..Len(numbers')
        PROVE  Numbered(cnt, File.uris[k], numbers[k])'
    <3>1. CASE k \in 1..Len(numbers)
      <4>1. PICK v, m : v = File.uris[k] /\ m = numbers[k]
        OBVIOUS
      <4>2. Numbered(cnt, v, m)
        BY <1>2, <3>1, <4>1 DEF IInv, Reading
      <4>3. PICK f : f = cnt
        OBVIOUS
      <4>4. Numbered(f, v, m)'
        BY <1>1, <1>2, <4>2, <4>3, NumberedGrows
      <4> QED
        BY <1>2, <1>4, <3>1, <4>1, <4>3, <4>4
    <3>2. CASE k = Len(numbers) + 1
      BY <1>1, <1>2, <1>4, <3>2
    <3> QED
      BY <1>3, <1>4, <3>1, <3>2
  <2>2. Len(numbers') <= Len(File.uris)
    BY <1>1, <1>3, <1>4
  <2> QED
    BY <1>2, <2>1, <2>2 DEF IInv, Reading
<1>9. NoOthers'
  <2>1. SUFFICES ASSUME kept \/ cnt = 1, NEW p \in 2..Len(uris')
                 PROVE  \/ ~NewIn(uris'[p], cnt)
                        \/ \E k \in 1..Len(numbers') : uris'[p] = File.uris[k]
    BY <1>2, <1>6 DEF NoOthers
  <2>2. CASE p \in 1..Len(uris)
    <3>1. uris'[p] = uris[p] /\ p \in 2..Len(uris)
      BY <1>3, <1>5, <2>1, <2>2
    <3>2. \/ ~NewIn(uris[p], cnt)
          \/ \E k \in 1..Len(numbers) : uris[p] = File.uris[k]
      BY <1>2, <2>1, <3>1 DEF IInv, NoOthers
    <3> QED
      BY <1>3, <1>4, <3>1, <3>2
  <2>3. CASE p \notin 1..Len(uris)
    <3>1. uris'[p] = u
      BY <1>5, <2>1, <2>3
    <3> QED
      BY <1>1, <1>3, <1>4, <3>1
  <2> QED
    BY <2>2, <2>3
<1>10. NoneMissing'
  <2>1. Range(uris) \subseteq Range(uris')
    BY <1>3, <1>5 DEF Range
  <2> QED
    BY <1>2, <2>1 DEF IInv, NoneMissing
<1>11. Ordered'
  <2>1. SUFFICES ASSUME kept, NEW q \in 1..Len(uris'), NEW f \in 1..cnt,
                        NEW p \in 2..(q - 1), NewIn(uris'[p], f)
                 PROVE  NewIn(uris'[q], f)
    BY <1>2, <1>6 DEF Ordered
  <2>2. CASE q \in 1..Len(uris)
    <3>1. p \in 1..Len(uris) /\ uris'[p] = uris[p] /\ uris'[q] = uris[q]
      BY <1>3, <1>5, <2>1, <2>2
    <3> QED
      BY <2>1, <2>2, <3>1 DEF IInv, Ordered
  <2>3. CASE q \notin 1..Len(uris)
    <3>1. uris'[q] = u /\ NewIn(u, cnt)
      BY <1>5, <2>1, <2>3
    <3>2. cnt \in Nat /\ f \in Nat /\ f <= cnt
      BY <1>2, TableIsTyped
    <3>3. NewIn(u, f)
      BY <3>1, <3>2 DEF NewIn
    <3> QED
      BY <3>1, <3>3
  <2> QED
    BY <2>2, <2>3
<1>12. LinesNumbered'
  BY <1>1, <1>2, NumberedGrows DEF IInv, LinesNumbered
<1> QED
  BY <1>2, <1>3, <1>5, <1>7, <1>8, <1>9, <1>10, <1>11, <1>12 DEF IInv

(* Steps that write nothing and add nothing.                               *)
LEMMA OtherSteps ==
  ASSUME IInv, ImportFails \/ Crash \/ Imported \/ UNCHANGED vars
  PROVE  IInv'
<1>1. /\ UNCHANGED <<files, kept, cnt, class, uris, known, numbers, nodeLines, refLines>>
      /\ UNCHANGED <<File, Lines>>
      /\ \/ step' = step
         \/ step' \in {"failed", "crashed"}
         \/ step = "import" /\ step' = "write" /\ Len(numbers) = Len(File.uris)
  BY DEF ImportFails, Crash, Imported, vars, File, Lines
<1>2. Busy' => Busy
  BY <1>1 DEF Busy
<1>3. \A u, f : NewIn(u, f)' <=> NewIn(u, f)
  BY <1>1 DEF NewIn
<1>4. \A f, u, n : Numbered(f, u, n) => Numbered(f, u, n)'
  BY <1>1 DEF Numbered, NewIn, FirstPlace
<1>5. TypeOK'
  BY <1>1 DEF IInv, TypeOK
<1>6. Reading'
  BY <1>1, <1>2, <1>4 DEF IInv, Reading
<1>7. NoOthers' /\ NoneMissing' /\ Ordered'
  BY <1>1, <1>2, <1>3 DEF IInv, NoOthers, NoneMissing, Ordered
<1>8. LinesNumbered'
  BY <1>1, <1>4 DEF IInv, LinesNumbered
<1> QED
  BY <1>1, <1>5, <1>6, <1>7, <1>8 DEF IInv

-----------------------------------------------------------------------------
(* An id is written with the number of its namespace.                      *)
LEMMA WrittenIsNumbered ==
  ASSUME IInv, step = "write", NEW id \in FileId(File)
  PROVE  /\ Written(id) \in Line /\ Written(id).file = cnt
         /\ Numbered(cnt, Written(id).uri, Written(id).number)
<1>1. Busy /\ TypeOK
  BY DEF Busy, IInv
<1>2. /\ cnt \in Nat \ {0}
      /\ Len(numbers) = Len(File.uris) /\ Len(File.uris) \in Nat
      /\ id.ns \in 0..Len(File.uris) /\ id.name \in Name
  BY <1>1, FileIsTyped DEF IInv, Reading, FileId
<1>3. CASE id.ns = 0
  <2>1. Written(id) = [file |-> cnt, uri |-> BaseUri, number |-> 0, name |-> id.name]
    BY <1>3 DEF Written
  <2>2. 1 \in DOMAIN uris /\ FirstPlace(BaseUri, 1)
    BY <1>1, TableIsTyped DEF IInv, FirstPlace
  <2>3. Numbered(cnt, BaseUri, 0)
    BY <2>2 DEF Numbered
  <2> QED
    BY <1>2, <2>1, <2>3 DEF Line
<1>4. CASE id.ns # 0
  <2>1. Written(id) = [file |-> cnt, uri |-> File.uris[id.ns],
                       number |-> numbers[id.ns], name |-> id.name]
    BY <1>4 DEF Written
  <2>2. id.ns \in 1..Len(numbers) /\ id.ns \in 1..Len(File.uris)
    BY <1>2, <1>4
  <2>3. File.uris[id.ns] \in Uri /\ numbers[id.ns] \in Nat
    BY <1>1, <2>2, FileIsTyped, TableIsTyped, ElementOfSeq
  <2>4. Numbered(cnt, File.uris[id.ns], numbers[id.ns])
    BY <1>1, <2>2 DEF IInv, Reading
  <2> QED
    BY <1>2, <2>1, <2>3, <2>4 DEF Line
<1> QED
  BY <1>3, <1>4

LEMMA WriteLines ==
  ASSUME IInv, Write
  PROVE  /\ nodeLines' \subseteq Line /\ refLines' \subseteq Line \X Line
         /\ \A l \in Lines' : l \in Lines \/ \E id \in FileId(File) : l = Written(id)
<1>1. /\ step = "write" /\ Busy
      /\ nodeLines' = nodeLines \cup DumpNodes
      /\ refLines' = refLines \cup DumpReferences
  BY DEF Write, Busy
<1>2. ASSUME NEW l \in DumpNodes
      PROVE  \E id \in FileId(File) : l = Written(id)
  BY <1>1, <1>2, FileIsTyped DEF DumpNodes, OfClass
<1>3. ASSUME NEW r \in DumpReferences
      PROVE  \E id1, id2 \in FileId(File) : r = <<Written(id1), Written(id2)>>
  <2>1. PICK n \in OfClass : r \in {<<Written(n.id), Written(t)>> : t \in Range(n.targets)}
    BY <1>3 DEF DumpReferences
  <2>2. PICK t \in Range(n.targets) : r = <<Written(n.id), Written(t)>>
    BY <2>1
  <2>3. n.id \in FileId(File) /\ t \in FileId(File)
    BY <1>1, <2>1, <2>2, FileIsTyped DEF OfClass
  <2> QED
    BY <2>2, <2>3
<1>4. nodeLines' \subseteq Line
  BY <1>1, <1>2, WrittenIsNumbered DEF IInv, TypeOK
<1>5. refLines' \subseteq Line \X Line
  BY <1>1, <1>3, WrittenIsNumbered DEF IInv, TypeOK
<1>6. ASSUME NEW l \in Lines'
      PROVE  l \in Lines \/ \E id \in FileId(File) : l = Written(id)
  <2>1. CASE l \in nodeLines'
    BY <1>1, <1>2, <2>1 DEF Lines
  <2>2. ASSUME NEW r \in refLines', l = r[1] \/ l = r[2]
        PROVE  l \in Lines \/ \E id \in FileId(File) : l = Written(id)
    <3>1. CASE r \in refLines
      BY <2>2, <3>1 DEF Lines
    <3>2. CASE r \in DumpReferences
      <4>1. PICK id1, id2 \in FileId(File) : r = <<Written(id1), Written(id2)>>
        BY <1>3, <3>2
      <4> QED
        BY <2>2, <4>1
    <3> QED
      BY <1>1, <2>2, <3>1, <3>2
  <2> QED
    BY <1>6, <2>1, <2>2 DEF Lines
<1> QED
  BY <1>4, <1>5, <1>6

LEMMA WriteStep == IInv /\ Write => IInv'
<1> SUFFICES ASSUME IInv, Write PROVE IInv'
  OBVIOUS
<1>1. step = "write" /\ Busy /\ TypeOK /\ UNCHANGED <<files, kept, uris>>
  BY DEF Write, Busy, IInv
<1>2. /\ cnt \in 1..Len(files) /\ Len(files) \in Nat
      /\ Len(uris) \in Nat /\ Len(uris) >= 1 /\ DOMAIN uris = 1..Len(uris)
      /\ Len(numbers) = Len(File.uris) /\ Len(File.uris) \in Nat
  BY <1>1, FileIsTyped, TableIsTyped DEF IInv, Reading
<1>3. \A u, f : NewIn(u, f)' <=> NewIn(u, f)
  BY <1>1 DEF NewIn
<1>4. \A f, u, n : Numbered(f, u, n) => Numbered(f, u, n)'
  BY <1>1 DEF Numbered, NewIn, FirstPlace
<1>5. ASSUME NEW l \in Lines', NEW c \in Nat, cnt <= c
      PROVE  l.file \in 1..c /\ Numbered(l.file, l.uri, l.number)'
  <2>1. CASE l \in Lines
    <3>1. l.file \in 1..cnt /\ Numbered(l.file, l.uri, l.number)
      BY <2>1 DEF IInv, LinesNumbered
    <3> QED
      BY <1>2, <1>4, <1>5, <3>1
  <2>2. CASE \E id \in FileId(File) : l = Written(id)
    <3>1. PICK id \in FileId(File) : l = Written(id)
      BY <2>2
    <3>2. l.file = cnt /\ Numbered(cnt, l.uri, l.number)
      BY <1>1, <3>1, WrittenIsNumbered
    <3> QED
      BY <1>2, <1>4, <1>5, <3>2
  <2> QED
    BY <1>5, <2>1, <2>2, WriteLines
<1>6. CASE LastClass /\ NextFile
  <2>1. /\ class' = 1 /\ numbers' = <<>> /\ known' = Len(uris)
        /\ \/ cnt = Len(files) /\ step' = "done" /\ cnt' = cnt
           \/ cnt # Len(files) /\ step' = "import" /\ cnt' = cnt + 1
    BY <1>6 DEF NextFile
  <2>2. numbers' \in Seq(Nat) /\ Len(numbers') = 0 /\ 1 \in 1..Len(Class)
    BY <1>1, <2>1 DEF TypeOK
  <2>3. TypeOK'
    BY <1>1, <1>2, <2>1, <2>2, WriteLines DEF TypeOK
  <2>4. LinesNumbered'
    BY <1>2, <1>5, <2>1 DEF LinesNumbered
  <2>5. CASE step' = "done"
    BY <1>1, <1>2, <1>3, <2>1, <2>3, <2>4, <2>5
       DEF IInv, Busy, Reading, NoOthers, NoneMissing, Ordered
  <2>6. CASE step' = "import" /\ cnt' = cnt + 1 /\ cnt # Len(files)
    <3>1. Reading'
      <4>1. Len(files[cnt + 1].uris) \in Nat
        <5>1. cnt + 1 \in 1..Len(files) /\ files \in Nodesets
          BY <1>2, <2>6 DEF IInv
        <5>2. files[cnt + 1].uris \in Seq(Uri)
          BY <5>1, FilesAreTyped
        <5> QED
          BY <5>2, LenProperties
      <4> QED
        BY <1>1, <1>2, <2>2, <2>6, <4>1 DEF Reading, File
    <3>2. ASSUME kept, NEW p \in 2..Len(uris)
          PROVE  ~NewIn(uris[p], cnt + 1)
      <4>1. CASE ~NewIn(uris[p], cnt)
        BY <1>2, <4>1 DEF NewIn
      <4>2. CASE \E k \in 1..Len(numbers) : uris[p] = File.uris[k]
        <5>1. uris[p] \in Range(files[cnt].uris)
          BY <1>1, <1>2, <4>2, FileIsTyped, LenProperties DEF Range, File
        <5> QED
          BY <1>2, <5>1 DEF NewIn
      <4> QED
        BY <1>1, <3>2, <4>1, <4>2 DEF IInv, NoOthers
    <3>3. NoOthers'
      BY <1>1, <1>2, <1>3, <2>6, <3>2 DEF NoOthers
    <3>4. NoneMissing'
      <4>1. SUFFICES ASSUME kept, NEW g \in 1..cnt, NEW u \in Range(files[g].uris)
                     PROVE  u \in Range(uris)
        BY <1>1, <1>2, <2>6 DEF NoneMissing
      <4>2. CASE g = cnt
        <5>1. PICK k \in 1..Len(numbers) : u = File.uris[k]
          BY <1>1, <1>2, <4>1, <4>2, FileIsTyped, LenProperties DEF Range, File
        <5>2. Numbered(cnt, u, numbers[k])
          BY <1>1, <5>1 DEF IInv, Reading
        <5>3. \E p \in DOMAIN uris : uris[p] = u
          BY <4>1, <5>2 DEF Numbered, FirstPlace
        <5> QED
          BY <5>3 DEF Range
      <4>3. CASE g \in 1..(cnt - 1)
        BY <1>1, <4>1, <4>3 DEF IInv, NoneMissing
      <4> QED
        BY <1>2, <4>2, <4>3
    <3>5. Ordered'
      <4>1. SUFFICES ASSUME kept, NEW q \in 1..Len(uris), NEW f \in 1..(cnt + 1),
                            NEW p \in 2..(q - 1), NewIn(uris[p], f)
                     PROVE  NewIn(uris[q], f)
        BY <1>1, <1>3, <2>6 DEF Ordered
      <4>2. CASE f \in 1..cnt
        BY <4>1, <4>2 DEF IInv, Ordered
      <4>3. CASE f = cnt + 1
        BY <1>2, <3>2, <4>1, <4>3
      <4> QED
        BY <1>2, <4>2, <4>3
    <3> QED
      BY <1>1, <2>3, <2>4, <3>1, <3>3, <3>4, <3>5 DEF IInv
  <2> QED
    BY <2>1, <2>5, <2>6
<1>7. CASE ~LastClass /\ NextClass
  <2>1. class' = class + 1 /\ class # Len(Class)
        /\ UNCHANGED <<cnt, step, known, numbers, File, Busy>>
    BY <1>1, <1>7 DEF NextClass, LastClass, File, Busy
  <2>2. Len(Class) \in Nat
    BY CsvAssumption, LenProperties
  <2>3. TypeOK'
    BY <1>1, <2>1, <2>2, WriteLines DEF TypeOK
  <2>4. LinesNumbered'
    BY <1>2, <1>5, <2>1 DEF LinesNumbered
  <2>5. Reading' /\ NoOthers' /\ NoneMissing' /\ Ordered'
    BY <1>1, <1>3, <1>4, <2>1 DEF IInv, Reading, NoOthers, NoneMissing, Ordered
  <2> QED
    BY <1>1, <2>3, <2>4, <2>5 DEF IInv
<1> QED
  BY <1>6, <1>7 DEF Write

-----------------------------------------------------------------------------
(* The table has the uris of the files in the order they were first found  *)
(* in, and each number of a line is about a place of the table.            *)
THEOREM Invariance == Spec => []IInv
<1>1. Init => IInv
  BY InitIInv
<1>2. IInv /\ [Next]_vars => IInv'
  BY AddNamespaceStep, WriteStep, OtherSteps DEF Next
<1> QED
  BY <1>1, <1>2, PTL DEF Spec

(* The variables hold values of the types the code declares for them.      *)
THEOREM TypeCorrect == Spec => []TypeOK
<1>1. IInv => TypeOK
  BY DEF IInv
<1> QED
  BY <1>1, Invariance, PTL

(* Whatever files are read: in the lines of one file, and in those of two  *)
(* that both found or both added their namespaces, the numbers of two ids  *)
(* are equal if and only if their namespaces are.                          *)
THEOREM NumbersAreNamespaces == Spec => []OneNumberOneNamespace
<1>1. IInv => OneNumberOneNamespace
  <2> SUFFICES ASSUME IInv, NEW l \in Lines, NEW m \in Lines,
                      l.file = m.file \/ (New(l) <=> New(m)),
                      kept \/ {l.file, m.file} = {1}
               PROVE  l.number = m.number <=> l.uri = m.uri
    BY DEF OneNumberOneNamespace
  <2>1. /\ l.file \in 1..cnt /\ m.file \in 1..cnt /\ cnt \in Nat
        /\ kept \/ (l.file = 1 /\ m.file = 1)
        /\ DOMAIN uris = 1..Len(uris) /\ Len(uris) \in Nat /\ uris[1] = BaseUri
    BY TableIsTyped DEF IInv, LinesNumbered
  <2>2. PICK p \in DOMAIN uris :
          FirstPlace(l.uri, p) /\ l.number = IF New(l) THEN p ELSE p - 1
    BY <2>1 DEF IInv, LinesNumbered, Numbered, New, NewIn
  <2>3. PICK q \in DOMAIN uris :
          FirstPlace(m.uri, q) /\ m.number = IF New(m) THEN q ELSE q - 1
    BY <2>1 DEF IInv, LinesNumbered, Numbered, New, NewIn
  <2>4. p = q <=> l.uri = m.uri
    BY <2>1, <2>2, <2>3 DEF FirstPlace
  <2>5. CASE New(l) <=> New(m)
    BY <2>1, <2>2, <2>3, <2>4, <2>5
  (* One file with both: a uri it added comes after those it found.        *)
  <2>6. ASSUME NEW a \in Lines, NEW b \in Lines, a.file = b.file, New(a), ~New(b),
               NEW r \in DOMAIN uris, FirstPlace(a.uri, r),
               NEW s \in DOMAIN uris, FirstPlace(b.uri, s), s = r + 1,
               a.file \in 1..cnt, kept \/ a.file = 1
        PROVE  FALSE
    <3>1. r # 1 /\ s # 1 /\ uris[r] = a.uri /\ uris[s] = b.uri /\ b.uri # BaseUri
      BY <2>1, <2>6 DEF FirstPlace, New
    <3>2. NewIn(uris[r], a.file) /\ ~NewIn(uris[s], a.file)
      BY <2>6, <3>1 DEF New, NewIn
    <3>3. CASE kept
      <4>1. r \in 2..(s - 1) /\ s \in 1..Len(uris)
        BY <2>1, <2>6, <3>1
      <4> QED
        BY <2>6, <3>2, <3>3, <4>1 DEF IInv, Ordered
    <3>4. CASE a.file = 1
      BY <3>2, <3>4 DEF NewIn
    <3> QED
      BY <2>6, <3>3, <3>4
  <2>7. CASE l.file = m.file /\ New(l) /\ ~New(m)
    <3>1. q # p + 1
      BY <2>1, <2>2, <2>3, <2>6, <2>7
    <3>2. l.uri # m.uri
      BY <2>7 DEF New
    <3> QED
      BY <2>1, <2>2, <2>3, <2>7, <3>1, <3>2
  <2>8. CASE l.file = m.file /\ ~New(l) /\ New(m)
    <3>1. p # q + 1
      BY <2>1, <2>2, <2>3, <2>6, <2>8
    <3>2. l.uri # m.uri
      BY <2>8 DEF New
    <3> QED
      BY <2>1, <2>2, <2>3, <2>8, <3>1, <3>2
  <2> QED
    BY <2>5, <2>7, <2>8
<1> QED
  BY <1>1, Invariance, PTL

-----------------------------------------------------------------------------
(* No namespace has two places in the table.                               *)
Distinct == kept => \A p, q \in 1..Len(uris) : uris[p] = uris[q] => p = q

UrisRead == UNION {Range(files[f].uris) : f \in 1..cnt}

LEMMA DistinctStep ==
  ASSUME IInv, Distinct, [Next]_vars
  PROVE  Distinct'
<1>1. CASE uris' = uris
  BY <1>1 DEF Distinct, Next, vars, AddNamespace, Crash, ImportFails, Imported, Write
<1>2. CASE /\ AddNamespace /\ Equal(NextUri) = {}
           /\ uris' = Append(uris, NextUri)
  <2>1. PICK u \in Uri : u = NextUri
    BY <1>2, NextIsNumbered DEF NextUri
  <2>2. /\ DOMAIN uris = 1..Len(uris) /\ Len(uris) \in Nat /\ TypeOK
        /\ Len(uris') = Len(uris) + 1 /\ uris'[Len(uris) + 1] = u
        /\ \A q \in 1..Len(uris) : uris'[q] = uris[q]
    BY <1>2, <2>1, TableIsTyped, TableGrows DEF IInv
  <2>3. kept => \A q \in 1..Len(uris) : uris[q] # u
    BY <1>2, <2>1, <2>2 DEF Equal, Stale
  <2>4. kept' = kept
    BY <1>2 DEF AddNamespace
  <2> QED
    BY <2>2, <2>3, <2>4 DEF Distinct
<1> QED
  BY <1>1, <1>2 DEF Next, vars, AddNamespace, Crash, ImportFails, Imported, Write

LEMMA UrisReadFinite ==
  ASSUME IInv, Busy
  PROVE  IsFiniteSet(UrisRead) /\ Cardinality(UrisRead) \in Nat
<1>1. cnt \in 1..Len(files) /\ Len(files) \in Nat
  BY FileIsTyped
<1>2. ASSUME NEW f \in 1..cnt
      PROVE  IsFiniteSet(Range(files[f].uris))
  <2>1. files[f].uris \in Seq(Uri)
    BY <1>1, FilesAreTyped DEF IInv
  <2>2. /\ DOMAIN files[f].uris = 1..Len(files[f].uris) /\ Len(files[f].uris) \in Nat
        /\ files[f].uris \in [1..Len(files[f].uris) -> Uri]
    BY <2>1, LenProperties
  <2>3. files[f].uris \in Surjection(1..Len(files[f].uris), Range(files[f].uris))
    BY <2>2 DEF Surjection, Range
  <2>4. IsFiniteSet(1..Len(files[f].uris))
    BY <2>2, FS_Interval
  <2> QED
    BY <2>3, <2>4, FS_Surjection
<1> DEFINE Sets == {Range(files[f].uris) : f \in 1..cnt}
           Of == [f \in 1..cnt |-> Range(files[f].uris)]
<1>3. Of \in Surjection(1..cnt, Sets)
  BY DEF Surjection
<1>4. IsFiniteSet(1..cnt)
  BY <1>1, FS_Interval
<1>5. IsFiniteSet(Sets)
  BY <1>3, <1>4, FS_Surjection
<1>6. IsFiniteSet(UNION Sets)
  BY <1>2, <1>5, FS_UNION
<1> QED
  BY <1>6, FS_CardinalityType DEF UrisRead

(* A full table and a uri that is not in it are as many namespaces of the  *)
(* files as there is room for, for that of number 0 is not one of theirs.  *)
LEMMA FullOfUris ==
  ASSUME IInv, Distinct, kept, Importing, Equal(NextUri) = {}, Len(uris) = Capacity
  PROVE  Cardinality(UrisRead) >= Capacity
<1>1. /\ Busy /\ TypeOK /\ Capacity \in Nat \ {0} /\ cnt \in 1..Len(files) /\ cnt \in Nat
      /\ DOMAIN uris = 1..Capacity /\ uris[1] = BaseUri
  BY FileIsTyped, TableIsTyped, CsvAssumption DEF Importing, Busy, IInv
<1>2. /\ Len(File.uris) \in Nat /\ Len(numbers) \in Nat
      /\ Len(numbers) < Len(File.uris)
      /\ \A k \in 1..Len(File.uris) : File.uris[k] \in UrisRead
  <2>1. \A k \in 1..Len(File.uris) : File.uris[k] \in Range(files[cnt].uris)
    BY <1>1, FileIsTyped, LenProperties DEF Range, File
  <2> QED
    BY <1>1, <2>1, FileIsTyped, TableIsTyped DEF Importing, UrisRead
<1>3. NextUri \in UrisRead
  BY <1>2 DEF NextUri
<1>4. \A p \in 2..Capacity : uris[p] \in UrisRead
  <2> SUFFICES ASSUME NEW p \in 2..Capacity PROVE uris[p] \in UrisRead
    OBVIOUS
  <2>1. CASE \E k \in 1..Len(numbers) : uris[p] = File.uris[k]
    BY <1>2, <2>1
  <2>2. CASE ~NewIn(uris[p], cnt)
    BY <1>1, <2>2 DEF NewIn, UrisRead
  <2> QED
    BY <1>1, <2>1, <2>2 DEF IInv, NoOthers
<1>5. \A p \in 1..Capacity : uris[p] # NextUri
  BY <1>1 DEF Equal, Stale
<1> DEFINE F == [p \in 1..Capacity |-> IF p = 1 THEN NextUri ELSE uris[p]]
<1>6. F \in [1..Capacity -> UrisRead]
  BY <1>1, <1>3, <1>4
<1>7. \A p, q \in 1..Capacity : F[p] = F[q] => p = q
  BY <1>1, <1>5 DEF Distinct
<1>8. IsFiniteSet(UrisRead) /\ Cardinality(UrisRead) \in Nat
  BY <1>1, UrisReadFinite
<1>9. IsFiniteSet(1..Capacity) /\ Cardinality(1..Capacity) = Capacity
  BY <1>1, FS_Interval
<1>10. ~(Cardinality(UrisRead) < Cardinality(1..Capacity))
  <2> HIDE DEF F
  <2> QED
    BY <1>6, <1>7, <1>8, <1>9, FS_PigeonHole
<1> QED
  BY <1>1, <1>8, <1>9, <1>10

(* With strings that stay, the table is too small only for files that have *)
(* too many namespaces among them.                                         *)
THEOREM RoomForAll == Spec => []CrashesOnlyIfFull
<1> DEFINE Inv == Distinct /\ CrashesOnlyIfFull
<1>1. Init => Inv
  BY DEF Init, Distinct, CrashesOnlyIfFull
<1>2. IInv /\ Inv /\ [Next]_vars => Inv'
  <2> SUFFICES ASSUME IInv, Inv, [Next]_vars PROVE CrashesOnlyIfFull'
    BY DistinctStep
  <2>1. CASE Crash
    <3>1. UNCHANGED <<files, cnt, kept>>
      BY <2>1 DEF Crash
    <3>2. kept => Cardinality(UrisRead) >= Capacity
      BY <2>1, FullOfUris DEF Crash, Stale
    <3> QED
      BY <3>1, <3>2 DEF CrashesOnlyIfFull, UrisRead
  <2>2. CASE AddNamespace \/ ImportFails \/ Imported
    BY <2>2 DEF AddNamespace, Importing, ImportFails, Imported, CrashesOnlyIfFull
  <2>3. CASE Write
    BY <2>3 DEF Write, NextFile, NextClass, CrashesOnlyIfFull
  <2>4. CASE UNCHANGED vars
    BY <2>4 DEF vars, CrashesOnlyIfFull
  <2> QED
    BY <2>1, <2>2, <2>3, <2>4 DEF Next
<1>3. Inv => CrashesOnlyIfFull
  OBVIOUS
<1> QED
  BY <1>1, <1>2, <1>3, Invariance, PTL DEF Spec

-----------------------------------------------------------------------------
(* What is written of the file that is read: none yet, or the nodes of the *)
(* classes before this one, and references that start from them.           *)
NoneYet == step = "import" => class = 1 /\ \A r \in refLines : r[1].file # cnt

ClassesWritten ==
  step = "write" =>
    \A n \in Range(File.nodes) : \A k \in 1..(class - 1) :
      n.class = Class[k] => Written(n.id) \in nodeLines

StartsWritten ==
  step = "write" =>
    \A r \in refLines : r[1].file = cnt =>
      r[1] \in nodeLines /\ \E id \in FileId(File) : r[2] = Written(id)

WrittenInv == EndsAreWritten /\ NoneYet /\ ClassesWritten /\ StartsWritten

(* A node of the file that has the name and the namespace of an id has     *)
(* this id.                                                                *)
LEMMA NamesAreIds ==
  ASSUME IInv, Busy, NEW id \in FileId(File), NEW n \in Range(File.nodes),
         n.id.name = Written(id).name,
         Written(id).uri = IF n.id.ns = 0 THEN BaseUri ELSE File.uris[n.id.ns]
  PROVE  n.id = id
<1>1. n.id \in [ns : 0..Len(File.uris), name : Name]
        /\ id \in [ns : 0..Len(File.uris), name : Name]
  BY FileIsTyped DEF FileId
<1>2. Written(id).name = id.name
        /\ Written(id).uri = IF id.ns = 0 THEN BaseUri ELSE File.uris[id.ns]
  BY DEF Written
<1>3. n.id.ns = id.ns
  BY <1>1, <1>2, FileIsTyped
<1> QED
  BY <1>1, <1>2, <1>3

(* After a class is written, all starts of references are.                 *)
LEMMA AfterAClass ==
  ASSUME IInv, WrittenInv, Write
  PROVE  /\ \A r \in refLines' : r[1].file = cnt =>
              r[1] \in nodeLines' /\ \E id \in FileId(File) : r[2] = Written(id)
         /\ \A r \in refLines' : r \in refLines \/ r[1].file = cnt
         /\ \A n \in Range(File.nodes) : \A k \in 1..class :
              n.class = Class[k] => Written(n.id) \in nodeLines'
         /\ nodeLines \subseteq nodeLines'
<1>1. /\ step = "write" /\ Busy /\ class \in Nat
      /\ nodeLines' = nodeLines \cup DumpNodes
      /\ refLines' = refLines \cup DumpReferences
  BY DEF Write, Busy, IInv, TypeOK
<1>2. ASSUME NEW r \in DumpReferences
      PROVE  /\ r[1].file = cnt /\ r[1] \in DumpNodes
             /\ \E id \in FileId(File) : r[2] = Written(id)
  <2>1. PICK n \in OfClass : r \in {<<Written(n.id), Written(t)>> : t \in Range(n.targets)}
    BY <1>2 DEF DumpReferences
  <2>2. PICK t \in Range(n.targets) : r = <<Written(n.id), Written(t)>>
    BY <2>1
  <2>3. t \in FileId(File)
    BY <1>1, <2>1, <2>2, FileIsTyped DEF OfClass
  <2>4. r[1] = Written(n.id) /\ r[2] = Written(t)
    BY <2>2
  <2> QED
    BY <2>1, <2>3, <2>4 DEF DumpNodes, Written
<1>3. ASSUME NEW n \in Range(File.nodes), NEW k \in 1..class, n.class = Class[k]
      PROVE  Written(n.id) \in nodeLines'
  <2>1. CASE k = class
    BY <1>1, <1>3, <2>1 DEF DumpNodes, OfClass
  <2>2. CASE k \in 1..(class - 1)
    BY <1>1, <1>3, <2>2 DEF WrittenInv, ClassesWritten
  <2> QED
    BY <1>1, <2>1, <2>2
<1> QED
  BY <1>1, <1>2, <1>3 DEF WrittenInv, StartsWritten

LEMMA WriteKeepsWritten ==
  ASSUME IInv, WrittenInv, Write
  PROVE  WrittenInv'
<1>1. /\ step = "write" /\ Busy /\ UNCHANGED <<files, kept, uris>>
      /\ class \in 1..Len(Class) /\ cnt \in 1..Len(files) /\ Len(files) \in Nat
  BY FileIsTyped DEF Write, Busy, IInv, TypeOK
<1>2. Class \in [1..Len(Class) -> Range(Class)] /\ Len(Class) \in Nat
  BY CsvAssumption, LenProperties
<1>3. ASSUME NEW f \in 1..cnt, f # cnt \/ LastClass, NEW r \in refLines', r[1].file = f
      PROVE  /\ r[1] \in nodeLines'
             /\ (\E n \in Range(files[f].nodes) :
                   /\ n.id.name = r[2].name
                   /\ r[2].uri = IF n.id.ns = 0 THEN BaseUri ELSE files[f].uris[n.id.ns])
                  => r[2] \in nodeLines'
  <2>1. CASE f # cnt
    <3>1. r \in refLines /\ f \in WrittenFiles
      BY <1>1, <1>3, <2>1, AfterAClass DEF WrittenFiles
    <3> QED
      BY <1>3, <3>1, AfterAClass DEF WrittenInv, EndsAreWritten
  <2>2. CASE f = cnt
    <3>1. r[1] \in nodeLines'
      BY <1>3, <2>2, AfterAClass
    <3>2. PICK id \in FileId(File) : r[2] = Written(id)
      BY <1>3, <2>2, AfterAClass
    <3>3. ASSUME NEW n \in Range(File.nodes), n.id.name = r[2].name,
                 r[2].uri = IF n.id.ns = 0 THEN BaseUri ELSE File.uris[n.id.ns]
          PROVE  r[2] \in nodeLines'
      <4>1. r[2] = Written(n.id)
        BY <1>1, <3>2, <3>3, NamesAreIds
      <4>2. n.class \in Range(Class)
        <5>1. File.nodes \in Seq(FileNode(File))
          BY <1>1, FilesAreTyped DEF IInv, File
        <5>2. n \in FileNode(File)
          BY <3>3, <5>1, LenProperties, ElementOfSeq DEF Range
        <5> QED
          BY <5>2 DEF FileNode
      <4>3. PICK k \in 1..Len(Class) : n.class = Class[k]
        BY <1>2, <4>2 DEF Range
      <4> QED
        BY <1>3, <2>2, <3>3, <4>1, <4>3, AfterAClass DEF LastClass
    <3> QED
      BY <2>2, <3>1, <3>3 DEF File
  <2> QED
    BY <2>1, <2>2
<1>4. CASE LastClass /\ NextFile
  <2>1. /\ WrittenFiles' \subseteq 1..cnt /\ step' # "write"
        /\ step' = "import" => cnt' = cnt + 1 /\ class' = 1
    BY <1>1, <1>4 DEF NextFile, WrittenFiles
  <2>2. EndsAreWritten'
    BY <1>1, <1>3, <1>4, <2>1 DEF EndsAreWritten
  <2>3. NoneYet'
    <3>1. \A r \in refLines : r[1].file \in 1..cnt
      BY DEF IInv, LinesNumbered, Lines
    <3> QED
      BY <1>1, <2>1, <3>1, AfterAClass DEF NoneYet
  <2> QED
    BY <2>1, <2>2, <2>3 DEF WrittenInv, ClassesWritten, StartsWritten
<1>5. CASE ~LastClass /\ NextClass
  <2>1. UNCHANGED <<cnt, step, numbers, File>> /\ class' = class + 1
    BY <1>1, <1>5 DEF NextClass, File
  <2>2. \A f \in WrittenFiles' : f \in 1..cnt /\ f # cnt
    BY <1>1, <2>1 DEF WrittenFiles
  <2>3. EndsAreWritten'
    BY <1>1, <1>3, <2>2 DEF EndsAreWritten
  <2>4. \A id : Written(id)' = Written(id)
    BY <2>1 DEF Written
  <2>5. ClassesWritten' /\ StartsWritten'
    BY <1>1, <2>1, <2>4, AfterAClass DEF ClassesWritten, StartsWritten, FileId
  <2> QED
    BY <1>1, <2>1, <2>3, <2>5 DEF WrittenInv, NoneYet
<1> QED
  BY <1>4, <1>5 DEF Write

(* Whatever the classes and the order of the nodes of a file, both ends of *)
(* a reference between two of them were written with the same ids as they. *)
THEOREM EndsWritten == Spec => []EndsAreWritten
<1>1. Init => WrittenInv
  BY DEF Init, WrittenInv, EndsAreWritten, NoneYet, ClassesWritten, StartsWritten
<1>2. IInv /\ WrittenInv /\ [Next]_vars => WrittenInv'
  <2> SUFFICES ASSUME IInv, WrittenInv, [Next]_vars PROVE WrittenInv'
    OBVIOUS
  <2>1. CASE Write
    BY <2>1, WriteKeepsWritten
  <2>2. CASE AddNamespace \/ ImportFails \/ Crash \/ UNCHANGED vars
    <3>1. /\ UNCHANGED <<files, cnt, class, nodeLines, refLines, File>>
          /\ \/ step = "import" /\ step' \in {"import", "failed", "crashed"}
             \/ step' = step /\ numbers' = numbers
      BY <2>2 DEF AddNamespace, Importing, ImportFails, Crash, vars, File
    <3>2. EndsAreWritten'
      BY <3>1 DEF WrittenInv, EndsAreWritten, WrittenFiles
    <3>3. CASE step = "import" /\ step' \in {"import", "failed", "crashed"}
      BY <3>1, <3>2, <3>3 DEF WrittenInv, NoneYet, ClassesWritten, StartsWritten
    <3>4. CASE step' = step /\ numbers' = numbers
      BY <3>1, <3>2, <3>4
         DEF WrittenInv, NoneYet, ClassesWritten, StartsWritten, Written, FileId
    <3> QED
      BY <3>1, <3>3, <3>4
  <2>3. CASE Imported
    <3>1. UNCHANGED <<files, cnt, class, nodeLines, refLines>>
          /\ step = "import" /\ step' = "write"
      BY <2>3 DEF Imported
    <3>2. class = 1 /\ \A r \in refLines : r[1].file # cnt
      BY <3>1 DEF WrittenInv, NoneYet
    <3> QED
      BY <3>1, <3>2
         DEF WrittenInv, EndsAreWritten, WrittenFiles, NoneYet, ClassesWritten, StartsWritten
  <2> QED
    BY <2>1, <2>2, <2>3 DEF Next
<1>3. WrittenInv => EndsAreWritten
  BY DEF WrittenInv
<1> QED
  BY <1>1, <1>2, <1>3, Invariance, PTL DEF Spec
=============================================================================
