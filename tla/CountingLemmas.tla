--------------------------- MODULE CountingLemmas ---------------------------
(***************************************************************************)
(* Facts about counting that the proofs of several modules need: the least *)
(* element of a set of natural numbers, induction, stated for sets,        *)
(* sequences that name every element of a set once, and what is in a       *)
(* sequence and its parts.                                                 *)
(***************************************************************************)
EXTENDS Integers, Sequences, FiniteSetTheorems, FunctionTheorems, SequenceTheorems,
        WellFoundedInduction, TLAPS

LEMMA LeastNatural ==
  ASSUME NEW S \in SUBSET Nat, S # {}
  PROVE  \E n \in S : \A m \in S : n <= m
<1> DEFINE R == OpToRel(<, Nat)
<1>1. IsWellFoundedOn(R, Nat)
  BY NatLessThanWellFounded
<1>2. \A x \in Nat, y \in Nat : <<y, x>> \in R <=> y < x
  BY DEF OpToRel
<1> HIDE DEF R
<1>3. PICK n \in S : \A m \in S : ~ (<<m, n>> \in R)
  BY <1>1, WFMin
<1>4. n \in Nat /\ \A m \in S : m \in Nat /\ ~(m < n)
  BY <1>2, <1>3
<1> QED
  BY <1>4

LEMMA SetInduction ==
  ASSUME NEW S, 0 \in S, \A n \in Nat : n \in S => n + 1 \in S
  PROVE  Nat \subseteq S
<1> DEFINE U == {n \in Nat : n \notin S}
<1>1. SUFFICES ASSUME U # {} PROVE FALSE
  OBVIOUS
<1>2. PICK n \in U : \A m \in U : n <= m
  BY <1>1, LeastNatural
<1>3. n \in Nat /\ n # 0
  BY <1>2
<1>4. n - 1 \in Nat /\ n - 1 \notin U
  BY <1>2, <1>3
<1> QED
  BY <1>2, <1>4

-----------------------------------------------------------------------------
(***************************************************************************)
(* A sequence s lists a set S if it has one entry for every element of S,  *)
(* which is what h makes of the element: two elements may look the same.   *)
(***************************************************************************)
Numbering(w, n, S) ==
  /\ w \in [1..n -> S]
  /\ \A i, j \in 1..n : w[i] = w[j] => i = j
  /\ \A x \in S : \E i \in 1..n : w[i] = x

Lists(s, S, h) ==
  \E w \in [1..Len(s) -> S] :
    Numbering(w, Len(s), S) /\ \A i \in 1..Len(s) : s[i] = h[w[i]]

LEMMA EmptyLists ==
  ASSUME NEW h
  PROVE  Lists(<<>>, {}, h)
<1> DEFINE w == [i \in 1..0 |-> {}]
<1>1. w \in [1..0 -> {}] /\ Numbering(w, 0, {})
  BY DEF Numbering
<1> QED
  BY <1>1 DEF Lists

LEMMA OnlyEmptyListsNothing ==
  ASSUME NEW R, NEW s \in Seq(R), NEW S, NEW h, Lists(s, S, h)
  PROVE  s = <<>> <=> S = {}
<1>1. Len(s) \in Nat /\ (s # <<>> => Len(s) \in Nat \ {0})
  BY EmptySeq, LenProperties
<1>2. PICK w \in [1..Len(s) -> S] : Numbering(w, Len(s), S)
  BY DEF Lists
<1>3. s # <<>> => w[1] \in S
  BY <1>1, <1>2
<1>4. s = <<>> => S = {}
  BY <1>2, EmptySeq DEF Numbering
<1> QED
  BY <1>3, <1>4

LEMMA ConcatLists ==
  ASSUME NEW R, NEW s \in Seq(R), NEW t \in Seq(R), NEW S, NEW T, NEW h,
         Lists(s, S, h), Lists(t, T, h), S \cap T = {}
  PROVE  Lists(s \o t, S \cup T, h)
<1>1. PICK v \in [1..Len(s) -> S] :
        Numbering(v, Len(s), S) /\ \A i \in 1..Len(s) : s[i] = h[v[i]]
  BY DEF Lists
<1>2. PICK w \in [1..Len(t) -> T] :
        Numbering(w, Len(t), T) /\ \A i \in 1..Len(t) : t[i] = h[w[i]]
  BY DEF Lists
<1>3. PICK m \in Nat, n \in Nat : m = Len(s) /\ n = Len(t)
  BY LenProperties
<1>4. /\ s \o t \in Seq(R) /\ Len(s \o t) = m + n
      /\ \A i \in 1..(m + n) : (s \o t)[i] = IF i <= m THEN s[i] ELSE t[i - m]
  BY <1>3, ConcatProperties
<1> DEFINE u == [i \in 1..(m + n) |-> IF i <= m THEN v[i] ELSE w[i - m]]
<1>5. \A i \in 1..(m + n) : i <= m => i \in 1..m /\ v[i] \in S /\ u[i] = v[i]
  BY <1>1, <1>3
<1>6. \A i \in 1..(m + n) : ~(i <= m) => i - m \in 1..n /\ w[i - m] \in T /\ u[i] = w[i - m]
  <2>1. \A i \in 1..(m + n) : ~(i <= m) => i - m \in 1..n
    OBVIOUS
  <2> QED
    BY <1>2, <1>3, <2>1
<1>7. u \in [1..(m + n) -> S \cup T]
  BY <1>5, <1>6
<1>8. ASSUME NEW x \in S \cup T PROVE \E i \in 1..(m + n) : u[i] = x
  <2>1. CASE x \in S
    <3>1. PICK i \in 1..m : v[i] = x
      BY <1>1, <1>3, <2>1 DEF Numbering
    <3>2. i \in 1..(m + n) /\ i <= m
      BY <1>3
    <3> QED
      BY <1>5, <3>1, <3>2
  <2>2. CASE x \in T
    <3>1. PICK i \in 1..n : w[i] = x
      BY <1>2, <1>3, <2>2 DEF Numbering
    <3>2. m + i \in 1..(m + n) /\ ~(m + i <= m) /\ (m + i) - m = i
      BY <1>3
    <3> QED
      BY <1>6, <3>1, <3>2
  <2> QED
    BY <2>1, <2>2
<1>9. ASSUME NEW i \in 1..(m + n) PROVE (s \o t)[i] = h[u[i]]
  <2> HIDE DEF u
  <2>1. CASE i <= m
    BY <1>1, <1>3, <1>4, <1>5, <2>1
  <2>2. CASE ~(i <= m)
    <3>1. i - m \in 1..Len(t) /\ u[i] = w[i - m]
      BY <1>3, <1>6, <2>2
    <3>2. t[i - m] = h[w[i - m]]
      BY <1>2, <3>1
    <3> QED
      BY <1>4, <2>2, <3>1, <3>2
  <2> QED
    BY <2>1, <2>2
<1> HIDE DEF u
<1>10. ASSUME NEW i \in 1..(m + n), NEW j \in 1..(m + n), u[i] = u[j]
       PROVE  i = j
  <2>1. CASE i <= m /\ j <= m
    BY <1>1, <1>3, <1>5, <1>10, <2>1 DEF Numbering
  <2>2. CASE ~(i <= m) /\ ~(j <= m)
    <3>1. i - m = j - m
      BY <1>2, <1>3, <1>6, <1>10, <2>2 DEF Numbering
    <3> QED
      BY <1>3, <3>1
  <2>3. CASE i <= m /\ ~(j <= m)
    BY <1>5, <1>6, <1>10, <2>3
  <2>4. CASE ~(i <= m) /\ j <= m
    BY <1>5, <1>6, <1>10, <2>4
  <2> QED
    BY <2>1, <2>2, <2>3, <2>4
<1>11. Numbering(u, m + n, S \cup T)
  BY <1>7, <1>8, <1>10 DEF Numbering
<1>12. PICK q : q = s \o t
  OBVIOUS
<1>13. Len(q) = m + n /\ \A i \in 1..(m + n) : q[i] = h[u[i]]
  BY <1>4, <1>9, <1>12
<1>14. Lists(q, S \cup T, h)
  BY <1>7, <1>11, <1>13 DEF Lists
<1> QED
  BY <1>12, <1>14

LEMMA SingleLists ==
  ASSUME NEW x, NEW h
  PROVE  Lists(<<h[x]>>, {x}, h)
<1> DEFINE w == [i \in 1..1 |-> x]
<1>1. w \in [1..1 -> {x}] /\ Numbering(w, 1, {x})
  BY DEF Numbering
<1>2. Len(<<h[x]>>) = 1 /\ <<h[x]>>[1] = h[x]
  OBVIOUS
<1> QED
  BY <1>1, <1>2 DEF Lists

LEMMA AppendLists ==
  ASSUME NEW R, NEW s \in Seq(R), NEW S, NEW h, Lists(s, S, h),
         NEW x, x \notin S, h[x] \in R
  PROVE  Lists(Append(s, h[x]), S \cup {x}, h)
<1>1. Append(s, h[x]) = s \o <<h[x]>> /\ <<h[x]>> \in Seq(R)
  BY AppendIsConcat
<1>2. Lists(s \o <<h[x]>>, S \cup {x}, h)
  BY <1>1, ConcatLists, SingleLists
<1> QED
  BY <1>1, <1>2

LEMMA TailLists ==
  ASSUME NEW R, NEW s \in Seq(R), NEW S, NEW h, Lists(s, S, h), s # <<>>
  PROVE  \E x \in S : Head(s) = h[x] /\ Lists(Tail(s), S \ {x}, h)
<1>1. PICK w \in [1..Len(s) -> S] :
        Numbering(w, Len(s), S) /\ \A i \in 1..Len(s) : s[i] = h[w[i]]
  BY DEF Lists
<1>2. PICK n \in Nat : Len(s) = n + 1
  BY EmptySeq
<1>3. /\ Tail(s) \in Seq(R) /\ Len(Tail(s)) = n
      /\ \A i \in 1..n : Tail(s)[i] = s[i + 1]
      /\ Head(s) = s[1]
  BY <1>2, HeadTailProperties
<1> DEFINE v == [i \in 1..n |-> w[i + 1]]
<1>4. \A i \in 1..n : i + 1 \in 1..(n + 1) /\ i + 1 # 1
  OBVIOUS
<1>5. w[1] \in S /\ 1 \in 1..(n + 1)
  BY <1>1, <1>2
<1>6. \A i \in 1..n : w[i + 1] \in S \ {w[1]}
  BY <1>1, <1>2, <1>4, <1>5 DEF Numbering
<1>7. v \in [1..n -> S \ {w[1]}]
  BY <1>6
<1>8. ASSUME NEW i \in 1..n, NEW j \in 1..n, v[i] = v[j] PROVE i = j
  <2>1. i + 1 = j + 1
    BY <1>1, <1>2, <1>4, <1>8 DEF Numbering
  <2> QED
    BY <2>1
<1>9. ASSUME NEW x \in S \ {w[1]} PROVE \E i \in 1..n : v[i] = x
  <2>1. PICK i \in 1..(n + 1) : w[i] = x
    BY <1>1, <1>2 DEF Numbering
  <2>2. i # 1 /\ i - 1 \in 1..n /\ (i - 1) + 1 = i
    BY <2>1
  <2>3. v[i - 1] = w[(i - 1) + 1]
    BY <2>2
  <2> QED
    BY <2>1, <2>2, <2>3
<1>10. \A i \in 1..n : Tail(s)[i] = h[v[i]]
  BY <1>1, <1>2, <1>3, <1>4
<1> HIDE DEF v
<1>11. Numbering(v, n, S \ {w[1]})
  BY <1>7, <1>8, <1>9 DEF Numbering
<1>12. Lists(Tail(s), S \ {w[1]}, h)
  BY <1>3, <1>7, <1>10, <1>11 DEF Lists
<1> QED
  BY <1>1, <1>2, <1>3, <1>5, <1>12

(* The other way round, the sequence lists the same set.                   *)
LEMMA ReverseLists ==
  ASSUME NEW R, NEW s \in Seq(R), NEW t \in Seq(R), Len(t) = Len(s),
         \A i \in 1..Len(s) : t[i] = s[Len(s) + 1 - i],
         NEW S, NEW h, Lists(s, S, h)
  PROVE  Lists(t, S, h)
<1>1. PICK w \in [1..Len(s) -> S] :
        Numbering(w, Len(s), S) /\ \A i \in 1..Len(s) : s[i] = h[w[i]]
  BY DEF Lists
<1>2. PICK n \in Nat : Len(s) = n
  BY LenProperties
<1> DEFINE v == [i \in 1..n |-> w[n + 1 - i]]
<1>3. \A i \in 1..n : n + 1 - i \in 1..n /\ n + 1 - (n + 1 - i) = i
  OBVIOUS
<1>4. v \in [1..n -> S] /\ \A i \in 1..n : t[i] = h[v[i]]
  BY <1>1, <1>2, <1>3
<1>5. ASSUME NEW i \in 1..n, NEW j \in 1..n, v[i] = v[j] PROVE i = j
  <2>1. n + 1 - i = n + 1 - j
    BY <1>1, <1>2, <1>3, <1>5 DEF Numbering
  <2> QED
    BY <2>1
<1>6. ASSUME NEW x \in S PROVE \E i \in 1..n : v[i] = x
  <2>1. PICK i \in 1..n : w[i] = x
    BY <1>1, <1>2 DEF Numbering
  <2> QED
    BY <1>3, <2>1
<1> HIDE DEF v
<1>7. Numbering(v, n, S)
  BY <1>4, <1>5, <1>6 DEF Numbering
<1> QED
  BY <1>2, <1>4, <1>7 DEF Lists

Bijects(g, S, T) ==
  /\ g \in [S -> T]
  /\ \A x, y \in S : g[x] = g[y] => x = y
  /\ \A z \in T : \E x \in S : g[x] = z

(* Entry by entry, the list s of S becomes the list t of what g makes of S. *)
Rewrites(s, S, h, t, f, g) ==
  /\ Len(t) = Len(s)
  /\ \A i \in 1..Len(s) : \A x \in S : s[i] = h[x] => t[i] = f[g[x]]

LEMMA MapLists ==
  ASSUME NEW R, NEW s \in Seq(R), NEW t, NEW S, NEW h, Lists(s, S, h),
         NEW T, NEW f, NEW g, Bijects(g, S, T), Rewrites(s, S, h, t, f, g)
  PROVE  Lists(t, T, f)
<1>0. /\ g \in [S -> T] /\ Len(t) = Len(s)
      /\ \A x, y \in S : g[x] = g[y] => x = y
      /\ \A z \in T : \E x \in S : g[x] = z
      /\ \A i \in 1..Len(s) : \A x \in S : s[i] = h[x] => t[i] = f[g[x]]
  BY DEF Bijects, Rewrites
<1>1. PICK w \in [1..Len(s) -> S] :
        Numbering(w, Len(s), S) /\ \A i \in 1..Len(s) : s[i] = h[w[i]]
  BY DEF Lists
<1>2. PICK n \in Nat : Len(s) = n
  BY LenProperties
<1> DEFINE v == [i \in 1..n |-> g[w[i]]]
<1>3. \A i \in 1..n : w[i] \in S
  BY <1>1, <1>2
<1>4. v \in [1..n -> T]
  BY <1>0, <1>3
<1>5. \A i \in 1..n : t[i] = f[v[i]]
  BY <1>0, <1>1, <1>2, <1>3
<1>6. ASSUME NEW i \in 1..n, NEW j \in 1..n, v[i] = v[j] PROVE i = j
  <2>1. g[w[i]] = g[w[j]] /\ w[i] \in S /\ w[j] \in S
    BY <1>3, <1>6
  <2>2. w[i] = w[j]
    BY <1>0, <2>1
  <2> QED
    BY <1>1, <1>2, <2>2 DEF Numbering
<1>7. ASSUME NEW z \in T PROVE \E i \in 1..n : v[i] = z
  <2>1. PICK x \in S : g[x] = z
    BY <1>0
  <2>2. PICK i \in 1..n : w[i] = x
    BY <1>1, <1>2 DEF Numbering
  <2> QED
    BY <2>1, <2>2
<1> HIDE DEF v
<1>8. Numbering(v, n, T)
  BY <1>4, <1>6, <1>7 DEF Numbering
<1> QED
  BY <1>0, <1>2, <1>4, <1>5, <1>8 DEF Lists

(* How often something is listed: as often as there are elements for it.   *)
LEMMA ListsCount ==
  ASSUME NEW R, NEW s \in Seq(R), NEW S, NEW h, Lists(s, S, h), NEW T \in SUBSET S,
         NEW D \in SUBSET (1..Len(s)),
         \A i \in 1..Len(s) : \A x \in S : s[i] = h[x] => (i \in D <=> x \in T)
  PROVE  IsFiniteSet(T) /\ Cardinality(T) = Cardinality(D)
<1>1. PICK w \in [1..Len(s) -> S] :
        Numbering(w, Len(s), S) /\ \A i \in 1..Len(s) : s[i] = h[w[i]]
  BY DEF Lists
<1>2. PICK n \in Nat : Len(s) = n
  BY LenProperties
<1>3. IsFiniteSet(D)
  <2>1. IsFiniteSet(1..n)
    BY FS_Interval
  <2> QED
    BY <1>2, <2>1, FS_Subset
<1> DEFINE v == [i \in D |-> w[i]]
<1>4. \A i \in 1..n : w[i] \in S /\ (i \in D <=> w[i] \in T)
  BY <1>1, <1>2
<1>5. v \in [D -> T]
  BY <1>2, <1>4
<1>6. \A i, j \in D : v[i] = v[j] => i = j
  BY <1>1 DEF Numbering
<1>7. ASSUME NEW x \in T PROVE \E i \in D : v[i] = x
  <2>1. PICK i \in 1..n : w[i] = x
    BY <1>1, <1>2 DEF Numbering
  <2> QED
    BY <1>4, <2>1
<1> HIDE DEF v
<1>8. v \in Bijection(D, T)
  BY <1>5, <1>6, <1>7, Fun_IsBij
<1>9. ExistsBijection(D, T)
  BY <1>8, Fun_ExistsBij
<1> QED
  BY <1>3, <1>9, FS_Bijection

Entries(s) == {s[i] : i \in 1..Len(s)}

Values(h, S) == {h[x] : x \in S}

LEMMA ListsRange ==
  ASSUME NEW R, NEW s \in Seq(R), NEW S, NEW h, Lists(s, S, h)
  PROVE  Entries(s) = Values(h, S)
<1>1. PICK w \in [1..Len(s) -> S] :
        Numbering(w, Len(s), S) /\ \A i \in 1..Len(s) : s[i] = h[w[i]]
  BY DEF Lists
<1>2. \A x \in S : \E i \in 1..Len(s) : w[i] = x
  BY <1>1 DEF Numbering
<1> QED
  BY <1>1, <1>2 DEF Entries, Values

(* A sequence is its head and its tail, a concatenation both its parts.    *)
LEMMA EntriesSplit ==
  ASSUME NEW S, NEW s \in Seq(S), NEW t \in Seq(S)
  PROVE  /\ Entries(s \o t) = Entries(s) \cup Entries(t)
         /\ s # <<>> => Entries(s) = {Head(s)} \cup Entries(Tail(s))
<1>1. PICK n \in Nat, m \in Nat :
        n = Len(s) /\ m = Len(t) /\ DOMAIN s = 1..n /\ DOMAIN t = 1..m
  BY LenProperties
<1>2. Entries(s \o t) = Entries(s) \cup Entries(t)
  <2>1. PICK u \in Seq(S) :
          /\ u = s \o t /\ DOMAIN u = 1..(n + m)
          /\ \A i \in 1..(n + m) : u[i] = IF i <= n THEN s[i] ELSE t[i - n]
    <3>1. /\ s \o t \in Seq(S) /\ Len(s \o t) = Len(s) + Len(t)
          /\ \A i \in 1..(Len(s) + Len(t)) :
               (s \o t)[i] = IF i <= Len(s) THEN s[i] ELSE t[i - Len(s)]
      BY ConcatProperties, Zenon
    <3>2. DOMAIN (s \o t) = 1..(n + m)
      BY <1>1, <3>1, LenProperties
    <3> QED
      BY <1>1, <3>1, <3>2, Zenon
  <2>2. \A i \in 1..n : i \in 1..(n + m) /\ u[i] = s[i]
    BY <2>1
  <2>3. ASSUME NEW i \in 1..m PROVE i + n \in 1..(n + m) /\ u[i + n] = t[i]
    <3>1. i + n \in 1..(n + m) /\ ~(i + n <= n) /\ (i + n) - n = i
      OBVIOUS
    <3> QED
      BY <2>1, <3>1
  <2>4. \A i \in 1..(n + m) : (i \in 1..n /\ u[i] = s[i]) \/ (i - n \in 1..m /\ u[i] = t[i - n])
    BY <2>1
  <2>5. Entries(u) \subseteq Entries(s) \cup Entries(t)
    BY <1>1, <2>1, <2>4 DEF Entries
  <2>6. Entries(s) \subseteq Entries(u) /\ Entries(t) \subseteq Entries(u)
    <3>1. \A i \in 1..n : s[i] \in Entries(u)
      BY <1>1, <2>1, <2>2 DEF Entries
    <3>2. \A i \in 1..m : t[i] \in Entries(u)
      BY <1>1, <2>1, <2>3 DEF Entries
    <3> QED
      BY <1>1, <3>1, <3>2 DEF Entries
  <2> QED
    BY <2>1, <2>5, <2>6
<1>3. ASSUME s # <<>> PROVE Entries(s) = {Head(s)} \cup Entries(Tail(s))
  <2>1. n \in Nat \ {0}
    BY <1>1, <1>3, EmptySeq
  <2>2. PICK u \in Seq(S) :
          /\ u = Tail(s) /\ DOMAIN u = 1..(n - 1)
          /\ \A i \in 1..(n - 1) : u[i] = s[i + 1]
    <3>1. /\ Tail(s) \in Seq(S) /\ Len(Tail(s)) = n - 1
          /\ \A i \in 1..Len(Tail(s)) : Tail(s)[i] = s[i + 1]
      BY <1>1, <1>3, HeadTailProperties
    <3>2. DOMAIN Tail(s) = 1..(n - 1)
      BY <3>1, LenProperties
    <3> QED
      BY <3>1, <3>2
  <2>3. \A i \in 1..n : i = 1 \/ (i - 1 \in 1..(n - 1) /\ (i - 1) + 1 = i)
    BY <2>1
  <2>4. \A i \in 1..(n - 1) : i + 1 \in 1..n
    BY <2>1
  <2>5. Head(s) = s[1] /\ 1 \in 1..n
    BY <1>1, <1>3, <2>1, HeadTailProperties
  <2>6. Entries(s) \subseteq {s[1]} \cup Entries(u)
    <3>1. ASSUME NEW i \in 1..n, i # 1 PROVE s[i] \in Entries(u)
      <4>1. i - 1 \in DOMAIN u /\ u[i - 1] = s[i]
        BY <2>2, <2>3, <3>1
      <4> QED
        BY <4>1 DEF Entries
    <3> QED
      BY <1>1, <3>1 DEF Entries
  <2>7. {s[1]} \cup Entries(u) \subseteq Entries(s)
    BY <1>1, <2>2, <2>4, <2>5 DEF Entries
  <2> QED
    BY <2>2, <2>5, <2>6, <2>7
<1> QED
  BY <1>2, <1>3

LEMMA AppendedPart ==
  ASSUME NEW S, NEW s \in Seq(S), NEW t \in Seq(S)
  PROVE  SubSeq(s \o t, Len(s) + 1, Len(s) + Len(t)) = t
<1>1. PICK n \in Nat, k \in Nat : n = Len(s) /\ k = Len(t)
  BY LenProperties
<1>2. PICK u \in Seq(S) :
        /\ u = s \o t /\ Len(u) = n + k
        /\ \A i \in 1..(n + k) : u[i] = IF i <= n THEN s[i] ELSE t[i - n]
  <2>1. /\ s \o t \in Seq(S) /\ Len(s \o t) = Len(s) + Len(t)
        /\ \A i \in 1..(Len(s) + Len(t)) :
             (s \o t)[i] = IF i <= Len(s) THEN s[i] ELSE t[i - Len(s)]
    BY ConcatProperties, Zenon
  <2> QED
    BY <1>1, <2>1, Zenon
<1>3. SubSeq(u, n + 1, n + k) = [i \in 1..k |-> u[i + n]]
  BY <1>1, <1>2
<1>4. t = [i \in 1..k |-> t[i]]
  BY <1>1, LenProperties
<1>5. ASSUME NEW i \in 1..k PROVE u[i + n] = t[i]
  <2>1. i + n \in 1..(n + k) /\ ~(i + n <= n) /\ (i + n) - n = i
    BY <1>1
  <2> QED
    BY <1>2, <2>1
<1> QED
  BY <1>1, <1>2, <1>3, <1>4, <1>5
=============================================================================
