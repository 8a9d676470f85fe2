------------------------- MODULE GatewayPathProofs -------------------------
(***************************************************************************)
(* Lemmas about the paths of GatewayRouting: what Trim leaves, that a path *)
(* of the gateway is taken apart into the names and the rest it was put    *)
(* together from, and that joinPaths puts back what TrimPrefix takes off.  *)
(*                                                                         *)
(* Trim is defined by the least and the greatest segment that is not       *)
(* empty; that there are such is the least-number principle, taken from    *)
(* the well-foundedness of < on Nat.                                       *)
(***************************************************************************)
EXTENDS GatewayRoutingInv, SequenceTheorems, WellFoundedInduction, TLAPS

Paths == Seq(Seq(Nat))

\* A set of numbers that is not empty has a least one.
LEMMA SomeLeast ==
  ASSUME NEW T \in SUBSET Nat, T # {}
  PROVE  \E x \in T : \A y \in T : x <= y
<1>1. IsWellFoundedOn(OpToRel(<, Nat), Nat)
  BY NatLessThanWellFounded
<1>2. PICK x \in T : \A y \in T : ~(<<y, x>> \in OpToRel(<, Nat))
  <2> HIDE DEF OpToRel
  <2> QED
    BY <1>1, WFMin
<1>3. \A y \in T : ~(y < x)
  BY <1>2 DEF OpToRel
<1> QED
  BY <1>3

\* If it has a bound it has a greatest one: the least bound is in it.
LEMMA SomeGreatest ==
  ASSUME NEW T \in SUBSET Nat, T # {}, NEW n \in Nat, \A y \in T : y <= n
  PROVE  \E x \in T : \A y \in T : x >= y
<1> DEFINE U == {m \in Nat : \A y \in T : y <= m}
<1>1. U \in SUBSET Nat /\ U # {}
  OBVIOUS
<1>2. PICK m \in U : \A k \in U : m <= k
  BY <1>1, SomeLeast
<1>3. m \in T
  <2> SUFFICES ASSUME m \notin T PROVE FALSE
    OBVIOUS
  <2>1. m \in Nat /\ \A y \in T : y < m
    BY <1>2
  <2>2. m - 1 \in Nat
    <3>1. PICK y \in T : TRUE
      OBVIOUS
    <3> QED
      BY <2>1, <3>1
  <2>3. m - 1 \in U
    BY <2>1, <2>2
  <2>4. m <= m - 1
    BY <1>2, <2>3
  <2> QED
    BY <2>1, <2>4
<1> QED
  BY <1>2, <1>3

\* The least and the greatest number of a bounded set.
LEMMA MinMaxFacts ==
  ASSUME NEW T \in SUBSET Nat, T # {}, NEW n \in Nat, \A y \in T : y <= n
  PROVE  /\ Min(T) \in T /\ \A y \in T : Min(T) <= y
         /\ Max(T) \in T /\ \A y \in T : Max(T) >= y
  BY SomeLeast, SomeGreatest DEF Min, Max

\* A path that was trimmed is a path and begins with a name.
LEMMA TrimFacts ==
  ASSUME NEW path \in Paths
  PROVE  Trim(path) \in Paths /\ (Trim(path) # <<>> => Trim(path)[1] # <<>>)
<1> DEFINE full == {i \in DOMAIN path : path[i] # <<>>}
<1>1. /\ Len(path) \in Nat /\ DOMAIN path = 1..Len(path)
      /\ \A i \in 1..Len(path) : path[i] \in Seq(Nat)
  BY LenProperties, ElementOfSeq DEF Paths
<1>2. CASE full = {}
  BY <1>2 DEF Trim, Paths
<1>3. CASE full # {}
  <2>1. full \in SUBSET Nat /\ \A y \in full : y <= Len(path)
    BY <1>1
  <2> DEFINE m == Min(full)
             n == Max(full)
  <2>2. m \in full /\ n \in full /\ m <= n
    <3> HIDE DEF full
    <3> QED
      BY <1>1, <1>3, <2>1, MinMaxFacts
  <2>3. Trim(path) = SubSeq(path, m, n)
    BY <1>3 DEF Trim
  <2>4. m \in 1..Len(path) /\ n \in 1..Len(path) /\ path[m] # <<>>
    BY <1>1, <2>2
  <2> HIDE DEF m, n
  <2>5. \A i \in m..n : path[i] \in Seq(Nat)
    BY <1>1, <2>4
  <2>6. SubSeq(path, m, n) \in Seq(Seq(Nat)) /\ SubSeq(path, m, n)[1] = path[m]
    <3>1. /\ SubSeq(path, m, n) \in Seq(Seq(Nat))
          /\ \A i \in 1..(n - m + 1) : SubSeq(path, m, n)[i] = path[m + i - 1]
      BY <2>4, <2>5, SubSeqProperties
    <3>2. 1 \in 1..(n - m + 1) /\ m + 1 - 1 = m
      BY <2>2, <2>4
    <3> QED
      BY <3>1, <3>2
  <2> QED
    BY <2>3, <2>4, <2>6 DEF Paths
<1> QED
  BY <1>2, <1>3

\* Nothing is trimmed off a path that begins and ends with a name.
LEMMA TrimKeeps ==
  ASSUME NEW path \in Paths, path # <<>>, path[1] # <<>>, path[Len(path)] # <<>>
  PROVE  Trim(path) = path
<1> DEFINE full == {i \in DOMAIN path : path[i] # <<>>}
           n == Len(path)
<1>1. n \in Nat \ {0} /\ DOMAIN path = 1..n
  BY LenProperties, EmptySeq DEF Paths
<1>2. 1 \in full /\ n \in full /\ \A y \in full : y \in Nat /\ 1 <= y /\ y <= n
  BY <1>1
<1>3. Trim(path) = SubSeq(path, Min(full), Max(full))
  BY <1>2 DEF Trim
<1>4. Min(full) = 1 /\ Max(full) = n
  <2> HIDE DEF full, n
  <2>1. full \in SUBSET Nat /\ full # {} /\ n \in Nat
    BY <1>1, <1>2
  <2>2. /\ Min(full) \in full /\ \A y \in full : Min(full) <= y
        /\ Max(full) \in full /\ \A y \in full : Max(full) >= y
    BY <1>2, <2>1, MinMaxFacts
  <2> DEFINE a == Min(full)
             b == Max(full)
  <2>3. a \in Nat /\ b \in Nat /\ a <= 1 /\ 1 <= a /\ b >= n /\ b <= n
    BY <1>2, <2>2
  <2> HIDE DEF a, b
  <2>4. a = 1 /\ b = n
    BY <1>1, <2>3
  <2> QED
    BY <2>4 DEF a, b
<1>5. SubSeq(path, 1, Len(path)) = path
  BY SubSeqFull DEF Paths
<1> QED
  BY <1>3, <1>4, <1>5

\* The names of an API: as many as the handler takes, and the first is not empty.
LEMMA NamesFacts ==
  ASSUME NEW h \in Handlers, NEW id \in Identifiers[h]
  PROVE  id \in Paths /\ Len(id) = NamesIn(h) /\ id[1] # <<>>
<1>1. PICK c \in Calls : Extractable(h, c.path) /\ id = apiIdentifier(h, c.path)
  BY DEF Identifiers
<1> DEFINE path == Trim(c.path)
           n == NamesIn(h)
<1>2. path \in Paths /\ (path # <<>> => path[1] # <<>>)
  BY TrimFacts, CallsAssumption DEF Paths
<1>3. n \in {2, 3} /\ Len(path) \in Nat /\ Len(path) >= n /\ id = SubSeq(path, 1, n)
  BY <1>1, <1>2, LenProperties DEF NamesIn, Extractable, apiIdentifier, Paths
<1> HIDE DEF path, n
<1>4. path # <<>>
  BY <1>3, EmptySeq
<1>5. \A i \in 1..n : path[i] \in Seq(Nat)
  BY <1>2, <1>3, ElementOfSeq DEF Paths
<1>6. /\ SubSeq(path, 1, n) \in Seq(Seq(Nat)) /\ Len(SubSeq(path, 1, n)) = n
      /\ SubSeq(path, 1, n)[1] = path[1]
  <2>1. /\ SubSeq(path, 1, n) \in Seq(Seq(Nat))
        /\ Len(SubSeq(path, 1, n)) = IF 1 <= n THEN n - 1 + 1 ELSE 0
        /\ \A i \in 1..(n - 1 + 1) : SubSeq(path, 1, n)[i] = path[1 + i - 1]
    BY <1>3, <1>5, SubSeqProperties
  <2> QED
    BY <1>3, <2>1
<1> QED
  BY <1>2, <1>3, <1>4, <1>6 DEF Paths, n

\* A path of the gateway that is put together is taken apart into the same names and the
\* same rest, unless it ends with a slash.
LEMMA TakenApart ==
  ASSUME NEW h \in Handlers, NEW id \in Identifiers[h], NEW rest \in Paths,
         Last(id) # <<>>, rest # <<>> => Last(rest) # <<>>
  PROVE  /\ Extractable(h, id \o rest) /\ apiIdentifier(h, id \o rest) = id
         /\ targetAPIPath(h, id \o rest) = rest
<1> DEFINE path == id \o rest
           n == NamesIn(h)
           l == Len(rest)
<1>1. id \in Paths /\ Len(id) = n /\ id[1] # <<>> /\ n \in {2, 3}
  BY NamesFacts DEF NamesIn
<1>2. l \in Nat /\ (l = 0 <=> rest = <<>>)
  BY LenProperties, EmptySeq DEF Paths
<1>3. /\ path \in Paths /\ Len(path) = n + l
      /\ \A i \in 1..(n + l) : path[i] = IF i <= n THEN id[i] ELSE rest[i - n]
  BY <1>1, ConcatProperties DEF Paths
<1> HIDE DEF path, n, l
<1>4. path[1] = id[1] /\ path[n + l] # <<>>
  <2>1. path[1] = id[1]
    BY <1>1, <1>2, <1>3
  <2>2. CASE l = 0
    BY <1>1, <1>3, <2>2 DEF Last
  <2>3. CASE l # 0
    <3>1. n + l \in 1..(n + l) /\ ~(n + l <= n) /\ n + l - n = l
      BY <1>1, <1>2, <2>3
    <3>2. rest[l] # <<>>
      BY <1>2, <2>3 DEF Last, l
    <3>3. path[n + l] = rest[n + l - n]
      BY <1>1, <1>2, <1>3, <3>1
    <3>4. rest[n + l - n] = rest[l]
      BY <3>1
    <3> QED
      BY <2>1, <3>2, <3>3, <3>4
  <2> QED
    BY <2>1, <2>2, <2>3
<1>5. Trim(path) = path
  <2>1. path # <<>>
    BY <1>1, <1>2, <1>3, EmptySeq
  <2> QED
    BY <1>1, <1>3, <1>4, <2>1, TrimKeeps
<1>6. SubSeq(path, 1, n) = id
  <2>1. SubSeq(path, 1, n) = SubSeq(id, 1, n)
    BY <1>1, SubSeqOfConcat1 DEF Paths, path
  <2> QED
    BY <1>1, <2>1, SubSeqFull DEF Paths
<1>7. SubSeq(path, n + 1, n + l) = rest
  <2>1. CASE l = 0
    <3>1. SubSeq(path, n + 1, n + l) = <<>>
      BY <1>1, <2>1, SubSeqEmpty
    <3> QED
      BY <1>2, <2>1, <3>1
  <2>2. CASE l # 0
    <3>1. n + 1 \in n + 1..n + l /\ n + l \in n + 1..n + l /\ n + 1 - n = 1 /\ n + l - n = l
      BY <1>1, <1>2, <2>2
    <3>2. ASSUME NEW j \in n + 1..n + l, NEW k \in n + 1..n + l, j - n = 1, k - n = l
          PROVE  SubSeq(path, j, k) = SubSeq(rest, 1, l)
      <4>1. ASSUME NEW a \in Len(id) + 1..Len(id) + Len(rest),
                   NEW b \in Len(id) + 1..Len(id) + Len(rest)
            PROVE  SubSeq(id \o rest, a, b) = SubSeq(rest, a - Len(id), b - Len(id))
        BY <1>1, SubSeqOfConcat2 DEF Paths
      <4> QED
        BY <1>1, <3>2, <4>1 DEF path, l
    <3>3. SubSeq(rest, 1, l) = rest
      BY SubSeqFull DEF Paths, l
    <3>4. SubSeq(path, n + 1, n + l) = SubSeq(rest, 1, l)
      <4> DEFINE j == n + 1
                 k == n + l
      <4>1. j \in n + 1..n + l /\ k \in n + 1..n + l /\ j - n = 1 /\ k - n = l
        BY <1>1, <1>2, <2>2
      <4> HIDE DEF j, k
      <4>2. SubSeq(path, j, k) = SubSeq(rest, 1, l)
        BY <3>2, <4>1
      <4> QED
        BY <4>2 DEF j, k
    <3> QED
      BY <3>3, <3>4
  <2> QED
    BY <2>1, <2>2
<1>8. Extractable(h, path) /\ apiIdentifier(h, path) = id /\ targetAPIPath(h, path) = rest
  BY <1>1, <1>2, <1>3, <1>5, <1>6, <1>7 DEF Extractable, apiIdentifier, targetAPIPath, n
<1> QED
  BY <1>8 DEF path

\* A location that has the segments of the target begins with the path of the target.
LEMMA BeginsWith ==
  ASSUME NEW p \in Paths, NEW t \in Paths, Len(p) >= Len(t),
         IsPrefix(IF t # <<>> /\ Last(t) = <<>> THEN Front(t) ELSE t, p)
  PROVE  HasPrefix(p, t) /\ (t # <<>> /\ Last(t) # <<>> => IsPrefix(t, p))
<1> DEFINE n == Len(t)
           l == Len(p)
<1>1. n \in Nat /\ l \in Nat /\ n <= l /\ (n = 0 <=> t = <<>>)
  BY LenProperties, EmptySeq DEF Paths
<1>2. \A k \in 1..l : p[k] \in Seq(Nat)
  BY ElementOfSeq DEF Paths
<1>3. \A k \in 1..n : t[k] \in Seq(Nat)
  BY ElementOfSeq DEF Paths
<1>4. CASE t = <<>>
  BY <1>4 DEF HasPrefix
<1>5. CASE t # <<>> /\ Last(t) = <<>>
  <2> DEFINE f == SubSeq(t, 1, n - 1)
  <2>1. n >= 1 /\ n \in 1..l /\ n - 1 \in Nat
    BY <1>1, <1>5
  <2>2. f \in Seq(Seq(Nat)) /\ Len(f) = n - 1
    <3>1. \A k \in 1..(n - 1) : t[k] \in Seq(Nat)
      BY <1>1, <1>3
    <3>2. f \in Seq(Seq(Nat)) /\ Len(f) = IF 1 <= n - 1 THEN n - 1 - 1 + 1 ELSE 0
      BY <2>1, <3>1, SubSeqProperties
    <3> HIDE DEF f, n
    <3> QED
      BY <2>1, <3>2
  <2>3. IsPrefix(f, p) /\ Front(t) = f
    BY <1>5 DEF Front
  <2> HIDE DEF f
  <2>4. f = SubSeq(p, 1, n - 1)
    <3>1. SubSeq(f, 1, Len(f)) = SubSeq(p, 1, Len(f))
      BY <2>3 DEF IsPrefix
    <3>2. SubSeq(f, 1, Len(f)) = f
      BY <2>2, SubSeqFull
    <3> QED
      BY <2>2, <3>1, <3>2
  <2>5. IsPrefix(<<>>, p[n])
    <3>1. SubSeq(<<>>, 1, 0) = <<>> /\ SubSeq(p[n], 1, 0) = <<>> /\ Len(<<>>) = 0
      BY SubSeqEmpty
    <3>2. Len(p[n]) \in Nat
      BY <1>2, <2>1, LenProperties
    <3> QED
      BY <3>1, <3>2 DEF IsPrefix
  <2> QED
    BY <1>1, <1>5, <2>3, <2>4, <2>5 DEF HasPrefix
<1>6. CASE t # <<>> /\ Last(t) # <<>>
  <2>1. n \in 1..n /\ n \in 1..l /\ 1 \in 1..l
    BY <1>1, <1>6
  <2>2. IsPrefix(t, p)
    BY <1>6
  <2>3. t = SubSeq(p, 1, n)
    <3>1. SubSeq(t, 1, n) = t
      BY SubSeqFull DEF Paths
    <3> QED
      BY <2>2, <3>1 DEF IsPrefix
  <2>4. t[n] = p[n]
    <3>1. \A i \in 1..n : p[i] \in Seq(Nat)
      BY <1>1, <1>2
    <3>2. \A i \in 1..(n - 1 + 1) : SubSeq(p, 1, n)[i] = p[1 + i - 1]
      BY <1>1, <3>1, SubSeqProperties
    <3> HIDE DEF n
    <3>3. n \in 1..(n - 1 + 1) /\ 1 + n - 1 = n
      BY <1>1, <2>1
    <3> QED
      BY <2>3, <3>2, <3>3
  <2>5. SubSeq(t, 1, n - 1) = SubSeq(p, 1, n - 1)
    <3>1. CASE n = 1
      BY <3>1, SubSeqEmpty
    <3>2. CASE n # 1
      <4>1. 1 \in 1..(n - 1 + 1) /\ n - 1 \in 1..(n - 1 + 1) /\ 1 + (n - 1) - 1 = n - 1
        <5> HIDE DEF n
        <5> QED
          BY <1>1, <1>6, <3>2
      <4>2. SubSeq(SubSeq(p, 1, n), 1, n - 1) = SubSeq(p, 1 + 1 - 1, 1 + (n - 1) - 1)
        BY <2>1, <4>1, SubSeqOfSubSeq DEF Paths
      <4> QED
        BY <2>3, <4>1, <4>2
    <3> QED
      BY <3>1, <3>2
  <2>6. IsPrefix(Last(t), p[n])
    <3>1. Last(t) = p[n] /\ Len(p[n]) \in Nat
      BY <1>2, <2>1, <2>4, LenProperties DEF Last
    <3> QED
      BY <3>1 DEF IsPrefix
  <2> QED
    BY <1>1, <2>2, <2>5, <2>6 DEF HasPrefix, Front
<1> QED
  BY <1>4, <1>5, <1>6

\* What is trimmed off a location that lies beneath the target is put back by joinPaths.
LEMMA PutBack ==
  ASSUME NEW p \in Paths, NEW t \in Paths, HasPrefix(p, t),
         \A k \in 1..Len(p) : p[k] # <<>>,
         t # <<>> /\ Last(t) # <<>> => IsPrefix(t, p)
  PROVE  /\ TrimPrefix(p, t) \in Paths
         /\ TrimPrefix(p, t) # <<>> => Last(TrimPrefix(p, t)) # <<>>
         /\ joinPaths(t, TrimPrefix(p, t)) = p
<1> DEFINE n == Len(t)
           l == Len(p)
<1>1. n \in Nat /\ l \in Nat /\ (n = 0 <=> t = <<>>) /\ (l = 0 <=> p = <<>>)
  BY LenProperties, EmptySeq DEF Paths
<1>2. \A k \in 1..l : p[k] \in Seq(Nat) /\ p[k] # <<>>
  BY ElementOfSeq DEF Paths
<1>3. \A k \in 1..n : t[k] \in Seq(Nat)
  BY ElementOfSeq DEF Paths
<1> HIDE DEF n, l
\* What is left begins in segment m of the location.
<1>4. ASSUME NEW m \in 1..(l + 1)
      PROVE  /\ SubSeq(p, m, l) \in Paths
             /\ SubSeq(p, m, l) = <<>> <=> m = l + 1
             /\ m <= l => SubSeq(p, m, l)[1] = p[m] /\ Last(SubSeq(p, m, l)) = p[l]
  <2>1. \A i \in m..l : p[i] \in Seq(Nat)
    BY <1>1, <1>2
  <2>2. /\ SubSeq(p, m, l) \in Seq(Seq(Nat))
        /\ Len(SubSeq(p, m, l)) = IF m <= l THEN l - m + 1 ELSE 0
        /\ \A i \in 1..(l - m + 1) : SubSeq(p, m, l)[i] = p[m + i - 1]
    BY <1>1, <2>1, SubSeqProperties
  <2>3. SubSeq(p, m, l) = <<>> <=> m = l + 1
    BY <1>1, <2>2, EmptySeq
  <2>4. ASSUME m <= l PROVE SubSeq(p, m, l)[1] = p[m] /\ Last(SubSeq(p, m, l)) = p[l]
    <3> DEFINE k == l - m + 1
    <3>1. /\ k \in 1..k /\ 1 \in 1..k /\ m + 1 - 1 = m /\ m + k - 1 = l
          /\ Len(SubSeq(p, m, l)) = k
      BY <1>1, <2>2, <2>4
    <3>2. \A i \in 1..k : SubSeq(p, m, l)[i] = p[m + i - 1]
      BY <2>2
    <3> HIDE DEF k
    <3>3. SubSeq(p, m, l)[1] = p[m + 1 - 1] /\ SubSeq(p, m, l)[k] = p[m + k - 1]
      BY <3>1, <3>2
    <3> QED
      BY <3>1, <3>3 DEF Last
  <2> QED
    BY <2>2, <2>3, <2>4 DEF Paths
<1>5. CASE t = <<>>
  <2>1. TrimPrefix(p, t) = p
    BY <1>5 DEF TrimPrefix
  <2>2. p # <<>> => Last(p) # <<>> /\ Head(p) # <<>>
    BY <1>1, <1>2 DEF Last, l, Paths
  <2>3. joinPaths(t, p) = p
    <3>1. <<>> \o p = p
      BY ConcatEmptySeq DEF Paths
    <3> QED
      BY <1>5, <2>2, <3>1 DEF joinPaths
  <2> QED
    BY <2>1, <2>2, <2>3
<1>6. CASE t # <<>> /\ Last(t) # <<>>
  <2>1. n <= l /\ SubSeq(t, 1, n) = SubSeq(p, 1, n) /\ SubSeq(t, 1, n) = t
    BY <1>6, SubSeqFull DEF IsPrefix, n, l, Paths
  <2>2. t[n] = p[n]
    <3>1. \A i \in 1..n : t[i] \in Seq(Nat) /\ p[i] \in Seq(Nat)
      BY <1>1, <1>2, <1>3, <2>1
    <3>2. \A i \in 1..(n - 1 + 1) : SubSeq(p, 1, n)[i] = p[1 + i - 1]
      BY <1>1, <3>1, SubSeqProperties
    <3> QED
      BY <1>1, <1>6, <2>1, <3>2
  <2>3. SubSeq(p[n], Len(Last(t)) + 1, Len(p[n])) = <<>>
    <3>1. Len(p[n]) \in Nat /\ Last(t) = p[n]
      BY <1>1, <1>2, <1>6, <2>1, <2>2, LenProperties DEF Last, n
    <3> QED
      BY <3>1, SubSeqEmpty
  <2> DEFINE rest == SubSeq(p, n + 1, l)
  <2>4. TrimPrefix(p, t) = <<>> \o rest
    BY <1>6, <2>3 DEF TrimPrefix, n, l
  <2>5. n + 1 \in 1..(l + 1)
    BY <1>1, <2>1
  <2>6. rest \in Paths /\ (rest # <<>> => Last(rest) # <<>> /\ rest[1] # <<>>)
    BY <1>1, <1>2, <1>4, <2>1, <2>5
  <2>7. t \o rest = p
    <3>1. SubSeq(p, 1, n) \o SubSeq(p, n + 1, l) = SubSeq(p, 1, l)
      <4>1. 1 \in 1..l + 1 /\ n \in 1 - 1..l /\ l \in n..l
        BY <1>1, <2>1
      <4> QED
        BY <4>1, ConcatAdjacentSubSeq DEF Paths, l
    <3>2. SubSeq(p, 1, l) = p
      BY SubSeqFull DEF Paths, l
    <3> QED
      BY <2>1, <3>1, <3>2
  <2> HIDE DEF rest
  <2>8. TrimPrefix(p, t) = rest
    BY <2>4, <2>6, ConcatEmptySeq DEF Paths
  <2>9. joinPaths(t, rest) = p
    <3>1. CASE rest = <<>>
      <4>1. t \o <<>> = t
        BY ConcatEmptySeq DEF Paths
      <4> QED
        BY <2>7, <3>1, <4>1 DEF joinPaths
    <3>2. CASE rest # <<>>
      <4>1. Head(rest) # <<>>
        BY <2>6, <3>2 DEF Paths
      <4> QED
        BY <1>6, <2>7, <3>2, <4>1 DEF joinPaths
    <3> QED
      BY <3>1, <3>2
  <2> QED
    BY <2>6, <2>8, <2>9
<1>7. CASE t # <<>> /\ Last(t) = <<>>
  <2>1. n >= 1 /\ l >= n /\ Front(t) = SubSeq(p, 1, n - 1)
    BY <1>1, <1>7 DEF HasPrefix, n, l
  <2>2. SubSeq(p[n], Len(Last(t)) + 1, Len(p[n])) = p[n]
    <3>1. p[n] \in Seq(Nat) /\ Len(Last(t)) + 1 = 1
      BY <1>1, <1>2, <1>7, <2>1, EmptySeq
    <3> QED
      BY <3>1, SubSeqFull
  <2> DEFINE rest == SubSeq(p, n, l)
  <2>3. TrimPrefix(p, t) = rest
    <3>1. TrimPrefix(p, t) = <<p[n]>> \o SubSeq(p, n + 1, l)
      <4> DEFINE left == SubSeq(p[n], Len(Last(t)) + 1, Len(p[n]))
      <4>1. TrimPrefix(p, t) = (IF left = <<>> THEN <<>> ELSE <<left>>) \o SubSeq(p, n + 1, l)
        BY <1>7 DEF TrimPrefix, n, l
      <4>2. left = p[n] /\ left # <<>>
        <5>1. n \in 1..l
          BY <1>1, <2>1
        <5>2. p[n] # <<>>
          BY <1>2, <5>1
        <5> QED
          BY <2>2, <5>2
      <4> HIDE DEF left
      <4> QED
        BY <4>1, <4>2
    <3>2. SubSeq(p, n, l) = <<p[n]>> \o SubSeq(p, n + 1, l)
      BY <1>1, <2>1, SubSeqRecursiveFirst DEF Paths, l
    <3> QED
      BY <3>1, <3>2
  <2>4. n \in 1..(l + 1) /\ n <= l
    BY <1>1, <2>1
  <2>5. rest \in Paths /\ rest # <<>> /\ rest[1] = p[n] /\ Last(rest) = p[l]
    BY <1>1, <1>4, <2>4
  <2>6. SubSeq(p, 1, n - 1) \o rest = p
    <3>1. SubSeq(p, 1, n - 1) \o SubSeq(p, (n - 1) + 1, l) = SubSeq(p, 1, l)
      <4>1. 1 \in 1..l + 1 /\ n - 1 \in 1 - 1..l /\ l \in n - 1..l
        BY <1>1, <2>1
      <4> QED
        BY <4>1, ConcatAdjacentSubSeq DEF Paths, l
    <3>2. SubSeq(p, 1, l) = p /\ (n - 1) + 1 = n
      BY <1>1, SubSeqFull DEF Paths, l
    <3> QED
      BY <3>1, <3>2
  <2> HIDE DEF rest
  <2>7. joinPaths(t, rest) = p
    <3>1. Head(rest) # <<>>
      BY <1>1, <1>2, <2>4, <2>5 DEF Paths
    <3> QED
      BY <1>7, <2>1, <2>5, <2>6, <3>1 DEF joinPaths
  <2> QED
    BY <1>1, <1>2, <2>3, <2>4, <2>5, <2>7
<1> QED
  BY <1>5, <1>6, <1>7
=============================================================================
