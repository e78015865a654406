----------------------------- MODULE MeshProofs -----------------------------
(***************************************************************************)
(* What LoadMesh copies out of a file, for files of any number of parts.   *)
(*                                                                         *)
(* The parts are joined by recursion over their number, so the lemmas are  *)
(* proved by induction over it, and that by a least counterexample.        *)
(***************************************************************************)
EXTENDS Surface, SequenceTheorems, WellFoundedInduction, TLAPS

-----------------------------------------------------------------------------
(* Induction                                                               *)

\* A set of natural numbers has a least element.
LEMMA LeastElement ==
  ASSUME NEW S \in SUBSET Nat, S # {}
  PROVE  \E n \in S : \A m \in S : n <= m
<1> DEFINE R == OpToRel(<, Nat)
<1>1. IsWellFoundedOn(R, Nat)  BY NatLessThanWellFounded
<1>2. \A x, y \in Nat : x < y => <<x, y>> \in R  BY DEF OpToRel
<1> HIDE DEF R
<1>3. PICK n \in S : \A m \in S : ~ (<<m, n>> \in R)  BY <1>1, WFMin
<1>4. ASSUME NEW m \in S PROVE n <= m
  <2>1. m \in Nat /\ n \in Nat  OBVIOUS
  <2>2. ~ (m < n)  BY <1>2, <1>3, <2>1
  <2>3. QED  BY <2>1, <2>2
<1>5. QED  BY <1>4

\* Induction up to a bound, over a set instead of a predicate.
LEMMA InductionUpTo ==
  ASSUME NEW N \in Nat, NEW T, 0 \in T,
         \A n \in 0 .. N - 1 : n \in T => n + 1 \in T
  PROVE  \A n \in 0 .. N : n \in T
<1> DEFINE C == {n \in 0 .. N : n \notin T}
<1> SUFFICES ASSUME C # {} PROVE FALSE  OBVIOUS
<1>1. C \in SUBSET Nat  OBVIOUS
<1>2. PICK n \in C : \A m \in C : n <= m  BY <1>1, LeastElement
<1>3. n \in 1 .. N /\ n - 1 \in 0 .. N - 1  BY <1>2
<1>4. n - 1 \in T  BY <1>2, <1>3
<1>5. QED  BY <1>3, <1>4

-----------------------------------------------------------------------------
(* Joining sequences                                                       *)

\* The recursion of FlattenSeq defines a function.
LEMMA PrefixesExist ==
  ASSUME NEW seqs, NEW N \in Nat
  PROVE  \E f : f = [i \in 1 .. N |-> IF i = 1 THEN seqs[i] ELSE f[i - 1] \o seqs[i]]
<1> DEFINE JoinedBy(f, n) == f = [i \in 1 .. n |-> IF i = 1 THEN seqs[i] ELSE f[i - 1] \o seqs[i]]
           T == {n \in 0 .. N : \E f : JoinedBy(f, n)}
<1>1. 0 \in T
  <2> DEFINE g == [i \in 1 .. 0 |-> <<>>]
  <2>1. 1 .. 0 = {}  OBVIOUS
  <2>2. g = [i \in 1 .. 0 |-> IF i = 1 THEN seqs[i] ELSE g[i - 1] \o seqs[i]]  BY <2>1
  <2>3. JoinedBy(g, 0)  BY <2>2
  <2> HIDE DEF g
  <2>4. \E h : JoinedBy(h, 0)  BY <2>3
  <2>5. 0 \in 0 .. N  OBVIOUS
  <2>6. QED  BY <2>4, <2>5
<1>2. ASSUME NEW n \in 0 .. N - 1, n \in T PROVE n + 1 \in T
  <2>1. PICK f : JoinedBy(f, n)  BY <1>2
  <2> DEFINE g == [i \in 1 .. n + 1 |-> IF i = 1 THEN seqs[i] ELSE f[i - 1] \o seqs[i]]
  <2>2. ASSUME NEW i \in 1 .. n PROVE g[i] = f[i]
    <3>1. f[i] = IF i = 1 THEN seqs[i] ELSE f[i - 1] \o seqs[i]  BY <2>1, Zenon
    <3>2. i \in 1 .. n + 1  OBVIOUS
    <3>3. QED  BY <3>1, <3>2, Zenon
  <2>3. \A i \in 1 .. n + 1 : i # 1 => i - 1 \in 1 .. n  OBVIOUS
  <2>4. JoinedBy(g, n + 1)  BY <2>2, <2>3
  <2> HIDE DEF g
  <2>5. \E h : JoinedBy(h, n + 1)  BY <2>4
  <2>6. n + 1 \in 0 .. N  OBVIOUS
  <2>7. QED  BY <2>5, <2>6
<1> HIDE DEF T
<1>3. N \in T  BY <1>1, <1>2, InductionUpTo
<1>4. QED  BY <1>3 DEF T

\* FlattenSeq, one sequence after the other: what has been joined at every step.
IsJoined(p, seqs) ==
  /\ p[0] = <<>>
  /\ \A i \in 1 .. Len(seqs) : p[i] = p[i - 1] \o seqs[i]
  /\ FlattenSeq(seqs) = p[Len(seqs)]

LEMMA FlattenJoins ==
  ASSUME NEW S, NEW seqs \in Seq(Seq(S))
  PROVE  \E p : IsJoined(p, seqs) /\ \A i \in 0 .. Len(seqs) : p[i] \in Seq(S)
<1> DEFINE N == Len(seqs)
           JoinedBy(f) == f = [i \in 1 .. N |-> IF i = 1 THEN seqs[i] ELSE f[i - 1] \o seqs[i]]
           f == CHOOSE f : JoinedBy(f)
           p == [i \in 0 .. N |-> IF i = 0 THEN <<>> ELSE f[i]]
<1>1. N \in Nat /\ \A i \in 1 .. N : seqs[i] \in Seq(S)  OBVIOUS
<1>2. JoinedBy(f)  BY <1>1, PrefixesExist
<1>3. FlattenSeq(seqs) = IF N = 0 THEN seqs ELSE f[N]  BY DEF FlattenSeq
<1> HIDE DEF f
<1>4. N # 0 => f[1] = seqs[1]  BY <1>1, <1>2
<1>5. \A i \in 1 .. N : i # 1 => f[i] = f[i - 1] \o seqs[i]  BY <1>1, <1>2
<1>6. N # 0 => p[1] = p[0] \o seqs[1]
  <2>1. N # 0 => seqs[1] \in Seq(S)  BY <1>1
  <2>2. N # 0 => <<>> \o seqs[1] = seqs[1]  BY <2>1, ConcatEmptySeq
  <2>3. QED  BY <1>1, <1>4, <2>2
<1>7. \A i \in 1 .. N : p[i] = p[i - 1] \o seqs[i]
  <2>1. ASSUME NEW i \in 1 .. N, i # 1 PROVE p[i] = p[i - 1] \o seqs[i]
    <3>1. p[i] = f[i] /\ p[i - 1] = f[i - 1]  BY <1>1, <2>1
    <3>2. QED  BY <1>5, <2>1, <3>1
  <2>2. ASSUME NEW i \in 1 .. N, i = 1 PROVE p[i] = p[i - 1] \o seqs[i]
    <3>1. i - 1 = 0 /\ N # 0  BY <1>1, <2>2
    <3>2. QED  BY <1>6, <2>2, <3>1
  <2>3. QED  BY <2>1, <2>2
<1>8. FlattenSeq(seqs) = p[N]
  <2>1. N = 0 => seqs = <<>>  BY EmptySeq
  <2>2. QED  BY <1>1, <1>3, <2>1
<1>9. p[0] = <<>>  BY <1>1
<1> HIDE DEF p
<1>10. IsJoined(p, seqs)  BY <1>7, <1>8, <1>9 DEF IsJoined
<1>11. \A i \in 0 .. N : p[i] \in Seq(S)
  <2> DEFINE T == {i \in 0 .. N : p[i] \in Seq(S)}
  <2>1. 0 \in T
    <3>1. <<>> \in Seq(S) /\ 0 \in 0 .. N  BY <1>1
    <3>2. QED  BY <1>9, <3>1
  <2>2. ASSUME NEW i \in 0 .. N - 1, i \in T PROVE i + 1 \in T
    <3>1. i + 1 \in 1 .. N /\ (i + 1) - 1 = i  BY <1>1
    <3>2. p[i + 1] = p[i] \o seqs[i + 1]  BY <1>7, <3>1
    <3>3. p[i] \in Seq(S) /\ seqs[i + 1] \in Seq(S)  BY <1>1, <2>2, <3>1
    <3>4. p[i + 1] \in Seq(S)  BY <3>2, <3>3, ConcatProperties
    <3>5. QED  BY <1>1, <3>1, <3>4
  <2> HIDE DEF T
  <2>3. \A i \in 0 .. N : i \in T  BY <1>1, <2>1, <2>2, InductionUpTo
  <2>4. QED  BY <2>3 DEF T
<1>12. QED  BY <1>10, <1>11

\* Joining sequences over a set gives one over that set.
LEMMA FlattenType ==
  ASSUME NEW S, NEW seqs \in Seq(Seq(S))
  PROVE  FlattenSeq(seqs) \in Seq(S)
<1>1. PICK p : IsJoined(p, seqs) /\ \A i \in 0 .. Len(seqs) : p[i] \in Seq(S)
  BY FlattenJoins
<1>2. Len(seqs) \in 0 .. Len(seqs)  OBVIOUS
<1>3. QED  BY <1>1, <1>2 DEF IsJoined

\* Nothing comes out of a join that was in none of the sequences.
LEMMA FlattenElements ==
  ASSUME NEW S, NEW seqs \in Seq(Seq(S)), NEW k \in 1 .. Len(FlattenSeq(seqs))
  PROVE  \E i \in 1 .. Len(seqs) : \E j \in 1 .. Len(seqs[i]) :
           FlattenSeq(seqs)[k] = seqs[i][j]
<1> DEFINE N == Len(seqs)
           Comes(x) == \E i \in 1 .. N : \E j \in 1 .. Len(seqs[i]) : x = seqs[i][j]
<1>1. N \in Nat /\ \A i \in 1 .. N : seqs[i] \in Seq(S)  OBVIOUS
<1>2. PICK p : IsJoined(p, seqs) /\ \A i \in 0 .. N : p[i] \in Seq(S)
  BY FlattenJoins
<1> DEFINE T == {n \in 0 .. N : \A l \in 1 .. Len(p[n]) : Comes(p[n][l])}
<1>3. 0 \in T
  <2>1. 1 .. Len(p[0]) = {}  BY <1>2 DEF IsJoined
  <2>2. 0 \in 0 .. N  BY <1>1
  <2>3. QED  BY <2>1, <2>2
<1>4. ASSUME NEW n \in 0 .. N - 1, n \in T PROVE n + 1 \in T
  <2>1. n + 1 \in 1 .. N /\ (n + 1) - 1 = n /\ n \in 0 .. N /\ n + 1 \in 0 .. N
    BY <1>1
  <2>2. p[n + 1] = p[n] \o seqs[n + 1]  BY <1>2, <2>1 DEF IsJoined
  <2>3. p[n] \in Seq(S) /\ seqs[n + 1] \in Seq(S)  BY <1>1, <1>2, <2>1
  <2>4. ASSUME NEW l \in 1 .. Len(p[n + 1]) PROVE Comes(p[n + 1][l])
    <3>1. CASE l <= Len(p[n])
      <4>1. l \in 1 .. Len(p[n]) /\ p[n + 1][l] = p[n][l]
        BY <2>2, <2>3, <2>4, <3>1
      <4>2. QED  BY <1>4, <4>1
    <3>2. CASE ~ (l <= Len(p[n]))
      <4>1. /\ Len(p[n + 1]) = Len(p[n]) + Len(seqs[n + 1])
            /\ Len(p[n]) \in Nat /\ Len(seqs[n + 1]) \in Nat
        BY <2>2, <2>3
      <4>2. l - Len(p[n]) \in 1 .. Len(seqs[n + 1])
        <5>1. \A a, b \in Nat : \A x \in 1 .. a + b : ~ (x <= a) => x - a \in 1 .. b
          OBVIOUS
        <5>2. l \in 1 .. Len(p[n]) + Len(seqs[n + 1])  BY <2>4, <4>1, Zenon
        <5>3. QED  BY <3>2, <4>1, <5>1, <5>2, Zenon
      <4>3. p[n + 1][l] = seqs[n + 1][l - Len(p[n])]
        BY <2>2, <2>3, <2>4, <3>2, <4>1, ConcatProperties
      <4>4. QED  BY <2>1, <4>2, <4>3
    <3>3. QED  BY <3>1, <3>2
  <2>5. QED  BY <2>1, <2>4
<1> HIDE DEF T
<1>5. N \in T
  <2>1. \A n \in 0 .. N : n \in T  BY <1>1, <1>3, <1>4, InductionUpTo
  <2>2. N \in 0 .. N  BY <1>1
  <2>3. QED  BY <2>1, <2>2
<1>6. QED  BY <1>2, <1>5 DEF T, IsJoined

\* No part is longer than the whole.
LEMMA FlattenCoversPart ==
  ASSUME NEW S, NEW seqs \in Seq(Seq(S)), NEW i \in 1 .. Len(seqs)
  PROVE  Len(seqs[i]) <= Len(FlattenSeq(seqs))
<1> DEFINE N == Len(seqs)
<1>1. N \in Nat /\ \A n \in 1 .. N : seqs[n] \in Seq(S)  OBVIOUS
<1>2. PICK p : IsJoined(p, seqs) /\ \A n \in 0 .. N : p[n] \in Seq(S)
  BY FlattenJoins
<1> DEFINE T == {n \in 0 .. N : i <= n => Len(seqs[i]) <= Len(p[n])}
<1>3. 0 \in T  BY <1>1
<1>4. ASSUME NEW n \in 0 .. N - 1, n \in T PROVE n + 1 \in T
  <2>1. n + 1 \in 1 .. N /\ (n + 1) - 1 = n /\ n \in 0 .. N /\ n + 1 \in 0 .. N
    BY <1>1
  <2>2. p[n + 1] = p[n] \o seqs[n + 1]  BY <1>2, <2>1 DEF IsJoined
  <2>3. p[n] \in Seq(S) /\ seqs[n + 1] \in Seq(S)  BY <1>1, <1>2, <2>1
  <2>4. /\ Len(p[n]) \in Nat /\ Len(seqs[n + 1]) \in Nat
        /\ Len(p[n + 1]) = Len(p[n]) + Len(seqs[n + 1])
    BY <2>2, <2>3
  <2>5. CASE i <= n
    <3>1. Len(seqs[i]) <= Len(p[n])  BY <1>4, <2>5
    <3>2. Len(seqs[i]) \in Nat  BY <1>1
    <3>3. \A a, b, c \in Nat : c <= a => c <= a + b  OBVIOUS
    <3>4. Len(seqs[i]) <= Len(p[n + 1])  BY <2>4, <3>1, <3>2, <3>3, Zenon
    <3>5. QED  BY <2>1, <3>4
  <2>6. CASE i = n + 1
    <3>1. \A a, b \in Nat : b <= a + b  OBVIOUS
    <3>2. Len(seqs[n + 1]) <= Len(p[n + 1])  BY <2>4, <3>1, Zenon
    <3>3. QED  BY <2>1, <2>6, <3>2
  <2>7. CASE i > n + 1
    BY <2>1, <2>7
  <2>8. QED  BY <2>5, <2>6, <2>7
<1> HIDE DEF T
<1>5. N \in T
  <2>1. \A n \in 0 .. N : n \in T  BY <1>1, <1>3, <1>4, InductionUpTo
  <2>2. N \in 0 .. N  BY <1>1
  <2>3. QED  BY <2>1, <2>2
<1>6. QED  BY <1>1, <1>2, <1>5 DEF T, IsJoined

\* If all parts hold whole triangles, so does the whole.
LEMMA FlattenMultiple ==
  ASSUME NEW S, NEW seqs \in Seq(Seq(S)),
         \A i \in 1 .. Len(seqs) : Len(seqs[i]) % 3 = 0
  PROVE  Len(FlattenSeq(seqs)) % 3 = 0
<1> DEFINE N == Len(seqs)
<1>1. N \in Nat /\ \A n \in 1 .. N : seqs[n] \in Seq(S)  OBVIOUS
<1>2. PICK p : IsJoined(p, seqs) /\ \A n \in 0 .. N : p[n] \in Seq(S)
  BY FlattenJoins
<1> DEFINE T == {n \in 0 .. N : Len(p[n]) % 3 = 0}
<1>3. 0 \in T
  <2>1. Len(p[0]) = 0  BY <1>2 DEF IsJoined
  <2>2. 0 \in 0 .. N /\ 0 % 3 = 0  BY <1>1
  <2>3. Len(p[0]) % 3 = 0  BY <2>1, <2>2
  <2>4. QED  BY <2>2, <2>3
<1>4. ASSUME NEW n \in 0 .. N - 1, n \in T PROVE n + 1 \in T
  <2>1. n + 1 \in 1 .. N /\ (n + 1) - 1 = n /\ n \in 0 .. N /\ n + 1 \in 0 .. N
    BY <1>1
  <2>2. p[n + 1] = p[n] \o seqs[n + 1]  BY <1>2, <2>1 DEF IsJoined
  <2>3. p[n] \in Seq(S) /\ seqs[n + 1] \in Seq(S)  BY <1>1, <1>2, <2>1
  <2>4. /\ Len(p[n]) \in Nat /\ Len(seqs[n + 1]) \in Nat
        /\ Len(p[n + 1]) = Len(p[n]) + Len(seqs[n + 1])
    BY <2>2, <2>3
  <2>5. Len(p[n]) % 3 = 0 /\ Len(seqs[n + 1]) % 3 = 0  BY <1>4, <2>1
  <2>6. Len(p[n + 1]) % 3 = 0
    <3>1. ASSUME NEW a \in Nat, NEW b \in Nat, a % 3 = 0, b % 3 = 0
          PROVE  (a + b) % 3 = 0
      <4>1. a = 3 * (a \div 3) /\ b = 3 * (b \div 3)  BY <3>1
      <4>2. a \div 3 \in Nat /\ b \div 3 \in Nat  OBVIOUS
      <4>3. a + b = 3 * (a \div 3 + b \div 3)  BY <4>1, <4>2
      <4>4. \A q \in Nat : (3 * q) % 3 = 0  OBVIOUS
      <4>5. a \div 3 + b \div 3 \in Nat  BY <4>2
      <4>6. QED  BY <4>3, <4>4, <4>5
    <3>2. QED  BY <2>4, <2>5, <3>1
  <2>7. QED  BY <2>1, <2>6
<1> HIDE DEF T
<1>5. N \in T
  <2>1. \A n \in 0 .. N : n \in T  BY <1>1, <1>3, <1>4, InductionUpTo
  <2>2. N \in 0 .. N  BY <1>1
  <2>3. QED  BY <2>1, <2>2
<1>6. QED  BY <1>2, <1>5 DEF T, IsJoined

\* Joining no sequence gives none,
LEMMA FlattenNone ==
  ASSUME NEW S, NEW seqs \in Seq(Seq(S)), Len(seqs) = 0
  PROVE  FlattenSeq(seqs) = <<>>
<1>1. PICK p : IsJoined(p, seqs) /\ \A n \in 0 .. Len(seqs) : p[n] \in Seq(S)
  BY FlattenJoins
<1>2. QED  BY <1>1 DEF IsJoined

\* and joining one that one.
LEMMA FlattenOne ==
  ASSUME NEW S, NEW seqs \in Seq(Seq(S)), Len(seqs) = 1
  PROVE  FlattenSeq(seqs) = seqs[1]
<1>1. PICK p : IsJoined(p, seqs) /\ \A n \in 0 .. Len(seqs) : p[n] \in Seq(S)
  BY FlattenJoins
<1>2. 1 \in 1 .. Len(seqs) /\ 1 - 1 = 0 /\ seqs[1] \in Seq(S)  OBVIOUS
<1>3. p[1] = p[0] \o seqs[1]  BY <1>1, <1>2 DEF IsJoined
<1>4. p[0] \o seqs[1] = seqs[1]  BY <1>1, <1>2, ConcatEmptySeq DEF IsJoined
<1>5. FlattenSeq(seqs) = p[1]  BY <1>1 DEF IsJoined
<1>6. QED  BY <1>3, <1>4, <1>5

-----------------------------------------------------------------------------
(* The vertices and indices of a mesh                                      *)

\* A file is a sequence of parts, whose triangles have three indices each, of
\* vertices of that part.
LEMMA PartsOfMesh ==
  ASSUME NEW m \in Mesh
  PROVE  /\ Parts[m] \in Seq([vertices : Nat, indices : Seq(Nat)])
         /\ DOMAIN Parts[m] = 1 .. Len(Parts[m]) /\ Len(Parts[m]) \in Nat
         /\ \A i \in 1 .. Len(Parts[m]) :
              /\ Parts[m][i].vertices \in Nat /\ Parts[m][i].indices \in Seq(Nat)
              /\ Len(Parts[m][i].indices) % 3 = 0
              /\ \A k \in 1 .. Len(Parts[m][i].indices) :
                   Parts[m][i].indices[k] < Parts[m][i].vertices
<1>1. Parts[m] \in Seq([vertices : Nat, indices : Seq(Nat)])  BY SurfaceAssumption
<1>2. DOMAIN Parts[m] = 1 .. Len(Parts[m]) /\ Len(Parts[m]) \in Nat  BY <1>1
<1>3. ASSUME NEW i \in 1 .. Len(Parts[m])
      PROVE  /\ Parts[m][i].vertices \in Nat /\ Parts[m][i].indices \in Seq(Nat)
             /\ Len(Parts[m][i].indices) % 3 = 0
             /\ \A k \in 1 .. Len(Parts[m][i].indices) :
                  Parts[m][i].indices[k] < Parts[m][i].vertices
  <2>1. Parts[m][i] \in [vertices : Nat, indices : Seq(Nat)]
    BY <1>1, ElementOfSeq, Zenon
  <2>2. Parts[m][i].vertices \in Nat /\ Parts[m][i].indices \in Seq(Nat)  BY <2>1
  <2>3. DOMAIN Parts[m][i].indices = 1 .. Len(Parts[m][i].indices)  BY <2>2
  <2>4. QED  BY <1>2, <2>2, <2>3, SurfaceAssumption, Zenon
<1>4. QED  BY <1>1, <1>2, <1>3

\* What Vertices and TriangleIndices join.
VerticesOfPart(m, i) == [j \in 1 .. Parts[m][i].vertices |-> <<i, j - 1>>]
VertexParts(m) == [i \in DOMAIN Parts[m] |-> VerticesOfPart(m, i)]
IndexParts(m) == [i \in DOMAIN Parts[m] |-> Parts[m][i].indices]

\* The vertices of a part are as many as it says.
LEMMA VertexPartsType ==
  ASSUME NEW m \in Mesh
  PROVE  /\ VertexParts(m) \in Seq(Seq(Nat \X Int))
         /\ Len(VertexParts(m)) = Len(Parts[m])
         /\ \A i \in 1 .. Len(Parts[m]) :
              VertexParts(m)[i] = VerticesOfPart(m, i) /\ Len(VertexParts(m)[i]) = Parts[m][i].vertices
         /\ Vertices(m) = FlattenSeq(VertexParts(m))
<1>1. /\ DOMAIN Parts[m] = 1 .. Len(Parts[m]) /\ Len(Parts[m]) \in Nat
      /\ \A i \in 1 .. Len(Parts[m]) : Parts[m][i].vertices \in Nat
  BY PartsOfMesh
<1>2. ASSUME NEW i \in 1 .. Len(Parts[m])
      PROVE  /\ VerticesOfPart(m, i) \in Seq(Nat \X Int)
             /\ Len(VerticesOfPart(m, i)) = Parts[m][i].vertices
  <2>1. i \in Nat /\ Parts[m][i].vertices \in Nat  BY <1>1
  <2>2. \A j \in 1 .. Parts[m][i].vertices : <<i, j - 1>> \in Nat \X Int  BY <2>1
  <2>3. QED  BY <2>1, <2>2 DEF VerticesOfPart
<1>3. VertexParts(m) = [i \in 1 .. Len(Parts[m]) |-> VerticesOfPart(m, i)]
  BY <1>1 DEF VertexParts
<1>4. /\ VertexParts(m) \in Seq(Seq(Nat \X Int))
      /\ Len(VertexParts(m)) = Len(Parts[m])
      /\ \A i \in 1 .. Len(Parts[m]) : VertexParts(m)[i] = VerticesOfPart(m, i)
  BY <1>1, <1>2, <1>3
<1>5. Vertices(m) = FlattenSeq(VertexParts(m))
  BY DEF Vertices, VertexParts, VerticesOfPart
<1>6. QED  BY <1>2, <1>4, <1>5, Zenon

\* The indices of all parts are sequences, too.
LEMMA IndexPartsType ==
  ASSUME NEW m \in Mesh
  PROVE  /\ IndexParts(m) \in Seq(Seq(Nat))
         /\ Len(IndexParts(m)) = Len(Parts[m])
         /\ \A i \in 1 .. Len(Parts[m]) : IndexParts(m)[i] = Parts[m][i].indices
         /\ TriangleIndices(m) = FlattenSeq(IndexParts(m))
<1>1. /\ DOMAIN Parts[m] = 1 .. Len(Parts[m]) /\ Len(Parts[m]) \in Nat
      /\ \A i \in 1 .. Len(Parts[m]) : Parts[m][i].indices \in Seq(Nat)
  BY PartsOfMesh
<1>2. QED  BY <1>1 DEF IndexParts, TriangleIndices

\* The triangles of a mesh are whole, and name vertices it has.
LEMMA TrianglesNameVertices ==
  ASSUME NEW m \in Mesh
  PROVE  /\ TriangleIndices(m) \in Seq(Nat)
         /\ Len(TriangleIndices(m)) % 3 = 0
         /\ \A k \in 1 .. Len(TriangleIndices(m)) :
              TriangleIndices(m)[k] < Len(Vertices(m))
<1> DEFINE V == VertexParts(m)
           I == IndexParts(m)
<1>1. /\ V \in Seq(Seq(Nat \X Int)) /\ Len(V) = Len(Parts[m])
      /\ \A i \in 1 .. Len(Parts[m]) : Len(V[i]) = Parts[m][i].vertices
      /\ Vertices(m) = FlattenSeq(V)
  BY VertexPartsType
<1>2. /\ I \in Seq(Seq(Nat)) /\ Len(I) = Len(Parts[m])
      /\ \A i \in 1 .. Len(Parts[m]) : I[i] = Parts[m][i].indices
      /\ TriangleIndices(m) = FlattenSeq(I)
  BY IndexPartsType
<1>3. \A i \in 1 .. Len(Parts[m]) :
        /\ Parts[m][i].vertices \in Nat
        /\ Parts[m][i].indices \in Seq(Nat)
        /\ Len(Parts[m][i].indices) % 3 = 0
        /\ \A k \in 1 .. Len(Parts[m][i].indices) : Parts[m][i].indices[k] < Parts[m][i].vertices
  BY PartsOfMesh
<1> HIDE DEF V, I
<1>4. FlattenSeq(I) \in Seq(Nat)  BY <1>2, FlattenType
<1>5. \A i \in 1 .. Len(I) : Len(I[i]) % 3 = 0  BY <1>2, <1>3
<1>6. Len(FlattenSeq(I)) % 3 = 0  BY <1>2, <1>5, FlattenMultiple
<1>7. ASSUME NEW k \in 1 .. Len(FlattenSeq(I))
      PROVE  FlattenSeq(I)[k] < Len(FlattenSeq(V))
  <2>1. PICK i \in 1 .. Len(I) : \E j \in 1 .. Len(I[i]) : FlattenSeq(I)[k] = I[i][j]
    BY <1>2, FlattenElements
  <2>2. PICK j \in 1 .. Len(I[i]) : FlattenSeq(I)[k] = I[i][j]  BY <2>1
  <2>3. i \in 1 .. Len(Parts[m]) /\ i \in 1 .. Len(V)  BY <1>1, <1>2
  <2>4. I[i][j] < Parts[m][i].vertices /\ I[i][j] \in Nat /\ Parts[m][i].vertices \in Nat
    <3>1. I[i] = Parts[m][i].indices  BY <1>2, <2>3
    <3>2. j \in 1 .. Len(Parts[m][i].indices)  BY <3>1
    <3>3. Parts[m][i].indices[j] \in Nat  BY <1>3, <2>3, <3>2, ElementOfSeq, Zenon
    <3>4. QED  BY <1>3, <2>3, <3>1, <3>2, <3>3, Zenon
  <2>5. Parts[m][i].vertices <= Len(FlattenSeq(V))
    <3>1. Len(V[i]) <= Len(FlattenSeq(V))  BY <1>1, <2>3, FlattenCoversPart
    <3>2. QED  BY <1>1, <2>3, <3>1
  <2>6. Len(FlattenSeq(V)) \in Nat
    <3>1. FlattenSeq(V) \in Seq(Nat \X Int)  BY <1>1, FlattenType
    <3>2. QED  BY <3>1
  <2>7. QED  BY <2>2, <2>4, <2>5, <2>6
<1>8. QED  BY <1>1, <1>2, <1>4, <1>6, <1>7

\* The corner an edge index is taken from is one of the triangles'.
LEMMA EdgeCorner ==
  ASSUME NEW n \in Nat, n % 3 = 0, NEW k \in 1 .. 2 * n
  PROVE  3 * ((k - 1) \div 6) + (((((k - 1) % 6) + 1) \div 2) % 3) + 1 \in 1 .. n
<1> DEFINE q == n \div 3
           t == (k - 1) \div 6
           c == ((((k - 1) % 6) + 1) \div 2) % 3
<1>1. q \in Nat /\ n = 3 * q  OBVIOUS
<1>2. t \in Nat /\ 6 * t <= k - 1  OBVIOUS
<1>3. c \in 0 .. 2
  <2>1. ((k - 1) % 6) + 1 \in Nat  OBVIOUS
  <2>2. \A x \in Nat : x \div 2 \in Nat  OBVIOUS
  <2>3. \A x \in Nat : x % 3 \in 0 .. 2  OBVIOUS
  <2>4. QED  BY <2>1, <2>2, <2>3
<1>4. k - 1 < 6 * q  BY <1>1
<1> HIDE DEF q, t, c
<1>5. t <= q - 1  BY <1>1, <1>2, <1>4
<1>6. 3 * t + c + 1 \in 1 .. 3 * q  BY <1>1, <1>2, <1>3, <1>5
<1>7. QED  BY <1>1, <1>6 DEF t, c

\* The edges of a mesh, two indices for each of the three a triangle has, name
\* vertices it has.
LEMMA EdgesNameVertices ==
  ASSUME NEW m \in Mesh
  PROVE  /\ Len(EdgeIndices(m)) = 2 * Len(TriangleIndices(m))
         /\ DOMAIN EdgeIndices(m) = 1 .. 2 * Len(TriangleIndices(m))
         /\ \A k \in DOMAIN EdgeIndices(m) : EdgeIndices(m)[k] < Len(Vertices(m))
<1> DEFINE t == TriangleIndices(m)
           at(k) == 3 * ((k - 1) \div 6) + (((((k - 1) % 6) + 1) \div 2) % 3) + 1
<1>1. /\ t \in Seq(Nat) /\ Len(t) % 3 = 0
      /\ \A k \in 1 .. Len(t) : t[k] < Len(Vertices(m))
  BY TrianglesNameVertices
<1>2. Len(t) \in Nat  BY <1>1
<1>3. EdgeIndices(m) = [k \in 1 .. 2 * Len(t) |-> t[at(k)]]  BY Zenon DEF EdgeIndices
<1> HIDE DEF t
<1>4. \A k \in 1 .. 2 * Len(t) : at(k) \in 1 .. Len(t)  BY <1>1, <1>2, EdgeCorner
<1> HIDE DEF at
<1>5. DOMAIN EdgeIndices(m) = 1 .. 2 * Len(t)  BY <1>3
<1>6. 2 * Len(t) \in Nat  BY <1>2
<1>7. Len(EdgeIndices(m)) = 2 * Len(t)  BY <1>5, <1>6, LenProperties, <1>3
<1>8. \A k \in 1 .. 2 * Len(t) : EdgeIndices(m)[k] < Len(Vertices(m))
  BY <1>1, <1>3, <1>4, Zenon
<1>9. QED  BY <1>5, <1>7, <1>8 DEF t

\* In a file of one part the indices are right: they are counted from 0 in their
\* part, and no other part comes before it.
LEMMA OnePartIsRight ==
  ASSUME NEW m \in Mesh, Len(Parts[m]) <= 1, NEW k \in DOMAIN TriangleIndices(m)
  PROVE  Vertices(m)[TriangleIndices(m)[k] + 1][1] = PartOfIndex(m)[k]
<1> DEFINE P(i) == [n \in DOMAIN Parts[m][i].indices |-> i]
           W == [i \in DOMAIN Parts[m] |-> P(i)]
<1>1. /\ DOMAIN Parts[m] = 1 .. Len(Parts[m]) /\ Len(Parts[m]) \in Nat
      /\ \A i \in 1 .. Len(Parts[m]) :
           /\ Parts[m][i].vertices \in Nat /\ Parts[m][i].indices \in Seq(Nat)
           /\ \A n \in 1 .. Len(Parts[m][i].indices) :
                Parts[m][i].indices[n] < Parts[m][i].vertices
  BY PartsOfMesh
<1>2. Len(Parts[m]) # 0
  <2> SUFFICES ASSUME Len(Parts[m]) = 0 PROVE FALSE  OBVIOUS
  <2>1. /\ IndexParts(m) \in Seq(Seq(Nat)) /\ Len(IndexParts(m)) = 0
        /\ TriangleIndices(m) = FlattenSeq(IndexParts(m))
    BY IndexPartsType
  <2>2. TriangleIndices(m) = <<>>  BY <2>1, FlattenNone, Zenon
  <2>3. QED  BY <2>2
<1>3. Len(Parts[m]) = 1 /\ 1 \in 1 .. Len(Parts[m])
  <2>1. \A n \in Nat : n <= 1 /\ n # 0 => n = 1  OBVIOUS
  <2>2. Len(Parts[m]) = 1  BY <1>1, <1>2, <2>1, Zenon
  <2>3. 1 \in 1 .. 1  OBVIOUS
  <2>4. QED  BY <2>2, <2>3
<1>4. TriangleIndices(m) = Parts[m][1].indices
  <2>1. /\ IndexParts(m) \in Seq(Seq(Nat)) /\ Len(IndexParts(m)) = 1
        /\ IndexParts(m)[1] = Parts[m][1].indices
        /\ TriangleIndices(m) = FlattenSeq(IndexParts(m))
    BY <1>3, IndexPartsType
  <2>2. QED  BY <2>1, FlattenOne, Zenon
<1>5. Vertices(m) = VerticesOfPart(m, 1)
  <2>1. /\ VertexParts(m) \in Seq(Seq(Nat \X Int)) /\ Len(VertexParts(m)) = 1
        /\ VertexParts(m)[1] = VerticesOfPart(m, 1)
        /\ Vertices(m) = FlattenSeq(VertexParts(m))
    BY <1>3, VertexPartsType
  <2>2. QED  BY <2>1, FlattenOne, Zenon
<1>6. PartOfIndex(m) = P(1)
  <2>1. DOMAIN Parts[m][1].indices = 1 .. Len(Parts[m][1].indices)  BY <1>1, <1>3
  <2>2. P(1) \in Seq(Nat)  BY <1>1, <1>3, <2>1
  <2> HIDE DEF P
  <2>3. W = [i \in 1 .. 1 |-> P(i)]  BY <1>1, <1>3
  <2>4. W \in Seq(Seq(Nat)) /\ Len(W) = 1 /\ W[1] = P(1)  BY <2>2, <2>3
  <2>5. PartOfIndex(m) = FlattenSeq(W)  BY DEF PartOfIndex, P
  <2> HIDE DEF W
  <2>6. QED  BY <2>4, <2>5, FlattenOne, Zenon
<1> DEFINE x == Parts[m][1].indices[k]
<1>7. k \in DOMAIN Parts[m][1].indices  BY <1>4
<1>8. DOMAIN Parts[m][1].indices = 1 .. Len(Parts[m][1].indices)  BY <1>1, <1>3
<1>9. x \in Nat /\ x < Parts[m][1].vertices /\ Parts[m][1].vertices \in Nat
  <2>1. x \in Nat  BY <1>1, <1>3, <1>7, <1>8, ElementOfSeq, Zenon
  <2>2. QED  BY <1>1, <1>3, <1>7, <1>8, <2>1, Zenon
<1> HIDE DEF x
<1>10. VerticesOfPart(m, 1)[x + 1] = <<1, (x + 1) - 1>>
  BY <1>9 DEF VerticesOfPart
<1>11. P(1)[k] = 1  BY <1>7
<1> HIDE DEF P
<1>12. QED  BY <1>4, <1>5, <1>6, <1>10, <1>11 DEF x
=============================================================================
