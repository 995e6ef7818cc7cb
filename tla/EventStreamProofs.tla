-------------------------- MODULE EventStreamProofs --------------------------
(***************************************************************************)
(* Theorems about EventStream, for any log of events, any suggestions, and any *)
(* chunks and connections.                                                   *)
(*                                                                         *)
(* What is in the buffer and on its way is always a sequence of whole pieces,  *)
(* comments and the texts of the events that follow the last one seen.  So the *)
(* first empty line in the buffer ends the first piece, and what drain_sse     *)
(* finds in front of it are the fields of the next event.                    *)
(*                                                                         *)
(* Texts and frames are defined by recursion over lengths; what such a         *)
(* definition yields for every length comes from SetInduction.               *)
(***************************************************************************)
EXTENDS EventStream, FiniteSetTheorems, SequenceTheorems, TLAPS

------------------------------------------------------------------------------
(* Induction and recursion *)

\* A set of naturals that has 0, and with each number the next, has them all: the
\* successor would else be an injection of a finite set into a smaller one.
LEMMA SetInduction ==
  ASSUME NEW A, 0 \in A, \A i \in Nat : i \in A => i + 1 \in A
  PROVE  \A n \in Nat : n \in A
<1> SUFFICES ASSUME NEW n \in Nat, n \notin A PROVE FALSE
  OBVIOUS
<1> DEFINE B == {i \in 0 .. n : i \notin A}
<1> DEFINE D == {i \in 0 .. n - 1 : i \notin A}
<1> DEFINE f == [i \in B |-> i - 1]
<1>1. IsFiniteSet(B) /\ IsFiniteSet(D)
  <2>1. B \subseteq 0 .. n /\ D \subseteq 0 .. n
    OBVIOUS
  <2>2. IsFiniteSet(0 .. n)
    BY FS_Interval
  <2> HIDE DEF B, D
  <2> QED
    BY <2>1, <2>2, FS_Subset
<1>2. f \in [B -> D]
  OBVIOUS
<1>3. Cardinality(D) < Cardinality(B)
  <2>1. B = D \cup {n} /\ n \notin D
    OBVIOUS
  <2>2. Cardinality(B) = Cardinality(D) + 1
    <3> HIDE DEF B, D
    <3> QED
      BY <1>1, <2>1, FS_AddElement
  <2> QED
    BY <1>1, <2>2, FS_CardinalityType
<1>4. \E x, y \in B : x # y /\ f[x] = f[y]
  <2> HIDE DEF B, D, f
  <2> QED
    BY <1>1, <1>2, <1>3, FS_PigeonHole
<1> QED
  BY <1>4

\* The same between two bounds.
LEMMA Upwards ==
  ASSUME NEW lo \in Int, NEW hi \in Int, NEW A, lo \in A,
         \A i \in lo .. hi - 1 : i \in A => i + 1 \in A
  PROVE  \A i \in lo .. hi : i \in A
<1> DEFINE M == {m \in Nat : lo + m <= hi => lo + m \in A}
<1>1. 0 \in M /\ \A m \in Nat : m \in M => m + 1 \in M
  <2>1. ASSUME NEW m \in Nat, m \in M, lo + (m + 1) <= hi PROVE lo + (m + 1) \in A
    <3>1. lo + m \in lo .. hi - 1 /\ lo + m \in A
      BY <2>1
    <3>2. (lo + m) + 1 \in A
      BY <3>1
    <3> QED
      BY <3>2
  <2> QED
    BY <2>1
<1>2. \A m \in Nat : m \in M
  <2> HIDE DEF M
  <2> QED
    BY <1>1, SetInduction
<1> SUFFICES ASSUME NEW i \in lo .. hi PROVE i \in A
  OBVIOUS
<1>3. i - lo \in Nat /\ lo + (i - lo) = i
  OBVIOUS
<1> QED
  BY <1>2, <1>3

\* f begins with first at lo, and G makes the next value from the last one.
Steps(f, lo, hi, first, G) ==
  \A i \in lo .. hi : f[i] = IF i = lo THEN first ELSE G[<<f[i - 1], i>>]

\* There is such a function on every interval.
LEMMA Recursion ==
  ASSUME NEW lo \in Int, NEW hi \in Int, lo <= hi, NEW V, NEW first \in V,
         NEW G \in [V \X (lo .. hi) -> V]
  PROVE  \E f \in [lo .. hi -> V] : Steps(f, lo, hi, first, G)
<1> DEFINE Upto(m, f) ==
      f \in [lo .. m -> V] /\ \A i \in lo .. m :
                                f[i] = IF i = lo THEN first ELSE G[<<f[i - 1], i>>]
<1> DEFINE A == {m \in lo .. hi : \E f : Upto(m, f)}
<1>1. lo \in A
  <2> DEFINE f == [i \in lo .. lo |-> first]
  <2>1. f \in [lo .. lo -> V] /\ \A i \in lo .. lo : i = lo /\ f[i] = first
    OBVIOUS
  <2> HIDE DEF f
  <2>2. Upto(lo, f)
    BY <2>1
  <2> QED
    BY <2>2
<1>2. ASSUME NEW m \in lo .. hi - 1, m \in A PROVE m + 1 \in A
  <2>1. PICK f : Upto(m, f)
    BY <1>2
  <2> DEFINE g == [i \in lo .. m + 1 |-> IF i <= m THEN f[i] ELSE G[<<f[m], m + 1>>]]
  <2>2. f[m] \in V /\ m + 1 \in lo .. hi
    BY <2>1
  <2>3. G[<<f[m], m + 1>>] \in V
    BY <2>2
  <2>4. g \in [lo .. m + 1 -> V]
    BY <2>1, <2>3
  <2>5. ASSUME NEW i \in lo .. m + 1
        PROVE  g[i] = IF i = lo THEN first ELSE G[<<g[i - 1], i>>]
    <3>1. CASE i <= m
      <4>1. i \in lo .. m /\ g[i] = f[i] /\ (i # lo => g[i - 1] = f[i - 1])
        BY <3>1
      <4> HIDE DEF g
      <4> QED
        BY <2>1, <4>1
    <3>2. CASE i = m + 1
      <4>1. g[m + 1] = G[<<f[m], m + 1>>] /\ g[m] = f[m]
        OBVIOUS
      <4>2. i - 1 = m /\ i # lo
        BY <3>2
      <4> HIDE DEF g
      <4> QED
        BY <3>2, <4>1, <4>2
    <3> QED
      BY <3>1, <3>2
  <2> HIDE DEF g
  <2>6. Upto(m + 1, g)
    BY <2>4, <2>5
  <2> QED
    BY <2>6
<1>3. \A m \in lo .. hi : m \in A
  <2> HIDE DEF A
  <2> QED
    BY <1>1, <1>2, Upwards
<1>4. hi \in A
  <2> HIDE DEF A
  <2> QED
    BY <1>3
<1> QED
  BY <1>4 DEF Steps

\* f builds the concatenation of ss up from its first sequence.
Builds(f, ss) ==
  /\ FlattenSeq(ss) = f[Len(ss)] /\ f[1] = ss[1]
  /\ \A i \in 2 .. Len(ss) : f[i] = f[i - 1] \o ss[i]

\* The function by which FlattenSeq is defined.
LEMMA FlatSteps ==
  ASSUME NEW T, NEW ss \in Seq(Seq(T)), ss # <<>>
  PROVE  \E f \in [1 .. Len(ss) -> Seq(T)] : Builds(f, ss)
<1> DEFINE n == Len(ss)
<1> DEFINE V == Seq(T)
<1> DEFINE first == ss[1]
<1> DEFINE Flat(f) == f = [i \in 1 .. n |-> IF i = 1 THEN ss[i] ELSE f[i - 1] \o ss[i]]
<1> DEFINE G == [p \in V \X (1 .. n) |-> p[1] \o ss[p[2]]]
<1>1. n \in Int /\ 1 \in Int /\ 1 <= n /\ first \in V
  OBVIOUS
<1>2. G \in [V \X (1 .. n) -> V]
  <2>1. ASSUME NEW p \in V \X (1 .. n) PROVE p[1] \o ss[p[2]] \in V
    <3>1. p[1] \in V /\ ss[p[2]] \in V
      OBVIOUS
    <3> QED
      BY <3>1
  <2> QED
    BY <2>1
<1>3. PICK f \in [1 .. n -> V] : Steps(f, 1, n, first, G)
  <2> HIDE DEF G, n, V, first
  <2> QED
    BY <1>1, <1>2, Recursion
<1>4. ASSUME NEW i \in 1 .. n
      PROVE  f[i] = IF i = 1 THEN ss[i] ELSE f[i - 1] \o ss[i]
  <2>1. CASE i = 1
    BY <1>3, <2>1 DEF Steps
  <2>2. CASE i # 1
    <3>1. i - 1 \in 1 .. n
      BY <2>2
    <3>2. <<f[i - 1], i>> \in V \X (1 .. n)
      BY <3>1
    <3>3. G[<<f[i - 1], i>>] = f[i - 1] \o ss[i]
      BY <3>2
    <3>4. f[i] = G[<<f[i - 1], i>>]
      <4> HIDE DEF G, n, V
      <4> QED
        BY <1>3, <2>2 DEF Steps
    <3> QED
      BY <2>2, <3>3, <3>4
  <2> QED
    BY <2>1, <2>2
<1>5. Flat(f)
  <2> HIDE DEF G, n, V
  <2> QED
    BY <1>3, <1>4
<1> DEFINE h == CHOOSE g : Flat(g)
<1>6. Flat(h)
  <2> HIDE DEF Flat
  <2> QED
    BY <1>5
<1>7. FlattenSeq(ss) = h[n]
  BY <1>1 DEF FlattenSeq
<1> HIDE DEF h
<1>8. h = [i \in 1 .. n |-> IF i = 1 THEN ss[i] ELSE h[i - 1] \o ss[i]]
  BY <1>6
<1> HIDE DEF Flat, n
<1>9. \A i \in 1 .. n : h[i] = IF i = 1 THEN ss[i] ELSE h[i - 1] \o ss[i]
  BY <1>8
<1>10. \A i \in 1 .. n : i \in {j \in 1 .. n : h[j] \in V}
  <2> DEFINE A == {j \in 1 .. n : h[j] \in V}
  <2>1. 1 \in A
    BY <1>1, <1>9
  <2>2. ASSUME NEW i \in 1 .. n - 1, i \in A PROVE i + 1 \in A
    <3>1. i + 1 \in 1 .. n /\ (i + 1) - 1 = i /\ i + 1 # 1
      BY <1>1
    <3>2. h[i + 1] = h[i] \o ss[i + 1]
      BY <1>9, <3>1
    <3>3. ss[i + 1] \in V /\ h[i] \in V
      BY <2>2, <3>1 DEF n
    <3>4. h[i + 1] \in V
      BY <3>2, <3>3
    <3> QED
      BY <3>1, <3>4
  <2> HIDE DEF A
  <2>3. \A i \in 1 .. n : i \in A
    BY <1>1, <2>1, <2>2, Upwards
  <2> QED
    BY <2>3 DEF A
<1>11. h \in [1 .. n -> V]
  BY <1>8, <1>10
<1>12. /\ h \in [1 .. Len(ss) -> Seq(T)] /\ FlattenSeq(ss) = h[Len(ss)] /\ h[1] = ss[1]
       /\ \A i \in 2 .. Len(ss) : h[i] = h[i - 1] \o ss[i]
  <2>1. \A i \in 2 .. n : i \in 1 .. n /\ i # 1
    OBVIOUS
  <2>2. \A i \in 2 .. n : h[i] = h[i - 1] \o ss[i]
    BY <1>9, <2>1
  <2>3. h[1] = ss[1]
    BY <1>1, <1>9
  <2> QED
    BY <1>7, <1>11, <2>2, <2>3 DEF n
<1> QED
  BY <1>12 DEF Builds

\* FlattenSeq: of nothing, its type, and one sequence more.
LEMMA FlatEmpty == FlattenSeq(<<>>) = <<>>
BY DEF FlattenSeq

LEMMA FlatType ==
  ASSUME NEW T, NEW ss \in Seq(Seq(T))
  PROVE  FlattenSeq(ss) \in Seq(T)
<1>1. CASE ss = <<>>
  <2>1. FlattenSeq(ss) = <<>>
    BY <1>1, FlatEmpty
  <2>2. <<>> \in Seq(T)
    OBVIOUS
  <2> QED
    BY <2>1, <2>2
<1>2. CASE ss # <<>>
  <2>1. PICK f \in [1 .. Len(ss) -> Seq(T)] : Builds(f, ss)
    BY <1>2, FlatSteps
  <2>2. Len(ss) \in 1 .. Len(ss)
    BY <1>2
  <2> QED
    BY <2>1, <2>2 DEF Builds
<1> QED
  BY <1>1, <1>2

LEMMA FlatAppend ==
  ASSUME NEW T, NEW ss \in Seq(Seq(T)), NEW x \in Seq(T)
  PROVE  FlattenSeq(Append(ss, x)) = FlattenSeq(ss) \o x
<1> DEFINE n == Len(ss)
<1> DEFINE tt == Append(ss, x)
<1>1. /\ n \in Nat /\ tt \in Seq(Seq(T)) /\ tt # <<>> /\ Len(tt) = n + 1
      /\ tt[n + 1] = x /\ \A i \in 1 .. n : tt[i] = ss[i]
  <2> DEFINE V == Seq(T)
  <2>1. ss \in Seq(V) /\ x \in V /\ n \in Nat
    OBVIOUS
  <2> HIDE DEF V
  <2> QED
    BY <2>1, AppendProperties DEF V
<1> HIDE DEF tt, n
<1>2. PICK g \in [1 .. Len(tt) -> Seq(T)] : Builds(g, tt)
  BY <1>1, FlatSteps
<1>3. /\ FlattenSeq(tt) = g[n + 1] /\ g[1] = tt[1]
      /\ \A i \in 2 .. n + 1 : g[i] = g[i - 1] \o tt[i]
  BY <1>1, <1>2 DEF Builds
<1>4. CASE n = 0
  <2>1. ss = <<>>
    BY <1>4 DEF n
  <2>2. FlattenSeq(tt) = x
    BY <1>1, <1>3, <1>4
  <2>3. FlattenSeq(ss) \o x = x
    <3>1. FlattenSeq(ss) = <<>>
      BY <2>1, FlatEmpty
    <3>2. <<>> \o x = x
      BY ConcatEmptySeq
    <3> QED
      BY <3>1, <3>2
  <2> QED
    BY <2>2, <2>3 DEF tt
<1>5. CASE n # 0
  <2>1. ss # <<>>
    BY <1>5 DEF n
  <2>2. PICK f \in [1 .. Len(ss) -> Seq(T)] : Builds(f, ss)
    BY <2>1, FlatSteps
  <2>3. /\ FlattenSeq(ss) = f[n] /\ f[1] = ss[1]
        /\ \A i \in 2 .. n : f[i] = f[i - 1] \o ss[i]
    BY <2>2 DEF Builds, n
  <2> DEFINE A == {i \in 1 .. n : g[i] = f[i]}
  <2>4. 1 \in A
    BY <1>1, <1>3, <1>5, <2>3
  <2>5. ASSUME NEW i \in 1 .. n - 1, i \in A PROVE i + 1 \in A
    <3>1. i + 1 \in 2 .. n /\ i + 1 \in 2 .. n + 1 /\ i + 1 \in 1 .. n /\ (i + 1) - 1 = i
      BY <1>1
    <3>2. f[i + 1] = f[i] \o ss[i + 1] /\ g[i + 1] = g[i] \o tt[i + 1]
      BY <1>3, <2>3, <3>1
    <3> QED
      BY <1>1, <2>5, <3>1, <3>2
  <2>6. \A i \in 1 .. n : i \in A
    <3> HIDE DEF A
    <3>1. 1 \in Int /\ n \in Int
      BY <1>1
    <3> QED
      BY <2>4, <2>5, <3>1, Upwards
  <2>7. g[n] = f[n]
    BY <1>1, <1>5, <2>6
  <2>8. n + 1 \in 2 .. n + 1 /\ (n + 1) - 1 = n
    BY <1>1, <1>5
  <2>9. g[n + 1] = g[n] \o x
    BY <1>1, <1>3, <2>8
  <2> QED
    BY <1>3, <2>3, <2>7, <2>9 DEF tt
<1> QED
  BY <1>4, <1>5

Associative(V) == \A a, b, c \in V : (a \o b) \o c = a \o (b \o c)

\* Concatenation may be regrouped.
LEMMA Regroup == ASSUME NEW T PROVE Associative(Seq(T))
BY ConcatAssociative DEF Associative

\* ... and the first sequence can be taken off.
LEMMA FlatHead ==
  ASSUME NEW T, NEW ss \in Seq(Seq(T)), ss # <<>>
  PROVE  FlattenSeq(ss) = ss[1] \o FlattenSeq(Tail(ss))
<1> DEFINE V == Seq(T)
<1> DEFINE A == {m \in Nat : \A tt \in Seq(V) :
                   Len(tt) = m + 1 => FlattenSeq(tt) = tt[1] \o FlattenSeq(Tail(tt))}
<1>1. ASSUME NEW tt \in Seq(V), NEW x \in V,
             tt # <<>> => FlattenSeq(tt) = tt[1] \o FlattenSeq(Tail(tt))
      PROVE  LET uu == Append(tt, x) IN FlattenSeq(uu) = uu[1] \o FlattenSeq(Tail(uu))
  <2>1. FlattenSeq(Append(tt, x)) = FlattenSeq(tt) \o x
    BY FlatAppend
  <2>2. CASE tt = <<>>
    <3>1. FlattenSeq(tt) \o x = x \o <<>>
      <4>1. FlattenSeq(tt) = <<>>
        BY <2>2, FlatEmpty
      <4>2. <<>> \o x = x /\ x \o <<>> = x
        BY ConcatEmptySeq
      <4> QED
        BY <4>1, <4>2
    <3>2. Append(tt, x)[1] = x
      BY <2>2
    <3>3. Tail(Append(tt, x)) = <<>>
      BY <2>2, HeadTailAppend
    <3>4. FlattenSeq(Tail(Append(tt, x))) = <<>>
      BY <3>3, FlatEmpty
    <3> QED
      BY <2>1, <3>1, <3>2, <3>4
  <2>3. CASE tt # <<>>
    <3> DEFINE r == Tail(tt)
    <3>1. r \in Seq(V) /\ tt[1] \in V
      <4> HIDE DEF V
      <4> QED
        BY <2>3
    <3>2. Append(tt, x)[1] = tt[1]
      <4> HIDE DEF V
      <4> QED
        BY <2>3
    <3>3. Tail(Append(tt, x)) = Append(r, x)
      <4> HIDE DEF V
      <4> QED
        BY <2>3, HeadTailAppend
    <3> HIDE DEF r
    <3>4. FlattenSeq(Append(r, x)) = FlattenSeq(r) \o x /\ FlattenSeq(r) \in V
      BY <3>1, FlatAppend, FlatType
    <3>5. FlattenSeq(tt) = tt[1] \o FlattenSeq(r)
      BY <1>1, <2>3 DEF r
    <3>6. (tt[1] \o FlattenSeq(r)) \o x = tt[1] \o (FlattenSeq(r) \o x)
      <4>1. Associative(V)
        BY Regroup
      <4> HIDE DEF V
      <4> QED
        BY <3>1, <3>4, <4>1 DEF Associative
    <3> QED
      BY <2>1, <3>2, <3>3, <3>4, <3>5, <3>6
  <2> QED
    BY <2>2, <2>3
<1>2. ASSUME NEW m \in Nat, NEW uu \in Seq(V), Len(uu) = m + 1
      PROVE  \E tt \in Seq(V), x \in V : uu = Append(tt, x) /\ Len(tt) = m
  <2> HIDE DEF V
  <2>1. uu # <<>>
    BY <1>2
  <2>2. PICK tt \in Seq(V), x \in V : uu = Append(tt, x)
    BY <2>1, SequenceEmptyOrAppend
  <2>3. Len(uu) = Len(tt) + 1 /\ Len(tt) \in Nat
    BY <2>2, AppendProperties, LenProperties
  <2> QED
    BY <1>2, <2>2, <2>3
<1>3. 0 \in A
  <2> SUFFICES ASSUME NEW uu \in Seq(V), Len(uu) = 0 + 1
               PROVE  FlattenSeq(uu) = uu[1] \o FlattenSeq(Tail(uu))
    OBVIOUS
  <2>1. PICK tt \in Seq(V), x \in V : uu = Append(tt, x) /\ Len(tt) = 0
    BY <1>2
  <2>2. tt = <<>>
    BY <2>1
  <2> HIDE DEF V
  <2> QED
    BY <1>1, <2>1, <2>2
<1>4. ASSUME NEW m \in Nat, m \in A PROVE m + 1 \in A
  <2> SUFFICES ASSUME NEW uu \in Seq(V), Len(uu) = (m + 1) + 1
               PROVE  FlattenSeq(uu) = uu[1] \o FlattenSeq(Tail(uu))
    OBVIOUS
  <2>1. PICK tt \in Seq(V), x \in V : uu = Append(tt, x) /\ Len(tt) = m + 1
    <3>1. m + 1 \in Nat
      OBVIOUS
    <3> HIDE DEF V
    <3> QED
      BY <1>2, <3>1
  <2>2. FlattenSeq(tt) = tt[1] \o FlattenSeq(Tail(tt))
    BY <1>4, <2>1
  <2> HIDE DEF V
  <2> QED
    BY <1>1, <2>1, <2>2
<1>5. \A m \in Nat : m \in A
  <2> HIDE DEF A
  <2> QED
    BY <1>3, <1>4, SetInduction
<1>6. Len(ss) - 1 \in Nat /\ Len(ss) = (Len(ss) - 1) + 1
  OBVIOUS
<1> QED
  BY <1>5, <1>6

------------------------------------------------------------------------------
(* The fields of an event *)

Tokens == {"LF", "CR", "id", "data", "retry", "comment"} \X Int

\* f collects the values of a field from the beginning of s.
Collects(f, s, field) ==
  /\ Values(s, field) = f[Len(s)] /\ f[0] = <<>>
  /\ \A i \in 1 .. Len(s) :
       f[i] = IF s[i][1] = field THEN Append(f[i - 1], s[i][2]) ELSE f[i - 1]

\* The function by which Values is defined.
LEMMA ValueSteps ==
  ASSUME NEW s \in Seq(Tokens), NEW field
  PROVE  \E f \in [0 .. Len(s) -> Seq(Int)] : Collects(f, s, field)
<1> DEFINE n == Len(s)
<1> DEFINE V == Seq(Int)
<1> DEFINE first == <<>>
<1> DEFINE Found(f) ==
      f = [i \in 0 .. n |-> IF i = 0 THEN <<>>
                             ELSE IF s[i][1] = field THEN Append(f[i - 1], s[i][2])
                             ELSE f[i - 1]]
<1> DEFINE Step(p) == IF s[p[2]][1] = field THEN Append(p[1], s[p[2]][2]) ELSE p[1]
<1> DEFINE G == [p \in V \X (0 .. n) |-> IF p[2] = 0 THEN p[1] ELSE Step(p)]
<1>1. n \in Int /\ 0 \in Int /\ 0 <= n /\ first \in V
  OBVIOUS
<1>2. \A i \in 1 .. n : s[i][2] \in Int
  BY ElementOfSeq DEF Tokens
<1>3. G \in [V \X (0 .. n) -> V]
  <2>1. ASSUME NEW p \in V \X (0 .. n), p[2] # 0 PROVE Step(p) \in V
    <3>1. p[1] \in V /\ p[2] \in 1 .. n
      BY <1>1, <2>1
    <3>2. s[p[2]][2] \in Int
      BY <1>2, <3>1
    <3> QED
      BY <3>1, <3>2
  <2>2. \A p \in V \X (0 .. n) : (IF p[2] = 0 THEN p[1] ELSE Step(p)) \in V
    <3> HIDE DEF Step, V
    <3> QED
      BY <2>1
  <2> HIDE DEF Step, V
  <2> QED
    BY <2>2
<1>4. PICK f \in [0 .. n -> V] : Steps(f, 0, n, first, G)
  <2> HIDE DEF G, n, V, first
  <2> QED
    BY <1>1, <1>3, Recursion
<1>5. ASSUME NEW i \in 1 .. n
      PROVE  f[i] = IF s[i][1] = field THEN Append(f[i - 1], s[i][2]) ELSE f[i - 1]
  <2>1. i - 1 \in 0 .. n /\ i \in 0 .. n /\ i # 0
    BY <1>1
  <2>2. <<f[i - 1], i>> \in V \X (0 .. n)
    BY <2>1
  <2>3. f[i] = G[<<f[i - 1], i>>]
    <3> HIDE DEF G, n, V
    <3> QED
      BY <1>4, <2>1 DEF Steps
  <2> QED
    BY <2>1, <2>2, <2>3
<1>6. f[0] = <<>>
  <2>1. 0 \in 0 .. n
    BY <1>1
  <2>2. f[0] = first
    <3> HIDE DEF G, n, V, first
    <3> QED
      BY <1>4, <2>1 DEF Steps
  <2> QED
    BY <2>2
<1>7. Found(f)
  <2>1. \A i \in 0 .. n : i = 0 \/ i \in 1 .. n
    BY <1>1
  <2> HIDE DEF G, n, V
  <2>2. ASSUME NEW i \in 0 .. n
        PROVE  f[i] = IF i = 0 THEN <<>>
                      ELSE IF s[i][1] = field THEN Append(f[i - 1], s[i][2])
                      ELSE f[i - 1]
    BY <1>5, <1>6, <2>1
  <2> QED
    BY <2>2
<1> DEFINE h == CHOOSE g : Found(g)
<1>8. Found(h)
  <2> HIDE DEF Found
  <2> QED
    BY <1>7
<1>9. Values(s, field) = h[n]
  BY DEF Values
<1> HIDE DEF h
<1>10. h = [i \in 0 .. n |-> IF i = 0 THEN <<>>
                             ELSE IF s[i][1] = field THEN Append(h[i - 1], s[i][2])
                             ELSE h[i - 1]]
  BY <1>8
<1> HIDE DEF Found
<1>11. h[0] = <<>>
  BY <1>1, <1>10
<1>12. ASSUME NEW i \in 1 .. n
       PROVE  h[i] = IF s[i][1] = field THEN Append(h[i - 1], s[i][2]) ELSE h[i - 1]
  <2>1. i \in 0 .. n /\ i # 0
    BY <1>1
  <2> HIDE DEF n
  <2> QED
    BY <1>10, <2>1
<1>13. \A i \in 0 .. n : i \in {j \in 0 .. n : h[j] \in V}
  <2> DEFINE A == {j \in 0 .. n : h[j] \in V}
  <2>1. 0 \in A
    <3>1. 0 \in 0 .. n /\ <<>> \in V
      BY <1>1
    <3> QED
      BY <1>11, <3>1
  <2>2. ASSUME NEW i \in 0 .. n - 1, i \in A PROVE i + 1 \in A
    <3>1. i + 1 \in 1 .. n /\ i + 1 \in 0 .. n /\ (i + 1) - 1 = i
      BY <1>1
    <3>2. h[i + 1] = IF s[i + 1][1] = field THEN Append(h[i], s[i + 1][2]) ELSE h[i]
      <4> HIDE DEF n
      <4> QED
        BY <1>12, <3>1
    <3>3. h[i] \in V /\ s[i + 1][2] \in Int
      BY <1>2, <2>2, <3>1
    <3>4. h[i + 1] \in V
      BY <3>2, <3>3
    <3> QED
      BY <3>1, <3>4
  <2> HIDE DEF A, n
  <2>3. \A i \in 0 .. n : i \in A
    BY <1>1, <2>1, <2>2, Upwards
  <2> QED
    BY <2>3 DEF A
<1>14. h \in [0 .. n -> V]
  <2> HIDE DEF n, V
  <2> QED
    BY <1>10, <1>13
<1>15. Collects(h, s, field)
  BY <1>9, <1>11, <1>12 DEF Collects
<1> QED
  BY <1>14, <1>15

\* No text has no values, and one token more adds at most its own.
LEMMA ValuesEmpty == ASSUME NEW field PROVE Values(<<>>, field) = <<>>
<1>1. <<>> \in Seq(Tokens) /\ Len(<<>>) = 0
  OBVIOUS
<1>2. PICK f : Collects(f, <<>>, field)
  BY <1>1, ValueSteps
<1> QED
  BY <1>1, <1>2 DEF Collects

LEMMA ValuesAppend ==
  ASSUME NEW s \in Seq(Tokens), NEW t \in Tokens, NEW field
  PROVE  Values(Append(s, t), field) =
           IF t[1] = field THEN Append(Values(s, field), t[2]) ELSE Values(s, field)
<1> DEFINE n == Len(s)
<1> DEFINE u == Append(s, t)
<1>1. /\ n \in Nat /\ u \in Seq(Tokens) /\ Len(u) = n + 1
      /\ u[n + 1] = t /\ \A i \in 1 .. n : u[i] = s[i]
  BY AppendProperties, LenProperties
<1> HIDE DEF u
<1>2. PICK g : Collects(g, u, field)
  BY <1>1, ValueSteps
<1>3. PICK f : Collects(f, s, field)
  BY ValueSteps
<1> DEFINE A == {i \in 0 .. n : g[i] = f[i]}
<1>4. \A i \in 0 .. n : i \in A
  <2>1. 0 \in A
    BY <1>1, <1>2, <1>3 DEF Collects
  <2>2. ASSUME NEW i \in 0 .. n - 1, i \in A PROVE i + 1 \in A
    <3>1. i + 1 \in 1 .. n /\ i + 1 \in 0 .. n /\ i + 1 \in 1 .. n + 1 /\ (i + 1) - 1 = i
      BY <1>1
    <3>2. u[i + 1] = s[i + 1] /\ g[i] = f[i]
      BY <1>1, <2>2, <3>1
    <3>3. f[i + 1] = IF s[i + 1][1] = field THEN Append(f[i], s[i + 1][2]) ELSE f[i]
      BY <1>3, <3>1 DEF Collects
    <3>4. g[i + 1] = IF u[i + 1][1] = field THEN Append(g[i], u[i + 1][2]) ELSE g[i]
      BY <1>1, <1>2, <3>1 DEF Collects
    <3> QED
      BY <3>1, <3>2, <3>3, <3>4
  <2>3. 0 \in Int /\ n \in Int
    BY <1>1
  <2> HIDE DEF A, n
  <2> QED
    BY <2>1, <2>2, <2>3, Upwards
<1>5. g[n] = f[n]
  BY <1>1, <1>4
<1>6. n + 1 \in 1 .. n + 1 /\ (n + 1) - 1 = n
  BY <1>1
<1>7. g[n + 1] = IF t[1] = field THEN Append(g[n], t[2]) ELSE g[n]
  BY <1>1, <1>2, <1>6 DEF Collects
<1>8. Values(s, field) = f[n] /\ Values(u, field) = g[n + 1]
  BY <1>1, <1>2, <1>3 DEF Collects
<1> QED
  BY <1>5, <1>7, <1>8 DEF u

------------------------------------------------------------------------------
(* Where an event ends *)

LineEnd == eol \in {<<LF>>, <<CR, LF>>}
Fields == {"id", "data", "retry", "comment"} \X Int

\* d is lines, without the end of the last one: no line is empty.
Lines(d) ==
  /\ d \in Seq(Tokens) /\ d # <<>>
  /\ d[Len(d)] # LF /\ d[Len(d)] # CR
  /\ \A i \in 1 .. Len(d) :
       /\ d[i] = LF => i > 1 /\ IF eol = <<LF>> THEN d[i - 1] # LF ELSE d[i - 1] = CR
       /\ d[i] = CR => i > 1 /\ d[i - 1] # LF /\ eol # <<LF>>

\* One more line.
NextLine(d, f) == d \o eol \o <<f>>

\* Line ends are tokens, and fields are others.
LEMMA LineEnds == LF \in Tokens /\ CR \in Tokens /\ LF # CR /\ <<LF>> # <<CR, LF>>
<1>1. LF \in Tokens /\ CR \in Tokens /\ LF # CR
  BY DEF LF, CR, Tokens
<1>2. Len(<<LF>>) = 1 /\ Len(<<CR, LF>>) = 2
  OBVIOUS
<1> QED
  BY <1>1, <1>2

LEMMA FieldTokens ==
  ASSUME NEW f \in Fields
  PROVE  f \in Tokens /\ f # LF /\ f # CR
BY DEF Fields, Tokens, LF, CR

\* A field is a line, and lines grow by one.
LEMMA OneLine == ASSUME NEW f \in Fields PROVE Lines(<<f>>)
<1>1. f \in Tokens /\ f # LF /\ f # CR
  BY FieldTokens
<1>2. <<f>> \in Seq(Tokens) /\ <<f>> # <<>> /\ Len(<<f>>) = 1 /\ <<f>>[1] = f
  BY <1>1
<1> DEFINE d == <<f>>
<1> HIDE DEF d
<1>3. Lines(d)
  <2>1. d \in Seq(Tokens) /\ d # <<>> /\ Len(d) = 1 /\ d[1] = f
    BY <1>2 DEF d
  <2> QED
    BY <1>1, <2>1 DEF Lines
<1> QED
  BY <1>3 DEF d

LEMMA MoreLines ==
  ASSUME LineEnd, NEW d, Lines(d), NEW f \in Fields
  PROVE  Lines(NextLine(d, f))
<1> DEFINE n == Len(d)
<1> DEFINE u == NextLine(d, f)
<1>1. f \in Tokens /\ f # LF /\ f # CR /\ LF \in Tokens /\ CR \in Tokens /\ LF # CR
      /\ <<LF>> # <<CR, LF>>
  BY FieldTokens, LineEnds
<1>2. d \in Seq(Tokens) /\ n \in Nat /\ n > 0
  BY DEF Lines
<1>3. CASE eol = <<LF>>
  <2>1. /\ u \in Seq(Tokens) /\ Len(u) = n + 2 /\ u[n + 1] = LF /\ u[n + 2] = f
        /\ \A i \in 1 .. n : u[i] = d[i]
    BY <1>1, <1>2, <1>3 DEF NextLine
  <2> HIDE DEF u
  <2>2. ASSUME NEW i \in 1 .. Len(u)
        PROVE  /\ u[i] = LF => i > 1 /\ u[i - 1] # LF
               /\ u[i] # CR
    <3>1. CASE i \in 1 .. n
      <4>1. u[i] = d[i] /\ (i > 1 => u[i - 1] = d[i - 1])
        BY <1>2, <2>1, <3>1
      <4> QED
        BY <1>3, <3>1, <4>1 DEF Lines
    <3>2. CASE i = n + 1
      <4>1. u[i] = LF /\ i - 1 = n /\ u[n] = d[n] /\ i > 1
        BY <1>2, <2>1, <3>2
      <4> QED
        BY <1>1, <4>1 DEF Lines
    <3>3. CASE i = n + 2
      BY <1>1, <2>1, <3>3
    <3> QED
      BY <1>2, <2>1, <3>1, <3>2, <3>3
  <2>3. u # <<>> /\ u[Len(u)] = f
    BY <1>2, <2>1
  <2>4. Lines(u)
    BY <1>1, <1>3, <2>1, <2>2, <2>3 DEF Lines
  <2> QED
    BY <2>4 DEF u
<1>4. CASE eol = <<CR, LF>>
  <2>1. /\ u \in Seq(Tokens) /\ Len(u) = n + 3 /\ u[n + 1] = CR /\ u[n + 2] = LF
        /\ u[n + 3] = f /\ \A i \in 1 .. n : u[i] = d[i]
    BY <1>1, <1>2, <1>4 DEF NextLine
  <2> HIDE DEF u
  <2>2. ASSUME NEW i \in 1 .. Len(u)
        PROVE  /\ u[i] = LF => i > 1 /\ u[i - 1] = CR
               /\ u[i] = CR => i > 1 /\ u[i - 1] # LF
    <3>1. CASE i \in 1 .. n
      <4>1. u[i] = d[i] /\ (i > 1 => u[i - 1] = d[i - 1])
        BY <1>2, <2>1, <3>1
      <4> QED
        BY <1>1, <1>4, <3>1, <4>1 DEF Lines
    <3>2. CASE i = n + 1
      <4>1. u[i] = CR /\ i - 1 = n /\ u[n] = d[n] /\ i > 1
        BY <1>2, <2>1, <3>2
      <4> QED
        BY <1>1, <4>1 DEF Lines
    <3>3. CASE i = n + 2
      <4>1. u[i] = LF /\ i - 1 = n + 1 /\ u[n + 1] = CR /\ i > 1
        BY <1>2, <2>1, <3>3
      <4> QED
        BY <1>1, <4>1
    <3>4. CASE i = n + 3
      BY <1>1, <2>1, <3>4
    <3> QED
      BY <1>2, <2>1, <3>1, <3>2, <3>3, <3>4
  <2>3. u # <<>> /\ u[Len(u)] = f
    BY <1>2, <2>1
  <2>4. Lines(u)
    BY <1>1, <1>4, <2>1, <2>2, <2>3 DEF Lines
  <2> QED
    BY <2>4 DEF u
<1> QED
  BY <1>3, <1>4 DEF LineEnd

\* A line more adds the value of its field.
LEMMA ValuesNext ==
  ASSUME LineEnd, NEW d, Lines(d), NEW f \in Fields, NEW field \in {"id", "data", "retry"}
  PROVE  Values(NextLine(d, f), field) =
           IF f[1] = field THEN Append(Values(d, field), f[2]) ELSE Values(d, field)
<1>1. f \in Tokens /\ LF \in Tokens /\ CR \in Tokens /\ LF[1] # field /\ CR[1] # field
  BY FieldTokens, LineEnds DEF LF, CR
<1>2. d \in Seq(Tokens)
  BY DEF Lines
<1> DEFINE V(s) == Values(s, field)
<1>3. ASSUME NEW s \in Seq(Tokens), NEW t \in Tokens
      PROVE  /\ t[1] = field => V(Append(s, t)) = Append(V(s), t[2])
             /\ t[1] # field => V(Append(s, t)) = V(s)
  <2>1. Values(Append(s, t), field) =
          IF t[1] = field THEN Append(Values(s, field), t[2]) ELSE Values(s, field)
    BY ValuesAppend
  <2> QED
    BY <2>1
<1> HIDE DEF V
<1>4. PICK e \in Seq(Tokens) : NextLine(d, f) = Append(e, f) /\ V(e) = V(d)
  <2>1. CASE eol = <<LF>>
    <3> DEFINE a == Append(d, LF)
    <3>1. NextLine(d, f) = Append(a, f) /\ a \in Seq(Tokens)
      BY <1>1, <1>2, <2>1 DEF NextLine
    <3>2. V(a) = V(d)
      BY <1>1, <1>2, <1>3
    <3> QED
      BY <3>1, <3>2
  <2>2. CASE eol = <<CR, LF>>
    <3> DEFINE a == Append(d, CR)
    <3> DEFINE b == Append(a, LF)
    <3>1. NextLine(d, f) = Append(b, f) /\ a \in Seq(Tokens) /\ b \in Seq(Tokens)
      BY <1>1, <1>2, <2>2 DEF NextLine
    <3>2. V(a) = V(d)
      BY <1>1, <1>2, <1>3
    <3>3. V(b) = V(a)
      <4> HIDE DEF a
      <4> QED
        BY <1>1, <1>3, <3>1
    <3> QED
      BY <3>1, <3>2, <3>3
  <2> QED
    BY <2>1, <2>2 DEF LineEnd
<1>5. V(NextLine(d, f)) = IF f[1] = field THEN Append(V(d), f[2]) ELSE V(d)
  BY <1>1, <1>3, <1>4
<1> QED
  BY <1>5 DEF V

LEMMA ValuesOne ==
  ASSUME NEW f \in Fields, NEW field
  PROVE  Values(<<f>>, field) = IF f[1] = field THEN <<f[2]>> ELSE <<>>
<1>1. <<f>> = Append(<<>>, f) /\ <<>> \in Seq(Tokens) /\ f \in Tokens
  BY FieldTokens
<1>2. Values(Append(<<>>, f), field) =
        IF f[1] = field THEN Append(Values(<<>>, field), f[2]) ELSE Values(<<>>, field)
  BY <1>1, ValuesAppend
<1>3. Values(<<>>, field) = <<>>
  BY ValuesEmpty
<1>4. Append(<<>>, f[2]) = <<f[2]>>
  OBVIOUS
<1> DEFINE v == Values(Append(<<>>, f), field)
<1>5. v = IF f[1] = field THEN <<f[2]>> ELSE <<>>
  <2> DEFINE w == Values(<<>>, field)
  <2>1. v = IF f[1] = field THEN Append(w, f[2]) ELSE w
    BY <1>2
  <2>2. w = <<>>
    BY <1>3
  <2> HIDE DEF v, w
  <2> QED
    BY <1>4, <2>1, <2>2
<1> QED
  BY <1>1, <1>5

\* A terminator, said by its tokens.
TwoAt(b, i) == i \in 1 .. Len(b) - 1 /\ b[i] = LF /\ b[i + 1] = LF
FourAt(b, i) ==
  /\ i \in 1 .. Len(b) - 3
  /\ b[i] = CR /\ b[i + 1] = LF /\ b[i + 2] = CR /\ b[i + 3] = LF

\* Terminators, token by token.
LEMMA TerminatorTokens ==
  ASSUME NEW b \in Seq(Tokens)
  PROVE  Terminators(b) = {<<i, 2>> : i \in {j \in Int : TwoAt(b, j)}}
                            \cup {<<i, 4>> : i \in {j \in Int : FourAt(b, j)}}
<1>1. ASSUME NEW j \in 1 .. Len(b) - 1
      PROVE  SubSeq(b, j, j + 1) = <<LF, LF>> <=> b[j] = LF /\ b[j + 1] = LF
  <2> DEFINE s == SubSeq(b, j, j + 1)
  <2> DEFINE q == <<LF, LF>>
  <2>1. s \in Seq(Tokens) /\ Len(s) = 2 /\ s[1] = b[j] /\ s[2] = b[j + 1]
    <3>1. /\ s \in Seq(Tokens) /\ Len(s) = (j + 1) - j + 1
          /\ \A i \in 1 .. (j + 1) - j + 1 : s[i] = b[j + i - 1]
      BY SubSeqProperties
    <3>2. (j + 1) - j + 1 = 2 /\ j + 1 - 1 = j /\ j + 2 - 1 = j + 1
      OBVIOUS
    <3> HIDE DEF s
    <3> QED
      BY <3>1, <3>2
  <2>2. q \in Seq(Tokens) /\ Len(q) = 2 /\ q[1] = LF /\ q[2] = LF
    BY LineEnds
  <2> HIDE DEF s, q
  <2>3. s = q <=> \A i \in 1 .. Len(s) : s[i] = q[i]
    BY <2>1, <2>2, SeqEqual
  <2>4. s = q <=> b[j] = LF /\ b[j + 1] = LF
    BY <2>1, <2>2, <2>3
  <2> QED
    BY <2>4 DEF s, q
<1>2. ASSUME NEW j \in 1 .. Len(b) - 3
      PROVE  SubSeq(b, j, j + 3) = <<CR, LF, CR, LF>>
               <=> b[j] = CR /\ b[j + 1] = LF /\ b[j + 2] = CR /\ b[j + 3] = LF
  <2> DEFINE s == SubSeq(b, j, j + 3)
  <2> DEFINE q == <<CR, LF, CR, LF>>
  <2>1. /\ s \in Seq(Tokens) /\ Len(s) = 4 /\ s[1] = b[j] /\ s[2] = b[j + 1]
        /\ s[3] = b[j + 2] /\ s[4] = b[j + 3]
    <3>1. /\ s \in Seq(Tokens) /\ Len(s) = (j + 3) - j + 1
          /\ \A i \in 1 .. (j + 3) - j + 1 : s[i] = b[j + i - 1]
      BY SubSeqProperties
    <3>2. /\ (j + 3) - j + 1 = 4 /\ j + 1 - 1 = j /\ j + 2 - 1 = j + 1
          /\ j + 3 - 1 = j + 2 /\ j + 4 - 1 = j + 3
      OBVIOUS
    <3> HIDE DEF s
    <3> QED
      BY <3>1, <3>2
  <2>2. /\ q \in Seq(Tokens) /\ Len(q) = 4 /\ q[1] = CR /\ q[2] = LF
        /\ q[3] = CR /\ q[4] = LF
    BY LineEnds
  <2> HIDE DEF s, q
  <2>3. s = q <=> \A i \in 1 .. Len(s) : s[i] = q[i]
    BY <2>1, <2>2, SeqEqual
  <2>4. s = q <=> b[j] = CR /\ b[j + 1] = LF /\ b[j + 2] = CR /\ b[j + 3] = LF
    BY <2>1, <2>2, <2>3
  <2> QED
    BY <2>4 DEF s, q
<1>3. {j \in 1 .. Len(b) - 1 : SubSeq(b, j, j + 1) = <<LF, LF>>}
        = {j \in Int : TwoAt(b, j)}
  BY <1>1 DEF TwoAt
<1>4. {j \in 1 .. Len(b) - 3 : SubSeq(b, j, j + 3) = <<CR, LF, CR, LF>>}
        = {j \in Int : FourAt(b, j)}
  BY <1>2 DEF FourAt
<1> QED
  BY <1>3, <1>4 DEF Terminators

LEMMA TerminatorCases ==
  ASSUME NEW b \in Seq(Tokens), NEW t \in Terminators(b)
  PROVE  /\ t[1] \in Int
         /\ \/ t = <<t[1], 2>> /\ TwoAt(b, t[1])
            \/ t = <<t[1], 4>> /\ FourAt(b, t[1])
<1>1. \/ \E i \in Int : t = <<i, 2>> /\ TwoAt(b, i)
      \/ \E i \in Int : t = <<i, 4>> /\ FourAt(b, i)
  BY TerminatorTokens
<1> QED
  BY <1>1

\* The text of an event, what follows it and the parts they are read in.
LEMMA Ahead ==
  ASSUME LineEnd, NEW d, Lines(d), NEW r \in Seq(Tokens),
         NEW b \in Seq(Tokens), NEW w \in Seq(Tokens), b \o w = d \o eol \o eol \o r
  PROVE  /\ \A i \in 1 .. Len(d) : i <= Len(b) => b[i] = d[i]
         /\ \A i \in 1 .. Len(eol) : Len(d) + i <= Len(b) => b[Len(d) + i] = eol[i]
         /\ \A i \in 1 .. Len(eol) :
              Len(d) + Len(eol) + i <= Len(b) => b[Len(d) + Len(eol) + i] = eol[i]
<1>1. d \in Seq(Tokens)
  BY DEF Lines
<1>2. eol \in Seq(Tokens)
  <2>1. <<LF>> \in Seq(Tokens) /\ <<CR, LF>> \in Seq(Tokens)
    BY LineEnds
  <2> QED
    BY <2>1 DEF LineEnd
<1> DEFINE u == d \o eol \o eol \o r
<1> DEFINE x == b \o w
<1>3. /\ \A i \in 1 .. Len(d) : u[i] = d[i]
      /\ \A i \in 1 .. Len(eol) : u[Len(d) + i] = eol[i]
      /\ \A i \in 1 .. Len(eol) : u[Len(d) + Len(eol) + i] = eol[i]
  BY <1>1, <1>2
<1>4. \A i \in 1 .. Len(b) : x[i] = b[i]
  OBVIOUS
<1>5. Len(d) \in Nat /\ Len(eol) \in Nat /\ Len(b) \in Nat
  BY <1>1, <1>2
<1>6. u = x
  OBVIOUS
<1> HIDE DEF u, x
<1> QED
  BY <1>3, <1>4, <1>5, <1>6

\* Within the lines of an event nothing ends it: a terminator comes after them.
LEMMA NoEarlierEnd ==
  ASSUME LineEnd, NEW d, Lines(d), NEW r \in Seq(Tokens),
         NEW b \in Seq(Tokens), NEW w \in Seq(Tokens), b \o w = d \o eol \o eol \o r,
         NEW t \in Terminators(b)
  PROVE  /\ t[1] >= Len(d) + 1
         /\ Len(b) >= Len(d) + 2 * Len(eol)
         /\ t[1] = Len(d) + 1 => t = <<Len(d) + 1, 2 * Len(eol)>>
<1> DEFINE n == Len(d)
<1>1. n \in Nat /\ n > 0 /\ d[n] # LF /\ d[n] # CR
  BY DEF Lines
<1>2. LF # CR
  BY LineEnds
<1> DEFINE k == t[1]
<1> DEFINE l == Len(b)
<1>5. /\ k \in Int /\ k > 0 /\ l \in Nat
      /\ \/ t = <<k, 2>> /\ TwoAt(b, k) /\ l >= k + 1
         \/ t = <<k, 4>> /\ FourAt(b, k) /\ l >= k + 3
  BY TerminatorCases DEF TwoAt, FourAt
<1>3. CASE eol = <<LF>>
  <2>1. /\ \A i \in 1 .. n : i <= Len(b) => b[i] = d[i]
        /\ n + 1 <= Len(b) => b[n + 1] = LF
        /\ n + 2 <= Len(b) => b[n + 2] = LF
    <3>1. 1 \in 1 .. Len(eol) /\ Len(eol) = 1 /\ eol[1] = LF
      BY <1>3
    <3>2. /\ \A i \in 1 .. n : i <= Len(b) => b[i] = d[i]
          /\ \A i \in 1 .. Len(eol) : n + i <= Len(b) => b[n + i] = eol[i]
          /\ \A i \in 1 .. Len(eol) : n + Len(eol) + i <= Len(b) => b[n + Len(eol) + i] = eol[i]
      BY Ahead
    <3>3. (n + 1) + 1 = n + 2
      BY <1>1
    <3> HIDE DEF n
    <3> QED
      BY <1>1, <3>1, <3>2, <3>3
  <2>2. \A i \in 1 .. n : d[i] # CR /\ (d[i] = LF => i > 1 /\ d[i - 1] # LF)
    BY <1>3 DEF Lines
  <2>3. \A i \in 1 .. n : ~ TwoAt(b, i)
    <3> SUFFICES ASSUME NEW i \in 1 .. n, TwoAt(b, i) PROVE FALSE
      OBVIOUS
    <3>1. b[i] = LF /\ b[i + 1] = LF /\ i + 1 <= Len(b) /\ i <= Len(b)
      BY DEF TwoAt
    <3>2. d[i] = LF
      BY <2>1, <3>1
    <3>3. i + 1 \in 1 .. n
      BY <1>1, <3>2
    <3>4. d[i + 1] = LF /\ (i + 1) - 1 = i
      BY <2>1, <3>1, <3>3
    <3> QED
      BY <2>2, <3>2, <3>3, <3>4
  <2>4. \A i \in 1 .. n + 2 : ~ FourAt(b, i)
    <3> SUFFICES ASSUME NEW i \in 1 .. n + 2, FourAt(b, i) PROVE FALSE
      OBVIOUS
    <3>1. b[i] = CR /\ i <= Len(b)
      BY DEF FourAt
    <3>2. i \in 1 .. n \/ i = n + 1 \/ i = n + 2
      BY <1>1
    <3> QED
      BY <1>2, <2>1, <2>2, <3>1, <3>2
  <2>5. Len(eol) = 1
    BY <1>3
  <2> QED
    <3>1. k >= n + 1 /\ l >= n + 2
      <4> HIDE DEF n, k, l
      <4>1. k >= n + 1
        BY <1>1, <1>5, <2>3, <2>4
      <4>2. TwoAt(b, k) => k >= n + 1
        BY <1>1, <1>5, <2>3
      <4>3. FourAt(b, k) => k >= n + 3
        BY <1>1, <1>5, <2>4
      <4> QED
        BY <1>1, <1>5, <4>1, <4>2, <4>3
    <3>2. k = n + 1 => t = <<k, 2>>
      <4> HIDE DEF n, k, l
      <4>1. n + 1 \in 1 .. n + 2
        BY <1>1
      <4> QED
        BY <1>5, <2>4, <4>1
    <3>3. 2 * Len(eol) = 2
      BY <2>5
    <3> QED
      BY <3>1, <3>2, <3>3
<1>4. CASE eol = <<CR, LF>>
  <2>1. /\ \A i \in 1 .. n : i <= Len(b) => b[i] = d[i]
        /\ n + 1 <= Len(b) => b[n + 1] = CR
        /\ n + 2 <= Len(b) => b[n + 2] = LF
        /\ n + 3 <= Len(b) => b[n + 3] = CR
        /\ n + 4 <= Len(b) => b[n + 4] = LF
    <3>1. 1 \in 1 .. Len(eol) /\ 2 \in 1 .. Len(eol) /\ Len(eol) = 2
          /\ eol[1] = CR /\ eol[2] = LF
      BY <1>4
    <3>2. /\ \A i \in 1 .. n : i <= Len(b) => b[i] = d[i]
          /\ \A i \in 1 .. Len(eol) : n + i <= Len(b) => b[n + i] = eol[i]
          /\ \A i \in 1 .. Len(eol) : n + Len(eol) + i <= Len(b) => b[n + Len(eol) + i] = eol[i]
      BY Ahead
    <3>3. (n + 2) + 1 = n + 3 /\ (n + 2) + 2 = n + 4
      BY <1>1
    <3> HIDE DEF n
    <3> QED
      BY <1>1, <3>1, <3>2, <3>3
  <2>2. \A i \in 1 .. n : /\ d[i] = LF => i > 1 /\ d[i - 1] = CR
                          /\ d[i] = CR => i > 1 /\ d[i - 1] # LF
    BY <1>4, LineEnds DEF Lines
  <2>3. \A i \in 1 .. n + 3 : ~ TwoAt(b, i)
    <3> SUFFICES ASSUME NEW i \in 1 .. n + 3, TwoAt(b, i) PROVE FALSE
      OBVIOUS
    <3>1. b[i] = LF /\ b[i + 1] = LF /\ i + 1 <= Len(b) /\ i <= Len(b)
      BY DEF TwoAt
    <3>2. CASE i \in 1 .. n
      <4>1. d[i] = LF
        BY <2>1, <3>1, <3>2
      <4>2. i + 1 \in 1 .. n
        BY <1>1, <3>2, <4>1
      <4>3. d[i + 1] = LF /\ (i + 1) - 1 = i
        BY <2>1, <3>1, <4>2
      <4> QED
        BY <1>2, <2>2, <4>1, <4>2, <4>3
    <3>3. CASE i \in {n + 1, n + 2, n + 3}
      <4>1. (n + 2) + 1 = n + 3
        BY <1>1
      <4> QED
        BY <1>1, <1>2, <2>1, <3>1, <3>3, <4>1
    <3> QED
      BY <1>1, <3>2, <3>3
  <2>4. \A i \in 1 .. n : ~ FourAt(b, i)
    <3> SUFFICES ASSUME NEW i \in 1 .. n, FourAt(b, i) PROVE FALSE
      OBVIOUS
    <3>1. b[i] = CR /\ b[i + 1] = LF /\ b[i + 2] = CR /\ i + 2 <= Len(b)
      BY DEF FourAt
    <3>6. i <= Len(b) /\ i + 1 <= Len(b)
      BY <3>1
    <3>7. d[i] = CR
      BY <2>1, <3>1, <3>6
    <3>2. i \in 1 .. n - 1 /\ i + 1 \in 1 .. n
      BY <1>1, <3>7
    <3>3. d[i + 1] = LF
      BY <2>1, <3>1, <3>2, <3>6
    <3>4. i + 2 \in 1 .. n
      BY <1>1, <3>2, <3>3
    <3>5. d[i + 2] = CR
      <4>1. b[i + 2] = d[i + 2]
        BY <2>1, <3>1, <3>4
      <4> QED
        BY <3>1, <4>1
    <3>8. (i + 2) - 1 = i + 1
      OBVIOUS
    <3> QED
      BY <2>2, <3>3, <3>4, <3>5, <3>8
  <2>5. Len(eol) = 2
    BY <1>4
  <2> QED
    <3>1. k >= n + 1 /\ l >= n + 4
      <4> HIDE DEF n, k, l
      <4>1. k >= n + 1
        BY <1>1, <1>5, <2>3, <2>4
      <4>2. TwoAt(b, k) => k >= n + 4
        BY <1>1, <1>5, <2>3
      <4>3. FourAt(b, k) => k >= n + 1
        BY <1>1, <1>5, <2>4
      <4> QED
        BY <1>1, <1>5, <4>1, <4>2, <4>3
    <3>2. k = n + 1 => t = <<k, 4>>
      <4> HIDE DEF n, k, l
      <4>1. n + 1 \in 1 .. n + 3
        BY <1>1
      <4> QED
        BY <1>5, <2>3, <4>1
    <3>3. 2 * Len(eol) = 4
      BY <2>5
    <3> QED
      BY <3>1, <3>2, <3>3
<1> QED
  BY <1>3, <1>4 DEF LineEnd

\* p is at the front of b, and q is the rest of b.
CutAt(b, w, p, r, q) ==
  b \o w = p \o r /\ Len(p) <= Len(b) /\ q = SubSeq(b, Len(p) + 1, Len(b))

\* What is left of the buffer, with what is on its way, is what follows the piece.
LEMMA CutFront ==
  ASSUME NEW T, NEW p \in Seq(T), NEW r \in Seq(T), NEW b \in Seq(T), NEW w \in Seq(T),
         NEW q, CutAt(b, w, p, r, q)
  PROVE  q \in Seq(T) /\ q \o w = r
<1> DEFINE m == Len(p)
<1> DEFINE l == Len(b)
<1>1. m \in Nat /\ l \in Nat /\ m <= l /\ Len(w) \in Nat /\ Len(r) \in Nat
  BY DEF CutAt
<1>2. /\ q \in Seq(T) /\ Len(q) = l - m
      /\ \A i \in 1 .. l - m : q[i] = b[m + i]
  BY <1>1 DEF CutAt
<1> DEFINE x == b \o w
<1> DEFINE y == p \o r
<1>3. /\ Len(x) = l + Len(w) /\ \A i \in 1 .. l : x[i] = b[i]
      /\ \A i \in 1 .. Len(w) : x[l + i] = w[i]
  <2>1. /\ Len(x) = l + Len(w)
        /\ \A i \in 1 .. l + Len(w) : x[i] = IF i <= l THEN b[i] ELSE w[i - l]
    BY ConcatProperties
  <2>2. ASSUME NEW i \in 1 .. Len(w)
        PROVE  l + i \in 1 .. l + Len(w) /\ ~ (l + i <= l) /\ (l + i) - l = i
    BY <1>1
  <2> HIDE DEF x, l
  <2> QED
    BY <1>1, <2>1, <2>2
<1>4. /\ Len(y) = m + Len(r)
      /\ \A i \in 1 .. Len(r) : y[m + i] = r[i]
  OBVIOUS
<1>5. x = y
  BY DEF CutAt
<1> HIDE DEF x, y
<1> DEFINE z == q \o w
<1>6. /\ z \in Seq(T) /\ Len(z) = Len(r)
      /\ \A i \in 1 .. l - m : z[i] = q[i]
      /\ \A i \in 1 .. Len(w) : z[l - m + i] = w[i]
  <2>1. /\ z \in Seq(T) /\ Len(z) = (l - m) + Len(w)
        /\ \A i \in 1 .. (l - m) + Len(w) :
             z[i] = IF i <= l - m THEN q[i] ELSE w[i - (l - m)]
    <3>1. /\ z \in Seq(T) /\ Len(z) = Len(q) + Len(w)
          /\ \A i \in 1 .. Len(q) + Len(w) : z[i] = IF i <= Len(q) THEN q[i] ELSE w[i - Len(q)]
      BY <1>2, ConcatProperties
    <3>2. Len(q) = l - m
      BY <1>2
    <3> HIDE DEF z, l, m
    <3> QED
      BY <3>1, <3>2
  <2>2. ASSUME NEW i \in 1 .. Len(w)
        PROVE  /\ l - m + i \in 1 .. (l - m) + Len(w)
               /\ ~ (l - m + i <= l - m) /\ (l - m + i) - (l - m) = i
    BY <1>1
  <2> HIDE DEF z, l, m
  <2>3. Len(z) = Len(r)
    <3>1. Len(x) = l + Len(w) /\ Len(x) = m + Len(r) /\ Len(z) = (l - m) + Len(w)
      BY <1>3, <1>4, <1>5, <2>1
    <3> QED
      BY <1>1, <3>1
  <2>4. \A i \in 1 .. l - m : z[i] = q[i]
    <3>1. \A i \in 1 .. l - m : i \in 1 .. (l - m) + Len(w) /\ i <= l - m
      BY <1>1
    <3> QED
      BY <2>1, <3>1
  <2>5. \A i \in 1 .. Len(w) : z[l - m + i] = w[i]
    BY <2>1, <2>2
  <2> QED
    BY <2>1, <2>3, <2>4, <2>5
<1> HIDE DEF z
<1>7. ASSUME NEW i \in 1 .. Len(z) PROVE z[i] = r[i]
  <2>1. m + i \in Int /\ y[m + i] = r[i]
    BY <1>1, <1>4, <1>6
  <2>2. CASE i <= l - m
    <3>1. i \in 1 .. l - m /\ m + i \in 1 .. l
      BY <1>1, <1>6, <2>2
    <3> HIDE DEF m, l
    <3> QED
      BY <1>2, <1>3, <1>5, <1>6, <2>1, <3>1
  <2>3. CASE i > l - m
    <3> DEFINE j == i - (l - m)
    <3>1. /\ j \in 1 .. Len(w) /\ l + j = m + i /\ l - m + j = i
      BY <1>1, <1>3, <1>4, <1>5, <1>6, <2>3
    <3> HIDE DEF j, m, l
    <3> QED
      BY <1>3, <1>5, <1>6, <2>1, <3>1
  <2> QED
    BY <1>1, <2>2, <2>3
<1>8. z = r
  BY <1>6, <1>7, SeqEqual
<1> QED
  BY <1>2, <1>8 DEF z

\* end is the first terminator of b, and b is not behind it: d comes first in it.
EndsAt(b, w, d, r, end) ==
  /\ b \o w = d \o eol \o eol \o r
  /\ Terminators(b) # {}
  /\ end = CHOOSE t \in Terminators(b) : \A u \in Terminators(b) : t[1] <= u[1]

CutsOff(b, w, d, r, end) ==
  /\ SubSeq(b, 1, end[1] - 1) = d
  /\ SubSeq(b, end[1] + end[2], Len(b)) \in Seq(Tokens)
  /\ SubSeq(b, end[1] + end[2], Len(b)) \o w = r

\* drain_sse cuts off the first event, and what comes after it is kept.
LEMMA FirstEnd ==
  ASSUME LineEnd, NEW d, Lines(d), NEW r \in Seq(Tokens),
         NEW b \in Seq(Tokens), NEW w \in Seq(Tokens), NEW end, EndsAt(b, w, d, r, end)
  PROVE  CutsOff(b, w, d, r, end)
<1> DEFINE n == Len(d)
<1> DEFINE first == <<n + 1, 2 * Len(eol)>>
<1>1. d \in Seq(Tokens) /\ n \in Nat /\ n > 0
  BY DEF Lines
<1>2. b \o w = d \o eol \o eol \o r
  BY DEF EndsAt
<1>3. /\ Terminators(b) # {}
       /\ end = CHOOSE t \in Terminators(b) : \A u \in Terminators(b) : t[1] <= u[1]
  BY DEF EndsAt
<1>4. eol \in Seq(Tokens) /\ Len(eol) \in Nat
  <2>1. <<LF>> \in Seq(Tokens) /\ <<CR, LF>> \in Seq(Tokens)
    BY LineEnds
  <2> QED
    BY <2>1 DEF LineEnd
<1>5. \A t \in Terminators(b) : /\ t[1] >= n + 1 /\ Len(b) >= n + 2 * Len(eol)
                                /\ t[1] = n + 1 => t = first
  BY <1>2, NoEarlierEnd
<1>6. Len(b) >= n + 2 * Len(eol)
  BY <1>5, <1>3
<1>7. first \in Terminators(b)
  <2>1. /\ \A i \in 1 .. Len(eol) : n + i <= Len(b) => b[n + i] = eol[i]
        /\ \A i \in 1 .. Len(eol) : n + Len(eol) + i <= Len(b) => b[n + Len(eol) + i] = eol[i]
    BY <1>2, Ahead
  <2>2. CASE eol = <<LF>>
    <3>1. Len(eol) = 1 /\ eol[1] = LF /\ (n + 1) + 1 = n + 2
      BY <1>1, <2>2
    <3>2. b[n + 1] = LF /\ b[(n + 1) + 1] = LF
      <4> HIDE DEF n
      <4> QED
        BY <1>1, <1>6, <2>1, <3>1
    <3>3. TwoAt(b, n + 1)
      BY <1>1, <1>6, <3>1, <3>2 DEF TwoAt
    <3>4. first = <<n + 1, 2>> /\ n + 1 \in Int
      BY <1>1, <3>1
    <3> HIDE DEF n, first
    <3> QED
      BY <3>3, <3>4, TerminatorTokens
  <2>3. CASE eol = <<CR, LF>>
    <3>1. /\ Len(eol) = 2 /\ eol[1] = CR /\ eol[2] = LF
          /\ (n + 2) + 1 = (n + 1) + 2 /\ (n + 2) + 2 = (n + 1) + 3 /\ n + 2 = (n + 1) + 1
      BY <1>1, <2>3
    <3>2. /\ b[n + 1] = CR /\ b[(n + 1) + 1] = LF
          /\ b[(n + 1) + 2] = CR /\ b[(n + 1) + 3] = LF
      <4>1. 1 \in 1 .. 2 /\ 2 \in 1 .. 2 /\ n + 4 <= Len(b)
        BY <1>6, <3>1
      <4>2. n + 1 <= Len(b) /\ n + 2 <= Len(b) /\ (n + 2) + 1 <= Len(b) /\ (n + 2) + 2 <= Len(b)
        BY <1>1, <4>1
      <4> HIDE DEF n
      <4> QED
        BY <1>1, <2>1, <3>1, <4>1, <4>2
    <3>3. FourAt(b, n + 1)
      <4>1. n + 1 \in 1 .. Len(b) - 3
        BY <1>1, <1>6, <3>1
      <4> HIDE DEF n
      <4> QED
        BY <3>2, <4>1 DEF FourAt
    <3>4. first = <<n + 1, 4>> /\ n + 1 \in Int
      BY <1>1, <3>1
    <3> HIDE DEF n, first
    <3> QED
      BY <3>3, <3>4, TerminatorTokens
  <2> QED
    BY <2>2, <2>3 DEF LineEnd
<1>8. end = first
  <2>1. first[1] = n + 1
    OBVIOUS
  <2> HIDE DEF first
  <2>2. \A u \in Terminators(b) : first[1] <= u[1]
    BY <1>5, <2>1
  <2>3. end \in Terminators(b) /\ end[1] <= first[1]
    BY <1>7, <1>3, <2>2
  <2>4. end[1] \in Int
    BY <2>3, TerminatorCases
  <2>5. end[1] = n + 1
    BY <1>1, <1>5, <2>1, <2>3, <2>4
  <2> QED
    BY <1>5, <2>3, <2>5
<1> DEFINE p == d \o eol \o eol
<1>9. p \in Seq(Tokens) /\ Len(p) = n + 2 * Len(eol) /\ b \o w = p \o r
  BY <1>1, <1>4, <1>2
<1>10. end[1] - 1 = n /\ end[1] + end[2] = Len(p) + 1
  <2>1. end[1] = n + 1 /\ end[2] = 2 * Len(eol)
    <3>1. first[1] = n + 1 /\ first[2] = 2 * Len(eol)
      OBVIOUS
    <3> HIDE DEF first
    <3> QED
      BY <1>8, <3>1
  <2> HIDE DEF n, p
  <2> QED
    BY <1>1, <1>4, <1>9, <2>1
<1>11. SubSeq(b, 1, n) = d
  <2>1. \A i \in 1 .. n : i <= Len(b) => b[i] = d[i]
    BY <1>2, Ahead
  <2> DEFINE s == SubSeq(b, 1, n)
  <2>2. s \in Seq(Tokens) /\ Len(s) = n /\ \A i \in 1 .. n : s[i] = b[i]
    BY <1>1, <1>4, <1>6
  <2> HIDE DEF s
  <2>3. \A i \in 1 .. Len(s) : s[i] = d[i]
    BY <1>1, <1>4, <1>6, <2>1, <2>2
  <2>4. s = d
    BY <1>1, <2>2, <2>3, SeqEqual
  <2> QED
    BY <2>4 DEF s
<1>12. Len(p) <= Len(b)
  BY <1>6, <1>9
<1> DEFINE q == SubSeq(b, end[1] + end[2], Len(b))
<1>13. q \in Seq(Tokens) /\ q \o w = r
  <2>1. CutAt(b, w, p, r, q)
    BY <1>9, <1>10, <1>12 DEF CutAt
  <2> HIDE DEF p, q
  <2> QED
    BY <1>9, <2>1, CutFront
<1> QED
  BY <1>10, <1>11, <1>13 DEF CutsOff

------------------------------------------------------------------------------
(* The text of an event and what drain_sse reads in it *)

\* The text of a line.
LEMMA EolSeq == ASSUME LineEnd PROVE eol \in Seq(Tokens)
<1>1. <<LF>> \in Seq(Tokens) /\ <<CR, LF>> \in Seq(Tokens)
  BY LineEnds
<1> QED
  BY <1>1 DEF LineEnd

LEMMA LineSeq ==
  ASSUME LineEnd, NEW f \in Fields
  PROVE  Line(f) \in Seq(Tokens) /\ Line(f) = <<f>> \o eol
<1>1. <<f>> \in Seq(Tokens) /\ eol \in Seq(Tokens)
  BY FieldTokens, EolSeq
<1> QED
  BY <1>1 DEF Line

\* A line more is a longer text, and not only a longer sequence.
LEMMA Glue ==
  ASSUME LineEnd, NEW d \in Seq(Tokens), NEW f \in Fields
  PROVE  (d \o eol) \o Line(f) = NextLine(d, f) \o eol
<1>1. /\ eol \in Seq(Tokens) /\ <<f>> \in Seq(Tokens) /\ d \o eol \in Seq(Tokens)
      /\ Line(f) = <<f>> \o eol
  BY EolSeq, LineSeq, FieldTokens
<1> DEFINE V == Seq(Tokens)
<1>2. Associative(V)
  BY Regroup
<1>3. (d \o eol) \o (<<f>> \o eol) = ((d \o eol) \o <<f>>) \o eol
  <2>1. d \o eol \in V /\ <<f>> \in V /\ eol \in V
    BY <1>1
  <2> HIDE DEF V
  <2> QED
    BY <1>2, <2>1 DEF Associative
<1> QED
  BY <1>1, <1>3 DEF NextLine

\* FlattenSeq of one and of two lines of data.
LEMMA FlatOne == ASSUME NEW T, NEW x \in Seq(T) PROVE FlattenSeq(<<x>>) = x
<1>1. <<>> \in Seq(Seq(T)) /\ <<x>> = Append(<<>>, x)
  OBVIOUS
<1>2. FlattenSeq(<<x>>) = FlattenSeq(<<>>) \o x
  BY <1>1, FlatAppend
<1>3. FlattenSeq(<<>>) = <<>>
  BY FlatEmpty
<1>4. <<>> \o x = x
  BY ConcatEmptySeq
<1> QED
  BY <1>2, <1>3, <1>4

LEMMA FlatTwo ==
  ASSUME NEW T, NEW x \in Seq(T), NEW y \in Seq(T)
  PROVE  FlattenSeq(<<x, y>>) = x \o y
<1>1. <<x>> \in Seq(Seq(T)) /\ <<x, y>> = Append(<<x>>, y)
  OBVIOUS
<1>2. FlattenSeq(<<x, y>>) = FlattenSeq(<<x>>) \o y
  BY <1>1, FlatAppend
<1> QED
  BY <1>2, FlatOne

\* d is read as the event e numbered n.
Says(d, n, e) ==
  /\ Lines(d)
  /\ Values(d, "id") = <<n>>
  /\ Values(d, "data") = [i \in 1 .. e.data |-> n]
  /\ Values(d, "retry") = IF e.hint = NoHint THEN <<>> ELSE <<e.hint>>

\* The text of an event is lines that say what it is, and an empty line.
LEMMA TextLines ==
  ASSUME LineEnd, NEW n \in Nat, NEW e \in Events
  PROVE  \E d : Says(d, n, e) /\ Text(n, e) = d \o eol \o eol
<1> DEFINE I == <<"id", n>>
<1> DEFINE D == <<"data", n>>
<1> DEFINE R == <<"retry", e.hint>>
<1> DEFINE V == Seq(Tokens)
<1>1. \/ e.data = 0 /\ e.hint \in Hints /\ e.hint # NoHint /\ e.hint \in Int
      \/ e.data = 1 /\ e.hint = NoHint
      \/ e.data = 2 /\ e.hint = NoHint
  <2>1. CASE e \in [data : 1 .. 2, hint : {NoHint}]
    <3>1. e.data \in 1 .. 2 /\ e.hint = NoHint
      BY <2>1
    <3> QED
      BY <3>1
  <2>2. CASE e \in [data : {0}, hint : Hints]
    <3>1. e.data = 0 /\ e.hint \in Hints
      BY <2>2
    <3> QED
      BY <3>1, HintsAssumption
  <2> QED
    BY <2>1, <2>2 DEF Events
<1>2. I \in Fields /\ D \in Fields
  BY DEF Fields
<1>3. eol \in V /\ Line(I) \in V /\ Line(D) \in V /\ <<I>> \in V /\ Line(I) = <<I>> \o eol
  <2> HIDE DEF I, D
  <2>1. <<I>> \in V
    BY <1>2, FieldTokens
  <2>2. eol \in V
    BY EolSeq
  <2>3. Line(I) \in V /\ Line(D) \in V /\ Line(I) = <<I>> \o eol
    BY <1>2, LineSeq
  <2> QED
    BY <2>1, <2>2, <2>3
<1>4. Lines(<<I>>)
  BY <1>2, OneLine
<1>5. Values(<<I>>, "id") = <<n>> /\ Values(<<I>>, "data") = <<>> /\ Values(<<I>>, "retry") = <<>>
  BY <1>2, ValuesOne
<1> DEFINE rest == IF e.hint = NoHint THEN <<>> ELSE Line(R)
<1> DEFINE body == FlattenSeq([i \in 1 .. e.data |-> Line(D)])
<1>6. Text(n, e) = ((Line(I) \o body) \o rest) \o eol
  BY DEF Text
<1>7. \A x \in V : x \o <<>> = x
  BY ConcatEmptySeq
<1>8. CASE e.data = 0
  <2>1. e.hint # NoHint /\ e.hint \in Int
    BY <1>1, <1>8
  <2>2. R \in Fields /\ rest = Line(R)
    BY <2>1 DEF Fields
  <2>3. body = <<>>
    <3>1. [i \in 1 .. e.data |-> Line(D)] = <<>>
      BY <1>8
    <3> QED
      BY <3>1, FlatEmpty
  <2> DEFINE d == NextLine(<<I>>, R)
  <2>4. Text(n, e) = d \o eol \o eol
    <3>1. Line(I) \o body = Line(I)
      BY <1>3, <1>7, <2>3
    <3>2. Line(I) \o Line(R) = d \o eol
      BY <1>3, <2>2, Glue
    <3> HIDE DEF body, rest, d
    <3> QED
      BY <1>6, <2>2, <3>1, <3>2
  <2>5. Says(d, n, e)
    <3>1. Lines(d)
      BY <1>4, <2>2, MoreLines
    <3>2. Values(d, "id") = <<n>> /\ Values(d, "data") = <<>>
      BY <1>4, <1>5, <2>2, ValuesNext
    <3>3. Values(d, "retry") = Append(<<>>, e.hint)
      BY <1>4, <1>5, <2>2, ValuesNext
    <3>4. Append(<<>>, e.hint) = <<e.hint>> /\ [i \in 1 .. e.data |-> n] = <<>>
      BY <1>8
    <3> HIDE DEF d
    <3> QED
      BY <2>1, <3>1, <3>2, <3>3, <3>4 DEF Says
  <2> HIDE DEF d
  <2> QED
    BY <2>4, <2>5
<1>9. ASSUME e.data # 0 PROVE e.hint = NoHint /\ rest = <<>>
  BY <1>1, <1>9
<1>10. CASE e.data = 1
  <2> DEFINE d == NextLine(<<I>>, D)
  <2>1. body = Line(D)
    <3>1. [i \in 1 .. e.data |-> Line(D)] = <<Line(D)>>
      BY <1>10
    <3> HIDE DEF D
    <3> QED
      BY <1>3, <3>1, FlatOne
  <2>2. Text(n, e) = d \o eol \o eol
    <3>1. Line(I) \o Line(D) = d \o eol
      BY <1>2, <1>3, Glue
    <3>2. Line(I) \o Line(D) \in V
      BY <1>3
    <3>3. (Line(I) \o Line(D)) \o <<>> = Line(I) \o Line(D)
      BY <1>7, <3>2
    <3> HIDE DEF body, rest, d, I, D
    <3> QED
      BY <1>6, <1>9, <1>10, <2>1, <3>1, <3>3
  <2>3. Says(d, n, e)
    <3>1. Lines(d)
      BY <1>2, <1>4, MoreLines
    <3>2. Values(d, "id") = <<n>> /\ Values(d, "retry") = <<>>
      BY <1>2, <1>4, <1>5, ValuesNext
    <3>3. Values(d, "data") = Append(<<>>, n)
      BY <1>2, <1>4, <1>5, ValuesNext
    <3>4. Append(<<>>, n) = [i \in 1 .. e.data |-> n]
      BY <1>10
    <3> HIDE DEF d
    <3> QED
      BY <1>9, <1>10, <3>1, <3>2, <3>3, <3>4 DEF Says
  <2> HIDE DEF d
  <2> QED
    BY <2>2, <2>3
<1>11. CASE e.data = 2
  <2> DEFINE c == NextLine(<<I>>, D)
  <2> DEFINE d == NextLine(c, D)
  <2>1. body = Line(D) \o Line(D)
    <3>1. [i \in 1 .. e.data |-> Line(D)] = <<Line(D), Line(D)>>
      BY <1>11
    <3> HIDE DEF D
    <3> QED
      BY <1>3, <3>1, FlatTwo
  <2>2. Lines(c) /\ c \in V
    <3>1. Lines(c)
      BY <1>2, <1>4, MoreLines
    <3> QED
      BY <3>1 DEF Lines
  <2>3. Text(n, e) = d \o eol \o eol
    <3>1. Line(I) \o Line(D) = c \o eol
      BY <1>2, <1>3, Glue
    <3>2. (c \o eol) \o Line(D) = d \o eol
      <4> HIDE DEF c, D
      <4> QED
        BY <1>2, <2>2, Glue
    <3>3. Line(I) \o (Line(D) \o Line(D)) = (Line(I) \o Line(D)) \o Line(D)
      <4>1. Associative(V)
        BY Regroup
      <4> HIDE DEF V, I, D
      <4> QED
        BY <1>3, <4>1 DEF Associative
    <3>4. Line(I) \o (Line(D) \o Line(D)) \in V
      BY <1>3
    <3>5. (Line(I) \o (Line(D) \o Line(D))) \o <<>> = Line(I) \o (Line(D) \o Line(D))
      BY <1>7, <3>4
    <3> HIDE DEF body, rest, c, d, I, D
    <3>6. Line(I) \o (Line(D) \o Line(D)) = d \o eol
      BY <3>1, <3>2, <3>3
    <3>7. rest = <<>>
      BY <1>9, <1>11
    <3> QED
      BY <1>6, <2>1, <3>5, <3>6, <3>7
  <2>4. Says(d, n, e)
    <3>1. /\ Values(c, "id") = <<n>> /\ Values(c, "retry") = <<>>
          /\ Values(c, "data") = <<n>>
      <4>1. Values(c, "data") = Append(<<>>, n)
        BY <1>2, <1>4, <1>5, ValuesNext
      <4> QED
        BY <1>2, <1>4, <1>5, <4>1, ValuesNext
    <3> HIDE DEF c
    <3>2. Lines(d)
      BY <1>2, <2>2, MoreLines
    <3>3. Values(d, "id") = <<n>> /\ Values(d, "retry") = <<>>
      BY <1>2, <2>2, <3>1, ValuesNext
    <3>4. Values(d, "data") = Append(<<n>>, n)
      <4>1. Values(d, "data") = Append(Values(c, "data"), n)
        BY <1>2, <2>2, ValuesNext
      <4> QED
        BY <3>1, <4>1
    <3>5. Append(<<n>>, n) = [i \in 1 .. e.data |-> n]
      BY <1>11
    <3> HIDE DEF d
    <3> QED
      BY <1>9, <1>11, <3>2, <3>3, <3>4, <3>5 DEF Says
  <2> HIDE DEF d
  <2> QED
    BY <2>3, <2>4
<1> QED
  BY <1>1, <1>8, <1>10, <1>11

\* ... and a comment as nothing.
LEMMA CommentLines ==
  ASSUME LineEnd
  PROVE  \E d : /\ Lines(d) /\ Comment = d \o eol \o eol
                /\ \A field \in {"id", "data", "retry"} : Values(d, field) = <<>>
<1> DEFINE C == <<"comment", 0>>
<1>1. C \in Fields /\ \A field \in {"id", "data", "retry"} : C[1] # field
  BY DEF Fields
<1>2. Comment = <<C>> \o eol \o eol
  BY <1>1, LineSeq DEF Comment
<1> HIDE DEF C
<1>3. Lines(<<C>>) /\ \A field \in {"id", "data", "retry"} : Values(<<C>>, field) = <<>>
  BY <1>1, OneLine, ValuesOne
<1> QED
  BY <1>2, <1>3

\* What LastOf makes of no value, and of one.
LEMMA LastOfNone == ASSUME NEW old, NEW A PROVE LastOf(old, <<>>, A) = old
BY DEF LastOf

LEMMA LastOfOne ==
  ASSUME NEW old, NEW h, NEW A
  PROVE  LastOf(old, <<h>>, A) = IF h \in A THEN h ELSE old
<1> DEFINE valid == {i \in DOMAIN <<h>> : <<h>>[i] \in A}
<1>1. valid = IF h \in A THEN {1} ELSE {}
  OBVIOUS
<1>2. CASE h \in A
  <2>1. valid = {1}
    BY <1>1, <1>2
  <2>2. (CHOOSE i \in valid : \A j \in valid : j <= i) = 1
    BY <2>1
  <2> QED
    BY <1>2, <2>1, <2>2 DEF LastOf
<1>3. CASE h \notin A
  BY <1>1, <1>3 DEF LastOf
<1> QED
  BY <1>2, <1>3

------------------------------------------------------------------------------
(* The frames the application should have *)

FrameIn(l, n) == [i \in 1 .. l[n].data |-> n]

\* FramesOf, for any log.
Frames(l, k) ==
  LET frames[n \in 0 .. k] ==
        IF n = 0 THEN <<>>
        ELSE IF l[n].data > 0 THEN Append(frames[n - 1], FrameIn(l, n))
        ELSE frames[n - 1]
  IN frames[k]

\* f gathers the frames of l up to k.
Gathers(f, l, k) ==
  /\ f[0] = <<>>
  /\ \A i \in 1 .. k :
       f[i] = IF l[i].data > 0 THEN Append(f[i - 1], FrameIn(l, i)) ELSE f[i - 1]

\* The types of an event.
LEMMA EventParts ==
  ASSUME NEW l \in Seq(Events), NEW n \in 1 .. Len(l)
  PROVE  /\ l[n] \in Events /\ l[n].data \in 0 .. 2 /\ FrameIn(l, n) \in Seq(Int)
         /\ l[n].hint \in Hints \cup {NoHint}
<1>1. l[n] \in Events
  OBVIOUS
<1>2. l[n].data \in 0 .. 2 /\ l[n].hint \in Hints \cup {NoHint}
  <2>1. CASE l[n] \in [data : 1 .. 2, hint : {NoHint}]
    BY <2>1
  <2>2. CASE l[n] \in [data : {0}, hint : Hints]
    BY <2>2
  <2> QED
    BY <1>1, <2>1, <2>2 DEF Events
<1>3. FrameIn(l, n) \in Seq(Int)
  BY <1>2 DEF FrameIn
<1> QED
  BY <1>1, <1>2, <1>3

\* The function by which Frames is defined.
LEMMA FrameSteps ==
  ASSUME NEW l \in Seq(Events), NEW k \in 0 .. Len(l)
  PROVE  \E f \in [0 .. k -> Seq(Seq(Int))] : Gathers(f, l, k) /\ Frames(l, k) = f[k]
<1> DEFINE V == Seq(Seq(Int))
<1> DEFINE first == <<>>
<1> DEFINE Is(f) ==
      f = [i \in 0 .. k |-> IF i = 0 THEN <<>>
                            ELSE IF l[i].data > 0 THEN Append(f[i - 1], FrameIn(l, i))
                            ELSE f[i - 1]]
<1> DEFINE Step(p) == IF l[p[2]].data > 0 THEN Append(p[1], FrameIn(l, p[2])) ELSE p[1]
<1> DEFINE G == [p \in V \X (0 .. k) |-> IF p[2] = 0 THEN p[1] ELSE Step(p)]
<1>1. k \in Int /\ 0 \in Int /\ 0 <= k /\ first \in V
  OBVIOUS
<1>2. \A i \in 1 .. k : FrameIn(l, i) \in Seq(Int)
  BY EventParts
<1>3. G \in [V \X (0 .. k) -> V]
  <2>1. ASSUME NEW p \in V \X (0 .. k), p[2] # 0 PROVE Step(p) \in V
    <3>1. p[1] \in V /\ p[2] \in 1 .. k
      BY <1>1, <2>1
    <3>2. FrameIn(l, p[2]) \in Seq(Int)
      BY <1>2, <3>1
    <3> QED
      BY <3>1, <3>2
  <2>2. \A p \in V \X (0 .. k) : (IF p[2] = 0 THEN p[1] ELSE Step(p)) \in V
    <3> HIDE DEF Step, V
    <3> QED
      BY <2>1
  <2> HIDE DEF Step, V
  <2> QED
    BY <2>2
<1>4. PICK f \in [0 .. k -> V] : Steps(f, 0, k, first, G)
  <2> HIDE DEF G, V, first
  <2> QED
    BY <1>1, <1>3, Recursion
<1>5. ASSUME NEW i \in 1 .. k
      PROVE  f[i] = IF l[i].data > 0 THEN Append(f[i - 1], FrameIn(l, i)) ELSE f[i - 1]
  <2>1. i - 1 \in 0 .. k /\ i \in 0 .. k /\ i # 0
    BY <1>1
  <2>2. <<f[i - 1], i>> \in V \X (0 .. k)
    BY <2>1
  <2>3. f[i] = G[<<f[i - 1], i>>]
    <3> HIDE DEF G, V
    <3> QED
      BY <1>4, <2>1 DEF Steps
  <2> QED
    BY <2>1, <2>2, <2>3
<1>6. f[0] = <<>>
  <2>1. 0 \in 0 .. k
    BY <1>1
  <2>2. f[0] = first
    <3> HIDE DEF G, V, first
    <3> QED
      BY <1>4, <2>1 DEF Steps
  <2> QED
    BY <2>2
<1>7. Is(f)
  <2>1. \A i \in 0 .. k : i = 0 \/ i \in 1 .. k
    BY <1>1
  <2> HIDE DEF G, V
  <2>2. ASSUME NEW i \in 0 .. k
        PROVE  f[i] = IF i = 0 THEN <<>>
                      ELSE IF l[i].data > 0 THEN Append(f[i - 1], FrameIn(l, i))
                      ELSE f[i - 1]
    BY <1>5, <1>6, <2>1
  <2> QED
    BY <2>2
<1> DEFINE h == CHOOSE g : Is(g)
<1>8. Is(h)
  <2> HIDE DEF Is
  <2> QED
    BY <1>7
<1>9. Frames(l, k) = h[k]
  BY DEF Frames
<1> HIDE DEF h
<1>10. h = [i \in 0 .. k |-> IF i = 0 THEN <<>>
                             ELSE IF l[i].data > 0 THEN Append(h[i - 1], FrameIn(l, i))
                             ELSE h[i - 1]]
  BY <1>8
<1> HIDE DEF Is
<1>11. h[0] = <<>>
  BY <1>1, <1>10
<1>12. ASSUME NEW i \in 1 .. k
       PROVE  h[i] = IF l[i].data > 0 THEN Append(h[i - 1], FrameIn(l, i)) ELSE h[i - 1]
  <2>1. i \in 0 .. k /\ i # 0
    BY <1>1
  <2> QED
    BY <1>10, <2>1
<1>13. \A i \in 0 .. k : i \in {j \in 0 .. k : h[j] \in V}
  <2> DEFINE A == {j \in 0 .. k : h[j] \in V}
  <2>1. 0 \in A
    <3>1. 0 \in 0 .. k /\ <<>> \in V
      BY <1>1
    <3> QED
      BY <1>11, <3>1
  <2>2. ASSUME NEW i \in 0 .. k - 1, i \in A PROVE i + 1 \in A
    <3>1. i + 1 \in 1 .. k /\ i + 1 \in 0 .. k /\ (i + 1) - 1 = i
      BY <1>1
    <3>2. h[i + 1] = IF l[i + 1].data > 0 THEN Append(h[i], FrameIn(l, i + 1)) ELSE h[i]
      BY <1>12, <3>1
    <3>3. h[i] \in V /\ FrameIn(l, i + 1) \in Seq(Int)
      BY <1>2, <2>2, <3>1
    <3>4. h[i + 1] \in V
      BY <3>2, <3>3
    <3> QED
      BY <3>1, <3>4
  <2> HIDE DEF A
  <2>3. \A i \in 0 .. k : i \in A
    BY <1>1, <2>1, <2>2, Upwards
  <2> QED
    BY <2>3 DEF A
<1>14. h \in [0 .. k -> V]
  <2> HIDE DEF V
  <2> QED
    BY <1>10, <1>13
<1>15. Gathers(h, l, k)
  BY <1>11, <1>12 DEF Gathers
<1> QED
  BY <1>9, <1>14, <1>15

\* Logs that agree up to k have the same frames up to k.
LEMMA GatherSame ==
  ASSUME NEW f, NEW g, NEW l, NEW m, NEW a \in Nat, NEW b \in Nat, NEW k \in Nat,
         k <= a, k <= b, Gathers(f, l, a), Gathers(g, m, b), \A i \in 1 .. k : l[i] = m[i]
  PROVE  f[k] = g[k]
<1> DEFINE A == {i \in 0 .. k : f[i] = g[i]}
<1>1. 0 \in A
  BY DEF Gathers
<1>2. ASSUME NEW i \in 0 .. k - 1, i \in A PROVE i + 1 \in A
  <2>1. /\ i + 1 \in 1 .. k /\ i + 1 \in 0 .. k /\ i + 1 \in 1 .. a /\ i + 1 \in 1 .. b
        /\ (i + 1) - 1 = i
    OBVIOUS
  <2>2. f[i] = g[i] /\ l[i + 1] = m[i + 1]
    BY <1>2, <2>1
  <2>3. FrameIn(l, i + 1) = FrameIn(m, i + 1)
    BY <2>2 DEF FrameIn
  <2>4. /\ f[i + 1] = IF l[i + 1].data > 0 THEN Append(f[i], FrameIn(l, i + 1)) ELSE f[i]
        /\ g[i + 1] = IF m[i + 1].data > 0 THEN Append(g[i], FrameIn(m, i + 1)) ELSE g[i]
    BY <2>1 DEF Gathers
  <2> QED
    BY <2>1, <2>2, <2>3, <2>4
<1>3. \A i \in 0 .. k : i \in A
  <2> HIDE DEF A
  <2> QED
    BY <1>1, <1>2, Upwards
<1> QED
  BY <1>3

LEMMA FramesAgree ==
  ASSUME NEW l \in Seq(Events), NEW m \in Seq(Events), NEW k \in 0 .. Len(l),
         k <= Len(m), \A i \in 1 .. k : l[i] = m[i]
  PROVE  Frames(l, k) = Frames(m, k)
<1>1. k \in Nat /\ k \in 0 .. Len(m)
  OBVIOUS
<1>2. PICK f : Gathers(f, l, k) /\ Frames(l, k) = f[k]
  BY FrameSteps
<1>3. PICK g : Gathers(g, m, k) /\ Frames(m, k) = g[k]
  BY <1>1, FrameSteps
<1>4. f[k] = g[k]
  BY <1>1, <1>2, <1>3, GatherSame
<1> QED
  BY <1>2, <1>3, <1>4

\* One event more adds at most its own frame.
LEMMA FramesNext ==
  ASSUME NEW l \in Seq(Events), NEW k \in 0 .. Len(l) - 1
  PROVE  Frames(l, k + 1) =
           IF l[k + 1].data > 0 THEN Append(Frames(l, k), FrameIn(l, k + 1))
           ELSE Frames(l, k)
<1>1. k \in Nat /\ k \in 0 .. Len(l) /\ k + 1 \in 0 .. Len(l) /\ k + 1 \in Nat
      /\ k + 1 \in 1 .. k + 1 /\ (k + 1) - 1 = k
  OBVIOUS
<1>2. PICK f : Gathers(f, l, k) /\ Frames(l, k) = f[k]
  BY <1>1, FrameSteps
<1>3. PICK g : Gathers(g, l, k + 1) /\ Frames(l, k + 1) = g[k + 1]
  BY <1>1, FrameSteps
<1>4. f[k] = g[k]
  BY <1>1, <1>2, <1>3, GatherSame
<1>5. g[k + 1] = IF l[k + 1].data > 0 THEN Append(g[k], FrameIn(l, k + 1)) ELSE g[k]
  BY <1>1, <1>3 DEF Gathers
<1> QED
  BY <1>2, <1>3, <1>4, <1>5

\* Before the first event there is no frame.
LEMMA FramesNone == ASSUME NEW l \in Seq(Events) PROVE Frames(l, 0) = <<>>
<1>1. 0 \in 0 .. Len(l)
  OBVIOUS
<1>2. PICK f : Gathers(f, l, 0) /\ Frames(l, 0) = f[0]
  BY <1>1, FrameSteps
<1> QED
  BY <1>2 DEF Gathers

\* A longer log has the same frames up to where it was.
LEMMA FramesKept ==
  ASSUME NEW l \in Seq(Events), NEW e \in Events, NEW k \in 0 .. Len(l)
  PROVE  Frames(Append(l, e), k) = Frames(l, k)
<1> DEFINE m == Append(l, e)
<1>1. m \in Seq(Events) /\ k <= Len(m) /\ \A i \in 1 .. k : l[i] = m[i]
  OBVIOUS
<1> HIDE DEF m
<1>2. Frames(l, k) = Frames(m, k)
  BY <1>1, FramesAgree
<1> QED
  BY <1>2 DEF m

------------------------------------------------------------------------------
(* What is on its way *)

\* Text and Comment, for any line end.
TextOf(q, n, e) ==
  (<<<<"id", n>>>> \o q)
    \o FlattenSeq([i \in 1 .. e.data |-> <<<<"data", n>>>> \o q])
    \o (IF e.hint = NoHint THEN <<>> ELSE <<<<"retry", e.hint>>>> \o q)
    \o q
CommentOf(q) == (<<<<"comment", 0>>>> \o q) \o q

\* The text of an event, with the line end as a parameter.
LEMMA TextIs ==
  /\ \A n, e : Text(n, e) = TextOf(eol, n, e)
  /\ Comment = CommentOf(eol)
BY DEF Text, TextOf, Comment, CommentOf, Line

\* The j-th piece is the event num[j], or a comment where the number stays.
Piece(q, l, num, j) ==
  IF num[j] = num[j - 1] THEN CommentOf(q) ELSE TextOf(q, num[j], l[num[j]])

Numbered(l, k, num) ==
  /\ k \in Nat /\ num \in [0 .. k -> 0 .. Len(l)] /\ num[k] = Len(l)
  /\ \A j \in 1 .. k : num[j] \in {num[j - 1], num[j - 1] + 1}

\* The text t is k pieces, the last event of l the last of them.
Carries(q, l, t, k, num) ==
  Numbered(l, k, num) /\ t = FlattenSeq([j \in 1 .. k |-> Piece(q, l, num, j)])

\* A piece is lines and an empty line, with the fields of its event or none.
LEMMA PieceRead ==
  ASSUME LineEnd, NEW l \in Seq(Events), NEW k, NEW num, Numbered(l, k, num), NEW j \in 1 .. k
  PROVE  /\ Piece(eol, l, num, j) \in Seq(Tokens)
         /\ \E d : /\ Lines(d) /\ Piece(eol, l, num, j) = d \o eol \o eol
                   /\ num[j] = num[j - 1] =>
                        \A field \in {"id", "data", "retry"} : Values(d, field) = <<>>
                   /\ num[j] # num[j - 1] =>
                        /\ num[j] \in 1 .. Len(l) /\ num[j] = num[j - 1] + 1
                        /\ Says(d, num[j], l[num[j]])
<1>1. eol \in Seq(Tokens)
  BY EolSeq
<1>2. /\ num[j] \in 0 .. Len(l) /\ num[j - 1] \in 0 .. Len(l)
      /\ num[j] = num[j - 1] \/ num[j] = num[j - 1] + 1
  <2>1. k \in Nat /\ j \in 0 .. k /\ j - 1 \in 0 .. k
    BY DEF Numbered
  <2> QED
    BY <2>1 DEF Numbered
<1>3. PICK d : /\ Lines(d) /\ Piece(eol, l, num, j) = d \o eol \o eol
               /\ num[j] = num[j - 1] =>
                    \A field \in {"id", "data", "retry"} : Values(d, field) = <<>>
               /\ num[j] # num[j - 1] =>
                    /\ num[j] \in 1 .. Len(l) /\ num[j] = num[j - 1] + 1
                    /\ Says(d, num[j], l[num[j]])
  <2>1. CASE num[j] = num[j - 1]
    <3>1. Piece(eol, l, num, j) = Comment
      BY <2>1, TextIs DEF Piece
    <3> QED
      BY <2>1, <3>1, CommentLines
  <2>2. CASE num[j] # num[j - 1]
    <3>1. num[j] \in 1 .. Len(l) /\ num[j] = num[j - 1] + 1
      BY <1>2, <2>2
    <3>2. num[j] \in Nat /\ l[num[j]] \in Events
      BY <3>1
    <3>3. Piece(eol, l, num, j) = Text(num[j], l[num[j]])
      BY <2>2, TextIs DEF Piece
    <3>4. PICK d : Says(d, num[j], l[num[j]]) /\ Text(num[j], l[num[j]]) = d \o eol \o eol
      BY <3>2, TextLines
    <3>5. Lines(d)
      BY <3>4 DEF Says
    <3> QED
      BY <2>2, <3>1, <3>3, <3>4, <3>5
  <2> QED
    BY <2>1, <2>2
<1>4. d \in Seq(Tokens)
  BY <1>3 DEF Lines
<1>5. d \o eol \o eol \in Seq(Tokens)
  BY <1>1, <1>4
<1> QED
  BY <1>3, <1>5

\* The pieces are texts.
LEMMA Pieces ==
  ASSUME LineEnd, NEW l \in Seq(Events), NEW k, NEW num, Numbered(l, k, num)
  PROVE  /\ [j \in 1 .. k |-> Piece(eol, l, num, j)] \in Seq(Seq(Tokens))
         /\ Len([j \in 1 .. k |-> Piece(eol, l, num, j)]) = k
<1>1. k \in Nat
  BY DEF Numbered
<1>2. \A j \in 1 .. k : Piece(eol, l, num, j) \in Seq(Tokens)
  BY PieceRead
<1> QED
  BY <1>1, <1>2

\* What is read first, and what is left.
LEMMA FirstPiece ==
  ASSUME LineEnd, NEW l \in Seq(Events), NEW t, NEW k, NEW num, Carries(eol, l, t, k, num),
         k # 0
  PROVE  \E r \in Seq(Tokens) :
           /\ t = Piece(eol, l, num, 1) \o r
           /\ Carries(eol, l, r, k - 1, [j \in 0 .. k - 1 |-> num[j + 1]])
<1> DEFINE ps == [j \in 1 .. k |-> Piece(eol, l, num, j)]
<1> DEFINE rest == [j \in 0 .. k - 1 |-> num[j + 1]]
<1> DEFINE qs == [j \in 1 .. k - 1 |-> Piece(eol, l, rest, j)]
<1>1. /\ k \in Nat /\ k > 0 /\ num \in [0 .. k -> 0 .. Len(l)] /\ num[k] = Len(l)
      /\ \A j \in 1 .. k : num[j] \in {num[j - 1], num[j - 1] + 1}
      /\ Numbered(l, k, num) /\ t = FlattenSeq(ps)
  BY DEF Carries, Numbered
<1>2. ps \in Seq(Seq(Tokens)) /\ Len(ps) = k
  <2>1. Numbered(l, k, num)
    BY DEF Carries
  <2> QED
    BY <2>1, Pieces
<1>3. Numbered(l, k - 1, rest)
  <2>1. \A j \in 0 .. k - 1 : j + 1 \in 0 .. k /\ rest[j] = num[j + 1]
    BY <1>1
  <2>2. rest \in [0 .. k - 1 -> 0 .. Len(l)]
    BY <1>1, <2>1
  <2>3. rest[k - 1] = Len(l)
    <3>1. k - 1 \in 0 .. k - 1 /\ (k - 1) + 1 = k
      BY <1>1
    <3> QED
      BY <1>1, <2>1, <3>1
  <2>4. ASSUME NEW j \in 1 .. k - 1 PROVE rest[j] \in {rest[j - 1], rest[j - 1] + 1}
    <3>1. /\ j \in 0 .. k - 1 /\ j - 1 \in 0 .. k - 1 /\ j + 1 \in 1 .. k
          /\ (j + 1) - 1 = j /\ (j - 1) + 1 = j
      BY <1>1
    <3>2. rest[j] = num[j + 1] /\ rest[j - 1] = num[j]
      BY <2>1, <3>1
    <3> QED
      BY <1>1, <3>1, <3>2
  <2> HIDE DEF rest
  <2>5. k - 1 \in Nat
    BY <1>1
  <2> QED
    BY <2>2, <2>3, <2>4, <2>5 DEF Numbered
<1>4. Tail(ps) = qs
  <2>1. ASSUME NEW j \in 1 .. k - 1
        PROVE  Piece(eol, l, rest, j) = Piece(eol, l, num, j + 1)
    <3>1. /\ j \in 0 .. k - 1 /\ j - 1 \in 0 .. k - 1
          /\ (j + 1) - 1 = j /\ (j - 1) + 1 = j
      BY <1>1
    <3>2. rest[j] = num[j + 1] /\ rest[j - 1] = num[j]
      BY <3>1
    <3> HIDE DEF rest
    <3> QED
      BY <3>1, <3>2 DEF Piece
  <2>2. Tail(ps) = [j \in 1 .. k - 1 |-> ps[j + 1]]
    BY <1>1, <1>2, HeadTailProperties
  <2>3. \A j \in 1 .. k - 1 : ps[j + 1] = Piece(eol, l, num, j + 1)
    BY <1>1
  <2> HIDE DEF ps, rest
  <2> QED
    BY <2>1, <2>2, <2>3
<1>5. qs \in Seq(Seq(Tokens))
  <2> HIDE DEF rest
  <2> QED
    BY <1>3, Pieces
<1>6. ps # <<>> /\ ps[1] = Piece(eol, l, num, 1)
  <2>1. ps[1] = Piece(eol, l, num, 1)
    BY <1>1
  <2>2. ps # <<>>
    <3> HIDE DEF ps
    <3> QED
      BY <1>1, <1>2
  <2> QED
    BY <2>1, <2>2
<1> DEFINE v == FlattenSeq(qs)
<1>7. v \in Seq(Tokens)
  <2> HIDE DEF qs
  <2> QED
    BY <1>5, FlatType
<1>8. t = Piece(eol, l, num, 1) \o v
  <2> HIDE DEF ps, qs
  <2> QED
    BY <1>1, <1>2, <1>4, <1>6, FlatHead
<1>9. Carries(eol, l, v, k - 1, rest)
  <2> HIDE DEF rest
  <2> QED
    BY <1>3 DEF Carries
<1> HIDE DEF v
<1> QED
  BY <1>7, <1>8, <1>9

\* No piece, no text.
LEMMA NothingLeft ==
  ASSUME NEW l, NEW t, NEW num, Carries(eol, l, t, 0, num)
  PROVE  t = <<>>
<1>1. [j \in 1 .. 0 |-> Piece(eol, l, num, j)] = <<>>
  OBVIOUS
<1> QED
  BY <1>1, FlatEmpty DEF Carries

\* One piece more, of the log m that begins with l.
Longer(k, num, n) == [j \in 0 .. k + 1 |-> IF j <= k THEN num[j] ELSE n]

\* A piece is added at the end.
LEMMA LastPiece ==
  ASSUME LineEnd, NEW l \in Seq(Events), NEW m \in Seq(Events),
         Len(l) <= Len(m), \A i \in 1 .. Len(l) : m[i] = l[i],
         NEW t, NEW k, NEW num, Carries(eol, l, t, k, num),
         Len(m) \in {Len(l), Len(l) + 1}
  PROVE  LET more == Longer(k, num, Len(m))
         IN /\ Carries(eol, m, t \o Piece(eol, m, more, k + 1), k + 1, more)
            /\ more[0] = num[0] /\ more[k] = Len(l) /\ more[k + 1] = Len(m)
<1> DEFINE more == Longer(k, num, Len(m))
<1> DEFINE ps == [j \in 1 .. k |-> Piece(eol, l, num, j)]
<1> DEFINE qs == [j \in 1 .. k + 1 |-> Piece(eol, m, more, j)]
<1> DEFINE x == Piece(eol, m, more, k + 1)
<1>1. /\ k \in Nat /\ num \in [0 .. k -> 0 .. Len(l)] /\ num[k] = Len(l)
      /\ \A j \in 1 .. k : num[j] \in {num[j - 1], num[j - 1] + 1}
      /\ Numbered(l, k, num) /\ t = FlattenSeq(ps)
  BY DEF Carries, Numbered
<1>2. /\ \A j \in 0 .. k : more[j] = num[j]
      /\ more[k + 1] = Len(m)
  BY <1>1 DEF Longer
<1>3. Numbered(m, k + 1, more)
  <2>1. more \in [0 .. k + 1 -> 0 .. Len(m)]
    BY <1>1 DEF Longer
  <2>2. ASSUME NEW j \in 1 .. k + 1 PROVE more[j] \in {more[j - 1], more[j - 1] + 1}
    <3>1. CASE j \in 1 .. k
      <4>1. j \in 0 .. k /\ j - 1 \in 0 .. k
        BY <1>1, <3>1
      <4> HIDE DEF more
      <4> QED
        BY <1>1, <1>2, <3>1, <4>1
    <3>2. CASE j = k + 1
      <4>1. k \in 0 .. k /\ (k + 1) - 1 = k
        BY <1>1
      <4> HIDE DEF more
      <4> QED
        BY <1>1, <1>2, <3>2, <4>1
    <3> QED
      BY <1>1, <3>1, <3>2
  <2> HIDE DEF more
  <2> QED
    BY <1>1, <1>2, <2>1, <2>2 DEF Numbered
<1>4. x \in Seq(Tokens)
  <2>1. k + 1 \in 1 .. k + 1
    BY <1>1
  <2> HIDE DEF more
  <2> QED
    BY <1>3, <2>1, PieceRead
<1>5. ps \in Seq(Seq(Tokens)) /\ Len(ps) = k
  BY <1>1, Pieces
<1>6. ASSUME NEW j \in 1 .. k PROVE Piece(eol, m, more, j) = Piece(eol, l, num, j)
  <2>1. j \in 0 .. k /\ j - 1 \in 0 .. k
    BY <1>1
  <2>2. more[j] = num[j] /\ more[j - 1] = num[j - 1]
    BY <1>2, <2>1
  <2>3. num[j] # num[j - 1] => num[j] \in 1 .. Len(l)
    <3>1. num[j] \in 0 .. Len(l) /\ num[j - 1] \in 0 .. Len(l)
      BY <1>1, <2>1
    <3> QED
      BY <1>1, <3>1
  <2> HIDE DEF more
  <2> QED
    BY <2>2, <2>3 DEF Piece
<1>7. qs = Append(ps, x)
  <2>1. \A j \in 1 .. k + 1 : j \in 1 .. k \/ j = k + 1
    BY <1>1
  <2> DEFINE ys == Append(ps, x)
  <2>2. ys = [j \in 1 .. k + 1 |-> IF j <= k THEN ps[j] ELSE x]
    <3> DEFINE V == Seq(Tokens)
    <3> DEFINE zs == [j \in 1 .. k + 1 |-> IF j <= k THEN ps[j] ELSE x]
    <3>1. ps \in Seq(V) /\ x \in V /\ k \in Nat /\ Len(ps) = k
      BY <1>1, <1>4, <1>5
    <3> HIDE DEF ps, x, V
    <3>2. zs \in Seq(V) /\ Len(zs) = k + 1
      BY <3>1
    <3>3. /\ ys \in Seq(V) /\ Len(ys) = k + 1 /\ ys[k + 1] = x
          /\ \A j \in 1 .. k : ys[j] = ps[j]
      BY <3>1, AppendProperties
    <3>4. ASSUME NEW j \in 1 .. Len(ys) PROVE ys[j] = zs[j]
      <4>1. j \in 1 .. k + 1 /\ (j <= k => j \in 1 .. k) /\ (~ (j <= k) => j = k + 1)
        BY <3>1, <3>3
      <4> HIDE DEF ys
      <4> QED
        BY <3>3, <4>1
    <3> HIDE DEF ys, zs
    <3>5. ys = zs
      BY <3>2, <3>3, <3>4, SeqEqual
    <3> QED
      BY <3>5 DEF zs
  <2>3. \A j \in 1 .. k : ps[j] = Piece(eol, l, num, j)
    OBVIOUS
  <2>4. ASSUME NEW j \in 1 .. k + 1
        PROVE  Piece(eol, m, more, j) = IF j <= k THEN ps[j] ELSE x
    <3> HIDE DEF ps, more
    <3>1. CASE j \in 1 .. k
      BY <1>1, <1>6, <2>3, <3>1
    <3>2. CASE j = k + 1
      BY <1>1, <3>2
    <3> QED
      BY <2>1, <3>1, <3>2
  <2> HIDE DEF ps, more, x
  <2> QED
    BY <2>2, <2>4
<1>8. FlattenSeq(qs) = t \o x
  <2> HIDE DEF ps, qs, x
  <2> QED
    BY <1>1, <1>4, <1>5, <1>7, FlatAppend
<1>9. Carries(eol, m, t \o x, k + 1, more)
  <2> HIDE DEF more
  <2> QED
    BY <1>3, <1>8 DEF Carries
<1>10. more[0] = num[0] /\ more[k] = Len(l)
  <2>1. 0 \in 0 .. k /\ k \in 0 .. k
    BY <1>1
  <2> HIDE DEF more
  <2> QED
    BY <1>1, <1>2, <2>1
<1> HIDE DEF more
<1> QED
  BY <1>2, <1>9, <1>10 DEF more

\* An event is published, ...
LEMMA OneMore ==
  ASSUME LineEnd, NEW l \in Seq(Events), NEW e \in Events, NEW t, NEW k, NEW num,
         Carries(eol, l, t, k, num)
  PROVE  \E more : /\ Carries(eol, Append(l, e), t \o Text(Len(l) + 1, e), k + 1, more)
                   /\ more[0] = num[0]
<1> DEFINE m == Append(l, e)
<1>1. /\ m \in Seq(Events) /\ Len(l) <= Len(m) /\ Len(m) = Len(l) + 1
      /\ m[Len(l) + 1] = e /\ \A i \in 1 .. Len(l) : m[i] = l[i]
  OBVIOUS
<1> HIDE DEF m
<1> DEFINE more == Longer(k, num, Len(m))
<1>2. /\ Carries(eol, m, t \o Piece(eol, m, more, k + 1), k + 1, more)
      /\ more[0] = num[0] /\ more[k] = Len(l) /\ more[k + 1] = Len(m)
  BY <1>1, LastPiece
<1> HIDE DEF more
<1>3. Piece(eol, m, more, k + 1) = Text(Len(l) + 1, e)
  <2>1. k \in Nat /\ (k + 1) - 1 = k
    BY DEF Carries, Numbered
  <2>2. more[k + 1] # more[(k + 1) - 1]
    BY <1>1, <1>2, <2>1
  <2> QED
    BY <1>1, <1>2, <2>2, TextIs DEF Piece
<1> QED
  BY <1>2, <1>3 DEF m

\* ... a comment is sent, ...
LEMMA OneComment ==
  ASSUME LineEnd, NEW l \in Seq(Events), NEW t, NEW k, NEW num, Carries(eol, l, t, k, num)
  PROVE  \E more : Carries(eol, l, t \o Comment, k + 1, more) /\ more[0] = num[0]
<1> DEFINE more == Longer(k, num, Len(l))
<1>1. /\ Carries(eol, l, t \o Piece(eol, l, more, k + 1), k + 1, more)
      /\ more[0] = num[0] /\ more[k] = Len(l) /\ more[k + 1] = Len(l)
  BY LastPiece
<1> HIDE DEF more
<1>2. Piece(eol, l, more, k + 1) = Comment
  <2>1. k \in Nat /\ (k + 1) - 1 = k
    BY DEF Carries, Numbered
  <2> QED
    BY <1>1, <2>1, TextIs DEF Piece
<1> QED
  BY <1>1, <1>2

\* ... and a GET begins with what comes after the event it names.
LEMMA FromThere ==
  ASSUME log \in Seq(Events), NEW n \in Nat
  PROVE  \E k, num : /\ Carries(eol, log, TextAfter(n), k, num)
                     /\ n <= Len(log) => num[0] = n
<1>1. Len(log) \in Nat
  OBVIOUS
<1>2. CASE n > Len(log)
  <2> DEFINE num == [j \in 0 .. 0 |-> Len(log)]
  <2>1. num \in [0 .. 0 -> 0 .. Len(log)] /\ num[0] = Len(log)
    OBVIOUS
  <2>2. Numbered(log, 0, num)
    <3> HIDE DEF num
    <3> QED
      BY <2>1 DEF Numbered
  <2>3. [i \in 1 .. Len(log) - n |-> Text(n + i, log[n + i])]
          = [j \in 1 .. 0 |-> Piece(eol, log, num, j)]
    <3>1. 1 .. Len(log) - n = {} /\ 1 .. 0 = {}
      BY <1>1, <1>2
    <3> HIDE DEF num
    <3> QED
      BY <3>1
  <2>4. Carries(eol, log, TextAfter(n), 0, num)
    <3> HIDE DEF num
    <3> QED
      BY <2>2, <2>3 DEF Carries, TextAfter
  <2> QED
    BY <1>1, <1>2, <2>4
<1>3. CASE n <= Len(log)
  <2> DEFINE k == Len(log) - n
  <2> DEFINE num == [j \in 0 .. k |-> n + j]
  <2>1. k \in Nat /\ num \in [0 .. k -> 0 .. Len(log)] /\ num[k] = Len(log) /\ num[0] = n
    BY <1>1, <1>3
  <2>2. ASSUME NEW j \in 1 .. k
        PROVE  num[j] = n + j /\ num[j] = num[j - 1] + 1 /\ num[j] # num[j - 1]
    <3>1. j \in 0 .. k /\ j - 1 \in 0 .. k
      BY <2>1
    <3>2. num[j] = n + j /\ num[j - 1] = n + (j - 1)
      BY <3>1
    <3> HIDE DEF num
    <3> QED
      BY <2>1, <3>2
  <2>3. Numbered(log, k, num)
    <3> HIDE DEF num, k
    <3> QED
      BY <2>1, <2>2 DEF Numbered
  <2>4. [i \in 1 .. k |-> Text(n + i, log[n + i])] = [j \in 1 .. k |-> Piece(eol, log, num, j)]
    <3> HIDE DEF num, k
    <3>1. ASSUME NEW j \in 1 .. k PROVE Piece(eol, log, num, j) = Text(n + j, log[n + j])
      BY <2>2, TextIs DEF Piece
    <3> QED
      BY <3>1
  <2>5. Carries(eol, log, TextAfter(n), k, num)
    <3> HIDE DEF num
    <3> QED
      BY <2>3, <2>4 DEF Carries, TextAfter
  <2> HIDE DEF num, k
  <2> QED
    BY <2>1, <2>5
<1> QED
  BY <1>1, <1>2, <1>3

------------------------------------------------------------------------------
(* The inductive invariant *)

Texts == buf \in Seq(Tokens) /\ wire \in Seq(Tokens)

\* What was received and what is on its way are whole events: those after the
\* last one seen, if no GET has strayed.
Flow ==
  Connected => \E k, num : /\ Carries(eol, log, buf \o wire, k, num)
                           /\ ~strayed => num[0] = seen

\* retry is the last valid suggestion of the events seen.
SuggestedIn(l, k) == {n \in 1 .. k : l[n].hint # NoHint /\ l[n].hint \in 0 .. IntMax}
ToldBy(l, k, r) ==
  IF SuggestedIn(l, k) = {} THEN r = NoHint
  ELSE \E n \in SuggestedIn(l, k) : (\A m \in SuggestedIn(l, k) : m <= n) /\ r = l[n].hint
Told == ~strayed => ToldBy(log, seen, retry)

\* What is handed to the callback is the event just seen.
InHand ==
  gpc = "deliver" =>
    seen \in 1 .. Len(log) /\ log[seen].data > 0 /\ hand = FrameIn(log, seen)

Paused == gpc = "backoff" => pause = Delay

\* Only the answer to a POST can make a GET stray.
Strays == replies = 0 => last = seen /\ ~strayed

Whole(l, g) == \A i \in DOMAIN g : \E n \in 1 .. Len(l) : g[i] = FrameIn(l, n)
InOrder ==
  /\ Whole(log, got)
  /\ ~strayed =>
       got \o (IF gpc = "deliver" THEN <<hand>> ELSE <<>>) = Frames(log, seen)

IInv ==
  /\ TypeOK /\ LineEnd /\ Texts /\ Flow /\ Told /\ InHand /\ Paused /\ Strays /\ InOrder

\* InOrder is Resumed, of Frames instead of FramesOf.
LEMMA InOrderIs == log \in Seq(Events) => (InOrder <=> Resumed)
<1> SUFFICES ASSUME log \in Seq(Events) PROVE InOrder <=> Resumed
  OBVIOUS
<1>1. DOMAIN log = 1 .. Len(log)
  OBVIOUS
<1>2. \A n : Frame(n) = FrameIn(log, n)
  BY DEF Frame, FrameIn
<1>3. FramesOf(seen) = Frames(log, seen)
  BY DEF FramesOf, Frames, Frame, FrameIn
<1> QED
  BY <1>1, <1>2, <1>3 DEF InOrder, Resumed, Whole, WholeFrames

\* The parts of TypeOK.
LogOK == log \in Seq(Events) /\ Len(log) <= MaxEvents
CountsOK == breaks \in 0 .. MaxBreaks /\ replies \in 0 .. MaxReplies
FlagsOK == closed \in BOOLEAN /\ strayed \in BOOLEAN
ThreadOK == gpc \in {"top", "get", "drain", "deliver", "returned", "backoff", "exit"}
SeenOK == last \in 0 .. MaxEvents /\ seen \in 0 .. Len(log)
RetryOK == retry \in Hints \cup {NoHint}
PauseOK == pause \in MinDelay .. MaxDelay
GotOK == got \in Seq(Seq(1 .. MaxEvents))
HandOK == hand \in Seq(1 .. MaxEvents)
WireOK == wire # <<>> => gpc \in {"get", "drain", "deliver"}

\* TypeOK is these parts.
LEMMA TypeParts ==
  /\ TypeOK <=> /\ LogOK /\ CountsOK /\ FlagsOK /\ ThreadOK /\ SeenOK /\ RetryOK
                 /\ PauseOK /\ GotOK /\ HandOK /\ WireOK
  /\ TypeOK' <=> /\ LogOK' /\ CountsOK' /\ FlagsOK' /\ ThreadOK' /\ SeenOK' /\ RetryOK'
                  /\ PauseOK' /\ GotOK' /\ HandOK' /\ WireOK'
BY DEF TypeOK, LogOK, CountsOK, FlagsOK, ThreadOK, SeenOK, RetryOK, PauseOK, GotOK, HandOK,
       WireOK

\* IInv and its parts.
LEMMA InvariantParts ==
  IInv <=> /\ TypeOK /\ LineEnd /\ Texts /\ Flow /\ Told /\ InHand /\ Paused /\ Strays
           /\ InOrder
BY DEF IInv

LEMMA Parts ==
  ASSUME IInv
  PROVE  /\ TypeOK /\ LineEnd /\ Texts /\ Flow /\ Told /\ InHand /\ Paused /\ Strays /\ InOrder
         /\ log \in Seq(Events) /\ Len(log) \in Nat /\ seen \in 0 .. Len(log)
<1>1. TypeOK /\ LineEnd /\ Texts /\ Flow /\ Told /\ InHand /\ Paused /\ Strays /\ InOrder
  BY InvariantParts
<1>2. log \in Seq(Events) /\ seen \in 0 .. Len(log)
  <2>1. LogOK /\ SeenOK
    BY <1>1, TypeParts
  <2>2. log \in Seq(Events)
    BY <2>1 DEF LogOK
  <2>3. seen \in 0 .. Len(log)
    BY <2>1 DEF SeenOK
  <2> QED
    BY <2>2, <2>3
<1>3. Len(log) \in Nat
  BY <1>2
<1> QED
  BY <1>1, <1>2, <1>3

\* The limits of the pause.
LEMMA DelayBand == /\ MinDelay \in Int /\ MaxDelay \in Int /\ MinDelay < MaxDelay
                   /\ 200 \in MinDelay .. MaxDelay
BY DEF MinDelay, MaxDelay

\* The invariant holds before the first GET.
LEMMA Start == ASSUME Init PROVE IInv
<1>1. log = <<>> /\ <<>> \in Seq(Events) /\ Len(log) = 0 /\ seen = 0 /\ gpc = "top"
      /\ got = <<>>
  <2>1. log = <<>> /\ got = <<>>
    BY DEF Init
  <2>2. seen = 0 /\ gpc = "top"
    BY DEF Init
  <2>3. <<>> \in Seq(Events) /\ Len(<<>>) = 0
    OBVIOUS
  <2> QED
    BY <2>1, <2>2, <2>3
<1>2. TypeOK
  <2>1. log \in Seq(Events) /\ Len(log) <= MaxEvents /\ seen \in 0 .. Len(log)
    BY <1>1, BoundsAssumption
  <2>2. got \in Seq(Seq(1 .. MaxEvents)) /\ hand \in Seq(1 .. MaxEvents)
    BY DEF Init
  <2>3. /\ breaks \in 0 .. MaxBreaks /\ replies \in 0 .. MaxReplies
        /\ last \in 0 .. MaxEvents /\ pause \in MinDelay .. MaxDelay
    <3>1. breaks = 0 /\ replies = 0 /\ last = 0 /\ pause = 200
      BY DEF Init
    <3> QED
      BY <3>1, DelayBand, BoundsAssumption
  <2>4. /\ closed \in BOOLEAN /\ strayed \in BOOLEAN /\ gpc = "top"
        /\ retry \in Hints \cup {NoHint} /\ wire = <<>>
    BY DEF Init
  <2> QED
    BY <2>1, <2>2, <2>3, <2>4 DEF TypeOK
<1>3. LineEnd /\ Texts /\ Flow /\ Paused /\ Strays /\ InHand
  BY <1>1 DEF Init, LineEnd, Texts, Flow, Paused, Strays, InHand, Connected
<1>4. Told
  <2>1. SuggestedIn(log, seen) = {}
    BY <1>1 DEF SuggestedIn
  <2> QED
    BY <2>1 DEF Init, Told, ToldBy
<1>5. InOrder
  <2>1. Frames(log, seen) = <<>>
    BY <1>1, FramesNone
  <2>2. Whole(log, got)
    BY <1>1 DEF Whole
  <2>3. got \o <<>> = <<>>
    BY <1>1
  <2> QED
    BY <1>1, <2>1, <2>2, <2>3 DEF InOrder
<1> QED
  BY <1>2, <1>3, <1>4, <1>5 DEF IInv

\* A longer log says the same of the events there were.
LEMMA Longest ==
  ASSUME NEW l \in Seq(Events), NEW e \in Events, NEW k \in 0 .. Len(l), NEW r, NEW g
  PROVE  /\ ToldBy(l, k, r) => ToldBy(Append(l, e), k, r)
         /\ Whole(l, g) => Whole(Append(l, e), g)
         /\ \A n \in 1 .. Len(l) : /\ Append(l, e)[n] = l[n]
                                   /\ FrameIn(Append(l, e), n) = FrameIn(l, n)
<1> DEFINE m == Append(l, e)
<1>1. Len(m) = Len(l) + 1 /\ Len(l) \in Nat /\ \A n \in 1 .. Len(l) : m[n] = l[n]
  OBVIOUS
<1> HIDE DEF m
<1>2. \A n \in 1 .. Len(l) : FrameIn(m, n) = FrameIn(l, n)
  BY <1>1 DEF FrameIn
<1>3. SuggestedIn(m, k) = SuggestedIn(l, k)
  BY <1>1 DEF SuggestedIn
<1>4. ToldBy(l, k, r) => ToldBy(m, k, r)
  <2>1. \A n \in SuggestedIn(l, k) : n \in 1 .. Len(l)
    BY <1>1 DEF SuggestedIn
  <2> QED
    BY <1>1, <1>3, <2>1 DEF ToldBy
<1>5. Whole(l, g) => Whole(m, g)
  BY <1>1, <1>2 DEF Whole
<1> QED
  BY <1>1, <1>2, <1>4, <1>5 DEF m

------------------------------------------------------------------------------
(* What drain_sse reads *)

\* A comment leaves everything as it was; an event is the next one.
ReadsNothing ==
  seen' = seen /\ last' = last /\ retry' = retry /\ hand' = <<>> /\ gpc' = "drain"
ReadsEvent(n) ==
  /\ n \in 1 .. Len(log)
  /\ seen' = n /\ last' = n /\ hand' = FrameIn(log, n)
  /\ retry' = IF log[n].hint # NoHint /\ log[n].hint \in 0 .. IntMax
              THEN log[n].hint ELSE retry
  /\ gpc' = IF log[n].data > 0 THEN "deliver" ELSE "drain"

\* drain_sse reads the next piece, and what is left are the others.
LEMMA Reads ==
  ASSUME IInv, Drain, Terminators(buf) # {}
  PROVE  \E k, num :
           /\ Carries(eol, log, buf' \o wire, k, num) /\ buf' \in Seq(Tokens)
           /\ \/ ReadsNothing /\ (~strayed => num[0] = seen)
              \/ ReadsEvent(num[0]) /\ (~strayed => num[0] = seen + 1)
<1>1. /\ LineEnd /\ log \in Seq(Events) /\ buf \in Seq(Tokens) /\ wire \in Seq(Tokens)
      /\ Len(log) \in Nat /\ seen \in 0 .. Len(log)
  BY Parts DEF Texts
<1>2. PICK k, num : Carries(eol, log, buf \o wire, k, num) /\ (~strayed => num[0] = seen)
  BY Parts DEF Flow, Connected, Drain
<1>3. k # 0
  <2> SUFFICES ASSUME k = 0 PROVE FALSE
    OBVIOUS
  <2>1. buf \o wire = <<>>
    BY <1>2, NothingLeft
  <2>2. Len(buf) = 0
    <3>1. Len(buf \o wire) = Len(buf) + Len(wire) /\ Len(buf) \in Nat /\ Len(wire) \in Nat
      BY <1>1
    <3>2. Len(buf \o wire) = 0
      BY <2>1
    <3> QED
      BY <3>1, <3>2
  <2>3. PICK t \in Terminators(buf) : TRUE
    OBVIOUS
  <2>4. Len(buf) > 0
    BY <1>1, <2>3, TerminatorCases DEF TwoAt, FourAt
  <2> QED
    BY <2>2, <2>4
<1>4. k \in Nat /\ 1 \in 1 .. k /\ Numbered(log, k, num)
  BY <1>2, <1>3 DEF Carries, Numbered
<1>5. PICK r \in Seq(Tokens) :
        /\ buf \o wire = Piece(eol, log, num, 1) \o r
        /\ Carries(eol, log, r, k - 1, [j \in 0 .. k - 1 |-> num[j + 1]])
  <2>1. LineEnd /\ log \in Seq(Events) /\ Carries(eol, log, buf \o wire, k, num)
    BY <1>1, <1>2
  <2> QED
    BY <1>3, <2>1, FirstPiece
<1>6. PICK d : /\ Lines(d) /\ Piece(eol, log, num, 1) = d \o eol \o eol
               /\ num[1] = num[1 - 1] =>
                    \A field \in {"id", "data", "retry"} : Values(d, field) = <<>>
               /\ num[1] # num[1 - 1] =>
                    /\ num[1] \in 1 .. Len(log) /\ num[1] = num[1 - 1] + 1
                    /\ Says(d, num[1], log[num[1]])
  BY <1>1, <1>4, PieceRead
<1> DEFINE rest == [j \in 0 .. k - 1 |-> num[j + 1]]
<1>7. rest[0] = num[1] /\ 1 - 1 = 0
  BY <1>4
<1> DEFINE end == CHOOSE t \in Terminators(buf) : \A u \in Terminators(buf) : t[1] <= u[1]
<1> DEFINE event == SubSeq(buf, 1, end[1] - 1)
<1> DEFINE ids == Values(event, "id")
<1> DEFINE data == Values(event, "data")
<1>8. /\ buf' = SubSeq(buf, end[1] + end[2], Len(buf))
      /\ last' = IF ids = <<>> THEN last ELSE ids[Len(ids)]
      /\ seen' = IF ids = <<>> THEN seen ELSE ids[Len(ids)]
      /\ retry' = LastOf(retry, Values(event, "retry"), 0 .. IntMax)
      /\ hand' = data
      /\ gpc' = IF data = <<>> THEN "drain" ELSE "deliver"
  BY DEF Drain, Taken
<1>9. buf \o wire = d \o eol \o eol \o r
  BY <1>5, <1>6
<1>10. /\ event = d
       /\ SubSeq(buf, end[1] + end[2], Len(buf)) \in Seq(Tokens)
       /\ SubSeq(buf, end[1] + end[2], Len(buf)) \o wire = r
  <2> HIDE DEF end
  <2>1. EndsAt(buf, wire, d, r, end)
    BY <1>9 DEF end, EndsAt
  <2>2. /\ SubSeq(buf, 1, end[1] - 1) = d
        /\ SubSeq(buf, end[1] + end[2], Len(buf)) \in Seq(Tokens)
        /\ SubSeq(buf, end[1] + end[2], Len(buf)) \o wire = r
    <3>1. LineEnd /\ buf \in Seq(Tokens) /\ wire \in Seq(Tokens) /\ Lines(d)
      BY <1>1, <1>6
    <3>2. CutsOff(buf, wire, d, r, end)
      BY <2>1, <3>1, FirstEnd
    <3> QED
      BY <3>2 DEF CutsOff
  <2> QED
    BY <2>2
<1> HIDE DEF event, end
<1>11. buf' \in Seq(Tokens) /\ buf' \o wire = r
  BY <1>8, <1>10
<1>12. Carries(eol, log, buf' \o wire, k - 1, rest)
  BY <1>5, <1>11
<1>13. CASE num[1] = num[0]
  <2>1. ids = <<>> /\ data = <<>> /\ Values(event, "retry") = <<>>
    BY <1>6, <1>7, <1>10, <1>13
  <2>2. ReadsNothing
    BY <1>8, <2>1, LastOfNone DEF ReadsNothing
  <2>3. ~strayed => rest[0] = seen
    BY <1>2, <1>7, <1>13
  <2> HIDE DEF rest
  <2> QED
    BY <1>11, <1>12, <2>2, <2>3
<1>14. CASE num[1] # num[0]
  <2> DEFINE n == num[1]
  <2>1. n \in 1 .. Len(log) /\ n = num[0] + 1 /\ Says(d, n, log[n])
    BY <1>6, <1>7, <1>14
  <2> HIDE DEF n
  <2>2. ids = <<n>> /\ ids # <<>> /\ Len(ids) = 1 /\ ids[1] = n
    BY <1>10, <2>1 DEF Says
  <2>3. data = FrameIn(log, n)
    BY <1>10, <2>1 DEF Says, FrameIn
  <2>4. data = <<>> <=> ~ (log[n].data > 0)
    <3>1. log[n].data \in 0 .. 2
      BY <1>1, <2>1, EventParts
    <3>2. data = [i \in 1 .. log[n].data |-> n]
      BY <2>3 DEF FrameIn
    <3>3. Len([i \in 1 .. log[n].data |-> n]) = log[n].data
      BY <3>1
    <3> HIDE DEF data
    <3> QED
      BY <3>1, <3>2, <3>3
  <2>5. retry' = IF log[n].hint # NoHint /\ log[n].hint \in 0 .. IntMax
                 THEN log[n].hint ELSE retry
    <3>1. Values(event, "retry") = IF log[n].hint = NoHint THEN <<>> ELSE <<log[n].hint>>
      BY <1>10, <2>1 DEF Says
    <3>2. CASE log[n].hint = NoHint
      BY <1>8, <3>1, <3>2, LastOfNone
    <3>3. CASE log[n].hint # NoHint
      <4>1. Values(event, "retry") = <<log[n].hint>>
        BY <3>1, <3>3
      <4>2. LastOf(retry, <<log[n].hint>>, 0 .. IntMax)
              = IF log[n].hint \in 0 .. IntMax THEN log[n].hint ELSE retry
        <5> DEFINE A == 0 .. IntMax
        <5> DEFINE h == log[n].hint
        <5>1. LastOf(retry, <<h>>, A) = IF h \in A THEN h ELSE retry
          <6> HIDE DEF A, h
          <6> QED
            BY LastOfOne
        <5> QED
          BY <5>1
      <4>3. retry' = IF log[n].hint \in 0 .. IntMax THEN log[n].hint ELSE retry
        BY <1>8, <4>1, <4>2
      <4> QED
        BY <3>3, <4>3
    <3> QED
      BY <3>2, <3>3
  <2>6. ReadsEvent(n)
    <3> HIDE DEF ids, data
    <3> QED
      BY <1>8, <2>1, <2>2, <2>3, <2>4, <2>5 DEF ReadsEvent
  <2>7. rest[0] = n /\ (~strayed => n = seen + 1)
    BY <1>2, <1>7, <2>1 DEF n
  <2> HIDE DEF rest
  <2> QED
    BY <1>11, <1>12, <2>6, <2>7
<1> QED
  BY <1>13, <1>14

------------------------------------------------------------------------------
(* Every step keeps the invariant *)

\* A variable that stays keeps its type.
LEMMA SameTypes ==
  ASSUME TypeOK
  PROVE  /\ UNCHANGED log => LogOK'
         /\ UNCHANGED <<breaks, replies>> => CountsOK'
         /\ UNCHANGED <<closed, strayed>> => FlagsOK'
         /\ UNCHANGED gpc => ThreadOK'
         /\ UNCHANGED <<log, last, seen>> => SeenOK'
         /\ UNCHANGED retry => RetryOK'
         /\ UNCHANGED pause => PauseOK'
         /\ UNCHANGED got => GotOK'
         /\ UNCHANGED hand => HandOK'
         /\ UNCHANGED <<wire, gpc>> => WireOK'
<1>1. /\ LogOK /\ CountsOK /\ FlagsOK /\ ThreadOK /\ SeenOK /\ RetryOK
      /\ PauseOK /\ GotOK /\ HandOK /\ WireOK
  BY TypeParts
<1>2. /\ UNCHANGED log => LogOK'
      /\ UNCHANGED <<breaks, replies>> => CountsOK'
      /\ UNCHANGED <<closed, strayed>> => FlagsOK'
      /\ UNCHANGED gpc => ThreadOK'
  <2>1. UNCHANGED log => LogOK'
    BY <1>1 DEF LogOK
  <2>2. UNCHANGED <<breaks, replies>> => CountsOK'
    BY <1>1 DEF CountsOK
  <2>3. UNCHANGED <<closed, strayed>> => FlagsOK'
    BY <1>1 DEF FlagsOK
  <2>4. UNCHANGED gpc => ThreadOK'
    BY <1>1 DEF ThreadOK
  <2> QED
    BY <2>1, <2>2, <2>3, <2>4
<1>3. /\ UNCHANGED <<log, last, seen>> => SeenOK'
      /\ UNCHANGED retry => RetryOK'
      /\ UNCHANGED pause => PauseOK'
  <2>1. UNCHANGED <<log, last, seen>> => SeenOK'
    <3> SUFFICES ASSUME UNCHANGED <<log, last, seen>> PROVE SeenOK'
      OBVIOUS
    <3>1. log' = log /\ last' = last /\ seen' = seen
      OBVIOUS
    <3>2. SeenOK
      BY <1>1
    <3>3. last \in 0 .. MaxEvents /\ seen \in 0 .. Len(log)
      BY <3>2 DEF SeenOK
    <3>4. last' \in 0 .. MaxEvents /\ seen' \in 0 .. Len(log')
      BY <3>1, <3>3
    <3> QED
      BY <3>4 DEF SeenOK
  <2>2. UNCHANGED retry => RetryOK'
    <3> SUFFICES ASSUME UNCHANGED retry PROVE RetryOK'
      OBVIOUS
    <3>1. retry' = retry
      OBVIOUS
    <3>2. retry \in Hints \cup {NoHint}
      BY <1>1 DEF RetryOK
    <3>3. retry' \in Hints \cup {NoHint}
      BY <3>1, <3>2
    <3> QED
      BY <3>3 DEF RetryOK
  <2>3. UNCHANGED pause => PauseOK'
    BY <1>1 DEF PauseOK
  <2> QED
    BY <2>1, <2>2, <2>3
<1>4. /\ UNCHANGED got => GotOK'
      /\ UNCHANGED hand => HandOK'
      /\ UNCHANGED <<wire, gpc>> => WireOK'
  BY <1>1 DEF GotOK, HandOK, WireOK
<1> QED
  BY <1>2, <1>3, <1>4

\* Most steps leave the log and what is known of it alone.
LEMMA SameLog ==
  ASSUME IInv, UNCHANGED <<log, eol, strayed, seen, retry>>
  PROVE  /\ LineEnd' /\ Told'
         /\ (gpc = "deliver" <=> gpc' = "deliver") /\ UNCHANGED <<hand, got>>
              => InHand' /\ InOrder'
BY Parts DEF LineEnd, Told, InHand, InOrder

\* Text that moves from the wire to the buffer is the same text.
LEMMA SameFlow ==
  ASSUME IInv, UNCHANGED <<log, eol, strayed, seen>>, buf' \o wire' = buf \o wire,
         Connected' => Connected
  PROVE  Flow'
<1>1. CASE ~ Connected'
  BY <1>1 DEF Flow
<1>2. CASE Connected'
  <2>1. PICK k, num : Carries(eol, log, buf \o wire, k, num) /\ (~strayed => num[0] = seen)
    BY <1>2, Parts DEF Flow
  <2>2. Carries(eol', log', buf' \o wire', k, num) /\ (~strayed' => num[0] = seen')
    BY <2>1
  <2> QED
    BY <2>2 DEF Flow
<1> QED
  BY <1>1, <1>2

\* The server publishes an event.
LEMMA PublishKeeps ==
  ASSUME IInv, NEW e \in Events, Publish(e)
  PROVE  IInv'
<1>1. /\ TypeOK /\ LineEnd /\ Texts /\ Flow /\ Told /\ InHand /\ Paused /\ Strays /\ InOrder
      /\ log \in Seq(Events) /\ Len(log) \in Nat /\ seen \in 0 .. Len(log)
  BY Parts
<1>2. /\ log' = Append(log, e) /\ Len(log) < MaxEvents
      /\ wire' = (IF Connected THEN wire \o Text(Len(log) + 1, e) ELSE wire)
      /\ UNCHANGED <<eol, breaks, replies, closed, gpc, buf, hand, retry, pause, got,
                     seen, last, strayed>>
  BY DEF Publish, getVars
<1>3. log' \in Seq(Events) /\ Len(log') = Len(log) + 1
  BY <1>1, <1>2
<1>4. Text(Len(log) + 1, e) \in Seq(Tokens)
  <2>1. PICK d : Says(d, Len(log) + 1, e) /\ Text(Len(log) + 1, e) = d \o eol \o eol
    <3> DEFINE n == Len(log) + 1
    <3>1. n \in Nat
      BY <1>1
    <3> HIDE DEF n
    <3>2. \E d : Says(d, n, e) /\ Text(n, e) = d \o eol \o eol
      BY <1>1, <3>1, TextLines
    <3> QED
      BY <3>2 DEF n
  <2>2. d \in Seq(Tokens) /\ eol \in Seq(Tokens)
    BY <1>1, <2>1, EolSeq DEF Says, Lines
  <2>3. d \o eol \o eol \in Seq(Tokens)
    BY <2>2
  <2> QED
    BY <2>1, <2>3
<1>5. TypeOK'
  <2>1. TypeOK /\ log' \in Seq(Events) /\ Len(log') = Len(log) + 1
    BY <1>1, <1>3
  <2>2. LogOK'
    BY <1>1, <1>2, <1>3, BoundsAssumption DEF LogOK
  <2>3. SeenOK'
    <3>1. SeenOK
      BY <2>1, TypeParts
    <3>2. seen \in 0 .. Len(log')
      BY <1>1, <1>3
    <3> QED
      BY <1>2, <3>1, <3>2 DEF SeenOK
  <2>4. WireOK'
    <3>1. WireOK
      BY <2>1, TypeParts
    <3> QED
      BY <1>2, <3>1 DEF WireOK, Connected
  <2> QED
    BY <1>2, <2>1, <2>2, <2>3, <2>4, TypeParts, SameTypes
<1>6. LineEnd' /\ Paused' /\ Strays'
  BY <1>1, <1>2 DEF LineEnd, Paused, Strays, Delay
<1>7. Texts'
  <2>1. wire \o Text(Len(log) + 1, e) \in Seq(Tokens)
    BY <1>1, <1>4 DEF Texts
  <2> QED
    BY <1>1, <1>2, <2>1 DEF Texts
<1>8. Flow'
  <2>1. CASE ~ Connected
    BY <1>2, <2>1 DEF Flow, Connected
  <2>2. CASE Connected
    <3>1. PICK k, num : Carries(eol, log, buf \o wire, k, num) /\ (~strayed => num[0] = seen)
      BY <1>1, <2>2 DEF Flow
    <3>2. PICK more : /\ Carries(eol, Append(log, e), (buf \o wire) \o Text(Len(log) + 1, e),
                                 k + 1, more)
                      /\ more[0] = num[0]
      BY <1>1, <3>1, OneMore
    <3>3. (buf \o wire) \o Text(Len(log) + 1, e) = buf' \o wire'
      <4> DEFINE V == Seq(Tokens)
      <4> DEFINE x == Text(Len(log) + 1, e)
      <4>1. Associative(V)
        BY Regroup
      <4>2. buf \in V /\ wire \in V /\ x \in V /\ buf' = buf /\ wire' = wire \o x
        BY <1>1, <1>2, <1>4, <2>2 DEF Texts
      <4> HIDE DEF V, x
      <4>4. (buf \o wire) \o x = buf' \o wire'
        BY <4>1, <4>2 DEF Associative
      <4> QED
        BY <4>4 DEF x
    <3>4. Carries(eol', log', buf' \o wire', k + 1, more) /\ (~strayed' => more[0] = seen')
      BY <1>2, <3>1, <3>2, <3>3
    <3> QED
      BY <3>4 DEF Flow
  <2> QED
    BY <2>1, <2>2
<1>9. Told'
  BY <1>1, <1>2, Longest DEF Told
<1>10. InHand'
  <2> SUFFICES ASSUME gpc = "deliver" PROVE InHand'
    BY <1>2 DEF InHand
  <2>1. /\ seen \in 1 .. Len(log) /\ log'[seen] = log[seen]
        /\ FrameIn(log', seen) = FrameIn(log, seen)
    BY <1>1, <1>2, Longest DEF InHand
  <2>2. seen' \in 1 .. Len(log')
    BY <1>1, <1>2, <1>3, <2>1
  <2> QED
    BY <1>1, <1>2, <2>1, <2>2 DEF InHand
<1>11. InOrder'
  <2>1. Whole(log', got')
    BY <1>1, <1>2, Longest DEF InOrder
  <2>2. Frames(log', seen') = Frames(log, seen)
    BY <1>1, <1>2, FramesKept
  <2> QED
    BY <1>1, <1>2, <2>1, <2>2 DEF InOrder
<1> QED
  BY <1>5, <1>6, <1>7, <1>8, <1>9, <1>10, <1>11 DEF IInv

\* The server sends a comment.
LEMMA HeartbeatKeeps ==
  ASSUME IInv, Heartbeat
  PROVE  IInv'
<1>1. /\ TypeOK /\ LineEnd /\ Texts /\ Flow /\ Told /\ InHand /\ Paused /\ Strays /\ InOrder
      /\ log \in Seq(Events) /\ Len(log) \in Nat /\ seen \in 0 .. Len(log)
  BY Parts
<1>2. /\ gpc = "get" /\ wire = <<>> /\ wire' = Comment
      /\ UNCHANGED <<log, eol, breaks, replies, closed, gpc, buf, hand, retry, pause, got,
                     seen, last, strayed>>
  BY DEF Heartbeat, getVars, serverVars
<1>3. Comment \in Seq(Tokens)
  <2>1. PICK d : Lines(d) /\ Comment = d \o eol \o eol
    BY <1>1, CommentLines
  <2>2. d \in Seq(Tokens) /\ eol \in Seq(Tokens)
    BY <1>1, <2>1, EolSeq DEF Lines
  <2>3. d \o eol \o eol \in Seq(Tokens)
    BY <2>2
  <2> QED
    BY <2>1, <2>3
<1>4. TypeOK'
  <2>1. WireOK'
    BY <1>2 DEF WireOK
  <2> QED
    BY <1>1, <1>2, <2>1, TypeParts, SameTypes
<1>5. LineEnd' /\ Told' /\ InHand' /\ InOrder'
  BY <1>2, SameLog
<1>6. Paused' /\ Strays' /\ Texts'
  BY <1>1, <1>2, <1>3 DEF Paused, Strays, Delay, Texts
<1>7. Flow'
  <2>1. PICK k, num : Carries(eol, log, buf \o wire, k, num) /\ (~strayed => num[0] = seen)
    BY <1>1, <1>2 DEF Flow, Connected
  <2>2. PICK more : /\ Carries(eol, log, (buf \o wire) \o Comment, k + 1, more)
                    /\ more[0] = num[0]
    BY <1>1, <2>1, OneComment
  <2>3. (buf \o wire) \o Comment = buf' \o wire'
    <3>1. buf \o <<>> = buf
      BY <1>1, ConcatEmptySeq DEF Texts
    <3> QED
      BY <1>2, <3>1
  <2>4. Carries(eol', log', buf' \o wire', k + 1, more) /\ (~strayed' => more[0] = seen')
    BY <1>2, <2>1, <2>2, <2>3
  <2> QED
    BY <2>4 DEF Flow
<1> QED
  BY <1>4, <1>5, <1>6, <1>7 DEF IInv

\* A GET begins.
LEMMA ConnectKeeps ==
  ASSUME IInv, Connect
  PROVE  IInv'
<1>1. /\ TypeOK /\ LineEnd /\ Texts /\ Flow /\ Told /\ InHand /\ Paused /\ Strays /\ InOrder
      /\ log \in Seq(Events) /\ Len(log) \in Nat /\ seen \in 0 .. Len(log)
  BY Parts
<1>2. /\ gpc = "top" /\ gpc' = "get" /\ buf' = <<>> /\ wire' = TextAfter(last)
      /\ strayed' = (strayed \/ last # seen)
      /\ UNCHANGED <<log, eol, breaks, replies, closed, hand, retry, pause, got,
                     seen, last>>
  BY DEF Connect, serverVars
<1>3. last \in Nat
  <2>1. SeenOK
    BY <1>1, TypeParts
  <2> QED
    BY <2>1 DEF SeenOK
<1>4. PICK k, num : /\ Carries(eol, log, TextAfter(last), k, num)
                    /\ last <= Len(log) => num[0] = last
  BY <1>1, <1>3, FromThere
<1>5. TextAfter(last) \in Seq(Tokens)
  <2>1. Numbered(log, k, num)
    BY <1>4 DEF Carries
  <2> DEFINE ps == [j \in 1 .. k |-> Piece(eol, log, num, j)]
  <2>2. ps \in Seq(Seq(Tokens))
    BY <1>1, <2>1, Pieces
  <2>3. TextAfter(last) = FlattenSeq(ps)
    BY <1>4 DEF Carries
  <2> HIDE DEF ps
  <2> QED
    BY <2>2, <2>3, FlatType
<1>6. TypeOK'
  <2>1. WireOK' /\ ThreadOK'
    BY <1>2 DEF WireOK, ThreadOK
  <2>2. FlagsOK'
    <3>1. FlagsOK
      BY <1>1, TypeParts
    <3> QED
      BY <1>2, <3>1 DEF FlagsOK
  <2> QED
    BY <1>1, <1>2, <2>1, <2>2, TypeParts, SameTypes
<1>7. LineEnd' /\ Told' /\ InHand' /\ Paused' /\ Strays' /\ InOrder'
  BY <1>1, <1>2 DEF LineEnd, Told, InHand, Paused, Strays, InOrder
<1>8. Texts'
  BY <1>2, <1>5 DEF Texts
<1>9. Flow'
  <2>1. buf' \o wire' = TextAfter(last)
    BY <1>2, <1>5, ConcatEmptySeq
  <2>2. ~strayed' => num[0] = seen'
    <3>1. ~strayed' => last = seen
      BY <1>2
    <3>2. last = seen => num[0] = seen
      BY <1>1, <1>4
    <3> QED
      BY <1>2, <3>1, <3>2
  <2>3. Carries(eol', log', buf' \o wire', k, num)
    BY <1>2, <1>4, <2>1
  <2> QED
    BY <2>2, <2>3 DEF Flow
<1> QED
  BY <1>6, <1>7, <1>8, <1>9 DEF IInv

\* Most steps leave the events that were seen, and what was read in them.
LEMMA AllSeen ==
  ASSUME IInv, UNCHANGED <<log, eol, replies, last, hand, got, strayed, seen, retry>>,
         gpc = "deliver" <=> gpc' = "deliver", TypeOK', Texts', Flow', Paused'
  PROVE  IInv'
<1>1. LineEnd' /\ Told' /\ InHand' /\ InOrder'
  BY SameLog
<1>2. Strays'
  BY Parts DEF Strays
<1> QED
  BY <1>1, <1>2 DEF IInv

\* A connection breaks.
LEMMA BreakKeeps ==
  ASSUME IInv, Break
  PROVE  IInv'
<1>1. TypeOK /\ Texts
  BY Parts
<1>2. /\ gpc = "get" /\ gpc' = "returned" /\ wire' = <<>>
      /\ breaks < MaxBreaks /\ breaks' = breaks + 1
      /\ UNCHANGED <<log, eol, replies, closed, buf, hand, retry, pause, got, seen, last,
                     strayed>>
  BY DEF Break
<1>3. TypeOK'
  <2>1. ThreadOK' /\ WireOK'
    BY <1>2 DEF ThreadOK, WireOK
  <2>2. CountsOK'
    <3>1. CountsOK
      BY <1>1, TypeParts
    <3> QED
      BY <1>2, <3>1, BoundsAssumption DEF CountsOK
  <2> QED
    BY <1>1, <1>2, <2>1, <2>2, TypeParts, SameTypes
<1>4. Texts' /\ Flow' /\ Paused'
  BY <1>1, <1>2 DEF Texts, Flow, Connected, Paused
<1> QED
  BY <1>2, <1>3, <1>4, AllSeen

\* close() cuts the GET off.
LEMMA CutOffKeeps ==
  ASSUME IInv, CutOff
  PROVE  IInv'
<1>1. TypeOK /\ Texts
  BY Parts
<1>2. /\ gpc = "get" /\ gpc' = "returned" /\ wire' = <<>>
      /\ UNCHANGED <<log, eol, breaks, replies, closed, buf, hand, retry, pause, got, seen,
                     last, strayed>>
  BY DEF CutOff, serverVars
<1>3. TypeOK'
  <2>1. ThreadOK' /\ WireOK'
    BY <1>2 DEF ThreadOK, WireOK
  <2> QED
    BY <1>1, <1>2, <2>1, TypeParts, SameTypes
<1>4. Texts' /\ Flow' /\ Paused'
  BY <1>1, <1>2 DEF Texts, Flow, Connected, Paused
<1> QED
  BY <1>2, <1>3, <1>4, AllSeen

Joins(T, x, y, z) == x \in Seq(T) /\ y \in Seq(T) /\ x \o y = z

\* A chunk moves from the wire to the buffer.
LEMMA Moves ==
  ASSUME NEW T, NEW b \in Seq(T), NEW w \in Seq(T), NEW n \in 1 .. Len(w)
  PROVE  Joins(T, b \o SubSeq(w, 1, n), SubSeq(w, n + 1, Len(w)), b \o w)
<1> DEFINE V == Seq(T)
<1> DEFINE x == SubSeq(w, 1, n)
<1> DEFINE y == SubSeq(w, n + 1, Len(w))
<1>1. /\ x \in V /\ Len(x) = n /\ \A i \in 1 .. n : x[i] = w[i]
      /\ y \in V /\ Len(y) = Len(w) - n /\ \A i \in 1 .. Len(w) - n : y[i] = w[n + i]
  OBVIOUS
<1>2. x \o y = w
  <2> DEFINE z == x \o y
  <2> HIDE DEF x, y
  <2>1. /\ z \in V /\ Len(z) = Len(w)
        /\ \A i \in 1 .. Len(w) : z[i] = IF i <= n THEN x[i] ELSE y[i - n]
    <3>1. /\ z \in V /\ Len(z) = Len(x) + Len(y)
          /\ \A i \in 1 .. Len(x) + Len(y) :
               z[i] = IF i <= Len(x) THEN x[i] ELSE y[i - Len(x)]
      BY <1>1, ConcatProperties
    <3>2. Len(x) = n /\ Len(x) + Len(y) = Len(w)
      BY <1>1
    <3> HIDE DEF z, V
    <3> QED
      BY <3>1, <3>2
  <2>2. ASSUME NEW i \in 1 .. Len(z) PROVE z[i] = w[i]
    <3>1. CASE i <= n
      BY <1>1, <2>1, <3>1
    <3>2. CASE ~ (i <= n)
      <4>1. i - n \in 1 .. Len(w) - n /\ n + (i - n) = i
        BY <2>1, <3>2
      <4> HIDE DEF z
      <4> QED
        BY <1>1, <2>1, <3>2, <4>1
    <3> QED
      BY <3>1, <3>2
  <2> HIDE DEF z
  <2>3. z = w
    BY <2>1, <2>2, SeqEqual
  <2> QED
    BY <2>3 DEF z
<1>3. (b \o x) \o y = b \o (x \o y)
  <2>1. Associative(V)
    BY Regroup
  <2>2. b \in V
    OBVIOUS
  <2> HIDE DEF V, x, y
  <2> QED
    BY <1>1, <2>1, <2>2 DEF Associative
<1>4. b \o x \in V
  <2> HIDE DEF x
  <2> QED
    BY <1>1
<1> QED
  BY <1>1, <1>2, <1>3, <1>4 DEF Joins

\* A chunk arrives.
LEMMA ReceiveKeeps ==
  ASSUME IInv, NEW n \in 1 .. Len(wire), Receive(n)
  PROVE  IInv'
<1>1. TypeOK /\ Texts
  BY Parts
<1>2. /\ gpc = "get"
      /\ UNCHANGED <<log, eol, breaks, replies, closed, hand, retry, pause, got, seen,
                     last, strayed>>
  BY DEF Receive, serverVars
<1>3. CASE closed
  <2>1. gpc' = "returned" /\ wire' = <<>> /\ UNCHANGED buf
    BY <1>3 DEF Receive
  <2>2. TypeOK'
    <3>1. ThreadOK' /\ WireOK'
      BY <2>1 DEF ThreadOK, WireOK
    <3> QED
      BY <1>1, <1>2, <3>1, TypeParts, SameTypes
  <2>3. Texts' /\ Flow' /\ Paused'
    BY <1>1, <2>1 DEF Texts, Flow, Connected, Paused
  <2> QED
    BY <1>2, <2>1, <2>2, <2>3, AllSeen
<1>4. CASE ~closed
  <2>1. /\ gpc' = "drain" /\ buf' = buf \o SubSeq(wire, 1, n)
        /\ wire' = SubSeq(wire, n + 1, Len(wire))
    BY <1>4 DEF Receive
  <2>2. TypeOK'
    <3>1. ThreadOK' /\ WireOK'
      BY <2>1 DEF ThreadOK, WireOK
    <3> QED
      BY <1>1, <1>2, <3>1, TypeParts, SameTypes
  <2>3. buf' \in Seq(Tokens) /\ wire' \in Seq(Tokens) /\ buf' \o wire' = buf \o wire
    <3>1. buf \in Seq(Tokens) /\ wire \in Seq(Tokens)
      BY <1>1 DEF Texts
    <3>2. Joins(Tokens, buf \o SubSeq(wire, 1, n), SubSeq(wire, n + 1, Len(wire)), buf \o wire)
      BY <3>1, Moves
    <3> QED
      BY <2>1, <3>2 DEF Joins
  <2>4. Texts' /\ Paused'
    BY <2>1, <2>3 DEF Texts, Paused
  <2>5. Flow'
    <3>1. Connected
      BY <1>2 DEF Connected
    <3> QED
      BY <1>2, <2>3, <3>1, SameFlow
  <2> QED
    BY <1>2, <2>1, <2>2, <2>4, <2>5, AllSeen
<1> QED
  BY <1>3, <1>4

\* The next event read, of a log that tells r so far.
LEMMA ToldNext ==
  ASSUME NEW l, NEW k \in Nat, NEW r, ToldBy(l, k, r)
  PROVE  ToldBy(l, k + 1, IF l[k + 1].hint # NoHint /\ l[k + 1].hint \in 0 .. IntMax
                          THEN l[k + 1].hint ELSE r)
<1> DEFINE valid == l[k + 1].hint # NoHint /\ l[k + 1].hint \in 0 .. IntMax
<1> DEFINE A == SuggestedIn(l, k)
<1> DEFINE B == SuggestedIn(l, k + 1)
<1>1. \A n : n \in 1 .. k + 1 <=> n \in 1 .. k \/ n = k + 1
  OBVIOUS
<1>2. \A n \in A : n <= k + 1
  BY DEF SuggestedIn
<1>3. CASE valid
  <2>1. B = A \cup {k + 1}
    BY <1>1, <1>3 DEF SuggestedIn
  <2>2. k + 1 \in B /\ B # {} /\ \A m \in B : m <= k + 1
    BY <1>2, <2>1
  <2> HIDE DEF A, B
  <2>3. ToldBy(l, k + 1, l[k + 1].hint)
    BY <2>2 DEF ToldBy, B
  <2> QED
    BY <1>3, <2>3
<1>4. CASE ~valid
  <2>1. B = A
    BY <1>1, <1>4 DEF SuggestedIn
  <2>2. ToldBy(l, k + 1, r)
    BY <2>1 DEF ToldBy
  <2> QED
    BY <1>4, <2>2
<1> QED
  BY <1>3, <1>4

\* drain_sse looks for a complete event.
LEMMA DrainKeeps ==
  ASSUME IInv, Drain
  PROVE  IInv'
<1>1. /\ TypeOK /\ LineEnd /\ Texts /\ Told /\ Strays /\ InOrder
      /\ log \in Seq(Events) /\ Len(log) \in Nat /\ seen \in 0 .. Len(log)
  BY Parts
<1>2. /\ gpc = "drain"
      /\ UNCHANGED <<log, eol, breaks, replies, wire, closed, pause, got, strayed>>
  BY DEF Drain, serverVars
<1>3. CASE Terminators(buf) = {}
  <2>1. gpc' = "get" /\ UNCHANGED <<buf, hand, last, seen, retry>>
    BY <1>3 DEF Drain
  <2>2. TypeOK'
    <3>1. ThreadOK' /\ WireOK'
      BY <2>1 DEF ThreadOK, WireOK
    <3> QED
      BY <1>1, <1>2, <2>1, <3>1, TypeParts, SameTypes
  <2>3. Texts' /\ Paused'
    BY <1>1, <1>2, <2>1 DEF Texts, Paused
  <2>4. Flow'
    <3>1. Connected /\ buf' \o wire' = buf \o wire
      BY <1>2, <2>1 DEF Connected
    <3> QED
      BY <1>2, <2>1, <3>1, SameFlow
  <2> QED
    BY <1>2, <2>1, <2>2, <2>3, <2>4, AllSeen
<1>4. CASE Terminators(buf) # {}
  <2>1. PICK k, num :
          /\ Carries(eol, log, buf' \o wire, k, num) /\ buf' \in Seq(Tokens)
          /\ \/ ReadsNothing /\ (~strayed => num[0] = seen)
             \/ ReadsEvent(num[0]) /\ (~strayed => num[0] = seen + 1)
    BY <1>4, Reads
  <2>2. LineEnd' /\ Texts'
    BY <1>1, <1>2, <2>1 DEF LineEnd, Texts
  <2>3. ASSUME ~strayed => num[0] = seen' PROVE Flow'
    <3>1. Carries(eol', log', buf' \o wire', k, num) /\ (~strayed' => num[0] = seen')
      BY <1>2, <2>1, <2>3
    <3> QED
      BY <3>1 DEF Flow
  <2>4. LogOK' /\ CountsOK' /\ FlagsOK' /\ PauseOK' /\ GotOK'
    BY <1>1, <1>2, SameTypes
  <2>5. LogOK /\ SeenOK /\ RetryOK
    BY <1>1, TypeParts
  <2>6. CASE ReadsNothing /\ (~strayed => num[0] = seen)
    <3>1. seen' = seen /\ last' = last /\ retry' = retry /\ hand' = <<>> /\ gpc' = "drain"
      BY <2>6 DEF ReadsNothing
    <3>2. TypeOK'
      <4>1. ThreadOK' /\ WireOK' /\ HandOK'
        BY <3>1 DEF ThreadOK, WireOK, HandOK
      <4>2. SeenOK' /\ RetryOK'
        BY <1>1, <1>2, <3>1, SameTypes
      <4> QED
        BY <2>4, <4>1, <4>2, TypeParts
    <3>3. Flow'
      BY <2>3, <2>6, <3>1
    <3>4. Told' /\ InHand' /\ Paused' /\ Strays' /\ InOrder'
      BY <1>1, <1>2, <3>1 DEF Told, InHand, Paused, Strays, InOrder
    <3> QED
      BY <2>2, <3>2, <3>3, <3>4 DEF IInv
  <2>7. CASE ReadsEvent(num[0]) /\ (~strayed => num[0] = seen + 1)
    <3> DEFINE n == num[0]
    <3>1. /\ n \in 1 .. Len(log)
          /\ seen' = n /\ last' = n /\ hand' = FrameIn(log, n)
          /\ retry' = (IF log[n].hint # NoHint /\ log[n].hint \in 0 .. IntMax
                       THEN log[n].hint ELSE retry)
          /\ gpc' = (IF log[n].data > 0 THEN "deliver" ELSE "drain")
          /\ ~strayed => n = seen + 1
      BY <2>7 DEF ReadsEvent
    <3>2. Flow'
      BY <2>3, <3>1
    <3> HIDE DEF n
    <3>3. /\ log[n].data \in 0 .. 2 /\ log[n].hint \in Hints \cup {NoHint}
      BY <1>1, <3>1, EventParts
    <3>4. TypeOK'
      <4>1. ThreadOK' /\ WireOK'
        BY <3>1 DEF ThreadOK, WireOK
      <4>2. Len(log) <= MaxEvents
        BY <2>5 DEF LogOK
      <4>3. n \in 1 .. MaxEvents
        BY <1>1, <3>1, <4>2, BoundsAssumption
      <4>4. SeenOK'
        BY <1>1, <1>2, <3>1, <4>3 DEF SeenOK
      <4>5. RetryOK'
        <5>1. retry' \in Hints \cup {NoHint}
          BY <2>5, <3>1, <3>3 DEF RetryOK
        <5> QED
          BY <5>1 DEF RetryOK
      <4>6. HandOK'
        <5>1. [i \in 1 .. log[n].data |-> n] \in Seq(1 .. MaxEvents)
          <6> DEFINE c == log[n].data
          <6> DEFINE A == 1 .. MaxEvents
          <6>1. c \in Nat /\ n \in A
            BY <3>3, <4>3
          <6> HIDE DEF c, A
          <6>2. [i \in 1 .. c |-> n] \in Seq(A)
            BY <6>1
          <6> QED
            BY <6>2 DEF A, c
        <5> QED
          BY <3>1, <5>1 DEF HandOK, FrameIn
      <4> QED
        BY <2>4, <4>1, <4>4, <4>5, <4>6, TypeParts
    <3>5. Told'
      <4> SUFFICES ASSUME ~strayed PROVE ToldBy(log, seen', retry')
        BY <1>2 DEF Told
      <4>1. seen \in Nat /\ ToldBy(log, seen, retry) /\ n = seen + 1
        BY <1>1, <3>1 DEF Told
      <4> QED
        BY <3>1, <4>1, ToldNext
    <3>6. InHand'
      BY <1>2, <3>1 DEF InHand
    <3>7. Paused' /\ Strays'
      BY <1>1, <1>2, <3>1 DEF Paused, Strays
    <3>8. InOrder'
      <4>1. Whole(log', got')
        BY <1>1, <1>2 DEF InOrder
      <4>2. ASSUME ~strayed
            PROVE  got' \o (IF gpc' = "deliver" THEN <<hand'>> ELSE <<>>) = Frames(log, n)
        <5>1. n = seen + 1 /\ seen \in 0 .. Len(log) - 1
          BY <1>1, <3>1, <4>2
        <5>2. Frames(log, n) = IF log[n].data > 0
                               THEN Append(Frames(log, seen), FrameIn(log, n))
                               ELSE Frames(log, seen)
          BY <1>1, <5>1, FramesNext
        <5>3. got \in Seq(Seq(1 .. MaxEvents))
          BY <1>1, TypeParts DEF GotOK
        <5>4. got = Frames(log, seen)
          <6>1. got \o <<>> = Frames(log, seen)
            BY <1>1, <1>2, <4>2 DEF InOrder
          <6> QED
            BY <5>3, <6>1, ConcatEmptySeq
        <5>5. got \o <<>> = got /\ got \o <<hand'>> = Append(got, hand')
          BY <5>3, ConcatEmptySeq, AppendIsConcat
        <5> QED
          BY <1>2, <3>1, <5>2, <5>4, <5>5
      <4> QED
        BY <1>2, <3>1, <4>1, <4>2 DEF InOrder
    <3> QED
      BY <2>2, <3>2, <3>4, <3>5, <3>6, <3>7, <3>8 DEF IInv
  <2> QED
    BY <2>1, <2>6, <2>7
<1> QED
  BY <1>3, <1>4

\* The callback delivers the data of an event.
LEMMA DeliverKeeps ==
  ASSUME IInv, Deliver
  PROVE  IInv'
<1>1. /\ TypeOK /\ LineEnd /\ Texts /\ Flow /\ Told /\ InHand /\ Strays /\ InOrder
      /\ log \in Seq(Events) /\ Len(log) \in Nat /\ seen \in 0 .. Len(log)
  BY Parts
<1>2. /\ gpc = "deliver" /\ gpc' = "drain" /\ got' = Append(got, hand) /\ hand' = <<>>
      /\ UNCHANGED <<log, eol, breaks, replies, wire, closed, buf, retry, pause, seen, last,
                     strayed>>
  BY DEF Deliver, serverVars
<1>3. got \in Seq(Seq(1 .. MaxEvents)) /\ hand \in Seq(1 .. MaxEvents)
  BY <1>1, TypeParts DEF GotOK, HandOK
<1>4. TypeOK'
  <2>1. ThreadOK' /\ WireOK' /\ HandOK'
    BY <1>2 DEF ThreadOK, WireOK, HandOK
  <2>2. GotOK'
    BY <1>2, <1>3 DEF GotOK
  <2> QED
    BY <1>1, <1>2, <2>1, <2>2, TypeParts, SameTypes
<1>5. LineEnd' /\ Texts' /\ Told' /\ InHand' /\ Paused' /\ Strays'
  BY <1>1, <1>2 DEF LineEnd, Texts, Told, InHand, Paused, Strays
<1>6. Flow'
  BY <1>2, SameFlow DEF Connected
<1>7. InOrder'
  <2>1. got \o <<hand>> = Append(got, hand) /\ Append(got, hand) \o <<>> = Append(got, hand)
    BY <1>3, ConcatEmptySeq, AppendIsConcat
  <2>2. ~strayed => got' \o <<>> = Frames(log, seen)
    BY <1>1, <1>2, <2>1 DEF InOrder
  <2>3. Whole(log, got')
    <3>1. seen \in 1 .. Len(log) /\ hand = FrameIn(log, seen) /\ Whole(log, got)
      BY <1>1, <1>2 DEF InHand, InOrder
    <3>2. /\ DOMAIN got = 1 .. Len(got) /\ Len(got) \in Nat
          /\ DOMAIN got' = 1 .. Len(got) + 1 /\ got'[Len(got) + 1] = hand
          /\ \A i \in 1 .. Len(got) : got'[i] = got[i]
      BY <1>2, <1>3
    <3>3. \A i \in 1 .. Len(got) + 1 : i \in 1 .. Len(got) \/ i = Len(got) + 1
      BY <3>2
    <3> QED
      BY <3>1, <3>2, <3>3 DEF Whole
  <2> QED
    BY <1>2, <2>2, <2>3 DEF InOrder
<1> QED
  BY <1>4, <1>5, <1>6, <1>7 DEF IInv

InLimits(p, r) ==
  /\ p \in MinDelay .. MaxDelay
  /\ r = NoHint => p = 200
  /\ r # NoHint => Nearest(p, r)

\* The pause is within its limits, and near to what was suggested.
LEMMA Delayed == ASSUME RetryOK PROVE InLimits(Delay, retry)
<1>1. CASE retry = NoHint
  <2>1. Delay = 200
    BY <1>1 DEF Delay
  <2> QED
    BY <1>1, <2>1, DelayBand DEF InLimits
<1>2. CASE retry # NoHint
  <2>1. retry \in Int
    BY <1>2, HintsAssumption DEF RetryOK
  <2>2. Delay = IF retry < MinDelay THEN MinDelay ELSE IF retry > MaxDelay THEN MaxDelay ELSE retry
    <3>1. CASE retry < MinDelay
      BY <1>2, <2>1, <3>1, DelayBand DEF Delay
    <3>2. CASE retry > MaxDelay
      BY <1>2, <2>1, <3>2, DelayBand DEF Delay
    <3>3. CASE ~ (retry < MinDelay) /\ ~ (retry > MaxDelay)
      BY <1>2, <2>1, <3>3, DelayBand DEF Delay
    <3> QED
      BY <3>1, <3>2, <3>3
  <2> DEFINE p == Delay
  <2> DEFINE v == retry
  <2>3. v \in Int /\ p = IF v < MinDelay THEN MinDelay ELSE IF v > MaxDelay THEN MaxDelay ELSE v
    BY <2>1, <2>2
  <2> HIDE DEF p, v
  <2>4. p \in MinDelay .. MaxDelay
    BY <2>3, DelayBand
  <2>5. Nearest(p, v)
    <3> SUFFICES ASSUME NEW q \in {MinDelay, v, MaxDelay} \cap MinDelay .. MaxDelay
                 PROVE  Distance(p, v) <= Distance(q, v)
      BY DEF Nearest
    <3>1. q \in Int /\ q >= MinDelay /\ q <= MaxDelay
      OBVIOUS
    <3>2. p \in Int
      BY <2>4
    <3> QED
      BY <2>3, <3>1, <3>2, DelayBand DEF Distance
  <2> QED
    BY <1>2, <2>4, <2>5 DEF p, v, InLimits
<1> QED
  BY <1>1, <1>2

\* The GET has returned.
LEMMA RetryKeeps ==
  ASSUME IInv, Retry
  PROVE  IInv'
<1>1. TypeOK /\ Texts
  BY Parts
<1>2. /\ gpc = "returned" /\ gpc' \in {"exit", "backoff"}
      /\ gpc' = "backoff" => pause' = Delay
      /\ pause' = pause \/ pause' = Delay
      /\ UNCHANGED <<log, eol, breaks, replies, wire, closed, buf, hand, retry, got, seen,
                     last, strayed>>
  BY DEF Retry, serverVars
<1>3. TypeOK'
  <2>1. RetryOK /\ PauseOK /\ WireOK
    BY <1>1, TypeParts
  <2>2. ThreadOK'
    BY <1>2 DEF ThreadOK
  <2>3. PauseOK'
    <3>1. Delay \in MinDelay .. MaxDelay
      BY <2>1, Delayed DEF InLimits
    <3>2. pause \in MinDelay .. MaxDelay
      BY <2>1 DEF PauseOK
    <3>3. pause' = pause \/ pause' = Delay
      BY <1>2
    <3>4. pause' \in MinDelay .. MaxDelay
      BY <3>1, <3>2, <3>3
    <3> QED
      BY <3>4 DEF PauseOK
  <2>4. WireOK'
    BY <1>2, <2>1 DEF WireOK
  <2> QED
    BY <1>1, <1>2, <2>2, <2>3, <2>4, TypeParts, SameTypes
<1>4. Texts' /\ Flow'
  BY <1>1, <1>2 DEF Texts, Flow, Connected
<1>5. Paused'
  <2>1. Delay' = Delay
    BY <1>2 DEF Delay
  <2> QED
    BY <1>2, <2>1 DEF Paused
<1> QED
  BY <1>2, <1>3, <1>4, <1>5, AllSeen

\* The pause ends.
LEMMA PauseEndsKeeps ==
  ASSUME IInv, PauseEnds
  PROVE  IInv'
<1>1. TypeOK /\ Texts
  BY Parts
<1>2. /\ gpc = "backoff" /\ gpc' = "top"
      /\ UNCHANGED <<log, eol, breaks, replies, wire, closed, buf, hand, retry, pause, got,
                     seen, last, strayed>>
  BY DEF PauseEnds, serverVars
<1>3. TypeOK'
  <2>1. WireOK
    BY <1>1, TypeParts
  <2>2. ThreadOK' /\ WireOK'
    BY <1>2, <2>1 DEF ThreadOK, WireOK
  <2> QED
    BY <1>1, <1>2, <2>2, TypeParts, SameTypes
<1>4. Texts' /\ Flow' /\ Paused'
  BY <1>1, <1>2 DEF Texts, Flow, Connected, Paused
<1> QED
  BY <1>2, <1>3, <1>4, AllSeen

\* The loop ends.
LEMMA StopKeeps ==
  ASSUME IInv, Stop
  PROVE  IInv'
<1>1. TypeOK /\ Texts
  BY Parts
<1>2. /\ gpc = "top" /\ gpc' = "exit"
      /\ UNCHANGED <<log, eol, breaks, replies, wire, closed, buf, hand, retry, pause, got,
                     seen, last, strayed>>
  BY DEF Stop, serverVars
<1>3. TypeOK'
  <2>1. WireOK
    BY <1>1, TypeParts
  <2>2. ThreadOK' /\ WireOK'
    BY <1>2, <2>1 DEF ThreadOK, WireOK
  <2> QED
    BY <1>1, <1>2, <2>2, TypeParts, SameTypes
<1>4. Texts' /\ Flow' /\ Paused'
  BY <1>1, <1>2 DEF Texts, Flow, Connected, Paused
<1> QED
  BY <1>2, <1>3, <1>4, AllSeen

\* close() sets its flag.
LEMMA CloseKeeps ==
  ASSUME IInv, Close
  PROVE  IInv'
<1>1. TypeOK /\ Texts /\ Paused
  BY Parts
<1>2. /\ closed' = TRUE
      /\ UNCHANGED <<log, eol, breaks, replies, wire, gpc, buf, hand, retry, pause, got,
                     seen, last, strayed>>
  BY DEF Close, serverVars, getVars
<1>3. TypeOK'
  <2>1. FlagsOK
    BY <1>1, TypeParts
  <2>2. FlagsOK'
    BY <1>2, <2>1 DEF FlagsOK
  <2> QED
    BY <1>1, <1>2, <2>2, TypeParts, SameTypes
<1>4. Texts' /\ Paused'
  BY <1>1, <1>2 DEF Texts, Paused, Delay
<1>5. Flow'
  <2>1. buf' \o wire' = buf \o wire /\ (Connected' => Connected)
    BY <1>2 DEF Connected
  <2> QED
    BY <1>2, <2>1, SameFlow
<1> QED
  BY <1>2, <1>3, <1>4, <1>5, AllSeen

\* The answer to a POST changes the event the next GET names, and nothing else.
LEMMA ReplyKeeps ==
  ASSUME IInv, NEW i \in 1 .. MaxEvents, Reply(i)
  PROVE  IInv'
<1>1. TypeOK /\ Texts /\ Paused
  BY Parts
<1>2. /\ replies < MaxReplies /\ replies' = replies + 1 /\ last' = i
      /\ UNCHANGED <<log, eol, breaks, wire, closed, gpc, buf, hand, retry, pause, got,
                     seen, strayed>>
  BY DEF Reply, getVars
<1>3. CountsOK /\ SeenOK
  BY <1>1, TypeParts
<1>4. TypeOK'
  <2>1. CountsOK'
    BY <1>2, <1>3, BoundsAssumption DEF CountsOK
  <2>2. SeenOK'
    <3>1. last' \in 0 .. MaxEvents
      BY <1>2, BoundsAssumption
    <3> QED
      BY <1>2, <1>3, <3>1 DEF SeenOK
  <2> QED
    BY <1>1, <1>2, <2>1, <2>2, TypeParts, SameTypes
<1>5. LineEnd' /\ Told' /\ InHand' /\ InOrder'
  BY <1>2, SameLog
<1>6. Texts' /\ Paused'
  BY <1>1, <1>2 DEF Texts, Paused, Delay
<1>7. Strays'
  <2>1. replies' # 0
    BY <1>2, <1>3 DEF CountsOK
  <2> QED
    BY <2>1 DEF Strays
<1>8. Flow'
  <2>1. buf' \o wire' = buf \o wire /\ (Connected' => Connected)
    BY <1>2 DEF Connected
  <2> QED
    BY <1>2, <2>1, SameFlow
<1> QED
  BY <1>4, <1>5, <1>6, <1>7, <1>8 DEF IInv

\* Nothing happens.
LEMMA StutterKeeps ==
  ASSUME IInv, UNCHANGED vars
  PROVE  IInv'
<1>1. TypeOK /\ Texts /\ Paused
  BY Parts
<1>2. UNCHANGED <<log, eol, breaks, replies, wire, closed, gpc, buf, hand, retry, pause, got,
                  seen, last, strayed>>
  BY DEF vars, serverVars, getVars
<1>3. TypeOK'
  BY <1>1, <1>2, TypeParts, SameTypes
<1>4. Texts' /\ Paused'
  BY <1>1, <1>2 DEF Texts, Paused, Delay
<1>5. Flow'
  <2>1. buf' \o wire' = buf \o wire /\ (Connected' => Connected)
    BY <1>2 DEF Connected
  <2> QED
    BY <1>2, <2>1, SameFlow
<1> QED
  BY <1>2, <1>3, <1>4, <1>5, AllSeen

\* Every step keeps the invariant.
LEMMA StepKeeps ==
  ASSUME IInv, [Next]_vars
  PROVE  IInv'
<1>1. ASSUME NEW e \in Events, Publish(e) PROVE IInv'
  BY <1>1, PublishKeeps
<1>2. ASSUME Heartbeat PROVE IInv'
  BY <1>2, HeartbeatKeeps
<1>3. ASSUME Break PROVE IInv'
  BY <1>3, BreakKeeps
<1>4. ASSUME GetStep PROVE IInv'
  <2>1. ASSUME Connect PROVE IInv'
    BY <2>1, ConnectKeeps
  <2>2. ASSUME Drain PROVE IInv'
    BY <2>2, DrainKeeps
  <2>3. ASSUME Deliver PROVE IInv'
    BY <2>3, DeliverKeeps
  <2>4. ASSUME Retry PROVE IInv'
    BY <2>4, RetryKeeps
  <2>5. ASSUME PauseEnds PROVE IInv'
    BY <2>5, PauseEndsKeeps
  <2>6. ASSUME Stop PROVE IInv'
    BY <2>6, StopKeeps
  <2>7. ASSUME NEW n \in 1 .. Len(wire), Receive(n) PROVE IInv'
    BY <2>7, ReceiveKeeps
  <2> QED
    BY <1>4, <2>1, <2>2, <2>3, <2>4, <2>5, <2>6, <2>7 DEF GetStep
<1>5. ASSUME Close PROVE IInv'
  BY <1>5, CloseKeeps
<1>6. ASSUME CutOff PROVE IInv'
  BY <1>6, CutOffKeeps
<1>7. ASSUME NEW i \in 1 .. MaxEvents, Reply(i) PROVE IInv'
  BY <1>7, ReplyKeeps
<1>8. CASE UNCHANGED vars
  BY <1>8, StutterKeeps
<1> QED
  BY <1>1, <1>2, <1>3, <1>4, <1>5, <1>6, <1>7, <1>8 DEF Next

\* What drain_sse and run_get_stream keep at every step: the buffer and the wire
\* hold whole events that follow the last one seen, and what was read of the others
\* is what was delivered and what is remembered of them.
THEOREM Inductive == Spec => []IInv
<1>1. Init => IInv
  BY Start
<1>2. IInv /\ [Next]_vars => IInv'
  BY StepKeeps
<1> QED
  BY <1>1, <1>2, PTL DEF Spec

------------------------------------------------------------------------------
(* Theorems *)

\* The event stream of HttpClientTransport (drain_sse, run_get_stream) keeps its
\* types: among them, the pause stays between 50 ms and 60 s whatever the server
\* suggests, and no event is seen that the server has not published.
THEOREM TypeCorrect == Spec => []TypeOK
<1>1. IInv => TypeOK
  BY Parts
<1> QED
  BY <1>1, Inductive, PTL

\* http_client_transport.cpp:495-497: whatever the chunks, the broken connections
\* and the line ends, drain_sse and the Last-Event-ID of run_get_stream give the
\* application each event whole, and every event up to the last one seen, once and
\* in order, unless a GET named an event that came with the answer to a POST.
THEOREM ReadOnceInOrder == Spec => []Resumed
<1>1. IInv => Resumed
  <2> SUFFICES ASSUME IInv PROVE Resumed
    OBVIOUS
  <2>1. log \in Seq(Events) /\ InOrder
    BY Parts
  <2> QED
    BY <2>1, InOrderIs
<1> QED
  BY <1>1, Inductive, PTL

\* run_get_stream waits for what the last valid retry: field of the events it has
\* seen suggests, moved into its limits, and 200 ms if there was none.
THEOREM PausesAsTold == Spec => []PauseAsTold
<1>1. IInv => PauseAsTold
  <2> SUFFICES ASSUME IInv, gpc = "backoff", ~strayed
               PROVE  LET told == Suggested(seen)
                      IN IF told = {}
                         THEN pause = 200
                         ELSE \E n \in told : /\ \A m \in told : m <= n
                                              /\ Nearest(pause, log[n].hint)
    BY DEF PauseAsTold
  <2>1. TypeOK /\ Told /\ Paused
    BY Parts
  <2>2. RetryOK
    BY <2>1, TypeParts
  <2>3. pause = Delay /\ ToldBy(log, seen, retry)
    BY <2>1 DEF Told, Paused
  <2>4. Suggested(seen) = SuggestedIn(log, seen)
    BY DEF Suggested, SuggestedIn
  <2>5. CASE SuggestedIn(log, seen) = {}
    <3>1. retry = NoHint
      BY <2>3, <2>5 DEF ToldBy
    <3> QED
      BY <2>2, <2>3, <2>4, <2>5, <3>1, Delayed DEF InLimits
  <2>6. CASE SuggestedIn(log, seen) # {}
    <3>1. PICK n \in SuggestedIn(log, seen) :
            (\A m \in SuggestedIn(log, seen) : m <= n) /\ retry = log[n].hint
      BY <2>3, <2>6 DEF ToldBy
    <3>2. retry # NoHint
      BY <3>1 DEF SuggestedIn
    <3>3. Nearest(pause, log[n].hint)
      BY <2>2, <2>3, <3>1, <3>2, Delayed DEF InLimits
    <3> QED
      BY <2>4, <2>6, <3>1, <3>3
  <2> QED
    BY <2>5, <2>6
<1> QED
  BY <1>1, Inductive, PTL

\* Only the answer to a POST can move last_event_id_ past an event that the GET
\* stream has not read: with a server that numbers no such answer, the resumption
\* promised in http_client_transport.cpp:495-497 holds without exception.
THEOREM StraysOnlyByReply == Spec => [](replies = 0 => ~strayed)
<1>1. IInv => (replies = 0 => ~strayed)
  BY Parts DEF Strays
<1> QED
  BY <1>1, Inductive, PTL

------------------------------------------------------------------------------
(* The refinement *)

\* What the server has sent, of Frames.
LEMMA SentIs ==
  /\ FramesOf(Len(log)) = Frames(log, Len(log))
  /\ FramesOf(Len(log))' = Frames(log', Len(log'))
BY DEF FramesOf, Frames, Frame, FrameIn

Prefix(p, q) == Len(p) <= Len(q) /\ \A i \in 1 .. Len(p) : q[i] = p[i]

\* Frames are sequences of data.
LEMMA FramesType ==
  ASSUME NEW l \in Seq(Events), NEW k \in 0 .. Len(l)
  PROVE  Frames(l, k) \in Seq(Seq(Int))
<1>1. k \in Nat
  OBVIOUS
<1>2. PICK f \in [0 .. k -> Seq(Seq(Int))] : Gathers(f, l, k) /\ Frames(l, k) = f[k]
  BY FrameSteps
<1> QED
  BY <1>1, <1>2

\* What has been seen is the beginning of what was published.
LEMMA FramesGrow ==
  ASSUME NEW l \in Seq(Events), NEW k \in 0 .. Len(l)
  PROVE  Prefix(Frames(l, k), Frames(l, Len(l)))
<1> DEFINE A == {m \in k .. Len(l) : Prefix(Frames(l, k), Frames(l, m))}
<1>1. k \in Int /\ Len(l) \in Int /\ Len(l) \in k .. Len(l) /\ k \in k .. Len(l)
  OBVIOUS
<1>2. Prefix(Frames(l, k), Frames(l, k))
  <2>1. Len(Frames(l, k)) \in Nat
    BY FramesType
  <2> QED
    BY <2>1 DEF Prefix
<1>3. ASSUME NEW m \in k .. Len(l) - 1, m \in A PROVE m + 1 \in A
  <2> DEFINE p == Frames(l, k)
  <2> DEFINE q == Frames(l, m)
  <2> DEFINE r == Frames(l, m + 1)
  <2>1. m \in 0 .. Len(l) - 1 /\ m \in 0 .. Len(l) /\ m + 1 \in 1 .. Len(l) /\ m + 1 \in k .. Len(l)
    OBVIOUS
  <2>2. p \in Seq(Seq(Int)) /\ q \in Seq(Seq(Int))
    BY <2>1, FramesType
  <2>3. Prefix(p, q)
    BY <1>3
  <2>4. r = q \/ \E x \in Seq(Int) : r = Append(q, x)
    <3>1. FrameIn(l, m + 1) \in Seq(Int)
      BY <2>1, EventParts
    <3>2. r = IF l[m + 1].data > 0 THEN Append(q, FrameIn(l, m + 1)) ELSE q
      BY <2>1, FramesNext
    <3> HIDE DEF q, r
    <3> QED
      BY <3>1, <3>2
  <2>5. Prefix(p, r)
    <3> HIDE DEF p, q, r
    <3>1. CASE r = q
      BY <2>3, <3>1
    <3>2. ASSUME NEW x \in Seq(Int), r = Append(q, x) PROVE Prefix(p, r)
      <4>1. Len(r) = Len(q) + 1 /\ Len(q) \in Nat /\ \A i \in 1 .. Len(q) : r[i] = q[i]
        BY <2>2, <3>2
      <4>2. Len(p) \in Nat /\ Len(p) <= Len(q) /\ \A i \in 1 .. Len(p) : q[i] = p[i]
        BY <2>2, <2>3 DEF Prefix
      <4>3. Len(p) <= Len(r) /\ \A i \in 1 .. Len(p) : i \in 1 .. Len(q)
        BY <4>1, <4>2
      <4> QED
        BY <4>1, <4>2, <4>3 DEF Prefix
    <3> QED
      BY <2>4, <3>1, <3>2
  <2> QED
    BY <2>1, <2>5
<1>4. k \in A
  BY <1>1, <1>2
<1>5. \A m \in k .. Len(l) : m \in A
  <2> HIDE DEF A
  <2> QED
    BY <1>1, <1>3, <1>4, Upwards
<1> QED
  BY <1>1, <1>5

\* At first nothing is in the channel.
LEMMA ChannelInit == Init => ToApplication!Init
<1> SUFFICES ASSUME Init PROVE ToApplication!Init
  OBVIOUS
<1>1. log = <<>> /\ got = <<>>
  BY DEF Init
<1>2. <<>> \in Seq(Events) /\ Len(<<>>) = 0
  OBVIOUS
<1>3. FramesOf(Len(log)) = <<>>
  BY <1>1, <1>2, SentIs, FramesNone
<1> QED
  BY <1>1, <1>3 DEF ToApplication!Init

\* An event with data is put into the channel, any other is none of its frames.
LEMMA PublishPuts ==
  ASSUME IInv, NEW e \in Events, Publish(e)
  PROVE  [ToApplication!Next]_<<FramesOf(Len(log)), <<>>, got>>
<1>1. log \in Seq(Events) /\ Len(log) \in Nat
  BY Parts
<1>2. log' = Append(log, e) /\ Len(log) < MaxEvents /\ got' = got
  BY DEF Publish, getVars
<1> DEFINE m == Append(log, e)
<1> DEFINE n == Len(log) + 1
<1> DEFINE x == FrameIn(m, n)
<1>3. m \in Seq(Events) /\ Len(m) = n /\ m[n] = e /\ n \in 1 .. Len(m) /\ n \in 1 .. MaxEvents
  BY <1>1, <1>2, BoundsAssumption
<1>4. Len(log) \in 0 .. Len(m) - 1 /\ Len(log) \in 0 .. Len(log)
  BY <1>1, <1>3
<1> HIDE DEF m
<1>5. Frames(m, n) = IF e.data > 0 THEN Append(Frames(m, Len(log)), x) ELSE Frames(m, Len(log))
  BY <1>3, <1>4, FramesNext
<1>6. Frames(m, Len(log)) = Frames(log, Len(log))
  BY <1>1, <1>4, FramesKept DEF m
<1>7. e.data \in 0 .. 2
  BY <1>3, EventParts
<1> DEFINE sent == FramesOf(Len(log))
<1>8. sent = Frames(log, Len(log)) /\ sent' = Frames(m, n)
  BY <1>2, <1>3, SentIs DEF m
<1> HIDE DEF n, x
<1>9. CASE e.data > 0
  <2>1. x = [i \in 1 .. e.data |-> n] /\ e.data \in 1 .. 2
    BY <1>3, <1>7, <1>9 DEF x, FrameIn
  <2>2. x \in {[i \in 1 .. d |-> k] : d \in 1 .. 2, k \in 1 .. MaxEvents}
    BY <1>3, <2>1
  <2>3. x # <<>> /\ <<>> \o x = x
    <3> DEFINE c == e.data
    <3>1. c \in Nat /\ c > 0 /\ x = [i \in 1 .. c |-> n] /\ n \in Int
      BY <1>3, <2>1
    <3> HIDE DEF c
    <3>2. x \in Seq(Int) /\ Len(x) = c
      BY <3>1
    <3> QED
      BY <3>1, <3>2, ConcatEmptySeq
  <2>4. sent' = Append(sent, x)
    BY <1>5, <1>6, <1>8, <1>9
  <2> HIDE DEF sent
  <2>5. ToApplication!Put(x)
    BY <1>2, <2>3, <2>4 DEF ToApplication!Put, Same, sent
  <2> QED
    BY <2>2, <2>5 DEF ToApplication!Next
<1>10. CASE ~ (e.data > 0)
  <2>1. sent' = sent
    BY <1>5, <1>6, <1>8, <1>10
  <2> QED
    BY <1>2, <2>1
<1> QED
  BY <1>9, <1>10

\* What the callback gets is the next frame of the channel.
LEMMA DeliverTakes ==
  ASSUME IInv, ~strayed, Deliver
  PROVE  ToApplication!Next
<1>1. /\ TypeOK /\ InOrder /\ log \in Seq(Events) /\ Len(log) \in Nat /\ seen \in 0 .. Len(log)
  BY Parts
<1>2. gpc = "deliver" /\ got' = Append(got, hand) /\ log' = log
  BY DEF Deliver, serverVars
<1>3. got \in Seq(Seq(1 .. MaxEvents)) /\ hand \in Seq(1 .. MaxEvents)
  BY <1>1, TypeParts DEF GotOK, HandOK
<1> DEFINE sent == FramesOf(Len(log))
<1> DEFINE p == Frames(log, seen)
<1>4. p = Append(got, hand)
  <2>1. got \o <<hand>> = p
    BY <1>1, <1>2 DEF InOrder
  <2> QED
    BY <1>3, <2>1, AppendIsConcat
<1>5. Len(p) = Len(got) + 1 /\ p[Len(got) + 1] = hand /\ Len(got) \in Nat
  <2> HIDE DEF p
  <2> QED
    BY <1>3, <1>4
<1>6. sent = Frames(log, Len(log)) /\ sent' = sent
  BY <1>2, SentIs
<1>7. Prefix(p, sent) /\ Len(sent) \in Nat
  <2>1. Prefix(p, Frames(log, Len(log)))
    BY <1>1, FramesGrow
  <2>2. Len(log) \in 0 .. Len(log)
    BY <1>1
  <2>3. Frames(log, Len(log)) \in Seq(Seq(Int))
    BY <1>1, <2>2, FramesType
  <2> HIDE DEF p, sent
  <2> QED
    BY <1>6, <2>1, <2>3
<1>8. Len(got) < Len(sent) /\ sent[Len(got) + 1] = hand
  <2> HIDE DEF p, sent
  <2> QED
    BY <1>5, <1>7 DEF Prefix
<1> HIDE DEF sent
<1>9. ToApplication!Take
  BY <1>2, <1>6, <1>8 DEF ToApplication!Take, sent
<1> QED
  BY <1>9 DEF ToApplication!Next

\* Every step is one of the channel or leaves it alone.
LEMMA ChannelStep ==
  ASSUME IInv, ~strayed, [Next]_vars
  PROVE  [ToApplication!Next]_<<FramesOf(Len(log)), <<>>, got>>
<1>1. ASSUME NEW e \in Events, Publish(e)
      PROVE  [ToApplication!Next]_<<FramesOf(Len(log)), <<>>, got>>
  BY <1>1, PublishPuts
<1>2. CASE Deliver
  BY <1>2, DeliverTakes
<1>3. ASSUME UNCHANGED <<log, got>>
      PROVE  [ToApplication!Next]_<<FramesOf(Len(log)), <<>>, got>>
  <2>1. FramesOf(Len(log))' = FramesOf(Len(log))
    BY <1>3, SentIs
  <2> QED
    BY <1>3, <2>1
<1>4. CASE UNCHANGED vars
  BY <1>3, <1>4 DEF vars, serverVars, getVars
<1>5. CASE Heartbeat \/ Break \/ Close \/ CutOff \/ \E i \in 1 .. MaxEvents : Reply(i)
  <2>1. UNCHANGED <<log, got>>
    BY <1>5 DEF Heartbeat, Break, Close, CutOff, Reply, serverVars, getVars
  <2> QED
    BY <1>3, <2>1
<1>6. CASE GetStep /\ ~Deliver
  <2>1. UNCHANGED <<log, got>>
    BY <1>6 DEF GetStep, Connect, Drain, Retry, PauseEnds, Stop, Receive, serverVars
  <2> QED
    BY <1>3, <2>1
<1> QED
  BY <1>1, <1>2, <1>4, <1>5, <1>6 DEF Next

\* transport.hpp: as long as the server answers no POST with a numbered event, the
\* GET stream with all its broken and resumed connections is one FrameChannel from
\* the server to the application: frames complete, each once, in order.
THEOREM StreamIsChannel == Spec /\ [](replies = 0) => OneChannel
<1>1. IInv /\ replies = 0 => ~strayed
  BY Parts DEF Strays
<1>2. IInv /\ replies = 0 /\ [Next]_vars
        => [ToApplication!Next]_<<FramesOf(Len(log)), <<>>, got>>
  BY <1>1, ChannelStep
<1> QED
  BY <1>2, ChannelInit, Inductive, PTL DEF Spec, OneChannel, ToApplication!Spec
=============================================================================
