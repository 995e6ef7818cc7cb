----------------------------- MODULE StdioProofs -----------------------------
(***************************************************************************)
(* Proofs about module Stdio: for any frames, lengths of frames, sizes of the  *)
(* pipe, the chunk and the frame limit.  The bytes of a direction that are     *)
(* under way, read or not, are one stream; the first part says which lines it  *)
(* holds, by the places of its line feeds, and what becomes of them when bytes *)
(* are put at its end or taken from its beginning.  The second is about the    *)
(* read thread and on_close, the third shows that every step of either end     *)
(* keeps what the stream holds, and that the transport is the channel of        *)
(* FrameChannel.                                                          *)
(***************************************************************************)
EXTENDS Stdio, SequenceTheorems, TLAPS

Bytes == Frames \cup {"lf", "cr"}
Strings == Seq(Bytes)
Lines == Seq(Strings)

\* cut[1] to cut[k] are the places of the line feeds in s.
Cuts(s, k, cut) ==
  /\ k \in Nat /\ cut \in [0 .. k -> 0 .. Len(s)] /\ cut[0] = 0
  /\ \A i, j \in 0 .. k : i < j => cut[i] < cut[j]
  /\ \A i \in 1 .. Len(s) : s[i] = "lf" <=> \E j \in 1 .. k : cut[j] = i

RawLine(s, cut, j) == SubSeq(s, cut[j - 1] + 1, cut[j] - 1)

\* With the first j lines of s, of which the empty ones do not count, t has been
\* told up to upto[j].
Counts(s, t, k, cut, upto) ==
  /\ upto \in [0 .. k -> 0 .. Len(t)] /\ upto[k] = Len(t)
  /\ \A j \in 1 .. k :
       LET line == Clean(RawLine(s, cut, j)) IN
       IF line = <<>> THEN upto[j] = upto[j - 1]
       ELSE upto[j] = upto[j - 1] + 1 /\ t[upto[j]] = line

\* The lines t and one more, which counts only if it is not empty.
Ended(t, x) == IF x = <<>> THEN t ELSE Append(t, x)

IsPrefixOf(g, t) == Len(g) <= Len(t) /\ \A i \in 1 .. Len(g) : g[i] = t[i]

\* s holds the lines of t that come after those of g, and then o, without its end.
Splits(s, o, g, t, k, cut, upto) ==
  /\ Cuts(s, k, cut) /\ Counts(s, t, k, cut, upto) /\ upto[0] = Len(g)
  /\ SubSeq(s, cut[k] + 1, Len(s)) = o

Carries(s, o, g, t) ==
  IsPrefixOf(g, t) /\ \E k, cut, upto : Splits(s, o, g, t, k, cut, upto)

------------------------------------------------------------------------------
LEMMA CleanIsString == ASSUME NEW x \in Strings PROVE Clean(x) \in Strings
BY DEF Strings, Clean

\* At the beginning nothing is sent, under way or handed over.
LEMMA CarriesNothing == Carries(<<>>, <<>>, <<>>, <<>>)
<1> DEFINE cut == [j \in 0 .. 0 |-> 0]
<1>1. cut \in [0 .. 0 -> Nat] /\ cut[0] = 0
  OBVIOUS
<1>2. Cuts(<<>>, 0, cut)
  BY DEF Cuts
<1>3. Counts(<<>>, <<>>, 0, cut, cut)
  BY DEF Counts
<1>4. SubSeq(<<>>, 1, 0) = <<>> /\ Len(<<>>) = 0
  OBVIOUS
<1>5. IsPrefixOf(<<>>, <<>>)
  BY DEF IsPrefixOf
<1> HIDE DEF cut
<1> QED
  BY <1>1, <1>2, <1>3, <1>4, <1>5, 0 + 1 = 1 DEF Carries, Splits

LEMMA Concat ==
  ASSUME NEW x \in Strings, NEW y \in Strings
  PROVE  x \o y \in Strings /\ Len(x \o y) = Len(x) + Len(y)
BY ConcatProperties DEF Strings

LEMMA Associative ==
  ASSUME NEW x \in Strings, NEW y \in Strings, NEW z \in Strings
  PROVE  (x \o y) \o z = x \o (y \o z)
BY ConcatAssociative DEF Strings

\* Arithmetic about the places of two line feeds behind a line of length p.
LEMMA Shifted ==
  ASSUME NEW p \in Nat, NEW l \in Nat, NEW x \in Nat, NEW y \in Nat,
         x < y, p <= x, y <= p + l
  PROVE  /\ x + 1 \in p + 1 .. p + l + 1 /\ y - 1 \in p .. p + l
         /\ (x + 1) - p = (x - p) + 1 /\ (y - 1) - p = (y - p) - 1
OBVIOUS

\* Slices of a concatenation.
LEMMA SliceOfConcat ==
  ASSUME NEW s \in Strings, NEW p \in Strings,
         NEW m \in Nat \ {0}, NEW n \in 0 .. Len(s)
  PROVE  SubSeq(s \o p, m, n) = SubSeq(s, m, n)
<1>1. Len(s) \in Nat
  BY LenProperties DEF Strings
<1>2. CASE m <= n
  <2>1. m \in 1 .. Len(s) /\ n \in 1 .. Len(s)
    BY <1>1, <1>2
  <2> QED
    BY <2>1, SubSeqOfConcat1 DEF Strings
<1>3. CASE n < m
  BY <1>3, SubSeqEmpty
<1> QED
  BY <1>1, <1>2, <1>3

LEMMA RestOfConcat ==
  ASSUME NEW s \in Strings, NEW p \in Strings, NEW c \in 0 .. Len(s)
  PROVE  SubSeq(s \o p, c + 1, Len(s \o p)) = SubSeq(s, c + 1, Len(s)) \o p
<1> DEFINE o == SubSeq(s, c + 1, Len(s))
           l == SubSeq(s \o p, c + 1, Len(s \o p))
<1>1. /\ s \o p \in Strings /\ Len(s \o p) = Len(s) + Len(p)
      /\ Len(s) \in Nat /\ Len(p) \in Nat
  BY ConcatProperties, LenProperties DEF Strings
<1>2. \A i \in 1 .. Len(s) + Len(p) :
        (s \o p)[i] = IF i <= Len(s) THEN s[i] ELSE p[i - Len(s)]
  BY ConcatProperties DEF Strings
<1>3. /\ o \in Seq(Bytes) /\ Len(o) = Len(s) - c
      /\ \A i \in 1 .. Len(s) - c : o[i] = s[c + i]
  <2>1. \A i \in c + 1 .. Len(s) : s[i] \in Bytes
    BY <1>1, ElementOfSeq DEF Strings
  <2> QED
    BY <1>1, <2>1, SubSeqProperties
<1>4. /\ l \in Seq(Bytes) /\ Len(l) = Len(s) + Len(p) - c
      /\ \A i \in 1 .. Len(s) + Len(p) - c : l[i] = (s \o p)[c + i]
  <2>1. \A i \in c + 1 .. Len(s \o p) : (s \o p)[i] \in Bytes
    BY <1>1, ElementOfSeq DEF Strings
  <2> QED
    BY <1>1, <2>1, SubSeqProperties
<1> HIDE DEF o, l
<1>5. /\ o \o p \in Seq(Bytes) /\ Len(o \o p) = Len(o) + Len(p)
      /\ \A i \in 1 .. Len(o) + Len(p) :
           (o \o p)[i] = IF i <= Len(o) THEN o[i] ELSE p[i - Len(o)]
  BY <1>3, ConcatProperties DEF Strings
<1>6. Len(o \o p) = Len(l) /\ Len(l) = Len(s) - c + Len(p)
  BY <1>1, <1>3, <1>4, <1>5
<1>7. ASSUME NEW i \in 1 .. Len(l) PROVE l[i] = (o \o p)[i]
  <2>1. i \in 1 .. Len(s) + Len(p) - c /\ c + i \in 1 .. Len(s) + Len(p)
    BY <1>1, <1>6
  <2>2. l[i] = IF c + i <= Len(s) THEN s[c + i] ELSE p[c + i - Len(s)]
    BY <1>2, <1>4, <2>1
  <2>3. i \in 1 .. Len(o) + Len(p)
    BY <1>5, <1>6, <1>1, <1>3
  <2>4. (o \o p)[i] = IF i <= Len(o) THEN o[i] ELSE p[i - Len(o)]
    BY <1>5, <2>3
  <2>7. i \in Nat /\ Len(o) \in Nat
    BY <1>3, LenProperties
  <2>5. CASE i <= Len(o)
    <3>1. i \in 1 .. Len(s) - c /\ c + i <= Len(s)
      BY <1>1, <1>3, <2>1, <2>5
    <3> QED
      BY <1>3, <2>2, <2>4, <2>5, <3>1
  <2>6. CASE ~(i <= Len(o))
    <3>1. ~(c + i <= Len(s)) /\ ~(i <= Len(o)) /\ i - Len(o) = c + i - Len(s)
      BY <1>1, <1>3, <2>1, <2>6, <2>7
    <3> QED
      BY <2>2, <2>4, <3>1
  <2> QED
    BY <2>5, <2>6
<1>8. l = o \o p
  BY <1>4, <1>5, <1>6, <1>7, SeqEqual
<1> QED
  BY <1>8 DEF o, l

\* Bytes without a line feed at the end of the stream belong to the line that is open.
LEMMA CarriesMore ==
  ASSUME NEW s \in Strings, NEW o \in Strings, NEW p \in Strings, NEW g, NEW t,
         Carries(s, o, g, t), "lf" \notin Letters(p)
  PROVE  Carries(s \o p, o \o p, g, t)
<1>1. PICK k, cut, upto : Splits(s, o, g, t, k, cut, upto)
  BY DEF Carries
<1>2. /\ s \o p \in Strings /\ Len(s \o p) = Len(s) + Len(p)
      /\ Len(s) \in Nat /\ Len(p) \in Nat
  BY ConcatProperties, LenProperties DEF Strings
<1>3. /\ \A i \in 1 .. Len(s) : (s \o p)[i] = s[i]
      /\ \A i \in Len(s) + 1 .. Len(s) + Len(p) : (s \o p)[i] = p[i - Len(s)]
  BY <1>2, ConcatProperties DEF Strings
<1>4. \A i \in 1 .. Len(p) : p[i] # "lf"
  BY DEF Letters, Strings
<1>5. /\ k \in Nat /\ cut \in [0 .. k -> 0 .. Len(s)]
      /\ \A j \in 0 .. k : cut[j] \in 0 .. Len(s)
  BY <1>1 DEF Splits, Cuts
<1>6. Cuts(s \o p, k, cut)
  <2>1. 0 .. Len(s) \subseteq 0 .. Len(s \o p)
    BY <1>2
  <2>2. cut \in [0 .. k -> 0 .. Len(s \o p)]
    BY <1>5, <2>1
  <2>3. ASSUME NEW i \in 1 .. Len(s \o p)
        PROVE  (s \o p)[i] = "lf" <=> \E j \in 1 .. k : cut[j] = i
    <3>1. CASE i <= Len(s)
      BY <1>1, <1>2, <1>3, <3>1 DEF Splits, Cuts
    <3>2. CASE i > Len(s)
      <4>1. (s \o p)[i] # "lf"
        BY <1>2, <1>3, <1>4, <3>2
      <4>2. \A j \in 1 .. k : cut[j] # i
        BY <1>2, <1>5, <3>2
      <4> QED
        BY <4>1, <4>2
    <3> QED
      BY <1>2, <3>1, <3>2
  <2> QED
    BY <1>1, <2>2, <2>3 DEF Splits, Cuts
<1>7. ASSUME NEW j \in 1 .. k PROVE RawLine(s \o p, cut, j) = RawLine(s, cut, j)
  <2>1. j \in 0 .. k /\ j - 1 \in 0 .. k
    BY <1>5
  <2>2. cut[j - 1] \in 0 .. Len(s) /\ cut[j] \in 0 .. Len(s)
    BY <1>5, <2>1
  <2>3. cut[j - 1] < cut[j]
    BY <1>1, <2>1 DEF Splits, Cuts
  <2>4. cut[j - 1] + 1 \in Nat \ {0} /\ cut[j] - 1 \in 0 .. Len(s)
    <3>1. Len(s) \in Nat
      BY <1>2
    <3> QED
      BY <2>2, <2>3, <3>1
  <2>5. SubSeq(s \o p, cut[j - 1] + 1, cut[j] - 1)
          = SubSeq(s, cut[j - 1] + 1, cut[j] - 1)
    BY <2>4, SliceOfConcat
  <2> QED
    BY <2>5 DEF RawLine
<1>8. Counts(s \o p, t, k, cut, upto)
  BY <1>1, <1>7 DEF Counts, Splits
<1>9. SubSeq(s \o p, cut[k] + 1, Len(s \o p)) = o \o p
  <2>1. cut[k] \in 0 .. Len(s)
    BY <1>5
  <2>2. SubSeq(s, cut[k] + 1, Len(s)) = o
    BY <1>1 DEF Splits
  <2> QED
    BY <2>1, <2>2, RestOfConcat
<1> QED
  BY <1>1, <1>6, <1>8, <1>9 DEF Carries, Splits

\* Another line that is sent changes nothing about those handed over.
LEMMA PrefixKept ==
  ASSUME NEW g \in Lines, NEW t \in Lines, NEW x \in Strings, IsPrefixOf(g, t)
  PROVE  IsPrefixOf(g, Ended(t, x))
<1>1. CASE x = <<>>
  BY <1>1 DEF Ended
<1>2. CASE x # <<>>
  <2>1. /\ Len(Append(t, x)) = Len(t) + 1 /\ Len(t) \in Nat /\ Len(g) \in Nat
        /\ \A i \in 1 .. Len(t) : Append(t, x)[i] = t[i]
    BY AppendProperties, LenProperties DEF Lines
  <2>2. Ended(t, x) = Append(t, x)
    BY <1>2 DEF Ended
  <2> QED
    BY <2>1, <2>2 DEF IsPrefixOf
<1> QED
  BY <1>1, <1>2

\* A line feed ends the open line, ...
LEMMA CarriesLine ==
  ASSUME NEW s \in Strings, NEW o \in Strings, NEW g \in Lines, NEW t \in Lines,
         Carries(s, o, g, t)
  PROVE  Carries(Append(s, "lf"), <<>>, g, Ended(t, Clean(o)))
<1> DEFINE z == Append(s, "lf")
           u == Ended(t, Clean(o))
<1>1. PICK k, cut, upto : Splits(s, o, g, t, k, cut, upto)
  BY DEF Carries
<1> DEFINE m == k + 1
           ncut == [j \in 0 .. m |-> IF j = m THEN Len(s) + 1 ELSE cut[j]]
           nupto == [j \in 0 .. m |-> IF j = m THEN Len(u) ELSE upto[j]]
<1>2. /\ Len(s) \in Nat /\ z \in Strings /\ Len(z) = Len(s) + 1
      /\ \A i \in 1 .. Len(s) : z[i] = s[i]
      /\ z[Len(s) + 1] = "lf"
  <2>1. "lf" \in Bytes
    BY DEF Bytes
  <2> QED
    BY <2>1, LenProperties, AppendProperties DEF Strings
<1>line. z = s \o <<"lf">> /\ <<"lf">> \in Strings
  <2>1. "lf" \in Bytes
    BY DEF Bytes
  <2> QED
    BY <2>1, AppendIsConcat DEF Strings
<1>3. /\ k \in Nat /\ cut \in [0 .. k -> 0 .. Len(s)] /\ cut[0] = 0
      /\ \A j \in 0 .. k : cut[j] \in 0 .. Len(s)
  BY <1>1 DEF Splits, Cuts
<1>4. /\ \A i, j \in 0 .. k : i < j => cut[i] < cut[j]
      /\ \A i \in 1 .. Len(s) : s[i] = "lf" <=> \E j \in 1 .. k : cut[j] = i
  BY <1>1 DEF Splits, Cuts
<1>5. /\ m \in Nat /\ ncut[m] = Len(s) + 1 /\ nupto[m] = Len(u)
      /\ \A j \in 0 .. k : ncut[j] = cut[j] /\ nupto[j] = upto[j]
      /\ \A j \in 0 .. m : j \in 0 .. k \/ j = m
      /\ DOMAIN ncut = 0 .. m /\ DOMAIN nupto = 0 .. m
  BY <1>3
<1>6. /\ upto \in [0 .. k -> 0 .. Len(t)] /\ upto[k] = Len(t) /\ upto[0] = Len(g)
      /\ \A j \in 0 .. k : upto[j] \in 0 .. Len(t)
  BY <1>1 DEF Splits, Counts
<1>7. /\ Len(t) \in Nat /\ Len(u) \in Nat /\ Len(t) <= Len(u)
      /\ \A i \in 1 .. Len(t) : u[i] = t[i]
      /\ Clean(o) = <<>> => Len(u) = Len(t)
      /\ Clean(o) # <<>> => Len(u) = Len(t) + 1 /\ u[Len(u)] = Clean(o)
  BY CleanIsString, AppendProperties, LenProperties DEF Lines, Ended
<1>8. ncut \in [0 .. m -> 0 .. Len(z)]
  BY <1>2, <1>3, <1>5
<1>9. nupto \in [0 .. m -> 0 .. Len(u)]
  BY <1>5, <1>6, <1>7
<1>10. nupto[0] = Len(g) /\ ncut[0] = 0
  BY <1>3, <1>5, <1>6
<1> HIDE DEF m, ncut, nupto, u, z
<1>11. Cuts(z, m, ncut)
  <2>1. ASSUME NEW i \in 0 .. m, NEW j \in 0 .. m, i < j PROVE ncut[i] < ncut[j]
    <3>1. i \in 0 .. k
      BY <1>3, <1>5, <2>1 DEF m
    <3>2. CASE j = m
      BY <1>2, <1>3, <1>5, <3>1, <3>2
    <3>3. CASE j \in 0 .. k
      BY <1>4, <1>5, <2>1, <3>1, <3>3
    <3> QED
      BY <1>5, <3>2, <3>3
  <2>2. ASSUME NEW i \in 1 .. Len(z)
        PROVE  z[i] = "lf" <=> \E j \in 1 .. m : ncut[j] = i
    <3>1. CASE i = Len(s) + 1
      <4>1. m \in 1 .. m
        BY <1>3 DEF m
      <4>2. ncut[m] = i /\ z[i] = "lf"
        BY <1>2, <1>5, <3>1
      <4> QED
        BY <4>1, <4>2
    <3>2. CASE i \in 1 .. Len(s)
      <4>1. ASSUME NEW j \in 1 .. m, ncut[j] = i
            PROVE  j \in 1 .. k /\ cut[j] = i
        <5>1. j # m
          BY <1>2, <1>5, <3>2, <4>1
        <5>2. j \in 1 .. k /\ j \in 0 .. k
          BY <1>3, <5>1 DEF m
        <5> QED
          BY <1>5, <4>1, <5>2
      <4>2. \A j \in 1 .. k : j \in 1 .. m /\ ncut[j] = cut[j]
        BY <1>3, <1>5 DEF m
      <4> QED
        BY <1>2, <1>4, <3>2, <4>1, <4>2
    <3> QED
      BY <1>2, <3>1, <3>2
  <2> QED
    BY <1>5, <1>8, <1>10, <2>1, <2>2 DEF Cuts
<1>12. ASSUME NEW j \in 1 .. k PROVE RawLine(z, ncut, j) = RawLine(s, cut, j)
  <2>1. j \in 0 .. k /\ j - 1 \in 0 .. k
    BY <1>3
  <2>2. cut[j - 1] \in 0 .. Len(s) /\ cut[j] \in 0 .. Len(s)
    BY <1>3, <2>1
  <2>3. cut[j - 1] < cut[j]
    BY <1>4, <2>1
  <2>4. cut[j - 1] + 1 \in Nat \ {0} /\ cut[j] - 1 \in 0 .. Len(s)
    <3>1. Len(s) \in Nat
      BY <1>2
    <3> QED
      BY <2>2, <2>3, <3>1
  <2>5. RawLine(z, ncut, j) = SubSeq(z, cut[j - 1] + 1, cut[j] - 1)
    BY <1>5, <2>1 DEF RawLine
  <2>6. SubSeq(z, cut[j - 1] + 1, cut[j] - 1) = SubSeq(s, cut[j - 1] + 1, cut[j] - 1)
    BY <1>line, <2>4, SliceOfConcat
  <2> QED
    BY <2>5, <2>6 DEF RawLine
<1>13. RawLine(z, ncut, m) = o
  <2>1. ncut[m - 1] = cut[k] /\ cut[k] \in 0 .. Len(s) /\ ncut[m] - 1 = Len(s)
    BY <1>2, <1>3, <1>5 DEF m
  <2>2. RawLine(z, ncut, m) = SubSeq(z, cut[k] + 1, Len(s))
    BY <2>1 DEF RawLine
  <2>3. SubSeq(z, cut[k] + 1, Len(s)) = SubSeq(s, cut[k] + 1, Len(s))
    <3>1. cut[k] + 1 \in Nat \ {0} /\ Len(s) \in 0 .. Len(s)
      BY <1>2, <2>1
    <3> QED
      BY <1>line, <3>1, SliceOfConcat
  <2> QED
    BY <1>1, <2>2, <2>3 DEF Splits
<1>14. Counts(z, u, m, ncut, nupto)
  <2>1. ASSUME NEW j \in 1 .. m
        PROVE  LET line == Clean(RawLine(z, ncut, j)) IN
               IF line = <<>> THEN nupto[j] = nupto[j - 1]
               ELSE nupto[j] = nupto[j - 1] + 1 /\ u[nupto[j]] = line
    <3>1. CASE j \in 1 .. k
      <4>1. j \in 0 .. k /\ j - 1 \in 0 .. k
        BY <1>3, <3>1
      <4>2. nupto[j] = upto[j] /\ nupto[j - 1] = upto[j - 1]
        BY <1>5, <4>1
      <4>3. upto[j] \in 0 .. Len(t) /\ upto[j - 1] \in 0 .. Len(t)
        BY <1>6, <4>1
      <4>4. upto[j] = upto[j - 1] + 1 => u[upto[j]] = t[upto[j]]
        BY <1>7, <4>3
      <4>5. LET line == Clean(RawLine(s, cut, j)) IN
            IF line = <<>> THEN upto[j] = upto[j - 1]
            ELSE upto[j] = upto[j - 1] + 1 /\ t[upto[j]] = line
        BY <1>1, <3>1 DEF Splits, Counts
      <4> QED
        BY <1>12, <3>1, <4>2, <4>4, <4>5
    <3>2. CASE j = m
      <4>1. nupto[j] = Len(u) /\ nupto[j - 1] = Len(t)
        BY <1>3, <1>5, <1>6, <3>2 DEF m
      <4> QED
        BY <1>7, <1>13, <3>2, <4>1
    <3> QED
      BY <1>3, <3>1, <3>2 DEF m
  <2> QED
    BY <1>5, <1>9, <2>1 DEF Counts
<1>15. SubSeq(z, ncut[m] + 1, Len(z)) = <<>>
  BY <1>2, <1>5, SubSeqEmpty
<1>16. IsPrefixOf(g, u)
  BY CleanIsString, PrefixKept DEF Carries, u
<1> QED
  BY <1>10, <1>11, <1>14, <1>15, <1>16 DEF Carries, Splits, u, z

LEMMA SliceOfSuffix ==
  ASSUME NEW a \in Strings, NEW r \in Strings,
         NEW m \in Len(a) + 1 .. Len(a) + Len(r) + 1,
         NEW n \in Len(a) .. Len(a) + Len(r)
  PROVE  SubSeq(a \o r, m, n) = SubSeq(r, m - Len(a), n - Len(a))
<1>1. Len(a) \in Nat /\ Len(r) \in Nat
  BY LenProperties DEF Strings
<1>2. CASE m <= n
  <2>1. m \in Len(a) + 1 .. Len(a) + Len(r) /\ n \in Len(a) + 1 .. Len(a) + Len(r)
    BY <1>1, <1>2
  <2> QED
    BY <2>1, SubSeqOfConcat2 DEF Strings
<1>3. CASE ~(m <= n)
  <2>1. n < m /\ n - Len(a) < m - Len(a) /\ m - Len(a) \in Int /\ n - Len(a) \in Int
    BY <1>1, <1>3
  <2> QED
    BY <2>1, SubSeqEmpty
<1> QED
  BY <1>2, <1>3

\* ... and the first line of the stream is the next of those that are sent.
LEMMA CarriesTaken ==
  ASSUME NEW b \in Strings, NEW r \in Strings, NEW o \in Strings,
         NEW g \in Lines, NEW t \in Lines, "lf" \notin Letters(b),
         Carries(Append(b, "lf") \o r, o, g, t)
  PROVE  /\ Carries(r, o, Ended(g, Clean(b)), t)
         /\ Clean(b) # <<>> => Len(g) < Len(t) /\ t[Len(g) + 1] = Clean(b)
<1> DEFINE a == Append(b, "lf")
           s == a \o r
           w == Ended(g, Clean(b))
<1>1. PICK k, cut, upto : Splits(s, o, g, t, k, cut, upto)
  BY DEF Carries
<1>2. /\ a \in Strings /\ Len(b) \in Nat /\ Len(a) = Len(b) + 1
      /\ \A i \in 1 .. Len(b) : a[i] = b[i] /\ b[i] # "lf"
      /\ a[Len(a)] = "lf"
  <2>1. "lf" \in Bytes
    BY DEF Bytes
  <2>2. \A i \in 1 .. Len(b) : b[i] # "lf"
    BY DEF Letters, Strings
  <2> QED
    BY <2>1, <2>2, LenProperties, AppendProperties DEF Strings
<1>3. /\ s \in Strings /\ Len(r) \in Nat /\ Len(s) = Len(a) + Len(r)
      /\ \A i \in 1 .. Len(a) : s[i] = a[i]
      /\ \A i \in 1 .. Len(r) : s[Len(a) + i] = r[i]
  BY <1>2, ConcatProperties, LenProperties DEF Strings
<1>len. Len(a) \in Nat /\ Len(r) \in Nat /\ Len(s) = Len(a) + Len(r)
  BY <1>2, <1>3
<1>4. /\ k \in Nat /\ cut \in [0 .. k -> 0 .. Len(s)] /\ cut[0] = 0
      /\ \A j \in 0 .. k : cut[j] \in 0 .. Len(s)
  BY <1>1 DEF Splits, Cuts
<1>5. /\ \A i, j \in 0 .. k : i < j => cut[i] < cut[j]
      /\ \A i \in 1 .. Len(s) : s[i] = "lf" <=> \E j \in 1 .. k : cut[j] = i
  BY <1>1 DEF Splits, Cuts
<1>6. /\ upto \in [0 .. k -> 0 .. Len(t)] /\ upto[k] = Len(t) /\ upto[0] = Len(g)
      /\ \A j \in 0 .. k : upto[j] \in 0 .. Len(t)
  BY <1>1 DEF Splits, Counts
<1>7. \A j \in 1 .. k : LET line == Clean(RawLine(s, cut, j)) IN
        IF line = <<>> THEN upto[j] = upto[j - 1]
        ELSE upto[j] = upto[j - 1] + 1 /\ t[upto[j]] = line
  BY <1>1 DEF Splits, Counts
<1>8. Len(g) \in Nat /\ Len(t) \in Nat /\ Clean(b) \in Strings
  BY CleanIsString, LenProperties DEF Lines
<1>9. SubSeq(s, cut[k] + 1, Len(s)) = o
  BY <1>1 DEF Splits
<1>10. IsPrefixOf(g, t)
  BY DEF Carries
<1>11. s = b \o (<<"lf">> \o r) /\ <<"lf">> \o r \in Strings
  <2>1. "lf" \in Bytes /\ <<"lf">> \in Strings
    BY DEF Bytes, Strings
  <2>2. a = b \o <<"lf">>
    BY <2>1, AppendIsConcat DEF Strings
  <2> QED
    BY <2>1, <2>2, ConcatAssociative, ConcatProperties DEF Strings
<1> HIDE DEF a, s
<1>12. k >= 1 /\ cut[1] = Len(a)
  <2>1. Len(a) \in 1 .. Len(s) /\ s[Len(a)] = "lf"
    BY <1>2, <1>3
  <2>2. PICK j \in 1 .. k : cut[j] = Len(a)
    BY <1>5, <2>1
  <2>3. k >= 1 /\ 0 \in 0 .. k /\ 1 \in 0 .. k /\ 1 \in 1 .. k /\ j \in 0 .. k
    BY <1>4, <2>2
  <2>4. cut[0] < cut[1] /\ cut[1] \in 0 .. Len(s)
    BY <1>4, <1>5, <2>3
  <2>5. cut[1] \in 1 .. Len(s) /\ s[cut[1]] = "lf"
    BY <1>3, <1>4, <1>5, <2>3, <2>4
  <2>6. CASE j > 1
    <3>1. cut[1] < Len(a)
      BY <1>5, <2>2, <2>3, <2>6
    <3>2. cut[1] \in 1 .. Len(b)
      BY <1>2, <2>5, <3>1
    <3>3. s[cut[1]] = b[cut[1]] /\ b[cut[1]] # "lf"
      BY <1>2, <1>3, <3>2
    <3> QED
      BY <2>5, <3>3
  <2>7. CASE j = 1
    BY <2>2, <2>3, <2>7
  <2> QED
    BY <2>6, <2>7
<1> DEFINE m == k - 1
           ncut == [j \in 0 .. m |-> cut[j + 1] - Len(a)]
           nupto == [j \in 0 .. m |-> upto[j + 1]]
<1>13. /\ m \in Nat /\ k = m + 1
       /\ \A j \in 0 .. m : /\ ncut[j] = cut[j + 1] - Len(a) /\ nupto[j] = upto[j + 1]
                            /\ j + 1 \in 0 .. k
  BY <1>4, <1>12
<1>14. \A j \in 0 .. m : cut[j + 1] >= Len(a)
  <2>1. ASSUME NEW j \in 0 .. m PROVE cut[j + 1] >= Len(a)
    <3>1. CASE j = 0
      BY <1>2, <1>12, <3>1
    <3>2. CASE j # 0
      <4>1. 1 \in 0 .. k /\ j + 1 \in 0 .. k /\ 1 < j + 1
        BY <1>13, <3>2
      <4>2. cut[1] < cut[j + 1] /\ cut[j + 1] \in 0 .. Len(s)
        BY <1>4, <1>5, <4>1
      <4> QED
        BY <1>2, <1>12, <4>2
    <3> QED
      BY <3>1, <3>2
  <2> QED
    BY <2>1
<1>15. ncut \in [0 .. m -> 0 .. Len(r)]
  <2>1. ASSUME NEW j \in 0 .. m PROVE cut[j + 1] - Len(a) \in 0 .. Len(r)
    <3>1. cut[j + 1] \in 0 .. Len(s) /\ cut[j + 1] >= Len(a)
      BY <1>4, <1>13, <1>14
    <3> QED
      BY <1>2, <1>3, <3>1
  <2> QED
    BY <2>1
<1>16. nupto \in [0 .. m -> 0 .. Len(t)]
  BY <1>6, <1>13
<1> HIDE DEF m, ncut, nupto
<1>17. ncut[0] = 0 /\ nupto[0] = upto[1] /\ nupto[m] = Len(t)
  BY <1>2, <1>6, <1>12, <1>13
<1>18. Cuts(r, m, ncut)
  <2>1. ASSUME NEW i \in 0 .. m, NEW j \in 0 .. m, i < j PROVE ncut[i] < ncut[j]
    <3>1. i + 1 \in 0 .. k /\ j + 1 \in 0 .. k /\ i + 1 < j + 1
      BY <1>13, <2>1
    <3>2. cut[i + 1] < cut[j + 1] /\ cut[i + 1] \in Nat /\ cut[j + 1] \in Nat
      BY <1>4, <1>5, <3>1
    <3>3. ncut[i] = cut[i + 1] - Len(a) /\ ncut[j] = cut[j + 1] - Len(a)
      BY <1>13
    <3> QED
      BY <1>len, <3>2, <3>3
  <2>2. ASSUME NEW i \in 1 .. Len(r)
        PROVE  r[i] = "lf" <=> \E j \in 1 .. m : ncut[j] = i
    <3>1. Len(a) + i \in 1 .. Len(s) /\ r[i] = s[Len(a) + i]
      BY <1>2, <1>3
    <3>2. r[i] = "lf" <=> \E j \in 1 .. k : cut[j] = Len(a) + i
      BY <1>5, <3>1
    <3>3. ASSUME NEW j \in 1 .. k, cut[j] = Len(a) + i
          PROVE  j - 1 \in 1 .. m /\ ncut[j - 1] = i
      <4>1. j # 1
        BY <1>2, <1>12, <3>3
      <4>2. j - 1 \in 1 .. m /\ j - 1 \in 0 .. m /\ (j - 1) + 1 = j
        BY <1>13, <4>1
      <4>3. ncut[j - 1] = cut[j] - Len(a)
        BY <1>13, <4>2
      <4> QED
        BY <1>2, <3>3, <4>2, <4>3
    <3>4. ASSUME NEW j \in 1 .. m, ncut[j] = i
          PROVE  j + 1 \in 1 .. k /\ cut[j + 1] = Len(a) + i
      <4>1. j \in 0 .. m /\ j + 1 \in 1 .. k /\ j + 1 \in 0 .. k
        BY <1>13
      <4>2. cut[j + 1] \in Nat
        BY <1>4, <4>1
      <4>3. ncut[j] = cut[j + 1] - Len(a)
        BY <1>13, <4>1
      <4> QED
        BY <1>len, <3>4, <4>1, <4>2, <4>3
    <3> QED
      BY <3>2, <3>3, <3>4
  <2> QED
    BY <1>13, <1>15, <1>17, <2>1, <2>2 DEF Cuts
<1>19. ASSUME NEW j \in 1 .. m
      PROVE  RawLine(r, ncut, j) = RawLine(s, cut, j + 1)
  <2>1. j \in 0 .. m /\ j - 1 \in 0 .. m /\ (j - 1) + 1 = j
    BY <1>13
  <2>2. ncut[j] = cut[j + 1] - Len(a) /\ ncut[j - 1] = cut[j] - Len(a)
    BY <1>13, <2>1
  <2>3. /\ cut[j + 1] \in 0 .. Len(s) /\ cut[j] \in 0 .. Len(s)
        /\ cut[j] >= Len(a) /\ cut[j] < cut[j + 1]
    <3>1. j \in 0 .. k /\ j + 1 \in 0 .. k /\ j < j + 1
      BY <1>13, <2>1
    <3>2. cut[j] >= Len(a)
      BY <1>14, <2>1
    <3> QED
      BY <1>4, <1>5, <3>1, <3>2
  <2> DEFINE from == cut[j] + 1
             to == cut[j + 1] - 1
  <2>4. /\ from \in Len(a) + 1 .. Len(a) + Len(r) + 1
        /\ to \in Len(a) .. Len(a) + Len(r)
        /\ from - Len(a) = ncut[j - 1] + 1 /\ to - Len(a) = ncut[j] - 1
    <3> DEFINE p == Len(a)
               l == Len(r)
               x == cut[j]
               y == cut[j + 1]
    <3>1. /\ p \in Nat /\ l \in Nat /\ x \in Nat /\ y \in Nat
          /\ x < y /\ p <= x /\ y <= p + l
      BY <1>len, <2>3
    <3> HIDE DEF p, l, x, y
    <3>2. /\ x + 1 \in p + 1 .. p + l + 1 /\ y - 1 \in p .. p + l
          /\ (x + 1) - p = (x - p) + 1 /\ (y - 1) - p = (y - p) - 1
      BY <3>1, Shifted
    <3> QED
      BY <2>2, <3>2 DEF p, l, x, y
  <2>5. RawLine(s, cut, j + 1) = SubSeq(s, from, to)
    <3>1. (j + 1) - 1 = j
      BY <1>13
    <3> QED
      BY <3>1 DEF RawLine
  <2> HIDE DEF from, to
  <2>6. SubSeq(s, from, to) = SubSeq(r, from - Len(a), to - Len(a))
    BY <1>2, <2>4, SliceOfSuffix DEF s
  <2> QED
    BY <2>4, <2>5, <2>6 DEF RawLine
<1>20. Counts(r, t, m, ncut, nupto)
  <2>1. ASSUME NEW j \in 1 .. m
        PROVE  LET line == Clean(RawLine(r, ncut, j)) IN
               IF line = <<>> THEN nupto[j] = nupto[j - 1]
               ELSE nupto[j] = nupto[j - 1] + 1 /\ t[nupto[j]] = line
    <3>1. /\ j \in 0 .. m /\ j - 1 \in 0 .. m /\ j + 1 \in 1 .. k
          /\ (j - 1) + 1 = j /\ (j + 1) - 1 = j
      BY <1>13
    <3>2. nupto[j] = upto[j + 1] /\ nupto[j - 1] = upto[j]
      BY <1>13, <3>1
    <3> QED
      BY <1>7, <1>19, <3>1, <3>2
  <2> QED
    BY <1>16, <1>17, <2>1 DEF Counts
<1>21. SubSeq(r, ncut[m] + 1, Len(r)) = o
  <2>1. m \in 0 .. m /\ ncut[m] = cut[k] - Len(a)
    BY <1>13
  <2>2. cut[k] \in 0 .. Len(s) /\ cut[k] >= Len(a)
    BY <1>4, <1>13, <1>14, <2>1
  <2> DEFINE from == cut[k] + 1
  <2>3. /\ from \in Len(a) + 1 .. Len(a) + Len(r) + 1 /\ from - Len(a) = ncut[m] + 1
        /\ Len(s) \in Len(a) .. Len(a) + Len(r) /\ Len(s) - Len(a) = Len(r)
    BY <1>len, <2>1, <2>2
  <2>4. SubSeq(s, from, Len(s)) = o
    BY <1>9
  <2> HIDE DEF from
  <2>5. SubSeq(s, from, Len(s)) = SubSeq(r, from - Len(a), Len(s) - Len(a))
    BY <1>2, <2>3, SliceOfSuffix DEF s
  <2> QED
    BY <2>3, <2>4, <2>5
<1>22. RawLine(s, cut, 1) = b
  <2>1. cut[1 - 1] + 1 = 1 /\ cut[1] - 1 = Len(b)
    BY <1>2, <1>4, <1>12
  <2>2. RawLine(s, cut, 1) = SubSeq(s, 1, Len(b))
    BY <2>1 DEF RawLine
  <2>3. SubSeq(s, 1, Len(b)) = SubSeq(b, 1, Len(b))
    BY <1>2, <1>11, SliceOfConcat
  <2> QED
    BY <2>2, <2>3, SubSeqFull DEF Strings
<1>23. /\ upto[1] \in 0 .. Len(t)
       /\ IF Clean(b) = <<>> THEN upto[1] = Len(g)
          ELSE upto[1] = Len(g) + 1 /\ t[upto[1]] = Clean(b)
  <2>1. 1 \in 1 .. k /\ 1 \in 0 .. k /\ 1 - 1 = 0
    BY <1>4, <1>12
  <2> QED
    BY <1>6, <1>7, <1>22, <2>1
<1>24. Clean(b) # <<>> => Len(g) < Len(t) /\ t[Len(g) + 1] = Clean(b)
  BY <1>8, <1>23
<1>25. Len(w) = upto[1] /\ IsPrefixOf(w, t)
  <2>1. CASE Clean(b) = <<>>
    BY <1>10, <1>23, <2>1 DEF Ended
  <2>2. CASE Clean(b) # <<>>
    <3>1. w = Append(g, Clean(b))
      BY <2>2 DEF Ended
    <3>2. /\ Len(w) = Len(g) + 1 /\ w[Len(g) + 1] = Clean(b)
          /\ \A i \in 1 .. Len(g) : w[i] = g[i]
      BY <1>8, <3>1, AppendProperties DEF Lines
    <3> HIDE DEF w
    <3> QED
      BY <1>8, <1>10, <1>23, <2>2, <3>2 DEF IsPrefixOf
  <2> QED
    BY <2>1, <2>2
<1>26. Carries(r, o, w, t)
  BY <1>17, <1>18, <1>20, <1>21, <1>25 DEF Carries, Splits
<1> QED
  BY <1>24, <1>26 DEF a, s

\* A stream without a line feed owes nothing.
LEMMA CarriedAll ==
  ASSUME NEW s \in Strings, NEW o, NEW g \in Lines, NEW t \in Lines,
         Carries(s, o, g, t), "lf" \notin Letters(s)
  PROVE  g = t
<1>1. PICK k, cut, upto : Splits(s, o, g, t, k, cut, upto)
  BY DEF Carries
<1>2. /\ k \in Nat /\ cut[0] = 0 /\ \A j \in 0 .. k : cut[j] \in 0 .. Len(s)
      /\ \A i, j \in 0 .. k : i < j => cut[i] < cut[j]
      /\ \A i \in 1 .. Len(s) : s[i] = "lf" <=> \E j \in 1 .. k : cut[j] = i
  BY <1>1 DEF Splits, Cuts
<1>3. \A i \in 1 .. Len(s) : s[i] # "lf"
  BY DEF Letters, Strings
<1>4. k = 0
  <2>1. SUFFICES ASSUME k # 0 PROVE FALSE
    OBVIOUS
  <2>2. 0 \in 0 .. k /\ 1 \in 0 .. k /\ 1 \in 1 .. k
    BY <1>2, <2>1
  <2>3. cut[1] \in 1 .. Len(s)
    BY <1>2, <2>2
  <2> QED
    BY <1>2, <1>3, <2>2, <2>3
<1>5. Len(g) = Len(t)
  BY <1>1, <1>4 DEF Splits, Counts
<1> QED
  BY <1>5, SeqEqual DEF Carries, IsPrefixOf, Lines

------------------------------------------------------------------------------
Types ==
  /\ running \in [Ends -> BOOLEAN] /\ closing \in [Ends -> BOOLEAN]
  /\ wake \in [Ends -> BOOLEAN]
  /\ fired \in [Ends -> BOOLEAN] /\ DOMAIN got = Ends
  /\ reader \in [Ends -> {"none", "check", "poll", "bytes", "end", "done"}]
  /\ closer \in [Ends -> {"idle", "wake", "join", "lock", "closed"}]

\* Past the join there is no read thread, and there will be none: start() comes
\* before close().
Joined ==
  \A e \in Ends :
    closer[e] \in {"lock", "closed"} => reader[e] \in {"none", "done"}

\* on_close is called by a read thread that is about to end, or by close() after
\* the join.
FiredIsOver ==
  \A e \in Ends :
    fired[e] => \/ reader[e] = "done"
                \/ reader[e] = "none" /\ closer[e] = "closed"

Inv == Types /\ Joined /\ FiredIsOver

LEMMA InitInv == Init => Inv
BY DEF Init, Inv, Types, Joined, FiredIsOver

\* A sending thread touches none of it.
LEMMA SenderStep ==
  ASSUME NEW e \in Ends, NEW f \in FramesOf(e),
         Enter(e, f) \/ SendStep(e, f) \/ WriteFails(e, f)
  PROVE  UNCHANGED <<flagVars, got, reader, closer>>
BY DEF Enter, SendStep, Lock, Write, Feed, WriteFails, flagVars, readerVars

\* A step of an end is one of its threads, and leaves the other end alone.
LEMMA InvStep ==
  ASSUME Inv, [Next]_vars
  PROVE  Inv'
<1> USE DEF Inv, Types, Joined, FiredIsOver, flagVars, readerVars, sendVars
<1>1. ASSUME NEW e \in Ends, Start(e) PROVE Inv'
  BY <1>1 DEF Start
<1>2. ASSUME NEW e \in Ends, ReaderStep(e) PROVE Inv'
  <2>1. CASE ReaderCheck(e)
    BY <2>1 DEF ReaderCheck
  <2>4. CASE PollWake(e)
    BY <2>4 DEF PollWake
  <2>5. CASE PollRead(e)
    BY <2>5 DEF PollRead
  <2>6. CASE PollHangUp(e)
    BY <2>6 DEF PollHangUp
  <2>2. CASE LineByte(e)
    BY <2>2 DEF LineByte, Consume
  <2>7. CASE PlainByte(e)
    BY <2>7 DEF PlainByte, Consume
  <2>3. CASE ExcessByte(e)
    BY <2>3 DEF ExcessByte
  <2>8. CASE ReaderEnd(e)
    BY <2>8 DEF ReaderEnd
  <2> QED
    BY <1>2, <2>1, <2>2, <2>3, <2>4, <2>5, <2>6, <2>7, <2>8
  DEF ReaderStep
<1>3. ASSUME NEW e \in Ends, PollFails(e) PROVE Inv'
  BY <1>3 DEF PollFails
<1>4. ASSUME NEW e \in Ends, CloseFlags(e) PROVE Inv'
  BY <1>4 DEF CloseFlags
<1>9. ASSUME NEW e \in Ends, CloseWake(e) PROVE Inv'
  BY <1>9 DEF CloseWake
<1>5. ASSUME NEW e \in Ends, CloseJoin(e) PROVE Inv'
  BY <1>5 DEF CloseJoin
<1>6. ASSUME NEW e \in Ends, CloseLock(e) PROVE Inv'
  BY <1>6 DEF CloseLock
<1>7. CASE UNCHANGED <<flagVars, got, reader, closer>>
  BY <1>7
<1>8. ASSUME NEW e \in Ends, Release(e) PROVE Inv'
  BY <1>7, <1>8 DEF Release
<1> QED
  BY <1>1, <1>2, <1>3, <1>4, <1>5, <1>6, <1>7, <1>8, <1>9, SenderStep
  DEF Next, CloserStep, vars

LEMMA Invariance == Spec => []Inv
BY InitInv, InvStep, PTL DEF Spec

\* Only a read thread in the middle of a chunk hands a line over, and by then
\* nobody has called on_close.
LEMMA HandedOverBefore ==
  ASSUME Inv, [Next]_vars, NEW e \in Ends, fired[e]
  PROVE  got'[e] = got[e]
<1> USE DEF Inv, Types, FiredIsOver, flagVars, readerVars, sendVars
<1>1. ASSUME NEW d \in Ends, LineByte(d) PROVE got'[e] = got[e]
  BY <1>1 DEF LineByte
<1>2. CASE UNCHANGED got
  BY <1>2
<1>3. ASSUME NEW d \in Ends, ReaderStep(d), ~LineByte(d) PROVE UNCHANGED got
  BY <1>3 DEF ReaderStep, ReaderCheck, PollWake, PollRead, PollHangUp,
    PlainByte,
    ExcessByte, ReaderEnd
<1>4. ASSUME NEW d \in Ends,
             \/ Start(d) \/ PollFails(d) \/ CloseFlags(d) \/ CloserStep(d)
             \/ Release(d)
      PROVE UNCHANGED got
  BY <1>4 DEF Start, PollFails, CloseFlags, CloserStep, CloseWake, CloseJoin,
    CloseLock, Release
<1> QED
  BY <1>1, <1>2, <1>3, <1>4, SenderStep DEF Next, vars

\* on_close is the last thing a transport does to its Session, whether the input
\* ends, a frame is too long, or close() comes first: no on_message follows it.
THEOREM CallbackIsLast == Spec => NothingAfterOnClose
<1>1. ASSUME Inv, [Next]_vars
      PROVE  [\A e \in Ends : fired[e] => got'[e] = got[e]]_vars
  BY <1>1, HandedOverBefore
<1> QED
  BY <1>1, Invariance, PTL DEF Spec, NothingAfterOnClose

------------------------------------------------------------------------------
Stream(c) == (buffer[Other(c)] \o chunk[Other(c)]) \o pipe[c]

\* What the frame that is being sent has put into the stream, ...
Begun(c) ==
  IF holder[c] = Nobody THEN <<>> ELSE SubSeq(text[holder[c]], 1, written[holder[c]])

\* ... after what was left of others: the line that is not complete.
Open(c) == part[c] \o Begun(c)

Data ==
  /\ text \in [Frames -> Strings] /\ written \in [Frames -> Nat]
  /\ call \in [Frames -> Entered \cup Over \cup {"new"}]
  /\ holder \in [Ends -> Frames \cup {Nobody}]
  /\ pipe \in [Ends -> Strings] /\ chunk \in [Ends -> Strings]
  /\ buffer \in [Ends -> Strings] /\ part \in [Ends -> Strings]
  /\ sent \in [Ends -> Lines] /\ got \in [Ends -> Lines]
  /\ reader \in [Ends -> {"none", "check", "poll", "bytes", "end", "done"}]
  /\ cause \in [Ends -> {"none", "eof", "other"}]
  /\ fds \in [Ends -> {"open", "released"}]

\* write_mutex_ is held by the frame that is being written, and by no other.
Sender(c) ==
  /\ holder[c] \in FramesOf(c) \cup {Nobody}
  /\ \A f \in FramesOf(c) :
       /\ call[f] \in {"write", "feed"} <=> holder[c] = f
       /\ "lf" \notin Letters(text[f]) /\ written[f] <= Len(text[f])
       /\ call[f] \in Entered => text[f] \in TextsOf(f)
       /\ call[f] = "feed" => written[f] = Len(text[f])
       /\ call[f] \notin {"write", "feed"} => written[f] = 0
       /\ fds[c] = "released" => call[f] \notin Entered

ReaderAt(c) ==
  /\ reader[c] = "bytes" => chunk[c] # <<>>
  /\ reader[c] \in {"none", "check", "poll", "end"} => chunk[c] = <<>>
  /\ cause[c] = "eof" =>
       /\ reader[c] \in {"end", "done"} /\ chunk[c] = <<>>
       /\ fds[Other(c)] = "released" /\ pipe[Other(c)] = <<>>

Sizes(c) ==
  Len(pipe[c]) <= Room /\ Len(chunk[c]) <= Chunk /\ Len(buffer[c]) <= MaxFrame

StreamAt(c) ==
  /\ "lf" \notin Letters(buffer[Other(c)])
  /\ Carries(Stream(c), Open(c), got[Other(c)], sent[c])

Flow ==
  Data /\ \A c \in Ends : Sender(c) /\ ReaderAt(c) /\ Sizes(c) /\ StreamAt(c)

LEMMA TwoEnds ==
  ASSUME NEW e \in Ends
  PROVE  /\ Other(e) \in Ends /\ Other(e) # e /\ Other(Other(e)) = e
         /\ \A c \in Ends : c = e \/ c = Other(e)
BY DEF Ends, Other

LEMMA OwnFrames ==
  ASSUME NEW e \in Ends, NEW f \in FramesOf(e)
  PROVE  f \in Frames /\ f # Nobody /\ f \notin FramesOf(Other(e))
BY FramesAssumption DEF Ends, Other, FramesOf, Frames, Nobody

\* send() is given strings of bytes.
LEMMA TextIsString ==
  ASSUME NEW f \in Frames, NEW x \in TextsOf(f)
  PROVE  x \in Strings
<1>1. f \in Bytes /\ "lf" \in Bytes /\ "cr" \in Bytes
  BY DEF Bytes
<1>2. ASSUME NEW n \in Lengths PROVE [i \in 1 .. n |-> f] \in Seq(Bytes)
  BY <1>1, BytesAssumption
<1>3. <<f, "cr">> \in Seq(Bytes) /\ <<f, "lf", f>> \in Seq(Bytes)
  BY <1>1
<1> QED
  BY <1>2, <1>3 DEF TextsOf, Strings

\* A slice of a frame holds no line feed either.
LEMMA Piece ==
  ASSUME NEW x \in Strings, NEW m \in Nat, NEW n \in Nat, m >= 1, n <= Len(x)
  PROVE  /\ SubSeq(x, m, n) \in Strings
         /\ "lf" \notin Letters(x) => "lf" \notin Letters(SubSeq(x, m, n))
         /\ Len(SubSeq(x, m, n)) = IF m <= n THEN n - m + 1 ELSE 0
<1>1. \A i \in m .. n : x[i] \in Bytes /\ i \in 1 .. Len(x)
  BY LenProperties, ElementOfSeq DEF Strings
<1>2. /\ SubSeq(x, m, n) \in Seq(Bytes)
      /\ Len(SubSeq(x, m, n)) = IF m <= n THEN n - m + 1 ELSE 0
      /\ \A i \in 1 .. n - m + 1 : SubSeq(x, m, n)[i] = x[m + i - 1]
  BY <1>1, SubSeqProperties
<1>3. ASSUME NEW i \in 1 .. Len(SubSeq(x, m, n))
      PROVE  \E j \in 1 .. Len(x) : SubSeq(x, m, n)[i] = x[j]
  <2>1. i \in 1 .. n - m + 1 /\ m + i - 1 \in m .. n
    BY <1>2
  <2> QED
    BY <1>1, <1>2, <2>1
<1> QED
  BY <1>2, <1>3 DEF Letters, Strings

LEMMA NextPiece ==
  ASSUME NEW x \in Strings, NEW w \in Nat, w <= Len(x), NEW n \in 1 .. Len(x) - w
  PROVE  /\ SubSeq(x, w + 1, w + n) \in Strings
         /\ Len(SubSeq(x, w + 1, w + n)) = n
         /\ "lf" \notin Letters(x) => "lf" \notin Letters(SubSeq(x, w + 1, w + n))
         /\ SubSeq(x, 1, w) \o SubSeq(x, w + 1, w + n) = SubSeq(x, 1, w + n)
<1>1. Len(x) \in Nat
  BY LenProperties DEF Strings
<1> DEFINE m == w + 1
           k == w + n
<1>2. /\ m \in Nat /\ k \in Nat /\ m >= 1 /\ k <= Len(x) /\ m <= k /\ k - m + 1 = n
      /\ w \in 1 - 1 .. Len(x) /\ k \in w .. Len(x) /\ 1 \in 1 .. Len(x) + 1
  BY <1>1
<1>3. SubSeq(x, 1, w) \o SubSeq(x, m, k) = SubSeq(x, 1, k)
  BY <1>2, ConcatAdjacentSubSeq DEF Strings
<1> HIDE DEF m, k
<1>4. /\ SubSeq(x, m, k) \in Strings /\ Len(SubSeq(x, m, k)) = n
      /\ "lf" \notin Letters(x) => "lf" \notin Letters(SubSeq(x, m, k))
  BY <1>2, Piece
<1> QED
  BY <1>3, <1>4 DEF m, k

\* Every step keeps the types; what the reader takes is never missing.
LEMMA DataStep == ASSUME Flow, [Next]_vars PROVE Data'
<1> USE DEF Flow, Data, sendVars, flagVars, readerVars
<1>1. ASSUME NEW e \in Ends, Start(e) \/ PollFails(e) \/ Release(e) PROVE Data'
  BY <1>1 DEF Start, PollFails, Release
<1>2. ASSUME NEW e \in Ends, CloseFlags(e) \/ CloserStep(e) PROVE Data'
  <2>1. UNCHANGED <<readerVars, fds, pipe, sendVars>>
    BY <1>2 DEF CloseFlags, CloserStep, CloseWake, CloseJoin, CloseLock
  <2> QED
    BY <2>1
<1>3. ASSUME NEW e \in Ends, ReaderCheck(e) \/ PollWake(e) PROVE Data'
  BY <1>3 DEF ReaderCheck, PollWake
<1>4. ASSUME NEW e \in Ends, PollHangUp(e) \/ ExcessByte(e) \/ ReaderEnd(e)
      PROVE  Data'
  <2>1. UNCHANGED <<chunk, buffer, got, fds, pipe, sendVars>>
    BY <1>4 DEF PollHangUp, ExcessByte, ReaderEnd
  <2>2. /\ reader' \in [Ends -> {"none", "check", "poll", "bytes", "end", "done"}]
        /\ cause' \in [Ends -> {"none", "eof", "other"}]
    BY <1>4 DEF PollHangUp, ExcessByte, ReaderEnd
  <2> QED
    BY <2>1, <2>2
<1>5. ASSUME NEW e \in Ends, PollRead(e) PROVE Data'
  <2>1. PICK n \in 1 .. Len(pipe[Other(e)]) :
          /\ chunk' = [chunk EXCEPT ![e] = SubSeq(pipe[Other(e)], 1, n)]
          /\ pipe' = [pipe EXCEPT ![Other(e)] =
                       SubSeq(pipe[Other(e)], n + 1, Len(pipe[Other(e)]))]
    BY <1>5 DEF PollRead
  <2>2. pipe[Other(e)] \in Strings /\ Len(pipe[Other(e)]) \in Nat
    BY TwoEnds, LenProperties DEF Strings
  <2>3. SubSeq(pipe[Other(e)], 1, n) \in Strings
    BY <2>2, Piece
  <2>4. SubSeq(pipe[Other(e)], n + 1, Len(pipe[Other(e)])) \in Strings
    BY <2>2, Piece
  <2>5. chunk' \in [Ends -> Strings] /\ pipe' \in [Ends -> Strings]
    BY <2>1, <2>3, <2>4
  <2> QED
    BY <1>5, <2>5 DEF PollRead
<1>6. ASSUME NEW e \in Ends, LineByte(e) PROVE Data'
  <2>1. chunk[e] # <<>> /\ chunk[e] \in Strings /\ buffer[e] \in Strings
    BY <1>6 DEF LineByte, ReaderAt
  <2>2. Tail(chunk[e]) \in Strings /\ <<>> \in Strings /\ Clean(buffer[e]) \in Strings
    BY <2>1, HeadTailProperties, CleanIsString, EmptySeq DEF Strings
  <2>3. Append(got[e], Clean(buffer[e])) \in Lines
    BY <2>2, AppendProperties DEF Lines
  <2>4. /\ chunk' \in [Ends -> Strings] /\ buffer' \in [Ends -> Strings]
        /\ got' \in [Ends -> Lines]
        /\ reader' \in [Ends -> {"none", "check", "poll", "bytes", "end", "done"}]
    BY <1>6, <2>2, <2>3 DEF LineByte, Consume
  <2> QED
    BY <1>6, <2>4 DEF LineByte
<1>7. ASSUME NEW e \in Ends, PlainByte(e) PROVE Data'
  <2>1. chunk[e] # <<>> /\ chunk[e] \in Strings /\ buffer[e] \in Strings
    BY <1>7 DEF PlainByte, ReaderAt
  <2>2. Tail(chunk[e]) \in Strings /\ Append(buffer[e], Head(chunk[e])) \in Strings
    BY <2>1, HeadTailProperties, AppendProperties DEF Strings
  <2>3. /\ chunk' \in [Ends -> Strings] /\ buffer' \in [Ends -> Strings]
        /\ reader' \in [Ends -> {"none", "check", "poll", "bytes", "end", "done"}]
    BY <1>7, <2>2 DEF PlainByte, Consume
  <2> QED
    BY <1>7, <2>3 DEF PlainByte
<1>8. ASSUME NEW e \in Ends, NEW f \in FramesOf(e), Enter(e, f) PROVE Data'
  BY <1>8, OwnFrames, TextIsString DEF Enter, Entered, Over
<1>9. ASSUME NEW e \in Ends, NEW f \in FramesOf(e), Lock(e, f) PROVE Data'
  BY <1>9, OwnFrames DEF Lock, Entered
<1>10. ASSUME NEW e \in Ends, NEW f \in FramesOf(e), Write(e, f) PROVE Data'
  <2>1. PICK n \in 1 .. Len(text[f]) - written[f] :
          /\ pipe' = [pipe EXCEPT ![e] =
                       @ \o SubSeq(text[f], written[f] + 1, written[f] + n)]
          /\ written' = [written EXCEPT ![f] = @ + n]
          /\ call' = [call EXCEPT ![f] =
                       IF written[f] + n = Len(text[f]) THEN "feed" ELSE "write"]
    BY <1>10 DEF Write
  <2>2. f \in Frames /\ text[f] \in Strings /\ written[f] \in Nat
    BY OwnFrames
  <2>3. SubSeq(text[f], written[f] + 1, written[f] + n) \in Strings
    <3>1. written[f] <= Len(text[f])
      BY DEF Sender
    <3> QED
      BY <2>2, <3>1, NextPiece
  <2>4. pipe[e] \o SubSeq(text[f], written[f] + 1, written[f] + n) \in Strings
    BY <2>3, ConcatProperties DEF Strings
  <2>5. pipe' \in [Ends -> Strings] /\ written' \in [Frames -> Nat]
    BY <2>1, <2>2, <2>4
  <2>6. call' \in [Frames -> Entered \cup Over \cup {"new"}]
    BY <2>1, <2>2 DEF Entered
  <2> QED
    BY <1>10, <2>5, <2>6 DEF Write
<1>11. ASSUME NEW e \in Ends, NEW f \in FramesOf(e), Feed(e, f) PROVE Data'
  <2>1. /\ f \in Frames /\ text[f] \in Strings
        /\ part[e] \in Strings /\ pipe[e] \in Strings
    BY OwnFrames
  <2>2. <<>> \in Strings /\ Append(pipe[e], "lf") \in Strings
    BY <2>1, EmptySeq, AppendProperties DEF Strings, Bytes
  <2>3. Append(sent[e], Clean(part[e] \o text[f])) \in Lines
    BY <2>1, CleanIsString, ConcatProperties, AppendProperties DEF Lines,
      Strings
  <2>4. /\ pipe' \in [Ends -> Strings] /\ sent' \in [Ends -> Lines]
        /\ part' \in [Ends -> Strings]
    BY <1>11, <2>2, <2>3 DEF Feed
  <2>5. /\ call' \in [Frames -> Entered \cup Over \cup {"new"}]
        /\ text' \in [Frames -> Strings] /\ written' \in [Frames -> Nat]
        /\ holder' \in [Ends -> Frames \cup {Nobody}]
    BY <1>11, <2>1, <2>2 DEF Feed, Return, Over
  <2> QED
    BY <1>11, <2>4, <2>5 DEF Feed
<1>12. ASSUME NEW e \in Ends, NEW f \in FramesOf(e), WriteFails(e, f)
      PROVE  Data'
  <2>1. /\ f \in Frames /\ text[f] \in Strings
        /\ part[e] \in Strings /\ written[f] \in Nat
    BY OwnFrames
  <2>2. <<>> \in Strings
    BY EmptySeq DEF Strings
  <2>3. SubSeq(text[f], 1, written[f]) \in Strings
    BY <2>1, Piece DEF Sender
  <2>4. part' \in [Ends -> Strings]
    BY <1>12, <2>1, <2>3, ConcatProperties DEF WriteFails, Strings
  <2>5. /\ call' \in [Frames -> Entered \cup Over \cup {"new"}]
        /\ text' \in [Frames -> Strings] /\ written' \in [Frames -> Nat]
        /\ holder' \in [Ends -> Frames \cup {Nobody}]
    BY <1>12, <2>1, <2>2 DEF WriteFails, Return, Over
  <2> QED
    BY <1>12, <2>4, <2>5 DEF WriteFails
<1>13. CASE UNCHANGED vars
  BY <1>13 DEF vars
<1> QED
  BY <1>1, <1>2, <1>3, <1>4, <1>5, <1>6, <1>7, <1>8, <1>9, <1>10, <1>11, <1>12,
    <1>13 DEF Next, ReaderStep, SendStep

\* A frame is in write() or behind it only with the mutex, ...
LEMMA SenderKept == ASSUME Flow, [Next]_vars, NEW c \in Ends PROVE Sender(c)'
<1> USE DEF Flow, Data
<1>0. ASSUME NEW e \in Ends, NEW f \in FramesOf(e), c # e
      PROVE  f \notin FramesOf(c) /\ f \in Frames
  BY <1>0, TwoEnds, OwnFrames
<1>1. CASE UNCHANGED <<holder, call, text, written, fds>>
  BY <1>1 DEF Sender
<1>8. ASSUME /\ holder'[c] = holder[c] /\ fds'[c] = fds[c]
             /\ \A h \in FramesOf(c) :
                  call'[h] = call[h] /\ text'[h] = text[h] /\ written'[h] = written[h]
      PROVE  Sender(c)'
  BY <1>8 DEF Sender
<1>2. ASSUME NEW e \in Ends,
             \/ Start(e) \/ PollFails(e) \/ CloseFlags(e) \/ CloserStep(e)
             \/ ReaderStep(e)
      PROVE  UNCHANGED <<holder, call, text, written, fds>>
  BY <1>2 DEF Start, PollFails, CloseFlags, CloserStep, CloseWake, CloseJoin,
    CloseLock, ReaderStep, ReaderCheck, PollWake, PollRead, PollHangUp, LineByte,
    PlainByte, ExcessByte, ReaderEnd, sendVars
<1>3. ASSUME NEW e \in Ends, Release(e) PROVE Sender(c)'
  BY <1>3 DEF Release, Sender, sendVars
<1>4. ASSUME NEW e \in Ends, NEW f \in FramesOf(e), Enter(e, f) PROVE Sender(c)'
  <2>1. CASE c = e
    <3>1. PICK x \in TextsOf(f) :
            IF running[e] /\ "lf" \notin Letters(x)
            THEN /\ text' = [text EXCEPT ![f] = x]
                 /\ call' = [call EXCEPT ![f] = "lock"]
            ELSE call' = [call EXCEPT ![f] = "refused"] /\ UNCHANGED text
      BY <1>4 DEF Enter
    <3>2. UNCHANGED <<holder, written, fds>> /\ call[f] = "new" /\ fds[e] = "open"
      BY <1>4 DEF Enter
    <3>3. Len(x) \in Nat /\ f \in Frames /\ written[f] = 0
      BY <2>1, <3>2, OwnFrames, TextIsString, LenProperties DEF Sender, Strings
    <3> QED
      BY <2>1, <3>1, <3>2, <3>3, OwnFrames DEF Sender, Entered
  <2>2. CASE c # e
    <3>1. UNCHANGED <<holder, written, fds>> /\ f \notin FramesOf(c)
      BY <1>0, <1>4, <2>2 DEF Enter
    <3>2. \A h \in FramesOf(c) : call'[h] = call[h] /\ text'[h] = text[h]
      BY <1>4, <3>1, OwnFrames DEF Enter
    <3> QED
      BY <1>8, <3>1, <3>2
  <2> QED
    BY <2>1, <2>2
<1>5. ASSUME NEW e \in Ends, NEW f \in FramesOf(e), Lock(e, f) PROVE Sender(c)'
  <2>1. CASE c = e
    <3>1. text[f] = <<>> => Len(text[f]) = 0
      OBVIOUS
    <3> QED
      BY <1>5, <2>1, <3>1, OwnFrames DEF Lock, Sender, Entered
  <2>2. CASE c # e
    <3>1. f \notin FramesOf(c) /\ holder'[c] = holder[c]
      BY <1>0, <1>5, <2>2 DEF Lock
    <3>2. \A h \in FramesOf(c) : call'[h] = call[h]
      BY <1>5, <3>1, OwnFrames DEF Lock
    <3> QED
      BY <1>5, <1>8, <3>1, <3>2 DEF Lock
  <2> QED
    BY <2>1, <2>2
<1>6. ASSUME NEW e \in Ends, NEW f \in FramesOf(e), Write(e, f) PROVE Sender(c)'
  <2>1. CASE c = e
    <3>1. PICK n \in 1 .. Len(text[f]) - written[f] :
            /\ written' = [written EXCEPT ![f] = @ + n]
            /\ call' = [call EXCEPT ![f] =
                         IF written[f] + n = Len(text[f]) THEN "feed" ELSE "write"]
      BY <1>6 DEF Write
    <3>2. UNCHANGED <<holder, text, fds>> /\ call[f] = "write"
      BY <1>6 DEF Write
    <3>3. f \in Frames /\ Len(text[f]) \in Nat /\ written[f] \in Nat
      BY OwnFrames, LenProperties DEF Strings
    <3>4. /\ written'[f] <= Len(text[f])
          /\ call'[f] = "feed" => written'[f] = Len(text[f])
          /\ call'[f] \in {"write", "feed"}
      BY <3>1, <3>3
    <3>5. \A h \in FramesOf(e) : h # f => call'[h] = call[h] /\ written'[h] = written[h]
      BY <3>1
    <3> QED
      BY <2>1, <3>2, <3>3, <3>4, <3>5 DEF Sender, Entered
  <2>2. CASE c # e
    <3>1. UNCHANGED <<holder, text, fds>> /\ f \notin FramesOf(c)
      BY <1>0, <1>6, <2>2 DEF Write
    <3>2. \A h \in FramesOf(c) : call'[h] = call[h] /\ written'[h] = written[h]
      BY <1>6, <3>1, OwnFrames DEF Write
    <3> QED
      BY <1>8, <3>1, <3>2
  <2> QED
    BY <2>1, <2>2
<1>7. ASSUME NEW e \in Ends, NEW f \in FramesOf(e), Feed(e, f) \/ WriteFails(e, f)
      PROVE  Sender(c)'
  <2>1. /\ call[f] \in {"write", "feed"} /\ UNCHANGED fds
        /\ Return(e, f, "ok") \/ Return(e, f, "failed")
    BY <1>7 DEF Feed, WriteFails
  <2>2. CASE c = e
    <3>1. Len(<<>>) = 0 /\ "lf" \notin Letters(<<>>)
      BY DEF Letters
    <3> QED
      BY <2>1, <2>2, <3>1, OwnFrames DEF Return, Sender, Entered
  <2>3. CASE c # e
    <3>1. f \notin FramesOf(c) /\ holder'[c] = holder[c] /\ UNCHANGED fds
      BY <1>0, <2>1, <2>3 DEF Return
    <3>2. \A h \in FramesOf(c) :
            call'[h] = call[h] /\ text'[h] = text[h] /\ written'[h] = written[h]
      BY <2>1, <3>1, OwnFrames DEF Return
    <3> QED
      BY <1>8, <3>1, <3>2
  <2> QED
    BY <2>2, <2>3
<1> QED
  BY <1>1, <1>2, <1>3, <1>4, <1>5, <1>6, <1>7 DEF Next, SendStep, vars, sendVars

\* ... a read thread is between two bytes only while it has some, and one that
\* found the peer gone has read everything, ...
LEMMA ReaderKept == ASSUME Flow, [Next]_vars, NEW c \in Ends PROVE ReaderAt(c)'
<1> USE DEF Flow, Data
<1>1. CASE UNCHANGED <<reader, chunk, cause, fds, pipe>>
  BY <1>1 DEF ReaderAt
<1>2. ASSUME NEW e \in Ends, CloseFlags(e) \/ CloserStep(e)
      PROVE  UNCHANGED <<reader, chunk, cause, fds, pipe>>
  BY <1>2 DEF CloseFlags, CloserStep, CloseWake, CloseJoin, CloseLock,
    readerVars
<1>3. ASSUME NEW e \in Ends, NEW f \in FramesOf(e), Enter(e, f) \/ Lock(e, f)
             \/ WriteFails(e, f)
      PROVE  UNCHANGED <<reader, chunk, cause, fds, pipe>>
  BY <1>3 DEF Enter, Lock, WriteFails, readerVars
<1>4. ASSUME NEW e \in Ends, NEW f \in FramesOf(e), Write(e, f) \/ Feed(e, f)
      PROVE  ReaderAt(c)'
  <2>1. /\ f \in FramesOf(e) /\ call[f] \in {"write", "feed"} /\ fds[e] # "released"
        /\ UNCHANGED <<reader, chunk, cause, fds>> /\ pipe'[Other(e)] = pipe[Other(e)]
    BY <1>4, TwoEnds DEF Write, Feed, readerVars, Sender, Entered
  <2>2. CASE c = e
    BY <2>1, <2>2 DEF ReaderAt
  <2>3. CASE c = Other(e)
    BY <2>1, <2>3, TwoEnds DEF ReaderAt
  <2> QED
    BY <2>2, <2>3, TwoEnds
<1>5. ASSUME NEW e \in Ends, Start(e) \/ ReaderCheck(e) \/ PollWake(e)
      PROVE  ReaderAt(c)'
  BY <1>5 DEF Start, ReaderCheck, PollWake, ReaderAt, sendVars
<1>6. ASSUME NEW e \in Ends, PollHangUp(e) \/ PollFails(e) PROVE ReaderAt(c)'
  BY <1>6 DEF PollHangUp, PollFails, ReaderAt
<1>7. ASSUME NEW e \in Ends, ExcessByte(e) \/ ReaderEnd(e) PROVE ReaderAt(c)'
  BY <1>7 DEF ExcessByte, ReaderEnd, ReaderAt
<1>8. ASSUME NEW e \in Ends, LineByte(e) \/ PlainByte(e) PROVE ReaderAt(c)'
  <2>1. /\ reader[e] = "bytes" /\ Consume(e) /\ UNCHANGED <<cause, fds, pipe>>
    BY <1>8 DEF LineByte, PlainByte
  <2>2. CASE c = e
    <3>1. chunk[e] # <<>> /\ chunk[e] \in Seq(Bytes) /\ cause[e] # "eof"
      BY <2>1 DEF ReaderAt, Strings
    <3>2. Len(chunk[e]) = 1 <=> Tail(chunk[e]) = <<>>
      <4>1. Tail(chunk[e]) \in Seq(Bytes) /\ Len(Tail(chunk[e])) = Len(chunk[e]) - 1
        BY <3>1, HeadTailProperties
      <4>2. Tail(chunk[e]) = <<>> <=> Len(Tail(chunk[e])) = 0
        BY <4>1, EmptySeq
      <4>3. Len(chunk[e]) \in Nat
        BY <3>1, LenProperties
      <4> QED
        BY <4>1, <4>2, <4>3
    <3> QED
      BY <2>1, <2>2, <3>1, <3>2 DEF Consume, ReaderAt
  <2>3. CASE c # e
    BY <2>1, <2>3 DEF Consume, ReaderAt
  <2> QED
    BY <2>2, <2>3
<1>9. ASSUME NEW e \in Ends, PollRead(e) PROVE ReaderAt(c)'
  <2>1. PICK n \in 1 .. Len(pipe[Other(e)]) :
          /\ chunk' = [chunk EXCEPT ![e] = SubSeq(pipe[Other(e)], 1, n)]
          /\ pipe' = [pipe EXCEPT ![Other(e)] =
                       SubSeq(pipe[Other(e)], n + 1, Len(pipe[Other(e)]))]
    BY <1>9 DEF PollRead
  <2>2. /\ reader[e] = "poll" /\ reader' = [reader EXCEPT ![e] = "bytes"]
        /\ UNCHANGED <<cause, fds>> /\ pipe[Other(e)] # <<>>
    BY <1>9 DEF PollRead
  <2>3. CASE c = e
    <3>1. pipe[Other(e)] \in Strings /\ Len(pipe[Other(e)]) \in Nat
      BY TwoEnds, LenProperties DEF Strings
    <3>2. Len(SubSeq(pipe[Other(e)], 1, n)) = n /\ n >= 1
      BY <3>1, Piece
    <3>3. SubSeq(pipe[Other(e)], 1, n) # <<>>
      <4> DEFINE q == SubSeq(pipe[Other(e)], 1, n)
      <4>1. Len(q) # 0
        BY <3>2
      <4> HIDE DEF q
      <4>2. q # <<>>
        BY <4>1
      <4> QED
        BY <4>2 DEF q
    <3> QED
      BY <2>1, <2>2, <2>3, <3>3 DEF ReaderAt
  <2>4. CASE c = Other(e)
    BY <2>1, <2>2, <2>4, TwoEnds DEF ReaderAt
  <2> QED
    BY <2>3, <2>4, TwoEnds
<1>10. ASSUME NEW e \in Ends, Release(e) PROVE ReaderAt(c)'
  BY <1>10 DEF Release, readerVars, ReaderAt
<1> QED
  BY <1>1, <1>2, <1>3, <1>4, <1>5, <1>6, <1>7, <1>8, <1>9, <1>10
  DEF Next, ReaderStep, SendStep, vars, readerVars

\* Where the frame that somebody is sending stands.
LEMMA BegunIs ==
  ASSUME Flow, NEW e \in Ends, NEW f \in FramesOf(e), call[f] \in {"write", "feed"}
  PROVE  /\ holder[e] = f /\ Begun(e) = SubSeq(text[f], 1, written[f])
         /\ Begun(e) \in Strings /\ Open(e) \in Strings
<1>1. /\ f # Nobody /\ f \in Frames /\ holder[e] = f /\ text[f] \in Strings
      /\ written[f] \in Nat /\ written[f] <= Len(text[f]) /\ part[e] \in Strings
  BY OwnFrames DEF Flow, Data, Sender
<1>2. SubSeq(text[f], 1, written[f]) \in Strings
  BY <1>1, Piece
<1>3. Begun(e) = SubSeq(text[f], 1, written[f])
  BY <1>1 DEF Begun
<1> QED
  BY <1>1, <1>2, <1>3, ConcatProperties DEF Open, Strings

\* What a write puts into the pipe is the next piece of its frame.
LEMMA WritePiece ==
  ASSUME Flow, NEW e \in Ends, NEW f \in FramesOf(e), Write(e, f)
  PROVE  \E p \in Strings :
           /\ "lf" \notin Letters(p) /\ pipe' = [pipe EXCEPT ![e] = pipe[e] \o p]
           /\ Len(pipe[e] \o p) <= Room /\ Begun(e)' = Begun(e) \o p
<1>1. PICK n \in 1 .. Len(text[f]) - written[f] :
        /\ Len(pipe[e]) + n <= Room
        /\ pipe' = [pipe EXCEPT ![e] =
                     @ \o SubSeq(text[f], written[f] + 1, written[f] + n)]
        /\ written' = [written EXCEPT ![f] = @ + n]
  BY DEF Write
<1> DEFINE p == SubSeq(text[f], written[f] + 1, written[f] + n)
<1>2. UNCHANGED <<holder, text>> /\ call[f] = "write" /\ f \in Frames /\ f # Nobody
  BY OwnFrames DEF Write
<1>3. /\ text[f] \in Strings /\ written[f] \in Nat /\ written[f] <= Len(text[f])
      /\ "lf" \notin Letters(text[f]) /\ pipe[e] \in Strings
  BY <1>2 DEF Flow, Data, Sender
<1>4. /\ p \in Strings /\ "lf" \notin Letters(p) /\ Len(p) = n
      /\ SubSeq(text[f], 1, written[f]) \o p = SubSeq(text[f], 1, written[f] + n)
  BY <1>3, NextPiece
<1>5. pipe' = [pipe EXCEPT ![e] = pipe[e] \o p] /\ written'[f] = written[f] + n
  BY <1>1, <1>2 DEF Flow, Data
<1> HIDE DEF p
<1>6. Len(pipe[e] \o p) <= Room
  <2>1. Len(pipe[e] \o p) = Len(pipe[e]) + Len(p)
    BY <1>3, <1>4, Concat
  <2> QED
    BY <1>1, <1>4, <2>1
<1>7. holder[e] = f /\ Begun(e) = SubSeq(text[f], 1, written[f])
  BY <1>2, BegunIs
<1>8. Begun(e)' = Begun(e) \o p
  BY <1>2, <1>4, <1>5, <1>7 DEF Begun
<1> QED
  BY <1>4, <1>5, <1>6, <1>8

\* ... the pipe, the chunk and the line keep their limits, ...
LEMMA SizesKept == ASSUME Flow, [Next]_vars, NEW c \in Ends PROVE Sizes(c)'
<1> USE DEF Flow, Data, Sizes
<1>1. CASE UNCHANGED <<chunk, buffer, pipe>>
  BY <1>1
<1>2. ASSUME NEW e \in Ends,
             \/ CloseFlags(e) \/ CloserStep(e) \/ Start(e) \/ ReaderCheck(e)
             \/ PollWake(e) \/ PollHangUp(e) \/ PollFails(e) \/ ExcessByte(e)
             \/ ReaderEnd(e) \/ Release(e)
      PROVE  UNCHANGED <<chunk, buffer, pipe>>
  BY <1>2 DEF CloseFlags, CloserStep, CloseWake, CloseJoin, CloseLock, Start,
    ReaderCheck, PollWake, PollHangUp, PollFails, ExcessByte, ReaderEnd, Release,
    readerVars
<1>3. ASSUME NEW e \in Ends, NEW f \in FramesOf(e), Enter(e, f) \/ Lock(e, f)
             \/ WriteFails(e, f)
      PROVE  UNCHANGED <<chunk, buffer, pipe>>
  BY <1>3 DEF Enter, Lock, WriteFails, readerVars
<1>4. ASSUME NEW e \in Ends, NEW f \in FramesOf(e), Write(e, f) PROVE Sizes(c)'
  <2>1. PICK p \in Strings :
          pipe' = [pipe EXCEPT ![e] = pipe[e] \o p] /\ Len(pipe[e] \o p) <= Room
    BY <1>4, WritePiece
  <2>2. Len(pipe'[c]) <= Room
    BY <2>1
  <2> QED
    BY <1>4, <2>2 DEF Write, readerVars
<1>5. ASSUME NEW e \in Ends, NEW f \in FramesOf(e), Feed(e, f) PROVE Sizes(c)'
  <2>1. Len(Append(pipe[e], "lf")) <= Room
    <3>1. "lf" \in Bytes
      BY DEF Bytes
    <3> QED
      BY <1>5, <3>1, BytesAssumption, AppendProperties, LenProperties DEF Feed,
        Strings
  <2> QED
    BY <1>5, <2>1 DEF Feed, readerVars
<1>6. ASSUME NEW e \in Ends, LineByte(e) PROVE Sizes(c)'
  <2>1. chunk[e] # <<>> /\ chunk[e] \in Seq(Bytes)
    BY <1>6 DEF LineByte, ReaderAt, Strings
  <2>2. Len(Tail(chunk[e])) <= Chunk /\ Len(<<>>) <= MaxFrame
    BY <2>1, BytesAssumption, HeadTailProperties, LenProperties
  <2> QED
    BY <1>6, <2>2 DEF LineByte, Consume
<1>7. ASSUME NEW e \in Ends, PlainByte(e) PROVE Sizes(c)'
  <2>1. chunk[e] # <<>> /\ chunk[e] \in Seq(Bytes) /\ buffer[e] \in Seq(Bytes)
    BY <1>7 DEF PlainByte, ReaderAt, Strings
  <2>2. Len(Tail(chunk[e])) <= Chunk
    BY <2>1, BytesAssumption, HeadTailProperties, LenProperties
  <2>3. Len(Append(buffer[e], Head(chunk[e]))) <= MaxFrame
    BY <1>7, <2>1, BytesAssumption, HeadTailProperties, AppendProperties,
      LenProperties
    DEF PlainByte
  <2> QED
    BY <1>7, <2>2, <2>3 DEF PlainByte, Consume
<1>8. ASSUME NEW e \in Ends, PollRead(e) PROVE Sizes(c)'
  <2>1. PICK n \in 1 .. Len(pipe[Other(e)]) :
          /\ n = IF Len(pipe[Other(e)]) < Chunk THEN Len(pipe[Other(e)]) ELSE Chunk
          /\ chunk' = [chunk EXCEPT ![e] = SubSeq(pipe[Other(e)], 1, n)]
          /\ pipe' = [pipe EXCEPT ![Other(e)] =
                       SubSeq(pipe[Other(e)], n + 1, Len(pipe[Other(e)]))]
    BY <1>8 DEF PollRead
  <2> DEFINE in == pipe[Other(e)]
  <2>2. in \in Strings /\ Len(in) \in Nat /\ Len(in) <= Room /\ n <= Chunk
    BY <2>1, BytesAssumption, TwoEnds, LenProperties DEF Strings
  <2>3. Len(SubSeq(in, 1, n)) <= Chunk /\ Len(SubSeq(in, n + 1, Len(in))) <= Room
    <3>1. Len(SubSeq(in, 1, n)) = n
      BY <2>2, Piece
    <3>2. Len(SubSeq(in, n + 1, Len(in))) <= Len(in)
      BY <2>2, Piece
    <3>3. Len(SubSeq(in, n + 1, Len(in))) \in Nat
      BY <2>2, Piece, LenProperties DEF Strings
    <3> QED
      <4> DEFINE l == Len(SubSeq(in, n + 1, Len(in)))
      <4>1. n <= Chunk /\ l \in Nat /\ l <= Len(in) /\ Len(in) <= Room /\ Len(in) \in Nat
        BY <2>2, <3>2, <3>3
      <4> HIDE DEF in, l
      <4>2. l <= Room
        BY <4>1, BytesAssumption
      <4> QED
        BY <3>1, <4>1, <4>2 DEF l
  <2>4. Len(chunk'[c]) <= Chunk /\ Len(pipe'[c]) <= Room
    BY <2>1, <2>3
  <2> QED
    BY <1>8, <2>4 DEF PollRead
<1> QED
  BY <1>1, <1>2, <1>3, <1>4, <1>5, <1>6, <1>7, <1>8
  DEF Next, ReaderStep, SendStep, vars, readerVars

LEMMA StreamParts ==
  ASSUME Flow, NEW c \in Ends
  PROVE  /\ buffer[Other(c)] \in Strings /\ chunk[Other(c)] \in Strings
         /\ pipe[c] \in Strings /\ part[c] \in Strings /\ Stream(c) \in Strings
         /\ got[Other(c)] \in Lines /\ sent[c] \in Lines
BY TwoEnds, ConcatProperties DEF Flow, Data, Stream, Strings

\* The first byte of the chunk goes on the line or ends it.
LEMMA TakeByte ==
  ASSUME Flow, NEW c \in Ends, reader[Other(c)] = "bytes"
  PROVE  LET b == buffer[Other(c)]
             k == chunk[Other(c)]
         IN  /\ Stream(c) = Append(b, Head(k)) \o (Tail(k) \o pipe[c])
             /\ Tail(k) \in Strings /\ Tail(k) \o pipe[c] \in Strings
             /\ Head(k) \in Bytes
<1> DEFINE b == buffer[Other(c)]
           k == chunk[Other(c)]
<1>1. /\ b \in Seq(Bytes) /\ k \in Seq(Bytes) /\ k # <<>> /\ pipe[c] \in Seq(Bytes)
      /\ Stream(c) = (b \o k) \o pipe[c]
  BY TwoEnds, StreamParts DEF Flow, ReaderAt, Stream, Strings
<1> HIDE DEF b, k
<1> DEFINE x == Head(k)
           z == Tail(k)
<1>2. x \in Bytes /\ z \in Seq(Bytes) /\ <<x>> \in Seq(Bytes) /\ k = <<x>> \o z
  <2>1. /\ x \in Bytes /\ z \in Seq(Bytes) /\ Len(z) = Len(k) - 1 /\ x = k[1]
        /\ Len(k) \in Nat /\ Len(k) >= 1
        /\ \A i \in 1 .. Len(z) : z[i] = k[i + 1]
    BY <1>1, HeadTailProperties, EmptySeq
  <2>2. <<x>> \in Seq(Bytes) /\ Len(<<x>>) = 1 /\ <<x>>[1] = x
    BY <2>1
  <2> HIDE DEF x, z
  <2>3. /\ <<x>> \o z \in Seq(Bytes) /\ Len(<<x>> \o z) = 1 + Len(z)
        /\ \A i \in 1 .. 1 + Len(z) :
             (<<x>> \o z)[i] = IF i <= 1 THEN <<x>>[i] ELSE z[i - 1]
    BY <2>1, <2>2, ConcatProperties
  <2>4. ASSUME NEW i \in 1 .. Len(k) PROVE k[i] = (<<x>> \o z)[i]
    <3>1. CASE i = 1
      BY <2>1, <2>2, <2>3, <3>1
    <3>2. CASE i # 1
      <4>1. i - 1 \in 1 .. Len(z) /\ (i - 1) + 1 = i /\ i \in 1 .. 1 + Len(z)
        BY <2>1, <3>2
      <4> QED
        BY <2>1, <2>3, <3>2, <4>1
    <3> QED
      BY <3>1, <3>2
  <2>5. Len(k) = Len(<<x>> \o z)
    BY <2>1, <2>3
  <2>6. k = <<x>> \o z
    BY <1>1, <2>3, <2>4, <2>5, SeqEqual
  <2> QED
    BY <2>1, <2>2, <2>6
<1> HIDE DEF x, z
<1>3. b \o k = (b \o <<x>>) \o z /\ b \o <<x>> = Append(b, x)
  <2>1. b \in Strings /\ <<x>> \in Strings /\ z \in Strings
    BY <1>1, <1>2 DEF Strings
  <2>2. b \o (<<x>> \o z) = (b \o <<x>>) \o z
    BY <2>1, Associative
  <2>3. b \o <<x>> = Append(b, x)
    BY <1>1, <1>2, AppendIsConcat
  <2> QED
    BY <1>2, <2>2, <2>3
<1>4. Append(b, x) \in Seq(Bytes) /\ z \o pipe[c] \in Seq(Bytes)
  BY <1>1, <1>2, AppendProperties, ConcatProperties
<1>5. (Append(b, x) \o z) \o pipe[c] = Append(b, x) \o (z \o pipe[c])
  <2>1. Append(b, x) \in Strings /\ z \in Strings /\ pipe[c] \in Strings
    BY <1>1, <1>2, <1>4 DEF Strings
  <2> QED
    BY <2>1, Associative
<1> QED
  BY <1>1, <1>2, <1>3, <1>4, <1>5 DEF x, z, b, k, Strings

LEMMA OpenIsString == ASSUME Flow, NEW c \in Ends PROVE Open(c) \in Strings
<1>1. CASE holder[c] = Nobody
  <2>1. part[c] \in Strings /\ <<>> \in Strings
    BY StreamParts, EmptySeq DEF Strings
  <2> QED
    BY <1>1, <2>1, ConcatProperties DEF Open, Begun, Strings
<1>2. CASE holder[c] # Nobody
  <2>1. holder[c] \in FramesOf(c) /\ call[holder[c]] \in {"write", "feed"}
    BY <1>2 DEF Flow, Sender
  <2> QED
    BY <2>1, BegunIs
<1> QED
  BY <1>1, <1>2

\* A sender touches its own direction only.
LEMMA OtherDirection ==
  ASSUME Flow, NEW e \in Ends, NEW f \in FramesOf(e), NEW c \in Ends, c # e,
         Enter(e, f) \/ SendStep(e, f) \/ WriteFails(e, f)
  PROVE  /\ Stream(c)' = Stream(c) /\ Open(c)' = Open(c) /\ sent'[c] = sent[c]
<1> USE DEF Flow, Data, readerVars, flagVars
<1>1. /\ c = Other(e) /\ f \notin FramesOf(c) /\ f \in Frames /\ holder[c] # f
  BY TwoEnds, OwnFrames DEF Sender
<1>2. /\ UNCHANGED <<buffer, chunk>> /\ pipe'[c] = pipe[c] /\ part'[c] = part[c]
      /\ sent'[c] = sent[c] /\ holder'[c] = holder[c]
  BY <1>1 DEF Enter, SendStep, Lock, Write, Feed, WriteFails, Return
<1>3. \A h \in Frames : h # f => text'[h] = text[h] /\ written'[h] = written[h]
  BY <1>1 DEF Enter, SendStep, Lock, Write, Feed, WriteFails, Return
<1>4. holder[c] # Nobody => holder[c] \in Frames
  OBVIOUS
<1> QED
  BY <1>1, <1>2, <1>3, <1>4 DEF Stream, Open, Begun

\* ... and the stream holds the lines that are sent and not handed over, in order.
LEMMA StreamKept == ASSUME Flow, [Next]_vars, NEW c \in Ends PROVE StreamAt(c)'
<1>0. StreamAt(c)
  BY DEF Flow
<1>1. ASSUME Stream(c)' = Stream(c), Open(c)' = Open(c), sent'[c] = sent[c],
             got'[Other(c)] = got[Other(c)], "lf" \notin Letters(buffer'[Other(c)])
      PROVE  StreamAt(c)'
  BY <1>0, <1>1 DEF StreamAt
<1>2. CASE UNCHANGED <<buffer, chunk, pipe, got, sendVars>>
  BY <1>0, <1>2 DEF StreamAt, Stream, Open, Begun, sendVars
<1>3. ASSUME NEW e \in Ends,
             \/ CloseFlags(e) \/ CloserStep(e) \/ Start(e) \/ ReaderCheck(e)
             \/ PollWake(e) \/ PollHangUp(e) \/ PollFails(e) \/ ExcessByte(e)
             \/ ReaderEnd(e) \/ Release(e)
      PROVE  UNCHANGED <<buffer, chunk, pipe, got, sendVars>>
  BY <1>3 DEF CloseFlags, CloserStep, CloseWake, CloseJoin, CloseLock, Start,
    ReaderCheck, PollWake, PollHangUp, PollFails, ExcessByte, ReaderEnd, Release,
    readerVars
<1>4. ASSUME NEW e \in Ends, NEW f \in FramesOf(e),
             Enter(e, f) \/ SendStep(e, f) \/ WriteFails(e, f)
      PROVE  StreamAt(c)'
  <2>1. UNCHANGED <<buffer, got, chunk>>
    BY <1>4 DEF Enter, SendStep, Lock, Write, Feed, WriteFails, readerVars
  <2>2. "lf" \notin Letters(buffer'[Other(c)])
    BY <1>0, <2>1 DEF StreamAt
  <2>3. CASE c # e
    BY <1>1, <1>4, <2>1, <2>2, <2>3, OtherDirection
  <2>4. CASE c = e /\ Enter(e, f)
    <3>1. /\ UNCHANGED <<pipe, holder, written, sent, part>> /\ call[f] = "new"
          /\ \A h \in Frames : h # f => text'[h] = text[h]
      BY <2>4, OwnFrames DEF Enter, Flow, Data
    <3>2. holder[c] # f /\ (holder[c] # Nobody => holder[c] \in Frames)
      BY <2>4, <3>1 DEF Flow, Data, Sender
    <3> QED
      BY <1>1, <2>1, <2>2, <3>1, <3>2 DEF Stream, Open, Begun
  <2>5. CASE c = e /\ Lock(e, f)
    <3>1. /\ UNCHANGED <<pipe, text, written, sent, part>> /\ holder[e] = Nobody
          /\ holder'[e] = f /\ f # Nobody /\ written[f] = 0
      BY <2>5, OwnFrames DEF Lock, Flow, Data, Sender
    <3>2. SubSeq(text[f], 1, 0) = <<>>
      BY SubSeqEmpty
    <3> QED
      BY <1>1, <2>1, <2>2, <2>5, <3>1, <3>2 DEF Stream, Open, Begun
  <2>6. CASE c = e /\ Write(e, f)
    <3>1. PICK p \in Strings :
            /\ "lf" \notin Letters(p) /\ pipe' = [pipe EXCEPT ![e] = pipe[e] \o p]
            /\ Begun(e)' = Begun(e) \o p
      BY <2>6, WritePiece
    <3>2. UNCHANGED <<sent, part>> /\ call[f] = "write"
      BY <2>6 DEF Write
    <3>3. pipe'[e] = pipe[e] \o p
      BY <3>1 DEF Flow, Data
    <3>4. Begun(e) \in Strings /\ Open(e) \in Strings /\ part[e] \in Strings
      BY <3>2, BegunIs, StreamParts
    <3>8. Open(e)' = Open(e) \o p
      <4>1. Open(e)' = part[e] \o (Begun(e) \o p)
        BY <3>1, <3>2 DEF Open
      <4>2. (part[e] \o Begun(e)) \o p = part[e] \o (Begun(e) \o p)
        BY <3>4, Associative
      <4> QED
        BY <4>1, <4>2 DEF Open
    <3>9. Stream(e)' = Stream(e) \o p
      <4>1. Stream(e)' = (buffer[Other(e)] \o chunk[Other(e)]) \o (pipe[e] \o p)
        BY <2>1, <3>3 DEF Stream
      <4>2. buffer[Other(e)] \o chunk[Other(e)] \in Strings /\ pipe[e] \in Strings
        BY StreamParts, Concat
      <4> QED
        BY <4>1, <4>2, Associative DEF Stream
    <3>10. Carries(Stream(e) \o p, Open(e) \o p, got[Other(e)], sent[e])
      BY <1>0, <2>6, <3>1, <3>4, StreamParts, CarriesMore DEF StreamAt
    <3> QED
      BY <2>1, <2>2, <2>6, <3>2, <3>8, <3>9, <3>10 DEF StreamAt
  <2>7. CASE c = e /\ Feed(e, f)
    <3>1. /\ call[f] = "feed" /\ pipe' = [pipe EXCEPT ![e] = Append(@, "lf")]
          /\ part' = [part EXCEPT ![e] = <<>>]
          /\ holder' = [holder EXCEPT ![e] = Nobody]
          /\ sent' = IF Clean(part[e] \o text[f]) = <<>> THEN sent
                     ELSE [sent EXCEPT ![e] = Append(@, Clean(part[e] \o text[f]))]
          /\ f \in Frames
      BY <2>7, OwnFrames DEF Feed, Return
    <3>2. /\ pipe \in [Ends -> Strings] /\ part \in [Ends -> Strings]
          /\ sent \in [Ends -> Lines] /\ holder \in [Ends -> Frames \cup {Nobody}]
          /\ text[f] \in Strings /\ written[f] = Len(text[f])
      BY <3>1 DEF Flow, Data, Sender
    <3>3. Open(e) = part[e] \o text[f]
      <4>1. Begun(e) = SubSeq(text[f], 1, Len(text[f]))
        BY <3>1, <3>2, BegunIs
      <4> QED
        BY <3>2, <4>1, SubSeqFull DEF Open, Strings
    <3>4. sent'[e] = Ended(sent[e], Clean(Open(e)))
      BY <3>1, <3>2, <3>3 DEF Ended
    <3>5. Open(e)' = <<>>
      <4>1. part'[e] = <<>> /\ holder'[e] = Nobody
        BY <3>1, <3>2
      <4>2. <<>> \o <<>> = <<>>
        OBVIOUS
      <4> QED
        BY <4>1, <4>2 DEF Open, Begun
    <3>6. Stream(e)' = Append(Stream(e), "lf")
      <4>1. buffer[Other(e)] \o chunk[Other(e)] \in Strings /\ pipe[e] \in Strings
        BY StreamParts, Concat
      <4>2. "lf" \in Bytes /\ <<"lf">> \in Strings
        BY DEF Bytes, Strings
      <4>3. pipe'[e] = pipe[e] \o <<"lf">>
        BY <3>1, <3>2, <4>2, AppendIsConcat DEF Strings
      <4>4. Stream(e)' = (buffer[Other(e)] \o chunk[Other(e)]) \o (pipe[e] \o <<"lf">>)
        BY <2>1, <4>3 DEF Stream
      <4>5. Stream(e)' = Stream(e) \o <<"lf">>
        BY <4>1, <4>2, <4>4, Associative DEF Stream
      <4> QED
        BY <4>2, <4>5, StreamParts, AppendIsConcat DEF Strings, Bytes
    <3>7. Carries(Append(Stream(e), "lf"), <<>>, got[Other(e)], sent'[e])
      BY <1>0, <2>7, <3>4, StreamParts, OpenIsString, CarriesLine DEF StreamAt
    <3> QED
      BY <2>1, <2>2, <2>7, <3>5, <3>6, <3>7 DEF StreamAt
  <2>8. CASE c = e /\ WriteFails(e, f)
    <3>1. /\ call[f] \in {"write", "feed"} /\ UNCHANGED <<pipe, sent>>
          /\ holder' = [holder EXCEPT ![e] = Nobody]
          /\ part' = [part EXCEPT ![e] = @ \o SubSeq(text[f], 1, written[f])]
      BY <2>8 DEF WriteFails, Return
    <3>2. holder'[e] = Nobody /\ part'[e] = part[e] \o SubSeq(text[f], 1, written[f])
      BY <3>1 DEF Flow, Data
    <3>3. Open(e) = part[e] \o SubSeq(text[f], 1, written[f]) /\ Open(e) \in Strings
      BY <3>1, BegunIs DEF Open
    <3>4. Open(e)' = Open(e) \o <<>>
      BY <3>2, <3>3 DEF Open, Begun
    <3>5. Open(e)' = Open(e)
      BY <3>3, <3>4, ConcatEmptySeq DEF Strings
    <3>6. Stream(e)' = Stream(e)
      BY <2>1, <3>1 DEF Stream
    <3> QED
      BY <1>1, <2>1, <2>2, <2>8, <3>1, <3>5, <3>6
  <2> QED
    BY <1>4, <2>3, <2>4, <2>5, <2>6, <2>7, <2>8 DEF SendStep
<1>5. ASSUME NEW e \in Ends, PollRead(e) \/ LineByte(e) \/ PlainByte(e), c # Other(e)
      PROVE  StreamAt(c)'
  <2>1. c = e /\ Other(c) # e
    BY <1>5, TwoEnds
  <2>2. /\ UNCHANGED sendVars /\ buffer'[Other(c)] = buffer[Other(c)]
        /\ chunk'[Other(c)] = chunk[Other(c)] /\ pipe'[c] = pipe[c]
        /\ got'[Other(c)] = got[Other(c)]
    BY <1>5, <2>1, TwoEnds DEF PollRead, LineByte, PlainByte, Consume, Flow,
      Data
  <2> QED
    BY <1>0, <2>2 DEF StreamAt, Stream, Open, Begun, sendVars
<1>6. ASSUME NEW e \in Ends, PollRead(e), c = Other(e) PROVE StreamAt(c)'
  <2>1. PICK n \in 1 .. Len(pipe[c]) :
          /\ chunk' = [chunk EXCEPT ![e] = SubSeq(pipe[c], 1, n)]
          /\ pipe' = [pipe EXCEPT ![c] = SubSeq(pipe[c], n + 1, Len(pipe[c]))]
    BY <1>6 DEF PollRead
  <2>2. /\ UNCHANGED <<buffer, got>> /\ UNCHANGED sendVars /\ chunk[e] = <<>>
        /\ Other(c) = e
    BY <1>6, TwoEnds DEF PollRead, Flow, ReaderAt
  <2>3. /\ chunk'[e] = SubSeq(pipe[c], 1, n)
        /\ pipe'[c] = SubSeq(pipe[c], n + 1, Len(pipe[c]))
    BY <2>1 DEF Flow, Data
  <2>4. chunk'[e] \in Strings /\ pipe'[c] \in Strings
    BY <1>6, TwoEnds, DataStep DEF Data
  <2>5. SubSeq(pipe[c], 1, n) \o SubSeq(pipe[c], n + 1, Len(pipe[c])) = pipe[c]
    <3>1. pipe[c] \in Seq(Bytes) /\ Len(pipe[c]) \in Nat
      BY StreamParts, LenProperties DEF Strings
    <3>2. /\ 1 \in 1 .. Len(pipe[c]) + 1 /\ n \in 1 - 1 .. Len(pipe[c])
          /\ Len(pipe[c]) \in n .. Len(pipe[c])
      BY <3>1
    <3> QED
      BY <3>1, <3>2, ConcatAdjacentSubSeq, SubSeqFull
  <2>6. Stream(c)' = Stream(c)
    <3>1. Stream(c) = buffer[e] \o pipe[c]
      BY <2>2, StreamParts, ConcatEmptySeq DEF Stream, Strings
    <3>2. Stream(c)' = (buffer[e] \o chunk'[e]) \o pipe'[c] /\ buffer[e] \in Strings
      BY <2>2, StreamParts DEF Stream
    <3>3. Stream(c)' = buffer[e] \o (chunk'[e] \o pipe'[c])
      BY <2>4, <3>2, Associative
    <3> QED
      BY <2>3, <2>5, <3>1, <3>3
  <2>7. Open(c)' = Open(c)
    BY <2>2 DEF Open, Begun, sendVars
  <2> QED
    BY <1>0, <1>1, <2>2, <2>6, <2>7 DEF StreamAt, sendVars
<1>7. ASSUME NEW e \in Ends, LineByte(e), c = Other(e) PROVE StreamAt(c)'
  <2>1. /\ Other(c) = e /\ reader[e] = "bytes" /\ Head(chunk[e]) = "lf"
        /\ UNCHANGED pipe /\ UNCHANGED sendVars
    BY <1>7, TwoEnds DEF LineByte
  <2>2. /\ chunk'[e] = Tail(chunk[e]) /\ buffer'[e] = <<>>
        /\ got'[e] = Ended(got[e], Clean(buffer[e]))
    BY <1>7 DEF LineByte, Consume, Ended, Flow, Data
  <2>3. Stream(c) = Append(buffer[e], "lf") \o (Tail(chunk[e]) \o pipe[c])
    BY <2>1, TakeByte DEF Flow
  <2>4. Stream(c)' = Tail(chunk[e]) \o pipe[c]
    <3>1. Tail(chunk[e]) \in Strings
      BY <2>1, TakeByte
    <3> QED
      BY <2>1, <2>2, <3>1, ConcatEmptySeq DEF Stream, Strings
  <2>5. Open(c)' = Open(c)
    BY <2>1 DEF Open, Begun, sendVars
  <2>6. Tail(chunk[e]) \o pipe[c] \in Strings
    BY <2>1, TakeByte
  <2>7. Carries(Tail(chunk[e]) \o pipe[c], Open(c), got'[e], sent[c])
    <3>1. /\ Carries(Append(buffer[e], "lf") \o (Tail(chunk[e]) \o pipe[c]), Open(c),
                     got[e], sent[c])
          /\ "lf" \notin Letters(buffer[e])
      BY <1>0, <2>1, <2>3 DEF StreamAt
    <3>2. /\ buffer[e] \in Strings /\ Open(c) \in Strings
          /\ got[e] \in Lines /\ sent[c] \in Lines
      BY <2>1, StreamParts, OpenIsString
    <3> QED
      BY <2>2, <2>6, <3>1, <3>2, CarriesTaken
  <2>8. "lf" \notin Letters(<<>>)
    BY DEF Letters
  <2> QED
    BY <2>1, <2>2, <2>4, <2>5, <2>7, <2>8 DEF StreamAt, sendVars
<1>8. ASSUME NEW e \in Ends, PlainByte(e), c = Other(e) PROVE StreamAt(c)'
  <2>1. /\ Other(c) = e /\ reader[e] = "bytes" /\ Head(chunk[e]) # "lf"
        /\ UNCHANGED <<pipe, got>> /\ UNCHANGED sendVars
    BY <1>8, TwoEnds DEF PlainByte
  <2>2. chunk'[e] = Tail(chunk[e]) /\ buffer'[e] = Append(buffer[e], Head(chunk[e]))
    BY <1>8 DEF PlainByte, Consume, Flow, Data
  <2>3. /\ Stream(c) = Append(buffer[e], Head(chunk[e])) \o (Tail(chunk[e]) \o pipe[c])
        /\ Tail(chunk[e]) \in Strings /\ Head(chunk[e]) \in Bytes
    BY <2>1, TakeByte
  <2>4. Stream(c)' = Stream(c)
    <3>1. Append(buffer[e], Head(chunk[e])) \in Strings
      BY <2>1, <2>3, StreamParts, AppendProperties DEF Strings
    <3> QED
      <4>1. /\ Stream(c)' =
                 (Append(buffer[e], Head(chunk[e])) \o Tail(chunk[e])) \o pipe[c]
            /\ pipe[c] \in Strings
        BY <2>1, <2>2, StreamParts DEF Stream
      <4> QED
        BY <2>3, <3>1, <4>1, Associative
  <2>5. Open(c)' = Open(c)
    BY <2>1 DEF Open, Begun, sendVars
  <2>6. "lf" \notin Letters(Append(buffer[e], Head(chunk[e])))
    <3>1. "lf" \notin Letters(buffer[e]) /\ buffer[e] \in Strings
      BY <1>0, <2>1, StreamParts DEF StreamAt
    <3> QED
      BY <2>1, <2>3, <3>1, AppendProperties DEF Letters, Strings
  <2> QED
    BY <1>1, <2>1, <2>2, <2>4, <2>5, <2>6 DEF sendVars
<1> QED
  BY <1>2, <1>3, <1>4, <1>5, <1>6, <1>7, <1>8 DEF Next, ReaderStep, vars,
    readerVars

LEMMA InitFlow == Init => Flow
<1> SUFFICES ASSUME Init PROVE Flow
  OBVIOUS
<1>1. /\ <<>> \in Strings /\ <<>> \in Lines /\ Len(<<>>) = 0 /\ <<>> \o <<>> = <<>>
      /\ "lf" \notin Letters(<<>>)
  BY EmptySeq DEF Strings, Lines, Letters
<1>2. Data
  BY <1>1 DEF Init, Data
<1>3. ASSUME NEW c \in Ends PROVE Sender(c)
  BY <1>1, OwnFrames DEF Init, Sender, Entered
<1>4. ASSUME NEW c \in Ends PROVE ReaderAt(c) /\ Sizes(c)
  BY <1>1, BytesAssumption DEF Init, ReaderAt, Sizes
<1>5. ASSUME NEW c \in Ends PROVE StreamAt(c)
  <2>1. Stream(c) = <<>> /\ Open(c) = <<>>
    BY <1>1, TwoEnds DEF Init, Stream, Open, Begun
  <2>2. /\ got[Other(c)] = <<>> /\ sent[c] = <<>>
        /\ "lf" \notin Letters(buffer[Other(c)])
    BY <1>1, TwoEnds DEF Init
  <2> QED
    BY <2>1, <2>2, CarriesNothing DEF StreamAt
<1> QED
  BY <1>2, <1>3, <1>4, <1>5 DEF Flow

LEMMA FlowStep == ASSUME Flow, [Next]_vars PROVE Flow'
<1>1. Data'
  BY DataStep
<1>2. \A c \in Ends : Sender(c)' /\ ReaderAt(c)' /\ Sizes(c)' /\ StreamAt(c)'
  BY SenderKept, ReaderKept, SizesKept, StreamKept
<1> QED
  BY <1>1, <1>2 DEF Flow

LEMMA FlowInvariance == Spec => []Flow
BY InitFlow, FlowStep, PTL DEF Spec

\* When the reader ends because the peer has hung up, nothing of the stream is left
\* but an unfinished line.
THEOREM NothingLost == Spec => []HangUpLosesNothing
<1>1. ASSUME Flow PROVE HangUpLosesNothing
  <2>1. SUFFICES ASSUME NEW e \in Ends, cause[e] = "eof"
                 PROVE  got[e] = sent[Other(e)]
    BY DEF HangUpLosesNothing
  <2> DEFINE c == Other(e)
  <2>2. c \in Ends /\ Other(c) = e
    BY TwoEnds
  <2>3. ReaderAt(e) /\ StreamAt(c)
    BY <1>1, <2>2 DEF Flow
  <2>4. chunk[e] = <<>> /\ pipe[c] = <<>>
    BY <2>1, <2>3 DEF ReaderAt
  <2> HIDE DEF c
  <2>5. /\ buffer[e] \in Strings /\ Stream(c) \in Strings /\ got[e] \in Lines
        /\ sent[c] \in Lines
    BY <1>1, <2>2, StreamParts
  <2>6. Stream(c) = buffer[e]
    <3>1. Stream(c) = (buffer[e] \o <<>>) \o <<>>
      BY <2>2, <2>4 DEF Stream
    <3> QED
      BY <2>5, <3>1, ConcatEmptySeq DEF Strings
  <2>7. Carries(Stream(c), Open(c), got[e], sent[c]) /\ "lf" \notin Letters(buffer[e])
    BY <2>2, <2>3 DEF StreamAt
  <2>8. Open(c) \in Strings
    BY <1>1, <2>2, OpenIsString
  <2> QED
    BY <2>5, <2>6, <2>7, <2>8, CarriedAll DEF c
<1> QED
  BY <1>1, FlowInvariance, PTL

\* The state of a transport is of its types throughout: no pipe, chunk or line is
\* longer than its limit, and write_mutex_ is held by the frame that is being
\* written.
THEOREM TypeCorrect == Spec => []TypeOK
<1>1. ASSUME Inv, Flow PROVE TypeOK
  <2>1. ASSUME NEW e \in Ends
        PROVE  /\ Len(pipe[e]) <= Room /\ Len(chunk[e]) <= Chunk
               /\ Len(buffer[e]) <= MaxFrame
               /\ holder[e] \in FramesOf(e) \cup {Nobody}
               /\ \A f \in FramesOf(e) :
                    /\ call[f] \in {"write", "feed"} <=> holder[e] = f
                    /\ written[f] <= Len(text[f])
    BY <1>1 DEF Flow, Sizes, Sender
  <2> QED
    BY <1>1, <2>1 DEF Inv, Types, Flow, Data, TypeOK
<1> QED
  BY <1>1, Invariance, FlowInvariance, PTL

------------------------------------------------------------------------------
\* A reader takes what is sent, in its order, one line with one step.
LEMMA LineIsNext ==
  ASSUME Flow, LineByte("server"), got'["server"] # got["server"]
  PROVE  ToServer!Take
<1> DEFINE s == "server"
           c == "client"
<1>1. s \in Ends /\ c \in Ends /\ Other(c) = s
  BY DEF Ends, Other
<1>2. /\ Head(chunk[s]) = "lf" /\ reader[s] = "bytes" /\ UNCHANGED sendVars
      /\ got' = IF Clean(buffer[s]) = <<>> THEN got
                ELSE [got EXCEPT ![s] = Append(@, Clean(buffer[s]))]
  BY DEF LineByte
<1>3. Clean(buffer[s]) # <<>> /\ got'[s] = Append(got[s], Clean(buffer[s]))
  BY <1>1, <1>2 DEF Flow, Data
<1> HIDE DEF s, c
<1>4. /\ Stream(c) = Append(buffer[s], "lf") \o (Tail(chunk[s]) \o pipe[c])
      /\ Tail(chunk[s]) \o pipe[c] \in Strings
  BY <1>1, <1>2, TakeByte
<1>5. /\ Carries(Append(buffer[s], "lf") \o (Tail(chunk[s]) \o pipe[c]), Open(c), got[s],
                 sent[c])
      /\ "lf" \notin Letters(buffer[s])
  BY <1>1, <1>4 DEF Flow, StreamAt
<1>6. Len(got[s]) < Len(sent[c]) /\ sent[c][Len(got[s]) + 1] = Clean(buffer[s])
  <2>1. /\ buffer[s] \in Strings /\ Open(c) \in Strings
        /\ got[s] \in Lines /\ sent[c] \in Lines
    BY <1>1, StreamParts, OpenIsString
  <2> QED
    BY <1>3, <1>4, <1>5, <2>1, CarriesTaken
<1> QED
  BY <1>2, <1>3, <1>6 DEF ToServer!Take, sendVars, s, c

\* A line feed makes a line of what failed writes have left and of the frame, ...
LEMMA FeedPuts ==
  ASSUME Flow, NEW f \in FramesOf("client"), Feed("client", f)
  PROVE  \E x \in {y \in Texts : "lf" \notin Letters(y)} : ToServer!Put(x)
<1>1. "client" \in Ends /\ call[f] = "feed" /\ f \in Frames
  BY OwnFrames DEF Ends, Feed
<1>2. text[f] \in TextsOf(f) /\ "lf" \notin Letters(text[f])
  BY <1>1 DEF Flow, Sender, Entered
<1>3. text[f] \in {y \in Texts : "lf" \notin Letters(y)}
  BY <1>1, <1>2 DEF Texts
<1>4. /\ UNCHANGED got /\ part' = [part EXCEPT !["client"] = <<>>]
      /\ sent' = IF Clean(part["client"] \o text[f]) = <<>> THEN sent
                 ELSE [sent EXCEPT !["client"] = Append(@, Clean(part["client"] \o text[f]))]
  BY DEF Feed, readerVars
<1>5. part \in [Ends -> Strings] /\ sent \in [Ends -> Lines]
  BY DEF Flow, Data
<1>6. ToServer!Put(text[f])
  BY <1>1, <1>4, <1>5 DEF ToServer!Put
<1> QED
  BY <1>3, <1>6

\* ... a write that fails in the middle leaves a piece of one, ...
LEMMA FailureTears ==
  ASSUME Flow, NEW f \in FramesOf("client"), WriteFails("client", f),
         part'["client"] # part["client"]
  PROVE  \E x \in {y \in Texts : "lf" \notin Letters(y)} : ToServer!Tear(x)
<1>1. "client" \in Ends /\ call[f] \in {"write", "feed"} /\ f \in Frames
  BY OwnFrames DEF Ends, WriteFails
<1>2. /\ text[f] \in TextsOf(f) /\ "lf" \notin Letters(text[f])
      /\ written[f] \in Nat /\ written[f] <= Len(text[f]) /\ text[f] \in Strings
  BY <1>1 DEF Flow, Data, Sender, Entered
<1>3. text[f] \in {y \in Texts : "lf" \notin Letters(y)}
  BY <1>1, <1>2 DEF Texts
<1>4. /\ UNCHANGED <<sent, got>> /\ part \in [Ends -> Strings]
      /\ part' = [part EXCEPT !["client"] = @ \o SubSeq(text[f], 1, written[f])]
  BY DEF WriteFails, readerVars, Flow, Data
<1>5. /\ part'["client"] = part["client"] \o SubSeq(text[f], 1, written[f])
      /\ part["client"] \in Strings
  BY <1>1, <1>4
<1>6. written[f] # 0
  <2>1. SUFFICES ASSUME written[f] = 0 PROVE FALSE
    OBVIOUS
  <2>2. SubSeq(text[f], 1, written[f]) = <<>>
    BY <2>1, SubSeqEmpty
  <2> QED
    BY <1>5, <2>2, ConcatEmptySeq DEF Strings
<1>7. written[f] \in 1 .. Len(text[f])
  BY <1>2, <1>6, LenProperties DEF Strings
<1>8. ToServer!Tear(text[f])
  BY <1>4, <1>5, <1>7 DEF ToServer!Tear
<1> QED
  BY <1>3, <1>8

\* ... and no other step of either end does anything to the channel.
LEMMA ChannelStep ==
  ASSUME Flow, [Next]_vars
  PROVE  \/ ToServer!Next
         \/ UNCHANGED <<sent["client"], part["client"], got["server"]>>
<1> DEFINE Idle == UNCHANGED <<sent["client"], part["client"], got["server"]>>
<1>1. ASSUME NEW e \in Ends,
             \/ CloseFlags(e) \/ CloserStep(e) \/ Start(e) \/ ReaderCheck(e)
             \/ PollWake(e) \/ PollHangUp(e) \/ PollFails(e) \/ ExcessByte(e)
             \/ ReaderEnd(e) \/ Release(e) \/ PollRead(e) \/ PlainByte(e)
      PROVE  Idle
  BY <1>1 DEF CloseFlags, CloserStep, CloseWake, CloseJoin, CloseLock, Start,
    ReaderCheck, PollWake, PollHangUp, PollFails, ExcessByte, ReaderEnd, Release,
    PollRead, PlainByte, readerVars, sendVars
<1>2. ASSUME NEW e \in Ends, LineByte(e) PROVE ToServer!Next \/ Idle
  <2>1. UNCHANGED <<sent, part>>
    BY <1>2 DEF LineByte, sendVars
  <2>2. CASE e = "client"
    <3>1. got'["server"] = got["server"]
      BY <1>2, <2>2 DEF LineByte, Flow, Data
    <3> QED
      BY <2>1, <3>1
  <2>3. CASE e = "server"
    BY <1>2, <2>1, <2>3, LineIsNext DEF ToServer!Next
  <2> QED
    BY <2>2, <2>3 DEF Ends
<1>3. ASSUME NEW e \in Ends, NEW f \in FramesOf(e),
             Enter(e, f) \/ SendStep(e, f) \/ WriteFails(e, f)
      PROVE  ToServer!Next \/ Idle
  <2>1. UNCHANGED got
    BY <1>3 DEF Enter, SendStep, Lock, Write, Feed, WriteFails, readerVars
  <2>2. CASE Enter(e, f) \/ Lock(e, f) \/ Write(e, f)
    BY <2>1, <2>2 DEF Enter, Lock, Write
  <2>3. CASE e = "server" /\ (Feed(e, f) \/ WriteFails(e, f))
    <3>1. sent'["client"] = sent["client"] /\ part'["client"] = part["client"]
      <4>1. sent \in [Ends -> Lines] /\ part \in [Ends -> Strings] /\ "client" \in Ends
        BY DEF Flow, Data, Ends
      <4>2. CASE Feed(e, f)
        BY <2>3, <4>1, <4>2 DEF Feed
      <4>3. CASE WriteFails(e, f)
        BY <2>3, <4>1, <4>3 DEF WriteFails
      <4> QED
        BY <2>3, <4>2, <4>3
    <3> QED
      BY <2>1, <3>1
  <2>4. CASE e = "client" /\ Feed(e, f)
    BY <2>4, FeedPuts DEF ToServer!Next
  <2>5. CASE e = "client" /\ WriteFails(e, f)
    <3>1. UNCHANGED sent
      BY <2>5 DEF WriteFails
    <3> QED
      BY <2>1, <2>5, <3>1, FailureTears DEF ToServer!Next
  <2> QED
    BY <1>3, <2>2, <2>3, <2>4, <2>5 DEF SendStep, Ends
<1>4. CASE UNCHANGED vars
  BY <1>4 DEF vars, readerVars, sendVars
<1> QED
  BY <1>1, <1>2, <1>3, <1>4 DEF Next, ReaderStep

\* What the client sends arrives at the server as whole frames, each once and in
\* order, however the threads interleave and the writes and reads are cut, fail or
\* are closed under way.
THEOREM StdioIsAChannel == Spec => ChannelToServer
<1>1. Init => ToServer!Init
  BY DEF Init, ToServer!Init, Ends
<1>2. ASSUME Flow, [Next]_vars
      PROVE  [ToServer!Next]_<<sent["client"], part["client"], got["server"]>>
  BY <1>2, ChannelStep
<1> QED
  BY <1>1, <1>2, FlowInvariance, PTL DEF Spec, ChannelToServer, ToServer!Spec
=============================================================================
