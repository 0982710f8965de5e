---------------------------- MODULE MessageProofs ----------------------------
(***************************************************************************)
(* Theorems about Message, for messages of every size and every spelling   *)
(* of their names.                                                         *)
(***************************************************************************)
EXTENDS Message, SequenceTheorems, InductionLemmas

-----------------------------------------------------------------------------
(* One sequence after the other *)

\* The parts of g up to the k-th, joined.
Flat(g, k) == FlattenSeq([i \in 1..k |-> g[i]])

\* FlattenSeq joins the parts one by one.
LEMMA FlattenParts ==
    ASSUME NEW T, NEW n \in Nat, NEW g \in [1..n -> Seq(T)]
    PROVE  /\ n = 0 => FlattenSeq(g) = <<>>
           /\ n > 0 => \E f : /\ f[1] = g[1]
                              /\ \A i \in 2..n : f[i] = f[i - 1] \o g[i]
                              /\ FlattenSeq(g) = f[n]
<1>0. g \in Seq(Seq(T)) /\ Len(g) = n
  OBVIOUS
<1>1. CASE n = 0
  BY <1>0, <1>1 DEF FlattenSeq
<1>2. CASE n > 0
  <2> DEFINE IsJoin(m, f) == f = [i \in 1..m |-> IF i = 1 THEN g[i] ELSE f[i - 1] \o g[i]]
             S == {m \in Nat : \E f : IsJoin(m, f)}
  <2>1. 0 \in S
    <3>1. IsJoin(0, [i \in 1..0 |-> 0])
      OBVIOUS
    <3>2. QED
      BY <3>1
  <2>2. ASSUME NEW m \in Nat, m \in S PROVE m + 1 \in S
    <3>1. PICK f : IsJoin(m, f)
      BY <2>2
    <3> DEFINE h == [i \in 1..(m + 1) |-> IF i = 1 THEN g[i] ELSE f[i - 1] \o g[i]]
    <3>2. \A i \in 1..m : h[i] = f[i]
      <4>1. \A i \in 1..m : f[i] = IF i = 1 THEN g[i] ELSE f[i - 1] \o g[i]
        BY <3>1
      <4>2. \A i \in 1..m : h[i] = IF i = 1 THEN g[i] ELSE f[i - 1] \o g[i]
        OBVIOUS
      <4> HIDE DEF h, IsJoin
      <4>3. QED
        BY <4>1, <4>2
    <3>3. \A i \in 1..(m + 1) : i # 1 => i - 1 \in 1..m
      OBVIOUS
    <3>4. \A i \in 1..(m + 1) : h[i] = IF i = 1 THEN g[i] ELSE f[i - 1] \o g[i]
      OBVIOUS
    <3>5. \A i \in 1..(m + 1) : h[i] = IF i = 1 THEN g[i] ELSE h[i - 1] \o g[i]
      <4> HIDE DEF h
      <4>1. QED
        BY <3>2, <3>3, <3>4
    <3>6. IsJoin(m + 1, h)
      BY <3>5
    <3> HIDE DEF h, IsJoin
    <3>7. \E k : IsJoin(m + 1, k)
      BY <3>6
    <3>8. QED
      BY <3>7
  <2> HIDE DEF S
  <2>3. n \in S
    BY <2>1, <2>2, EveryNatural
  <2> DEFINE join == CHOOSE f : IsJoin(n, f)
  <2>4. IsJoin(n, join)
    BY <2>3 DEF S
  <2>5. FlattenSeq(g) = join[n]
    BY <1>0, <1>2 DEF FlattenSeq
  <2> HIDE DEF join
  <2>6. join[1] = g[1]
    BY <1>2, <2>4
  <2>7. \A i \in 2..n : join[i] = join[i - 1] \o g[i]
    <3>1. \A i \in 1..n : join[i] = IF i = 1 THEN g[i] ELSE join[i - 1] \o g[i]
      BY <2>4
    <3>2. \A i \in 2..n : i \in 1..n /\ i # 1
      OBVIOUS
    <3> HIDE DEF IsJoin
    <3>3. QED
      BY <3>1, <3>2
  <2>8. \E f : /\ f[1] = g[1]
               /\ \A i \in 2..n : f[i] = f[i - 1] \o g[i]
               /\ FlattenSeq(g) = f[n]
    BY <2>5, <2>6, <2>7, Zenon
  <2>9. n # 0
    BY <1>2
  <2>10. QED
    BY <2>8, <2>9, Zenon
<1>3. QED
  BY <1>1, <1>2

\* One part more is joined at the end.
LEMMA FlattenNext ==
    ASSUME NEW T, NEW n \in Nat, NEW g \in [1..(n + 1) -> Seq(T)],
           NEW h \in [1..n -> Seq(T)], \A i \in 1..n : h[i] = g[i]
    PROVE  FlattenSeq(g) = FlattenSeq(h) \o g[n + 1]
<1>1. PICK f : /\ f[1] = g[1]
               /\ \A i \in 2..(n + 1) : f[i] = f[i - 1] \o g[i]
               /\ FlattenSeq(g) = f[n + 1]
  <2> DEFINE m == n + 1
  <2>1. m \in Nat /\ m > 0 /\ g \in [1..m -> Seq(T)]
    OBVIOUS
  <2> HIDE DEF m
  <2>2. \E f : /\ f[1] = g[1]
               /\ \A i \in 2..m : f[i] = f[i - 1] \o g[i]
               /\ FlattenSeq(g) = f[m]
    BY <2>1, FlattenParts
  <2>3. QED
    BY <2>2 DEF m
<1>2. CASE n = 0
  <2>1. FlattenSeq(h) = <<>>
    BY <1>2, FlattenParts
  <2>2. g[1] \in Seq(T) /\ FlattenSeq(g) = g[1]
    BY <1>1, <1>2
  <2>3. QED
    BY <1>2, <2>1, <2>2, ConcatEmptySeq
<1>3. CASE n > 0
  <2>1. PICK e : /\ e[1] = h[1]
                 /\ \A i \in 2..n : e[i] = e[i - 1] \o h[i]
                 /\ FlattenSeq(h) = e[n]
    BY <1>3, FlattenParts
  <2> DEFINE S == {i \in Nat : i + 1 <= n => e[i + 1] = f[i + 1]}
  <2>2. 0 \in S
    BY <1>1, <1>3, <2>1
  <2>3. ASSUME NEW i \in Nat, i \in S PROVE i + 1 \in S
    <3> SUFFICES ASSUME (i + 1) + 1 <= n PROVE e[(i + 1) + 1] = f[(i + 1) + 1]
      OBVIOUS
    <3> DEFINE j == (i + 1) + 1
    <3>1. j \in 2..n /\ j - 1 = i + 1 /\ j \in 2..(n + 1) /\ j \in 1..n
      OBVIOUS
    <3>2. e[j - 1] = f[j - 1]
      BY <2>3, <3>1
    <3> HIDE DEF j
    <3>3. e[j] = f[j]
      BY <1>1, <2>1, <3>1, <3>2
    <3>4. QED
      BY <3>3 DEF j
  <2> HIDE DEF S
  <2>4. Nat \subseteq S
    BY <2>2, <2>3, EveryNatural
  <2>5. e[n] = f[n]
    <3>1. n - 1 \in S /\ (n - 1) + 1 = n
      BY <1>3, <2>4
    <3>2. QED
      BY <3>1 DEF S
  <2>6. n + 1 \in 2..(n + 1) /\ (n + 1) - 1 = n
    BY <1>3
  <2>7. f[n + 1] = f[n] \o g[n + 1]
    BY <1>1, <2>6
  <2>8. QED
    BY <1>1, <2>1, <2>5, <2>7
<1>4. QED
  BY <1>2, <1>3

\* The parts up to the next are those before it, and then it.
LEMMA FlatAdds ==
    ASSUME NEW T, NEW n \in Nat, NEW g \in [1..n -> Seq(T)]
    PROVE  /\ Flat(g, 0) = <<>>
           /\ \A k \in 0..(n - 1) : Flat(g, k + 1) = Flat(g, k) \o g[k + 1]
           /\ \A k \in 0..n : Flat(g, k) \in Seq(T)
           /\ FlattenSeq(g) = Flat(g, n)
<1> DEFINE upTo(k) == [i \in 1..k |-> g[i]]
<1>1. \A k \in 0..n : upTo(k) \in [1..k -> Seq(T)]
  OBVIOUS
<1>2. Flat(g, 0) = <<>>
  <2> DEFINE a == upTo(0)
             m == 0
  <2>1. m \in Nat /\ m = 0 /\ a \in [1..m -> Seq(T)]
    OBVIOUS
  <2> HIDE DEF a, m
  <2>2. FlattenSeq(a) = <<>>
    BY <2>1, FlattenParts
  <2>3. QED
    BY <2>2 DEF Flat, a
<1>3. ASSUME NEW k \in 0..(n - 1) PROVE Flat(g, k + 1) = Flat(g, k) \o g[k + 1]
  <2> DEFINE a == upTo(k + 1)
             b == upTo(k)
  <2>1. a \in [1..(k + 1) -> Seq(T)] /\ b \in [1..k -> Seq(T)]
    BY <1>1
  <2>2. a[k + 1] = g[k + 1] /\ \A i \in 1..k : b[i] = a[i]
    OBVIOUS
  <2>k. k \in Nat
    OBVIOUS
  <2> HIDE DEF a, b
  <2>3. FlattenSeq(a) = FlattenSeq(b) \o a[k + 1]
    BY <2>k, <2>1, <2>2, FlattenNext
  <2>4. QED
    BY <2>2, <2>3 DEF Flat, a, b
<1> DEFINE S == {k \in Nat : k <= n => Flat(g, k) \in Seq(T)}
<1>4. 0 \in S
  BY <1>2, EmptySeq
<1>5. ASSUME NEW k \in Nat, k \in S PROVE k + 1 \in S
  <2> SUFFICES ASSUME k + 1 <= n PROVE Flat(g, k + 1) \in Seq(T)
    OBVIOUS
  <2>1. k \in 0..(n - 1) /\ Flat(g, k) \in Seq(T) /\ g[k + 1] \in Seq(T)
    BY <1>5
  <2>2. QED
    BY <1>3, <2>1, ConcatProperties
<1> HIDE DEF S
<1>6. Nat \subseteq S
  BY <1>4, <1>5, EveryNatural
<1>7. \A k \in 0..n : Flat(g, k) \in Seq(T)
  BY <1>6 DEF S
<1>8. upTo(n) = g
  OBVIOUS
<1>9. FlattenSeq(g) = Flat(g, n)
  BY <1>8 DEF Flat
<1>10. QED
  BY <1>2, <1>3, <1>7, <1>9

-----------------------------------------------------------------------------
(* Octets in a datagram *)

\* The octets s stand in w after the first o.
Occurs(w, o, s) == o + Len(s) <= Len(w) /\ \A j \in 1..Len(s) : w[o + j] = s[j]

\* w2 begins with w.
Extends(w2, w) == Len(w) <= Len(w2) /\ \A j \in 1..Len(w) : w2[j] = w[j]

\* What stands in a datagram also stands in a longer one.
LEMMA OccursOn ==
    ASSUME NEW w \in Seq(Nat), NEW w2 \in Seq(Nat), NEW o \in Nat, NEW s \in Seq(Nat),
           Occurs(w, o, s), Extends(w2, w)
    PROVE  Occurs(w2, o, s)
<1>1. Len(w) \in Nat /\ Len(w2) \in Nat /\ Len(s) \in Nat
  BY LenProperties
<1>2. o + Len(s) <= Len(w2)
  BY <1>1 DEF Occurs, Extends
<1>3. ASSUME NEW j \in 1..Len(s) PROVE w2[o + j] = s[j]
  <2>1. o + j \in 1..Len(w)
    BY <1>1 DEF Occurs
  <2>2. w2[o + j] = w[o + j]
    BY <2>1 DEF Extends
  <2>3. QED
    BY <2>2 DEF Occurs
<1>4. QED
  BY <1>2, <1>3 DEF Occurs

\* A datagram extends itself, and what its extensions extend.
LEMMA ExtendsOrder ==
    ASSUME NEW u \in Seq(Nat), NEW v \in Seq(Nat), NEW w \in Seq(Nat)
    PROVE  /\ Extends(u, u)
           /\ Extends(w, v) /\ Extends(v, u) => Extends(w, u)
<1>1. Len(u) \in Nat /\ Len(v) \in Nat /\ Len(w) \in Nat
  BY LenProperties
<1>2. Extends(u, u)
  BY <1>1 DEF Extends
<1>3. ASSUME Extends(w, v), Extends(v, u) PROVE Extends(w, u)
  <2>1. Len(u) <= Len(w)
    BY <1>1, <1>3 DEF Extends
  <2>2. \A j \in 1..Len(u) : j \in 1..Len(v)
    BY <1>1, <1>3 DEF Extends
  <2>3. QED
    BY <1>3, <2>1, <2>2 DEF Extends
<1>4. QED
  BY <1>2, <1>3

\* What is appended stands at the end.
LEMMA AppendedOccurs ==
    ASSUME NEW w \in Seq(Nat), NEW s \in Seq(Nat)
    PROVE  /\ w \o s \in Seq(Nat)
           /\ Len(w \o s) = Len(w) + Len(s)
           /\ Extends(w \o s, w)
           /\ Occurs(w \o s, Len(w), s)
<1>1. Len(w) \in Nat /\ Len(s) \in Nat
  BY LenProperties
<1>2. /\ w \o s \in Seq(Nat)
      /\ Len(w \o s) = Len(w) + Len(s)
      /\ \A i \in 1..(Len(w) + Len(s)) : (w \o s)[i] = IF i <= Len(w) THEN w[i] ELSE s[i - Len(w)]
  BY ConcatProperties
<1>3. Extends(w \o s, w)
  BY <1>1, <1>2 DEF Extends
<1>4. ASSUME NEW j \in 1..Len(s) PROVE (w \o s)[Len(w) + j] = s[j]
  <2>1. /\ Len(w) + j \in 1..(Len(w) + Len(s))
        /\ ~(Len(w) + j <= Len(w))
        /\ (Len(w) + j) - Len(w) = j
    BY <1>1
  <2>2. QED
    BY <1>2, <2>1
<1>5. QED
  BY <1>1, <1>2, <1>3, <1>4 DEF Occurs

\* It does not matter which octets are joined first.
LEMMA Joined ==
    \A r \in Seq(Nat), s \in Seq(Nat), t \in Seq(Nat) :
       r \o s \in Seq(Nat) /\ r \o (s \o t) = (r \o s) \o t
<1>1. ASSUME NEW r \in Seq(Nat), NEW s \in Seq(Nat), NEW t \in Seq(Nat)
      PROVE  r \o s \in Seq(Nat) /\ r \o (s \o t) = (r \o s) \o t
  <2>1. (r \o s) \o t = r \o (s \o t)
    BY ConcatAssociative
  <2>2. r \o s \in Seq(Nat)
    BY ConcatProperties
  <2>3. QED
    BY <2>1, <2>2
<1>2. QED
  BY <1>1

\* Two runs of octets stand one after the other.
LEMMA OccursParts ==
    ASSUME NEW w \in Seq(Nat), NEW o \in Nat, NEW s \in Seq(Nat), NEW t \in Seq(Nat),
           Occurs(w, o, s \o t)
    PROVE  /\ s \o t \in Seq(Nat)
           /\ Len(s \o t) = Len(s) + Len(t)
           /\ Occurs(w, o, s)
           /\ Occurs(w, o + Len(s), t)
<1>1. Len(w) \in Nat /\ Len(s) \in Nat /\ Len(t) \in Nat
  BY LenProperties
<1>2. /\ s \o t \in Seq(Nat)
      /\ Len(s \o t) = Len(s) + Len(t)
      /\ \A i \in 1..(Len(s) + Len(t)) : (s \o t)[i] = IF i <= Len(s) THEN s[i] ELSE t[i - Len(s)]
  BY ConcatProperties
<1>3. /\ o + (Len(s) + Len(t)) <= Len(w)
      /\ \A i \in 1..(Len(s) + Len(t)) : w[o + i] = (s \o t)[i]
  BY <1>2 DEF Occurs
<1>4. ASSUME NEW j \in 1..Len(s) PROVE w[o + j] = s[j]
  <2>1. j \in 1..(Len(s) + Len(t)) /\ j <= Len(s)
    BY <1>1
  <2>2. QED
    BY <1>2, <1>3, <2>1
<1>5. ASSUME NEW j \in 1..Len(t) PROVE w[(o + Len(s)) + j] = t[j]
  <2> DEFINE i == Len(s) + j
  <2>1. /\ i \in 1..(Len(s) + Len(t)) /\ ~(i <= Len(s)) /\ i - Len(s) = j
        /\ o + i = (o + Len(s)) + j
    BY <1>1
  <2> HIDE DEF i
  <2>2. w[o + i] = t[i - Len(s)]
    BY <1>2, <1>3, <2>1
  <2>3. QED
    BY <2>1, <2>2
<1>6. o + Len(s) <= Len(w) /\ (o + Len(s)) + Len(t) <= Len(w)
  BY <1>1, <1>3
<1>7. QED
  BY <1>2, <1>4, <1>5, <1>6 DEF Occurs

\* Numbers of 16 and of 32 bits are read as they were written.
LEMMA NumbersRead ==
    /\ \A n \in Nat : Short(n) \in Seq(Nat) /\ Len(Short(n)) = 2
    /\ \A n \in Nat : Word(n) \in Seq(Nat) /\ Len(Word(n)) = 4
    /\ \A w \in Seq(Nat), o \in Nat, n \in Half :
          Occurs(w, o, Short(n)) => ShortAt(w, o) = n
    /\ \A w \in Seq(Nat), o \in Nat, n \in Nat :
          IsSeconds(n) /\ Occurs(w, o, Word(n)) => IntAt(w, o) = n
<1>1. ASSUME NEW n \in Nat PROVE Short(n) \in Seq(Nat) /\ Len(Short(n)) = 2
  <2>1. n \div 256 \in Nat /\ n % 256 \in Nat
    OBVIOUS
  <2>2. QED
    BY <2>1 DEF Short
<1>2. ASSUME NEW n \in Nat PROVE Word(n) \in Seq(Nat) /\ Len(Word(n)) = 4
  <2>1. n \div 65536 \in Nat /\ n % 65536 \in Nat
    OBVIOUS
  <2> DEFINE a == Short(n \div 65536)
             b == Short(n % 65536)
  <2>2. a \in Seq(Nat) /\ Len(a) = 2 /\ b \in Seq(Nat) /\ Len(b) = 2
    BY <1>1, <2>1
  <2> HIDE DEF a, b
  <2>3. a \o b \in Seq(Nat) /\ Len(a \o b) = 4
    <3>1. a \o b \in Seq(Nat) /\ Len(a \o b) = Len(a) + Len(b)
      BY <2>2, AppendedOccurs
    <3>2. QED
      BY <2>2, <3>1
  <2>4. QED
    BY <2>3 DEF Word, a, b
<1>3. ASSUME NEW w \in Seq(Nat), NEW o \in Nat, NEW n \in Half, Occurs(w, o, Short(n))
      PROVE  ShortAt(w, o) = n
  <2>1. Len(Short(n)) = 2 /\ Short(n)[1] = n \div 256 /\ Short(n)[2] = n % 256
    BY DEF Short
  <2>2. w[o + 1] = n \div 256 /\ w[o + 2] = n % 256
    BY <1>3, <2>1 DEF Occurs
  <2>3. ShortAt(w, o) = 256 * w[o + 1] + w[o + 2]
    <3>1. (o + 1) + 1 = o + 2
      OBVIOUS
    <3>2. QED
      BY <3>1 DEF ShortAt, char2Short, At
  <2>4. 256 * (n \div 256) + (n % 256) = n
    BY SMT DEF Half
  <2>5. QED
    BY <2>2, <2>3, <2>4
<1>4. ASSUME NEW w \in Seq(Nat), NEW o \in Nat, NEW n \in Nat, IsSeconds(n), Occurs(w, o, Word(n))
      PROVE  IntAt(w, o) = n
  <2> DEFINE h == n \div 65536
             l == n % 65536
  <2>a. h \in Nat /\ h <= 65535
    <3>1. n \div 65536 < 32768
      BY <1>4 DEF IsSeconds
    <3>2. n \div 65536 \in Nat
      OBVIOUS
    <3>3. QED
      BY <3>1, <3>2
  <2>b. l \in Nat /\ l <= 65535
    OBVIOUS
  <2>c. 65536 * h + l = n
    OBVIOUS
  <2> HIDE DEF h, l
  <2>d. h \in Half /\ l \in Half
    BY <2>a, <2>b, SMT DEF Half
  <2>1. h \in Half /\ l \in Half /\ h \in Nat /\ l \in Nat /\ 65536 * h + l = n
    BY <2>a, <2>b, <2>c, <2>d
  <2>2. Occurs(w, o, Short(h) \o Short(l))
    BY <1>4 DEF Word, h, l
  <2>3. Short(h) \in Seq(Nat) /\ Len(Short(h)) = 2 /\ Short(l) \in Seq(Nat)
    BY <1>1, <2>1
  <2>4. Occurs(w, o, Short(h)) /\ Occurs(w, o + 2, Short(l))
    BY <2>2, <2>3, OccursParts
  <2>5. ShortAt(w, o) = h /\ ShortAt(w, o + 2) = l
    BY <1>3, <2>1, <2>4
  <2>6. QED
    BY <2>1, <2>5 DEF IntAt
<1>5. QED
  BY <1>1, <1>2, <1>3, <1>4

-----------------------------------------------------------------------------
(* Names *)

\* A name grows by the length and the octets of its next label.
LEMMA PrefixedAdds ==
    ASSUME NEW ls \in Seq(Label)
    PROVE  /\ Prefixed(SubSeq(ls, 1, 0)) = <<>>
           /\ \A k \in 0..(Len(ls) - 1) :
                 /\ Prefixed(SubSeq(ls, 1, k + 1)) =
                       Prefixed(SubSeq(ls, 1, k)) \o (<<Len(ls[k + 1])>> \o ls[k + 1])
                 /\ Len(Prefixed(SubSeq(ls, 1, k + 1))) =
                       Len(Prefixed(SubSeq(ls, 1, k))) + 1 + Len(ls[k + 1])
           /\ \A k \in 0..Len(ls) :
                 /\ Prefixed(SubSeq(ls, 1, k)) \in Seq(Nat)
                 /\ Len(Prefixed(SubSeq(ls, 1, k))) >= k
           /\ Prefixed(ls) = Prefixed(SubSeq(ls, 1, Len(ls)))
<1> DEFINE n == Len(ls)
           g == [i \in 1..n |-> <<Len(ls[i])>> \o ls[i]]
           p(k) == Prefixed(SubSeq(ls, 1, k))
<1>1. n \in Nat /\ DOMAIN ls = 1..n
  BY LenProperties
<1>2. ASSUME NEW i \in 1..n
      PROVE  /\ ls[i] \in Seq(Nat) /\ Len(ls[i]) \in 1..63
             /\ g[i] = <<Len(ls[i])>> \o ls[i]
             /\ g[i] \in Seq(Nat)
             /\ Len(g[i]) = 1 + Len(ls[i])
  <2>1. ls[i] \in Label
    BY <1>1
  <2>2. ls[i] \in Seq(Nat) /\ Len(ls[i]) \in 1..63
    <3>1. ls[i] \in Seq(Letter)
      BY <2>1 DEF Label
    <3>2. Letter \subseteq Nat
      BY DEF Letter, Octet
    <3>3. QED
      BY <2>1, <3>1, <3>2, SeqMonotonic DEF Label
  <2>3. <<Len(ls[i])>> \in Seq(Nat) /\ Len(<<Len(ls[i])>>) = 1
    BY <2>2
  <2>4. g[i] = <<Len(ls[i])>> \o ls[i]
    OBVIOUS
  <2> HIDE DEF g
  <2>5. QED
    BY <2>2, <2>3, <2>4, ConcatProperties
<1>3. g \in [1..n -> Seq(Nat)]
  <2>1. \A i \in 1..n : <<Len(ls[i])>> \o ls[i] \in Seq(Nat)
    BY <1>2
  <2>2. QED
    BY <2>1
<1>4. ASSUME NEW k \in 0..n PROVE p(k) = Flat(g, k)
  <2> DEFINE s == SubSeq(ls, 1, k)
  <2>1. /\ DOMAIN s = 1..k
        /\ \A i \in 1..k : s[i] = ls[i] /\ i \in 1..n
    BY <1>1
  <2> HIDE DEF s
  <2>2. \A i \in 1..k : <<Len(s[i])>> \o s[i] = g[i]
    BY <2>1
  <2>3. [i \in DOMAIN s |-> <<Len(s[i])>> \o s[i]] = [i \in 1..k |-> g[i]]
    <3> HIDE DEF g
    <3>1. QED
      BY <2>1, <2>2
  <2>4. QED
    BY <2>3 DEF Prefixed, Flat, s
<1> HIDE DEF g, n, p
<1>5. /\ Flat(g, 0) = <<>>
      /\ \A k \in 0..(n - 1) : Flat(g, k + 1) = Flat(g, k) \o g[k + 1]
      /\ \A k \in 0..n : Flat(g, k) \in Seq(Nat)
  BY <1>1, <1>3, FlatAdds
<1>6. /\ p(0) = <<>>
      /\ \A k \in 0..n : p(k) \in Seq(Nat)
  BY <1>1, <1>4, <1>5
<1>7. ASSUME NEW k \in 0..(n - 1)
      PROVE  /\ p(k + 1) = p(k) \o (<<Len(ls[k + 1])>> \o ls[k + 1])
             /\ Len(p(k + 1)) = Len(p(k)) + 1 + Len(ls[k + 1])
             /\ Len(p(k)) \in Nat
             /\ Len(ls[k + 1]) \in 1..63
  <2>1. k \in 0..n /\ k + 1 \in 0..n /\ k + 1 \in 1..n
    BY <1>1
  <2>2. p(k + 1) = p(k) \o g[k + 1]
    BY <1>4, <1>5, <2>1
  <2>3. p(k) \in Seq(Nat) /\ Len(p(k)) \in Nat
    BY <1>6, <2>1, LenProperties
  <2>4. /\ g[k + 1] \in Seq(Nat) /\ Len(g[k + 1]) = 1 + Len(ls[k + 1])
        /\ g[k + 1] = <<Len(ls[k + 1])>> \o ls[k + 1]
        /\ Len(ls[k + 1]) \in 1..63
    BY <1>2, <2>1
  <2>5. Len(p(k) \o g[k + 1]) = Len(p(k)) + Len(g[k + 1])
    BY <2>3, <2>4, ConcatProperties
  <2>6. Len(p(k + 1)) = Len(p(k)) + 1 + Len(ls[k + 1])
    <3> DEFINE x == Len(p(k + 1))
               y == Len(p(k))
               z == Len(g[k + 1])
               l == Len(ls[k + 1])
    <3>1. x = y + z /\ z = 1 + l /\ y \in Nat /\ l \in Nat
      BY <2>2, <2>3, <2>4, <2>5
    <3> HIDE DEF x, y, z, l
    <3>2. x = y + 1 + l
      BY <3>1
    <3>3. QED
      BY <3>2 DEF x, y, l
  <2>7. QED
    BY <2>2, <2>3, <2>4, <2>6
<1> DEFINE S == {k \in Nat : k <= n => Len(p(k)) >= k}
<1>8. 0 \in S
  BY <1>6
<1>9. ASSUME NEW k \in Nat, k \in S PROVE k + 1 \in S
  <2> SUFFICES ASSUME k + 1 <= n PROVE Len(p(k + 1)) >= k + 1
    OBVIOUS
  <2>1. k \in 0..(n - 1) /\ Len(p(k)) >= k
    BY <1>1, <1>9
  <2> DEFINE x == Len(p(k + 1))
             y == Len(p(k))
             l == Len(ls[k + 1])
  <2>2. x = y + 1 + l /\ y \in Nat /\ l \in 1..63 /\ y >= k
    BY <1>7, <2>1
  <2> HIDE DEF x, y, l
  <2>3. x >= k + 1
    BY <2>2
  <2>4. QED
    BY <2>3 DEF x
<1> HIDE DEF S
<1>10. Nat \subseteq S
  BY <1>8, <1>9, EveryNatural
<1>11. \A k \in 0..n : Len(p(k)) >= k
  BY <1>1, <1>10 DEF S
<1>12. Prefixed(ls) = p(n)
  BY SubSeqFull DEF p, n
<1>13. QED
  BY <1>6, <1>7, <1>11, <1>12 DEF p, n

-----------------------------------------------------------------------------
(* Reading names *)

\* Labels follows one label or pointer more for every step it is allowed.
LEMMA LabelsStep ==
    ASSUME NEW w, Len(w) \in Nat
    PROVE  /\ Labels(w)[0] = [p \in Nat |-> [labels |-> <<>>, last |-> p]]
           /\ \A n \in 0..(Len(w) - 1) : Labels(w)[n + 1] = LabelsFrom(w, Labels(w)[n])
<1> DEFINE none == [p \in Nat |-> [labels |-> <<>>, last |-> p]]
           Next1(f) == LabelsFrom(w, f)
           IsUpTo(m, f) == f = [n \in 0..m |-> IF n = 0 THEN none ELSE Next1(f[n - 1])]
           S == {m \in Nat : \E f : IsUpTo(m, f)}
           L == Len(w)
<1> HIDE DEF none, Next1
<1>1. 0 \in S
  <2> DEFINE h == [n \in 0..0 |-> none]
  <2>1. \A n \in 0..0 : n = 0
    OBVIOUS
  <2>2. IsUpTo(0, h)
    BY <2>1
  <2>3. QED
    BY <2>2
<1>2. ASSUME NEW m \in Nat, m \in S PROVE m + 1 \in S
  <2>1. PICK f : IsUpTo(m, f)
    BY <1>2
  <2> DEFINE h == [n \in 0..(m + 1) |-> IF n = 0 THEN none ELSE Next1(f[n - 1])]
  <2>2. \A n \in 0..m : h[n] = f[n]
    <3>1. \A n \in 0..m : f[n] = IF n = 0 THEN none ELSE Next1(f[n - 1])
      BY <2>1
    <3>2. \A n \in 0..m : h[n] = IF n = 0 THEN none ELSE Next1(f[n - 1])
      OBVIOUS
    <3> HIDE DEF h, IsUpTo
    <3>3. QED
      BY <3>1, <3>2
  <2>3. \A n \in 0..(m + 1) : n # 0 => n - 1 \in 0..m
    OBVIOUS
  <2>4. \A n \in 0..(m + 1) : h[n] = IF n = 0 THEN none ELSE Next1(h[n - 1])
    <3>1. \A n \in 0..(m + 1) : h[n] = IF n = 0 THEN none ELSE Next1(f[n - 1])
      OBVIOUS
    <3> HIDE DEF h
    <3>2. \A n \in 0..(m + 1) : n # 0 => h[n - 1] = f[n - 1]
      BY <2>2, <2>3
    <3>3. QED
      BY <3>1, <3>2
  <2>5. IsUpTo(m + 1, h)
    BY <2>4
  <2> HIDE DEF h, IsUpTo
  <2>6. \E k : IsUpTo(m + 1, k)
    BY <2>5
  <2>7. QED
    BY <2>6
<1> HIDE DEF S
<1>3. L \in S
  BY <1>1, <1>2, EveryNatural
<1> DEFINE join == CHOOSE f : IsUpTo(L, f)
<1>4. IsUpTo(L, join)
  BY <1>3 DEF S
<1>5. Labels(w) = join
  BY DEF Labels, Next1, none
<1> HIDE DEF join
<1>6. \A n \in 0..L : join[n] = IF n = 0 THEN none ELSE Next1(join[n - 1])
  BY <1>4
<1> HIDE DEF IsUpTo
<1>7. join[0] = none
  BY <1>6
<1>8. ASSUME NEW n \in 0..(L - 1) PROVE join[n + 1] = Next1(join[n])
  <2>1. n + 1 \in 0..L /\ n + 1 # 0 /\ (n + 1) - 1 = n
    OBVIOUS
  <2> DEFINE m == n + 1
  <2>2. join[m] = Next1(join[m - 1])
    <3> HIDE DEF m
    <3>1. m \in 0..L /\ m # 0
      BY <2>1 DEF m
    <3>2. QED
      BY <1>6, <3>1
  <2>3. QED
    BY <2>1, <2>2
<1>9. QED
  BY <1>5, <1>7, <1>8 DEF none, Next1

\* The octets that stand somewhere are the ones taken from there.
LEMMA OctetsRead ==
    ASSUME NEW w \in Seq(Nat), NEW o \in Nat, NEW s \in Seq(Nat), Occurs(w, o, s)
    PROVE  OctetsAt(w, o, Len(s)) = s
<1> DEFINE n == Len(s)
           t == SubSeq(w, o + 1, o + n)
<1>1. n \in Nat /\ Len(w) \in Nat /\ o + n <= Len(w)
  BY LenProperties DEF Occurs
<1>2. t \in Seq(Nat) /\ Len(t) = n /\ \A i \in 1..n : t[i] = w[o + i]
  <2>1. /\ t = [i \in 1..n |-> w[o + i]]
        /\ \A i \in 1..n : o + i \in 1..Len(w)
    <3>1. (o + n) - (o + 1) + 1 = n /\ \A i \in 1..n : i + (o + 1) - 1 = o + i
      BY <1>1
    <3>2. \A i \in 1..n : o + i \in 1..Len(w)
      BY <1>1
    <3>3. t = [i \in 1..n |-> w[o + i]]
      BY <1>1
    <3>4. QED
      BY <3>2, <3>3
  <2> HIDE DEF t, n
  <2>2. \A i \in 1..n : w[o + i] \in Nat
    BY <2>1, ElementOfSeq
  <2>3. QED
    BY <1>1, <2>1, <2>2
<1>3. \A i \in 1..n : t[i] = s[i]
  BY <1>2 DEF Occurs
<1> HIDE DEF t
<1>4. t = s
  BY <1>1, <1>2, <1>3, SeqEqual
<1>5. QED
  BY <1>4 DEF t, OctetsAt

\* What stands at an offset: the end of a name, a pointer, or a label.
LEMMA ReadEnd ==
    ASSUME NEW w \in Seq(Nat), NEW p \in Nat, Occurs(w, p, << 0 >>), NEW n \in 0..Len(w)
    PROVE  Labels(w)[n][p] = [labels |-> <<>>, last |-> p]
<1>1. Len(w) \in Nat
  BY LenProperties
<1>2. At(w, p) = 0
  <2>1. Len(<<0>>) = 1 /\ <<0>>[1] = 0
    OBVIOUS
  <2>2. QED
    BY <2>1 DEF Occurs, At
<1>3. CASE n = 0
  BY <1>1, <1>3, LabelsStep
<1>4. CASE n # 0
  <2>1. n - 1 \in 0..(Len(w) - 1) /\ (n - 1) + 1 = n
    BY <1>1, <1>4
  <2>2. Labels(w)[n] = LabelsFrom(w, Labels(w)[n - 1])
    <3>1. Labels(w)[(n - 1) + 1] = LabelsFrom(w, Labels(w)[n - 1])
      BY <1>1, <2>1, LabelsStep
    <3>2. QED
      BY <2>1, <3>1
  <2>3. QED
    BY <1>2, <2>2 DEF LabelsFrom
<1>5. QED
  BY <1>3, <1>4

LEMMA ReadPointer ==
    ASSUME NEW w \in Seq(Nat), NEW p \in Nat, NEW t \in Nat, t \div 256 < 64,
           Occurs(w, p, <<192 + (t \div 256), t % 256>>), NEW n \in 0..(Len(w) - 1)
    PROVE  Labels(w)[n + 1][p] = [labels |-> Labels(w)[n][t].labels, last |-> p + 1]
<1>1. Len(w) \in Nat
  BY LenProperties
<1> DEFINE h == t \div 256
           l == t % 256
           s == <<192 + h, l>>
<1>2. h \in 0..63 /\ l \in 0..255 /\ 256 * h + l = t
  <2>1. 256 * h + l = t /\ h \in Nat /\ l \in 0..255
    OBVIOUS
  <2>2. h < 64
    OBVIOUS
  <2> HIDE DEF h
  <2>3. QED
    BY <2>1, <2>2
<1> HIDE DEF h, l
<1>3. At(w, p) = 192 + h /\ At(w, p + 1) = l
  <2>1. Occurs(w, p, s)
    BY DEF h, l
  <2>2. Len(s) = 2 /\ s[1] = 192 + h /\ s[2] = l
    OBVIOUS
  <2> HIDE DEF s
  <2>3. w[p + 1] = 192 + h /\ w[p + 2] = l
    BY <2>1, <2>2 DEF Occurs
  <2>4. (p + 1) + 1 = p + 2
    OBVIOUS
  <2>5. QED
    BY <2>3, <2>4 DEF At
<1>4. At(w, p) # 0 /\ At(w, p) >= 192 /\ At(w, p) % 64 = h
  <2>1. \A x \in 0..63 : (192 + x) # 0 /\ (192 + x) >= 192 /\ (192 + x) % 64 = x
    OBVIOUS
  <2> DEFINE a == At(w, p)
  <2>2. a = 192 + h /\ h \in 0..63
    BY ONLY <1>2, <1>3
  <2> HIDE DEF a
  <2>3. a # 0 /\ a >= 192 /\ a % 64 = h
    BY ONLY <2>1, <2>2
  <2>4. QED
    BY ONLY <2>3 DEF a
<1>5. char2Short(At(w, p) % 64, At(w, p + 1)) = t
  BY <1>2, <1>3, <1>4 DEF char2Short
<1>6. Labels(w)[n + 1] = LabelsFrom(w, Labels(w)[n])
  <2>1. \A m \in 0..(Len(w) - 1) : Labels(w)[m + 1] = LabelsFrom(w, Labels(w)[m])
    BY <1>1, LabelsStep
  <2>2. QED
    BY <2>1
<1>7. QED
  BY <1>4, <1>5, <1>6 DEF LabelsFrom

LEMMA ReadLabel ==
    ASSUME NEW w \in Seq(Nat), NEW p \in Nat, NEW l \in Label,
           Occurs(w, p, <<Len(l)>> \o l), NEW n \in 0..(Len(w) - 1)
    PROVE  LET rest == Labels(w)[n][p + 1 + Len(l)] IN
           Labels(w)[n + 1][p] = [labels |-> <<l>> \o rest.labels, last |-> rest.last]
<1>1. Len(w) \in Nat
  BY LenProperties
<1>2. l \in Seq(Nat) /\ Len(l) \in 1..63
  <2>1. l \in Seq(Letter)
    BY DEF Label
  <2>2. Letter \subseteq Nat
    BY DEF Letter, Octet
  <2>3. QED
    BY <2>1, <2>2, SeqMonotonic DEF Label
<1> DEFINE k == Len(l)
           c == <<k>>
<1>3. c \in Seq(Nat) /\ Len(c) = 1 /\ c[1] = k
  BY <1>2
<1> HIDE DEF c
<1>4. Occurs(w, p, c) /\ Occurs(w, p + 1, l)
  <2>1. Occurs(w, p, c \o l)
    BY DEF c
  <2>2. QED
    BY <1>2, <1>3, <2>1, OccursParts
<1>5. At(w, p) = k
  BY <1>3, <1>4 DEF Occurs, At
<1>6. At(w, p) # 0 /\ ~(At(w, p) >= 192)
  <2> DEFINE a == At(w, p)
  <2>1. k \in 1..63 /\ a = k
    BY ONLY <1>2, <1>5
  <2> HIDE DEF a, k
  <2>2. a # 0 /\ ~(a >= 192)
    BY ONLY <2>1
  <2>3. QED
    BY ONLY <2>2 DEF a
<1>7. OctetsAt(w, p + 1, At(w, p)) = l
  BY <1>2, <1>4, <1>5, OctetsRead
<1>8. Labels(w)[n + 1] = LabelsFrom(w, Labels(w)[n])
  BY <1>1, LabelsStep
<1> DEFINE further == Labels(w)[n]
<1>9. LabelsFrom(w, further)[p]
        = LET rest == further[p + 1 + At(w, p)] IN
          [labels |-> <<OctetsAt(w, p + 1, At(w, p))>> \o rest.labels, last |-> rest.last]
  <2> HIDE DEF further
  <2>1. QED
    BY ONLY <1>6, p \in Nat DEF LabelsFrom
<1>10. QED
  BY ONLY <1>5, <1>7, <1>8, <1>9 DEF k, further

\* From offset o on, w reads as these labels, in any number of steps from b on.
ReadsAs(w, o, b, labels, q) ==
    \A n \in b..Len(w) : Labels(w)[n][o] = [labels |-> labels, last |-> q]

\* The same of whatever begins with v.
ReadsOn(v, o, b, labels, q) ==
    \A w2 \in Seq(Nat) : Extends(w2, v) => ReadsAs(w2, o, b, labels, q)

\* The name at offset o of whatever begins with v, and its last octet.
NameAt(v, o, name, q) ==
    \A w2 \in Seq(Nat) : Extends(w2, v) => createName(w2, o) = [labels |-> name, last |-> q]

\* Labels that stand at an offset are read one after the other, from any of them
\* on; b is how many steps what follows them needs.
LEMMA ReadLabels ==
    ASSUME NEW w \in Seq(Nat), NEW o \in Nat, NEW ls \in Seq(Label),
           Occurs(w, o, Prefixed(ls)), NEW rest \in Seq(Label), NEW q, NEW b \in Nat,
           ReadsAs(w, o + Len(Prefixed(ls)), b, rest, q)
    PROVE  \A k \in 0..Len(ls) :
              ReadsAs(w, o + Len(Prefixed(SubSeq(ls, 1, k))), b + (Len(ls) - k),
                      SubSeq(ls, k + 1, Len(ls)) \o rest, q)
<1> DEFINE L == Len(ls)
           W == Len(w)
           p(k) == Prefixed(SubSeq(ls, 1, k))
           x(k) == Len(p(k))
           R(k) == [labels |-> SubSeq(ls, k + 1, L) \o rest, last |-> q]
           F(n, i) == Labels(w)[n][i]
           S == {j \in Nat : j <= L =>
                    /\ Occurs(w, o, p(L - j))
                    /\ \A n \in (b + j)..W : F(n, o + x(L - j)) = R(L - j)}
<1>1. L \in Nat /\ W \in Nat
  BY LenProperties
<1>2. 0 \in S
  <2>1. L - 0 = L /\ b + 0 = b
    BY <1>1
  <2>2. p(L) = Prefixed(ls)
    BY PrefixedAdds
  <2>3. R(L) = [labels |-> rest, last |-> q]
    <3>1. SubSeq(ls, L + 1, L) = <<>>
      BY <1>1, SubSeqEmpty
    <3>2. QED
      BY <3>1, ConcatEmptySeq
  <2>4. \A n \in b..W : F(n, o + x(L)) = R(L)
    <3>1. \A n \in b..W : F(n, o + Len(Prefixed(ls))) = [labels |-> rest, last |-> q]
      BY DEF ReadsAs
    <3>2. QED
      BY <2>2, <2>3, <3>1
  <2>5. Occurs(w, o, p(L))
    BY <2>2
  <2> HIDE DEF p, x, R, F, L, W
  <2>6. QED
    BY <2>1, <2>4, <2>5
<1>3. ASSUME NEW j \in Nat, j \in S PROVE j + 1 \in S
  <2> SUFFICES ASSUME j + 1 <= L
               PROVE  /\ Occurs(w, o, p(L - (j + 1)))
                      /\ \A n \in (b + (j + 1))..W : F(n, o + x(L - (j + 1))) = R(L - (j + 1))
    <3> HIDE DEF p, x, R, F, L, W
    <3>1. QED
      OBVIOUS
  <2> DEFINE k == L - (j + 1)
             l == ls[k + 1]
             part == <<Len(l)>> \o l
  <2>1. k \in 0..(L - 1) /\ L - j = k + 1 /\ k \in 0..L /\ k + 1 \in 0..L /\ k + 1 \in 1..L
    BY <1>1
  <2>2. /\ Occurs(w, o, p(k + 1))
        /\ \A n \in (b + j)..W : F(n, o + x(k + 1)) = R(k + 1)
    <3>1. /\ Occurs(w, o, p(L - j))
          /\ \A n \in (b + j)..W : F(n, o + x(L - j)) = R(L - j)
      <4> HIDE DEF p, x, R, F, L, W
      <4>1. QED
        BY <1>1, <1>3
    <3> HIDE DEF p, x, R, F, L, W, k
    <3>2. QED
      BY <2>1, <3>1
  <2>3. /\ p(k + 1) = p(k) \o part
        /\ x(k + 1) = x(k) + 1 + Len(l)
        /\ p(k) \in Seq(Nat)
    <3> HIDE DEF k
    <3>1. QED
      BY <2>1, PrefixedAdds
  <2>4. l \in Label /\ part \in Seq(Nat) /\ x(k) \in Nat /\ Len(l) \in Nat
    <3>1. l \in Label
      <4> HIDE DEF k
      <4>1. QED
        BY <2>1
    <3> HIDE DEF k
    <3>2. l \in Seq(Nat)
      <4>1. l \in Seq(Letter)
        BY <3>1 DEF Label
      <4>2. Letter \subseteq Nat
        BY DEF Letter, Octet
      <4>3. QED
        BY <4>1, <4>2, SeqMonotonic
    <3> HIDE DEF l
    <3>3. Len(l) \in Nat /\ <<Len(l)>> \in Seq(Nat)
      BY <3>2
    <3>4. part \in Seq(Nat)
      BY <3>2, <3>3, ConcatProperties
    <3>5. x(k) \in Nat
      BY <2>3
    <3>6. QED
      BY <3>1, <3>3, <3>4, <3>5
  <2>5. Occurs(w, o, p(k)) /\ Occurs(w, o + x(k), part)
    <3> HIDE DEF p, part, l, k
    <3>1. Occurs(w, o, p(k) \o part)
      BY <2>2, <2>3
    <3>2. QED
      BY <2>3, <2>4, <3>1, OccursParts
  <2>6. ASSUME NEW n \in (b + (j + 1))..W PROVE F(n, o + x(k)) = R(k)
    <3> DEFINE m == n - 1
               i == o + x(k)
               further == F(m, i + 1 + Len(l))
    <3>1. m \in 0..(W - 1) /\ m + 1 = n /\ m \in (b + j)..W
      BY <1>1
    <3>2. i \in Nat /\ i + 1 + Len(l) = o + x(k + 1)
      <4> DEFINE y == x(k)
                 z == x(k + 1)
                 c == Len(l)
      <4>1. z = y + 1 + c /\ y \in Nat /\ c \in Nat
        BY <2>3, <2>4
      <4> HIDE DEF y, z, c
      <4>2. o + y \in Nat /\ (o + y) + 1 + c = o + z
        BY <4>1
      <4>3. QED
        BY <4>2 DEF y, z, c
    <3>3. further = R(k + 1)
      <4> HIDE DEF F, R, m, x, k, l, i
      <4>1. QED
        BY <2>2, <3>1, <3>2
    <3>4. F(m + 1, i) = [labels |-> <<l>> \o further.labels, last |-> further.last]
      <4> HIDE DEF m, k, l, i
      <4>1. Occurs(w, i, <<Len(l)>> \o l)
        BY <2>5 DEF i
      <4>2. QED
        BY <2>4, <3>1, <3>2, <4>1, ReadLabel
    <3>5. /\ further.labels = SubSeq(ls, (k + 1) + 1, L) \o rest
          /\ further.last = q
      <4> HIDE DEF further, k, l
      <4>1. QED
        BY <3>3
    <3>6. <<l>> \o (SubSeq(ls, (k + 1) + 1, L) \o rest) = SubSeq(ls, k + 1, L) \o rest
      <4> DEFINE t == SubSeq(ls, (k + 1) + 1, L)
      <4>1. t \in Seq(Label)
        <5> HIDE DEF k
        <5>1. \A e \in ((k + 1) + 1)..L : ls[e] \in Label
          BY <1>1, <2>1
        <5>2. (k + 1) + 1 \in Int /\ L \in Int
          BY <1>1, <2>1
        <5>3. QED
          BY <5>1, <5>2, SubSeqProperties
      <4>2. SubSeq(ls, k + 1, L) = <<l>> \o t
        <5> HIDE DEF k
        <5>1. L \in (k + 1)..Len(ls) /\ k + 1 \in 1..Len(ls)
          BY <1>1, <2>1
        <5>2. QED
          BY <5>1, SubSeqRecursiveFirst
      <4> HIDE DEF t, l, k
      <4>3. <<l>> \in Seq(Label)
        BY <2>4
      <4>4. (<<l>> \o t) \o rest = <<l>> \o (t \o rest)
        BY ONLY <4>1, <4>3, rest \in Seq(Label), ConcatAssociative
      <4>5. QED
        BY <4>2, <4>4 DEF t
    <3> HIDE DEF further, k, l, F
    <3>7. F(n, i) = R(k)
      BY <3>1, <3>4, <3>5, <3>6
    <3>8. QED
      BY <3>7
  <2> HIDE DEF p, x, R, F, L, W
  <2>7. QED
    BY <2>5, <2>6
<1> HIDE DEF S
<1>4. Nat \subseteq S
  BY <1>2, <1>3, EveryNatural
<1>5. ASSUME NEW k \in 0..L, NEW n \in (b + (L - k))..W PROVE F(n, o + x(k)) = R(k)
  <2> DEFINE j == L - k
  <2>1. j \in Nat /\ j <= L /\ L - j = k
    BY <1>1
  <2> HIDE DEF p, x, R, F, L, W
  <2>2. \A e \in (b + j)..W : F(e, o + x(L - j)) = R(L - j)
    BY <1>4, <2>1 DEF S
  <2>3. QED
    BY <2>1, <2>2
<1>6. QED
  BY <1>5 DEF ReadsAs

\* Whether a question name goes on with a label at this offset.
GoesOn(w, p) == p < Len(w) /\ At(w, p) \in 1..63 /\ p + At(w, p) < Len(w)

\* A question name is its first label and what stands behind it.
LEMMA QuestionNameStep ==
    ASSUME NEW w \in Seq(Nat), NEW p \in 0..Len(w)
    PROVE  LET rest == QuestionName(w)[p + 1 + At(w, p)] IN
           QuestionName(w)[p] =
              IF GoesOn(w, p)
              THEN [labels |-> <<OctetsAt(w, p + 1, At(w, p))>> \o rest.labels, last |-> rest.last]
              ELSE [labels |-> <<>>, last |-> p]
<1> DEFINE L == Len(w)
           next(i) == i + 1 + At(w, i)
           Onward(r, i) == [labels |-> <<OctetsAt(w, i + 1, At(w, i))>> \o r.labels,
                            last |-> r.last]
           end(i) == [labels |-> <<>>, last |-> i]
           Step(f, i) == IF GoesOn(w, i) THEN Onward(f[next(i)], i) ELSE end(i)
           Right(f, k) == /\ f = [i \in 0..L |-> f[i]]
                          /\ \A i \in 0..L : i >= k => f[i] = Step(f, i)
           S == {j \in Nat : j <= L + 1 => \E f : Right(f, (L + 1) - j)}
<1>1. L \in Nat
  BY LenProperties
<1>2. ASSUME NEW i \in 0..L, GoesOn(w, i) PROVE next(i) \in 0..L /\ next(i) > i
  <2> DEFINE a == At(w, i)
  <2>1. a \in 1..63 /\ i + a < L
    BY <1>2 DEF GoesOn
  <2> HIDE DEF a, L
  <2>2. i + 1 + a \in 0..L /\ i + 1 + a > i
    BY <1>1, <2>1
  <2>3. QED
    BY <2>2 DEF a
<1> HIDE DEF Onward, end, next
<1>3. 0 \in S
  <2> DEFINE f == [i \in 0..L |-> 0]
  <2>1. f = [i \in 0..L |-> f[i]] /\ \A i \in 0..L : ~(i >= (L + 1) - 0)
    BY <1>1
  <2> HIDE DEF f, Step
  <2>2. Right(f, (L + 1) - 0)
    BY <2>1
  <2>3. QED
    BY <2>2
<1>4. ASSUME NEW j \in Nat, j \in S PROVE j + 1 \in S
  <2> SUFFICES ASSUME j + 1 <= L + 1 PROVE \E f : Right(f, (L + 1) - (j + 1))
    <3> HIDE DEF Right
    <3>1. QED
      OBVIOUS
  <2> DEFINE k == (L + 1) - (j + 1)
  <2>1. k \in 0..L /\ (L + 1) - j = k + 1 /\ j <= L + 1
    BY <1>1
  <2>2. PICK f : Right(f, k + 1)
    <3> HIDE DEF Right, k
    <3>1. QED
      BY <1>4, <2>1
  <2> HIDE DEF k
  <2> DEFINE h == [i \in 0..L |-> IF i = k THEN Step(f, k) ELSE f[i]]
  <2>3. h = [i \in 0..L |-> h[i]] /\ h[k] = Step(f, k) /\ \A i \in 0..L : i # k => h[i] = f[i]
    <3> HIDE DEF Step
    <3>1. QED
      BY <2>1
  <2> HIDE DEF h
  <2>4. ASSUME NEW i \in 0..L, i >= k PROVE Step(h, i) = Step(f, i)
    <3>1. CASE GoesOn(w, i)
      <4>1. next(i) \in 0..L /\ next(i) # k
        <5>1. next(i) \in 0..L /\ next(i) > i
          BY <1>2, <3>1
        <5>2. QED
          BY <2>1, <2>4, <5>1
      <4>2. h[next(i)] = f[next(i)]
        BY <2>3, <4>1
      <4>3. QED
        BY <4>2
    <3>2. CASE ~GoesOn(w, i)
      BY <3>2
    <3>3. QED
      BY <3>1, <3>2
  <2>5. ASSUME NEW i \in 0..L, i >= k PROVE h[i] = Step(h, i)
    <3>1. CASE i = k
      <4>1. Step(h, k) = Step(f, k)
        BY <2>4, <3>1
      <4> HIDE DEF Step
      <4>2. QED
        BY <2>3, <3>1, <4>1
    <3>2. CASE i # k
      <4>1. i >= k + 1
        BY <2>1, <2>5, <3>2
      <4>2. Step(h, i) = Step(f, i)
        BY <2>4, <2>5
      <4> HIDE DEF Step
      <4>3. f[i] = Step(f, i)
        BY <2>2, <4>1
      <4>4. QED
        BY <2>3, <3>2, <4>2, <4>3
    <3>3. QED
      BY <3>1, <3>2
  <2> HIDE DEF Step
  <2>6. Right(h, k)
    BY <2>3, <2>5
  <2>7. QED
    BY <2>6 DEF k
<1> HIDE DEF S, Right
<1>5. L + 1 \in S
  BY <1>1, <1>3, <1>4, EveryNatural
<1>6. PICK f : Right(f, 0)
  <2>1. (L + 1) - (L + 1) = 0 /\ L + 1 <= L + 1
    BY <1>1
  <2>2. QED
    BY <1>5, <2>1 DEF S
<1> DEFINE Is(g) == g = [i \in 0..L |-> Step(g, i)]
<1>7. Is(f)
  <2>1. \A i \in 0..L : i >= 0
    BY <1>1
  <2> HIDE DEF Step
  <2>2. f = [i \in 0..L |-> f[i]] /\ \A i \in 0..L : f[i] = Step(f, i)
    BY <1>6, <2>1 DEF Right
  <2>3. [i \in 0..L |-> f[i]] = [i \in 0..L |-> Step(f, i)]
    BY <2>2
  <2>4. QED
    BY <2>2, <2>3
<1> DEFINE join == CHOOSE g : Is(g)
<1>8. QuestionName(w) = join
  BY DEF QuestionName, GoesOn, Onward, next, end
<1>9. Is(join)
  <2> HIDE DEF Is
  <2>1. QED
    BY <1>7
<1> HIDE DEF join, L
<1>10. join[p] = Step(join, p)
  <2>1. p \in 0..L
    BY DEF L
  <2> HIDE DEF Step
  <2>2. QED
    BY <1>9, <2>1
<1>11. QED
  BY <1>8, <1>10 DEF Onward, next, end

LEMMA LabelOctets ==
    ASSUME NEW l \in Label
    PROVE  l \in Seq(Nat) /\ Len(l) \in 1..63
<1>1. l \in Seq(Letter) /\ Len(l) \in 1..63
  BY DEF Label
<1>2. Letter \subseteq Nat
  BY DEF Letter, Octet
<1>3. QED
  BY <1>1, <1>2, SeqMonotonic

\* Where labels stand, and behind them the length of none, a question name has
\* these labels and leads there.
LEMMA QuestionNameRead ==
    ASSUME NEW w \in Seq(Nat), NEW o \in Nat, NEW ls \in Seq(Label),
           Occurs(w, o, Prefixed(ls)), NEW q, q = o + Len(Prefixed(ls)), ~GoesOn(w, q)
    PROVE  QuestionName(w)[o] = [labels |-> ls, last |-> q]
<1> DEFINE L == Len(ls)
           W == Len(w)
           p(k) == Prefixed(SubSeq(ls, 1, k))
           x(k) == Len(p(k))
           N(i) == QuestionName(w)[i]
           R(k) == [labels |-> SubSeq(ls, k + 1, L), last |-> q]
           S == {j \in Nat : j <= L => Occurs(w, o, p(L - j)) /\ N(o + x(L - j)) = R(L - j)}
<1>1. L \in Nat /\ W \in Nat
  BY LenProperties
<1>2. p(L) = Prefixed(ls) /\ Prefixed(ls) \in Seq(Nat) /\ q \in 0..W
  <2>1. L \in 0..L
    BY <1>1
  <2>2. p(L) = Prefixed(ls) /\ p(L) \in Seq(Nat)
    BY <2>1, PrefixedAdds
  <2> DEFINE y == Len(Prefixed(ls))
  <2>3. y \in Nat
    BY <2>2, LenProperties
  <2>4. q \in 0..W
    <3>1. q = o + y /\ q <= W
      BY DEF Occurs
    <3> HIDE DEF y, W
    <3>2. QED
      BY ONLY <1>1, <2>3, <3>1, o \in Nat
  <2> HIDE DEF p
  <2>5. QED
    BY <2>2, <2>4
<1>3. 0 \in S
  <2>1. L - 0 = L
    BY <1>1
  <2>2. R(L) = [labels |-> <<>>, last |-> q]
    <3>1. SubSeq(ls, L + 1, L) = <<>>
      BY <1>1, SubSeqEmpty
    <3>2. QED
      BY <3>1
  <2>4. N(q) = [labels |-> <<>>, last |-> q]
    BY <1>2, QuestionNameStep
  <2>5. o + x(L) = q /\ Occurs(w, o, p(L))
    BY <1>2
  <2> HIDE DEF p, x, R, N, L
  <2>6. QED
    BY <2>1, <2>2, <2>4, <2>5
<1>4. ASSUME NEW j \in Nat, j \in S PROVE j + 1 \in S
  <2> SUFFICES ASSUME j + 1 <= L
               PROVE  /\ Occurs(w, o, p(L - (j + 1)))
                      /\ N(o + x(L - (j + 1))) = R(L - (j + 1))
    <3> HIDE DEF p, x, R, N, L
    <3>1. QED
      OBVIOUS
  <2> DEFINE k == L - (j + 1)
             l == ls[k + 1]
             c == << Len(l) >>
             i == o + x(k)
  <2>1. k \in 0..(L - 1) /\ L - j = k + 1 /\ k + 1 \in 1..L /\ j <= L
    <3> HIDE DEF L
    <3>1. QED
      BY <1>1
  <2>2. Occurs(w, o, p(k + 1)) /\ N(o + x(k + 1)) = R(k + 1)
    <3>1. Occurs(w, o, p(L - j)) /\ N(o + x(L - j)) = R(L - j)
      <4> HIDE DEF p, x, R, N, L
      <4>1. QED
        BY <1>4, <2>1
    <3> HIDE DEF p, x, R, N, L, k
    <3>2. QED
      BY <2>1, <3>1
  <2>3. /\ p(k + 1) = p(k) \o (c \o l)
        /\ x(k + 1) = x(k) + 1 + Len(l)
        /\ p(k) \in Seq(Nat)
    <3> HIDE DEF k
    <3>1. k \in 0..L
      BY <1>1, <2>1
    <3>2. QED
      BY <2>1, <3>1, PrefixedAdds
  <2>4. /\ l \in Label /\ l \in Seq(Nat) /\ Len(l) \in 1..63 /\ x(k) \in Nat
        /\ c \in Seq(Nat) /\ Len(c) = 1 /\ c[1] = Len(l)
    <3>1. l \in Label
      <4> HIDE DEF k
      <4>1. QED
        BY <2>1, ElementOfSeq
    <3>2. x(k) \in Nat
      <4> HIDE DEF p
      <4>1. QED
        BY <2>3, LenProperties
    <3> HIDE DEF k, l, x
    <3>3. l \in Seq(Nat) /\ Len(l) \in 1..63
      BY <3>1, LabelOctets
    <3> DEFINE e == Len(l)
    <3>4. c \in Seq(Nat) /\ Len(c) = 1 /\ c[1] = e
      <4>1. e \in Nat /\ c = << e >>
        BY ONLY <3>3 DEF c
      <4> HIDE DEF e, c
      <4>2. QED
        BY ONLY <4>1
    <3> HIDE DEF c
    <3>5. QED
      BY <3>1, <3>2, <3>3, <3>4
  <2>5. Occurs(w, o, p(k)) /\ Occurs(w, i, c \o l) /\ c \o l \in Seq(Nat)
    <3> HIDE DEF p, c, l, k
    <3>1. c \o l \in Seq(Nat)
      BY <2>4, ConcatProperties
    <3>2. Occurs(w, o, p(k) \o (c \o l))
      BY <2>2, <2>3
    <3>3. QED
      BY <2>3, <3>1, <3>2, OccursParts
  <2>6. Occurs(w, i, c) /\ Occurs(w, i + 1, l) /\ i \in Nat
    <3>1. i \in Nat
      BY <2>4
    <3> HIDE DEF c, l, i
    <3>2. QED
      BY <2>4, <2>5, <3>1, OccursParts
  <2>7. /\ At(w, i) = Len(l) /\ OctetsAt(w, i + 1, Len(l)) = l
        /\ i + 1 + Len(l) <= W
    <3> HIDE DEF c, l, i
    <3>1. w[i + 1] = Len(l) /\ i + 1 + Len(l) <= W
      <4>1. 1 \in 1..Len(c)
        BY <2>4
      <4>2. w[i + 1] = c[1] /\ (i + 1) + Len(l) <= W
        BY <2>6, <4>1 DEF Occurs
      <4>3. QED
        BY <2>4, <4>2
    <3>2. OctetsAt(w, i + 1, Len(l)) = l
      <4>1. i + 1 \in Nat
        BY <2>6
      <4>2. QED
        BY <2>4, <2>6, <4>1, OctetsRead
    <3>3. QED
      BY <3>1, <3>2 DEF At
  <2>8. GoesOn(w, i) /\ i \in 0..W
    <3> DEFINE e == Len(l)
    <3>1. At(w, i) = e /\ e \in 1..63 /\ i \in Nat /\ (i + 1) + e <= W
      BY <2>4, <2>6, <2>7
    <3> HIDE DEF e, i, W
    <3>2. i + e < W /\ i < W /\ i \in 0..W
      BY ONLY <1>1, <3>1
    <3>3. QED
      BY <3>1, <3>2 DEF GoesOn, W
  <2>9. i + 1 + Len(l) = o + x(k + 1)
    <3> DEFINE y == x(k)
               z == x(k + 1)
               e == Len(l)
    <3>1. z = y + 1 + e /\ y \in Nat /\ e \in Nat
      <4>1. e \in 1..63 /\ y \in Nat
        BY <2>4
      <4>2. z = y + 1 + e
        BY <2>3
      <4> HIDE DEF e, y, z
      <4>3. QED
        BY <4>1, <4>2
    <3> HIDE DEF y, z, e
    <3>2. (o + y) + 1 + e = o + z
      BY <3>1
    <3>3. QED
      BY <3>2 DEF y, z, e
  <2>10. N(i) = [labels |-> << l >> \o R(k + 1).labels, last |-> R(k + 1).last]
    <3> DEFINE rest == QuestionName(w)[i + 1 + At(w, i)]
    <3>1. N(i) = [labels |-> << OctetsAt(w, i + 1, At(w, i)) >> \o rest.labels, last |-> rest.last]
      <4> HIDE DEF i
      <4>1. QED
        BY <2>8, QuestionNameStep
    <3>2. rest = R(k + 1)
      <4> HIDE DEF i, l, x, R, k
      <4>1. QED
        BY <2>2, <2>7, <2>9
    <3> HIDE DEF rest, i, l, N, R
    <3>3. QED
      BY <2>7, <3>1, <3>2
  <2>11. << l >> \o SubSeq(ls, (k + 1) + 1, L) = SubSeq(ls, k + 1, L)
    <3> HIDE DEF k
    <3>1. L \in (k + 1)..Len(ls) /\ k + 1 \in 1..Len(ls)
      BY <1>1, <2>1
    <3>2. QED
      BY <3>1, SubSeqRecursiveFirst
  <2>12. R(k + 1).labels = SubSeq(ls, (k + 1) + 1, L) /\ R(k + 1).last = q
    OBVIOUS
  <2>13. N(i) = R(k)
    <3> HIDE DEF N, i, l, k
    <3>1. QED
      BY <2>10, <2>11, <2>12
  <2> HIDE DEF p, x, R, N, L
  <2>14. QED
    BY <2>5, <2>13
<1> HIDE DEF S
<1>5. Nat \subseteq S
  BY <1>3, <1>4, EveryNatural
<1>6. x(0) = 0
  <2>1. p(0) = <<>>
    BY PrefixedAdds
  <2> HIDE DEF p
  <2>2. Len(<<>>) = 0
    OBVIOUS
  <2>3. QED
    BY <2>1, <2>2
<1>7. N(o + x(0)) = R(0)
  <2>1. L - L = 0 /\ L <= L
    BY <1>1
  <2> HIDE DEF p, x, R, N, L
  <2>2. QED
    BY <1>1, <1>5, <2>1 DEF S
<1>8. R(0) = [labels |-> ls, last |-> q]
  <2>1. SubSeq(ls, 1, L) = ls
    BY SubSeqFull
  <2>2. 0 + 1 = 1
    OBVIOUS
  <2>3. QED
    BY <2>1, <2>2
<1> HIDE DEF R, x, N
<1>9. o + x(0) = o
  BY <1>6
<1>10. QED
  BY <1>7, <1>8, <1>9 DEF N

\* The ends of a sequence that another is appended to.
LEMMA ConcatSplit ==
    ASSUME NEW T, NEW s \in Seq(T), NEW t \in Seq(T), NEW k \in 0..Len(s)
    PROVE  /\ SubSeq(s \o t, 1, k) = SubSeq(s, 1, k)
           /\ SubSeq(s \o t, k + 1, Len(s \o t)) = SubSeq(s, k + 1, Len(s)) \o t
<1> DEFINE u == s \o t
           a == SubSeq(s, k + 1, Len(s))
           b == SubSeq(u, k + 1, Len(u))
           c == SubSeq(u, 1, k)
           d == SubSeq(s, 1, k)
           m == Len(s)
           n == Len(t)
<1>1. m \in Nat /\ n \in Nat /\ k \in Nat /\ k <= m
  BY LenProperties
<1>2. /\ u \in Seq(T) /\ Len(u) = m + n
      /\ \A i \in 1..(m + n) : u[i] = IF i <= m THEN s[i] ELSE t[i - m]
  BY ConcatProperties
<1> HIDE DEF u
<1>3. /\ a \in Seq(T) /\ Len(a) = m - k
      /\ \A i \in 1..(m - k) : a[i] = s[k + i]
  <2>1. \A i \in (k + 1)..m : s[i] \in T
    BY <1>1, ElementOfSeq
  <2>2. k + 1 \in Int /\ m \in Int
    BY <1>1
  <2>3. /\ a \in Seq(T) /\ Len(a) = IF k + 1 <= m THEN m - (k + 1) + 1 ELSE 0
        /\ \A i \in 1..(m - (k + 1) + 1) : a[i] = s[(k + 1) + i - 1]
    BY <2>1, <2>2, SubSeqProperties
  <2>4. \A i \in 1..(m - k) : i \in 1..(m - (k + 1) + 1) /\ (k + 1) + i - 1 = k + i
    BY <1>1
  <2> HIDE DEF a, m
  <2>5. Len(a) = m - k
    BY <1>1, <2>3
  <2>6. QED
    BY <2>3, <2>4, <2>5
<1>4. /\ b \in Seq(T) /\ Len(b) = (m + n) - k
      /\ \A i \in 1..((m + n) - k) : b[i] = u[k + i]
  <2> DEFINE z == Len(u)
  <2>1. \A i \in (k + 1)..z : u[i] \in T
    BY <1>1, <1>2, ElementOfSeq
  <2>2. k + 1 \in Int /\ z \in Int /\ z = m + n
    BY <1>1, <1>2
  <2>3. /\ b \in Seq(T) /\ Len(b) = IF k + 1 <= z THEN z - (k + 1) + 1 ELSE 0
        /\ \A i \in 1..(z - (k + 1) + 1) : b[i] = u[(k + 1) + i - 1]
    BY <2>1, <2>2, SubSeqProperties
  <2> HIDE DEF z, b, m, n
  <2>4. \A i \in 1..((m + n) - k) : i \in 1..(z - (k + 1) + 1) /\ (k + 1) + i - 1 = k + i
    BY <1>1, <2>2
  <2>5. Len(b) = (m + n) - k
    BY <1>1, <2>2, <2>3
  <2>6. QED
    BY <2>3, <2>4, <2>5
<1>5. /\ c \in Seq(T) /\ d \in Seq(T) /\ Len(c) = k /\ Len(d) = k
      /\ \A i \in 1..k : c[i] = u[i] /\ d[i] = s[i]
  <2>1. \A i \in 1..k : u[i] \in T /\ s[i] \in T
    BY <1>1, <1>2, ElementOfSeq
  <2>2. k \in Int /\ 1 \in Int
    BY <1>1
  <2>3. /\ c \in Seq(T) /\ Len(c) = IF 1 <= k THEN k - 1 + 1 ELSE 0
        /\ \A i \in 1..(k - 1 + 1) : c[i] = u[1 + i - 1]
    BY <2>1, <2>2, SubSeqProperties
  <2>4. /\ d \in Seq(T) /\ Len(d) = IF 1 <= k THEN k - 1 + 1 ELSE 0
        /\ \A i \in 1..(k - 1 + 1) : d[i] = s[1 + i - 1]
    BY <2>1, <2>2, SubSeqProperties
  <2>5. (IF 1 <= k THEN k - 1 + 1 ELSE 0) = k /\ \A i \in 1..k : i \in 1..(k - 1 + 1) /\ 1 + i - 1 = i
    BY <1>1
  <2> HIDE DEF c, d
  <2>6. QED
    BY <2>3, <2>4, <2>5
<1>6. c = d
  <2>1. \A i \in 1..k : i \in 1..(m + n) /\ i <= m
    BY <1>1
  <2> HIDE DEF c, d, m, n
  <2>2. \A i \in 1..Len(c) : c[i] = d[i]
    BY <1>2, <1>5, <2>1
  <2>3. QED
    BY <1>5, <2>2, SeqEqual
<1>7. b = a \o t
  <2> HIDE DEF a, b
  <2>1. /\ a \o t \in Seq(T) /\ Len(a \o t) = Len(a) + n
        /\ \A i \in 1..(Len(a) + n) : (a \o t)[i] = IF i <= Len(a) THEN a[i] ELSE t[i - Len(a)]
    BY <1>3, ConcatProperties
  <2> HIDE DEF m, n
  <2>2. Len(a \o t) = Len(b)
    BY <1>1, <1>3, <1>4, <2>1
  <2>3. ASSUME NEW i \in 1..Len(b) PROVE b[i] = (a \o t)[i]
    <3>1. i \in 1..((m + n) - k) /\ i \in 1..(Len(a) + n) /\ k + i \in 1..(m + n)
      BY <1>1, <1>3, <1>4
    <3>2. b[i] = IF k + i <= m THEN s[k + i] ELSE t[(k + i) - m]
      BY <1>2, <1>4, <3>1
    <3>3. (a \o t)[i] = IF i <= m - k THEN a[i] ELSE t[i - (m - k)]
      BY <1>3, <2>1, <3>1
    <3>4. CASE k + i <= m
      <4>1. i <= m - k /\ i \in 1..(m - k)
        BY <1>1, <3>1, <3>4
      <4>2. QED
        BY <1>3, <3>2, <3>3, <3>4, <4>1
    <3>5. CASE ~(k + i <= m)
      <4>1. ~(i <= m - k) /\ i - (m - k) = (k + i) - m
        BY <1>1, <3>1, <3>5
      <4>2. QED
        BY <3>2, <3>3, <3>5, <4>1
    <3>6. QED
      BY <3>4, <3>5
  <2>4. QED
    BY <1>4, <2>1, <2>2, <2>3, SeqEqual
<1>8. QED
  BY <1>6, <1>7 DEF u

\* A sequence is what comes before a suffix of it, and the suffix.
LEMMA SuffixSplit ==
    ASSUME NEW T, NEW s \in Seq(T), NEW t \in Seq(T), IsSuffix(s, t)
    PROVE  /\ Len(t) - Len(s) \in 0..Len(t)
           /\ t = SubSeq(t, 1, Len(t) - Len(s)) \o s
<1> DEFINE m == Len(s)
           n == Len(t)
           d == n - m
           a == Reverse(s)
           b == Reverse(t)
<1>1. m \in Nat /\ n \in Nat
  BY LenProperties
<1>2. /\ Len(a) = m /\ \A i \in 1..m : a[i] = s[(m - i) + 1]
      /\ Len(b) = n /\ \A i \in 1..n : b[i] = t[(n - i) + 1]
  BY <1>1 DEF Reverse
<1>3. m <= n /\ SubSeq(a, 1, m) = SubSeq(b, 1, m)
  <2> HIDE DEF m, n
  <2>1. Len(a) <= Len(b) /\ SubSeq(a, 1, Len(a)) = SubSeq(b, 1, Len(a))
    BY DEF IsSuffix, IsPrefix
  <2>2. QED
    BY <1>2, <2>1
<1>4. \A i \in 1..m : a[i] = b[i]
  <2> HIDE DEF a, b, m
  <2>1. \A i \in 1..m : SubSeq(a, 1, m)[i] = a[i] /\ SubSeq(b, 1, m)[i] = b[i]
    BY <1>1
  <2>2. QED
    BY <1>3, <2>1
<1>5. d \in 0..n
  BY <1>1, <1>3
<1>6. \A j \in 1..m : s[j] = t[d + j]
  <2> SUFFICES ASSUME NEW j \in 1..m PROVE s[j] = t[d + j]
    OBVIOUS
  <2> DEFINE i == (m - j) + 1
  <2>1. i \in 1..m /\ i \in 1..n /\ (m - i) + 1 = j /\ (n - i) + 1 = d + j
    BY <1>1, <1>3
  <2> HIDE DEF a, b, m, n, i, d
  <2>2. QED
    BY <1>2, <1>4, <2>1
<1> DEFINE e == SubSeq(t, d + 1, n)
<1>7. e = s
  <2>1. d + 1 \in Int /\ n \in Int /\ \A i \in (d + 1)..n : t[i] \in T
    BY <1>1, <1>5, ElementOfSeq
  <2>2. /\ e \in Seq(T)
        /\ Len(e) = IF d + 1 <= n THEN n - (d + 1) + 1 ELSE 0
        /\ \A i \in 1..(n - (d + 1) + 1) : e[i] = t[(d + 1) + i - 1]
    BY <2>1, SubSeqProperties
  <2>3. /\ (IF d + 1 <= n THEN n - (d + 1) + 1 ELSE 0) = m
        /\ \A i \in 1..m : i \in 1..(n - (d + 1) + 1) /\ (d + 1) + i - 1 = d + i
    BY <1>1, <1>3
  <2> HIDE DEF e, d, n
  <2>4. Len(e) = Len(s) /\ \A i \in 1..Len(e) : e[i] = s[i]
    BY <1>6, <2>2, <2>3
  <2>5. QED
    BY <2>2, <2>4, SeqEqual
<1>8. SubSeq(t, 1, d) \o e = t
  <2>1. 1 \in 1..(Len(t) + 1) /\ d \in (1 - 1)..Len(t) /\ Len(t) \in d..Len(t)
    BY <1>1, <1>5
  <2> HIDE DEF d
  <2>2. SubSeq(t, 1, d) \o SubSeq(t, d + 1, Len(t)) = SubSeq(t, 1, Len(t))
    BY <2>1, ConcatAdjacentSubSeq
  <2>3. QED
    BY <2>2, SubSeqFull
<1>9. QED
  BY <1>5, <1>7, <1>8

\* Whatever is appended to w, a pointer to a leads to the name that a is for, in
\* at most as many steps as w has octets.
Leads(w, a) ==
    /\ a[1] \in Nat
    /\ a[2] \in Seq(Label)
    /\ \A w2 \in Seq(Nat) : Extends(w2, w) =>
          \A n \in Len(w)..Len(w2) : Labels(w2)[n][a[1]].labels = a[2]

AllLead(w, known) == \A a \in known : Leads(w, a)

LEMMA LeadsOn ==
    ASSUME NEW w \in Seq(Nat), NEW v \in Seq(Nat), Extends(v, w), NEW a, Leads(w, a)
    PROVE  Leads(v, a)
<1>1. Len(w) \in Nat /\ Len(v) \in Nat /\ Len(w) <= Len(v)
  BY LenProperties DEF Extends
<1>2. ASSUME NEW w2 \in Seq(Nat), Extends(w2, v), NEW n \in Len(v)..Len(w2)
      PROVE  Labels(w2)[n][a[1]].labels = a[2]
  <2>1. Extends(w2, w)
    BY <1>2, ExtendsOrder
  <2>2. Len(w2) \in Nat
    BY LenProperties
  <2>3. n \in Len(w)..Len(w2)
    BY <1>1, <2>2
  <2>4. QED
    BY <2>1, <2>3 DEF Leads
<1>3. QED
  BY <1>2 DEF Leads

\* Labels ls at the end of w, and then octets that are read as the labels rest in
\* at most b steps.
LEMMA PartsRead ==
    ASSUME NEW w \in Seq(Nat), NEW ls \in Seq(Label), NEW rest \in Seq(Label),
           NEW tail \in Seq(Nat), NEW v, v = w \o (Prefixed(ls) \o tail),
           NEW b \in Nat, b + 1 <= Len(w) + Len(tail), NEW q,
           ReadsOn(v, Len(w) + Len(Prefixed(ls)), b, rest, q)
    PROVE  /\ \A a \in Anchors(Len(w), ls \o rest, Len(ls)) : Leads(v, a)
           /\ NameAt(v, Len(w), ls \o rest, q)
<1> DEFINE x == Len(w)
           y == Len(Prefixed(ls))
           z == Len(tail)
           l == Len(ls)
           name == ls \o rest
           o(k) == x + Len(Prefixed(SubSeq(ls, 1, k)))
           R(k) == SubSeq(ls, k + 1, l) \o rest
<1>1. /\ Prefixed(ls) \in Seq(Nat) /\ y \in Nat /\ y >= l
      /\ x \in Nat /\ z \in Nat /\ l \in Nat
  <2>1. l \in 0..l /\ l \in Nat
    BY LenProperties
  <2>2. Prefixed(ls) \in Seq(Nat) /\ y >= l
    BY <2>1, PrefixedAdds
  <2>3. QED
    BY <2>1, <2>2, LenProperties
<1>2. Prefixed(ls) \o tail \in Seq(Nat) /\ Len(Prefixed(ls) \o tail) = y + z
  BY <1>1, ConcatProperties
<1>3. /\ v \in Seq(Nat) /\ Len(v) = x + (y + z)
      /\ Occurs(v, x, Prefixed(ls) \o tail)
  <2> DEFINE s == Prefixed(ls) \o tail
  <2>1. s \in Seq(Nat) /\ v = w \o s /\ Len(s) = y + z
    BY <1>2
  <2>2. Prefixed(ls) \o tail = s /\ w \in Seq(Nat)
    OBVIOUS
  <2> HIDE DEF s, y, z
  <2>3. w \o s \in Seq(Nat) /\ Len(w \o s) = x + Len(s) /\ Occurs(w \o s, x, s)
    BY ONLY <2>1, <2>2, AppendedOccurs DEF x
  <2>4. QED
    BY ONLY <2>1, <2>2, <2>3
<1>4. ASSUME NEW w2 \in Seq(Nat), Extends(w2, v), NEW k \in 0..l, NEW n \in Len(v)..Len(w2)
      PROVE  Labels(w2)[n][o(k)] = [labels |-> R(k), last |-> q]
  <2>1. Occurs(w2, x, Prefixed(ls))
    <3>1. Occurs(w2, x, Prefixed(ls) \o tail)
      BY <1>1, <1>2, <1>3, <1>4, OccursOn
    <3>2. QED
      BY <1>1, <3>1, OccursParts
  <2>2. Len(w2) \in Nat /\ Len(v) \in Nat
    BY <1>3, LenProperties
  <2>3. n \in (b + (l - k))..Len(w2)
    <3> DEFINE c == Len(w2)
               d == Len(v)
    <3>1. c \in Nat /\ d = x + (y + z) /\ n \in d..c /\ b + 1 <= x + z
      BY <1>3, <2>2
    <3> HIDE DEF x, y, z, l, c, d
    <3>2. n \in (b + (l - k))..c
      BY <1>1, <3>1
    <3>3. QED
      BY <3>2 DEF c
  <2>4. ReadsAs(w2, x + y, b, rest, q)
    BY <1>4 DEF ReadsOn
  <2>5. ReadsAs(w2, o(k), b + (l - k), R(k), q)
    <3>1. \A e \in 0..l : ReadsAs(w2, o(e), b + (l - e), R(e), q)
      BY <1>1, <2>1, <2>4, ReadLabels
    <3>2. QED
      BY <3>1
  <2> HIDE DEF o, R, l
  <2>6. QED
    BY <2>3, <2>5 DEF ReadsAs
<1>5. ASSUME NEW k \in 0..l
      PROVE  /\ SubSeq(name, 1, k) = SubSeq(ls, 1, k)
             /\ SubSeq(name, k + 1, Len(name)) = R(k)
  BY ConcatSplit
<1>6. name \in Seq(Label) /\ \A k \in 0..l : R(k) \in Seq(Label)
  <2>1. name \in Seq(Label)
    BY ConcatProperties
  <2>2. ASSUME NEW k \in 0..l PROVE R(k) \in Seq(Label)
    <3>1. \A i \in (k + 1)..l : ls[i] \in Label
      BY <1>1, ElementOfSeq
    <3>2. SubSeq(ls, k + 1, l) \in Seq(Label)
      BY <1>1, <3>1, SubSeqProperties
    <3>3. QED
      BY <3>2, ConcatProperties
  <2>3. QED
    BY <2>1, <2>2
<1>7. ASSUME NEW a \in Anchors(x, name, l) PROVE Leads(v, a)
  <2>1. PICK k \in 0..(l - 1) :
           a = <<x + Len(Prefixed(SubSeq(name, 1, k))), SubSeq(name, k + 1, Len(name))>>
    BY <1>7 DEF Anchors
  <2>2. k \in 0..l
    BY <1>1
  <2>3. a = <<o(k), R(k)>>
    BY <1>5, <2>1, <2>2
  <2>4. o(k) \in Nat
    <3>1. Prefixed(SubSeq(ls, 1, k)) \in Seq(Nat)
      BY <2>2, PrefixedAdds
    <3>2. QED
      BY <1>1, <3>1, LenProperties
  <2>5. R(k) \in Seq(Label)
    BY <1>6, <2>2
  <2> HIDE DEF o, R
  <2>6. a[1] = o(k) /\ a[2] = R(k)
    BY <2>3
  <2>7. ASSUME NEW w2 \in Seq(Nat), Extends(w2, v), NEW n \in Len(v)..Len(w2)
        PROVE  Labels(w2)[n][a[1]].labels = a[2]
    <3>1. Labels(w2)[n][o(k)] = [labels |-> R(k), last |-> q]
      BY <1>4, <2>2, <2>7
    <3>2. QED
      BY <2>6, <3>1
  <2>8. QED
    BY <2>4, <2>5, <2>6, <2>7 DEF Leads
<1>8. ASSUME NEW w2 \in Seq(Nat), Extends(w2, v)
      PROVE  createName(w2, x) = [labels |-> name, last |-> q]
  <2>1. Len(w2) \in Len(v)..Len(w2) /\ 0 \in 0..l
    <3>1. Len(w2) \in Nat /\ Len(v) \in Nat
      BY <1>3, LenProperties
    <3>2. Len(v) <= Len(w2)
      BY <1>8 DEF Extends
    <3>3. QED
      BY <1>1, <3>1, <3>2
  <2>2. o(0) = x
    <3>1. Prefixed(SubSeq(ls, 1, 0)) = <<>>
      BY PrefixedAdds
    <3>2. QED
      BY <1>1, <3>1
  <2>3. R(0) = name
    <3>1. SubSeq(ls, 1, l) = ls /\ 0 + 1 = 1
      BY SubSeqFull
    <3>2. SubSeq(ls, 0 + 1, l) = ls
      <4> HIDE DEF l
      <4>1. QED
        BY <3>1
    <3>3. QED
      BY <3>2
  <2> HIDE DEF o, R, x, name
  <2>4. Labels(w2)[Len(w2)][o(0)] = [labels |-> R(0), last |-> q]
    BY <1>4, <1>8, <2>1
  <2>5. QED
    BY <2>2, <2>3, <2>4 DEF createName
<1>9. QED
  BY <1>7, <1>8 DEF NameAt

\* A name takes an octet more than its labels, and at least two.
LEMMA NameOctets ==
    ASSUME NEW name \in Seq(Label)
    PROVE  /\ Prefixed(name) \in Seq(Nat)
           /\ name2message(name) \in Seq(Nat)
           /\ Len(name2message(name)) = Len(Prefixed(name)) + 1
<1>1. Prefixed(name) \in Seq(Nat)
  <2>1. Len(name) \in 0..Len(name)
    BY LenProperties
  <2>2. QED
    BY <2>1, PrefixedAdds
<1>2. <<0>> \in Seq(Nat) /\ Len(<<0>>) = 1
  OBVIOUS
<1>3. /\ Prefixed(name) \o <<0>> \in Seq(Nat)
      /\ Len(Prefixed(name) \o <<0>>) = Len(Prefixed(name)) + Len(<<0>>)
  BY <1>1, <1>2, ConcatProperties
<1>4. QED
  BY <1>1, <1>2, <1>3 DEF name2message

\* A name is spelled in full, or up to a pointer to the rest.
Cases(s, name, o, known) ==
    \/ s = [octets |-> name2message(name), anchors |-> Anchors(o, name, Len(name))]
    \/ \E a \in known :
          /\ a[1] \div 256 < 64 /\ IsSuffix(a[2], name)
          /\ s = [octets |-> Prefixed(SubSeq(name, 1, Len(name) - Len(a[2]))) \o
                                <<192 + (a[1] \div 256), a[1] % 256>>,
                  anchors |-> Anchors(o, name, Len(name) - Len(a[2]))]

LEMMA SpellingCases ==
    ASSUME NEW name, NEW o, NEW known, NEW s \in Spellings(name, o, known)
    PROVE  Cases(s, name, o, known)
<1> DEFINE Led(a) == a[1] \div 256 < 64 /\ IsSuffix(a[2], name)
           full == [octets |-> name2message(name), anchors |-> Anchors(o, name, Len(name))]
           short(a) == [octets |-> Prefixed(SubSeq(name, 1, Len(name) - Len(a[2]))) \o
                                     <<192 + (a[1] \div 256), a[1] % 256>>,
                        anchors |-> Anchors(o, name, Len(name) - Len(a[2]))]
<1>1. Spellings(name, o, known) = {full} \cup {short(a) : a \in {b \in known : Led(b)}}
  BY DEF Spellings
<1> HIDE DEF Led, full, short
<1>2. s = full \/ \E a \in known : Led(a) /\ s = short(a)
  BY <1>1
<1>3. QED
  BY <1>2 DEF Led, full, short, Cases

\* However a name is spelled at the end of w, it is read there, and pointers may
\* lead to it.
LEMMA SpellingRead ==
    ASSUME NEW w \in Seq(Nat), NEW name \in Seq(Label),
           NEW known, \A a \in known : Leads(w, a),
           NEW s \in Spellings(name, Len(w), known)
    PROVE  /\ s.octets \in Seq(Nat)
           /\ Len(s.octets) \in Nat \ {0}
           /\ \A a \in s.anchors : Leads(w \o s.octets, a)
           /\ NameAt(w \o s.octets, Len(w), name, Len(w) + Len(s.octets) - 1)
<1> DEFINE x == Len(w)
           v == w \o s.octets
<1>1. x \in Nat
  BY LenProperties
<1>2. CASE s = [octets |-> name2message(name), anchors |-> Anchors(x, name, Len(name))]
  <2> DEFINE none == <<>>
             tail == <<0>>
             y == Len(Prefixed(name))
             q == x + y
  <2>1. /\ s.octets = Prefixed(name) \o tail
        /\ s.anchors = Anchors(x, name, Len(name))
    BY <1>2 DEF name2message
  <2>2. /\ Prefixed(name) \in Seq(Nat) /\ y \in Nat
        /\ s.octets \in Seq(Nat) /\ Len(s.octets) = y + 1
    <3>1. /\ Prefixed(name) \in Seq(Nat) /\ s.octets \in Seq(Nat)
          /\ Len(s.octets) = y + 1
      BY <1>2, NameOctets
    <3>2. QED
      BY <3>1, LenProperties
  <2>3. /\ none \in Seq(Label) /\ tail \in Seq(Nat) /\ Len(tail) = 1
        /\ v = w \o (Prefixed(name) \o tail) /\ 0 + 1 <= x + Len(tail)
    BY <1>1, <2>1
  <2>4. ASSUME NEW w2 \in Seq(Nat), Extends(w2, v)
        PROVE  ReadsAs(w2, x + y, 0, none, q)
    <3>1. Occurs(w2, x + y, tail)
      <4>1. Occurs(v, x, Prefixed(name) \o tail) /\ v \in Seq(Nat)
        BY <2>1, <2>2, AppendedOccurs
      <4>2. Occurs(v, x + y, tail)
        <5> HIDE DEF v, tail, x
        <5>1. QED
          BY <1>1, <2>2, <2>3, <4>1, OccursParts
      <4> HIDE DEF v, tail, x, y
      <4>3. x + y \in Nat
        BY <1>1, <2>2
      <4>4. QED
        BY <2>3, <2>4, <4>1, <4>2, <4>3, OccursOn
    <3>2. x + y \in Nat
      BY <1>1, <2>2
    <3> HIDE DEF x, y
    <3>3. \A n \in 0..Len(w2) : Labels(w2)[n][x + y] = [labels |-> <<>>, last |-> x + y]
      BY <3>1, <3>2, ReadEnd
    <3>4. QED
      BY <3>3 DEF ReadsAs
  <2>5. name \o none = name
    BY ConcatEmptySeq
  <2>6. /\ \A a \in Anchors(x, name \o none, Len(name)) : Leads(v, a)
        /\ NameAt(v, x, name \o none, q)
    <3> DEFINE b == 0
    <3>1. b \in Nat /\ b + 1 <= x + Len(tail)
      BY <1>1, <2>3
    <3>2. ReadsOn(v, x + y, b, none, q)
      BY <2>4 DEF ReadsOn
    <3> HIDE DEF b, none, tail, q, v
    <3>3. QED
      BY <2>3, <3>1, <3>2, PartsRead
  <2>7. x + Len(s.octets) - 1 = q
    BY <1>1, <2>2
  <2> HIDE DEF none, q, v
  <2>8. QED
    BY <2>1, <2>2, <2>5, <2>6, <2>7 DEF v
<1>3. ASSUME NEW a \in known, a[1] \div 256 < 64, IsSuffix(a[2], name),
             s = [octets |-> Prefixed(SubSeq(name, 1, Len(name) - Len(a[2]))) \o
                                <<192 + (a[1] \div 256), a[1] % 256>>,
                  anchors |-> Anchors(x, name, Len(name) - Len(a[2]))]
      PROVE  /\ s.octets \in Seq(Nat)
             /\ Len(s.octets) \in Nat \ {0}
             /\ \A c \in s.anchors : Leads(v, c)
             /\ NameAt(v, x, name, x + Len(s.octets) - 1)
  <2> DEFINE t == a[1]
             rest == a[2]
             k == Len(name) - Len(rest)
             ls == SubSeq(name, 1, k)
             tail == <<192 + (t \div 256), t % 256>>
             y == Len(Prefixed(ls))
             q == x + y + 1
             b == x + 1
  <2>1. t \in Nat /\ rest \in Seq(Label) /\ Leads(w, a)
    BY <1>3 DEF Leads
  <2>2. k \in 0..Len(name) /\ name = ls \o rest
    BY <1>3, <2>1, SuffixSplit
  <2>3. ls \in Seq(Label) /\ Len(ls) = k
    <3>1. Len(name) \in Nat
      BY LenProperties
    <3> HIDE DEF k
    <3>2. k \in Int /\ 1 \in Int /\ \A i \in 1..k : name[i] \in Label
      <4>1. \A i \in 1..k : i \in 1..Len(name)
        BY <2>2, <3>1
      <4>2. \A i \in 1..k : name[i] \in Label
        BY <4>1, ElementOfSeq
      <4>3. k \in Int
        BY <2>2, <3>1
      <4>4. QED
        BY <4>2, <4>3
    <3>3. ls \in Seq(Label) /\ Len(ls) = IF 1 <= k THEN k - 1 + 1 ELSE 0
      BY <3>2, SubSeqProperties
    <3>4. (IF 1 <= k THEN k - 1 + 1 ELSE 0) = k
      BY <2>2, <3>1
    <3>5. QED
      BY <3>3, <3>4
  <2>4. /\ s.octets = Prefixed(ls) \o tail
        /\ s.anchors = Anchors(x, name, Len(ls))
    <3>1. s.anchors = Anchors(x, name, k)
      BY <1>3
    <3>2. s.octets = Prefixed(ls) \o tail
      BY <1>3
    <3>3. QED
      BY <2>3, <3>1, <3>2
  <2>5. tail \in Seq(Nat) /\ Len(tail) = 2
    <3>1. 192 + (t \div 256) \in Nat /\ t % 256 \in Nat
      BY <2>1
    <3>2. QED
      BY <3>1
  <2> HIDE DEF k, ls
  <2>6. /\ Prefixed(ls) \in Seq(Nat) /\ y \in Nat
        /\ s.octets \in Seq(Nat) /\ Len(s.octets) = y + 2
    <3>1. Prefixed(ls) \in Seq(Nat) /\ y \in Nat
      BY <2>3, NameOctets, LenProperties
    <3> HIDE DEF tail
    <3>2. s.octets \in Seq(Nat) /\ Len(s.octets) = y + Len(tail)
      BY <2>4, <2>5, <3>1, ConcatProperties
    <3>3. QED
      BY <2>5, <3>1, <3>2
  <2>7. v = w \o (Prefixed(ls) \o tail) /\ b \in Nat /\ b + 1 <= x + Len(tail)
    <3>1. v = w \o (Prefixed(ls) \o tail)
      BY <2>4
    <3> HIDE DEF tail
    <3>2. QED
      BY <1>1, <2>5, <3>1
  <2>8. v \in Seq(Nat) /\ Extends(v, w) /\ Occurs(v, x, Prefixed(ls) \o tail)
    <3> DEFINE e == s.octets
    <3>1. e \in Seq(Nat) /\ e = Prefixed(ls) \o tail /\ v = w \o e
      BY <2>4, <2>6
    <3> HIDE DEF e, v, tail, y, q, b, rest, t
    <3>2. w \o e \in Seq(Nat) /\ Extends(w \o e, w) /\ Occurs(w \o e, x, e)
      BY <3>1, AppendedOccurs
    <3>3. QED
      BY <3>1, <3>2
  <2>9. ASSUME NEW w2 \in Seq(Nat), Extends(w2, v)
        PROVE  ReadsAs(w2, x + y, b, rest, q)
    <3>1. Occurs(w2, x + y, tail)
      <4> HIDE DEF v, tail, x, y
      <4>1. Occurs(v, x + y, tail)
        BY <1>1, <2>5, <2>6, <2>8, OccursParts DEF y
      <4>2. x + y \in Nat
        BY <1>1, <2>6
      <4>3. QED
        BY <2>5, <2>8, <2>9, <4>1, <4>2, OccursOn
    <3>2. x + y \in Nat /\ (x + y) + 1 = q
      BY <1>1, <2>6
    <3>3. Extends(w2, w)
      <4> HIDE DEF v
      <4>1. QED
        BY <2>8, <2>9, ExtendsOrder
    <3>4. ASSUME NEW n \in b..Len(w2)
          PROVE  Labels(w2)[n][x + y] = [labels |-> rest, last |-> q]
      <4> DEFINE m == n - 1
      <4>1. Len(w2) \in Nat
        BY LenProperties
      <4>2. m \in 0..(Len(w2) - 1) /\ m \in x..Len(w2) /\ m + 1 = n
        BY <1>1, <4>1
      <4>3. Labels(w2)[m][t].labels = rest
        <5> HIDE DEF m
        <5>1. QED
          BY <2>1, <3>3, <4>2 DEF Leads
      <4>4. Labels(w2)[m + 1][x + y] = [labels |-> Labels(w2)[m][t].labels, last |-> (x + y) + 1]
        <5> HIDE DEF m, x, y
        <5>1. t \div 256 < 64
          BY <1>3
        <5>2. Occurs(w2, x + y, <<192 + (t \div 256), t % 256>>)
          BY <3>1
        <5> HIDE DEF t
        <5>3. QED
          BY <2>1, <3>2, <4>2, <5>1, <5>2, ReadPointer
      <4> HIDE DEF m, t, rest, x, y, q
      <4>5. QED
        BY <3>2, <4>2, <4>3, <4>4
    <3>5. QED
      BY <3>4 DEF ReadsAs
  <2>10. /\ \A c \in Anchors(x, ls \o rest, Len(ls)) : Leads(v, c)
         /\ NameAt(v, x, ls \o rest, q)
    <3>1. ReadsOn(v, x + y, b, rest, q)
      BY <2>9 DEF ReadsOn
    <3> HIDE DEF b, tail, q, v, rest
    <3>2. /\ w \in Seq(Nat) /\ b + 1 <= Len(w) + Len(tail)
          /\ ReadsOn(v, Len(w) + Len(Prefixed(ls)), b, rest, q)
      BY ONLY <2>7, <3>1, w \in Seq(Nat) DEF x, y
    <3>3. /\ \A c \in Anchors(Len(w), ls \o rest, Len(ls)) : Leads(v, c)
          /\ NameAt(v, Len(w), ls \o rest, q)
      BY ONLY <2>1, <2>3, <2>5, <2>7, <3>2, PartsRead
    <3>4. QED
      BY ONLY <3>3 DEF x
  <2>11. x + Len(s.octets) - 1 = q /\ Len(s.octets) \in Nat \ {0}
    <3> HIDE DEF x, y
    <3>1. QED
      BY <1>1, <2>6
  <2> HIDE DEF rest, q, v
  <2> HIDE DEF x
  <2>12. s.anchors = Anchors(x, ls \o rest, Len(ls))
    BY ONLY <2>2, <2>4
  <2>13. (\A c \in s.anchors : Leads(v, c)) /\ NameAt(v, x, name, q)
    BY ONLY <2>2, <2>10, <2>12
  <2>14. (\A c \in s.anchors : Leads(v, c)) /\ NameAt(v, x, name, x + Len(s.octets) - 1)
    BY ONLY <2>11, <2>13
  <2>15. QED
    BY ONLY <2>6, <2>11, <2>14 DEF v, x
<1>4. s = [octets |-> name2message(name), anchors |-> Anchors(x, name, Len(name))] \/
      \E a \in known :
         /\ a[1] \div 256 < 64 /\ IsSuffix(a[2], name)
         /\ s = [octets |-> Prefixed(SubSeq(name, 1, Len(name) - Len(a[2]))) \o
                               <<192 + (a[1] \div 256), a[1] % 256>>,
                 anchors |-> Anchors(x, name, Len(name) - Len(a[2]))]
  <2>1. Cases(s, name, Len(w), known)
    BY SpellingCases
  <2>2. QED
    BY <2>1 DEF Cases
<1>5. QED
  BY <1>2, <1>3, <1>4

-----------------------------------------------------------------------------
(* Reading questions and records *)

\* Numbers that are appended are read after what was there.
LEMMA NumbersAppended ==
    ASSUME NEW w \in Seq(Nat)
    PROVE  /\ \A n \in Nat :
                 /\ w \o Short(n) \in Seq(Nat)
                 /\ Len(w \o Short(n)) = Len(w) + 2
                 /\ Extends(w \o Short(n), w)
           /\ \A n \in Half, w2 \in Seq(Nat) :
                 Extends(w2, w \o Short(n)) => ShortAt(w2, Len(w)) = n
           /\ \A n \in Nat :
                 /\ w \o Word(n) \in Seq(Nat)
                 /\ Len(w \o Word(n)) = Len(w) + 4
                 /\ Extends(w \o Word(n), w)
           /\ \A n \in Nat, w2 \in Seq(Nat) :
                 IsSeconds(n) /\ Extends(w2, w \o Word(n)) => IntAt(w2, Len(w)) = n
<1>1. Len(w) \in Nat
  BY LenProperties
<1>2. ASSUME NEW n \in Nat
      PROVE  /\ w \o Short(n) \in Seq(Nat)
             /\ Len(w \o Short(n)) = Len(w) + 2
             /\ Extends(w \o Short(n), w)
             /\ Occurs(w \o Short(n), Len(w), Short(n))
             /\ Short(n) \in Seq(Nat)
  <2>1. Short(n) \in Seq(Nat) /\ Len(Short(n)) = 2
    BY NumbersRead
  <2>2. QED
    BY <2>1, AppendedOccurs
<1>3. ASSUME NEW n \in Nat
      PROVE  /\ w \o Word(n) \in Seq(Nat)
             /\ Len(w \o Word(n)) = Len(w) + 4
             /\ Extends(w \o Word(n), w)
             /\ Occurs(w \o Word(n), Len(w), Word(n))
             /\ Word(n) \in Seq(Nat)
  <2>1. Word(n) \in Seq(Nat) /\ Len(Word(n)) = 4
    BY NumbersRead
  <2>2. QED
    BY <2>1, AppendedOccurs
<1>4. ASSUME NEW n \in Half, NEW w2 \in Seq(Nat), Extends(w2, w \o Short(n))
      PROVE  ShortAt(w2, Len(w)) = n
  <2>1. n \in Nat
    BY DEF Half
  <2>2. Occurs(w2, Len(w), Short(n))
    BY <1>1, <1>2, <1>4, <2>1, OccursOn
  <2>3. QED
    BY <1>1, <2>2, NumbersRead
<1>5. ASSUME NEW n \in Nat, NEW w2 \in Seq(Nat), IsSeconds(n), Extends(w2, w \o Word(n))
      PROVE  IntAt(w2, Len(w)) = n
  <2>1. Occurs(w2, Len(w), Word(n))
    BY <1>1, <1>3, <1>5, OccursOn
  <2>2. QED
    BY <1>1, <1>5, <2>1, NumbersRead
<1>6. QED
  BY <1>2, <1>3, <1>4, <1>5

\* One more entry is read after the others.
LEMMA EntriesStep ==
    ASSUME NEW Read, NEW o
    PROVE  /\ Entries(Read, o, 0) = [list |-> <<>>, next |-> o]
           /\ \A n \in Nat :
                 Entries(Read, o, n + 1) =
                    [list |-> Append(Entries(Read, o, n).list,
                                     Read[Entries(Read, o, n).next].value),
                     next |-> Read[Entries(Read, o, n).next].next]
<1> DEFINE none == [list |-> <<>>, next |-> o]
           More(s) == [list |-> Append(s.list, Read[s.next].value), next |-> Read[s.next].next]
           IsUpTo(m, f) == f = [i \in 0..m |-> IF i = 0 THEN none ELSE More(f[i - 1])]
           S == {m \in Nat : \E f : IsUpTo(m, f)}
           F(m) == CHOOSE f : IsUpTo(m, f)
<1>1. \A n : Entries(Read, o, n) = F(n)[n]
  BY DEF Entries
<1> HIDE DEF none, More
<1>2. 0 \in S
  <2> DEFINE h == [i \in 0..0 |-> none]
  <2>1. \A i \in 0..0 : i = 0
    OBVIOUS
  <2>2. IsUpTo(0, h)
    BY <2>1
  <2>3. QED
    BY <2>2
<1>3. ASSUME NEW m \in Nat, m \in S PROVE m + 1 \in S
  <2>1. PICK f : IsUpTo(m, f)
    BY <1>3
  <2> DEFINE h == [i \in 0..(m + 1) |-> IF i = 0 THEN none ELSE More(f[i - 1])]
  <2>2. \A i \in 0..m : h[i] = f[i]
    <3>1. \A i \in 0..m : f[i] = IF i = 0 THEN none ELSE More(f[i - 1])
      BY <2>1
    <3>2. \A i \in 0..m : h[i] = IF i = 0 THEN none ELSE More(f[i - 1])
      OBVIOUS
    <3> HIDE DEF h, IsUpTo
    <3>3. QED
      BY <3>1, <3>2
  <2>3. \A i \in 0..(m + 1) : i # 0 => i - 1 \in 0..m
    OBVIOUS
  <2>4. \A i \in 0..(m + 1) : h[i] = IF i = 0 THEN none ELSE More(h[i - 1])
    <3>1. \A i \in 0..(m + 1) : h[i] = IF i = 0 THEN none ELSE More(f[i - 1])
      OBVIOUS
    <3> HIDE DEF h
    <3>2. \A i \in 0..(m + 1) : i # 0 => h[i - 1] = f[i - 1]
      BY <2>2, <2>3
    <3>3. QED
      BY <3>1, <3>2
  <2>5. IsUpTo(m + 1, h)
    BY <2>4
  <2> HIDE DEF h, IsUpTo
  <2>6. \E k : IsUpTo(m + 1, k)
    BY <2>5
  <2>7. QED
    BY <2>6
<1> HIDE DEF S
<1>4. Nat \subseteq S
  BY <1>2, <1>3, EveryNatural
<1>5. ASSUME NEW m \in Nat PROVE IsUpTo(m, F(m))
  <2>1. \E f : IsUpTo(m, f)
    BY <1>4 DEF S
  <2> HIDE DEF IsUpTo
  <2>2. QED
    BY <2>1
<1> HIDE DEF F
<1>6. ASSUME NEW m \in Nat
      PROVE  /\ F(m)[0] = none
             /\ \A i \in 0..m : i + 1 <= m => F(m)[i + 1] = More(F(m)[i])
  <2> DEFINE g == F(m)
  <2>1. \A i \in 0..m : g[i] = IF i = 0 THEN none ELSE More(g[i - 1])
    BY <1>5
  <2> HIDE DEF g
  <2>2. g[0] = none
    BY <2>1
  <2>3. ASSUME NEW i \in 0..m, i + 1 <= m PROVE g[i + 1] = More(g[i])
    <3> DEFINE k == i + 1
    <3>1. k \in 0..m /\ k # 0 /\ k - 1 = i
      BY <2>3
    <3> HIDE DEF k
    <3>2. g[k] = More(g[k - 1])
      BY <2>1, <3>1
    <3>3. QED
      BY <3>1, <3>2 DEF k
  <2>4. QED
    BY <2>2, <2>3 DEF g
<1>7. ASSUME NEW n \in Nat PROVE F(n + 1)[n] = F(n)[n]
  <2> DEFINE a == F(n + 1)
             b == F(n)
             T == {i \in Nat : i <= n => a[i] = b[i]}
  <2>1. /\ a[0] = none /\ b[0] = none
        /\ \A i \in 0..n : a[i + 1] = More(a[i])
        /\ \A i \in 0..n : i + 1 <= n => b[i + 1] = More(b[i])
    <3>1. n + 1 \in Nat /\ \A i \in 0..n : i \in 0..(n + 1) /\ i + 1 <= n + 1
      OBVIOUS
    <3>2. /\ a[0] = none
          /\ \A i \in 0..(n + 1) : i + 1 <= n + 1 => a[i + 1] = More(a[i])
      <4> DEFINE m == n + 1
      <4>1. m \in Nat
        OBVIOUS
      <4> HIDE DEF m
      <4>2. F(m)[0] = none /\ \A i \in 0..m : i + 1 <= m => F(m)[i + 1] = More(F(m)[i])
        BY <1>6, <4>1
      <4>3. QED
        BY <4>2 DEF m
    <3>3. b[0] = none /\ \A i \in 0..n : i + 1 <= n => b[i + 1] = More(b[i])
      BY <1>6
    <3> HIDE DEF a, b
    <3>4. QED
      BY <3>1, <3>2, <3>3
  <2> HIDE DEF a, b
  <2>2. 0 \in T
    BY <2>1
  <2>3. ASSUME NEW i \in Nat, i \in T PROVE i + 1 \in T
    <3> SUFFICES ASSUME i + 1 <= n PROVE a[i + 1] = b[i + 1]
      OBVIOUS
    <3>1. i \in 0..n /\ a[i] = b[i]
      BY <2>3
    <3>2. QED
      BY <2>1, <3>1
  <2> HIDE DEF T
  <2>4. n \in T
    BY <2>2, <2>3, EveryNatural
  <2>5. QED
    BY <2>4 DEF T, a, b
<1>8. Entries(Read, o, 0) = none
  <2>1. F(0)[0] = none
    BY <1>6
  <2>2. QED
    BY <1>1, <2>1
<1>9. ASSUME NEW n \in Nat PROVE Entries(Read, o, n + 1) = More(Entries(Read, o, n))
  <2> DEFINE m == n + 1
  <2>1. m \in Nat /\ n \in 0..m /\ n + 1 <= m
    OBVIOUS
  <2> HIDE DEF m
  <2>2. F(m)[n + 1] = More(F(m)[n])
    BY <1>6, <2>1
  <2>3. F(n + 1)[n + 1] = More(F(n + 1)[n])
    BY <2>2 DEF m
  <2>4. QED
    BY <1>1, <1>7, <2>3
<1>10. QED
  BY <1>8, <1>9 DEF none, More

\* A name that stands behind w, before an octet that is not the length of a label,
\* as it is read in a question.
LEMMA NameStands ==
    ASSUME NEW w \in Seq(Nat), NEW ls \in Seq(Label), NEW t \in Seq(Nat), Len(t) >= 1,
           t[1] \notin 1..63, NEW v, v = w \o (Prefixed(ls) \o t),
           NEW w2 \in Seq(Nat), Extends(w2, v)
    PROVE  LET q == Len(w) + Len(Prefixed(ls)) IN
           /\ QuestionName(w2)[Len(w)] = [labels |-> ls, last |-> q]
           /\ At(w2, q) = t[1]
           /\ q < Len(w2)
<1> DEFINE x == Len(w)
           s == Prefixed(ls)
           q == x + Len(s)
<1>1. x \in Nat /\ s \in Seq(Nat) /\ Len(s) \in Nat /\ Len(t) \in Nat /\ Len(w2) \in Nat /\ q \in Nat
  <2>1. s \in Seq(Nat)
    BY NameOctets
  <2>2. x \in Nat /\ Len(s) \in Nat /\ Len(t) \in Nat /\ Len(w2) \in Nat
    BY <2>1, LenProperties
  <2> HIDE DEF x, s
  <2>3. QED
    BY <2>1, <2>2
<1> HIDE DEF s
<1>2. s \o t \in Seq(Nat)
  BY <1>1, ConcatProperties
<1>3. v = w \o (s \o t)
  BY DEF s
<1>4. v \in Seq(Nat) /\ Occurs(v, x, s \o t)
  BY <1>2, <1>3, AppendedOccurs
<1>5. Occurs(w2, x, s \o t)
  <2> HIDE DEF x
  <2>1. QED
    BY <1>1, <1>2, <1>4, OccursOn
<1>6. Occurs(w2, x, s) /\ Occurs(w2, q, t)
  <2> HIDE DEF x
  <2>1. QED
    BY <1>1, <1>5, OccursParts
<1> HIDE DEF x, q
<1>7. q + Len(t) <= Len(w2) /\ w2[q + 1] = t[1]
  <2>1. 1 \in 1..Len(t)
    BY <1>1
  <2>2. QED
    BY <1>6, <2>1 DEF Occurs
<1>8. At(w2, q) = t[1] /\ q < Len(w2)
  BY <1>1, <1>7 DEF At
<1>9. QuestionName(w2)[x] = [labels |-> ls, last |-> q]
  <2>1. q = x + Len(Prefixed(ls)) /\ Occurs(w2, x, Prefixed(ls))
    BY <1>6 DEF q, s
  <2>2. ~GoesOn(w2, q)
    BY <1>8 DEF GoesOn
  <2>3. QED
    BY <1>1, <2>1, <2>2, QuestionNameRead
<1>10. QED
  BY <1>8, <1>9 DEF x, q, s

\* A question that is appended to w, with its name spelled out, is read.
LEMMA QuestionRead ==
    ASSUME NEW w \in Seq(Nat), NEW q \in Question, NEW v, v = w \o PlainQuestion(q)
    PROVE  /\ PlainQuestion(q) \in Seq(Nat)
           /\ v \in Seq(Nat)
           /\ Extends(v, w)
           /\ v = ((w \o name2message(q.name)) \o Short(q.type)) \o Short(q.class)
           /\ \A w2 \in Seq(Nat) : Extends(w2, v) =>
                 QuestionAt(w2, Len(w)) = [value |-> q, next |-> Len(v)]
<1> DEFINE name == q.name
           octets == name2message(name)
           w1 == w \o octets
           w3 == w1 \o Short(q.type)
           p == Len(w1)
<1>1. /\ name \in Seq(Label) /\ name # <<>> /\ q.type \in Half /\ q.class \in Half
      /\ q = [name |-> q.name, type |-> q.type, class |-> q.class]
      /\ q.type \in Nat /\ q.class \in Nat
  BY DEF Question, Name, Half
<1>2. octets \in Seq(Nat) /\ Len(octets) = Len(Prefixed(name)) + 1 /\ Len(Prefixed(name)) \in Nat
  <2>1. octets \in Seq(Nat) /\ Len(octets) = Len(Prefixed(name)) + 1 /\ Prefixed(name) \in Seq(Nat)
    BY <1>1, NameOctets
  <2>2. QED
    BY <2>1, LenProperties
<1>4. ASSUME NEW w2 \in Seq(Nat), Extends(w2, w1)
      PROVE  LET n == QuestionName(w2)[Len(w)] IN
             /\ n.labels = name /\ n.last = Len(w) + Len(Prefixed(name))
             /\ At(w2, n.last) = 0 /\ n.last < Len(w2)
  <2> DEFINE t == << 0 >>
             n == QuestionName(w2)[Len(w)]
             l == Len(w) + Len(Prefixed(name))
  <2>1. t \in Seq(Nat) /\ Len(t) >= 1 /\ t[1] = 0 /\ t[1] \notin 1..63
    OBVIOUS
  <2>2. w1 = w \o (Prefixed(name) \o t)
    BY DEF name2message
  <2>3. n = [labels |-> name, last |-> l] /\ At(w2, l) = 0 /\ l < Len(w2)
    <3> HIDE DEF t, w1, name
    <3>1. /\ QuestionName(w2)[Len(w)] = [labels |-> name, last |-> Len(w) + Len(Prefixed(name))]
          /\ At(w2, Len(w) + Len(Prefixed(name))) = t[1]
          /\ Len(w) + Len(Prefixed(name)) < Len(w2)
      BY ONLY <1>1, <1>4, <2>1, <2>2, w \in Seq(Nat), w2 \in Seq(Nat), NameStands
    <3>2. QED
      BY <2>1, <3>1
  <2> HIDE DEF n, l
  <2>4. n.labels = name /\ n.last = l
    BY <2>3
  <2>5. QED
    BY <2>3, <2>4 DEF n, l
<1> HIDE DEF octets
<1>5. /\ w1 \in Seq(Nat) /\ p = Len(w) + Len(octets) /\ Extends(w1, w)
      /\ Len(w) \in Nat /\ Len(octets) \in Nat /\ p \in Nat
  <2>1. w1 \in Seq(Nat) /\ Len(w1) = Len(w) + Len(octets) /\ Extends(w1, w)
    BY <1>2, AppendedOccurs
  <2>2. Len(w) \in Nat /\ Len(octets) \in Nat
    BY <1>2, LenProperties
  <2>3. QED
    BY <2>1, <2>2
<1> HIDE DEF w1
<1>6. /\ w3 \in Seq(Nat) /\ Len(w3) = p + 2 /\ Extends(w3, w1)
      /\ \A w2 \in Seq(Nat) : Extends(w2, w3) => ShortAt(w2, p) = q.type
  BY <1>1, <1>5, NumbersAppended
<1> HIDE DEF w3
<1>7. PlainQuestion(q) \in Seq(Nat) /\ v = w3 \o Short(q.class)
  <2> DEFINE t == Short(q.type)
             c == Short(q.class)
  <2>1. t \in Seq(Nat) /\ c \in Seq(Nat)
    BY <1>1, NumbersRead
  <2>2. PlainQuestion(q) = (octets \o t) \o c
    BY DEF PlainQuestion, octets
  <2> HIDE DEF t, c
  <2>3. octets \o t \in Seq(Nat) /\ (octets \o t) \o c \in Seq(Nat)
    BY <1>2, <2>1, ConcatProperties
  <2>4. w \o ((octets \o t) \o c) = (w \o (octets \o t)) \o c
    BY ONLY <2>1, <2>3, w \in Seq(Nat), Joined
  <2>5. w \o (octets \o t) = (w \o octets) \o t
    <3>1. octets \in Seq(Nat) /\ t \in Seq(Nat)
      BY ONLY <1>2, <2>1
    <3>2. QED
      BY ONLY <3>1, w \in Seq(Nat), Joined
  <2>6. QED
    BY <2>2, <2>3, <2>4, <2>5 DEF w3, w1, t, c
<1>8. /\ v \in Seq(Nat) /\ Len(v) = p + 4 /\ Extends(v, w3)
      /\ \A w2 \in Seq(Nat) : Extends(w2, v) => ShortAt(w2, p + 2) = q.class
  <2> DEFINE u == w3 \o Short(q.class)
  <2>1. /\ u \in Seq(Nat) /\ Len(u) = Len(w3) + 2 /\ Extends(u, w3)
        /\ \A w2 \in Seq(Nat) : Extends(w2, u) => ShortAt(w2, Len(w3)) = q.class
    BY <1>1, <1>6, NumbersAppended
  <2> HIDE DEF u, p
  <2>2. u = v
    BY <1>7 DEF u
  <2>3. (p + 2) + 2 = p + 4
    BY <1>5
  <2>4. QED
    BY <1>6, <2>1, <2>2, <2>3
<1>9. Extends(v, w1) /\ Extends(v, w)
  BY <1>5, <1>6, <1>8, ExtendsOrder
<1>10. ASSUME NEW w2 \in Seq(Nat), Extends(w2, v)
       PROVE  QuestionAt(w2, Len(w)) = [value |-> q, next |-> Len(v)]
  <2>1. Extends(w2, w1) /\ Extends(w2, w3)
    BY <1>5, <1>6, <1>8, <1>9, <1>10, ExtendsOrder
  <2> DEFINE n == QuestionName(w2)[Len(w)]
  <2>2. /\ n.labels = name /\ n.last = Len(w) + Len(Prefixed(name))
        /\ At(w2, n.last) = 0 /\ n.last < Len(w2)
    BY <1>4, <2>1
  <2>3. ShortAt(w2, p) = q.type /\ ShortAt(w2, p + 2) = q.class
    BY <1>6, <1>8, <1>10, <2>1
  <2>4. n.last + 1 = p
    <3> DEFINE a == Len(w)
               b == Len(Prefixed(name))
               l == n.last
    <3>1. a \in Nat /\ b \in Nat /\ p = a + (b + 1) /\ l = a + b
      BY <1>2, <1>5, <2>2
    <3> HIDE DEF a, b, p, l
    <3>2. l + 1 = p
      BY <3>1
    <3>3. QED
      BY <3>2 DEF l
  <2>5. n.last + 1 <= Len(w2) /\ n.labels # <<>>
    <3>1. Len(w2) \in Nat
      BY LenProperties
    <3>2. n.last \in Nat
      <4> DEFINE a == Len(w)
                 b == Len(Prefixed(name))
      <4>1. a \in Nat /\ b \in Nat /\ n.last = a + b
        BY <1>2, <1>5, <2>2
      <4> HIDE DEF a, b, n
      <4>2. QED
        BY <4>1
    <3> HIDE DEF n, name
    <3>3. n.last + 1 <= Len(w2)
      BY <2>2, <3>1, <3>2
    <3>4. QED
      BY <1>1, <2>2, <3>3
  <2>6. QuestionAt(w2, Len(w)) =
           [value |-> [name |-> n.labels, type |-> ShortAt(w2, n.last + 1),
                       class |-> ShortAt(w2, (n.last + 1) + 2)],
            next |-> (n.last + 1) + 4]
    BY <2>2, <2>5 DEF QuestionAt
  <2> HIDE DEF n, p
  <2>7. QED
    BY <1>1, <1>8, <2>2, <2>3, <2>4, <2>6
<1>11. v = ((w \o name2message(q.name)) \o Short(q.type)) \o Short(q.class)
  BY <1>7 DEF w3, w1, octets
<1>12. QED
  BY <1>7, <1>8, <1>9, <1>10, <1>11

\* A question whose name has a pointer is not read.
LEMMA PointerStands ==
    ASSUME NEW w \in Seq(Nat), NEW ls \in Seq(Label), NEW h \in Nat, NEW l \in Nat,
           NEW v, v = w \o (Prefixed(ls) \o <<192 + h, l>>),
           NEW w2 \in Seq(Nat), Extends(w2, v)
    PROVE  QuestionAt(w2, Len(w)).value = Unread
<1> DEFINE t == <<192 + h, l>>
           n == QuestionName(w2)[Len(w)]
           e == Len(w) + Len(Prefixed(ls))
<1>1. t \in Seq(Nat) /\ Len(t) >= 1 /\ t[1] = 192 + h
  OBVIOUS
<1> HIDE DEF t
<1>2. t \in Seq(Nat) /\ Len(t) >= 1 /\ t[1] \notin 1..63 /\ t[1] # 0
  BY <1>1
<1>3. v = w \o (Prefixed(ls) \o t)
  BY DEF t
<1>4. n = [labels |-> ls, last |-> e] /\ At(w2, e) = t[1]
  <2> HIDE DEF n
  <2>1. w \in Seq(Nat) /\ ls \in Seq(Label) /\ w2 \in Seq(Nat) /\ Extends(w2, v)
    OBVIOUS
  <2>2. LET q == Len(w) + Len(Prefixed(ls)) IN
        /\ QuestionName(w2)[Len(w)] = [labels |-> ls, last |-> q]
        /\ At(w2, q) = t[1]
        /\ q < Len(w2)
    BY ONLY <1>2, <1>3, <2>1, NameStands
  <2>3. QED
    BY <2>2 DEF n
<1> HIDE DEF n, e
<1>5. At(w2, n.last) # 0
  BY <1>2, <1>4
<1>6. QuestionAt(w2, Len(w)) = [value |-> Unread, next |-> Len(w)]
  BY <1>5 DEF QuestionAt, n
<1>7. QED
  BY <1>6

\* A question that a peer appends to w, with its name spelled in any way: pointers
\* may lead to the name, and the question is not read unless the name is spelled out.
LEMMA QuestionComposed ==
    ASSUME NEW w \in Seq(Nat), NEW q \in Question, NEW known, AllLead(w, known),
           NEW s \in Spellings(q.name, Len(w), known),
           NEW v, v = ((w \o s.octets) \o Short(q.type)) \o Short(q.class)
    PROVE  /\ v \in Seq(Nat)
           /\ Extends(v, w)
           /\ AllLead(v, known \cup s.anchors)
           /\ s.octets # name2message(q.name) =>
                 \A w2 \in Seq(Nat) : Extends(w2, v) => QuestionAt(w2, Len(w)).value = Unread
<1> DEFINE name == q.name
           w1 == w \o s.octets
           w3 == w1 \o Short(q.type)
<1>1. name \in Seq(Label) /\ q.type \in Nat /\ q.class \in Nat
  BY DEF Question, Name, Half
<1>2. s.octets \in Seq(Nat) /\ \A a \in s.anchors : Leads(w1, a)
  <2>1. \A a \in known : Leads(w, a)
    BY DEF AllLead
  <2> HIDE DEF name
  <2>2. s \in Spellings(name, Len(w), known)
    BY DEF name
  <2>3. QED
    BY <1>1, <2>1, <2>2, SpellingRead
<1>3. w1 \in Seq(Nat) /\ Extends(w1, w)
  BY <1>2, AppendedOccurs
<1> HIDE DEF w1
<1>4. w3 \in Seq(Nat) /\ Extends(w3, w1)
  BY <1>1, <1>3, NumbersAppended
<1> HIDE DEF w3
<1>5. v = w3 \o Short(q.class)
  BY DEF w1, w3
<1>6. v \in Seq(Nat) /\ Extends(v, w3)
  <2> DEFINE u == w3 \o Short(q.class)
  <2>1. u \in Seq(Nat) /\ Extends(u, w3)
    BY <1>1, <1>4, NumbersAppended
  <2> HIDE DEF u
  <2>2. u = v
    BY <1>5 DEF u
  <2>3. QED
    BY <2>1, <2>2
<1>7. Extends(v, w1)
  BY <1>3, <1>4, <1>6, ExtendsOrder
<1>8. Extends(v, w)
  BY <1>3, <1>6, <1>7, ExtendsOrder
<1>9. AllLead(v, known \cup s.anchors)
  <2>1. \A a \in s.anchors : Leads(v, a)
    BY <1>2, <1>3, <1>6, <1>7, LeadsOn
  <2>2. \A a \in known : Leads(w, a)
    BY DEF AllLead
  <2>3. \A a \in known : Leads(v, a)
    BY <1>6, <1>8, <2>2, LeadsOn
  <2>4. QED
    BY <2>1, <2>3 DEF AllLead
<1>10. ASSUME s.octets # name2message(name), NEW w2 \in Seq(Nat), Extends(w2, v)
       PROVE  QuestionAt(w2, Len(w)).value = Unread
  <2>1. PICK a \in known :
           /\ a[1] \div 256 < 64
           /\ IsSuffix(a[2], name)
           /\ s.octets = Prefixed(SubSeq(name, 1, Len(name) - Len(a[2]))) \o
                            <<192 + a[1] \div 256, a[1] % 256>>
    <3>1. s.octets # [octets |-> name2message(name),
                      anchors |-> Anchors(Len(w), name, Len(name))].octets
      BY <1>10
    <3> DEFINE o(a) == Prefixed(SubSeq(name, 1, Len(name) - Len(a[2]))) \o
                          <<192 + a[1] \div 256, a[1] % 256>>
               r(a) == Anchors(Len(w), name, Len(name) - Len(a[2]))
               Led(a) == a[1] \div 256 < 64 /\ IsSuffix(a[2], name)
    <3>2. \E a \in {b \in known : Led(b)} : s = [octets |-> o(a), anchors |-> r(a)]
      BY <3>1 DEF Spellings
    <3> HIDE DEF o, r, Led
    <3>3. \E a \in known : Led(a) /\ s.octets = o(a)
      BY <3>2
    <3>4. QED
      BY <3>3 DEF o, Led
  <2>2. Leads(w, a)
    BY DEF AllLead
  <2> DEFINE k == Len(name) - Len(a[2])
             ls == SubSeq(name, 1, k)
             h == a[1] \div 256
             l == a[1] % 256
             t == <<192 + h, l>>
  <2>3. h \in Nat /\ l \in Nat
    <3>1. a[1] \in Nat
      BY <2>2 DEF Leads
    <3> DEFINE b == a[1]
    <3> HIDE DEF b
    <3>2. \A e \in Nat : e \div 256 \in Nat /\ e % 256 \in Nat
      OBVIOUS
    <3>3. QED
      BY <3>1, <3>2
  <2>4. ls \in Seq(Label)
    <3>1. Len(name) \in Nat /\ Len(a[2]) \in Nat
      BY <1>1, <2>2, LenProperties DEF Leads
    <3> DEFINE x == Len(name)
               y == Len(a[2])
    <3>2. k \in Int /\ k <= Len(name)
      <4>1. x \in Nat /\ y \in Nat /\ k = x - y
        BY ONLY <3>1
      <4> HIDE DEF k, x, y
      <4>2. k \in Int /\ k <= x
        BY ONLY <4>1
      <4>3. QED
        BY ONLY <4>2 DEF x
    <3> HIDE DEF x, y
    <3>3. \A i \in 1..k : name[i] \in Label
      <4> HIDE DEF k, name
      <4>1. \A i \in 1..k : i \in 1..Len(name)
        BY <3>1, <3>2
      <4>2. QED
        BY <1>1, <4>1, ElementOfSeq
    <3> HIDE DEF k, name
    <3>4. QED
      BY <3>2, <3>3, SubSeqProperties
  <2> HIDE DEF h, l, ls
  <2>5. w1 = w \o (Prefixed(ls) \o t)
    BY <2>1 DEF w1, ls, h, l
  <2>6. Extends(w2, w1)
    BY <1>3, <1>6, <1>7, <1>10, ExtendsOrder
  <2>7. QED
    BY <2>3, <2>4, <2>5, <2>6, PointerStands
<1>11. QED
  BY <1>6, <1>8, <1>9, <1>10 DEF name

\* The same of every question at once.
LEMMA QuestionAppended ==
    \A w \in Seq(Nat), q \in Question : \A v : v = w \o PlainQuestion(q) =>
       \A w2 \in Seq(Nat) : Extends(w2, v) =>
          QuestionAt(w2, Len(w)) = [value |-> q, next |-> Len(v)]
<1>1. ASSUME NEW w \in Seq(Nat), NEW q \in Question, NEW v, v = w \o PlainQuestion(q)
      PROVE  \A w2 \in Seq(Nat) : Extends(w2, v) =>
                QuestionAt(w2, Len(w)) = [value |-> q, next |-> Len(v)]
  BY ONLY <1>1, w \in Seq(Nat), q \in Question, QuestionRead
<1>2. QED
  BY ONLY <1>1

\* No spelling of a name is longer than the name by more than a pointer.
LEMMA SpellingShort ==
    ASSUME NEW name \in Seq(Label), NEW o, NEW known, \A a \in known : a[2] \in Seq(Label),
           NEW s \in Spellings(name, o, known)
    PROVE  s.octets \in Seq(Nat) => Len(s.octets) <= Len(Prefixed(name)) + 2
<1> DEFINE n == Len(name)
           x(k) == Len(Prefixed(SubSeq(name, 1, k)))
           y == Len(Prefixed(name))
<1>1. /\ n \in Nat /\ y \in Nat /\ y = x(n)
      /\ \A k \in 0..n : x(k) \in Nat /\ Prefixed(SubSeq(name, 1, k)) \in Seq(Nat)
      /\ \A k \in 0..(n - 1) : x(k) <= x(k + 1)
  <2>1. n \in Nat
    BY LenProperties
  <2>2. Prefixed(name) = Prefixed(SubSeq(name, 1, n))
    BY PrefixedAdds
  <2>3. \A k \in 0..n : x(k) \in Nat /\ Prefixed(SubSeq(name, 1, k)) \in Seq(Nat)
    <3>1. \A k \in 0..n : Prefixed(SubSeq(name, 1, k)) \in Seq(Nat)
      BY PrefixedAdds
    <3>2. QED
      BY <3>1, LenProperties
  <2>4. ASSUME NEW k \in 0..(n - 1) PROVE x(k) <= x(k + 1)
    <3> DEFINE a == x(k)
               b == x(k + 1)
               c == Len(name[k + 1])
    <3>1. b = a + 1 + c
      BY PrefixedAdds
    <3>2. a \in Nat
      BY <2>1, <2>3
    <3>3. c \in Nat
      <4>1. k + 1 \in 1..Len(name)
        BY <2>1
      <4>2. name[k + 1] \in Label
        BY <4>1, ElementOfSeq
      <4>3. QED
        BY <4>2 DEF Label
    <3> HIDE DEF a, b, c
    <3>4. a <= b
      BY <3>1, <3>2, <3>3
    <3>5. QED
      BY <3>4 DEF a, b
  <2>5. y \in Nat /\ y = x(n)
    <3>1. n \in 0..n
      BY <2>1
    <3>2. y = x(n)
      BY <2>2
    <3> HIDE DEF x, y, n
    <3>3. QED
      BY <2>3, <3>1, <3>2
  <2>6. QED
    BY <2>1, <2>3, <2>4, <2>5
<1> DEFINE S == {j \in Nat : j <= n => x(n - j) <= x(n)}
<1>2. 0 \in S
  <2> HIDE DEF x, n
  <2>1. n - 0 = n /\ x(n) \in Nat
    BY <1>1
  <2>2. QED
    BY <2>1
<1>3. ASSUME NEW j \in Nat, j \in S PROVE j + 1 \in S
  <2> SUFFICES ASSUME j + 1 <= n PROVE x(n - (j + 1)) <= x(n)
    <3> HIDE DEF x, n
    <3>1. QED
      OBVIOUS
  <2> HIDE DEF x, n
  <2> DEFINE k == n - (j + 1)
  <2>1. k \in 0..(n - 1) /\ k + 1 = n - j /\ k \in 0..n /\ n - j \in 0..n /\ n \in 0..n
    BY <1>1
  <2>2. x(n - j) <= x(n)
    BY <1>1, <1>3
  <2> HIDE DEF k
  <2>3. x(k) <= x(n - j)
    BY <1>1, <2>1
  <2>4. x(k) \in Nat /\ x(n - j) \in Nat /\ x(n) \in Nat
    BY <1>1, <2>1
  <2>5. x(k) <= x(n)
    BY <2>2, <2>3, <2>4
  <2>6. QED
    BY <2>5 DEF k
<1> HIDE DEF S
<1>4. Nat \subseteq S
  BY <1>2, <1>3, EveryNatural
<1>5. ASSUME NEW k \in 0..n PROVE x(k) <= y
  <2> HIDE DEF x, n, y
  <2> DEFINE j == n - k
  <2>1. j \in Nat /\ j <= n /\ n - j = k
    BY <1>1
  <2> HIDE DEF j
  <2>2. x(n - j) <= x(n)
    BY <1>4, <2>1 DEF S
  <2>3. QED
    BY <1>1, <2>1, <2>2
<1>6. CASE s = [octets |-> name2message(name), anchors |-> Anchors(o, name, Len(name))]
  <2>1. Len(s.octets) = y + 1
    BY <1>6, NameOctets
  <2> HIDE DEF y, x
  <2>2. QED
    BY <1>1, <2>1 DEF y
<1>7. ASSUME NEW a \in known, IsSuffix(a[2], name),
             s = [octets |-> Prefixed(SubSeq(name, 1, Len(name) - Len(a[2]))) \o
                                <<192 + (a[1] \div 256), a[1] % 256>>,
                  anchors |-> Anchors(o, name, Len(name) - Len(a[2]))],
             s.octets \in Seq(Nat)
      PROVE  Len(s.octets) <= y + 2
  <2> DEFINE k == n - Len(a[2])
             t == <<192 + (a[1] \div 256), a[1] % 256>>
             u == Prefixed(SubSeq(name, 1, k))
             e == s.octets
  <2>1. k \in 0..n
    BY <1>7, SuffixSplit
  <2>2. u \in Seq(Nat) /\ x(k) <= y /\ x(k) \in Nat
    <3> HIDE DEF k
    <3>1. QED
      BY <1>1, <1>5, <2>1
  <2>3. Len(e) = Len(u) + 2
    <3>1. e = u \o t
      BY <1>7
    <3>2. t \in Seq({t[1], t[2]}) /\ Len(t) = 2
      OBVIOUS
    <3> HIDE DEF t, u, e
    <3>3. u \in Seq(Nat \cup {t[1], t[2]}) /\ t \in Seq(Nat \cup {t[1], t[2]})
      BY <2>2, <3>2, SeqMonotonic DEF u
    <3>4. Len(u \o t) = Len(u) + Len(t)
      BY <3>3, ConcatProperties
    <3>5. QED
      BY <3>1, <3>2, <3>4
  <2>4. Len(u) = x(k)
    OBVIOUS
  <2> HIDE DEF u, k, x, y, e
  <2>5. Len(e) <= y + 2
    BY <1>1, <2>2, <2>3, <2>4
  <2>6. QED
    BY <2>5 DEF e
<1>8. s = [octets |-> name2message(name), anchors |-> Anchors(o, name, Len(name))] \/
      \E a \in known :
         /\ a[1] \div 256 < 64 /\ IsSuffix(a[2], name)
         /\ s = [octets |-> Prefixed(SubSeq(name, 1, Len(name) - Len(a[2]))) \o
                               <<192 + (a[1] \div 256), a[1] % 256>>,
                 anchors |-> Anchors(o, name, Len(name) - Len(a[2]))]
  <2>1. Cases(s, name, o, known)
    BY SpellingCases
  <2>2. QED
    BY <2>1 DEF Cases
<1>9. QED
  BY <1>6, <1>7, <1>8

\* What buf2message makes of a record whose data takes so many octets.
Made(rr, length) ==
    [name |-> rr.name, type |-> rr.type, class |-> rr.class, ttl |-> rr.ttl,
     response_data_length |-> length,
     data |-> IF rr.type \in KnownTypes THEN rr.data ELSE <<>>]

\* The record from offset o up to next, of whatever begins with v.
RecordStands(v, o, rr, length, next) ==
    \A w2 \in Seq(Nat) :
       Extends(w2, v) => RecordAt(w2, o) = [value |-> Made(rr, length), next |-> next]

\* What a record is made of.
LEMMA RecordParts ==
    ASSUME NEW rr, IsRecord(rr)
    PROVE  /\ rr.name \in Seq(Label)
           /\ rr.type \in Half
           /\ rr.type = TypeCNAME => /\ rr.data \in Seq(Label)
                                     /\ Len(Prefixed(rr.data)) < 255
           /\ rr.type # TypeCNAME => rr.data \in Seq(Nat) /\ Len(rr.data) \in Half
<1>1. rr.name \in Seq(Label) /\ rr.type \in Half
  BY DEF IsRecord, Name
<1>2. CASE rr.type = TypeCNAME
  <2>1. rr.data \in Name
    BY <1>2 DEF IsRecord
  <2>2. QED
    BY <1>1, <1>2, <2>1 DEF Name
<1>3. CASE rr.type # TypeCNAME
  <2>1. rr.data \in Seq(Octet) /\ Len(rr.data) \in Half
    BY <1>3 DEF IsRecord
  <2>2. Octet \subseteq Nat
    BY DEF Octet
  <2>3. rr.data \in Seq(Nat)
    BY <2>1, <2>2, SeqMonotonic
  <2>4. QED
    BY <1>1, <1>3, <2>1, <2>3
<1>4. QED
  BY <1>2, <1>3

\* v is w and the record as Compose spells it.
Spelled(w, rr, known, owner, data, v) ==
    LET fixed == w \o owner.octets \o Short(rr.type) \o Short(rr.class) \o Word(rr.ttl)
    IN  /\ owner \in Spellings(rr.name, Len(w), known)
        /\ data \in DataSpellings(rr, Len(fixed) + 2, known \cup owner.anchors)
        /\ v = fixed \o Short(Len(data.octets)) \o data.octets

\* However its names are spelled, a record that is appended to w is read, up to
\* its end, and pointers may lead to its names.
LEMMA RecordRead ==
    ASSUME NEW w \in Seq(Nat), NEW rr, IsRecord(rr), rr.class \in Half, IsSeconds(rr.ttl),
           NEW known, AllLead(w, known), NEW owner, NEW data,
           NEW v, Spelled(w, rr, known, owner, data, v)
    PROVE  /\ v \in Seq(Nat)
           /\ Extends(v, w)
           /\ AllLead(v, (known \cup owner.anchors) \cup data.anchors)
           /\ RecordStands(v, Len(w), rr, Len(data.octets), Len(v))
           /\ Len(data.octets) \in Nat
           /\ rr.type # TypeCNAME => data.octets = rr.data
<1>0. PICK fixed :
         /\ owner \in Spellings(rr.name, Len(w), known)
         /\ fixed = w \o owner.octets \o Short(rr.type) \o Short(rr.class) \o Word(rr.ttl)
         /\ data \in DataSpellings(rr, Len(fixed) + 2, known \cup owner.anchors)
         /\ v = fixed \o Short(Len(data.octets)) \o data.octets
         /\ \A a \in known : Leads(w, a)
  BY DEF Spelled, AllLead
<1> USE <1>0
<1> DEFINE x == Len(w)
           e == Len(owner.octets)
           l == Len(data.octets)
           w1 == w \o owner.octets
           w3 == w1 \o Short(rr.type)
           w4 == w3 \o Short(rr.class)
           w5 == w4 \o Word(rr.ttl)
           w6 == w5 \o Short(l)
           p == Len(w1)
<1>1. /\ rr.name \in Seq(Label) /\ rr.type \in Half
      /\ rr.type \in Nat /\ rr.class \in Nat /\ rr.ttl \in Nat
  <2>1. rr.name \in Seq(Label) /\ rr.type \in Half
    BY RecordParts
  <2>2. rr.ttl \in Nat
    BY DEF IsSeconds
  <2>3. rr.type \in Nat /\ rr.class \in Nat
    BY ONLY <2>1, rr.class \in Half DEF Half
  <2>4. QED
    BY ONLY <2>1, <2>2, <2>3
<1>2. /\ owner.octets \in Seq(Nat) /\ e \in Nat \ {0}
      /\ \A a \in owner.anchors : Leads(w1, a)
      /\ NameAt(w1, x, rr.name, x + e - 1)
  BY <1>1, SpellingRead
<1>3. w1 \in Seq(Nat) /\ p = x + e /\ Extends(w1, w) /\ x \in Nat /\ p \in Nat
  <2>1. w1 \in Seq(Nat) /\ p = x + e /\ Extends(w1, w)
    BY <1>2, AppendedOccurs
  <2>2. x \in Nat
    BY LenProperties
  <2> HIDE DEF e, x, p, w1
  <2>3. p \in Nat
    BY ONLY <1>2, <2>1, <2>2
  <2>4. QED
    BY ONLY <2>1, <2>2, <2>3
<1>p. p \in Nat
  BY <1>3
<1> HIDE DEF w1
<1>4. /\ w3 \in Seq(Nat) /\ Len(w3) = p + 2 /\ Extends(w3, w1)
      /\ \A w2 \in Seq(Nat) : Extends(w2, w3) => ShortAt(w2, p) = rr.type
  BY <1>1, <1>3, NumbersAppended
<1> HIDE DEF w3
<1>5. /\ w4 \in Seq(Nat) /\ Len(w4) = p + 4 /\ Extends(w4, w3)
      /\ \A w2 \in Seq(Nat) : Extends(w2, w4) => ShortAt(w2, p + 2) = rr.class
  <2>1. /\ w4 \in Seq(Nat) /\ Len(w4) = Len(w3) + 2 /\ Extends(w4, w3)
        /\ \A w2 \in Seq(Nat) : Extends(w2, w4) => ShortAt(w2, Len(w3)) = rr.class
    BY <1>1, <1>4, NumbersAppended
  <2> HIDE DEF w4, p
  <2>2. (p + 2) + 2 = p + 4
    BY ONLY <1>p
  <2>3. QED
    BY ONLY <1>4, <2>1, <2>2
<1> HIDE DEF w4
<1>6. /\ w5 \in Seq(Nat) /\ Len(w5) = p + 8 /\ Extends(w5, w4)
      /\ \A w2 \in Seq(Nat) : Extends(w2, w5) => IntAt(w2, p + 4) = rr.ttl
  <2>1. /\ w5 \in Seq(Nat) /\ Len(w5) = Len(w4) + 4 /\ Extends(w5, w4)
        /\ \A w2 \in Seq(Nat) : Extends(w2, w5) => IntAt(w2, Len(w4)) = rr.ttl
    BY <1>1, <1>5, NumbersAppended
  <2> HIDE DEF w5, p
  <2>2. (p + 4) + 4 = p + 8
    BY ONLY <1>p
  <2>3. QED
    BY ONLY <1>5, <2>1, <2>2
<1>7. fixed = w5
  BY DEF w5, w4, w3, w1
<1> HIDE DEF w5
\* The data, once there is a place for it.
<1>8. ASSUME l \in Nat
      PROVE  w6 \in Seq(Nat) /\ Len(w6) = p + 10 /\ Extends(w6, w5) /\ v = w6 \o data.octets
  <2>1. w6 \in Seq(Nat) /\ Len(w6) = Len(w5) + 2 /\ Extends(w6, w5)
    <3> HIDE DEF l
    <3>1. QED
      BY <1>6, <1>8, NumbersAppended
  <2>2. v = w6 \o data.octets
    BY <1>7
  <2> HIDE DEF w6, p
  <2>3. (p + 8) + 2 = p + 10
    BY ONLY <1>p
  <2>4. QED
    BY <1>6, <2>1, <2>2, <2>3
<1>9. ASSUME NEW u \in Seq(Nat), Extends(u, w5)
      PROVE  /\ Extends(u, w4) /\ Extends(u, w3) /\ Extends(u, w1) /\ Extends(u, w)
             /\ \A a \in known \cup owner.anchors : Leads(u, a)
  <2>1. Extends(u, w4)
    BY <1>5, <1>6, <1>9, ExtendsOrder
  <2>2. Extends(u, w3)
    BY <1>4, <1>5, <2>1, ExtendsOrder
  <2>3. Extends(u, w1)
    BY <1>3, <1>4, <2>2, ExtendsOrder
  <2>4. Extends(u, w)
    BY <1>3, <2>3, ExtendsOrder
  <2>5. \A a \in known : Leads(u, a)
    BY <2>4, LeadsOn DEF AllLead
  <2>6. \A a \in owner.anchors : Leads(u, a)
    BY <1>2, <1>3, <2>3, LeadsOn
  <2>7. QED
    BY <2>1, <2>2, <2>3, <2>4, <2>5, <2>6
\* Length and octets of the data.
<1>10. /\ data.octets \in Seq(Nat) /\ l \in Nat /\ l \in Half
       /\ v \in Seq(Nat) /\ Extends(v, w6) /\ Len(v) = (p + 10) + l
       /\ \A a \in data.anchors : Leads(v, a)
       /\ rr.type = TypeCNAME => NameAt(v, p + 10, rr.data, (p + 10) + l - 1)
       /\ rr.type # TypeCNAME => data.octets = rr.data
  <2>1. CASE rr.type = TypeCNAME
    <3>1. rr.data \in Seq(Label) /\ Len(Prefixed(rr.data)) < 255
      BY <2>1, RecordParts
    <3> DEFINE k == known \cup owner.anchors
               o == Len(fixed) + 2
    <3>2. data \in Spellings(rr.data, o, k)
      BY <2>1 DEF DataSpellings
    <3>3. o = p + 10
      <4> HIDE DEF p
      <4>1. (p + 8) + 2 = p + 10
        BY ONLY <1>p
      <4>2. QED
        BY <1>6, <1>7, <4>1
    <3> DEFINE u == w5 \o Short(0)
    <3>4. u \in Seq(Nat) /\ Len(u) = p + 10 /\ Extends(u, w5)
      <4> DEFINE zero == 0
      <4>1. zero \in Nat
        OBVIOUS
      <4> HIDE DEF zero
      <4>2. w5 \o Short(zero) \in Seq(Nat) /\ Len(w5 \o Short(zero)) = Len(w5) + 2 /\ Extends(w5 \o Short(zero), w5)
        BY <1>6, <4>1, NumbersAppended
      <4>3. Len(w5) + 2 = p + 10
        BY <1>7, <3>3
      <4>4. QED
        BY <4>2, <4>3 DEF zero
    <3> HIDE DEF u, k, o
    <3>5. \A a \in k : Leads(u, a)
      BY <1>9, <3>4 DEF k
    <3>6. data \in Spellings(rr.data, Len(u), k)
      BY <3>2, <3>3, <3>4
    <3>7. data.octets \in Seq(Nat) /\ l \in Nat \ {0}
      BY <3>1, <3>4, <3>5, <3>6, SpellingRead
    <3>8. l <= Len(Prefixed(rr.data)) + 2
      <4>1. \A a \in k : a[2] \in Seq(Label)
        BY <3>5 DEF Leads
      <4>2. QED
        BY <3>1, <3>2, <3>7, <4>1, SpellingShort
    <3>9. l \in Half
      <4> DEFINE y == Len(Prefixed(rr.data))
      <4>1. y \in Nat /\ y < 255 /\ l <= y + 2 /\ l \in Nat
        <5>1. Prefixed(rr.data) \in Seq(Nat)
          BY <3>1, NameOctets
        <5>2. l \in Nat
          BY <3>7
        <5>3. QED
          BY <3>1, <3>8, <5>1, <5>2, LenProperties
      <4> HIDE DEF y, l
      <4>2. l \in Nat /\ l < 65536
        BY ONLY <4>1
      <4>3. QED
        BY ONLY <4>2 DEF Half
    <3>10. w6 \in Seq(Nat) /\ Len(w6) = p + 10 /\ Extends(w6, w5) /\ v = w6 \o data.octets
      BY <1>8, <3>7
    <3> HIDE DEF w6
    <3>11. \A a \in k : Leads(w6, a)
      BY <1>9, <3>10 DEF k
    <3>12. data \in Spellings(rr.data, Len(w6), k)
      BY <3>2, <3>3, <3>10
    <3>13. /\ \A a \in data.anchors : Leads(w6 \o data.octets, a)
           /\ NameAt(w6 \o data.octets, Len(w6), rr.data, Len(w6) + Len(data.octets) - 1)
      BY <3>1, <3>10, <3>11, <3>12, SpellingRead
    <3>14. /\ w6 \o data.octets \in Seq(Nat)
           /\ Len(w6 \o data.octets) = Len(w6) + Len(data.octets)
           /\ Extends(w6 \o data.octets, w6)
      BY <3>7, <3>10, AppendedOccurs
    <3>15. QED
      BY <2>1, <3>7, <3>9, <3>10, <3>13, <3>14
  <2>2. CASE rr.type # TypeCNAME
    <3>1. rr.data \in Seq(Nat) /\ Len(rr.data) \in Half
      BY <2>2, RecordParts
    <3>2. data = [octets |-> rr.data, anchors |-> {}]
      BY <2>2 DEF DataSpellings
    <3>3. data.octets = rr.data /\ data.anchors = {}
      BY <3>2
    <3>4. data.octets \in Seq(Nat) /\ l \in Half /\ l \in Nat
      BY <3>1, <3>3, LenProperties
    <3>5. w6 \in Seq(Nat) /\ Len(w6) = p + 10 /\ v = w6 \o data.octets
      BY <1>8, <3>4
    <3> HIDE DEF w6
    <3>6. /\ w6 \o data.octets \in Seq(Nat)
          /\ Len(w6 \o data.octets) = Len(w6) + Len(data.octets)
          /\ Extends(w6 \o data.octets, w6)
      BY <3>4, <3>5, AppendedOccurs
    <3>7. QED
      BY <2>2, <3>3, <3>4, <3>5, <3>6
  <2>3. QED
    BY <2>1, <2>2
<1>11. w6 \in Seq(Nat) /\ Len(w6) = p + 10 /\ Extends(w6, w5) /\ v = w6 \o data.octets
  BY <1>8, <1>10
<1>12. Extends(v, w5)
  <2> HIDE DEF w6
  <2>1. QED
    BY <1>6, <1>10, <1>11, ExtendsOrder
<1>13. Extends(v, w) /\ AllLead(v, (known \cup owner.anchors) \cup data.anchors)
  BY <1>9, <1>10, <1>12 DEF AllLead
<1>14. ASSUME NEW w2 \in Seq(Nat), Extends(w2, v)
       PROVE  RecordAt(w2, x) = [value |-> Made(rr, l), next |-> Len(v)]
  <2> HIDE DEF w6
  <2>1. Extends(w2, w6) /\ Extends(w2, w5)
    BY <1>6, <1>10, <1>11, <1>12, <1>14, ExtendsOrder
  <2>2. Extends(w2, w4) /\ Extends(w2, w3) /\ Extends(w2, w1)
    BY <1>9, <2>1
  <2>3. createName(w2, x) = [labels |-> rr.name, last |-> x + e - 1]
    BY <1>2, <2>2 DEF NameAt
  <2>4. /\ ShortAt(w2, p) = rr.type /\ ShortAt(w2, p + 2) = rr.class
        /\ IntAt(w2, p + 4) = rr.ttl
    BY <1>4, <1>5, <1>6, <2>1, <2>2
  <2>5. ShortAt(w2, p + 8) = l
    <3>1. \A u \in Seq(Nat) : Extends(u, w5 \o Short(l)) => ShortAt(u, Len(w5)) = l
      <4> HIDE DEF l
      <4>1. QED
        BY <1>6, <1>10, NumbersAppended
    <3>2. QED
      BY <1>6, <2>1, <3>1 DEF w6
  <2> DEFINE n == createName(w2, x)
             d == createRData(w2, p + 10, rr.type, l)
  <2>6. n.labels = rr.name /\ n.last + 1 = p
    <3>1. (x + e - 1) + 1 = p
      <4>1. p = x + e /\ x \in Nat /\ e \in Nat
        BY <1>2, <1>3
      <4> HIDE DEF x, e, p
      <4>2. QED
        BY ONLY <4>1
    <3>2. n = [labels |-> rr.name, last |-> x + e - 1]
      BY ONLY <2>3
    <3> HIDE DEF n, p, x, e
    <3>3. n.labels = rr.name /\ n.last = x + e - 1
      BY ONLY <3>2
    <3>4. QED
      BY ONLY <3>1, <3>3
  <2>7. d = [value |-> IF rr.type \in KnownTypes THEN rr.data ELSE <<>>, next |-> Len(v)]
    <3>1. CASE rr.type = TypeCNAME
      <4>1. createName(w2, p + 10) = [labels |-> rr.data, last |-> (p + 10) + l - 1]
        BY <1>10, <1>14, <3>1 DEF NameAt
      <4>2. ((p + 10) + l - 1) + 1 = Len(v)
        <5>1. p \in Nat /\ l \in Nat /\ Len(v) = (p + 10) + l
          BY ONLY <1>3, <1>10
        <5> HIDE DEF p, l
        <5>2. QED
          BY ONLY <5>1
      <4>3. d = [value |-> createName(w2, p + 10).labels,
                 next |-> createName(w2, p + 10).last + 1]
        <5>1. rr.type \notin {TypeA, TypeAAAA}
          BY <3>1 DEF TypeA, TypeAAAA, TypeCNAME
        <5>2. QED
          BY <3>1, <5>1 DEF createRData
      <4>4. rr.type \in KnownTypes
        BY <3>1 DEF KnownTypes
      <4> DEFINE c == createName(w2, p + 10)
      <4>5. c.labels = rr.data /\ c.last + 1 = Len(v)
        <5> DEFINE q == (p + 10) + l - 1
        <5>1. c = [labels |-> rr.data, last |-> q] /\ q + 1 = Len(v)
          BY <4>1, <4>2
        <5> HIDE DEF c, q
        <5>2. QED
          BY <5>1
      <4>6. d = [value |-> c.labels, next |-> c.last + 1]
        BY <4>3
      <4> HIDE DEF d, c
      <4>7. QED
        BY <4>4, <4>5, <4>6
    <3>2. CASE rr.type \in {TypeA, TypeAAAA}
      <4>1. rr.type # TypeCNAME /\ rr.type \in KnownTypes
        BY ONLY <3>2 DEF TypeA, TypeAAAA, TypeCNAME, KnownTypes
      <4>2. d = [value |-> OctetsAt(w2, p + 10, l), next |-> (p + 10) + l]
        BY <3>2, <4>1 DEF createRData
      <4>3. OctetsAt(w2, p + 10, l) = rr.data
        <5> DEFINE c == data.octets
        <5>1. c \in Seq(Nat) /\ c = rr.data /\ v = w6 \o c
          BY <1>10, <1>11, <4>1
        <5> HIDE DEF c, l
        <5>2. Occurs(w6 \o c, Len(w6), c)
          BY <1>11, <5>1, AppendedOccurs
        <5>3. Occurs(v, p + 10, c)
          BY <1>11, <5>1, <5>2
        <5> HIDE DEF p
        <5>4. p + 10 \in Nat
          BY ONLY <1>p
        <5>5. Occurs(w2, p + 10, c)
          BY <1>10, <1>14, <5>1, <5>3, <5>4, OccursOn
        <5>6. OctetsAt(w2, p + 10, Len(c)) = c
          BY <5>1, <5>4, <5>5, OctetsRead
        <5>7. QED
          BY <5>1, <5>6 DEF c, l
      <4> HIDE DEF d, p, l
      <4>4. QED
        BY <1>10, <4>1, <4>2, <4>3
    <3>3. CASE rr.type \notin KnownTypes
      <4>1. rr.type # TypeCNAME /\ rr.type \notin {TypeA, TypeAAAA}
        BY <3>3 DEF KnownTypes
      <4>2. d = [value |-> <<>>, next |-> (p + 10) + l]
        BY <4>1 DEF createRData
      <4> HIDE DEF d, p, l
      <4>3. QED
        BY <1>10, <3>3, <4>2
    <3>4. QED
      BY <3>1, <3>2, <3>3 DEF KnownTypes
  <2>8. RecordAt(w2, x) =
           LET pos == n.last + 1
               type == ShortAt(w2, pos)
               length == ShortAt(w2, pos + 8)
               rdata == createRData(w2, pos + 10, type, length)
           IN  [value |-> [name |-> n.labels, type |-> type, class |-> ShortAt(w2, pos + 2),
                           ttl |-> IntAt(w2, pos + 4), response_data_length |-> length,
                           data |-> rdata.value],
                next |-> rdata.next]
    BY DEF RecordAt
  <2>9. RecordAt(w2, x) =
           [value |-> [name |-> rr.name, type |-> rr.type, class |-> rr.class,
                       ttl |-> rr.ttl, response_data_length |-> l, data |-> d.value],
            next |-> d.next]
    <3> HIDE DEF n, p, l, x
    <3>1. QED
      BY <2>4, <2>5, <2>6, <2>8
  <2> HIDE DEF d, n, l, p, x
  <2>10. QED
    BY <2>7, <2>9 DEF Made
<1>15. QED
  BY <1>10, <1>13, <1>14 DEF RecordStands

-----------------------------------------------------------------------------
(* Reading what comes before the answers *)

\* The header has twelve octets, and its numbers are read.
LEMMA HeadingRead ==
    ASSUME NEW m, m.id \in Half, m.flags \in Half, Len(m.queries) \in Half,
           Len(m.answers) \in Half, m.extra \in Extra
    PROVE  /\ Heading(m) \in Seq(Nat)
           /\ Len(Heading(m)) = 12
           /\ \A w2 \in Seq(Nat) : Extends(w2, Heading(m)) =>
                 /\ ShortAt(w2, 0) = m.id
                 /\ ShortAt(w2, 2) = m.flags
                 /\ ShortAt(w2, 4) = Len(m.queries)
                 /\ ShortAt(w2, 6) = Len(m.answers)
                 /\ ShortAt(w2, 8) = m.extra.authorities
                 /\ ShortAt(w2, 10) = m.extra.additional
<1> DEFINE n1 == m.id
           n2 == m.flags
           n3 == Len(m.queries)
           n4 == Len(m.answers)
           n5 == m.extra.authorities
           n6 == m.extra.additional
           h1 == Short(n1)
           h2 == h1 \o Short(n2)
           h3 == h2 \o Short(n3)
           h4 == h3 \o Short(n4)
           h5 == h4 \o Short(n5)
           h6 == h5 \o Short(n6)
<1>1. /\ n1 \in Half /\ n2 \in Half /\ n3 \in Half /\ n4 \in Half /\ n5 \in Half /\ n6 \in Half
      /\ n1 \in Nat /\ n2 \in Nat /\ n3 \in Nat /\ n4 \in Nat /\ n5 \in Nat /\ n6 \in Nat
  BY DEF Half, Extra
<1>h. Heading(m) = h6
  BY DEF Heading
<1> HIDE DEF n1, n2, n3, n4, n5, n6
<1>2. /\ h1 \in Seq(Nat) /\ Len(h1) = 2
      /\ \A w2 \in Seq(Nat) : Extends(w2, h1) => ShortAt(w2, 0) = n1
  <2> DEFINE none == <<>>
  <2>1. none \in Seq(Nat) /\ Len(none) = 0
    OBVIOUS
  <2>2. h1 \in Seq(Nat) /\ none \o h1 = h1
    BY <1>1, NumbersRead, ConcatEmptySeq
  <2> HIDE DEF none
  <2>3. /\ none \o Short(n1) \in Seq(Nat)
        /\ Len(none \o Short(n1)) = Len(none) + 2
        /\ \A w2 \in Seq(Nat) : Extends(w2, none \o Short(n1)) => ShortAt(w2, Len(none)) = n1
    BY <1>1, <2>1, NumbersAppended
  <2>4. QED
    BY <2>1, <2>2, <2>3
<1> HIDE DEF h1
<1>3. /\ h2 \in Seq(Nat) /\ Len(h2) = 4 /\ Extends(h2, h1)
      /\ \A w2 \in Seq(Nat) : Extends(w2, h2) => ShortAt(w2, 2) = n2
  <2>1. /\ h2 \in Seq(Nat) /\ Len(h2) = Len(h1) + 2 /\ Extends(h2, h1)
        /\ \A w2 \in Seq(Nat) : Extends(w2, h2) => ShortAt(w2, Len(h1)) = n2
    BY <1>1, <1>2, NumbersAppended
  <2> HIDE DEF h2
  <2>2. QED
    BY <1>2, <2>1
<1> HIDE DEF h2
<1>4. /\ h3 \in Seq(Nat) /\ Len(h3) = 6 /\ Extends(h3, h2)
      /\ \A w2 \in Seq(Nat) : Extends(w2, h3) => ShortAt(w2, 4) = n3
  <2>1. /\ h3 \in Seq(Nat) /\ Len(h3) = Len(h2) + 2 /\ Extends(h3, h2)
        /\ \A w2 \in Seq(Nat) : Extends(w2, h3) => ShortAt(w2, Len(h2)) = n3
    BY <1>1, <1>3, NumbersAppended
  <2> HIDE DEF h3
  <2>2. QED
    BY <1>3, <2>1
<1> HIDE DEF h3
<1>5. /\ h4 \in Seq(Nat) /\ Len(h4) = 8 /\ Extends(h4, h3)
      /\ \A w2 \in Seq(Nat) : Extends(w2, h4) => ShortAt(w2, 6) = n4
  <2>1. /\ h4 \in Seq(Nat) /\ Len(h4) = Len(h3) + 2 /\ Extends(h4, h3)
        /\ \A w2 \in Seq(Nat) : Extends(w2, h4) => ShortAt(w2, Len(h3)) = n4
    BY <1>1, <1>4, NumbersAppended
  <2> HIDE DEF h4
  <2>2. QED
    BY <1>4, <2>1
<1> HIDE DEF h4
<1>6. /\ h5 \in Seq(Nat) /\ Len(h5) = 10 /\ Extends(h5, h4)
      /\ \A w2 \in Seq(Nat) : Extends(w2, h5) => ShortAt(w2, 8) = n5
  <2>1. /\ h5 \in Seq(Nat) /\ Len(h5) = Len(h4) + 2 /\ Extends(h5, h4)
        /\ \A w2 \in Seq(Nat) : Extends(w2, h5) => ShortAt(w2, Len(h4)) = n5
    BY <1>1, <1>5, NumbersAppended
  <2> HIDE DEF h5
  <2>2. QED
    BY <1>5, <2>1
<1> HIDE DEF h5
<1>7. /\ h6 \in Seq(Nat) /\ Len(h6) = 12 /\ Extends(h6, h5)
      /\ \A w2 \in Seq(Nat) : Extends(w2, h6) => ShortAt(w2, 10) = n6
  <2>1. /\ h6 \in Seq(Nat) /\ Len(h6) = Len(h5) + 2 /\ Extends(h6, h5)
        /\ \A w2 \in Seq(Nat) : Extends(w2, h6) => ShortAt(w2, Len(h5)) = n6
    BY <1>1, <1>6, NumbersAppended
  <2> HIDE DEF h6
  <2>2. QED
    BY <1>6, <2>1
<1> HIDE DEF h6
<1>8. ASSUME NEW w2 \in Seq(Nat), Extends(w2, h6)
      PROVE  /\ ShortAt(w2, 0) = n1 /\ ShortAt(w2, 2) = n2 /\ ShortAt(w2, 4) = n3
             /\ ShortAt(w2, 6) = n4 /\ ShortAt(w2, 8) = n5 /\ ShortAt(w2, 10) = n6
  <2>1. Extends(w2, h5)
    BY <1>6, <1>7, <1>8, ExtendsOrder
  <2>2. Extends(w2, h4)
    BY <1>5, <1>6, <2>1, ExtendsOrder
  <2>3. Extends(w2, h3)
    BY <1>4, <1>5, <2>2, ExtendsOrder
  <2>4. Extends(w2, h2)
    BY <1>3, <1>4, <2>3, ExtendsOrder
  <2>5. Extends(w2, h1)
    BY <1>2, <1>3, <2>4, ExtendsOrder
  <2> HIDE DEF h1, h2, h3, h4, h5, h6
  <2>6. ShortAt(w2, 0) = n1 /\ ShortAt(w2, 2) = n2 /\ ShortAt(w2, 4) = n3
    BY <1>2, <1>3, <1>4, <2>3, <2>4, <2>5
  <2>7. ShortAt(w2, 6) = n4 /\ ShortAt(w2, 8) = n5 /\ ShortAt(w2, 10) = n6
    BY <1>5, <1>6, <1>7, <1>8, <2>1, <2>2
  <2>8. QED
    BY <2>6, <2>7
<1>9. QED
  BY <1>h, <1>7, <1>8 DEF n1, n2, n3, n4, n5, n6

Questions(qs) == [i \in DOMAIN qs |-> PlainQuestion(qs[i])]

\* The datagram up to its k-th question.
StartTo(m, k) == Heading(m) \o Flat(Questions(m.queries), k)

\* The questions are appended to the header one by one.
LEMMA StartParts ==
    ASSUME NEW m, IsMessage(m)
    PROVE  LET n == Len(m.queries) IN
           /\ n \in Nat
           /\ StartTo(m, 0) = Heading(m)
           /\ PlainStart(m) = StartTo(m, n)
           /\ \A k \in 0..n : StartTo(m, k) \in Seq(Nat)
           /\ \A k \in 0..(n - 1) :
                 /\ m.queries[k + 1] \in Question
                 /\ StartTo(m, k + 1) = StartTo(m, k) \o PlainQuestion(m.queries[k + 1])
           /\ \A k \in 0..n : Extends(PlainStart(m), StartTo(m, k))
<1> DEFINE qs == m.queries
           n == Len(qs)
           g == Questions(qs)
           h == Heading(m)
           w(k) == StartTo(m, k)
<1>1. qs \in Seq(Question) /\ n \in Nat /\ DOMAIN qs = 1..n
  <2>1. qs \in Seq(Question)
    BY DEF IsMessage
  <2> HIDE DEF qs
  <2>2. QED
    BY <2>1, LenProperties
<1>2. h \in Seq(Nat)
  BY HeadingRead DEF IsMessage
<1> HIDE DEF h, qs
<1>3. \A k \in 1..n : qs[k] \in Question
  BY <1>1, ElementOfSeq
<1>4. \A k \in 1..n : PlainQuestion(qs[k]) \in Seq(Nat)
  <2>1. ASSUME NEW k \in 1..n PROVE PlainQuestion(qs[k]) \in Seq(Nat)
    <3> DEFINE v == h \o PlainQuestion(qs[k])
    <3>1. v = h \o PlainQuestion(qs[k]) /\ qs[k] \in Question
      BY <1>3
    <3> HIDE DEF v
    <3>2. QED
      BY <1>2, <3>1, QuestionRead
  <2>2. QED
    BY <2>1
<1>5. g \in [1..n -> Seq(Nat)] /\ \A k \in 1..n : g[k] = PlainQuestion(qs[k])
  BY <1>1, <1>4 DEF Questions
<1> HIDE DEF g, n
<1>6. /\ Flat(g, 0) = <<>>
      /\ \A k \in 0..(n - 1) : Flat(g, k + 1) = Flat(g, k) \o g[k + 1]
      /\ \A k \in 0..n : Flat(g, k) \in Seq(Nat)
      /\ FlattenSeq(g) = Flat(g, n)
  BY <1>1, <1>5, FlatAdds
<1>7. \A k : w(k) = h \o Flat(g, k)
  BY DEF StartTo, h, g, qs
<1> HIDE DEF w
<1>8. w(0) = h
  <2>1. h \o <<>> = h
    BY <1>2, ConcatEmptySeq
  <2>2. QED
    BY <1>6, <1>7, <2>1
<1>9. PlainStart(m) = w(n)
  BY <1>6, <1>7 DEF PlainStart, g, h, qs, Questions
<1>10. \A k \in 0..n : w(k) \in Seq(Nat)
  <2>1. \A k \in 0..n : Flat(g, k) \in Seq(Nat)
    BY <1>6
  <2>2. QED
    BY <1>2, <1>7, <2>1, ConcatProperties
<1>11. ASSUME NEW k \in 0..(n - 1)
       PROVE  /\ qs[k + 1] \in Question
              /\ w(k + 1) = w(k) \o PlainQuestion(qs[k + 1])
              /\ PlainQuestion(qs[k + 1]) \in Seq(Nat)
  <2>1. k + 1 \in 1..n /\ k \in 0..n
    BY <1>1
  <2>2. Flat(g, k + 1) = Flat(g, k) \o g[k + 1]
    BY <1>6
  <2>3. /\ g[k + 1] = PlainQuestion(qs[k + 1]) /\ g[k + 1] \in Seq(Nat)
        /\ Flat(g, k) \in Seq(Nat)
    BY <1>4, <1>5, <1>6, <2>1
  <2>4. h \o (Flat(g, k) \o g[k + 1]) = (h \o Flat(g, k)) \o g[k + 1]
    BY <1>2, <2>3, Joined
  <2>5. QED
    BY <1>3, <1>7, <2>1, <2>2, <2>3, <2>4
<1> DEFINE S == {j \in Nat : j <= n => Extends(w(n), w(n - j))}
<1>12. 0 \in S
  <2>1. n - 0 = n /\ n \in 0..n
    BY <1>1
  <2>2. Extends(w(n), w(n))
    BY <1>10, <2>1, ExtendsOrder
  <2>3. QED
    BY <2>1, <2>2
<1>13. ASSUME NEW j \in Nat, j \in S PROVE j + 1 \in S
  <2> SUFFICES ASSUME j + 1 <= n PROVE Extends(w(n), w(n - (j + 1)))
    OBVIOUS
  <2> DEFINE k == n - (j + 1)
  <2>1. k \in 0..(n - 1) /\ k + 1 = n - j /\ k \in 0..n /\ n - j \in 0..n /\ n \in 0..n
    BY <1>1
  <2>2. Extends(w(n), w(n - j))
    BY <1>1, <1>13
  <2> HIDE DEF k
  <2>3. w(n - j) = w(k) \o PlainQuestion(qs[k + 1]) /\ PlainQuestion(qs[k + 1]) \in Seq(Nat)
    BY <1>11, <2>1
  <2>4. w(k) \in Seq(Nat) /\ w(n) \in Seq(Nat) /\ w(n - j) \in Seq(Nat)
    BY <1>10, <2>1
  <2>5. Extends(w(n - j), w(k))
    BY <2>3, <2>4, AppendedOccurs
  <2>6. Extends(w(n), w(k))
    BY <2>2, <2>4, <2>5, ExtendsOrder
  <2>7. QED
    BY <2>6 DEF k
<1> HIDE DEF S
<1>14. Nat \subseteq S
  BY <1>12, <1>13, EveryNatural
<1>15. ASSUME NEW k \in 0..n PROVE Extends(w(n), w(k))
  <2> DEFINE j == n - k
  <2>1. j \in Nat /\ j <= n /\ n - j = k
    BY <1>1
  <2> HIDE DEF j
  <2>2. Extends(w(n), w(n - j))
    BY <1>14, <2>1 DEF S
  <2>3. QED
    BY <2>1, <2>2
<1>16. QED
  BY <1>1, <1>8, <1>9, <1>10, <1>11, <1>15 DEF w, n, qs, h

\* A sequence grows by its next element.
LEMMA NextElement ==
    ASSUME NEW T, NEW s \in Seq(T), NEW k \in 0..(Len(s) - 1)
    PROVE  SubSeq(s, 1, k + 1) = Append(SubSeq(s, 1, k), s[k + 1])
<1> DEFINE n == k + 1
           a == SubSeq(s, 1, k)
<1>1. Len(s) \in Nat
  BY LenProperties
<1>2. n \in 1..Len(s) /\ 1 \in 1..Len(s) /\ n - 1 = k
  BY <1>1
<1>3. SubSeq(s, 1, n) = SubSeq(s, 1, n - 1) \o <<s[n]>>
  <2> HIDE DEF n
  <2>1. n \in 1..Len(s) /\ n \in 1..n
    BY <1>2
  <2>2. QED
    BY <1>2, <2>1, SubSeqRecursiveSecond
<1>4. a \in Seq(T) /\ s[n] \in T
  <2>1. \A i \in 1..k : s[i] \in T
    BY <1>1, ElementOfSeq
  <2>2. 1 \in Int /\ k \in Int
    OBVIOUS
  <2>3. a \in Seq(T)
    BY <2>1, <2>2, SubSeqProperties
  <2> HIDE DEF n
  <2>4. QED
    BY <1>2, <2>3, ElementOfSeq
<1>5. Append(a, s[n]) = a \o <<s[n]>>
  <2> HIDE DEF a, n
  <2>1. QED
    BY <1>4, AppendIsConcat
<1>6. QED
  BY <1>2, <1>3, <1>5

\* The header and the first k questions are read, whatever comes after them.
LEMMA QuestionsRead ==
    ASSUME NEW m, IsMessage(m), NEW k \in 0..Len(m.queries),
           NEW w2 \in Seq(Nat), Extends(w2, StartTo(m, k))
    PROVE  /\ ShortAt(w2, 0) = m.id
           /\ ShortAt(w2, 2) = m.flags
           /\ ShortAt(w2, 4) = Len(m.queries)
           /\ ShortAt(w2, 6) = Len(m.answers)
           /\ ShortAt(w2, 8) = m.extra.authorities
           /\ ShortAt(w2, 10) = m.extra.additional
           /\ buf2messageQuestion(w2, k) =
                 [list |-> SubSeq(m.queries, 1, k), next |-> Len(StartTo(m, k))]
<1> DEFINE qs == m.queries
           n == Len(qs)
           w(i) == StartTo(m, i)
           Read == [p \in Nat |-> QuestionAt(w2, p)]
           E(i) == Entries(Read, 12, i)
           R(i) == [list |-> SubSeq(qs, 1, i), next |-> Len(w(i))]
           S == {i \in Nat : i <= n =>
                    Extends(w(i), w(0)) /\ (Extends(w2, w(i)) => E(i) = R(i))}
<1>1. /\ n \in Nat
      /\ w(0) = Heading(m)
      /\ \A i \in 0..n : w(i) \in Seq(Nat)
      /\ \A i \in 0..(n - 1) : qs[i + 1] \in Question /\ w(i + 1) = w(i) \o PlainQuestion(qs[i + 1])
  BY StartParts
<1>2. Len(w(0)) = 12 /\ w(0) \in Seq(Nat)
  <2>1. 0 \in 0..n
    BY <1>1
  <2>2. Len(Heading(m)) = 12
    BY HeadingRead DEF IsMessage
  <2> HIDE DEF w, n
  <2>3. QED
    BY <1>1, <2>1, <2>2
<1>3. qs \in Seq(Question)
  BY DEF IsMessage
<1>4. 0 \in S
  <2>1. SubSeq(qs, 1, 0) = <<>>
    BY SubSeqEmpty
  <2>2. E(0) = [list |-> <<>>, next |-> 12]
    BY EntriesStep
  <2>3. Extends(w(0), w(0))
    BY <1>2, ExtendsOrder
  <2> HIDE DEF E, w, qs, n
  <2>4. QED
    BY <1>2, <2>1, <2>2, <2>3
<1>5. ASSUME NEW i \in Nat, i \in S PROVE i + 1 \in S
  <2> SUFFICES ASSUME i + 1 <= n
               PROVE  /\ Extends(w(i + 1), w(0))
                      /\ Extends(w2, w(i + 1)) => E(i + 1) = R(i + 1)
    <3> HIDE DEF E, R, n, w
    <3>1. QED
      OBVIOUS
  <2>1. i \in 0..(n - 1) /\ i \in 0..n /\ i + 1 \in 0..n
    BY <1>1
  <2>2. /\ w(i) \in Seq(Nat) /\ qs[i + 1] \in Question
        /\ w(i + 1) = w(i) \o PlainQuestion(qs[i + 1])
        /\ w(i + 1) \in Seq(Nat)
    <3> HIDE DEF w, n
    <3>1. QED
      BY <1>1, <2>1
  <2>3. Extends(w(i + 1), w(i))
    <3> DEFINE u == w(i)
               v == w(i + 1)
               q == qs[i + 1]
    <3>1. u \in Seq(Nat) /\ q \in Question /\ v = u \o PlainQuestion(q)
      BY <2>2
    <3> HIDE DEF u, v, q
    <3>2. Extends(v, u)
      BY <3>1, QuestionRead
    <3> HIDE DEF w
    <3>3. QED
      BY <3>2 DEF u, v
  <2>4. Extends(w(i), w(0)) /\ (Extends(w2, w(i)) => E(i) = R(i))
    <3> HIDE DEF E, R, n, w
    <3>1. QED
      BY <1>1, <1>5, <2>1
  <2>5. Extends(w(i + 1), w(0))
    <3> HIDE DEF w
    <3>1. QED
      BY <1>2, <2>2, <2>3, <2>4, ExtendsOrder
  <2>6. ASSUME Extends(w2, w(i + 1)) PROVE E(i + 1) = R(i + 1)
    <3>1. E(i) = R(i)
      <4> HIDE DEF E, R, w
      <4>1. Extends(w2, w(i))
        BY <2>2, <2>3, <2>6, ExtendsOrder
      <4>2. QED
        BY <2>4, <4>1
    <3>2. /\ E(i + 1).list = Append(E(i).list, Read[E(i).next].value)
          /\ E(i + 1).next = Read[E(i).next].next
          /\ E(i + 1) = [list |-> E(i + 1).list, next |-> E(i + 1).next]
      <4> HIDE DEF Read
      <4>1. E(i + 1) = [list |-> Append(E(i).list, Read[E(i).next].value),
                        next |-> Read[E(i).next].next]
        BY EntriesStep
      <4> HIDE DEF E
      <4>2. QED
        BY <4>1
    <3>3. QuestionAt(w2, Len(w(i))) = [value |-> qs[i + 1], next |-> Len(w(i + 1))]
      <4> DEFINE u == w(i)
                 v == w(i + 1)
                 q == qs[i + 1]
      <4>1. /\ u \in Seq(Nat) /\ q \in Question /\ v = u \o PlainQuestion(q)
            /\ Extends(w2, v)
        BY <2>2, <2>6
      <4> HIDE DEF u, v, q
      <4>2. \A w3 \in Seq(Nat) : Extends(w3, v) =>
               QuestionAt(w3, Len(u)) = [value |-> q, next |-> Len(v)]
        BY ONLY <4>1, QuestionAppended
      <4> DEFINE at(x) == QuestionAt(x, Len(u))
                 right == [value |-> q, next |-> Len(v)]
      <4>3. \A w3 \in Seq(Nat) : Extends(w3, v) => at(w3) = right
        BY ONLY <4>2
      <4> HIDE DEF at, right
      <4>4. at(w2) = right
        BY ONLY <4>1, <4>3, w2 \in Seq(Nat)
      <4> HIDE DEF w, qs
      <4>5. QED
        BY ONLY <4>4 DEF at, right, u, v, q
    <3>4. Len(w(i)) \in Nat
      BY <2>2, LenProperties
    <3>5. E(i).list = SubSeq(qs, 1, i) /\ E(i).next = Len(w(i))
      <4> HIDE DEF E, w, qs
      <4>1. QED
        BY <3>1
    <3>6. Read[E(i).next] = [value |-> qs[i + 1], next |-> Len(w(i + 1))]
      <4> HIDE DEF E, w, qs
      <4>1. QED
        BY <3>3, <3>4, <3>5
    <3>7. Append(SubSeq(qs, 1, i), qs[i + 1]) = SubSeq(qs, 1, i + 1)
      <4> HIDE DEF qs
      <4>1. QED
        BY <1>3, <2>1, NextElement DEF n
    <3> HIDE DEF E, w, qs, Read
    <3>8. E(i + 1).list = SubSeq(qs, 1, i + 1) /\ E(i + 1).next = Len(w(i + 1))
      <4> DEFINE r == Read[E(i).next]
      <4>1. r.value = qs[i + 1] /\ r.next = Len(w(i + 1))
        BY <3>6
      <4>2. E(i + 1).list = Append(E(i).list, r.value) /\ E(i + 1).next = r.next
        BY <3>2
      <4> HIDE DEF r
      <4>3. QED
        BY <3>5, <3>7, <4>1, <4>2
    <3>9. QED
      BY <3>2, <3>8
  <2>7. QED
    BY <2>5, <2>6
<1> HIDE DEF S
<1>6. Nat \subseteq S
  BY <1>4, <1>5, EveryNatural
<1>7. k \in 0..n /\ Extends(w2, w(k)) /\ k \in Nat
  OBVIOUS
<1>8. Extends(w(k), w(0)) /\ E(k) = R(k)
  <2> HIDE DEF E, R, n, w
  <2>1. QED
    BY <1>1, <1>6, <1>7 DEF S
<1>9. buf2messageQuestion(w2, k) = R(k)
  <2>1. buf2messageQuestion(w2, k) = E(k)
    BY DEF buf2messageQuestion
  <2> HIDE DEF E, R, w
  <2>2. QED
    BY <1>8, <2>1
<1>10. Extends(w2, Heading(m)) /\ Heading(m) \in Seq(Nat)
  <2> HIDE DEF w, n
  <2>1. Extends(w2, w(0))
    BY <1>1, <1>2, <1>7, <1>8, ExtendsOrder
  <2>2. QED
    BY <1>1, <1>2, <2>1
<1>11. /\ m.id \in Half /\ m.flags \in Half /\ Len(m.queries) \in Half
       /\ Len(m.answers) \in Half /\ m.extra \in Extra
  BY DEF IsMessage
<1>12. /\ ShortAt(w2, 0) = m.id /\ ShortAt(w2, 2) = m.flags
       /\ ShortAt(w2, 4) = Len(m.queries) /\ ShortAt(w2, 6) = Len(m.answers)
       /\ ShortAt(w2, 8) = m.extra.authorities /\ ShortAt(w2, 10) = m.extra.additional
  BY <1>10, <1>11, HeadingRead
<1>13. QED
  BY <1>9, <1>12

\* The header and the questions are read, whatever comes after them.
LEMMA StartRead ==
    ASSUME NEW m, IsMessage(m)
    PROVE  /\ PlainStart(m) \in Seq(Nat)
           /\ \A w2 \in Seq(Nat) : Extends(w2, PlainStart(m)) =>
                 /\ ShortAt(w2, 0) = m.id
                 /\ ShortAt(w2, 2) = m.flags
                 /\ ShortAt(w2, 4) = Len(m.queries)
                 /\ ShortAt(w2, 6) = Len(m.answers)
                 /\ ShortAt(w2, 8) = m.extra.authorities
                 /\ ShortAt(w2, 10) = m.extra.additional
                 /\ buf2messageQuestion(w2, Len(m.queries)) =
                       [list |-> m.queries, next |-> Len(PlainStart(m))]
<1> DEFINE n == Len(m.queries)
           start == PlainStart(m)
<1>1. n \in Nat /\ start = StartTo(m, n) /\ \A k \in 0..n : StartTo(m, k) \in Seq(Nat)
  BY StartParts
<1>2. n \in 0..n
  BY <1>1
<1>3. start \in Seq(Nat)
  <2> HIDE DEF start, n
  <2>1. QED
    BY <1>1, <1>2
<1>4. SubSeq(m.queries, 1, n) = m.queries
  <2>1. m.queries \in Seq(Question)
    BY DEF IsMessage
  <2>2. QED
    BY <2>1, SubSeqFull
<1> HIDE DEF start
<1>5. ASSUME NEW w2 \in Seq(Nat), Extends(w2, start)
      PROVE  /\ ShortAt(w2, 0) = m.id /\ ShortAt(w2, 2) = m.flags
             /\ ShortAt(w2, 4) = n /\ ShortAt(w2, 6) = Len(m.answers)
             /\ ShortAt(w2, 8) = m.extra.authorities /\ ShortAt(w2, 10) = m.extra.additional
             /\ buf2messageQuestion(w2, n) = [list |-> m.queries, next |-> Len(start)]
  <2>1. Extends(w2, StartTo(m, n))
    BY <1>1, <1>5
  <2>2. /\ ShortAt(w2, 0) = m.id /\ ShortAt(w2, 2) = m.flags
        /\ ShortAt(w2, 4) = n /\ ShortAt(w2, 6) = Len(m.answers)
        /\ ShortAt(w2, 8) = m.extra.authorities /\ ShortAt(w2, 10) = m.extra.additional
        /\ buf2messageQuestion(w2, n) =
              [list |-> SubSeq(m.queries, 1, n), next |-> Len(StartTo(m, n))]
    BY <1>2, <2>1, QuestionsRead
  <2> HIDE DEF n
  <2>3. QED
    BY <1>1, <1>4, <2>2
<1>6. QED
  BY <1>3, <1>5 DEF start

\* At some offset that w leads to, a question is not read.
Lost(w, m) ==
    \E i \in 0..(Len(m.queries) - 1) :
       /\ Extends(w, StartTo(m, i))
       /\ \A w2 \in Seq(Nat) : Extends(w2, w) =>
             QuestionAt(w2, Len(StartTo(m, i))).value = Unread

\* It is not read either if there is more.
LEMMA LostOn ==
    ASSUME NEW m, IsMessage(m), NEW w \in Seq(Nat), Lost(w, m), NEW v \in Seq(Nat), Extends(v, w)
    PROVE  Lost(v, m)
<1>1. PICK i \in 0..(Len(m.queries) - 1) :
         /\ Extends(w, StartTo(m, i))
         /\ \A w2 \in Seq(Nat) : Extends(w2, w) =>
               QuestionAt(w2, Len(StartTo(m, i))).value = Unread
  BY DEF Lost
<1>2. StartTo(m, i) \in Seq(Nat)
  <2>1. \A k \in 0..Len(m.queries) : StartTo(m, k) \in Seq(Nat)
    BY StartParts
  <2>2. i \in 0..Len(m.queries)
    BY StartParts
  <2>3. QED
    BY <2>1, <2>2
<1>3. Extends(v, StartTo(m, i))
  BY <1>1, <1>2, ExtendsOrder
<1>4. ASSUME NEW w2 \in Seq(Nat), Extends(w2, v)
      PROVE  QuestionAt(w2, Len(StartTo(m, i))).value = Unread
  <2>1. Extends(w2, w)
    BY <1>4, ExtendsOrder
  <2>2. QED
    BY <1>1, <2>1
<1>5. QED
  BY <1>3, <1>4 DEF Lost

\* What the next entry adds.
LEMMA EntriesNext ==
    ASSUME NEW Read, NEW o, NEW k \in Nat
    PROVE  /\ Entries(Read, o, k + 1).list =
                Append(Entries(Read, o, k).list, Read[Entries(Read, o, k).next].value)
           /\ Entries(Read, o, k + 1).next = Read[Entries(Read, o, k).next].next
<1> DEFINE a == Entries(Read, o, k)
           b == Entries(Read, o, k + 1)
<1>1. b = [list |-> Append(a.list, Read[a.next].value), next |-> Read[a.next].next]
  BY EntriesStep
<1> HIDE DEF a, b
<1>2. b.list = Append(a.list, Read[a.next].value) /\ b.next = Read[a.next].next
  BY ONLY <1>1
<1>3. QED
  BY <1>2 DEF a, b

\* What was read as an entry stays one.
LEMMA EntryStays ==
    ASSUME NEW Read, NEW o, NEW i \in Nat, NEW n \in Nat, i < n
    PROVE  Read[Entries(Read, o, i).next].value \in Range(Entries(Read, o, n).list)
<1> DEFINE E(k) == Entries(Read, o, k).list
           x(k) == Read[Entries(Read, o, k).next].value
           T == {x(k) : k \in Nat}
           S == {k \in Nat : /\ E(k) \in Seq(T) /\ Len(E(k)) = k
                             /\ i < k => x(i) \in Range(E(k))}
<1>1. E(0) = <<>> /\ \A k \in Nat : E(k + 1) = Append(E(k), x(k))
  <2>1. E(0) = <<>>
    <3>1. Entries(Read, o, 0) = [list |-> <<>>, next |-> o]
      BY EntriesStep
    <3>2. QED
      BY <3>1
  <2>2. ASSUME NEW k \in Nat PROVE E(k + 1) = Append(E(k), x(k))
    <3>1. Entries(Read, o, k + 1).list =
             Append(Entries(Read, o, k).list, Read[Entries(Read, o, k).next].value)
      BY EntriesNext
    <3>2. QED
      BY ONLY <3>1
  <2> HIDE DEF E, x
  <2>3. QED
    BY <2>1, <2>2
<1>2. \A k \in Nat : x(k) \in T
  OBVIOUS
<1> HIDE DEF E, x, T
<1>3. 0 \in S
  <2>1. E(0) \in Seq(T) /\ Len(E(0)) = 0
    <3>1. <<>> \in Seq(T) /\ Len(<<>>) = 0
      OBVIOUS
    <3>2. QED
      BY <1>1, <3>1
  <2>2. ~(i < 0)
    OBVIOUS
  <2>3. QED
    BY <2>1, <2>2
<1>4. ASSUME NEW k \in Nat, k \in S PROVE k + 1 \in S
  <2> DEFINE a == E(k)
             b == E(k + 1)
  <2>1. a \in Seq(T) /\ Len(a) = k /\ x(k) \in T /\ b = Append(a, x(k))
    BY <1>1, <1>2, <1>4
  <2>2. i < k => x(i) \in Range(a)
    BY <1>4
  <2> HIDE DEF a, b
  <2>3. /\ b \in Seq(T) /\ Len(b) = k + 1
        /\ \A j \in 1..k : b[j] = a[j]
        /\ b[k + 1] = x(k)
    BY <2>1, AppendProperties
  <2>4. DOMAIN b = 1..(k + 1) /\ DOMAIN a = 1..k
    BY <2>1, <2>3, LenProperties
  <2>5. ASSUME i < k + 1 PROVE x(i) \in Range(b)
    <3>1. CASE i = k
      <4>1. k + 1 \in DOMAIN b /\ b[k + 1] = x(i)
        BY <2>3, <2>4, <3>1
      <4>2. QED
        BY <4>1 DEF Range
    <3>2. CASE i # k
      <4>1. x(i) \in Range(a)
        BY <2>2, <2>5, <3>2
      <4>2. PICK j \in 1..k : a[j] = x(i)
        BY <2>4, <4>1 DEF Range
      <4>3. j \in DOMAIN b /\ b[j] = x(i)
        BY <2>3, <2>4, <4>2
      <4>4. QED
        BY <4>3 DEF Range
    <3>3. QED
      BY <3>1, <3>2
  <2>6. QED
    BY <2>3, <2>5 DEF b
<1> HIDE DEF S
<1>5. n \in S
  BY <1>3, <1>4, EveryNatural
<1>6. QED
  BY <1>5 DEF S, E, x

\* Then the questions are not all read.
LEMMA LostIsUnread ==
    ASSUME NEW m, IsMessage(m), NEW w \in Seq(Nat), Lost(w, m)
    PROVE  Unread \in Range(buf2messageQuestion(w, ShortAt(w, 4)).list)
<1> DEFINE n == Len(m.queries)
           Read == [p \in Nat |-> QuestionAt(w, p)]
<1>1. n \in Nat /\ \A k \in 0..n : StartTo(m, k) \in Seq(Nat)
  BY StartParts
<1>2. PICK i \in 0..(n - 1) :
         /\ Extends(w, StartTo(m, i))
         /\ \A w2 \in Seq(Nat) : Extends(w2, w) =>
               QuestionAt(w2, Len(StartTo(m, i))).value = Unread
  BY DEF Lost
<1>3. i \in 0..n /\ i \in Nat /\ i < n
  BY <1>1
<1> DEFINE o == Len(StartTo(m, i))
<1>4. o \in Nat
  BY <1>1, <1>3, LenProperties
<1>5. ShortAt(w, 4) = n /\ buf2messageQuestion(w, i) = [list |-> SubSeq(m.queries, 1, i), next |-> o]
  BY <1>2, <1>3, QuestionsRead
<1>6. QuestionAt(w, o).value = Unread
  <2>1. Extends(w, w)
    BY ExtendsOrder
  <2> HIDE DEF o
  <2>2. QED
    BY <1>2, <2>1 DEF o
<1> HIDE DEF o, n
<1>7. Entries(Read, 12, i).next = o
  <2>1. Entries(Read, 12, i) = buf2messageQuestion(w, i)
    BY DEF buf2messageQuestion
  <2> HIDE DEF Read
  <2>2. QED
    BY <1>5, <2>1
<1>8. Read[Entries(Read, 12, i).next].value = Unread
  <2>1. Read[o] = QuestionAt(w, o)
    BY <1>4
  <2> HIDE DEF Read
  <2>2. QED
    BY <1>6, <1>7, <2>1
<1>9. Unread \in Range(Entries(Read, 12, n).list)
  <2> HIDE DEF Read
  <2>1. QED
    BY <1>1, <1>3, <1>8, EntryStays
<1>10. QED
  BY <1>5, <1>9 DEF buf2messageQuestion

-----------------------------------------------------------------------------
(* Reading the answers *)

\* How many octets the data of the first k answers takes: where they are addresses
\* no other number is possible.
Lengths(m, k) ==
    {ls \in [1..k -> Nat] :
        \A i \in 1..k : m.answers[i].type \in {TypeA, TypeAAAA} => ls[i] = Len(m.answers[i].data)}

MadeOf(m, ls, k) == [i \in 1..k |-> Made(m.answers[i], ls[i])]

\* w holds the message up to its k-th answer.
Composed(w, m, k) ==
    /\ w \in Seq(Nat)
    /\ Extends(w, PlainStart(m))
    /\ \E ls \in Lengths(m, k) : \A w2 \in Seq(Nat) : Extends(w2, w) =>
          buf2messageRR(w2, Len(PlainStart(m)), k) = [list |-> MadeOf(m, ls, k), next |-> Len(w)]

LEMMA AnswerParts ==
    ASSUME NEW m, IsMessage(m)
    PROVE  /\ Len(m.answers) \in Nat
           /\ DOMAIN m.answers = 1..Len(m.answers)
           /\ \A i \in 1..Len(m.answers) :
                 /\ IsRecord(m.answers[i])
                 /\ m.answers[i].class \in Half
                 /\ IsSeconds(m.answers[i].ttl)
<1> DEFINE rrs == m.answers
<1>1. rrs \in Seq(Range(rrs)) /\ \A rr \in Range(rrs) : IsRecord(rr)
  BY DEF IsMessage, AreRecords
<1>2. \A rr \in Range(rrs) : rr.class \in Half /\ IsSeconds(rr.ttl)
  BY DEF IsMessage
<1> HIDE DEF rrs
<1>3. Len(rrs) \in Nat /\ DOMAIN rrs = 1..Len(rrs)
  BY <1>1, LenProperties
<1>4. \A i \in 1..Len(rrs) : rrs[i] \in Range(rrs)
  BY <1>3 DEF Range
<1>5. QED
  BY <1>1, <1>2, <1>3, <1>4 DEF rrs

LEMMA ComposedStart ==
    ASSUME NEW m, IsMessage(m)
    PROVE  Composed(PlainStart(m), m, 0)
<1> DEFINE w == PlainStart(m)
           ls == [i \in 1..0 |-> 0]
<1>1. w \in Seq(Nat)
  BY StartRead
<1>2. Extends(w, w)
  BY <1>1, ExtendsOrder
<1>3. ls \in Lengths(m, 0)
  BY DEF Lengths
<1>4. MadeOf(m, ls, 0) = <<>>
  BY DEF MadeOf
<1>5. ASSUME NEW w2
      PROVE  buf2messageRR(w2, Len(w), 0) = [list |-> <<>>, next |-> Len(w)]
  BY EntriesStep DEF buf2messageRR
<1> HIDE DEF w, ls
<1>6. \A w2 \in Seq(Nat) : Extends(w2, w) =>
         buf2messageRR(w2, Len(w), 0) = [list |-> MadeOf(m, ls, 0), next |-> Len(w)]
  BY <1>4, <1>5
<1>7. QED
  BY <1>1, <1>2, <1>3, <1>6 DEF Composed, w

LEMMA ComposedNext ==
    ASSUME NEW m, IsMessage(m), NEW k \in 0..(Len(m.answers) - 1),
           NEW w, Composed(w, m, k), NEW rr, rr = m.answers[k + 1],
           NEW known, AllLead(w, known), NEW owner, NEW data,
           NEW v, Spelled(w, rr, known, owner, data, v)
    PROVE  /\ Composed(v, m, k + 1)
           /\ AllLead(v, (known \cup owner.anchors) \cup data.anchors)
<1> DEFINE start == PlainStart(m)
           l == Len(data.octets)
<1>1. w \in Seq(Nat) /\ Extends(w, start)
  BY DEF Composed
<1>2. start \in Seq(Nat)
  BY StartRead
<1>3. IsRecord(rr) /\ rr.class \in Half /\ IsSeconds(rr.ttl) /\ k \in Nat
  <2>1. k + 1 \in 1..Len(m.answers) /\ k \in Nat
    BY AnswerParts
  <2>2. QED
    BY <2>1, AnswerParts
<1>4. /\ v \in Seq(Nat)
      /\ Extends(v, w)
      /\ AllLead(v, (known \cup owner.anchors) \cup data.anchors)
      /\ RecordStands(v, Len(w), rr, Len(data.octets), Len(v))
      /\ Len(data.octets) \in Nat
      /\ rr.type # TypeCNAME => data.octets = rr.data
  BY ONLY <1>1, <1>3, AllLead(w, known), Spelled(w, rr, known, owner, data, v), RecordRead
<1>5. l \in Nat /\ (rr.type \in {TypeA, TypeAAAA} => l = Len(rr.data))
  <2>1. rr.type \in {TypeA, TypeAAAA} => rr.type # TypeCNAME
    BY ONLY TRUE DEF TypeA, TypeAAAA, TypeCNAME
  <2>2. QED
    BY ONLY <1>4, <2>1
<1>s. RecordStands(v, Len(w), rr, l, Len(v))
  BY <1>4
<1> HIDE DEF l
<1>6. PICK ls \in Lengths(m, k) : \A w2 \in Seq(Nat) : Extends(w2, w) =>
         buf2messageRR(w2, Len(start), k) = [list |-> MadeOf(m, ls, k), next |-> Len(w)]
  BY DEF Composed
<1> DEFINE more == [i \in 1..(k + 1) |-> IF i = k + 1 THEN l ELSE ls[i]]
<1>7. ls \in [1..k -> Nat] /\ \A i \in 1..k : m.answers[i].type \in {TypeA, TypeAAAA} =>
                                                 ls[i] = Len(m.answers[i].data)
  BY DEF Lengths
<1>8. /\ more \in [1..(k + 1) -> Nat]
      /\ more[k + 1] = l /\ \A i \in 1..k : more[i] = ls[i]
  <2>1. \A i \in 1..(k + 1) : i # k + 1 => i \in 1..k
    BY <1>3
  <2>2. \A i \in 1..k : i \in 1..(k + 1) /\ i # k + 1
    BY <1>3
  <2>3. k + 1 \in 1..(k + 1)
    BY <1>3
  <2>4. QED
    BY <1>5, <1>7, <2>1, <2>2, <2>3
<1> HIDE DEF more
<1>9. more \in Lengths(m, k + 1)
  <2>1. ASSUME NEW i \in 1..(k + 1), m.answers[i].type \in {TypeA, TypeAAAA}
        PROVE  more[i] = Len(m.answers[i].data)
    <3>1. CASE i = k + 1
      <4>1. m.answers[i] = rr /\ more[i] = l
        BY <1>8, <3>1
      <4>2. QED
        BY <1>5, <2>1, <4>1
    <3>2. CASE i # k + 1
      <4>1. i \in 1..k
        BY <1>3, <3>2
      <4>2. QED
        BY <1>7, <1>8, <2>1, <4>1
    <3>3. QED
      BY <3>1, <3>2
  <2>2. QED
    BY <1>8, <2>1 DEF Lengths
<1>10. Append(MadeOf(m, ls, k), Made(rr, l)) = MadeOf(m, more, k + 1)
  <2> DEFINE M(i) == Made(m.answers[i], more[i])
             a == MadeOf(m, ls, k)
             T == {M(i) : i \in 1..(k + 1)}
             b == Append(a, Made(rr, l))
             c == MadeOf(m, more, k + 1)
  <2>1. \A i \in 1..k : i \in 1..(k + 1) /\ i # k + 1
    BY <1>3
  <2>2. a = [i \in 1..k |-> M(i)]
    BY <1>8 DEF MadeOf
  <2>3. c = [i \in 1..(k + 1) |-> M(i)]
    BY DEF MadeOf
  <2>4. Made(rr, l) = M(k + 1)
    BY <1>8
  <2> HIDE DEF M, a, c
  <2>5. a \in Seq(T) /\ Len(a) = k /\ \A i \in 1..k : a[i] = M(i)
    <3>1. \A i \in 1..k : M(i) \in T
      BY <2>1
    <3> HIDE DEF T
    <3>2. QED
      BY <1>3, <2>2, <3>1
  <2>6. c \in Seq(T) /\ Len(c) = k + 1 /\ \A i \in 1..(k + 1) : c[i] = M(i)
    <3>1. \A i \in 1..(k + 1) : M(i) \in T
      OBVIOUS
    <3> HIDE DEF T
    <3>2. QED
      BY <1>3, <2>3, <3>1
  <2>7. M(k + 1) \in T
    <3>1. k + 1 \in 1..(k + 1)
      BY <1>3
    <3>2. QED
      BY <3>1
  <2> HIDE DEF T
  <2>8. /\ b \in Seq(T) /\ Len(b) = k + 1
        /\ \A i \in 1..k : b[i] = a[i]
        /\ b[k + 1] = M(k + 1)
    <3>1. b = Append(a, M(k + 1))
      BY <2>4
    <3> HIDE DEF b
    <3>2. QED
      BY <2>5, <2>7, <3>1, AppendProperties
  <2> HIDE DEF b
  <2>9. ASSUME NEW i \in 1..(k + 1) PROVE b[i] = c[i]
    <3>1. i = k + 1 \/ i \in 1..k
      BY <1>3
    <3>2. QED
      BY <2>5, <2>6, <2>8, <3>1
  <2>10. b = c
    BY <2>6, <2>8, <2>9, SeqEqual
  <2>11. QED
    BY <2>10 DEF a, b, c
<1>11. ASSUME NEW w2 \in Seq(Nat), Extends(w2, v)
       PROVE  buf2messageRR(w2, Len(start), k + 1) = [list |-> MadeOf(m, more, k + 1), next |-> Len(v)]
  <2>1. Extends(w2, w)
    BY <1>1, <1>4, <1>11, ExtendsOrder
  <2> DEFINE Read == [p \in Nat |-> RecordAt(w2, p)]
             a == Entries(Read, Len(start), k)
             b == Entries(Read, Len(start), k + 1)
             r == Read[a.next]
  <2>2. a = [list |-> MadeOf(m, ls, k), next |-> Len(w)]
    <3>1. a = buf2messageRR(w2, Len(start), k)
      BY DEF buf2messageRR
    <3> HIDE DEF a, start
    <3>2. QED
      BY <1>6, <2>1, <3>1
  <2>3. RecordAt(w2, Len(w)) = [value |-> Made(rr, l), next |-> Len(v)]
    BY <1>s, <1>11 DEF RecordStands
  <2>4. Len(w) \in Nat
    BY <1>1, LenProperties
  <2>5. a.next = Len(w) /\ a.list = MadeOf(m, ls, k)
    <3> HIDE DEF a
    <3>1. QED
      BY <2>2
  <2>6. r.value = Made(rr, l) /\ r.next = Len(v)
    <3> HIDE DEF a
    <3>1. r = RecordAt(w2, Len(w))
      BY <2>4, <2>5
    <3> HIDE DEF r
    <3>2. QED
      BY <2>3, <3>1
  <2>7. b = [list |-> Append(a.list, r.value), next |-> r.next]
    <3> HIDE DEF Read
    <3>1. QED
      BY <1>3, EntriesStep
  <2>8. buf2messageRR(w2, Len(start), k + 1) = b
    BY DEF buf2messageRR
  <2> HIDE DEF a, b, r
  <2>9. QED
    BY <1>10, <2>5, <2>6, <2>7, <2>8
<1>12. Extends(v, start)
  <2> HIDE DEF start
  <2>1. QED
    BY <1>1, <1>2, <1>4, ExtendsOrder
<1>13. QED
  BY <1>4, <1>9, <1>11, <1>12 DEF Composed

\* What buf2message makes of a message.
ReadAs(got, m) ==
    \E ls \in Lengths(m, Len(m.answers)) :
        got = [id |-> m.id, flags |-> Flags(m.flags), queries |-> m.queries,
               answers |-> MadeOf(m, ls, Len(m.answers)),
               authority_count |-> m.extra.authorities, additional_count |-> m.extra.additional]

\* The datagram is read whatever stands behind the answers.
LEMMA ParsedAs ==
    ASSUME NEW m, IsMessage(m), NEW w, Composed(w, m, Len(m.answers)),
           NEW w2 \in Seq(Nat), Extends(w2, w)
    PROVE  ReadAs(Parsed(w2), m)
<1> DEFINE n == Len(m.answers)
           start == PlainStart(m)
           records == buf2messageRR(w2, Len(start), n)
<1>1. w \in Seq(Nat) /\ Extends(w, start)
  BY DEF Composed
<1>2. start \in Seq(Nat)
  BY StartRead
<1>3. Extends(w2, start)
  <2> HIDE DEF start
  <2>1. QED
    BY <1>1, <1>2, ExtendsOrder
<1>4. /\ ShortAt(w2, 0) = m.id /\ ShortAt(w2, 2) = m.flags
      /\ ShortAt(w2, 4) = Len(m.queries) /\ ShortAt(w2, 6) = n
      /\ ShortAt(w2, 8) = m.extra.authorities /\ ShortAt(w2, 10) = m.extra.additional
      /\ buf2messageQuestion(w2, Len(m.queries)) = [list |-> m.queries, next |-> Len(start)]
  BY <1>3, StartRead
<1>5. PICK ls \in Lengths(m, n) : records = [list |-> MadeOf(m, ls, n), next |-> Len(w)]
  <2>1. \E ls \in Lengths(m, n) : \A v \in Seq(Nat) : Extends(v, w) =>
           buf2messageRR(v, Len(start), n) = [list |-> MadeOf(m, ls, n), next |-> Len(w)]
    BY DEF Composed
  <2> HIDE DEF n, start
  <2>2. QED
    BY <2>1
<1> HIDE DEF n, start
<1>6. Parsed(w2) = [id |-> m.id, flags |-> Flags(m.flags), queries |-> m.queries,
                    answers |-> records.list,
                    authority_count |-> m.extra.authorities, additional_count |-> m.extra.additional]
  BY <1>4 DEF Parsed
<1>7. records.list = MadeOf(m, ls, n)
  BY <1>5
<1> HIDE DEF records
<1>8. QED
  BY <1>5, <1>6, <1>7 DEF ReadAs, n

\* What buf2message made of a message has its parts.
LEMMA ReadParts ==
    ASSUME NEW m, IsMessage(m), NEW got, ReadAs(got, m)
    PROVE  /\ got.id = m.id /\ got.flags = Flags(m.flags) /\ got.queries = m.queries
           /\ Len(got.answers) = Len(m.answers)
           /\ DOMAIN got.answers = DOMAIN m.answers
           /\ \A i \in DOMAIN m.answers : \E length \in Nat :
                 /\ got.answers[i] = Made(m.answers[i], length)
                 /\ m.answers[i].type \in {TypeA, TypeAAAA} => length = Len(m.answers[i].data)
<1> DEFINE n == Len(m.answers)
<1>1. n \in Nat /\ DOMAIN m.answers = 1..n
  BY AnswerParts
<1> HIDE DEF n
<1>2. PICK ls \in Lengths(m, n) :
         got = [id |-> m.id, flags |-> Flags(m.flags), queries |-> m.queries,
                answers |-> MadeOf(m, ls, n),
                authority_count |-> m.extra.authorities, additional_count |-> m.extra.additional]
  BY DEF ReadAs, n
<1>3. /\ got.id = m.id /\ got.flags = Flags(m.flags) /\ got.queries = m.queries
      /\ got.answers = MadeOf(m, ls, n)
  BY <1>2
<1>4. /\ got.answers = [i \in 1..n |-> Made(m.answers[i], ls[i])]
  BY <1>3 DEF MadeOf
<1>5. Len(got.answers) = n /\ DOMAIN got.answers = 1..n
  BY <1>1, <1>4
<1>6. /\ ls \in [1..n -> Nat]
      /\ \A i \in 1..n : m.answers[i].type \in {TypeA, TypeAAAA} => ls[i] = Len(m.answers[i].data)
  BY DEF Lengths
<1>7. ASSUME NEW i \in 1..n
      PROVE  /\ got.answers[i] = Made(m.answers[i], ls[i]) /\ ls[i] \in Nat
             /\ m.answers[i].type \in {TypeA, TypeAAAA} => ls[i] = Len(m.answers[i].data)
  BY <1>4, <1>6
<1>8. QED
  BY <1>1, <1>3, <1>5, <1>7 DEF n

\* A message that was read is understood.
LEMMA ReadIsUnderstood ==
    ASSUME NEW m, IsMessage(m), NEW got, ReadAs(got, m)
    PROVE  Understood(got, m)
<1>1. /\ got.id = m.id /\ got.flags = Flags(m.flags) /\ got.queries = m.queries
      /\ Len(got.answers) = Len(m.answers)
  BY ReadParts
<1>2. /\ got.authority_count = m.extra.authorities
      /\ got.additional_count = m.extra.additional
  BY DEF ReadAs
<1>3. ASSUME NEW i \in DOMAIN m.answers
      PROVE  LET found == got.answers[i]
                 rr == m.answers[i]
             IN  /\ <<found.name, found.type, found.class, found.ttl>>
                       = <<rr.name, rr.type, rr.class, rr.ttl>>
                 /\ rr.type \in KnownTypes => found.data = rr.data
  <2>1. PICK length \in Nat : got.answers[i] = Made(m.answers[i], length)
    BY ReadParts
  <2>2. QED
    BY <2>1 DEF Made
<1>4. QED
  BY <1>1, <1>2, <1>3 DEF Understood

-----------------------------------------------------------------------------
(* What is read *)

\* As long as no name was compressed the datagram is the one without compression
\* up to its answers; after that it stays one whose questions are not all read.
Reading ==
    /\ said \in Messages
    /\ stage \in {"composing", "received", "parsed", "garbled", "sent", "undefined"}
    /\ spelledOut \in BOOLEAN
    /\ stage = "composing" =>
          /\ asked \in 0..Len(said.queries)
          /\ written \in 0..Len(said.answers)
          /\ asked < Len(said.queries) => written = 0
          /\ wire \in Seq(Nat)
          /\ AllLead(wire, anchors)
          /\ spelledOut => IF asked < Len(said.queries) THEN wire = StartTo(said, asked)
                                                        ELSE Composed(wire, said, written)
          /\ ~spelledOut => Lost(wire, said)
    /\ stage = "received" =>
          /\ wire \in Seq(Nat)
          /\ spelledOut => \E w : Composed(w, said, Len(said.answers)) /\ Extends(wire, w)
          /\ ~spelledOut => Lost(wire, said)
    /\ stage \in {"parsed", "sent", "undefined"} => spelledOut /\ ReadAs(message, said)
    /\ stage = "garbled" => ~spelledOut

\* After the last question the datagram is composed up to the first answer.
LEMMA StartIsComposed ==
    ASSUME NEW m, IsMessage(m), NEW k \in 0..Len(m.queries)
    PROVE  /\ StartTo(m, k) \in Seq(Nat)
           /\ ~(k < Len(m.queries)) => Composed(StartTo(m, k), m, 0)
<1>1. /\ Len(m.queries) \in Nat
      /\ \A i \in 0..Len(m.queries) : StartTo(m, i) \in Seq(Nat)
      /\ PlainStart(m) = StartTo(m, Len(m.queries))
  BY StartParts
<1>2. ~(k < Len(m.queries)) => k = Len(m.queries)
  BY <1>1
<1>3. QED
  BY <1>1, <1>2, ComposedStart

LEMMA ReadingInit == Init => Reading
<1> SUFFICES ASSUME Init PROVE Reading
  OBVIOUS
<1>1. said \in Messages /\ IsMessage(said)
  BY MessageAssumption DEF Init
<1>2. /\ asked \in 0..Len(said.queries) /\ written \in 0..Len(said.answers)
      /\ asked = 0 /\ written = 0
  <2>1. Len(said.answers) \in Nat /\ Len(said.queries) \in Nat
    BY <1>1, AnswerParts, StartParts
  <2>2. QED
    BY <2>1 DEF Init
<1>3. wire = StartTo(said, asked)
  BY <1>1, <1>2, StartParts DEF Init
<1>4. wire \in Seq(Nat) /\ (~(asked < Len(said.queries)) => Composed(wire, said, written))
  BY <1>1, <1>2, <1>3, StartIsComposed
<1>5. AllLead(wire, anchors)
  BY DEF Init, AllLead
<1>6. stage = "composing" /\ spelledOut = TRUE
  BY DEF Init
<1>7. QED
  BY <1>1, <1>2, <1>3, <1>4, <1>5, <1>6 DEF Reading

\* message2buf changes only what is sent.
LEMMA Message2bufStage ==
    ASSUME NEW m, message2buf(m)
    PROVE  stage' \in {"sent", "undefined"}
BY DEF message2buf

\* A question more, spelled out or compressed.
LEMMA AskingStep ==
    ASSUME Reading, ComposeQuestion
    PROVE  Reading'
<1>1. said \in Messages /\ IsMessage(said) /\ Len(said.answers) \in Nat /\ Len(said.queries) \in Nat
  BY MessageAssumption, AnswerParts, StartParts DEF Reading
<1>2. /\ stage = "composing" /\ stage' = stage /\ said' = said /\ written' = written
      /\ asked < Len(said.queries) /\ asked' = asked + 1
  BY DEF ComposeQuestion
<1>3. /\ asked \in 0..Len(said.queries) /\ written \in 0..Len(said.answers) /\ written = 0
      /\ wire \in Seq(Nat) /\ AllLead(wire, anchors) /\ spelledOut \in BOOLEAN
      /\ spelledOut => wire = StartTo(said, asked)
      /\ ~spelledOut => Lost(wire, said)
  BY <1>2 DEF Reading
<1> DEFINE q == said.queries[asked + 1]
<1>4. PICK name \in Spellings(q.name, Len(wire), anchors) :
         /\ wire' = ((wire \o name.octets) \o Short(q.type)) \o Short(q.class)
         /\ anchors' = anchors \cup name.anchors
         /\ spelledOut' = (spelledOut /\ name.octets = name2message(q.name))
  BY DEF ComposeQuestion
<1>5. /\ asked \in 0..(Len(said.queries) - 1) /\ asked + 1 \in 0..Len(said.queries)
      /\ q \in Question
      /\ StartTo(said, asked + 1) = StartTo(said, asked) \o PlainQuestion(q)
  <2>1. asked \in 0..(Len(said.queries) - 1) /\ asked + 1 \in 0..Len(said.queries)
    BY <1>1, <1>2, <1>3
  <2>2. QED
    BY <1>1, <2>1, StartParts
<1> HIDE DEF q
<1>6. /\ wire' \in Seq(Nat)
      /\ Extends(wire', wire)
      /\ AllLead(wire', anchors')
      /\ name.octets # name2message(q.name) =>
            \A w2 \in Seq(Nat) : Extends(w2, wire') => QuestionAt(w2, Len(wire)).value = Unread
  <2> DEFINE v == ((wire \o name.octets) \o Short(q.type)) \o Short(q.class)
  <2>1. v = ((wire \o name.octets) \o Short(q.type)) \o Short(q.class)
    OBVIOUS
  <2> HIDE DEF v
  <2>2. /\ v \in Seq(Nat)
        /\ Extends(v, wire)
        /\ AllLead(v, anchors \cup name.anchors)
        /\ name.octets # name2message(q.name) =>
              \A w2 \in Seq(Nat) : Extends(w2, v) => QuestionAt(w2, Len(wire)).value = Unread
    BY <1>3, <1>4, <1>5, <2>1, QuestionComposed
  <2>3. wire' = v /\ anchors' = anchors \cup name.anchors
    BY <1>4, <2>1
  <2>4. QED
    BY <2>2, <2>3
<1>7. ASSUME spelledOut, name.octets = name2message(q.name)
      PROVE  IF asked + 1 < Len(said.queries) THEN wire' = StartTo(said, asked + 1)
                                              ELSE Composed(wire', said, written)
  <2>1. wire = StartTo(said, asked)
    BY <1>3, <1>7
  <2>2. wire' = StartTo(said, asked + 1)
    <3> DEFINE v == wire \o PlainQuestion(q)
    <3>1. v = ((wire \o name2message(q.name)) \o Short(q.type)) \o Short(q.class)
      <4>1. v = wire \o PlainQuestion(q)
        OBVIOUS
      <4> HIDE DEF v
      <4>2. QED
        BY <1>3, <1>5, <4>1, QuestionRead
    <3>2. QED
      BY <1>4, <1>5, <1>7, <2>1, <3>1
  <2>3. ~(asked + 1 < Len(said.queries)) => Composed(wire', said, written)
    BY <1>1, <1>3, <1>5, <2>2, StartIsComposed
  <2>4. QED
    BY <2>2, <2>3
<1>8. ASSUME ~spelledOut' PROVE Lost(wire', said)
  <2>1. CASE ~spelledOut
    BY <1>1, <1>3, <1>6, <2>1, LostOn
  <2>2. CASE spelledOut
    <3>1. name.octets # name2message(q.name)
      BY <1>4, <1>8, <2>2
    <3>2. Extends(wire', StartTo(said, asked))
      BY <1>3, <1>6, <2>2
    <3>3. \A w2 \in Seq(Nat) : Extends(w2, wire') =>
             QuestionAt(w2, Len(StartTo(said, asked))).value = Unread
      BY <1>3, <1>6, <2>2, <3>1
    <3>4. QED
      BY <1>5, <3>2, <3>3 DEF Lost
  <2>3. QED
    BY <1>3, <2>1, <2>2
<1>9. /\ spelledOut' \in BOOLEAN
      /\ spelledOut' => spelledOut /\ name.octets = name2message(q.name)
  BY <1>4
<1>10. QED
  BY <1>1, <1>2, <1>3, <1>5, <1>6, <1>7, <1>8, <1>9 DEF Reading

\* An answer more, behind questions of either kind.
LEMMA ComposingStep ==
    ASSUME Reading, Compose
    PROVE  Reading'
<1>1. said \in Messages /\ IsMessage(said) /\ Len(said.answers) \in Nat /\ Len(said.queries) \in Nat
  BY MessageAssumption, AnswerParts, StartParts DEF Reading
<1> DEFINE rr == said.answers[written + 1]
<1>2. PICK owner \in Spellings(rr.name, Len(wire), anchors) :
        LET fixed == wire \o owner.octets \o Short(rr.type) \o Short(rr.class) \o Word(rr.ttl)
            known == anchors \cup owner.anchors
        IN  \E data \in DataSpellings(rr, Len(fixed) + 2, known) :
               /\ wire' = fixed \o Short(Len(data.octets)) \o data.octets
               /\ anchors' = known \cup data.anchors
  BY DEF Compose
<1> DEFINE fixed == wire \o owner.octets \o Short(rr.type) \o Short(rr.class) \o Word(rr.ttl)
<1>3. PICK data \in DataSpellings(rr, Len(fixed) + 2, anchors \cup owner.anchors) :
         /\ wire' = fixed \o Short(Len(data.octets)) \o data.octets
         /\ anchors' = (anchors \cup owner.anchors) \cup data.anchors
  BY <1>2
<1>4. /\ stage = "composing" /\ stage' = stage /\ said' = said /\ written' = written + 1
      /\ asked = Len(said.queries) /\ asked' = asked /\ spelledOut' = spelledOut
      /\ written < Len(said.answers)
  BY DEF Compose
<1>5. /\ asked \in 0..Len(said.queries) /\ written \in 0..Len(said.answers)
      /\ wire \in Seq(Nat) /\ AllLead(wire, anchors) /\ spelledOut \in BOOLEAN
      /\ spelledOut => Composed(wire, said, written)
      /\ ~spelledOut => Lost(wire, said)
  <2>1. ~(asked < Len(said.queries))
    BY <1>1, <1>4
  <2>2. QED
    BY <1>4, <2>1 DEF Reading
<1>6. written \in 0..(Len(said.answers) - 1) /\ written + 1 \in 0..Len(said.answers)
  BY <1>1, <1>4, <1>5
<1> DEFINE v == fixed \o Short(Len(data.octets)) \o data.octets
<1>7. /\ rr = said.answers[written + 1] /\ v = fixed \o Short(Len(data.octets)) \o data.octets
      /\ fixed = wire \o owner.octets \o Short(rr.type) \o Short(rr.class) \o Word(rr.ttl)
  OBVIOUS
<1>8. Spelled(wire, rr, anchors, owner, data, v)
  BY ONLY <1>2, <1>3 DEF Spelled
<1>9. wire' = v /\ anchors' = (anchors \cup owner.anchors) \cup data.anchors
  BY <1>3
<1>10. IsRecord(rr) /\ rr.class \in Half /\ IsSeconds(rr.ttl)
  <2>1. written + 1 \in 1..Len(said.answers)
    BY <1>1, <1>6
  <2>2. QED
    BY <1>1, <2>1, AnswerParts
<1> HIDE DEF v, fixed, rr
<1>11. /\ v \in Seq(Nat)
       /\ Extends(v, wire)
       /\ AllLead(v, (anchors \cup owner.anchors) \cup data.anchors)
  BY ONLY <1>5, <1>8, <1>10, RecordRead
<1>12. spelledOut => Composed(v, said, written + 1)
  <2>1. SUFFICES ASSUME spelledOut PROVE Composed(v, said, written + 1)
    OBVIOUS
  <2>2. Composed(wire, said, written)
    BY <1>5, <2>1
  <2>3. QED
    BY ONLY <1>1, <1>5, <1>6, <1>7, <1>8, <2>2, ComposedNext
<1>13. ~spelledOut => Lost(v, said)
  BY <1>1, <1>5, <1>11, LostOn
<1>14. ~(asked < Len(said.queries))
  BY <1>1, <1>4
<1>15. QED
  BY <1>1, <1>4, <1>5, <1>6, <1>9, <1>11, <1>12, <1>13, <1>14 DEF Reading

LEMMA ReadingNext == Reading /\ [Next]_vars => Reading'
<1> SUFFICES ASSUME Reading, [Next]_vars PROVE Reading'
  OBVIOUS
<1>1. said \in Messages /\ IsMessage(said) /\ Len(said.answers) \in Nat /\ spelledOut \in BOOLEAN
  BY MessageAssumption, AnswerParts DEF Reading
<1>2. CASE ComposeQuestion \/ Compose
  BY <1>2, AskingStep, ComposingStep
<1>3. CASE Send
  <2>1. /\ stage = "composing" /\ written = Len(said.answers) /\ stage' = "received"
        /\ asked = Len(said.queries) /\ spelledOut' = spelledOut
        /\ said' = said /\ wire' = wire \o said.extra.octets
    BY <1>3 DEF Send
  <2>2. /\ wire \in Seq(Nat)
        /\ spelledOut => Composed(wire, said, Len(said.answers))
        /\ ~spelledOut => Lost(wire, said)
    <3>1. ~(asked < Len(said.queries))
      BY <1>1, <2>1, StartParts
    <3>2. QED
      BY <2>1, <3>1 DEF Reading
  <2>3. wire' \in Seq(Nat) /\ Extends(wire', wire)
    <3>1. said.extra.octets \in Seq(Octet)
      BY <1>1 DEF IsMessage, Extra
    <3>2. said.extra.octets \in Seq(Nat)
      <4>1. Octet \subseteq Nat
        BY DEF Octet
      <4>2. QED
        BY <3>1, <4>1, SeqMonotonic
    <3>3. QED
      BY <2>1, <2>2, <3>2, AppendedOccurs
  <2>4. ~spelledOut => Lost(wire', said)
    BY <1>1, <2>2, <2>3, LostOn
  <2>5. QED
    BY <1>1, <2>1, <2>2, <2>3, <2>4 DEF Reading
<1>4. CASE buf2message
  <2> DEFINE questions == buf2messageQuestion(wire, ShortAt(wire, 4)).list
  <2>1. /\ stage = "received" /\ said' = said /\ spelledOut' = spelledOut
        /\ IF Unread \in Range(questions)
           THEN stage' = "garbled"
           ELSE stage' = "parsed" /\ message' = Parsed(wire)
    BY <1>4 DEF buf2message, composition
  <2>2. /\ wire \in Seq(Nat)
        /\ spelledOut => \E w : Composed(w, said, Len(said.answers)) /\ Extends(wire, w)
        /\ ~spelledOut => Lost(wire, said)
    BY <2>1 DEF Reading
  <2>3. ASSUME spelledOut PROVE Unread \notin Range(questions) /\ ReadAs(Parsed(wire), said)
    <3>1. PICK w : Composed(w, said, Len(said.answers)) /\ Extends(wire, w)
      BY <2>2, <2>3
    <3>2. ReadAs(Parsed(wire), said)
      BY <1>1, <2>2, <3>1, ParsedAs
    <3>3. Extends(wire, PlainStart(said))
      <4>1. w \in Seq(Nat) /\ Extends(w, PlainStart(said)) /\ PlainStart(said) \in Seq(Nat)
        BY <1>1, <3>1, StartRead DEF Composed
      <4>2. QED
        BY <2>2, <3>1, <4>1, ExtendsOrder
    <3>4. questions = said.queries
      <4>1. /\ ShortAt(wire, 4) = Len(said.queries)
            /\ buf2messageQuestion(wire, Len(said.queries)) =
                  [list |-> said.queries, next |-> Len(PlainStart(said))]
        BY <1>1, <2>2, <3>3, StartRead
      <4>2. QED
        BY <4>1
    <3>5. Range(said.queries) \subseteq Question
      <4>1. said.queries \in Seq(Question)
        BY <1>1 DEF IsMessage
      <4>2. \A i \in DOMAIN said.queries : said.queries[i] \in Question
        BY <4>1, ElementOfSeq, LenProperties
      <4>3. QED
        BY <4>2 DEF Range
    <3>6. Unread \notin Question
      <4>1. Unread.name = <<>>
        BY DEF Unread
      <4>2. <<>> \notin Name
        BY DEF Name
      <4>3. QED
        BY <4>1, <4>2 DEF Question
    <3> HIDE DEF questions
    <3>7. QED
      BY <3>2, <3>4, <3>5, <3>6
  <2>4. ASSUME ~spelledOut PROVE Unread \in Range(questions)
    BY <1>1, <2>2, <2>4, LostIsUnread
  <2> HIDE DEF questions
  <2>5. CASE spelledOut
    <3>1. stage' = "parsed" /\ ReadAs(message', said)
      BY <2>1, <2>3, <2>5
    <3>2. QED
      BY <1>1, <2>1, <2>5, <3>1 DEF Reading
  <2>6. CASE ~spelledOut
    <3>1. stage' = "garbled"
      BY <2>1, <2>4, <2>6
    <3>2. QED
      BY <1>1, <2>1, <2>6, <3>1 DEF Reading
  <2>7. QED
    BY <1>1, <2>5, <2>6
<1>5. CASE Forward \/ Reply
  <2>1. /\ stage = "parsed" /\ stage' \in {"sent", "undefined"} /\ said' = said
        /\ message' = message /\ spelledOut' = spelledOut
    BY <1>5, Message2bufStage DEF Forward, Reply, composition
  <2>2. QED
    BY <1>1, <2>1 DEF Reading
<1>6. CASE UNCHANGED vars
  BY <1>6 DEF Reading, vars, composition
<1>7. QED
  BY <1>2, <1>3, <1>4, <1>5, <1>6 DEF Next, Done

\* However the peer compressed the names of its records, buf2message finds the
\* records and questions it meant, for messages of any size, exactly if the peer
\* compressed no name of a question (createName, createRData, buf2messageQuestion).
THEOREM AlwaysReadsWhatWasSaid == Spec => []ReadsWhatWasSaid
<1>1. Reading => ReadsWhatWasSaid
  <2>1. ASSUME Reading, stage \in {"parsed", "sent", "undefined"}
        PROVE  spelledOut /\ Understood(message, said)
    <3>1. IsMessage(said) /\ ReadAs(message, said) /\ spelledOut
      BY <2>1, MessageAssumption DEF Reading
    <3>2. QED
      BY <3>1, ReadIsUnderstood
  <2>2. ASSUME Reading, stage = "garbled" PROVE ~spelledOut
    BY <2>2 DEF Reading
  <2>3. QED
    BY <2>1, <2>2 DEF ReadsWhatWasSaid
<1>2. QED
  BY <1>1, ReadingInit, ReadingNext, PTL DEF Spec
=============================================================================
