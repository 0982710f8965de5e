------------------------ MODULE MessageWritingProofs ------------------------
(***************************************************************************)
(* Theorems about what message2buf of Message writes, for messages of      *)
(* every size.                                                             *)
(***************************************************************************)
EXTENDS MessageProofs

-----------------------------------------------------------------------------
(* The buffer *)

\* A sequence begins with what others are appended to.
LEMMA Begins ==
    ASSUME NEW u \in Seq(Int), NEW v \in Seq(Int)
    PROVE  /\ u \o v \in Seq(Int)
           /\ Len(u \o v) = Len(u) + Len(v)
           /\ \A p \in 1..Len(u) : (u \o v)[p] = u[p]
<1> DEFINE w == u \o v
<1>1. /\ w \in Seq(Int) /\ Len(w) = Len(u) + Len(v)
      /\ \A p \in 1..(Len(u) + Len(v)) : w[p] = IF p <= Len(u) THEN u[p] ELSE v[p - Len(u)]
  BY ConcatProperties
<1> HIDE DEF w
<1>2. Len(u) \in Nat /\ Len(v) \in Nat
  BY LenProperties
<1>3. ASSUME NEW p \in 1..Len(u) PROVE w[p] = u[p]
  <2>1. p \in 1..(Len(u) + Len(v)) /\ p <= Len(u)
    BY <1>2
  <2>2. QED
    BY <1>1, <2>1
<1>4. QED
  BY <1>1, <1>3 DEF w

\* Up to an offset, w is the buffer, and nothing behind its end.
Kept(w, buf, offset) ==
    \A p \in 1..offset : w[p] = IF p <= Len(buf) THEN buf[p] ELSE -1

\* What is put at an offset ends the buffer or lies in it, and leaves what is
\* before it alone; between the end of the buffer and the offset is nothing.
LEMMA PutAnywhere ==
    ASSUME NEW buf \in Seq(Int), NEW offset \in Nat, NEW octets \in Seq(Nat)
    PROVE  /\ Put(buf, offset, octets) \in Seq(Int)
           /\ offset + Len(octets) >= Len(buf) => Len(Put(buf, offset, octets)) = offset + Len(octets)
           /\ Len(Put(buf, offset, octets)) >= offset
           /\ Kept(Put(buf, offset, octets), buf, offset)
<1> DEFINE n == Len(buf)
           k == Len(octets)
           gap == IF offset > n THEN [p \in 1..(offset - n) |-> -1] ELSE <<>>
           b == buf \o gap
           c == SubSeq(b, 1, offset)
           d == SubSeq(buf, offset + k + 1, n)
           e == c \o octets
<1>1. n \in Nat /\ k \in Nat /\ octets \in Seq(Int)
  <2>1. Nat \subseteq Int
    OBVIOUS
  <2>2. QED
    BY <2>1, LenProperties, SeqMonotonic
<1>2. Put(buf, offset, octets) = e \o d
  BY DEF Put
<1>3. gap \in Seq(Int) /\ Len(gap) \in Nat /\ n + Len(gap) >= offset
      /\ \A p \in 1..Len(gap) : gap[p] = -1
  <2>1. CASE offset > n
    <3> DEFINE l == offset - n
    <3>1. l \in Nat /\ gap = [p \in 1..l |-> -1] /\ n + l = offset
      BY <1>1, <2>1
    <3> HIDE DEF gap, l
    <3>2. gap \in Seq(Int) /\ Len(gap) = l /\ \A p \in 1..l : gap[p] = -1
      BY <3>1
    <3>3. QED
      BY <3>1, <3>2
  <2>2. CASE ~(offset > n)
    <3>1. gap = <<>>
      BY <2>2
    <3> HIDE DEF gap
    <3>2. QED
      BY <1>1, <2>2, <3>1
  <2>3. QED
    BY <2>1, <2>2
<1> HIDE DEF gap
<1>4. /\ b \in Seq(Int) /\ Len(b) = n + Len(gap)
      /\ \A p \in 1..offset : b[p] = IF p <= n THEN buf[p] ELSE -1
  <2>1. /\ b \in Seq(Int) /\ Len(b) = n + Len(gap)
        /\ \A p \in 1..(n + Len(gap)) : b[p] = IF p <= n THEN buf[p] ELSE gap[p - n]
    BY <1>3, ConcatProperties
  <2> HIDE DEF b, n
  <2>2. ASSUME NEW p \in 1..offset PROVE b[p] = IF p <= n THEN buf[p] ELSE -1
    <3>1. p \in 1..(n + Len(gap))
      BY <1>1, <1>3
    <3>2. ~(p <= n) => p - n \in 1..Len(gap)
      BY <1>1, <1>3
    <3>3. QED
      BY <1>3, <2>1, <3>1, <3>2
  <2>3. QED
    BY <2>1, <2>2
<1> HIDE DEF b, n, k
<1>5. /\ c \in Seq(Int) /\ Len(c) = offset
      /\ \A p \in 1..offset : c[p] = b[p]
  <2>1. offset <= Len(b) /\ Len(b) \in Nat
    BY <1>1, <1>3, <1>4
  <2>2. 1 \in 1..(Len(b) + 1) /\ offset \in 0..Len(b) /\ (offset - 1) + 1 = offset
    BY <2>1
  <2>3. c \in Seq(Int) /\ Len(c) = IF 1 <= offset THEN (offset - 1) + 1 ELSE 0
    BY <1>4, <2>2, SubSeqProperties
  <2>4. \A p \in 1..offset : c[p] = b[p]
    BY <1>4, <2>1, <2>2, SubSeqProperties
  <2> HIDE DEF c
  <2>5. QED
    BY <2>3, <2>4
<1>6. /\ d \in Seq(Int) /\ Len(d) \in Nat
      /\ offset + k >= n => d = <<>>
  BY <1>1, SubSeqProperties, SubSeqEmpty DEF n
<1> HIDE DEF c, d
<1>7. /\ e \in Seq(Int) /\ Len(e) = offset + k
      /\ \A p \in 1..offset : e[p] = c[p]
  BY <1>1, <1>5, Begins DEF k
<1> HIDE DEF e
<1>8. /\ e \o d \in Seq(Int) /\ Len(e \o d) = (offset + k) + Len(d)
      /\ \A p \in 1..offset : (e \o d)[p] = e[p]
  <2>1. /\ e \o d \in Seq(Int) /\ Len(e \o d) = Len(e) + Len(d)
        /\ \A p \in 1..Len(e) : (e \o d)[p] = e[p]
    BY <1>6, <1>7, Begins
  <2>2. \A p \in 1..offset : p \in 1..Len(e)
    BY <1>1, <1>7
  <2>3. QED
    BY <1>7, <2>1, <2>2
<1>9. offset + k >= n => e \o d = e
  BY <1>6, <1>7, ConcatEmptySeq
<1>10. QED
  <2> DEFINE f == Put(buf, offset, octets)
  <2>1. f = e \o d
    BY <1>2
  <2> HIDE DEF f
  <2>2. f \in Seq(Int) /\ (offset + k >= n => Len(f) = offset + k) /\ Len(f) >= offset
    BY <1>1, <1>6, <1>7, <1>8, <1>9, <2>1
  <2>3. \A p \in 1..offset : f[p] = IF p <= n THEN buf[p] ELSE -1
    <3> TAKE p \in 1..offset
    <3>1. f[p] = e[p] /\ e[p] = c[p] /\ c[p] = b[p]
      BY ONLY <1>5, <1>7, <1>8, <2>1, p \in 1..offset
    <3>2. b[p] = IF p <= n THEN buf[p] ELSE -1
      BY ONLY <1>4, p \in 1..offset
    <3>3. QED
      BY ONLY <3>1, <3>2
  <2>4. QED
    BY <2>2, <2>3 DEF f, n, k, Kept

LEMMA PutLast ==
    ASSUME NEW buf \in Seq(Int), NEW offset \in Nat, NEW octets \in Seq(Nat),
           offset + Len(octets) >= Len(buf)
    PROVE  Put(buf, offset, octets) \in Seq(Int) /\ Len(Put(buf, offset, octets)) = offset + Len(octets)
BY PutAnywhere

\* What is put at the end is appended.
LEMMA PutAtEnd ==
    ASSUME NEW buf \in Seq(Nat), NEW octets \in Seq(Nat)
    PROVE  Put(buf, Len(buf), octets) = buf \o octets
<1> DEFINE n == Len(buf)
           k == Len(octets)
<1>1. n \in Nat /\ k \in Nat
  BY LenProperties
<1>2. buf \o <<>> = buf /\ SubSeq(buf, 1, n) = buf
  BY ConcatEmptySeq, SubSeqFull
<1>3. Put(buf, n, octets) = SubSeq(buf \o <<>>, 1, n) \o octets \o SubSeq(buf, n + k + 1, n)
  <2> DEFINE gap == IF n > n THEN [p \in 1..(n - n) |-> -1] ELSE <<>>
  <2>1. Put(buf, n, octets) = SubSeq(buf \o gap, 1, n) \o octets \o SubSeq(buf, n + k + 1, n)
    BY DEF Put
  <2>2. gap = <<>>
    BY <1>1
  <2> HIDE DEF gap, n, k
  <2>3. QED
    BY <2>1, <2>2
<1>4. SubSeq(buf, n + k + 1, n) = <<>>
  BY <1>1, SubSeqEmpty
<1>5. buf \o octets \in Seq(Nat) /\ (buf \o octets) \o <<>> = buf \o octets
  <2>1. buf \o octets \in Seq(Nat)
    BY ConcatProperties
  <2>2. QED
    BY <2>1, ConcatEmptySeq
<1> HIDE DEF n, k
<1>6. QED
  BY <1>2, <1>3, <1>4, <1>5 DEF n

-----------------------------------------------------------------------------
(* Records *)

\* message2buf is handed rr for the record r that is meant.
SameRecord(rr, r) ==
    /\ rr.name = r.name /\ rr.type = r.type /\ rr.class = r.class /\ rr.ttl = r.ttl
    /\ r.name \in Seq(Label) /\ r.type \in Nat /\ r.class \in Nat /\ r.ttl \in Nat
    /\ r.type = TypeCNAME => r.data \in Seq(Label)
    /\ r.type # TypeCNAME => r.data \in Seq(Nat)
    /\ r.type \in KnownTypes => rr.data = r.data
    /\ r.type \in {TypeA, TypeAAAA} => rr.response_data_length = Len(r.data)

\* A record with an address or an alias is written as it is meant; of another one
\* too little is written, and the next one begins even earlier.
LEMMA RecordWritten ==
    ASSUME NEW rr, NEW r, SameRecord(rr, r)
    PROVE  /\ PlainRecord(r) \in Seq(Nat) /\ Len(PlainRecord(r)) \in Nat \ {0}
           /\ RecordOctets(rr) \in Seq(Nat)
           /\ Advance(rr) \in Nat
           /\ r.type \in KnownTypes => /\ RecordOctets(rr) = PlainRecord(r)
                                       /\ Advance(rr) = Len(PlainRecord(r))
           /\ r.type \notin KnownTypes => Advance(rr) < Len(PlainRecord(r))
<1> DEFINE a == name2message(r.name)
           b == a \o Short(r.type)
           c == b \o Short(r.class)
           fixed == c \o Word(r.ttl)
           data == PlainData(r)
           l == Len(data)
           u == fixed \o Short(l)
<1>1. /\ r.name \in Seq(Label) /\ r.type \in Nat /\ r.class \in Nat /\ r.ttl \in Nat
      /\ rr.name = r.name /\ rr.type = r.type /\ rr.class = r.class /\ rr.ttl = r.ttl
  BY DEF SameRecord
<1>2. a \in Seq(Nat) /\ Len(a) \in Nat \ {0}
  <2>1. Len(Prefixed(r.name)) \in Nat
    BY <1>1, NameOctets, LenProperties
  <2>2. QED
    BY <1>1, <2>1, NameOctets
<1> HIDE DEF a
<1>3. b \in Seq(Nat) /\ Len(b) = Len(a) + 2
  BY <1>1, <1>2, NumbersAppended
<1> HIDE DEF b
<1>4. c \in Seq(Nat) /\ Len(c) = Len(b) + 2
  BY <1>1, <1>3, NumbersAppended
<1> HIDE DEF c
<1>5. fixed \in Seq(Nat) /\ Len(fixed) = Len(c) + 4
  BY <1>1, <1>4, NumbersAppended
<1>6. Len(fixed) \in Nat /\ Len(fixed) - 2 \in Nat
  BY <1>2, <1>3, <1>4, <1>5
<1>7. data \in Seq(Nat) /\ l \in Nat
  <2>1. CASE r.type = TypeCNAME
    <3>1. data = name2message(r.data) /\ r.data \in Seq(Label)
      BY <2>1 DEF PlainData, SameRecord
    <3>2. data \in Seq(Nat)
      BY <3>1, NameOctets
    <3>3. QED
      BY <3>2, LenProperties
  <2>2. CASE r.type # TypeCNAME
    <3>1. data = r.data /\ r.data \in Seq(Nat)
      BY <2>2 DEF PlainData, SameRecord
    <3>2. data \in Seq(Nat)
      BY <3>1
    <3>3. QED
      BY <3>2, LenProperties
  <2>3. QED
    BY <2>1, <2>2
<1>8. PlainRecord(r) = u \o data
  BY DEF PlainRecord, a, b, c
<1> HIDE DEF data
<1> HIDE DEF l
<1>9. u \in Seq(Nat) /\ Len(u) = Len(fixed) + 2
  <2> HIDE DEF fixed
  <2>1. QED
    BY <1>5, <1>7, NumbersAppended
<1>10. PlainRecord(r) \in Seq(Nat) /\ Len(PlainRecord(r)) = (Len(fixed) + 2) + l
  <2> HIDE DEF u, fixed
  <2>1. u \o data \in Seq(Nat) /\ Len(u \o data) = Len(u) + Len(data)
    BY <1>7, <1>9, ConcatProperties
  <2>2. QED
    BY <1>8, <1>9, <2>1 DEF l
<1>11. CASE r.type = TypeCNAME
  <2>1. rr.data = r.data /\ r.data \in Seq(Label)
    BY <1>11 DEF SameRecord, KnownTypes
  <2>2. TextLength(rr.data) + 2 = l
    <3>1. Len(name2message(r.data)) = Len(Prefixed(r.data)) + 1
      BY <2>1, NameOctets
    <3>2. Len(Prefixed(r.data)) \in Nat
      BY <2>1, NameOctets, LenProperties
    <3>3. l = Len(name2message(r.data))
      BY <1>11 DEF l, data, PlainData
    <3>4. TextLength(rr.data) = Len(Prefixed(r.data)) - 1
      BY <2>1 DEF TextLength
    <3>5. QED
      BY <3>1, <3>2, <3>3, <3>4
  <2>3. RecordOctets(rr) = fixed \o Short(TextLength(rr.data) + 2) \o name2message(rr.data)
    <3>1. r.type \notin {TypeA, TypeAAAA}
      BY <1>11 DEF TypeA, TypeAAAA, TypeCNAME
    <3>2. QED
      BY <1>1, <1>11, <3>1 DEF RecordOctets, a, b, c
  <2>4. name2message(rr.data) = data
    BY <1>11, <2>1 DEF data, PlainData
  <2>5. RecordOctets(rr) = PlainRecord(r)
    BY <1>8, <2>2, <2>3, <2>4
  <2>6. Advance(rr) = Len(PlainRecord(r)) /\ r.type \in KnownTypes
    BY <1>1, <1>11, <2>5 DEF Advance, KnownTypes
  <2>7. QED
    BY <1>6, <1>7, <1>10, <2>5, <2>6
<1>12. CASE r.type \in {TypeA, TypeAAAA}
  <2>1. rr.data = r.data /\ rr.response_data_length = Len(r.data) /\ r.type # TypeCNAME
    BY <1>12 DEF SameRecord, KnownTypes, TypeA, TypeAAAA, TypeCNAME
  <2>2. RecordOctets(rr) = fixed \o Short(rr.response_data_length) \o rr.data
    BY <1>1, <1>12, <2>1 DEF RecordOctets, a, b, c
  <2>3. rr.data = data /\ rr.response_data_length = l
    BY <2>1 DEF data, l, PlainData
  <2>4. RecordOctets(rr) = PlainRecord(r)
    BY <1>8, <2>2, <2>3
  <2>5. Advance(rr) = Len(PlainRecord(r)) /\ r.type \in KnownTypes
    BY <1>1, <1>12, <2>4 DEF Advance, KnownTypes
  <2>6. QED
    BY <1>6, <1>7, <1>10, <2>4, <2>5
<1>13. CASE r.type \notin KnownTypes
  <2>1. r.type # TypeCNAME /\ r.type \notin {TypeA, TypeAAAA}
    BY <1>13 DEF KnownTypes
  <2>2. RecordOctets(rr) = fixed
    BY <1>1, <2>1 DEF RecordOctets, a, b, c
  <2>3. Advance(rr) = Len(fixed) - 2
    BY <1>1, <1>13, <2>2 DEF Advance
  <2> HIDE DEF fixed
  <2>4. QED
    BY <1>5, <1>6, <1>7, <1>10, <1>13, <2>2, <2>3
<1>14. QED
  BY <1>11, <1>12, <1>13 DEF KnownTypes

-----------------------------------------------------------------------------
(* The recursions of message2buf, step by step *)

\* Q is message2bufQuestion after so many questions.
LEMMA QuestionsStep ==
    ASSUME NEW buf, NEW qs, Len(qs) \in Nat
    PROVE  \E Q : /\ message2bufQuestion(buf, qs) = Q[Len(qs)]
                  /\ Q[0] = [buf |-> buf, bufPos |-> 0, endPos |-> 12]
                  /\ \A i \in 0..(Len(qs) - 1) : Q[i + 1] = WithQuestion(Q[i], qs[i + 1])
<1> DEFINE none == [buf |-> buf, bufPos |-> 0, endPos |-> 12]
           More(s, i) == WithQuestion(s, qs[i])
           IsUpTo(m, f) == f = [i \in 0..m |-> IF i = 0 THEN none ELSE More(f[i - 1], i)]
           S == {m \in Nat : \E f : IsUpTo(m, f)}
           L == Len(qs)
<1> HIDE DEF none, More
<1>1. 0 \in S
  <2> DEFINE h == [n \in 0..0 |-> none]
  <2>1. \A n \in 0..0 : n = 0
    OBVIOUS
  <2>2. IsUpTo(0, h)
    BY <2>1
  <2>3. QED
    BY <2>2
<1>2. ASSUME NEW m \in Nat, m \in S PROVE m + 1 \in S
  <2>1. PICK f : IsUpTo(m, f)
    BY <1>2
  <2> DEFINE h == [n \in 0..(m + 1) |-> IF n = 0 THEN none ELSE More(f[n - 1], n)]
  <2>2. \A n \in 0..m : h[n] = f[n]
    <3>1. \A n \in 0..m : f[n] = IF n = 0 THEN none ELSE More(f[n - 1], n)
      BY <2>1
    <3>2. \A n \in 0..m : h[n] = IF n = 0 THEN none ELSE More(f[n - 1], n)
      OBVIOUS
    <3> HIDE DEF h, IsUpTo
    <3>3. QED
      BY <3>1, <3>2
  <2>3. \A n \in 0..(m + 1) : n # 0 => n - 1 \in 0..m
    OBVIOUS
  <2>4. \A n \in 0..(m + 1) : h[n] = IF n = 0 THEN none ELSE More(h[n - 1], n)
    <3>1. \A n \in 0..(m + 1) : h[n] = IF n = 0 THEN none ELSE More(f[n - 1], n)
      OBVIOUS
    <3> HIDE DEF h
    <3>2. \A n \in 0..(m + 1) : n # 0 => h[n - 1] = f[n - 1]
      BY <2>2, <2>3
    <3>3. QED
      BY <3>1, <3>2
  <2>5. IsUpTo(m + 1, h)
    BY <2>4
  <2> HIDE DEF h, IsUpTo
  <2>6. \E k : IsUpTo(m + 1, k)
    BY <2>5
  <2>7. QED
    BY <2>6
<1> HIDE DEF S
<1>3. L \in S
  BY <1>1, <1>2, EveryNatural
<1> DEFINE Q == CHOOSE f : IsUpTo(L, f)
<1>4. IsUpTo(L, Q)
  BY <1>3 DEF S
<1>5. message2bufQuestion(buf, qs) = Q[L]
  BY DEF message2bufQuestion, More, none
<1> HIDE DEF Q
<1>6. \A n \in 0..L : Q[n] = IF n = 0 THEN none ELSE More(Q[n - 1], n)
  BY <1>4
<1> HIDE DEF IsUpTo
<1>7. Q[0] = none
  BY <1>6
<1>8. ASSUME NEW i \in 0..(L - 1) PROVE Q[i + 1] = More(Q[i], i + 1)
  <2> DEFINE n == i + 1
  <2>1. n \in 0..L /\ n # 0 /\ n - 1 = i
    OBVIOUS
  <2> HIDE DEF n
  <2>2. Q[n] = More(Q[n - 1], n)
    BY <1>6, <2>1
  <2>3. QED
    BY <2>1, <2>2 DEF n
<1>9. QED
  BY <1>5, <1>7, <1>8 DEF none, More

\* A is message2bufAnswer after so many answers.
LEMMA AnswersStep ==
    ASSUME NEW buf, NEW start, NEW rrs, Len(rrs) \in Nat
    PROVE  \E A : /\ message2bufAnswer(buf, start, rrs) = A[Len(rrs)]
                  /\ A[0] = [buf |-> buf, endPos |-> start]
                  /\ \A i \in 0..(Len(rrs) - 1) : A[i + 1] = WithAnswer(A[i], rrs[i + 1])
<1> DEFINE none == [buf |-> buf, endPos |-> start]
           More(s, i) == WithAnswer(s, rrs[i])
           IsUpTo(m, f) == f = [i \in 0..m |-> IF i = 0 THEN none ELSE More(f[i - 1], i)]
           S == {m \in Nat : \E f : IsUpTo(m, f)}
           L == Len(rrs)
<1> HIDE DEF none, More
<1>1. 0 \in S
  <2> DEFINE h == [n \in 0..0 |-> none]
  <2>1. \A n \in 0..0 : n = 0
    OBVIOUS
  <2>2. IsUpTo(0, h)
    BY <2>1
  <2>3. QED
    BY <2>2
<1>2. ASSUME NEW m \in Nat, m \in S PROVE m + 1 \in S
  <2>1. PICK f : IsUpTo(m, f)
    BY <1>2
  <2> DEFINE h == [n \in 0..(m + 1) |-> IF n = 0 THEN none ELSE More(f[n - 1], n)]
  <2>2. \A n \in 0..m : h[n] = f[n]
    <3>1. \A n \in 0..m : f[n] = IF n = 0 THEN none ELSE More(f[n - 1], n)
      BY <2>1
    <3>2. \A n \in 0..m : h[n] = IF n = 0 THEN none ELSE More(f[n - 1], n)
      OBVIOUS
    <3> HIDE DEF h, IsUpTo
    <3>3. QED
      BY <3>1, <3>2
  <2>3. \A n \in 0..(m + 1) : n # 0 => n - 1 \in 0..m
    OBVIOUS
  <2>4. \A n \in 0..(m + 1) : h[n] = IF n = 0 THEN none ELSE More(h[n - 1], n)
    <3>1. \A n \in 0..(m + 1) : h[n] = IF n = 0 THEN none ELSE More(f[n - 1], n)
      OBVIOUS
    <3> HIDE DEF h
    <3>2. \A n \in 0..(m + 1) : n # 0 => h[n - 1] = f[n - 1]
      BY <2>2, <2>3
    <3>3. QED
      BY <3>1, <3>2
  <2>5. IsUpTo(m + 1, h)
    BY <2>4
  <2> HIDE DEF h, IsUpTo
  <2>6. \E k : IsUpTo(m + 1, k)
    BY <2>5
  <2>7. QED
    BY <2>6
<1> HIDE DEF S
<1>3. L \in S
  BY <1>1, <1>2, EveryNatural
<1> DEFINE A == CHOOSE f : IsUpTo(L, f)
<1>4. IsUpTo(L, A)
  BY <1>3 DEF S
<1>5. message2bufAnswer(buf, start, rrs) = A[L]
  BY DEF message2bufAnswer, More, none
<1> HIDE DEF A
<1>6. \A n \in 0..L : A[n] = IF n = 0 THEN none ELSE More(A[n - 1], n)
  BY <1>4
<1> HIDE DEF IsUpTo
<1>7. A[0] = none
  BY <1>6
<1>8. ASSUME NEW i \in 0..(L - 1) PROVE A[i + 1] = More(A[i], i + 1)
  <2> DEFINE n == i + 1
  <2>1. n \in 0..L /\ n # 0 /\ n - 1 = i
    OBVIOUS
  <2> HIDE DEF n
  <2>2. A[n] = More(A[n - 1], n)
    BY <1>6, <2>1
  <2>3. QED
    BY <2>1, <2>2 DEF n
<1>9. QED
  BY <1>5, <1>7, <1>8 DEF none, More

-----------------------------------------------------------------------------
(* The questions *)

\* A question is put behind the class of the one before, and ends the buffer; endPos
\* is raised by its offset.
LEMMA QuestionWritten ==
    ASSUME NEW s, s.buf \in Seq(Int), s.bufPos \in Nat, s.endPos \in Nat,
           Len(s.buf) <= 12 + s.bufPos + 2,
           NEW q \in Question, NEW t, t = WithQuestion(s, q)
    PROVE  /\ t.buf \in Seq(Int) /\ t.bufPos \in Nat /\ t.endPos \in Nat
           /\ Len(t.buf) = 12 + t.bufPos + 2
           /\ t.endPos = s.endPos + t.bufPos + 2
           /\ t.bufPos = s.bufPos + Len(name2message(q.name)) + 2
           /\ t.buf = Put(Put(s.buf, 12 + s.bufPos, name2message(q.name) \o Short(q.type)),
                          12 + t.bufPos, Short(q.class))
<1> DEFINE name == name2message(q.name)
           x == name \o Short(q.type)
           k == Len(name)
           class == s.bufPos + TextLength(q.name) + 2 + 2
           o == 12 + s.bufPos
           u == Put(s.buf, o, x)
           p == 12 + class
           v == Put(u, p, Short(q.class))
<1>1. q.name \in Seq(Label) /\ q.type \in Nat /\ q.class \in Nat
  BY DEF Question, Name, Half
<1>2. name \in Seq(Nat) /\ k \in Nat /\ TextLength(q.name) = k - 2 /\ k >= 1
  <2>1. Prefixed(q.name) \in Seq(Nat) /\ Len(Prefixed(q.name)) \in Nat
    BY <1>1, NameOctets, LenProperties
  <2>2. name \in Seq(Nat) /\ k = Len(Prefixed(q.name)) + 1
    BY <1>1, NameOctets
  <2>3. QED
    BY <2>1, <2>2 DEF TextLength
<1>3. t = [buf |-> v, bufPos |-> class, endPos |-> s.endPos + class + 2]
  BY DEF WithQuestion
<1> DEFINE b == s.bufPos
<1>b. b \in Nat /\ b = s.bufPos
  OBVIOUS
<1>4. class = b + k + 2 /\ class \in Nat
  <2> DEFINE l == TextLength(q.name)
  <2>1. class = b + l + 2 + 2 /\ l = k - 2 /\ k \in Nat /\ k >= 1 /\ b \in Nat
    BY <1>2
  <2> HIDE DEF class, b, k, l
  <2>2. QED
    BY <2>1
<1> HIDE DEF name, k, class, b
<1>5. x \in Seq(Nat) /\ Len(x) = k + 2
  BY <1>1, <1>2, NumbersAppended DEF k
<1> HIDE DEF x
<1>6. o \in Nat /\ o + Len(x) = p /\ p \in Nat /\ Len(s.buf) \in Nat /\ p >= Len(s.buf)
  <2>1. Len(s.buf) \in Nat
    BY LenProperties
  <2>2. QED
    <3> DEFINE e == Len(s.buf)
               d == Len(x)
    <3>1. /\ o = 12 + b /\ p = 12 + class /\ e <= 12 + b + 2 /\ e \in Nat
          /\ class = b + k + 2 /\ class \in Nat /\ b \in Nat /\ k \in Nat /\ d = k + 2
      BY <1>2, <1>4, <1>5, <1>b, <2>1 DEF b
    <3> HIDE DEF o, p, e, d
    <3>2. o \in Nat /\ o + d = p /\ p \in Nat /\ p >= e
      BY <3>1
    <3>3. QED
      BY <2>1, <3>2 DEF e, d
<1> HIDE DEF o, p
<1>7. u \in Seq(Int) /\ Len(u) = p
  BY <1>5, <1>6, PutLast
<1>8. Short(q.class) \in Seq(Nat) /\ Len(Short(q.class)) = 2
  BY <1>1, NumbersRead
<1> HIDE DEF u
<1>9. v \in Seq(Int) /\ Len(v) = p + 2
  <2> DEFINE y == Short(q.class)
  <2>1. y \in Seq(Nat) /\ Len(y) = 2
    BY <1>8
  <2> HIDE DEF y
  <2>2. Put(u, p, y) \in Seq(Int) /\ Len(Put(u, p, y)) = p + 2
    <3>1. p + Len(y) >= Len(u)
      BY <1>6, <1>7, <2>1
    <3>2. Put(u, p, y) \in Seq(Int) /\ Len(Put(u, p, y)) = p + Len(y)
      <4>1. p \in Nat /\ u \in Seq(Int) /\ y \in Seq(Nat)
        BY <1>6, <1>7, <2>1
      <4> HIDE DEF v
      <4>2. QED
        BY <3>1, <4>1, PutLast
    <3>3. QED
      BY <2>1, <3>2
  <2>3. QED
    BY <2>2 DEF y
<1>10. t.buf = v /\ t.bufPos = class /\ t.endPos = s.endPos + class + 2
  BY <1>3
<1>11. v = Put(Put(s.buf, 12 + s.bufPos, name2message(q.name) \o Short(q.type)),
              12 + class, Short(q.class))
  BY DEF u, o, x, name, p
<1> HIDE DEF v
<1>12. Len(v) = 12 + class + 2
  BY <1>4, <1>9 DEF p
<1>13. s.endPos + class + 2 \in Nat
  BY <1>4
<1>14. class = s.bufPos + Len(name2message(q.name)) + 2
  BY <1>4 DEF b, k, name
<1>15. QED
  BY <1>14, <1>4, <1>9, <1>10, <1>11, <1>12, <1>13 DEF k, name

IsHeader(h) == h \in Seq(Nat) /\ Len(h) = 12

\* The first question is appended to the header.
LEMMA FirstQuestion ==
    ASSUME NEW h, IsHeader(h), NEW q, q \in Question,
           NEW s, s.buf = h /\ s.bufPos = 0 /\ s.endPos = 12, NEW t, t = WithQuestion(s, q)
    PROVE  /\ t.buf = h \o PlainQuestion(q) /\ t.buf \in Seq(Nat)
           /\ t.endPos = Len(t.buf)
<1> DEFINE name == name2message(q.name)
           x == name \o Short(q.type)
           y == Short(q.class)
           u == h \o x
           v == u \o y
<1>0. h \in Seq(Nat) /\ Len(h) = 12
  BY DEF IsHeader
<1>1. h \in Seq(Int)
  <2>1. Nat \subseteq Int
    OBVIOUS
  <2>2. QED
    BY <1>0, <2>1, SeqMonotonic
<1>2. s.buf = h /\ s.bufPos = 0 /\ s.endPos = 12
  OBVIOUS
<1>3. /\ Len(t.buf) = 12 + t.bufPos + 2 /\ t.endPos = 12 + t.bufPos + 2
      /\ t.bufPos = Len(name) + 2
      /\ t.buf = Put(Put(h, 12, x), 12 + t.bufPos, y)
  <2>1. 12 <= 12 + 0 + 2 /\ 0 + Len(name) + 2 = Len(name) + 2 /\ 12 + 0 = 12
    <3>1. Len(name) \in Nat
      <4>1. name \in Seq(Nat)
        BY NameOctets DEF Question, Name
      <4>2. QED
        BY <4>1, LenProperties
    <3>2. QED
      BY <3>1
  <2>2. /\ Len(t.buf) = 12 + t.bufPos + 2
        /\ t.endPos = s.endPos + t.bufPos + 2
        /\ t.bufPos = s.bufPos + Len(name) + 2
        /\ t.buf = Put(Put(s.buf, 12 + s.bufPos, x), 12 + t.bufPos, y)
    <3>1. s.buf \in Seq(Int) /\ s.bufPos \in Nat /\ s.endPos \in Nat
          /\ Len(s.buf) <= 12 + s.bufPos + 2
      BY <1>0, <1>1, <1>2, <2>1
    <3>2. t = WithQuestion(s, q) /\ q \in Question
      OBVIOUS
    <3>3. QED
      BY ONLY <3>1, <3>2, QuestionWritten
  <2> HIDE DEF x, y, name
  <2>3. QED
    BY <1>2, <2>1, <2>2
<1>4. q.name \in Seq(Label) /\ q.type \in Nat /\ q.class \in Nat
  BY DEF Question, Name, Half
<1>5. name \in Seq(Nat) /\ Len(name) \in Nat
  BY <1>4, NameOctets, LenProperties
<1>6. x \in Seq(Nat) /\ Len(x) = Len(name) + 2
  BY <1>4, <1>5, NumbersAppended
<1>7. y \in Seq(Nat) /\ Len(y) = 2
  BY <1>4, NumbersRead
<1>8. v = h \o PlainQuestion(q)
  <2>1. PlainQuestion(q) = x \o y
    BY DEF PlainQuestion
  <2> HIDE DEF x, y
  <2>2. QED
    <3>1. h \in Seq(Nat) /\ x \in Seq(Nat) /\ y \in Seq(Nat)
      BY <1>0, <1>6, <1>7
    <3>2. h \o (x \o y) = (h \o x) \o y
      BY <3>1, Joined
    <3>3. QED
      BY <2>1, <3>2
<1> HIDE DEF x, y
<1>9. Put(h, 12, x) = u
  <2>1. Put(h, Len(h), x) = h \o x
    BY <1>0, <1>6, PutAtEnd
  <2>2. QED
    BY <1>0, <2>1
<1>10. u \in Seq(Nat) /\ Len(u) = 12 + Len(x)
  <2>1. h \o x \in Seq(Nat) /\ Len(h \o x) = Len(h) + Len(x)
    BY <1>0, <1>6, ConcatProperties
  <2>2. QED
    BY <1>0, <2>1
<1>11. 12 + t.bufPos = Len(u)
  BY <1>3, <1>5, <1>6, <1>10
<1> HIDE DEF u
<1>12. t.buf = v
  BY <1>3, <1>7, <1>9, <1>10, <1>11, PutAtEnd
<1>13. v \in Seq(Nat)
  BY <1>7, <1>10, ConcatProperties
<1> HIDE DEF v
<1>14. QED
  BY <1>3, <1>8, <1>12, <1>13

\* One question is written as it is meant; after two or more endPos lies behind
\* what is written.
LEMMA QuestionsWritten ==
    ASSUME NEW h, IsHeader(h), NEW qs, qs \in Seq(Question),
           NEW e, e = message2bufQuestion(h, qs)
    PROVE  /\ e.buf \in Seq(Int) /\ e.endPos \in Nat
           /\ Len(qs) <= 1 => /\ e.buf = h \o FlattenSeq(Questions(qs))
                              /\ e.buf \in Seq(Nat)
                              /\ e.endPos = Len(e.buf)
           /\ Len(qs) > 1 => e.endPos > Len(e.buf)
<1> DEFINE n == Len(qs)
           none == [buf |-> h, bufPos |-> 0, endPos |-> 12]
<1>1. n \in Nat /\ \A i \in 0..(n - 1) : qs[i + 1] \in Question
  <2>1. n \in Nat
    BY LenProperties
  <2>2. \A i \in 0..(n - 1) : i + 1 \in 1..n
    BY <2>1
  <2> HIDE DEF n
  <2>3. \A j \in 1..n : qs[j] \in Question
    BY ElementOfSeq DEF n
  <2>4. QED
    BY <2>1, <2>2, <2>3
<1>2. PICK Q : /\ e = Q[n]
               /\ Q[0] = none
               /\ \A i \in 0..(n - 1) : Q[i + 1] = WithQuestion(Q[i], qs[i + 1])
  <2> HIDE DEF n
  <2>1. \E Q : /\ message2bufQuestion(h, qs) = Q[n]
               /\ Q[0] = none
               /\ \A i \in 0..(n - 1) : Q[i + 1] = WithQuestion(Q[i], qs[i + 1])
    BY <1>1, QuestionsStep DEF n
  <2>2. QED
    BY <2>1
<1>3. h \in Seq(Int) /\ h \in Seq(Nat)
  <2>1. Nat \subseteq Int
    OBVIOUS
  <2>2. h \in Seq(Nat)
    BY DEF IsHeader
  <2>3. QED
    BY <2>1, <2>2, SeqMonotonic
<1>4. none.buf = h /\ none.bufPos = 0 /\ none.endPos = 12
  OBVIOUS
<1> DEFINE IsBuffer(s) == /\ s.buf \in Seq(Int) /\ s.bufPos \in Nat /\ s.endPos \in Nat
                          /\ Len(s.buf) <= 12 + s.bufPos + 2
           IsBehind(s, i) == s.endPos >= 12 /\ (i > 1 => s.endPos > Len(s.buf))
                                /\ (i > 0 => s.endPos > 12)
           S == {i \in Nat : i <= n => IsBuffer(Q[i]) /\ IsBehind(Q[i], i)}
<1>5. IsBuffer(none) /\ IsBehind(none, 0)
  <2> HIDE DEF none
  <2>1. Len(none.buf) <= 12 + none.bufPos + 2
    <3>1. Len(none.buf) = 12 /\ none.bufPos = 0
      BY <1>4 DEF IsHeader
    <3>2. QED
      BY <3>1
  <2>2. QED
    BY <1>3, <1>4, <2>1
<1>6. 0 \in S
  <2> HIDE DEF IsBuffer, IsBehind, none
  <2>1. QED
    BY <1>2, <1>5
<1>7. ASSUME NEW i \in Nat, i \in S PROVE i + 1 \in S
  <2> SUFFICES ASSUME i + 1 <= n PROVE IsBuffer(Q[i + 1]) /\ IsBehind(Q[i + 1], i + 1)
    <3> HIDE DEF IsBuffer, IsBehind
    <3>1. QED
      OBVIOUS
  <2> DEFINE s == Q[i]
             t == Q[i + 1]
             q == qs[i + 1]
  <2>1. i \in 0..(n - 1)
    BY <1>1
  <2>2. t = WithQuestion(s, q) /\ q \in Question
    <3> HIDE DEF n
    <3>1. QED
      BY <1>1, <1>2, <2>1
  <2>3. IsBuffer(s) /\ IsBehind(s, i)
    <3>1. i <= n
      BY <1>1
    <3> HIDE DEF IsBuffer, IsBehind, n
    <3>2. QED
      BY <1>7, <3>1
  <2> HIDE DEF s, t, q
  <2>4. /\ t.buf \in Seq(Int) /\ t.bufPos \in Nat /\ t.endPos \in Nat
        /\ Len(t.buf) = 12 + t.bufPos + 2
        /\ t.endPos = s.endPos + t.bufPos + 2
    <3>1. /\ s.buf \in Seq(Int) /\ s.bufPos \in Nat /\ s.endPos \in Nat
          /\ Len(s.buf) <= 12 + s.bufPos + 2
      BY <2>3
    <3>2. QED
      BY <2>2, <3>1, QuestionWritten
  <2> DEFINE a == s.endPos
             b == t.bufPos
             c == t.endPos
             l == Len(t.buf)
  <2>5. /\ a \in Nat /\ a >= 12 /\ (i > 0 => a > 12)
        /\ b \in Nat /\ c = a + b + 2 /\ l = 12 + b + 2 /\ c \in Nat
    BY <2>3, <2>4
  <2>6. l <= 12 + b + 2 /\ c >= 12 /\ c > 12 /\ (i + 1 > 1 => c > l)
    <3> HIDE DEF a, b, c, l
    <3>1. QED
      BY <2>5
  <2>7. IsBuffer(t) /\ IsBehind(t, i + 1)
    BY <2>4, <2>6
  <2>8. QED
    BY <2>7 DEF t
<1> HIDE DEF S
<1>8. n \in S
  BY <1>1, <1>6, <1>7, EveryNatural
<1>9. IsBuffer(e) /\ IsBehind(e, n)
  <2> HIDE DEF IsBuffer, IsBehind, n
  <2>1. n <= n
    BY <1>1
  <2>2. QED
    BY <1>2, <1>8, <2>1 DEF S
<1> DEFINE g == Questions(qs)
<1>10. g \in [1..n -> Seq(Nat)]
  <2>1. DOMAIN qs = 1..n
    BY LenProperties
  <2>2. ASSUME NEW j \in 1..n PROVE PlainQuestion(qs[j]) \in Seq(Nat)
    <3> DEFINE v == h \o PlainQuestion(qs[j])
    <3>1. v = h \o PlainQuestion(qs[j]) /\ qs[j] \in Question
      BY <2>1, ElementOfSeq
    <3> HIDE DEF v
    <3>2. QED
      BY <1>3, <3>1, QuestionRead
  <2>3. QED
    BY <2>1, <2>2 DEF Questions
<1>11. CASE n = 0
  <2>1. FlattenSeq(g) = <<>>
    <3> HIDE DEF g, n
    <3>1. QED
      BY <1>1, <1>10, <1>11, FlattenParts
  <2>2. h \o <<>> = h /\ Len(h) = 12
    BY <1>3, ConcatEmptySeq DEF IsHeader
  <2>3. e = none
    BY <1>2, <1>11
  <2> HIDE DEF g, none
  <2>4. e.buf = h /\ e.endPos = 12
    BY <1>4, <2>3
  <2>5. QED
    BY <1>3, <1>9, <1>11, <2>1, <2>2, <2>4 DEF g
<1>12. CASE n = 1
  <2> DEFINE q == qs[1]
  <2>1. q \in Question /\ e = WithQuestion(none, q)
    <3>1. 0 \in 0..(n - 1) /\ 0 + 1 = 1
      BY <1>12
    <3> HIDE DEF none, n
    <3>2. qs[0 + 1] \in Question /\ Q[0 + 1] = WithQuestion(Q[0], qs[0 + 1])
      BY <1>1, <1>2, <3>1
    <3>3. QED
      BY <1>2, <1>12, <3>1, <3>2
  <2>2. e.buf = h \o PlainQuestion(q) /\ e.buf \in Seq(Nat) /\ e.endPos = Len(e.buf)
    <3> HIDE DEF none, q
    <3>1. IsHeader(h)
      OBVIOUS
    <3>2. QED
      <4>1. \A s : s = none => s.buf = h /\ s.bufPos = 0 /\ s.endPos = 12
        BY ONLY <1>4
      <4>2. QED
        BY ONLY <1>4, <2>1, <3>1, <4>1, FirstQuestion
  <2>3. FlattenSeq(g) = PlainQuestion(q)
    <3>1. g[1] = PlainQuestion(q)
      <4>1. DOMAIN qs = 1..n
        BY LenProperties
      <4>2. QED
        BY <1>12, <4>1 DEF Questions
    <3> HIDE DEF g
    <3>2. PICK f : f[1] = g[1] /\ FlattenSeq(g) = f[n]
      <4> HIDE DEF n
      <4>1. n \in Nat /\ n > 0 /\ g \in [1..n -> Seq(Nat)]
        BY <1>10, <1>12
      <4>2. \E f : /\ f[1] = g[1]
                   /\ \A i \in 2..n : f[i] = f[i - 1] \o g[i]
                   /\ FlattenSeq(g) = f[n]
        BY <4>1, FlattenParts
      <4>3. QED
        BY <4>2
    <3>3. QED
      BY <1>12, <3>1, <3>2
  <2> HIDE DEF g, q
  <2>4. QED
    BY <1>9, <1>12, <2>2, <2>3 DEF g
<1>13. CASE n > 1
  BY <1>9, <1>13
<1>14. QED
  <2>1. n = 0 \/ n = 1 \/ n > 1
    <3> HIDE DEF n
    <3>1. QED
      BY <1>1
  <2>2. QED
    BY <1>11, <1>12, <1>13, <2>1

-----------------------------------------------------------------------------
(* The answers *)

Records(rrs) == [i \in DOMAIN rrs |-> PlainRecord(rrs[i])]

SameRecords(rrs, meantRRs, n) == \A i \in 1..n : SameRecord(rrs[i], meantRRs[i])

HaveKnownTypes(rrs, n) == \A i \in 1..n : rrs[i].type \in KnownTypes

\* The records in front of which buf stands are all that there is in e, or e ends
\* before them.
AsFarAsKnown(e, buf, meantRRs, n) ==
    LET all == buf \o FlattenSeq(Records(meantRRs)) IN
    /\ all \in Seq(Nat) /\ Len(all) \in Nat
    /\ e.endPos \in Nat
    /\ HaveKnownTypes(meantRRs, n) => e.buf = all /\ e.endPos = Len(all) /\ n <= Len(all)
    /\ ~HaveKnownTypes(meantRRs, n) => e.endPos < Len(all)

\* Behind a whole message the answers follow as they are meant, if all have a type
\* with a case; otherwise endPos does not reach the end of what is meant.
LEMMA AnswersWritten ==
    ASSUME NEW buf \in Seq(Nat),
           NEW n \in Nat, NEW rrs, Len(rrs) = n, NEW meantRRs, DOMAIN meantRRs = 1..n,
           SameRecords(rrs, meantRRs, n)
    PROVE  AsFarAsKnown(message2bufAnswer(buf, Len(buf), rrs), buf, meantRRs, n)
<1> DEFINE start == Len(buf)
           e == message2bufAnswer(buf, start, rrs)
           all == buf \o FlattenSeq(Records(meantRRs))
<1>e. e = message2bufAnswer(buf, start, rrs) /\ all = buf \o FlattenSeq(Records(meantRRs))
      /\ start = Len(buf)
  OBVIOUS
<1> HIDE DEF e, all, start
<1> DEFINE g == Records(meantRRs)
           w(k) == buf \o Flat(g, k)
           Known(k) == HaveKnownTypes(meantRRs, k)
<1>1. PICK A : /\ e = A[n]
               /\ A[0] = [buf |-> buf, endPos |-> start]
               /\ \A i \in 0..(n - 1) : A[i + 1] = WithAnswer(A[i], rrs[i + 1])
  <2>1. Len(rrs) \in Nat
    OBVIOUS
  <2> HIDE DEF g, w, Known
  <2>2. \E A : /\ message2bufAnswer(buf, start, rrs) = A[Len(rrs)]
               /\ A[0] = [buf |-> buf, endPos |-> start]
               /\ \A i \in 0..(Len(rrs) - 1) : A[i + 1] = WithAnswer(A[i], rrs[i + 1])
    BY ONLY <2>1, AnswersStep
  <2>3. QED
    BY <1>e, <2>2
<1>2. g \in [1..n -> Seq(Nat)] /\ \A i \in 1..n : g[i] = PlainRecord(meantRRs[i])
  <2>1. \A i \in 1..n : PlainRecord(meantRRs[i]) \in Seq(Nat)
    BY RecordWritten DEF SameRecords
  <2>2. QED
    BY <2>1 DEF Records
<1> HIDE DEF g
<1>3. /\ Flat(g, 0) = <<>>
      /\ \A k \in 0..(n - 1) : Flat(g, k + 1) = Flat(g, k) \o g[k + 1]
      /\ \A k \in 0..n : Flat(g, k) \in Seq(Nat)
      /\ FlattenSeq(g) = Flat(g, n)
  <2>1. g \in [1..n -> Seq(Nat)]
    BY ONLY <1>2
  <2>2. QED
    BY ONLY <2>1, n \in Nat, FlatAdds
<1>4. /\ w(0) = buf /\ all = w(n)
      /\ \A k \in 0..n : w(k) \in Seq(Nat) /\ Len(w(k)) \in Nat
  <2>1. buf \o <<>> = buf
    BY ConcatEmptySeq
  <2>2. ASSUME NEW k \in 0..n PROVE w(k) \in Seq(Nat) /\ Len(w(k)) \in Nat
    <3>1. w(k) \in Seq(Nat)
      BY <1>3, ConcatProperties
    <3> HIDE DEF w
    <3>2. QED
      BY <3>1, LenProperties
  <2>3. QED
    BY <1>e, <1>3, <2>1, <2>2 DEF g
<1>5. ASSUME NEW k \in 0..(n - 1)
      PROVE  /\ w(k + 1) = w(k) \o g[k + 1] /\ k \in 0..n
             /\ Len(w(k + 1)) = Len(w(k)) + Len(g[k + 1])
             /\ k + 1 \in 1..n
  <2> DEFINE f == Flat(g, k)
             x == g[k + 1]
  <2>1. k + 1 \in 1..n /\ k \in 0..n
    OBVIOUS
  <2>2. f \in Seq(Nat) /\ x \in Seq(Nat) /\ Flat(g, k + 1) = f \o x
    BY <1>2, <1>3, <2>1
  <2>3. w(k + 1) = buf \o (f \o x)
    BY <2>2
  <2>4. w(k) = buf \o f
    OBVIOUS
  <2> HIDE DEF f, x
  <2>5. w(k + 1) = w(k) \o x
    <3>1. buf \o (f \o x) = (buf \o f) \o x
      BY <2>2, Joined
    <3> HIDE DEF w
    <3>2. QED
      BY <2>3, <2>4, <3>1
  <2> HIDE DEF w
  <2>6. Len(w(k) \o x) = Len(w(k)) + Len(x)
    BY <1>4, <2>1, <2>2, ConcatProperties
  <2>7. QED
    BY <2>1, <2>5, <2>6 DEF x
<1> HIDE DEF w
<1> DEFINE IsWritten(s, k) ==
             /\ s.endPos \in Nat /\ s.endPos <= Len(w(k))
             /\ Known(k) => s.buf = w(k) /\ s.endPos = Len(w(k)) /\ k <= Len(w(k))
             /\ ~Known(k) => s.endPos < Len(w(k))
           S == {k \in Nat : k <= n => IsWritten(A[k], k)}
<1>6. 0 \in S
  <2>1. 0 \in 0..n /\ Known(0)
    BY DEF HaveKnownTypes
  <2>2. IsWritten([buf |-> buf, endPos |-> start], 0)
    BY <1>e, <1>4, <2>1
  <2> HIDE DEF IsWritten
  <2>3. QED
    BY <1>1, <2>2
<1>7. ASSUME NEW k \in Nat, k \in S PROVE k + 1 \in S
  <2> SUFFICES ASSUME k + 1 <= n PROVE IsWritten(A[k + 1], k + 1)
    <3> HIDE DEF IsWritten
    <3>1. QED
      OBVIOUS
  <2> DEFINE s == A[k]
             t == A[k + 1]
             rr == rrs[k + 1]
             r == meantRRs[k + 1]
  <2>1. k \in 0..(n - 1) /\ k <= n /\ k \in 0..n /\ k + 1 \in 1..n /\ k + 1 \in 0..n
    OBVIOUS
  <2>2. t = WithAnswer(s, rr) /\ IsWritten(s, k) /\ SameRecord(rr, r)
    <3> HIDE DEF IsWritten
    <3>1. QED
      BY <1>1, <1>7, <2>1 DEF SameRecords
  <2>3. t.buf = Put(s.buf, s.endPos, RecordOctets(rr)) /\ t.endPos = s.endPos + Advance(rr)
    <3> HIDE DEF s, t, rr
    <3>1. QED
      BY <2>2 DEF WithAnswer
  <2>4. g[k + 1] = PlainRecord(r)
    BY <1>2, <2>1
  <2>5. /\ PlainRecord(r) \in Seq(Nat) /\ Len(PlainRecord(r)) \in Nat \ {0}
        /\ RecordOctets(rr) \in Seq(Nat) /\ Advance(rr) \in Nat
        /\ r.type \in KnownTypes => RecordOctets(rr) = PlainRecord(r) /\ Advance(rr) = Len(PlainRecord(r))
        /\ r.type \notin KnownTypes => Advance(rr) < Len(PlainRecord(r))
    <3> HIDE DEF rr, r
    <3>1. QED
      BY <2>2, RecordWritten
  <2>6. /\ w(k + 1) = w(k) \o PlainRecord(r)
        /\ Len(w(k + 1)) = Len(w(k)) + Len(PlainRecord(r))
        /\ w(k) \in Seq(Nat) /\ Len(w(k)) \in Nat
    BY <1>4, <1>5, <2>1, <2>4
  <2>7. Known(k + 1) <=> Known(k) /\ r.type \in KnownTypes
    <3>1. \A i \in 1..(k + 1) : i \in 1..k \/ i = k + 1
      OBVIOUS
    <3>2. \A i \in 1..k : i \in 1..(k + 1)
      OBVIOUS
    <3>3. k + 1 \in 1..(k + 1)
      OBVIOUS
    <3>4. QED
      BY <3>1, <3>2, <3>3 DEF HaveKnownTypes
  <2>8. /\ s.endPos \in Nat /\ s.endPos <= Len(w(k))
        /\ Known(k) => s.buf = w(k) /\ s.endPos = Len(w(k)) /\ k <= Len(w(k))
        /\ ~Known(k) => s.endPos < Len(w(k))
    BY <2>2
  <2> HIDE DEF s, t, rr, r, Known
  <2>9. CASE Known(k) /\ r.type \in KnownTypes
    <3>1. t.buf = w(k) \o PlainRecord(r)
      BY <2>3, <2>5, <2>6, <2>8, <2>9, PutAtEnd
    <3>2. t.endPos = Len(w(k + 1)) /\ Len(w(k + 1)) \in Nat /\ k + 1 <= Len(w(k + 1))
      <4> DEFINE c == Len(w(k))
                 d == Len(PlainRecord(r))
      <4>1. t.endPos = c + d /\ Len(w(k + 1)) = c + d
        BY ONLY <2>3, <2>5, <2>6, <2>8, <2>9
      <4>2. c \in Nat /\ d \in Nat \ {0} /\ k <= c
        BY <2>5, <2>6, <2>8, <2>9
      <4> HIDE DEF c, d
      <4>3. c + d \in Nat /\ k + 1 <= c + d
        BY ONLY <4>2, k \in Nat
      <4>4. QED
        BY <4>1, <4>3
    <3>3. QED
      BY <2>6, <2>7, <2>9, <3>1, <3>2 DEF t
  <2>10. CASE ~(Known(k) /\ r.type \in KnownTypes)
    <3> DEFINE a == s.endPos
               b == Advance(rr)
               c == Len(w(k))
               d == Len(PlainRecord(r))
    <3>1. /\ a \in Nat /\ b \in Nat /\ c \in Nat /\ d \in Nat /\ a <= c /\ b <= d
          /\ a < c \/ b < d
      BY <2>5, <2>6, <2>8, <2>10
    <3>2. t.endPos = a + b /\ Len(w(k + 1)) = c + d
      BY <2>3, <2>6
    <3> HIDE DEF a, b, c, d
    <3>3. a + b \in Nat /\ a + b < c + d /\ a + b <= c + d
      BY <3>1
    <3>4. QED
      BY <2>7, <2>10, <3>2, <3>3 DEF t
  <2>11. QED
    BY <2>9, <2>10
<1> HIDE DEF S
<1>8. n \in S
  BY <1>6, <1>7, EveryNatural
<1>9. IsWritten(e, n)
  <2> HIDE DEF IsWritten
  <2>1. QED
    BY <1>1, <1>8 DEF S
<1>10. n \in 0..n
  OBVIOUS
<1>11. /\ all \in Seq(Nat) /\ Len(all) \in Nat
       /\ e.endPos \in Nat
       /\ HaveKnownTypes(meantRRs, n) => e.buf = all /\ e.endPos = Len(all) /\ n <= Len(all)
       /\ ~HaveKnownTypes(meantRRs, n) => e.endPos < Len(all)
  BY <1>4, <1>9, <1>10
<1>12. QED
  BY <1>11 DEF AsFarAsKnown, e, all, start

\* Where the answers begin behind the end of the buffer, the octet there is never
\* written.
LEMMA GapStays ==
    ASSUME NEW buf, buf \in Seq(Int), NEW start, start \in Nat, start > Len(buf),
           NEW n, n \in Nat, NEW rrs, Len(rrs) = n, NEW meantRRs,
           SameRecords(rrs, meantRRs, n),
           NEW e, e = message2bufAnswer(buf, start, rrs)
    PROVE  /\ e.endPos \in Nat /\ e.endPos >= start
           /\ e.buf \in Seq(Int)
           /\ Len(buf) + 1 <= Len(e.buf) => e.buf[Len(buf) + 1] = -1
<1> DEFINE p == Len(buf) + 1
           HasGap(s) == /\ s.endPos \in Nat /\ s.endPos >= start
                        /\ s.buf \in Seq(Int)
                        /\ p <= Len(s.buf) => s.buf[p] = -1
<1>1. PICK A : /\ e = A[n]
               /\ A[0] = [buf |-> buf, endPos |-> start]
               /\ \A i \in 0..(n - 1) : A[i + 1] = WithAnswer(A[i], rrs[i + 1])
  <2>1. Len(rrs) \in Nat
    OBVIOUS
  <2>2. \E A : /\ message2bufAnswer(buf, start, rrs) = A[Len(rrs)]
               /\ A[0] = [buf |-> buf, endPos |-> start]
               /\ \A i \in 0..(Len(rrs) - 1) : A[i + 1] = WithAnswer(A[i], rrs[i + 1])
    BY ONLY <2>1, AnswersStep
  <2>3. QED
    BY <2>2
<1>2. Len(buf) \in Nat /\ p \in 1..start
  <2>1. Len(buf) \in Nat
    BY LenProperties
  <2>2. QED
    BY <2>1
<1> DEFINE S == {k \in Nat : k <= n => HasGap(A[k])}
<1>3. 0 \in S
  <2>1. A[0].buf = buf /\ A[0].endPos = start
    BY <1>1
  <2>2. start >= start /\ ~(p <= Len(buf))
    BY <1>2
  <2>3. HasGap(A[0])
    BY <2>1, <2>2
  <2> HIDE DEF HasGap
  <2>4. QED
    BY <2>3
<1>4. ASSUME NEW k \in Nat, k \in S PROVE k + 1 \in S
  <2> SUFFICES ASSUME k + 1 <= n PROVE HasGap(A[k + 1])
    <3> HIDE DEF HasGap
    <3>1. QED
      OBVIOUS
  <2> DEFINE s == A[k]
             t == A[k + 1]
             rr == rrs[k + 1]
             r == meantRRs[k + 1]
             x == RecordOctets(rr)
             a == Advance(rr)
  <2>1. k \in 0..(n - 1) /\ k <= n /\ k + 1 \in 1..n
    OBVIOUS
  <2>2. t = WithAnswer(s, rr) /\ SameRecord(rr, r) /\ HasGap(s)
    <3> HIDE DEF HasGap
    <3>1. QED
      BY <1>1, <1>4, <2>1 DEF SameRecords
  <2> HIDE DEF s, t, rr, r, HasGap
  <2>3. t.buf = Put(s.buf, s.endPos, x) /\ t.endPos = s.endPos + a
    BY <2>2 DEF WithAnswer
  <2>4. x \in Seq(Nat) /\ a \in Nat
    BY ONLY <2>2, RecordWritten
  <2> HIDE DEF x, a
  <2>5. s.endPos \in Nat /\ s.endPos >= start /\ s.buf \in Seq(Int)
        /\ (p <= Len(s.buf) => s.buf[p] = -1)
    BY <2>2 DEF HasGap
  <2>6. t.buf \in Seq(Int) /\ Kept(t.buf, s.buf, s.endPos)
    <3> DEFINE o == s.endPos
               b == s.buf
    <3>1. o \in Nat /\ b \in Seq(Int) /\ t.buf = Put(b, o, x)
      BY <2>3, <2>5
    <3> HIDE DEF o, b
    <3>2. Put(b, o, x) \in Seq(Int) /\ Kept(Put(b, o, x), b, o)
      BY ONLY <2>4, <3>1, PutAnywhere
    <3>3. QED
      BY <3>1, <3>2 DEF o, b
  <2>7. p \in 1..s.endPos
    BY <1>2, <2>5
  <2>8. t.buf[p] = -1
    BY <2>5, <2>6, <2>7 DEF Kept
  <2>9. t.endPos \in Nat /\ t.endPos >= start
    BY <2>3, <2>4, <2>5
  <2>10. HasGap(t)
    BY <2>6, <2>8, <2>9 DEF HasGap
  <2>11. QED
    BY <2>10 DEF t
<1> HIDE DEF S
<1>5. n \in S
  BY <1>3, <1>4, EveryNatural
<1>6. HasGap(e)
  <2> HIDE DEF HasGap
  <2>1. n <= n
    OBVIOUS
  <2>2. QED
    BY <1>1, <1>5, <2>1 DEF S
<1>7. QED
  BY <1>6

-----------------------------------------------------------------------------
(* Messages *)

\* message2buf is handed m for the message mt that the relay means to send.
SameMessage(m, mt) ==
    /\ m.id = mt.id /\ mt.id \in Nat
    /\ FlagsOctets(m.flags) = Short(mt.flags) /\ mt.flags \in Nat
    /\ m.queries = mt.queries /\ mt.queries \in Seq(Question)
    /\ Len(m.answers) = Len(mt.answers) /\ Len(mt.answers) \in Nat
    /\ DOMAIN mt.answers = 1..Len(mt.answers)
    /\ SameRecords(m.answers, mt.answers, Len(mt.answers))
    /\ m.authority_count = mt.extra.authorities /\ m.additional_count = mt.extra.additional
    /\ mt.extra = NoExtra

\* The header is written as it is meant.
LEMMA HeaderWritten ==
    ASSUME NEW m, NEW mt, SameMessage(m, mt)
    PROVE  message2bufHeader(m) = Heading(mt) /\ IsHeader(Heading(mt))
<1>1. message2bufHeader(m) = Heading(mt)
  BY DEF SameMessage, message2bufHeader, Heading
<1>2. /\ mt.id \in Nat /\ mt.flags \in Nat /\ Len(mt.queries) \in Nat
      /\ Len(mt.answers) \in Nat
      /\ mt.extra.authorities \in Nat /\ mt.extra.additional \in Nat
  BY LenProperties DEF SameMessage, NoExtra
<1> DEFINE a == Short(mt.id)
           b == a \o Short(mt.flags)
           c == b \o Short(Len(mt.queries))
           d == c \o Short(Len(mt.answers))
           f == d \o Short(mt.extra.authorities)
           g == f \o Short(mt.extra.additional)
<1>3. Heading(mt) = g
  BY DEF Heading
<1>4. a \in Seq(Nat) /\ Len(a) = 2
  BY <1>2, NumbersRead
<1> HIDE DEF a
<1>5. b \in Seq(Nat) /\ Len(b) = Len(a) + 2
  BY <1>2, <1>4, NumbersAppended
<1> HIDE DEF b
<1>6. c \in Seq(Nat) /\ Len(c) = Len(b) + 2
  BY <1>2, <1>5, NumbersAppended
<1> HIDE DEF c
<1>7. d \in Seq(Nat) /\ Len(d) = Len(c) + 2
  BY <1>2, <1>6, NumbersAppended
<1> HIDE DEF d
<1>8. f \in Seq(Nat) /\ Len(f) = Len(d) + 2
  BY <1>2, <1>7, NumbersAppended
<1> HIDE DEF f
<1>9. g \in Seq(Nat) /\ Len(g) = Len(f) + 2
  BY <1>2, <1>8, NumbersAppended
<1> HIDE DEF g
<1>10. Len(g) = 12
  BY <1>4, <1>5, <1>6, <1>7, <1>8, <1>9
<1>11. QED
  BY <1>1, <1>3, <1>9, <1>10 DEF IsHeader

\* A message with at most one question and only known types is written as it is
\* meant. Of another one endPos is not the end of what is meant, or an octet before
\* it is not written.
LEMMA EncodedAsMeant ==
    ASSUME NEW m, NEW mt, SameMessage(m, mt), NEW e, e = Encoded(m)
    PROVE  /\ Plain(mt) \in Seq(Nat)
           /\ e.endPos \in Nat
           /\ Writable(mt) => /\ e.buf = Plain(mt) /\ e.endPos = Len(Plain(mt))
                              /\ Len(mt.answers) <= Len(Plain(mt))
           /\ ~Writable(mt) => \/ e.endPos # Len(Plain(mt))
                               \/ \E p \in 1..e.endPos : p <= Len(e.buf) => e.buf[p] = -1
<1> DEFINE h == Heading(mt)
           qs == mt.queries
           q == message2bufQuestion(h, qs)
           rrs == mt.answers
           n == Len(rrs)
           g == Questions(qs)
           start == h \o FlattenSeq(g)
           all == start \o FlattenSeq(Records(rrs))
           Known == HaveKnownTypes(rrs, n)
           mrrs == m.answers
<1>1. /\ qs \in Seq(Question) /\ n \in Nat /\ DOMAIN rrs = 1..n
      /\ Len(mrrs) = n /\ SameRecords(mrrs, rrs, n)
      /\ m.queries = qs /\ mt.extra = NoExtra
  BY DEF SameMessage
<1>2. IsHeader(h) /\ message2bufHeader(m) = h
  BY HeaderWritten
<1>3. e = message2bufAnswer(q.buf, q.endPos, mrrs)
  BY <1>1, <1>2 DEF Encoded
<1>4. /\ q.buf \in Seq(Int) /\ q.endPos \in Nat
      /\ Len(qs) <= 1 => /\ q.buf = start /\ q.buf \in Seq(Nat) /\ q.endPos = Len(q.buf)
      /\ Len(qs) > 1 => q.endPos > Len(q.buf)
  <2> HIDE DEF h, qs
  <2>1. QED
    BY ONLY <1>1, <1>2, QuestionsWritten
<1>5. start \in Seq(Nat)
  <2>1. h \in Seq(Nat)
    BY <1>2 DEF IsHeader
  <2> DEFINE l == Len(qs)
  <2>2. l \in Nat /\ DOMAIN qs = 1..l
    BY <1>1, LenProperties
  <2> HIDE DEF h, qs, l
  <2>3. g \in [1..l -> Seq(Nat)]
    <3>1. ASSUME NEW j \in 1..l PROVE PlainQuestion(qs[j]) \in Seq(Nat)
      <4> DEFINE v == h \o PlainQuestion(qs[j])
      <4>1. qs[j] \in Question
        BY <1>1, <2>2, ElementOfSeq DEF l
      <4>2. v = h \o PlainQuestion(qs[j])
        OBVIOUS
      <4> HIDE DEF v
      <4>3. QED
        BY <2>1, <4>1, <4>2, QuestionRead
    <3>2. QED
      BY <2>2, <3>1 DEF Questions
  <2> HIDE DEF g
  <2>4. FlattenSeq(g) \in Seq(Nat)
    <3>1. /\ \A k \in 0..l : Flat(g, k) \in Seq(Nat)
          /\ FlattenSeq(g) = Flat(g, l)
      BY ONLY <2>2, <2>3, FlatAdds
    <3>2. l \in 0..l
      BY <2>2
    <3>3. QED
      BY <3>1, <3>2
  <2>5. QED
    BY <2>1, <2>4, ConcatProperties
<1>6. Plain(mt) = all \o <<>>
  <2>1. PlainStart(mt) = start
    BY DEF PlainStart, Questions
  <2>2. mt.extra.octets = <<>>
    BY <1>1 DEF NoExtra
  <2>3. QED
    BY <1>1, <2>1, <2>2 DEF Plain, Records
<1> DEFINE e1 == message2bufAnswer(start, Len(start), mrrs)
<1>7. /\ all \in Seq(Nat) /\ Len(all) \in Nat
      /\ e1.endPos \in Nat
      /\ Known => e1.buf = all /\ e1.endPos = Len(all) /\ n <= Len(all)
      /\ ~Known => e1.endPos < Len(all)
  <2>1. e1 = message2bufAnswer(start, Len(start), mrrs) /\ all = start \o FlattenSeq(Records(rrs))
    OBVIOUS
  <2>2. /\ start \in Seq(Nat) /\ n \in Nat /\ Len(mrrs) = n /\ DOMAIN rrs = 1..n
        /\ SameRecords(mrrs, rrs, n)
    BY <1>1, <1>5
  <2>3. Known = HaveKnownTypes(rrs, n)
    OBVIOUS
  <2> HIDE DEF h, qs, q, g, Known, start, e1, all, rrs, n, mrrs
  <2>4. AsFarAsKnown(message2bufAnswer(start, Len(start), mrrs), start, rrs, n)
    BY ONLY <2>2, AnswersWritten
  <2>5. /\ all \in Seq(Nat) /\ Len(all) \in Nat
        /\ e1.endPos \in Nat
        /\ HaveKnownTypes(rrs, n) => e1.buf = all /\ e1.endPos = Len(all) /\ n <= Len(all)
        /\ ~HaveKnownTypes(rrs, n) => e1.endPos < Len(all)
    BY <2>1, <2>4 DEF AsFarAsKnown
  <2>6. QED
    BY <2>3, <2>5
<1>8. Plain(mt) = all
  <2> HIDE DEF all
  <2>1. QED
    BY <1>6, <1>7, ConcatEmptySeq
<1>9. Writable(mt) <=> Len(qs) <= 1 /\ Known
  BY <1>1 DEF Writable, HaveKnownTypes
<1>10. Len(qs) \in Nat
  BY <1>1, LenProperties
<1>n. n = Len(mt.answers)
  OBVIOUS
<1> HIDE DEF h, g, start, all, qs, rrs, mrrs, n, e1, Known
<1>11. CASE Len(qs) <= 1
  <2>1. e = e1
    BY <1>3, <1>4, <1>11 DEF e1
  <2>2. ~Known => e.endPos # Len(all)
    BY <1>7, <2>1
  <2>3. QED
    BY <1>7, <1>8, <1>9, <1>11, <1>n, <2>1, <2>2
<1>12. CASE Len(qs) > 1
  <2> DEFINE b == q.buf
             o == q.endPos
  <2>1. /\ b \in Seq(Int) /\ o \in Nat /\ o > Len(b) /\ e = message2bufAnswer(b, o, mrrs)
    BY <1>3, <1>4, <1>12
  <2> HIDE DEF b, o, q
  <2>2. /\ e.endPos \in Nat /\ e.endPos >= o
        /\ Len(b) + 1 <= Len(e.buf) => e.buf[Len(b) + 1] = -1
    BY ONLY <1>1, <2>1, GapStays
  <2>3. Len(b) + 1 \in 1..e.endPos
    <3>1. Len(b) \in Nat
      BY <2>1, LenProperties
    <3>2. QED
      BY <2>1, <2>2, <3>1
  <2>4. ~Writable(mt)
    BY <1>9, <1>10, <1>12
  <2>5. QED
    BY <1>7, <1>8, <2>2, <2>3, <2>4
<1>13. QED
  BY <1>10, <1>11, <1>12

\* What message2buf promises of a message that the relay means to send.
LEMMA Message2bufKeeps ==
    ASSUME NEW m, NEW mt, SameMessage(m, mt), message2buf(m)
    PROVE  /\ stage' = "sent" => (sendbuf' = Plain(mt) <=> Writable(mt))
           /\ stage' = "undefined" /\ Writable(mt) => Len(Plain(mt)) > BufferSize
           /\ stage' = "sent" /\ Writable(mt) => Len(mt.answers) <= BufferSize
<1> DEFINE e == Encoded(m)
           p == Plain(mt)
<1>1. IF Len(e.buf) > BufferSize
      THEN stage' = "undefined"
      ELSE /\ stage' = "sent"
           /\ sendbuf' = [i \in 1..e.endPos |-> IF i <= Len(e.buf) THEN e.buf[i] ELSE -1]
  BY DEF message2buf
<1>2. e = Encoded(m)
  OBVIOUS
<1> HIDE DEF e
<1>3. /\ p \in Seq(Nat)
      /\ e.endPos \in Nat
      /\ Writable(mt) => e.buf = p /\ e.endPos = Len(p) /\ Len(mt.answers) <= Len(p)
      /\ ~Writable(mt) => \/ e.endPos # Len(p)
                          \/ \E i \in 1..e.endPos : i <= Len(e.buf) => e.buf[i] = -1
  BY <1>2, EncodedAsMeant
<1> HIDE DEF p
<1>4. Len(p) \in Nat /\ DOMAIN p = 1..Len(p)
  BY <1>3, LenProperties
<1>5. ASSUME Writable(mt), stage' = "undefined" PROVE Len(p) > BufferSize
  BY <1>1, <1>3, <1>5
<1>s. ASSUME Writable(mt), stage' = "sent" PROVE Len(mt.answers) <= BufferSize
  <2> DEFINE a == Len(mt.answers)
             l == Len(p)
  <2>1. a \in Nat /\ l \in Nat /\ a <= l /\ ~(l > BufferSize)
    BY <1>1, <1>3, <1>4, <1>s DEF SameMessage
  <2>2. BufferSize \in Nat
    BY MessageAssumption DEF Half
  <2> HIDE DEF a, l
  <2>3. a <= BufferSize
    BY ONLY <2>1, <2>2
  <2>4. QED
    BY <2>3 DEF a
<1>6. ASSUME stage' = "sent" PROVE sendbuf' = p <=> Writable(mt)
  <2>1. sendbuf' = [i \in 1..e.endPos |-> IF i <= Len(e.buf) THEN e.buf[i] ELSE -1]
    BY <1>1, <1>6
  <2> DEFINE s == sendbuf'
  <2>2. s = [i \in 1..e.endPos |-> IF i <= Len(e.buf) THEN e.buf[i] ELSE -1]
    BY <2>1
  <2> HIDE DEF s
  <2>3. ASSUME Writable(mt) PROVE s = p
    <3>1. e.buf = p /\ e.endPos = Len(p)
      BY <1>3, <2>3
    <3>2. s = [i \in 1..Len(p) |-> IF i <= Len(p) THEN p[i] ELSE -1]
      BY <2>2, <3>1
    <3>3. \A i \in 1..Len(p) : i <= Len(p)
      BY <1>4
    <3>4. s = [i \in 1..Len(p) |-> p[i]]
      BY <3>2, <3>3
    <3>5. p = [i \in 1..Len(p) |-> p[i]]
      BY <1>3, <1>4
    <3>6. QED
      BY <3>4, <3>5
  <2>4. ASSUME ~Writable(mt), s = p PROVE FALSE
    <3>1. DOMAIN s = 1..e.endPos
      BY <2>2
    <3>2. e.endPos = Len(p)
      <4> DEFINE a == e.endPos
                 b == Len(p)
      <4>1. a \in Nat /\ b \in Nat /\ 1..a = 1..b
        BY <1>3, <1>4, <2>4, <3>1
      <4> HIDE DEF a, b
      <4>2. a = b
        BY <4>1
      <4>3. QED
        BY <4>2 DEF a, b
    <3>3. PICK i \in 1..e.endPos : i <= Len(e.buf) => e.buf[i] = -1
      BY <1>3, <2>4, <3>2
    <3>4. s[i] = -1
      BY <2>2, <3>3
    <3>5. p[i] \in Nat
      BY <1>3, <3>2, ElementOfSeq
    <3>6. QED
      BY <2>4, <3>4, <3>5
  <2>5. QED
    BY <2>3, <2>4 DEF s
<1>7. QED
  BY <1>s, <1>5, <1>6 DEF p

-----------------------------------------------------------------------------
(* Flags *)

\* The fields of Flags, with their weights.
SumOfFields(n) ==
    32768 * Bits(n, 32768, 2) + 2048 * Bits(n, 2048, 16) + 1024 * Bits(n, 1024, 2)
        + 512 * Bits(n, 512, 2) + 256 * Bits(n, 256, 2) + 128 * Bits(n, 128, 2)
        + 16 * Bits(n, 16, 8) + Bits(n, 1, 16)

\* A number of 16 bits is the sum of its fields.
LEMMA FlagsAdd ==
    ASSUME NEW n \in Half
    PROVE  /\ Bits(n, 1, 16) \in 0..15 /\ Bits(n, 16, 8) \in 0..7 /\ Bits(n, 128, 2) \in 0..1
           /\ Bits(n, 256, 2) \in 0..1 /\ Bits(n, 512, 2) \in 0..1 /\ Bits(n, 1024, 2) \in 0..1
           /\ Bits(n, 2048, 16) \in 0..15 /\ Bits(n, 32768, 2) \in 0..1
           /\ SumOfFields(n) = n
<1> DEFINE n1 == n \div 16
           n2 == n \div 128
           n3 == n \div 256
           n4 == n \div 512
           n5 == n \div 1024
           n6 == n \div 2048
           n7 == n \div 32768
           rc == n % 16
           z == n1 % 8
           ra == n2 % 2
           rd == n3 % 2
           tc == n4 % 2
           aa == n5 % 2
           op == n6 % 16
           qr == n7 % 2
<1>1. n \in Nat /\ n \div 1 = n
  BY DEF Half
<1>2. n1 \in Nat /\ rc \in 0..15 /\ n = 16 * n1 + rc
  BY <1>1
<1>3. n2 \in Nat /\ z \in 0..7 /\ n1 = 8 * n2 + z
  <2>1. n2 = n1 \div 8
    BY <1>1
  <2> HIDE DEF n1, n2
  <2>2. QED
    BY <1>2, <2>1
<1>4. n3 \in Nat /\ ra \in 0..1 /\ n2 = 2 * n3 + ra
  <2>1. n3 = n2 \div 2
    BY <1>1
  <2> HIDE DEF n2, n3
  <2>2. QED
    BY <1>3, <2>1
<1>5. n4 \in Nat /\ rd \in 0..1 /\ n3 = 2 * n4 + rd
  <2>1. n4 = n3 \div 2
    BY <1>1
  <2> HIDE DEF n3, n4
  <2>2. QED
    BY <1>4, <2>1
<1>6. n5 \in Nat /\ tc \in 0..1 /\ n4 = 2 * n5 + tc
  <2>1. n5 = n4 \div 2
    BY <1>1
  <2> HIDE DEF n4, n5
  <2>2. QED
    BY <1>5, <2>1
<1>7. n6 \in Nat /\ aa \in 0..1 /\ n5 = 2 * n6 + aa
  <2>1. n6 = n5 \div 2
    BY <1>1
  <2> HIDE DEF n5, n6
  <2>2. QED
    BY <1>6, <2>1
<1>8. n7 \in Nat /\ op \in 0..15 /\ n6 = 16 * n7 + op
  <2>1. n7 = n6 \div 16
    BY <1>1
  <2> HIDE DEF n6, n7
  <2>2. QED
    BY <1>7, <2>1
<1>9. qr = n7 /\ qr \in 0..1
  BY <1>1 DEF Half
<1>10. /\ Bits(n, 1, 16) = rc /\ Bits(n, 16, 8) = z /\ Bits(n, 128, 2) = ra
       /\ Bits(n, 256, 2) = rd /\ Bits(n, 512, 2) = tc /\ Bits(n, 1024, 2) = aa
       /\ Bits(n, 2048, 16) = op /\ Bits(n, 32768, 2) = qr
  BY <1>1 DEF Bits
<1> HIDE DEF n1, n2, n3, n4, n5, n6, n7, rc, z, ra, rd, tc, aa, op, qr
<1>11. n = 32768 * qr + 2048 * op + 1024 * aa + 512 * tc + 256 * rd + 128 * ra + 16 * z + rc
  BY <1>2, <1>3, <1>4, <1>5, <1>6, <1>7, <1>8, <1>9
<1>12. SumOfFields(n) = n
  BY <1>10, <1>11 DEF SumOfFields
<1>13. /\ rc \in 0..15 /\ z \in 0..7 /\ ra \in 0..1 /\ rd \in 0..1 /\ tc \in 0..1 /\ aa \in 0..1
       /\ op \in 0..15 /\ qr \in 0..1
  BY <1>2, <1>3, <1>4, <1>5, <1>6, <1>7, <1>8, <1>9
<1>14. QED
  BY <1>10, <1>12, <1>13

\* The flags of a message on its way: all but Z as they came.
LEMMA FlagsForward ==
    ASSUME NEW n \in Half, NEW f, f = [Flags(n) EXCEPT !.Z = 0]
    PROVE  FlagsOctets(f) = Short(WithoutZ(n)) /\ WithoutZ(n) \in Half
<1> DEFINE qr == Bits(n, 32768, 2)
           op == Bits(n, 2048, 16)
           aa == Bits(n, 1024, 2)
           tc == Bits(n, 512, 2)
           rd == Bits(n, 256, 2)
           ra == Bits(n, 128, 2)
           z == Bits(n, 16, 8)
           rc == Bits(n, 1, 16)
<1>1. /\ f.QR = qr /\ f.Opcode = op /\ f.AA = aa /\ f.TC = tc /\ f.RD = rd /\ f.RA = ra
      /\ f.Z = 0 /\ f.RCODE = rc
  BY DEF Flags
<1>2. /\ rc \in 0..15 /\ z \in 0..7 /\ ra \in 0..1 /\ rd \in 0..1 /\ tc \in 0..1 /\ aa \in 0..1
      /\ op \in 0..15 /\ qr \in 0..1 /\ SumOfFields(n) = n
  BY FlagsAdd
<1>3. 32768 * qr + 2048 * op + 1024 * aa + 512 * tc + 256 * rd + 128 * ra + 16 * z + rc = n
  BY <1>2 DEF SumOfFields
<1>4. WithoutZ(n) = n - 16 * z
  BY DEF WithoutZ
<1>5. FlagsOctets(f) = Short(32768 * qr + 2048 * op + 1024 * aa + 512 * tc + 256 * rd + 128 * ra
                                + (64 + 32 + 16) * 0 + rc)
  BY <1>1 DEF FlagsOctets
<1> HIDE DEF qr, op, aa, tc, rd, ra, z, rc
<1>6. 32768 * qr + 2048 * op + 1024 * aa + 512 * tc + 256 * rd + 128 * ra
         + (64 + 32 + 16) * 0 + rc = n - 16 * z
      /\ n - 16 * z \in Nat /\ n - 16 * z < 65536
  <2>1. n \in Nat /\ n < 65536
    BY DEF Half
  <2>2. QED
    BY ONLY <1>2, <1>3, <2>1
<1>7. QED
  BY <1>4, <1>5, <1>6 DEF Half

\* The flags of a reply.
LEMMA FlagsReply ==
    ASSUME NEW n \in Half, NEW rcode \in {0, 3},
           NEW f, f = [[Flags(n) EXCEPT !.QR = 1, !.RD = 0, !.RCODE = rcode] EXCEPT !.Z = 0]
    PROVE  FlagsOctets(f) = Short(ReplyFlags(n, rcode)) /\ ReplyFlags(n, rcode) \in Half
<1> DEFINE qr == Bits(n, 32768, 2)
           op == Bits(n, 2048, 16)
           aa == Bits(n, 1024, 2)
           tc == Bits(n, 512, 2)
           rd == Bits(n, 256, 2)
           ra == Bits(n, 128, 2)
           z == Bits(n, 16, 8)
           rc == Bits(n, 1, 16)
<1>1. /\ f.QR = 1 /\ f.Opcode = op /\ f.AA = aa /\ f.TC = tc /\ f.RD = 0 /\ f.RA = ra
      /\ f.Z = 0 /\ f.RCODE = rcode
  BY DEF Flags
<1>2. /\ rc \in 0..15 /\ z \in 0..7 /\ ra \in 0..1 /\ rd \in 0..1 /\ tc \in 0..1 /\ aa \in 0..1
      /\ op \in 0..15 /\ qr \in 0..1 /\ SumOfFields(n) = n
  BY FlagsAdd
<1>3. 32768 * qr + 2048 * op + 1024 * aa + 512 * tc + 256 * rd + 128 * ra + 16 * z + rc = n
  BY <1>2 DEF SumOfFields
<1>4. ReplyFlags(n, rcode) = n - 16 * z - 256 * rd - rc + 32768 * (1 - qr) + rcode
  BY DEF WithoutZ, ReplyFlags
<1>5. FlagsOctets(f) = Short(32768 * 1 + 2048 * op + 1024 * aa + 512 * tc + 256 * 0 + 128 * ra
                                + (64 + 32 + 16) * 0 + rcode)
  BY <1>1 DEF FlagsOctets
<1> HIDE DEF qr, op, aa, tc, rd, ra, z, rc
<1>6. /\ 32768 * 1 + 2048 * op + 1024 * aa + 512 * tc + 256 * 0 + 128 * ra
            + (64 + 32 + 16) * 0 + rcode = n - 16 * z - 256 * rd - rc + 32768 * (1 - qr) + rcode
      /\ n - 16 * z - 256 * rd - rc + 32768 * (1 - qr) + rcode \in Nat
      /\ n - 16 * z - 256 * rd - rc + 32768 * (1 - qr) + rcode < 65536
  <2>1. rcode \in 0..3
    OBVIOUS
  <2>2. QED
    BY ONLY <1>2, <1>3, <2>1
<1>7. QED
  BY <1>4, <1>5, <1>6 DEF Half

-----------------------------------------------------------------------------
(* What is sent *)

\* A message that was read and goes on is the one that is meant.
LEMMA SameForward ==
    ASSUME NEW m, IsMessage(m), NEW got, ReadAs(got, m),
           NEW mt, mt = [m EXCEPT !.flags = WithoutZ(@), !.extra = NoExtra]
    PROVE  SameMessage(Cleared(got), mt)
<1> DEFINE c == Cleared(got)
           n == Len(m.answers)
<1>1. /\ got.id = m.id /\ got.flags = Flags(m.flags) /\ got.queries = m.queries
      /\ Len(got.answers) = n /\ DOMAIN got.answers = DOMAIN m.answers
      /\ \A i \in DOMAIN m.answers : \E length \in Nat :
            /\ got.answers[i] = Made(m.answers[i], length)
            /\ m.answers[i].type \in {TypeA, TypeAAAA} => length = Len(m.answers[i].data)
  BY ReadParts
<1>2. /\ c.id = m.id /\ c.queries = m.queries /\ c.answers = got.answers
      /\ c.authority_count = 0 /\ c.additional_count = 0
      /\ c.flags = [Flags(m.flags) EXCEPT !.Z = 0]
  <2>1. PICK ls \in Lengths(m, Len(m.answers)) :
           got = [id |-> m.id, flags |-> Flags(m.flags), queries |-> m.queries,
                  answers |-> MadeOf(m, ls, Len(m.answers)),
                  authority_count |-> m.extra.authorities,
                  additional_count |-> m.extra.additional]
    BY DEF ReadAs
  <2> DEFINE f == Flags(m.flags)
             a == MadeOf(m, ls, Len(m.answers))
  <2> HIDE DEF f, a
  <2>2. got = [id |-> m.id, flags |-> f, queries |-> m.queries,
               answers |-> a, authority_count |-> m.extra.authorities,
               additional_count |-> m.extra.additional]
    BY <2>1 DEF f, a
  <2>3. c = [got EXCEPT !.flags.Z = 0, !.authority_count = 0, !.additional_count = 0]
    BY DEF Cleared
  <2>4. /\ c.id = m.id /\ c.queries = m.queries /\ c.answers = a
        /\ c.authority_count = 0 /\ c.additional_count = 0 /\ c.flags = [f EXCEPT !.Z = 0] /\ got.answers = a
    <3> HIDE DEF c
    <3>1. QED
      BY <2>2, <2>3
  <2>5. QED
    BY <2>4 DEF f
<1>3. /\ m = [id |-> m.id, flags |-> m.flags, queries |-> m.queries, answers |-> m.answers,
              extra |-> m.extra]
      /\ m.id \in Half /\ m.flags \in Half /\ m.queries \in Seq(Question)
  BY DEF IsMessage
<1>4. /\ mt.id = m.id /\ mt.queries = m.queries /\ mt.answers = m.answers
      /\ mt.extra = NoExtra /\ mt.flags = WithoutZ(m.flags)
  BY <1>3
<1>5. FlagsOctets(c.flags) = Short(mt.flags) /\ mt.flags \in Nat
  <2> HIDE DEF c
  <2>1. FlagsOctets(c.flags) = Short(WithoutZ(m.flags)) /\ WithoutZ(m.flags) \in Half
    BY <1>2, <1>3, FlagsForward
  <2>2. WithoutZ(m.flags) \in Nat
    BY ONLY <2>1 DEF Half
  <2>3. QED
    BY <1>4, <2>1, <2>2
<1>6. n \in Nat /\ DOMAIN m.answers = 1..n /\ m.id \in Nat
  <2>1. m.id \in Nat
    BY <1>3 DEF Half
  <2>2. QED
    BY <2>1, AnswerParts
<1>7. ASSUME NEW i \in 1..n PROVE SameRecord(got.answers[i], m.answers[i])
  <2> DEFINE r == m.answers[i]
             rr == got.answers[i]
  <2>1. IsRecord(r) /\ r.class \in Half /\ IsSeconds(r.ttl)
    BY AnswerParts
  <2>2. PICK length \in Nat : /\ rr = Made(r, length)
                              /\ r.type \in {TypeA, TypeAAAA} => length = Len(r.data)
    BY <1>1, <1>6
  <2> HIDE DEF r, rr
  <2>3. /\ rr.name = r.name /\ rr.type = r.type /\ rr.class = r.class /\ rr.ttl = r.ttl
        /\ r.type \in KnownTypes => rr.data = r.data
        /\ rr.response_data_length = length
    BY <2>2 DEF Made
  <2>4. r.type \in Nat /\ r.class \in Nat /\ r.ttl \in Nat
    BY <2>1 DEF IsRecord, Half, IsSeconds
  <2>5. /\ r.name \in Seq(Label)
        /\ r.type = TypeCNAME => r.data \in Seq(Label)
        /\ r.type # TypeCNAME => r.data \in Seq(Nat)
    BY <2>1, RecordParts
  <2>6. SameRecord(rr, r)
    BY <2>2, <2>3, <2>4, <2>5 DEF SameRecord
  <2>7. QED
    BY <2>6 DEF r, rr
<1> HIDE DEF c
<1>8. SameRecords(c.answers, mt.answers, n)
  BY <1>2, <1>4, <1>7 DEF SameRecords
<1>9. QED
  BY <1>1, <1>2, <1>3, <1>4, <1>5, <1>6, <1>8 DEF SameMessage, c, NoExtra

\* A reply from the caches to what was read is the one that is meant.
LEMMA SameReply ==
    ASSUME NEW m, IsMessage(m), NEW got, ReadAs(got, m),
           NEW rrs, AreRecords(rrs), NEW rcode \in {0, 3},
           NEW answers, answers = [i \in DOMAIN rrs |-> Generated(rrs[i])]
    PROVE  SameMessage(Cleared(BackMessage(got, rcode, answers)), ReplyMeant(m, rrs, rcode))
<1> DEFINE b == BackMessage(got, rcode, answers)
           c == Cleared(b)
           mt == ReplyMeant(m, rrs, rcode)
           n == Len(rrs)
           f == Flags(m.flags)
<1>1. got.id = m.id /\ got.flags = f /\ got.queries = m.queries
  BY ReadParts
<1>2. /\ c.id = m.id /\ c.queries = m.queries /\ c.answers = answers
      /\ c.authority_count = 0 /\ c.additional_count = 0
      /\ c.flags = [[f EXCEPT !.QR = 1, !.RD = 0, !.RCODE = rcode] EXCEPT !.Z = 0]
  <2> DEFINE d == [f EXCEPT !.QR = 1, !.RD = 0, !.RCODE = rcode]
  <2> HIDE DEF f
  <2>1. b = [id |-> m.id, flags |-> d, queries |-> m.queries, answers |-> answers,
             authority_count |-> 0, additional_count |-> 0]
    BY <1>1 DEF BackMessage
  <2> HIDE DEF b, d
  <2>2. c = [b EXCEPT !.flags.Z = 0, !.authority_count = 0, !.additional_count = 0]
    BY DEF Cleared
  <2>3. /\ c.id = m.id /\ c.queries = m.queries /\ c.answers = answers
        /\ c.authority_count = 0 /\ c.additional_count = 0 /\ c.flags = [d EXCEPT !.Z = 0]
    <3> HIDE DEF c
    <3>1. QED
      BY <2>1, <2>2
  <2>4. QED
    BY <2>3 DEF d
<1>3. m.id \in Half /\ m.flags \in Half /\ m.queries \in Seq(Question)
  BY DEF IsMessage
<1>4. /\ mt.id = m.id /\ mt.queries = m.queries /\ mt.extra = NoExtra
      /\ mt.flags = ReplyFlags(m.flags, rcode)
      /\ mt.answers = [i \in DOMAIN rrs |->
                         [name |-> rrs[i].name, type |-> rrs[i].type,
                          class |-> 1, ttl |-> 120, data |-> rrs[i].data]]
  BY DEF ReplyMeant
<1>5. FlagsOctets(c.flags) = Short(mt.flags) /\ mt.flags \in Nat
  <2> DEFINE k == m.flags
             fl == c.flags
  <2>1. k \in Half /\ rcode \in {0, 3}
    BY <1>3
  <2>2. fl = [[Flags(k) EXCEPT !.QR = 1, !.RD = 0, !.RCODE = rcode] EXCEPT !.Z = 0]
    BY <1>2
  <2> HIDE DEF c, mt, k, fl, f, b
  <2>3. FlagsOctets(fl) = Short(ReplyFlags(k, rcode)) /\ ReplyFlags(k, rcode) \in Half
    BY ONLY <2>1, <2>2, FlagsReply
  <2>4. ReplyFlags(k, rcode) \in Nat
    BY ONLY <2>3 DEF Half
  <2>5. QED
    BY <1>4, <2>3, <2>4 DEF k, fl
<1>6. /\ n \in Nat /\ DOMAIN rrs = 1..n /\ m.id \in Nat
      /\ \A i \in 1..n : IsRecord(rrs[i])
  <2>1. m.id \in Nat
    BY <1>3 DEF Half
  <2>2. rrs \in Seq(Range(rrs)) /\ \A rr \in Range(rrs) : IsRecord(rr)
    BY DEF AreRecords
  <2>3. n \in Nat /\ DOMAIN rrs = 1..n
    BY <2>2, LenProperties
  <2>4. \A i \in 1..n : rrs[i] \in Range(rrs)
    BY <2>3 DEF Range
  <2>5. QED
    BY <2>1, <2>2, <2>3, <2>4
<1> HIDE DEF c, mt, n, b, f
<1>7. /\ DOMAIN mt.answers = 1..n /\ Len(mt.answers) = n /\ Len(answers) = n
  BY <1>4, <1>6
<1>8. ASSUME NEW i \in 1..n PROVE SameRecord(answers[i], mt.answers[i])
  <2> DEFINE s == rrs[i]
             r == mt.answers[i]
             rr == answers[i]
  <2>1. IsRecord(s)
    BY <1>6
  <2>2. r = [name |-> s.name, type |-> s.type, class |-> 1, ttl |-> 120, data |-> s.data]
        /\ rr = Generated(s)
    BY <1>4, <1>6
  <2> HIDE DEF r, rr, s
  <2>3. /\ r.name = s.name /\ r.type = s.type /\ r.class = 1 /\ r.ttl = 120 /\ r.data = s.data
    BY <2>2
  <2>4. /\ rr.name = s.name /\ rr.type = s.type /\ rr.class = 1 /\ rr.ttl = 120
        /\ rr.data = s.data
        /\ s.type # TypeCNAME => rr.response_data_length = Len(s.data)
    BY <2>2 DEF Generated
  <2>5. s.type \in Nat
    BY <2>1 DEF IsRecord, Half
  <2>6. /\ s.name \in Seq(Label)
        /\ s.type = TypeCNAME => s.data \in Seq(Label)
        /\ s.type # TypeCNAME => s.data \in Seq(Nat)
    BY <2>1, RecordParts
  <2>7. s.type \in {TypeA, TypeAAAA} => s.type # TypeCNAME
    BY DEF TypeA, TypeAAAA, TypeCNAME
  <2>8. SameRecord(rr, r)
    BY <2>3, <2>4, <2>5, <2>6, <2>7 DEF SameRecord
  <2>9. QED
    BY <2>8 DEF r, rr
<1>9. SameRecords(c.answers, mt.answers, n)
  BY <1>2, <1>8 DEF SameRecords
<1>10. QED
  BY <1>2, <1>3, <1>4, <1>5, <1>6, <1>7, <1>9 DEF SameMessage, c, mt, b, NoExtra

-----------------------------------------------------------------------------
(* What is sent *)

\* Inductive in the presence of Reading, which says what message2buf is given.
Writing == WritesWhatIsMeant /\ OverrunsOnlyIfTooLong

LEMMA WritingInit == Init => Writing
BY DEF Init, Writing, WritesWhatIsMeant, OverrunsOnlyIfTooLong

\* Whatever message2buf is given for a message that the relay means to send, it
\* writes that message or has no room for it.
LEMMA WritingStep ==
    ASSUME NEW m, SameMessage(m, meant'), message2buf(m)
    PROVE  Writing'
<1> DEFINE mt == meant'
<1>1. SameMessage(m, mt)
  OBVIOUS
<1> HIDE DEF mt
<1>2. /\ stage' = "sent" => (sendbuf' = Plain(mt) <=> Writable(mt))
      /\ stage' = "undefined" /\ Writable(mt) => Len(Plain(mt)) > BufferSize
  BY <1>1, Message2bufKeeps
<1>3. QED
  BY <1>2 DEF mt, Writing, WritesWhatIsMeant, OverrunsOnlyIfTooLong

LEMMA WritingNext == Reading /\ Writing /\ [Next]_vars => Writing'
<1> SUFFICES ASSUME Reading, Writing, [Next]_vars PROVE Writing'
  OBVIOUS
<1>1. ASSUME stage' \notin {"sent", "undefined"} PROVE Writing'
  BY <1>1 DEF Writing, WritesWhatIsMeant, OverrunsOnlyIfTooLong
<1>2. ASSUME stage = "parsed" PROVE IsMessage(said) /\ ReadAs(message, said)
  BY <1>2, MessageAssumption DEF Reading
<1>3. CASE ComposeQuestion \/ Compose
  BY <1>1, <1>3 DEF ComposeQuestion, Compose
<1>4. CASE Send
  BY <1>1, <1>4 DEF Send
<1>5. CASE buf2message
  BY <1>1, <1>5 DEF buf2message
<1>6. CASE Forward
  <2>1. /\ stage = "parsed"
        /\ meant' = [said EXCEPT !.flags = WithoutZ(@), !.extra = NoExtra]
        /\ message2buf(Cleared(message))
    BY <1>6 DEF Forward
  <2>2. SameMessage(Cleared(message), meant')
    BY ONLY <1>2, <2>1, SameForward
  <2>3. QED
    BY ONLY <2>1, <2>2, WritingStep
<1>7. CASE Reply
  <2>1. stage = "parsed"
    BY <1>7 DEF Reply
  <2>2. PICK rrs \in CachedRRs, rcode \in {0, 3} :
          LET answers == [i \in DOMAIN rrs |-> Generated(rrs[i])] IN
          /\ meant' = ReplyMeant(said, rrs, rcode)
          /\ message2buf(Cleared(BackMessage(message, rcode, answers)))
    BY ONLY <1>7 DEF Reply
  <2> DEFINE answers == [i \in DOMAIN rrs |-> Generated(rrs[i])]
  <2>3. AreRecords(rrs)
    BY MessageAssumption
  <2>4. answers = [i \in DOMAIN rrs |-> Generated(rrs[i])]
    OBVIOUS
  <2>5. /\ meant' = ReplyMeant(said, rrs, rcode)
        /\ message2buf(Cleared(BackMessage(message, rcode, answers)))
    BY <2>2
  <2> HIDE DEF answers
  <2>6. SameMessage(Cleared(BackMessage(message, rcode, answers)),
                    ReplyMeant(said, rrs, rcode))
    BY ONLY <1>2, <2>1, <2>3, <2>4, rcode \in {0, 3}, SameReply
  <2>7. QED
    BY ONLY <2>5, <2>6, WritingStep
<1>8. CASE Done \/ UNCHANGED vars
  BY <1>8 DEF Done, vars, Writing, WritesWhatIsMeant, OverrunsOnlyIfTooLong
<1>9. QED
  BY <1>3, <1>4, <1>5, <1>6, <1>7, <1>8 DEF Next

\* Whatever message the relay forwards or answers, what message2buf hands to
\* libuv are the octets of the message it means to send, if that has at most one
\* question and only records of types A, AAAA and CNAME, and is something else
\* if not.
THEOREM AlwaysWritesWhatIsMeant == Spec => []WritesWhatIsMeant
<1>1. Writing => WritesWhatIsMeant
  BY DEF Writing
<1>2. QED
  BY <1>1, ReadingInit, ReadingNext, WritingInit, WritingNext, PTL DEF Spec

\* message2buf writes past its buffer only for a message that it cannot write
\* anyway or that is longer than the buffer.
THEOREM AlwaysOverrunsOnlyIfTooLong == Spec => []OverrunsOnlyIfTooLong
<1>1. Writing => OverrunsOnlyIfTooLong
  BY DEF Writing
<1>2. QED
  BY <1>1, ReadingInit, ReadingNext, WritingInit, WritingNext, PTL DEF Spec

-----------------------------------------------------------------------------
(* What is sent is understood *)

InAnyOrder(r, s, t) == r \o (s \o t) = (r \o s) \o t

\* It does not matter which octets are joined first.
LEMMA AnyOrder ==
    ASSUME NEW r, NEW s, NEW t, r \in Seq(Nat), s \in Seq(Nat), t \in Seq(Nat)
    PROVE  InAnyOrder(r, s, t)
<1>1. (r \o s) \o t = r \o (s \o t)
  BY ConcatAssociative
<1>2. QED
  BY ONLY <1>1 DEF InAnyOrder

JoinsBehind(w, a, b, c, d, l, x) ==
    w \o (a \o b \o c \o d \o l \o x) = (w \o a \o b \o c \o d) \o l \o x

\* Six runs of octets behind w, joined from either side.
LEMMA JoinedBehind ==
    ASSUME NEW w, NEW a, NEW b, NEW c, NEW d, NEW l, NEW x,
           w \in Seq(Nat), a \in Seq(Nat), b \in Seq(Nat), c \in Seq(Nat),
           d \in Seq(Nat), l \in Seq(Nat), x \in Seq(Nat)
    PROVE  JoinsBehind(w, a, b, c, d, l, x)
<1> DEFINE ab == a \o b
           abc == ab \o c
           abcd == abc \o d
           abcdl == abcd \o l
<1> HIDE DEF ab, abc, abcd, abcdl
<1>1. ab \in Seq(Nat)
  BY ONLY a \in Seq(Nat), b \in Seq(Nat), ConcatProperties DEF ab
<1>2. abc \in Seq(Nat)
  BY ONLY c \in Seq(Nat), <1>1, ConcatProperties DEF abc
<1>3. abcd \in Seq(Nat)
  BY ONLY d \in Seq(Nat), <1>2, ConcatProperties DEF abcd
<1>4. abcdl \in Seq(Nat)
  BY ONLY l \in Seq(Nat), <1>3, ConcatProperties DEF abcdl
<1>5. InAnyOrder(w, a, b)
  BY ONLY w \in Seq(Nat), a \in Seq(Nat), b \in Seq(Nat), AnyOrder
<1>6. InAnyOrder(w, ab, c)
  BY ONLY w \in Seq(Nat), c \in Seq(Nat), <1>1, AnyOrder
<1>7. InAnyOrder(w, abc, d)
  BY ONLY w \in Seq(Nat), d \in Seq(Nat), <1>2, AnyOrder
<1>8. InAnyOrder(w, abcd, l)
  BY ONLY w \in Seq(Nat), l \in Seq(Nat), <1>3, AnyOrder
<1>9. InAnyOrder(w, abcdl, x)
  BY ONLY w \in Seq(Nat), x \in Seq(Nat), <1>4, AnyOrder
<1>10. w \o (abcdl \o x) = ((((((w \o a) \o b) \o c) \o d) \o l) \o x)
  BY ONLY <1>5, <1>6, <1>7, <1>8, <1>9 DEF InAnyOrder, ab, abc, abcd, abcdl
<1>11. QED
  BY ONLY <1>10 DEF JoinsBehind, abcdl, abcd, abc, ab

\* A record without compression is one of its spellings.
LEMMA PlainSpelled ==
    ASSUME NEW w \in Seq(Nat), NEW rr, IsRecord(rr), rr.class \in Half, IsSeconds(rr.ttl)
    PROVE  \E owner, data : Spelled(w, rr, {}, owner, data, w \o PlainRecord(rr))
<1> DEFINE a == name2message(rr.name)
           b == Short(rr.type)
           c == Short(rr.class)
           d == Word(rr.ttl)
           x == PlainData(rr)
           l == Short(Len(x))
           owner == [octets |-> a, anchors |-> Anchors(Len(w), rr.name, Len(rr.name))]
           fixed == w \o owner.octets \o b \o c \o d
           data == IF rr.type = TypeCNAME
                   THEN [octets |-> name2message(rr.data),
                         anchors |-> Anchors(Len(fixed) + 2, rr.data, Len(rr.data))]
                   ELSE [octets |-> rr.data, anchors |-> {}]
<1>1. owner \in Spellings(rr.name, Len(w), {})
  BY DEF Spellings
<1>2. data \in DataSpellings(rr, Len(fixed) + 2, {} \cup owner.anchors)
  <2> HIDE DEF fixed
  <2>1. CASE rr.type = TypeCNAME
    BY <2>1 DEF DataSpellings, Spellings
  <2>2. CASE rr.type # TypeCNAME
    BY <2>2 DEF DataSpellings
  <2>3. QED
    BY <2>1, <2>2
<1>3. data.octets = x
  <2> HIDE DEF fixed
  <2>1. QED
    BY DEF PlainData
<1>4. a \in Seq(Nat) /\ x \in Seq(Nat)
  <2>1. /\ rr.name \in Seq(Label)
        /\ rr.type = TypeCNAME => rr.data \in Seq(Label)
        /\ rr.type # TypeCNAME => rr.data \in Seq(Nat)
    BY RecordParts
  <2>2. a \in Seq(Nat)
    BY <2>1, NameOctets
  <2>3. x \in Seq(Nat)
    BY <2>1, NameOctets DEF PlainData
  <2>4. QED
    BY <2>2, <2>3
<1>5. b \in Seq(Nat) /\ c \in Seq(Nat) /\ d \in Seq(Nat) /\ l \in Seq(Nat)
  <2>1. rr.type \in Nat /\ rr.class \in Nat /\ rr.ttl \in Nat
    BY DEF IsRecord, Half, IsSeconds
  <2>2. Len(x) \in Nat
    BY <1>4, LenProperties
  <2>3. QED
    BY <2>1, <2>2, NumbersRead
<1>6. PlainRecord(rr) = a \o b \o c \o d \o l \o x
  BY DEF PlainRecord
<1>7. w \o PlainRecord(rr) = (w \o a \o b \o c \o d) \o l \o x
  <2> HIDE DEF a, b, c, d, l, x
  <2>1. JoinsBehind(w, a, b, c, d, l, x)
    BY ONLY <1>4, <1>5, w \in Seq(Nat), JoinedBehind
  <2>2. QED
    BY ONLY <1>6, <2>1 DEF JoinsBehind
<1>8. w \o PlainRecord(rr) = fixed \o Short(Len(data.octets)) \o data.octets
  <2>1. fixed = w \o a \o b \o c \o d
    OBVIOUS
  <2>2. l = Short(Len(x))
    OBVIOUS
  <2> HIDE DEF a, b, c, d, l, x, fixed, data
  <2>3. QED
    BY ONLY <1>3, <1>7, <2>1, <2>2
<1>9. fixed = w \o owner.octets \o Short(rr.type) \o Short(rr.class) \o Word(rr.ttl)
  OBVIOUS
<1> HIDE DEF fixed, owner, data
<1>10. Spelled(w, rr, {}, owner, data, w \o PlainRecord(rr))
  BY ONLY <1>1, <1>2, <1>8, <1>9 DEF Spelled
<1>11. QED
  BY <1>10

\* The octets of a message without compression are one way to compose it.
LEMMA PlainComposed ==
    ASSUME NEW m, IsMessage(m)
    PROVE  Composed(PlainStart(m) \o FlattenSeq(Records(m.answers)), m, Len(m.answers))
<1> DEFINE start == PlainStart(m)
           rrs == m.answers
           n == Len(rrs)
           g == Records(rrs)
           w(k) == start \o Flat(g, k)
<1>1. /\ n \in Nat /\ DOMAIN rrs = 1..n
      /\ \A i \in 1..n : IsRecord(rrs[i]) /\ rrs[i].class \in Half /\ IsSeconds(rrs[i].ttl)
  BY AnswerParts
<1>2. start \in Seq(Nat)
  BY StartRead
<1>3. Composed(start, m, 0)
  BY ComposedStart
<1>4. \A i \in 1..n : PlainRecord(rrs[i]) \in Seq(Nat)
  <2>1. ASSUME NEW i \in 1..n PROVE PlainRecord(rrs[i]) \in Seq(Nat)
    <3> DEFINE rr == rrs[i]
    <3>1. /\ rr.name \in Seq(Label) /\ rr.type \in Nat /\ rr.class \in Nat /\ rr.ttl \in Nat
          /\ rr.type = TypeCNAME => rr.data \in Seq(Label)
          /\ rr.type # TypeCNAME => rr.data \in Seq(Nat)
      BY <1>1, RecordParts DEF Half, IsSeconds
    <3> DEFINE s == [name |-> rr.name, type |-> rr.type, class |-> rr.class, ttl |-> rr.ttl,
                     data |-> rr.data, response_data_length |-> Len(rr.data)]
    <3> HIDE DEF rr
    <3>2. SameRecord(s, rr)
      BY <3>1 DEF SameRecord
    <3> HIDE DEF s
    <3>3. PlainRecord(rr) \in Seq(Nat)
      BY ONLY <3>2, RecordWritten
    <3>4. QED
      BY <3>3 DEF rr
  <2>2. QED
    BY <2>1
<1>5. g \in [1..n -> Seq(Nat)] /\ \A i \in 1..n : g[i] = PlainRecord(rrs[i])
  BY <1>1, <1>4 DEF Records
<1> HIDE DEF g, start, rrs, n
<1>6. /\ Flat(g, 0) = <<>>
      /\ \A k \in 0..(n - 1) : Flat(g, k + 1) = Flat(g, k) \o g[k + 1]
      /\ \A k \in 0..n : Flat(g, k) \in Seq(Nat)
      /\ FlattenSeq(g) = Flat(g, n)
  BY ONLY <1>1, <1>5, FlatAdds
<1>7. w(0) = start
  BY <1>2, <1>6, ConcatEmptySeq
<1>8. ASSUME NEW k \in 0..(n - 1)
      PROVE  w(k) \in Seq(Nat) /\ w(k + 1) = w(k) \o PlainRecord(rrs[k + 1])
  <2> DEFINE f == Flat(g, k)
             x == PlainRecord(rrs[k + 1])
  <2>1. k + 1 \in 1..n /\ k \in 0..n
    BY <1>1
  <2>2. f \in Seq(Nat) /\ x \in Seq(Nat) /\ Flat(g, k + 1) = f \o x
    BY <1>4, <1>5, <1>6, <2>1
  <2>3. w(k + 1) = start \o (f \o x) /\ w(k) = start \o f
    BY <2>2
  <2> HIDE DEF f, x, w
  <2>4. start \o f \in Seq(Nat)
    BY ONLY <1>2, <2>2, ConcatProperties
  <2>5. InAnyOrder(start, f, x)
    BY ONLY <1>2, <2>2, AnyOrder
  <2>6. QED
    BY <2>3, <2>4, <2>5 DEF InAnyOrder, x
<1>9. w(n) = start \o FlattenSeq(g)
  BY <1>6
<1> HIDE DEF w
<1> DEFINE S == {k \in Nat : k <= n => Composed(w(k), m, k)}
<1>10. 0 \in S
  BY <1>3, <1>7 DEF start
<1>11. ASSUME NEW k \in Nat, k \in S PROVE k + 1 \in S
  <2> SUFFICES ASSUME k + 1 <= n PROVE Composed(w(k + 1), m, k + 1)
    OBVIOUS
  <2> DEFINE u == w(k)
             v == w(k + 1)
             rr == rrs[k + 1]
  <2>1. k \in 0..(n - 1) /\ k + 1 \in 1..n /\ Composed(u, m, k)
    BY <1>1, <1>11
  <2>2. u \in Seq(Nat) /\ v = u \o PlainRecord(rr)
    BY <1>8, <2>1
  <2>3. IsRecord(rr) /\ rr.class \in Half /\ IsSeconds(rr.ttl)
    BY <1>1, <2>1
  <2>4. k \in 0..(Len(m.answers) - 1) /\ rr = m.answers[k + 1]
    BY <2>1 DEF n, rrs
  <2> HIDE DEF u, v, rr
  <2>5. PICK owner, data : Spelled(u, rr, {}, owner, data, v)
    BY ONLY <2>2, <2>3, PlainSpelled
  <2>6. AllLead(u, {})
    BY DEF AllLead
  <2>7. Composed(v, m, k + 1)
    BY ONLY IsMessage(m), <2>1, <2>4, <2>5, <2>6, ComposedNext
  <2>8. QED
    BY <2>7 DEF v
<1> HIDE DEF S
<1>12. n \in S
  BY <1>1, <1>10, <1>11, EveryNatural
<1>13. Composed(w(n), m, n)
  BY <1>1, <1>12 DEF S
<1>14. QED
  BY <1>9, <1>13 DEF start, g, rrs, n

\* So what is not compressed is read like anything else.
LEMMA PlainRead ==
    ASSUME NEW m, IsMessage(m)
    PROVE  ReadAs(Parsed(Plain(m)), m)
<1> DEFINE w == PlainStart(m) \o FlattenSeq(Records(m.answers))
           tail == m.extra.octets
<1>1. Composed(w, m, Len(m.answers))
  BY PlainComposed
<1>2. Plain(m) = w \o tail
  BY DEF Plain, Records
<1> HIDE DEF w
<1>3. w \in Seq(Nat)
  BY <1>1 DEF Composed
<1>4. tail \in Seq(Nat)
  <2>1. m.extra.octets \in Seq(Octet)
    BY DEF IsMessage, Extra
  <2>2. Octet \subseteq Nat
    BY DEF Octet
  <2>3. QED
    BY <2>1, <2>2, SeqMonotonic
<1> HIDE DEF tail
<1>5. w \o tail \in Seq(Nat) /\ Extends(w \o tail, w)
  BY ONLY <1>3, <1>4, AppendedOccurs
<1>6. ReadAs(Parsed(w \o tail), m)
  BY ONLY IsMessage(m), <1>1, <1>5, ParsedAs
<1>7. QED
  BY <1>2, <1>6

LEMMA NothingExtra == NoExtra \in Extra
<1>1. <<>> \in Seq(Octet) /\ 0 \in Half
  BY DEF Half
<1>2. QED
  BY <1>1 DEF NoExtra, Extra

\* A message that goes on is a message.
LEMMA ForwardIsMessage ==
    ASSUME NEW m, IsMessage(m), NEW mt,
           mt = [m EXCEPT !.flags = WithoutZ(@), !.extra = NoExtra]
    PROVE  IsMessage(mt)
<1>1. /\ m = [id |-> m.id, flags |-> m.flags, queries |-> m.queries, answers |-> m.answers,
              extra |-> m.extra]
      /\ m.flags \in Half
  BY DEF IsMessage
<1>2. mt = [id |-> m.id, flags |-> WithoutZ(m.flags), queries |-> m.queries,
            answers |-> m.answers, extra |-> NoExtra]
  BY ONLY <1>1, mt = [m EXCEPT !.flags = WithoutZ(@), !.extra = NoExtra]
<1>3. WithoutZ(m.flags) \in Half
  <2> DEFINE f == [Flags(m.flags) EXCEPT !.Z = 0]
             k == m.flags
  <2>1. f = [Flags(k) EXCEPT !.Z = 0]
    OBVIOUS
  <2> HIDE DEF f, k
  <2>2. k \in Half
    BY <1>1 DEF k
  <2>3. WithoutZ(k) \in Half
    BY ONLY <2>1, <2>2, FlagsForward
  <2>4. QED
    BY <2>3 DEF k
<1>4. /\ mt.id = m.id /\ mt.flags \in Half /\ mt.queries = m.queries
      /\ mt.answers = m.answers /\ mt.extra = NoExtra
  BY ONLY <1>2, <1>3
<1>5. mt = [id |-> mt.id, flags |-> mt.flags, queries |-> mt.queries, answers |-> mt.answers,
            extra |-> mt.extra]
  BY ONLY <1>2
<1>6. QED
  BY <1>4, <1>5, NothingExtra DEF IsMessage

\* So is a reply that has no more answers than can be counted.
LEMMA ReplyIsMessage ==
    ASSUME NEW m, IsMessage(m), NEW rcode \in {0, 3},
           NEW rrs, AreRecords(rrs), NEW mt, mt = ReplyMeant(m, rrs, rcode),
           Len(mt.answers) \in Half
    PROVE  IsMessage(mt)
<1> DEFINE answers == [i \in DOMAIN rrs |->
                         [name |-> rrs[i].name, type |-> rrs[i].type,
                          class |-> 1, ttl |-> 120, data |-> rrs[i].data]]
           n == Len(rrs)
<1>1. m.id \in Half /\ m.flags \in Half /\ m.queries \in Seq(Question) /\ Len(m.queries) \in Half
  BY DEF IsMessage
<1>2. mt = [id |-> m.id, flags |-> ReplyFlags(m.flags, rcode), queries |-> m.queries,
            answers |-> answers, extra |-> NoExtra]
  BY DEF ReplyMeant
<1>3. ReplyFlags(m.flags, rcode) \in Half
  <2> DEFINE k == m.flags
             f == [[Flags(k) EXCEPT !.QR = 1, !.RD = 0, !.RCODE = rcode] EXCEPT !.Z = 0]
  <2>1. f = [[Flags(k) EXCEPT !.QR = 1, !.RD = 0, !.RCODE = rcode] EXCEPT !.Z = 0]
    OBVIOUS
  <2>2. k \in Half /\ rcode \in {0, 3}
    BY <1>1
  <2> HIDE DEF f, k
  <2>3. ReplyFlags(k, rcode) \in Half
    BY ONLY <2>1, <2>2, FlagsReply
  <2>4. QED
    BY <2>3 DEF k
<1>4. n \in Nat /\ DOMAIN rrs = 1..n /\ \A i \in 1..n : IsRecord(rrs[i])
  <2>1. rrs \in Seq(Range(rrs)) /\ \A rr \in Range(rrs) : IsRecord(rr)
    BY DEF AreRecords
  <2>2. n \in Nat /\ DOMAIN rrs = 1..n
    BY <2>1, LenProperties
  <2>3. \A i \in 1..n : rrs[i] \in Range(rrs)
    BY <2>2 DEF Range
  <2>4. QED
    BY <2>1, <2>2, <2>3
<1> HIDE DEF n
<1>5. DOMAIN answers = 1..n /\ \A i \in 1..n :
         answers[i] = [name |-> rrs[i].name, type |-> rrs[i].type,
                       class |-> 1, ttl |-> 120, data |-> rrs[i].data]
  BY <1>4
<1>6. ASSUME NEW i \in 1..n
      PROVE  IsRecord(answers[i]) /\ answers[i].class \in Half /\ IsSeconds(answers[i].ttl)
  <2> DEFINE r == answers[i]
             s == rrs[i]
  <2>1. r = [name |-> s.name, type |-> s.type, class |-> 1, ttl |-> 120, data |-> s.data]
        /\ IsRecord(s)
    BY <1>4, <1>5
  <2> HIDE DEF r, s
  <2>2. r.name = s.name /\ r.type = s.type /\ r.data = s.data /\ r.class = 1 /\ r.ttl = 120
    BY <2>1
  <2>3. IsRecord(r)
    BY <2>1, <2>2 DEF IsRecord
  <2>4. r.class \in Half /\ IsSeconds(r.ttl)
    BY <2>2 DEF Half, IsSeconds
  <2>5. QED
    BY <2>3, <2>4 DEF r
<1> HIDE DEF answers
<1>7. AreRecords(answers) /\ \A rr \in Range(answers) : rr.class \in Half /\ IsSeconds(rr.ttl)
  <2>1. Range(answers) = {answers[i] : i \in 1..n}
    BY <1>5 DEF Range
  <2>2. answers = [i \in 1..n |-> answers[i]]
    BY ONLY <1>2, <1>5 DEF answers
  <2>3. answers \in Seq(Range(answers))
    BY ONLY <1>4, <2>1, <2>2
  <2>4. QED
    BY <1>6, <2>1, <2>3 DEF AreRecords
<1>8. /\ mt.id = m.id /\ mt.flags \in Half /\ mt.queries = m.queries
      /\ mt.answers = answers /\ mt.extra = NoExtra
  BY ONLY <1>2, <1>3
<1>9. mt = [id |-> mt.id, flags |-> mt.flags, queries |-> mt.queries, answers |-> mt.answers,
            extra |-> mt.extra]
  BY ONLY <1>2
<1>10. QED
  BY <1>1, <1>7, <1>8, <1>9, NothingExtra DEF IsMessage

\* Whatever is sent whole is a message.
Sending == stage = "sent" /\ Writable(meant) => IsMessage(meant)

LEMMA SendingNext == Reading /\ Sending /\ [Next]_vars => Sending'
<1> SUFFICES ASSUME Reading, Sending, [Next]_vars, stage' = "sent", Writable(meant')
             PROVE  IsMessage(meant')
  BY DEF Sending
<1> DEFINE mt == meant'
<1>1. ASSUME stage = "parsed" PROVE IsMessage(said) /\ ReadAs(message, said)
  BY <1>1, MessageAssumption DEF Reading
<1>2. CASE Forward
  <2>1. stage = "parsed" /\ mt = [said EXCEPT !.flags = WithoutZ(@), !.extra = NoExtra]
    BY <1>2 DEF Forward
  <2> HIDE DEF mt
  <2>2. IsMessage(mt)
    BY ONLY <1>1, <2>1, ForwardIsMessage
  <2>3. QED
    BY <2>2 DEF mt
<1>3. CASE Reply
  <2>1. stage = "parsed"
    BY <1>3 DEF Reply
  <2>2. PICK rrs \in CachedRRs, rcode \in {0, 3} :
          LET answers == [i \in DOMAIN rrs |-> Generated(rrs[i])] IN
          /\ meant' = ReplyMeant(said, rrs, rcode)
          /\ message2buf(Cleared(BackMessage(message, rcode, answers)))
    BY ONLY <1>3 DEF Reply
  <2> DEFINE answers == [i \in DOMAIN rrs |-> Generated(rrs[i])]
             b == Cleared(BackMessage(message, rcode, answers))
  <2>3. AreRecords(rrs)
    BY MessageAssumption
  <2>4. answers = [i \in DOMAIN rrs |-> Generated(rrs[i])]
    OBVIOUS
  <2>5. mt = ReplyMeant(said, rrs, rcode) /\ message2buf(b)
    BY <2>2
  <2>6. b = Cleared(BackMessage(message, rcode, answers))
    OBVIOUS
  <2>w. stage' = "sent" /\ Writable(mt)
    OBVIOUS
  <2> HIDE DEF answers, b, mt
  <2>8. SameMessage(b, mt)
    BY ONLY <1>1, <2>1, <2>3, <2>4, <2>5, <2>6, rcode \in {0, 3}, SameReply
  <2>9. Len(mt.answers) <= BufferSize
    BY ONLY <2>5, <2>8, <2>w, Message2bufKeeps
  <2>10. Len(mt.answers) \in Half
    <3>1. Len(mt.answers) \in Nat /\ BufferSize \in Nat /\ BufferSize < 65536
      BY ONLY <2>8, MessageAssumption DEF SameMessage, Half
    <3>2. QED
      BY ONLY <2>9, <3>1 DEF Half
  <2>11. IsMessage(mt)
    BY ONLY <1>1, <2>1, <2>3, <2>5, <2>10, rcode \in {0, 3}, ReplyIsMessage
  <2>12. QED
    BY <2>11 DEF mt
<1>4. CASE ComposeQuestion \/ Compose \/ Send \/ buf2message
  BY <1>4 DEF ComposeQuestion, Compose, Send, buf2message
<1>5. CASE Done \/ UNCHANGED vars
  BY <1>5 DEF Done, vars, Sending
<1>6. QED
  BY <1>2, <1>3, <1>4, <1>5 DEF Next

\* Every query and every answer that message2buf can write is read by buf2message as
\* the message that was meant, whatever its size and that of the buffer: the two
\* directions of the codec agree.
THEOREM AlwaysUnderstood == Spec => []SentIsUnderstood
<1>1. Init => Sending
  BY DEF Init, Sending
<1>2. Sending /\ Writing => SentIsUnderstood
  <2> SUFFICES ASSUME Sending, Writing, stage = "sent", Writable(meant)
               PROVE  Understood(Parsed(sendbuf), meant)
    BY DEF SentIsUnderstood
  <2>1. IsMessage(meant) /\ sendbuf = Plain(meant)
    BY DEF Sending, Writing, WritesWhatIsMeant
  <2>2. ReadAs(Parsed(sendbuf), meant)
    BY <2>1, PlainRead
  <2>3. QED
    BY ONLY <2>1, <2>2, ReadIsUnderstood
<1>3. QED
  BY <1>1, <1>2, ReadingInit, ReadingNext, WritingInit, WritingNext, SendingNext, PTL DEF Spec
=============================================================================
