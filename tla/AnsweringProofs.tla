--------------------------- MODULE AnsweringProofs ---------------------------
(***************************************************************************)
(* Theorems about Answering: a receive callback of socket.c, taken loop by *)
(* loop, fills exactly the array it measured, and is the one step that     *)
(* Relay takes it for.                                                     *)
(***************************************************************************)
EXTENDS Answering, RelayProofs, SequenceTheorems

-----------------------------------------------------------------------------
(* What a callback comes to, from the tables t it was called with *)

\* The chase from d has come along w.
Linked(aliases, w, d) ==
    /\ w \in Seq(Names) /\ w # <<>>
    /\ w[1] = d
    /\ \A k \in 1..(Len(w) - 1) :
          Cached(aliases, w[k]) /\ w[k + 1] = aliases[w[k]].name

Distinct(w) == \A j, k \in 1..Len(w) : w[j] = w[k] => j = k

Hanging(t, q) == Chases(q) /\ Endless(t.cname, q.name)

Missing(t, q) ==
    \/ q.type = "A"     /\ ~Cached(t.ipv4, EndOf(t.cname, q.name))
    \/ q.type = "CNAME" /\ ~Cached(t.cname, q.name)
    \/ q.type = "AAAA"  /\ ~Cached(t.ipv6, EndOf(t.cname, q.name))

Hit(t, q) == ~Hanging(t, q) /\ ~Missing(t, q)

\* The entries the first n questions look into.
Lookups(t, qs, n) ==
    {EndOf(t.cname, qs[j].name) : j \in {k \in 1..n : qs[k].type = "A" /\ Hit(t, qs[k])}}

Marked(t, S) ==
    [n \in Names |-> IF n \in S THEN [t.ipv4[n] EXCEPT !.manual = ZeroFirst(t.ipv4[n])]
                                ELSE t.ipv4[n]]

AddressRecords(type, table, n) ==
    {[type |-> type, name |-> n, data |-> table[n].node[k]] : k \in DOMAIN table[n].node}

Records(t, q) ==
    IF ~Chases(q) THEN {}
    ELSE generate_cname_response(Chain(t.cname, q.name)) \cup
            CASE q.type = "A"     -> AddressRecords("A", t.ipv4, EndOf(t.cname, q.name))
              [] q.type = "AAAA"  -> AddressRecords("AAAA", t.ipv6, EndOf(t.cname, q.name))
              [] q.type = "CNAME" -> {}

\* The records of the first n questions.
Generated(t, qs, n) == UNION {Records(t, qs[j]) : j \in 1..n}

\* How many records a hit of q takes.
Cost(t, q) ==
    IF ~(Chases(q) /\ Hit(t, q)) THEN 0
    ELSE Len(Chain(t.cname, q.name)) - 1 +
            CASE q.type = "A"     -> Len(t.ipv4[EndOf(t.cname, q.name)].node)
              [] q.type = "AAAA"  -> Len(t.ipv6[EndOf(t.cname, q.name)].node)
              [] q.type = "CNAME" -> 0

\* How many the first n questions take.
Total(t, qs) ==
    LET sum[n \in 0..Len(qs)] == IF n = 0 THEN 0 ELSE sum[n - 1] + Cost(t, qs[n])
    IN  sum

Steps(walk) == IF walk = <<>> THEN 0 ELSE Len(walk) - 1

-----------------------------------------------------------------------------
(* The invariant *)

TablesOK(t) ==
    /\ t.clients \in [Feature -> Clients \cup {NULL}]
    /\ t.ipv4 \in AddressTable(IPv4)
    /\ t.ipv6 \in AddressTable(IPv6)
    /\ t.cname \in AliasTable

\* The locals fr are at a question, or past the last.
PlaceOK(fr, t) ==
    LET qs == fr.feature.queries IN
    /\ fr \in ReceiveLocals
    /\ fr.i \in 1..(Len(qs) + 1)
    /\ fr.i = Len(qs) + 1 => fr.walk = <<>>
    /\ fr.i <= Len(qs) =>
          /\ Linked(t.cname, fr.walk, qs[fr.i].name)
          /\ ~Chases(qs[fr.i]) => Len(fr.walk) = 1

\* The questions whose lookups have been made.
LookedAt(fr) == IF fr.pc = "counting" THEN fr.i - 1 ELSE Len(fr.feature.queries)

CountingOK(fr, t) ==
    LET qs == fr.feature.queries IN
    /\ IF fr.cached
       THEN \A j \in 1..(fr.i - 1) : Hit(t, qs[j])
       ELSE /\ fr.i >= 2
            /\ \A j \in 1..(fr.i - 2) : Hit(t, qs[j])
            /\ ~Hanging(t, qs[fr.i - 1])
            /\ Missing(t, qs[fr.i - 1])
    /\ Distinct(fr.walk)
    /\ fr.answers = <<>>
    /\ fr.banned <=> \E n \in Lookups(t, qs, fr.i - 1) : ZeroFirst(t.ipv4[n])
    /\ fr.cached /\ ~fr.banned =>
          fr.answer_count = Total(t, qs)[fr.i - 1] + Steps(fr.walk)

WritingOK(fr, t) ==
    LET qs == fr.feature.queries IN
    /\ fr.cached
    /\ \A j \in 1..Len(qs) : Hit(t, qs[j])
    /\ \A n \in Lookups(t, qs, Len(qs)) : ~ZeroFirst(t.ipv4[n])
    /\ fr.room = Total(t, qs)[Len(qs)]
    /\ Len(fr.answers) = Total(t, qs)[fr.i - 1] + Steps(fr.walk)
    /\ ToSet(fr.answers) =
          Generated(t, qs, fr.i - 1) \cup generate_cname_response(fr.walk)

ReceiveInv ==
    /\ PlaceOK(frame, before)
    /\ IF frame.pc = "counting" THEN CountingOK(frame, before) ELSE WritingOK(frame, before)
    /\ status = "running"
    /\ frame.feature.id \in IdsOf[frame.client]
    /\ owed[frame.client][frame.feature] < MaxOwed
    /\ Cardinality(toUpstream) + Cardinality(fromUpstream) < MaxInFlight
    /\ clients = [before.clients EXCEPT ![frame.feature] = frame.client]
    /\ ipv4 = Marked(before, Lookups(before, Queries, LookedAt(frame)))
    /\ ipv6 = before.ipv6
    /\ cname = before.cname

\* The first n of a list.
Taken(all, n) == [k \in 1..n |-> all[k]]

\* What is left of a list, and how much of it is done.
Rest(all, rest) ==
    /\ Len(rest) \in 0..Len(all)
    /\ \A k \in 1..Len(rest) : rest[k] = all[Len(all) - Len(rest) + k]

Done(all, rest) == Taken(all, Len(all) - Len(rest))

Collects(all, rest, domain, node) ==
    /\ Rest(all, rest)
    /\ node = Data(Done(all, rest))
    /\ domain = IF node = <<>> THEN NULL ELSE all[Len(all) - Len(rest)].name

ResponseInv ==
    /\ frame \in ResponseLocals
    /\ status = "running"
    /\ frame.response \in fromUpstream
    /\ clients = before.clients
    /\ ipv4 = before.ipv4
    /\ ipv6 = before.ipv6
    /\ Rest(frame.response.answer.cname, frame.rest.cname)
    /\ cname = cname_cache_puts(before.cname,
                   Done(frame.response.answer.cname, frame.rest.cname), TTL, now)
    /\ Collects(frame.response.answer.a, frame.rest.a, frame.ipv4_domain, frame.node4)
    /\ Collects(frame.response.answer.aaaa, frame.rest.aaaa, frame.ipv6_domain, frame.node6)

IInv ==
    /\ TypeOK
    /\ ~Idle => TablesOK(before) /\ IF frame.pc = "learning" THEN ResponseInv ELSE ReceiveInv

-----------------------------------------------------------------------------
(* Chases *)

\* Two chases from one name come along the same names.
LEMMA SameWay ==
    ASSUME NEW aliases, NEW d, NEW v, NEW w, Linked(aliases, v, d), Linked(aliases, w, d)
    PROVE  \A k \in 1..Len(v) : k <= Len(w) => v[k] = w[k]
<1> DEFINE S == {n \in Nat : n + 1 <= Len(v) /\ n + 1 <= Len(w) => v[n + 1] = w[n + 1]}
<1>1. Len(v) \in Nat /\ Len(w) \in Nat /\ v[1] = d /\ w[1] = d
  BY DEF Linked
<1>2. 0 \in S
  BY <1>1
<1>3. ASSUME NEW n \in Nat, n \in S PROVE n + 1 \in S
  <2> SUFFICES ASSUME n + 2 <= Len(v), n + 2 <= Len(w) PROVE v[n + 2] = w[n + 2]
    OBVIOUS
  <2>1. v[n + 1] = w[n + 1]
    BY <1>1, <1>3
  <2>2. n + 1 \in 1..(Len(v) - 1) /\ n + 1 \in 1..(Len(w) - 1)
    BY <1>1
  <2>3. v[(n + 1) + 1] = aliases[v[n + 1]].name /\ w[(n + 1) + 1] = aliases[w[n + 1]].name
    BY <2>2 DEF Linked
  <2>4. QED
    BY <2>1, <2>3
<1> HIDE DEF S
<1>4. Nat \subseteq S
  BY <1>2, <1>3, EveryNatural
<1>5. QED
  <2> SUFFICES ASSUME NEW k \in 1..Len(v), k <= Len(w) PROVE v[k] = w[k]
    OBVIOUS
  <2>1. k - 1 \in Nat /\ (k - 1) + 1 = k
    BY <1>1
  <2>2. QED
    BY <1>1, <1>4, <2>1 DEF S

\* A name met twice is met for ever.
LEMMA Periodic ==
    ASSUME NEW aliases, NEW d, NEW v, Linked(aliases, v, d),
           NEW p \in 1..Len(v), NEW q \in 1..Len(v), p < q, v[p] = v[q]
    PROVE  Cached(aliases, v[Len(v)])
<1> DEFINE S == {n \in Nat : q + n <= Len(v) => v[p + n] = v[q + n]}
<1>1. Len(v) \in Nat /\ p \in Nat /\ q \in Nat /\ p >= 1
  BY DEF Linked
<1>2. 0 \in S
  BY <1>1
<1>3. ASSUME NEW n \in Nat, n \in S PROVE n + 1 \in S
  <2> SUFFICES ASSUME q + (n + 1) <= Len(v) PROVE v[p + (n + 1)] = v[q + (n + 1)]
    OBVIOUS
  <2>1. v[p + n] = v[q + n]
    BY <1>1, <1>3
  <2>2. p + n \in 1..(Len(v) - 1) /\ q + n \in 1..(Len(v) - 1)
    BY <1>1
  <2>3. v[(p + n) + 1] = aliases[v[p + n]].name /\ v[(q + n) + 1] = aliases[v[q + n]].name
    BY <2>2 DEF Linked
  <2>4. (p + n) + 1 = p + (n + 1) /\ (q + n) + 1 = q + (n + 1)
    BY <1>1
  <2>5. QED
    BY <2>1, <2>3, <2>4
<1> HIDE DEF S
<1>4. Nat \subseteq S
  BY <1>2, <1>3, EveryNatural
<1> DEFINE n == Len(v) - q
<1>5. n \in Nat /\ q + n = Len(v) /\ p + n \in 1..(Len(v) - 1)
  BY <1>1
<1> HIDE DEF n
<1>6. v[p + n] = v[Len(v)]
  <2>1. n \in S
    BY <1>4, <1>5
  <2>2. q + n <= Len(v) => v[p + n] = v[q + n]
    BY <2>1 DEF S
  <2>3. q + n <= Len(v)
    BY <1>1, <1>5
  <2>4. QED
    BY <1>5, <2>2, <2>3
<1>7. Cached(aliases, v[p + n])
  BY <1>5 DEF Linked
<1>8. QED
  BY <1>6, <1>7

\* What Chains holds of a name: the chases from it that have ended.
LEMMA ChainsAre ==
    ASSUME NEW aliases, NEW d, NEW v \in Chains(aliases, d)
    PROVE  Linked(aliases, v, d) /\ ~Cached(aliases, v[Len(v)])
<1>1. PICK k \in 1..Cardinality(Names) : v \in [1..k -> Names]
  BY DEF Chains
<1>2. k \in Nat /\ v \in Seq(Names) /\ Len(v) = k /\ k >= 1
  BY <1>1, SMT
<1>3. v # <<>>
  BY <1>2
<1>4. /\ v[1] = d
      /\ \A i \in 1..(Len(v) - 1) :
            Cached(aliases, v[i]) /\ v[i + 1] = aliases[v[i]].name
      /\ ~Cached(aliases, v[Len(v)])
  BY DEF Chains
<1>5. QED
  BY <1>2, <1>3, <1>4 DEF Linked

\* A chase that has ended without meeting a name twice is the chain.
LEMMA EndedIsChain ==
    ASSUME NEW aliases, NEW d, NEW w, Linked(aliases, w, d), Distinct(w),
           ~Cached(aliases, w[Len(w)])
    PROVE  /\ ~Endless(aliases, d)
           /\ Chain(aliases, d) = w
           /\ EndOf(aliases, d) = w[Len(w)]
<1>1. w \in Seq(Names) /\ Len(w) \in Nat /\ Len(w) >= 1
  BY DEF Linked
<1>2. w \in [1..Len(w) -> Names]
  BY <1>1
<1>3. IsFiniteSet(Names) /\ Cardinality(Names) \in Nat
  BY CachesAssumption, FS_CardinalityType
<1>4. Len(w) <= Cardinality(Names)
  <2>1. IsFiniteSet(1..Len(w)) /\ Cardinality(1..Len(w)) = Len(w)
    BY <1>1, FS_Interval
  <2>2. w \in Injection(1..Len(w), Names)
    BY <1>2 DEF Distinct, Injection, IsInjective
  <2>3. Cardinality(1..Len(w)) <= Cardinality(Names)
    BY <1>3, <2>2, FS_Injection
  <2>4. QED
    BY <2>1, <2>3
<1>5. Len(w) \in 1..Cardinality(Names)
  BY <1>1, <1>3, <1>4
<1>6. w \in Chains(aliases, d)
  BY <1>2, <1>5 DEF Chains, Linked
<1>7. ASSUME NEW v \in Chains(aliases, d) PROVE v = w
  <2>1. Linked(aliases, v, d) /\ ~Cached(aliases, v[Len(v)])
    BY ChainsAre
  <2>2. v \in Seq(Names) /\ Len(v) \in Nat /\ Len(v) >= 1
    BY <2>1 DEF Linked
  <2>3. \A k \in 1..Len(v) : k <= Len(w) => v[k] = w[k]
    BY <2>1, SameWay
  <2>4. ~(Len(v) < Len(w))
    <3> SUFFICES ASSUME Len(v) < Len(w) PROVE FALSE
      OBVIOUS
    <3>1. v[Len(v)] = w[Len(v)] /\ Len(v) \in 1..(Len(w) - 1)
      BY <1>1, <2>2, <2>3
    <3>2. QED
      BY <2>1, <3>1 DEF Linked
  <2>5. ~(Len(w) < Len(v))
    <3> SUFFICES ASSUME Len(w) < Len(v) PROVE FALSE
      OBVIOUS
    <3>1. v[Len(w)] = w[Len(w)] /\ Len(w) \in 1..(Len(v) - 1)
      BY <1>1, <2>2, <2>3
    <3>2. QED
      BY <2>1, <3>1 DEF Linked
  <2>6. Len(v) = Len(w) /\ \A k \in 1..Len(v) : v[k] = w[k]
    BY <1>1, <2>2, <2>3, <2>4, <2>5
  <2>7. QED
    BY <1>1, <2>2, <2>6, SeqEqual
<1>8. Chain(aliases, d) = w
  BY <1>6, <1>7 DEF Chain
<1>9. QED
  BY <1>6, <1>8 DEF Endless, EndOf

\* A chase that would come back to a name never ends.
LEMMA ComesBack ==
    ASSUME NEW aliases \in AliasTable, NEW d, NEW w, Linked(aliases, w, d),
           Cached(aliases, w[Len(w)]), aliases[w[Len(w)]].name \in ToSet(w)
    PROVE  Endless(aliases, d)
<1> SUFFICES ASSUME NEW v \in Chains(aliases, d) PROVE FALSE
  BY DEF Endless
<1>1. Linked(aliases, v, d) /\ ~Cached(aliases, v[Len(v)])
  BY ChainsAre
<1>2. /\ Len(v) \in Nat /\ Len(v) >= 1 /\ v \in Seq(Names)
      /\ Len(w) \in Nat /\ Len(w) >= 1 /\ w \in Seq(Names)
  BY <1>1 DEF Linked
<1>3. \A k \in 1..Len(v) : k <= Len(w) => v[k] = w[k]
  BY <1>1, SameWay
<1>4. Len(w) < Len(v)
  <2> SUFFICES ASSUME Len(v) <= Len(w) PROVE FALSE
    BY <1>2
  <2>1. v[Len(v)] = w[Len(v)]
    BY <1>2, <1>3
  <2>2. Len(v) # Len(w)
    BY <1>1, <2>1
  <2>3. Len(v) \in 1..(Len(w) - 1)
    BY <1>2, <2>2
  <2>4. QED
    BY <1>1, <2>1, <2>3 DEF Linked
<1>5. PICK p \in 1..Len(w) : w[p] = aliases[w[Len(w)]].name
  BY <1>2 DEF ToSet
<1>6. v[Len(w)] = w[Len(w)] /\ Len(w) \in 1..(Len(v) - 1) /\ v[p] = w[p]
  BY <1>2, <1>3, <1>4
<1>7. v[Len(w) + 1] = aliases[v[Len(w)]].name
  BY <1>1, <1>6 DEF Linked
<1>8. p \in 1..Len(v) /\ Len(w) + 1 \in 1..Len(v) /\ p < Len(w) + 1 /\ v[p] = v[Len(w) + 1]
  BY <1>2, <1>4, <1>5, <1>6, <1>7
<1>9. Cached(aliases, v[Len(v)])
  BY <1>1, <1>8, Periodic
<1>10. QED
  BY <1>1, <1>9

\* A chase that may go on goes on.
LEMMA GoesOn ==
    ASSUME NEW aliases \in AliasTable, NEW d, NEW w, Linked(aliases, w, d),
           Cached(aliases, w[Len(w)])
    PROVE  /\ aliases[w[Len(w)]].name \in Names
           /\ Linked(aliases, Append(w, aliases[w[Len(w)]].name), d)
           /\ Distinct(w) /\ aliases[w[Len(w)]].name \notin ToSet(w) =>
                 Distinct(Append(w, aliases[w[Len(w)]].name))
<1> DEFINE target == aliases[w[Len(w)]].name
           longer == Append(w, target)
<1>1. w \in Seq(Names) /\ Len(w) \in Nat /\ Len(w) >= 1
  BY DEF Linked
<1>2. w[Len(w)] \in Names
  BY <1>1
<1>3. target \in Names
  BY <1>2 DEF AliasTable, Alias, Cached
<1> HIDE DEF target
<1>4. /\ longer \in Seq(Names) /\ longer # <<>> /\ Len(longer) = Len(w) + 1
      /\ \A i \in 1..Len(w) : longer[i] = w[i]
      /\ longer[Len(w) + 1] = target
  BY <1>1, <1>3, AppendProperties
<1> HIDE DEF longer
<1>5. longer[1] = d
  BY <1>1, <1>4 DEF Linked
<1>6. ASSUME NEW k \in 1..(Len(longer) - 1)
      PROVE  Cached(aliases, longer[k]) /\ longer[k + 1] = aliases[longer[k]].name
  <2>1. k \in 1..Len(w) /\ longer[k] = w[k]
    BY <1>1, <1>4
  <2>2. CASE k = Len(w)
    BY <1>4, <2>1, <2>2 DEF target
  <2>3. CASE k # Len(w)
    <3>1. k \in 1..(Len(w) - 1) /\ k + 1 \in 1..Len(w)
      BY <1>1, <2>1, <2>3
    <3>2. QED
      BY <1>4, <2>1, <3>1 DEF Linked
  <2>4. QED
    BY <2>2, <2>3
<1>7. Linked(aliases, longer, d)
  BY <1>4, <1>5, <1>6 DEF Linked
<1>8. ASSUME Distinct(w), target \notin ToSet(w) PROVE Distinct(longer)
  <2>1. \A i \in 1..Len(w) : w[i] # target
    BY <1>1, <1>8 DEF ToSet
  <2>2. QED
    BY <1>1, <1>4, <1>8, <2>1 DEF Distinct
<1>9. QED
  BY <1>3, <1>7, <1>8 DEF target, longer

\* A chase is never longer than the chain, and what it has is the start of it.
LEMMA WithinChain ==
    ASSUME NEW aliases \in AliasTable, NEW d \in Names, NEW w,
           Linked(aliases, w, d), ~Endless(aliases, d)
    PROVE  /\ Len(w) <= Len(Chain(aliases, d))
           /\ ~Cached(aliases, w[Len(w)]) => w = Chain(aliases, d)
<1> DEFINE v == Chain(aliases, d)
<1>1. v \in Chains(aliases, d)
  BY ChainType
<1> HIDE DEF v
<1>2. Linked(aliases, v, d) /\ ~Cached(aliases, v[Len(v)])
  BY <1>1, ChainsAre
<1>3. /\ Len(v) \in Nat /\ Len(v) >= 1 /\ v \in Seq(Names)
      /\ Len(w) \in Nat /\ Len(w) >= 1 /\ w \in Seq(Names)
  BY <1>2 DEF Linked
<1>4. \A k \in 1..Len(v) : k <= Len(w) => v[k] = w[k]
  BY <1>2, SameWay
<1>5. Len(w) <= Len(v)
  <2> SUFFICES ASSUME Len(v) < Len(w) PROVE FALSE
    BY <1>3
  <2>1. v[Len(v)] = w[Len(v)] /\ Len(v) \in 1..(Len(w) - 1)
    BY <1>3, <1>4
  <2>2. QED
    BY <1>2, <2>1 DEF Linked
<1>6. ASSUME ~Cached(aliases, w[Len(w)]) PROVE w = v
  <2>1. ~(Len(w) < Len(v))
    <3> SUFFICES ASSUME Len(w) < Len(v) PROVE FALSE
      OBVIOUS
    <3>1. v[Len(w)] = w[Len(w)] /\ Len(w) \in 1..(Len(v) - 1)
      BY <1>3, <1>4
    <3>2. QED
      BY <1>2, <1>6, <3>1 DEF Linked
  <2>2. Len(v) = Len(w) /\ \A k \in 1..Len(v) : v[k] = w[k]
    BY <1>3, <1>4, <1>5, <2>1
  <2>3. QED
    BY <1>3, <2>2, SeqEqual
<1>7. QED
  BY <1>5, <1>6 DEF v

-----------------------------------------------------------------------------
(* Questions *)

\* A question that hits has a chain to a name, and there the entries it needs.
LEMMA HitType ==
    ASSUME NEW t, TablesOK(t), NEW q \in Question, Hit(t, q), Chases(q)
    PROVE  /\ ~Endless(t.cname, q.name)
           /\ Chain(t.cname, q.name) \in Seq(Names)
           /\ Len(Chain(t.cname, q.name)) \in Nat \ {0}
           /\ EndOf(t.cname, q.name) \in Names
           /\ q.type = "A" => t.ipv4[EndOf(t.cname, q.name)] \in Entry(IPv4)
           /\ q.type = "AAAA" => t.ipv6[EndOf(t.cname, q.name)] \in Entry(IPv6)
<1> DEFINE w == Chain(t.cname, q.name)
           n == EndOf(t.cname, q.name)
<1>1. ~Endless(t.cname, q.name)
  BY DEF Hit, Hanging
<1>2. w \in Seq(Names) /\ Len(w) >= 1 /\ n \in Names
  BY <1>1, ChainType DEF TablesOK, Question
<1> HIDE DEF w, n
<1>3. Len(w) \in Nat \ {0}
  BY <1>2
<1>4. ASSUME q.type = "A" PROVE t.ipv4[n] \in Entry(IPv4)
  <2>1. t.ipv4[n] # NULL
    BY <1>4 DEF Hit, Missing, Cached, n
  <2>2. QED
    BY <1>2, <2>1 DEF TablesOK, AddressTable
<1>5. ASSUME q.type = "AAAA" PROVE t.ipv6[n] \in Entry(IPv6)
  <2>1. t.ipv6[n] # NULL
    BY <1>5 DEF Hit, Missing, Cached, n
  <2>2. QED
    BY <1>2, <2>1 DEF TablesOK, AddressTable
<1>6. QED
  BY <1>1, <1>2, <1>3, <1>4, <1>5 DEF w, n

LEMMA CostType ==
    ASSUME NEW t, TablesOK(t), NEW q \in Question
    PROVE  Cost(t, q) \in Nat
<1>1. CASE ~(Chases(q) /\ Hit(t, q))
  BY <1>1 DEF Cost
<1>2. CASE Chases(q) /\ Hit(t, q)
  <2> DEFINE n == EndOf(t.cname, q.name)
             l == Len(Chain(t.cname, q.name))
  <2>1. l \in Nat \ {0}
    BY <1>2, HitType
  <2>2. q.type = "A" => Len(t.ipv4[n].node) \in Nat
    BY <1>2, HitType DEF Entry
  <2>3. q.type = "AAAA" => Len(t.ipv6[n].node) \in Nat
    BY <1>2, HitType DEF Entry
  <2>4. Cost(t, q) = l - 1 + CASE q.type = "A"     -> Len(t.ipv4[n].node)
                               [] q.type = "AAAA"  -> Len(t.ipv6[n].node)
                               [] q.type = "CNAME" -> 0
    BY <1>2 DEF Cost
  <2>5. q.type = "A" \/ q.type = "AAAA" \/ q.type = "CNAME"
    BY <1>2 DEF Chases, Question, QTypes
  <2> HIDE DEF n, l
  <2>6. QED
    BY <2>1, <2>2, <2>3, <2>4, <2>5
<1>3. QED
  BY <1>1, <1>2

\* The totals add one cost after the other, and never go down.
LEMMA TotalAdds ==
    ASSUME NEW t, TablesOK(t), NEW qs \in QuerySeqs
    PROVE  /\ Total(t, qs)[0] = 0
           /\ \A n \in 0..(Len(qs) - 1) : Total(t, qs)[n + 1] = Total(t, qs)[n] + Cost(t, qs[n + 1])
           /\ \A n \in 0..Len(qs) : Total(t, qs)[n] \in Nat /\ Total(t, qs)[n] <= Total(t, qs)[Len(qs)]
<1> DEFINE len == Len(qs)
           cost == [j \in 1..len |-> Cost(t, qs[j])]
           IsSum(m, f) == f = [n \in 0..m |-> IF n = 0 THEN 0 ELSE f[n - 1] + Cost(t, qs[n])]
           S == {m \in Nat : \E f : IsSum(m, f)}
<1>0. len \in Nat /\ \A j \in 1..len : Cost(t, qs[j]) \in Nat
  BY QuestionType, CostType
<1>1. 0 \in S
  <2>1. IsSum(0, [n \in 0..0 |-> 0])
    OBVIOUS
  <2>2. QED
    BY <2>1
<1>2. ASSUME NEW m \in Nat, m \in S PROVE m + 1 \in S
  <2>1. PICK f : IsSum(m, f)
    BY <1>2
  <2> DEFINE g == [n \in 0..(m + 1) |-> IF n = 0 THEN 0 ELSE f[n - 1] + Cost(t, qs[n])]
  <2>2. \A n \in 0..m : g[n] = f[n]
    BY <2>1
  <2>3. \A n \in 0..(m + 1) : g[n] = IF n = 0 THEN 0 ELSE g[n - 1] + Cost(t, qs[n])
    <3>1. \A n \in 0..(m + 1) : n # 0 => n - 1 \in 0..m
      OBVIOUS
    <3>2. \A n \in 0..(m + 1) : g[n] = IF n = 0 THEN 0 ELSE f[n - 1] + Cost(t, qs[n])
      OBVIOUS
    <3> HIDE DEF g
    <3>3. QED
      BY <2>2, <3>1, <3>2
  <2>4. IsSum(m + 1, g)
    BY <2>3
  <2> HIDE DEF g, IsSum
  <2>5. \E h : IsSum(m + 1, h)
    BY <2>4
  <2>6. QED
    BY <2>5
<1> HIDE DEF S
<1>3. len \in S
  BY <1>0, <1>1, <1>2, EveryNatural
<1> DEFINE sum == CHOOSE f : IsSum(len, f)
<1>4. IsSum(len, sum)
  BY <1>3 DEF S
<1>5. Total(t, qs) = sum
  BY DEF Total
<1> HIDE DEF sum
<1>6. sum[0] = 0
  BY <1>0, <1>4
<1>7. ASSUME NEW n \in 0..(len - 1) PROVE sum[n + 1] = sum[n] + Cost(t, qs[n + 1])
  <2>1. n + 1 \in 0..len /\ n + 1 # 0 /\ (n + 1) - 1 = n
    BY <1>0
  <2>2. QED
    BY <1>4, <2>1
<1> HIDE DEF IsSum, len
<1> DEFINE N == {n \in Nat : n <= len => sum[n] \in Nat}
<1>8. 0 \in N
  BY <1>6
<1>9. ASSUME NEW n \in Nat, n \in N PROVE n + 1 \in N
  <2> SUFFICES ASSUME n + 1 <= len PROVE sum[n + 1] \in Nat
    OBVIOUS
  <2>1. n \in 0..(len - 1) /\ n + 1 \in 1..len /\ sum[n] \in Nat
    BY <1>0, <1>9
  <2>2. QED
    BY <1>0, <1>7, <2>1
<1> HIDE DEF N
<1>10. Nat \subseteq N
  BY <1>8, <1>9, EveryNatural
<1>11. \A n \in 0..len : sum[n] \in Nat
  BY <1>0, <1>10 DEF N
<1> DEFINE M == {k \in Nat : k <= len => sum[len - k] <= sum[len]}
<1>12. 0 \in M
  BY <1>0, <1>11
<1>13. ASSUME NEW k \in Nat, k \in M PROVE k + 1 \in M
  <2> SUFFICES ASSUME k + 1 <= len PROVE sum[len - (k + 1)] <= sum[len]
    OBVIOUS
  <2> DEFINE n == len - (k + 1)
  <2>1. n \in 0..(len - 1) /\ n + 1 = len - k /\ n + 1 \in 1..len /\ n \in 0..len /\ k <= len
    BY <1>0
  <2>2. sum[n + 1] <= sum[len]
    BY <1>13, <2>1
  <2> HIDE DEF n
  <2>3. sum[n + 1] = sum[n] + Cost(t, qs[n + 1]) /\ sum[n] \in Nat /\ Cost(t, qs[n + 1]) \in Nat
    BY <1>0, <1>7, <1>11, <2>1
  <2>4. len \in 0..len /\ sum[len] \in Nat
    BY <1>0, <1>11
  <2>5. sum[n] <= sum[len]
    BY <2>2, <2>3, <2>4
  <2>6. QED
    BY <2>5 DEF n
<1> HIDE DEF M
<1>14. Nat \subseteq M
  BY <1>12, <1>13, EveryNatural
<1>15. ASSUME NEW n \in 0..len PROVE sum[n] <= sum[len]
  <2>1. len - n \in Nat /\ len - (len - n) = n /\ len - n <= len
    BY <1>0
  <2>2. len - n \in M
    BY <1>14, <2>1
  <2>3. QED
    BY <2>1, <2>2 DEF M
<1>16. QED
  BY <1>5, <1>6, <1>7, <1>11, <1>15 DEF len

\* The entry a question looks into is added to those of the questions before.
LEMMA LookupsAdd ==
    ASSUME NEW t, NEW qs, NEW k \in Nat \ {0}, NEW n
    PROVE  n \in Lookups(t, qs, k) <=>
              \/ n \in Lookups(t, qs, k - 1)
              \/ qs[k].type = "A" /\ Hit(t, qs[k]) /\ n = EndOf(t.cname, qs[k].name)
<1>1. \A j : j \in 1..k <=> j \in 1..(k - 1) \/ j = k
  OBVIOUS
<1>2. QED
  BY <1>1 DEF Lookups

\* What a pass looks into are addresses that are there.
LEMMA LookupsType ==
    ASSUME NEW t, TablesOK(t), NEW qs \in QuerySeqs, NEW k \in 0..Len(qs),
           NEW n \in Lookups(t, qs, k)
    PROVE  n \in Names /\ t.ipv4[n] \in Entry(IPv4)
<1>1. PICK j \in 1..k : qs[j].type = "A" /\ Hit(t, qs[j]) /\ n = EndOf(t.cname, qs[j].name)
  BY DEF Lookups
<1>2. j \in DOMAIN qs /\ qs[j] \in Question
  BY QuestionType
<1>3. Chases(qs[j])
  BY <1>1 DEF Chases
<1>4. QED
  BY <1>1, <1>2, <1>3, HitType

\* A chase of a question that has ended shows whether the question hits.
LEMMA ChaseShows ==
    ASSUME NEW t, TablesOK(t), NEW q \in Question, NEW w, Linked(t.cname, w, q.name),
           Distinct(w), Chases(q), ~Cached(t.cname, w[Len(w)])
    PROVE  /\ ~Hanging(t, q)
           /\ Chain(t.cname, q.name) = w
           /\ EndOf(t.cname, q.name) = w[Len(w)]
           /\ Cached(t.cname, q.name) <=> Len(w) > 1
<1>1. /\ ~Endless(t.cname, q.name)
      /\ Chain(t.cname, q.name) = w
      /\ EndOf(t.cname, q.name) = w[Len(w)]
  BY EndedIsChain
<1>2. Len(w) \in Nat /\ Len(w) >= 1 /\ w[1] = q.name
  BY DEF Linked
<1>3. Len(w) = 1 => ~Cached(t.cname, q.name)
  BY <1>2
<1>4. Len(w) > 1 => Cached(t.cname, q.name)
  <2> SUFFICES ASSUME Len(w) > 1 PROVE Cached(t.cname, w[1])
    BY <1>2
  <2>1. 1 \in 1..(Len(w) - 1)
    BY <1>2
  <2>2. QED
    BY <2>1 DEF Linked
<1>5. Len(w) = 1 \/ Len(w) > 1
  <2>1. \A m \in Nat : m >= 1 => m = 1 \/ m > 1
    OBVIOUS
  <2>2. QED
    BY <1>2, <2>1
<1>6. ~Hanging(t, q)
  BY <1>1 DEF Hanging
<1>7. Cached(t.cname, q.name) <=> Len(w) > 1
  BY <1>3, <1>4, <1>5
<1>8. QED
  BY <1>1, <1>6, <1>7

-----------------------------------------------------------------------------
(* The locals of bind_socket_read *)

LEMMA PlaceType ==
    ASSUME NEW fr, NEW t, PlaceOK(fr, t)
    PROVE  /\ fr.feature \in Feature /\ fr.client \in Clients
           /\ fr.feature.queries \in QuerySeqs
           /\ Len(fr.feature.queries) \in Nat
           /\ DOMAIN fr.feature.queries = 1..Len(fr.feature.queries)
           /\ fr.i \in Nat /\ fr.i >= 1
           /\ fr.i \in DOMAIN fr.feature.queries <=> fr.i <= Len(fr.feature.queries)
           /\ fr.i \notin DOMAIN fr.feature.queries => fr.i = Len(fr.feature.queries) + 1
           /\ \A j \in 1..Len(fr.feature.queries) : fr.feature.queries[j] \in Question
           /\ fr.walk \in Seq(Names)
           /\ fr.i <= Len(fr.feature.queries) =>
                /\ Len(fr.walk) \in Nat /\ Len(fr.walk) >= 1
                /\ fr.walk[Len(fr.walk)] \in Names
                /\ Last(fr.walk) = fr.walk[Len(fr.walk)]
                /\ Linked(t.cname, fr.walk, fr.feature.queries[fr.i].name)
<1> DEFINE qs == fr.feature.queries
<1>1. fr \in ReceiveLocals /\ fr.i \in 1..(Len(qs) + 1)
  BY DEF PlaceOK
<1>2. fr.feature \in Feature /\ fr.client \in Clients /\ fr.walk \in Seq(Names)
  BY <1>1 DEF ReceiveLocals
<1>3. qs \in QuerySeqs
  BY <1>2 DEF Feature
<1> HIDE DEF qs
<1>4. Len(qs) \in Nat /\ DOMAIN qs = 1..Len(qs) /\ \A j \in 1..Len(qs) : qs[j] \in Question
  BY <1>3, QuestionType
<1>5. /\ fr.i \in Nat /\ fr.i >= 1
      /\ fr.i \in DOMAIN qs <=> fr.i <= Len(qs)
      /\ fr.i \notin DOMAIN qs => fr.i = Len(qs) + 1
  BY <1>1, <1>4
<1>6. ASSUME fr.i <= Len(qs)
      PROVE  /\ Len(fr.walk) \in Nat /\ Len(fr.walk) >= 1
             /\ fr.walk[Len(fr.walk)] \in Names
             /\ Last(fr.walk) = fr.walk[Len(fr.walk)]
             /\ Linked(t.cname, fr.walk, qs[fr.i].name)
  <2>1. Linked(t.cname, fr.walk, qs[fr.i].name)
    BY <1>6 DEF PlaceOK, qs
  <2>2. Len(fr.walk) \in Nat /\ Len(fr.walk) >= 1
    BY <1>2, <2>1 DEF Linked
  <2>3. fr.walk[Len(fr.walk)] \in Names
    BY <1>2, <2>2
  <2>4. QED
    BY <2>1, <2>2, <2>3 DEF Last
<1>7. QED
  BY <1>2, <1>3, <1>4, <1>5, <1>6 DEF qs

\* The chase for a question, or none past the last, starts without a step.
LEMMA Starts ==
    ASSUME NEW aliases, NEW qs \in QuerySeqs, NEW n \in 1..(Len(qs) + 1)
    PROVE  /\ Start(qs, n) \in Seq(Names)
           /\ Steps(Start(qs, n)) = 0
           /\ Distinct(Start(qs, n))
           /\ generate_cname_response(Start(qs, n)) = {}
           /\ n = Len(qs) + 1 => Start(qs, n) = <<>>
           /\ n <= Len(qs) =>
                 Linked(aliases, Start(qs, n), qs[n].name) /\ Len(Start(qs, n)) = 1
<1>1. Len(qs) \in Nat /\ DOMAIN qs = 1..Len(qs) /\ \A j \in DOMAIN qs : qs[j].name \in Names
  BY QuestionType
<1>2. CASE n <= Len(qs)
  <2> DEFINE w == <<qs[n].name>>
  <2>1. n \in DOMAIN qs /\ n # Len(qs) + 1
    BY <1>1, <1>2
  <2>2. Start(qs, n) = w
    BY <2>1 DEF Start
  <2>3. w \in Seq(Names) /\ Len(w) = 1 /\ w # <<>> /\ w[1] = qs[n].name
    BY <1>1, <2>1
  <2> HIDE DEF w
  <2>4. Linked(aliases, w, qs[n].name) /\ Distinct(w) /\ Steps(w) = 0
    BY <2>3 DEF Linked, Distinct, Steps
  <2>5. generate_cname_response(w) = {}
    BY <2>3 DEF generate_cname_response
  <2>6. QED
    BY <2>1, <2>2, <2>3, <2>4, <2>5
<1>3. CASE ~(n <= Len(qs))
  <2>1. n \notin DOMAIN qs
    BY <1>1, <1>3
  <2>2. Start(qs, n) = <<>>
    BY <2>1 DEF Start
  <2>3. <<>> \in Seq(Names) /\ Len(<<>>) = 0
    OBVIOUS
  <2>4. Distinct(<<>>) /\ Steps(<<>>) = 0 /\ generate_cname_response(<<>>) = {}
    BY <2>3 DEF Distinct, Steps, generate_cname_response
  <2>5. QED
    BY <1>3, <2>2, <2>3, <2>4
<1>4. QED
  BY <1>2, <1>3

\* From a question to the next.
LEMMA PlaceNext ==
    ASSUME NEW fr, NEW t, PlaceOK(fr, t), fr.i <= Len(fr.feature.queries),
           NEW fr2 \in ReceiveLocals, fr2.feature = fr.feature,
           fr2.i = fr.i + 1, fr2.walk = Start(fr.feature.queries, fr.i + 1)
    PROVE  /\ PlaceOK(fr2, t)
           /\ Distinct(fr2.walk)
           /\ Steps(fr2.walk) = 0
           /\ generate_cname_response(fr2.walk) = {}
<1> DEFINE qs == fr.feature.queries
<1>1. qs \in QuerySeqs /\ Len(qs) \in Nat /\ fr.i \in Nat /\ fr.i >= 1
  BY PlaceType
<1> HIDE DEF qs
<1>2. fr.i + 1 \in 1..(Len(qs) + 1)
  BY <1>1 DEF qs
<1>3. /\ fr2.feature.queries = qs /\ fr2.walk = Start(qs, fr2.i)
      /\ fr2.i \in 1..(Len(qs) + 1)
  BY <1>2 DEF qs
<1>4. /\ Steps(fr2.walk) = 0 /\ Distinct(fr2.walk) /\ generate_cname_response(fr2.walk) = {}
      /\ fr2.i = Len(qs) + 1 => fr2.walk = <<>>
      /\ fr2.i <= Len(qs) => Linked(t.cname, fr2.walk, qs[fr2.i].name) /\ Len(fr2.walk) = 1
  <2> DEFINE n == fr2.i
             w == Start(qs, n)
  <2>1. n \in 1..(Len(qs) + 1)
    BY <1>3
  <2> HIDE DEF n
  <2>2. /\ Steps(w) = 0 /\ Distinct(w) /\ generate_cname_response(w) = {}
        /\ n = Len(qs) + 1 => w = <<>>
        /\ n <= Len(qs) => Linked(t.cname, w, qs[n].name) /\ Len(w) = 1
    BY <1>1, <2>1, Starts
  <2>3. fr2.walk = w
    BY <1>3 DEF n
  <2> HIDE DEF w
  <2>4. QED
    BY <2>2, <2>3 DEF n
<1>5. QED
  BY <1>3, <1>4 DEF PlaceOK

\* The first pass at a hit: the total grows by what the hit costs.
LEMMA CountHit ==
    ASSUME NEW fr, NEW t, TablesOK(t), PlaceOK(fr, t), fr.i <= Len(fr.feature.queries),
           CountingOK(fr, t), fr.cached,
           Hit(t, fr.feature.queries[fr.i]),
           NEW fr2 \in ReceiveLocals, fr2.feature = fr.feature, fr2.pc = fr.pc,
           fr2.i = fr.i + 1, fr2.walk = Start(fr.feature.queries, fr.i + 1),
           fr2.cached, fr2.answers = fr.answers,
           fr2.banned <=>
              \/ fr.banned
              \/ /\ fr.feature.queries[fr.i].type = "A"
                 /\ ZeroFirst(t.ipv4[EndOf(t.cname, fr.feature.queries[fr.i].name)]),
           ~fr2.banned => fr2.answer_count + Steps(fr.walk)
                             = fr.answer_count + Cost(t, fr.feature.queries[fr.i])
    PROVE  PlaceOK(fr2, t) /\ CountingOK(fr2, t)
<1> DEFINE qs == fr.feature.queries
           q == qs[fr.i]
<1>1. /\ qs \in QuerySeqs /\ Len(qs) \in Nat /\ fr.i \in Nat /\ fr.i >= 1
      /\ q \in Question /\ fr.i <= Len(qs)
  BY PlaceType
<1>2. PlaceOK(fr2, t) /\ Distinct(fr2.walk) /\ Steps(fr2.walk) = 0
  BY PlaceNext
<1>3. fr2.feature.queries = qs /\ fr2.i - 1 = fr.i
  BY <1>1
<1>4. /\ fr.answer_count \in Nat /\ fr2.answer_count \in Nat
      /\ fr.cached \in BOOLEAN /\ fr.banned \in BOOLEAN /\ fr2.banned \in BOOLEAN
  BY DEF ReceiveLocals, PlaceOK
<1>5. /\ \A j \in 1..(fr.i - 1) : Hit(t, qs[j])
      /\ fr.banned <=> \E n \in Lookups(t, qs, fr.i - 1) : ZeroFirst(t.ipv4[n])
      /\ ~fr.banned => fr.answer_count = Total(t, qs)[fr.i - 1] + Steps(fr.walk)
  BY DEF CountingOK
<1>6. Hit(t, q) /\ (fr2.banned <=> fr.banned \/ (q.type = "A" /\ ZeroFirst(t.ipv4[EndOf(t.cname, q.name)])))
  OBVIOUS
<1>7. ~fr2.banned => fr2.answer_count + Steps(fr.walk) = fr.answer_count + Cost(t, q)
  OBVIOUS
<1>8. /\ Total(t, qs)[fr.i] = Total(t, qs)[fr.i - 1] + Cost(t, q)
      /\ Total(t, qs)[fr.i - 1] \in Nat /\ Cost(t, q) \in Nat
  <2>1. fr.i - 1 \in 0..(Len(qs) - 1) /\ (fr.i - 1) + 1 = fr.i /\ fr.i - 1 \in 0..Len(qs)
    BY <1>1
  <2> HIDE DEF qs
  <2>2. \A n \in 0..(Len(qs) - 1) : Total(t, qs)[n + 1] = Total(t, qs)[n] + Cost(t, qs[n + 1])
    BY <1>1, TotalAdds
  <2>3. \A n \in 0..Len(qs) : Total(t, qs)[n] \in Nat
    BY <1>1, TotalAdds
  <2>4. Cost(t, q) \in Nat
    BY <1>1, CostType
  <2>5. QED
    BY <2>1, <2>2, <2>3, <2>4
<1>9. Steps(fr.walk) \in Nat
  BY PlaceType DEF Steps
<1> HIDE DEF q, qs
<1>10. \A j \in 1..(fr2.i - 1) : Hit(t, fr2.feature.queries[j])
  <2>1. \A j \in 1..fr.i : j \in 1..(fr.i - 1) \/ j = fr.i
    BY <1>1
  <2>2. QED
    BY <1>3, <1>5, <1>6, <2>1 DEF q
<1>11. fr2.banned <=> \E n \in Lookups(t, qs, fr.i) : ZeroFirst(t.ipv4[n])
  <2>1. fr.i \in Nat \ {0}
    BY <1>1
  <2>2. \A n : n \in Lookups(t, qs, fr.i) <=>
              \/ n \in Lookups(t, qs, fr.i - 1)
              \/ qs[fr.i].type = "A" /\ Hit(t, qs[fr.i]) /\ n = EndOf(t.cname, qs[fr.i].name)
    BY <2>1, LookupsAdd
  <2>3. qs[fr.i] = q /\ Hit(t, q)
    BY <1>6 DEF q
  <2> DEFINE e == EndOf(t.cname, q.name)
  <2>4. \A n : n \in Lookups(t, qs, fr.i) <=>
              n \in Lookups(t, qs, fr.i - 1) \/ (q.type = "A" /\ n = e)
    BY <2>2, <2>3
  <2>5. fr2.banned <=> fr.banned \/ (q.type = "A" /\ ZeroFirst(t.ipv4[e]))
    BY <1>6
  <2> HIDE DEF e, q
  <2>6. QED
    BY <1>5, <2>4, <2>5, Zenon
<1>12. ~fr2.banned => fr2.answer_count = Total(t, qs)[fr.i] + 0
  <2> SUFFICES ASSUME ~fr2.banned PROVE fr2.answer_count = Total(t, qs)[fr.i] + 0
    OBVIOUS
  <2>1. ~fr.banned
    BY <1>6
  <2>2. fr.answer_count = Total(t, qs)[fr.i - 1] + Steps(fr.walk)
    BY <1>5, <2>1
  <2>3. fr2.answer_count + Steps(fr.walk) = fr.answer_count + Cost(t, q)
    BY <1>7
  <2>4. \A a, b, c, x, y \in Nat : a + x = b + y /\ b = c + x => a = (c + y) + 0
    OBVIOUS
  <2> DEFINE a == fr2.answer_count
             b == fr.answer_count
             c == Total(t, qs)[fr.i - 1]
             x == Steps(fr.walk)
             y == Cost(t, q)
  <2>5. a \in Nat /\ b \in Nat /\ c \in Nat /\ x \in Nat /\ y \in Nat
    BY <1>4, <1>8, <1>9
  <2>6. a + x = b + y /\ b = c + x /\ Total(t, qs)[fr.i] = c + y
    BY <1>8, <2>2, <2>3
  <2> HIDE DEF a, b, c, x, y
  <2>7. a = Total(t, qs)[fr.i] + 0
    BY <2>4, <2>5, <2>6
  <2>8. QED
    BY <2>7 DEF a
<1>13. fr2.answers = <<>>
  BY DEF CountingOK
<1>14. QED
  BY <1>2, <1>3, <1>10, <1>11, <1>12, <1>13 DEF CountingOK

\* The first pass at a miss: it is over.
LEMMA CountMiss ==
    ASSUME NEW fr, NEW t, PlaceOK(fr, t), fr.i <= Len(fr.feature.queries),
           CountingOK(fr, t), fr.cached,
           ~Hanging(t, fr.feature.queries[fr.i]), Missing(t, fr.feature.queries[fr.i]),
           NEW fr2 \in ReceiveLocals, fr2.feature = fr.feature, fr2.pc = fr.pc,
           fr2.i = fr.i + 1, fr2.walk = Start(fr.feature.queries, fr.i + 1),
           ~fr2.cached, fr2.banned = fr.banned, fr2.answers = fr.answers
    PROVE  PlaceOK(fr2, t) /\ CountingOK(fr2, t)
<1> DEFINE qs == fr.feature.queries
<1>1. Len(qs) \in Nat /\ fr.i \in Nat /\ fr.i >= 1
  BY PlaceType
<1>2. PlaceOK(fr2, t) /\ Distinct(fr2.walk)
  BY PlaceNext
<1>3. fr2.feature.queries = qs /\ fr2.i - 1 = fr.i /\ fr2.i - 2 = fr.i - 1 /\ fr2.i >= 2
  BY <1>1
<1>4. /\ \A j \in 1..(fr.i - 1) : Hit(t, qs[j])
      /\ fr.banned <=> \E n \in Lookups(t, qs, fr.i - 1) : ZeroFirst(t.ipv4[n])
  BY DEF CountingOK
<1>5. ~Hanging(t, qs[fr.i]) /\ Missing(t, qs[fr.i])
  OBVIOUS
<1> HIDE DEF qs
<1>6. \A n : n \in Lookups(t, qs, fr.i) <=> n \in Lookups(t, qs, fr.i - 1)
  <2>1. fr.i \in Nat \ {0} /\ ~Hit(t, qs[fr.i])
    BY <1>1, <1>5 DEF Hit
  <2>2. QED
    BY <2>1, LookupsAdd
<1>7. fr2.banned <=> \E n \in Lookups(t, qs, fr.i) : ZeroFirst(t.ipv4[n])
  BY <1>4, <1>6
<1>8. fr2.answers = <<>>
  BY DEF CountingOK
<1>9. QED
  BY <1>2, <1>3, <1>4, <1>5, <1>7, <1>8 DEF CountingOK

\* A step of the chase is one more, and stands for one more record.
LEMMA StepMore ==
    ASSUME NEW w \in Seq(Names), Len(w) >= 1, NEW x \in Names
    PROVE  /\ Steps(Append(w, x)) = Steps(w) + 1 /\ Steps(w) \in Nat
           /\ generate_cname_response(Append(w, x)) =
                 generate_cname_response(w)
                    \cup {[type |-> "CNAME", name |-> w[Len(w)], data |-> x]}
<1> DEFINE longer == Append(w, x)
           rr(v, k) == [type |-> "CNAME", name |-> v[k], data |-> v[k + 1]]
           m == Len(w)
<1>1. /\ longer # <<>> /\ Len(longer) = m + 1 /\ m \in Nat /\ w # <<>> /\ m >= 1
      /\ \A i \in 1..m : longer[i] = w[i]
      /\ longer[m + 1] = x
  BY AppendProperties
<1> HIDE DEF longer
<1>2. Steps(longer) = Steps(w) + 1 /\ Steps(w) \in Nat
  BY <1>1 DEF Steps
<1>3. /\ \A k \in 1..(m - 1) : rr(longer, k) = rr(w, k)
      /\ rr(longer, m) = [type |-> "CNAME", name |-> w[m], data |-> x]
  <2>1. \A k \in 1..(m - 1) : k \in 1..m /\ k + 1 \in 1..m
    BY <1>1
  <2>2. m \in 1..m
    BY <1>1
  <2>3. QED
    BY <1>1, <2>1, <2>2
<1>4. (m + 1) - 1 = m /\ \A k : k \in 1..m <=> k \in 1..(m - 1) \/ k = m
  BY <1>1
<1>5. generate_cname_response(longer) = {rr(longer, k) : k \in 1..m}
  BY <1>1, <1>4 DEF generate_cname_response
<1>6. generate_cname_response(w) = {rr(w, k) : k \in 1..(m - 1)}
  BY DEF generate_cname_response
<1> HIDE DEF rr, m
<1>7. {rr(longer, k) : k \in 1..m} = {rr(w, k) : k \in 1..(m - 1)} \cup {rr(longer, m)}
  BY <1>3, <1>4
<1>8. QED
  BY <1>2, <1>3, <1>5, <1>6, <1>7 DEF longer, m

\* Either pass follows an alias.
LEMMA PlaceStep ==
    ASSUME NEW fr, NEW t, TablesOK(t), PlaceOK(fr, t), fr.i <= Len(fr.feature.queries),
           Chases(fr.feature.queries[fr.i]),
           Cached(t.cname, Last(fr.walk)),
           NEW fr2 \in ReceiveLocals, fr2.feature = fr.feature, fr2.i = fr.i,
           fr2.walk = Append(fr.walk, t.cname[Last(fr.walk)].name)
    PROVE  /\ PlaceOK(fr2, t)
           /\ t.cname[Last(fr.walk)].name \in Names
           /\ Distinct(fr.walk) /\ t.cname[Last(fr.walk)].name \notin ToSet(fr.walk) =>
                Distinct(fr2.walk)
<1> DEFINE w == fr.walk
           d == fr.feature.queries[fr.i].name
           target == t.cname[w[Len(w)]].name
<1>1. /\ Linked(t.cname, w, d) /\ Last(w) = w[Len(w)]
      /\ Len(fr.feature.queries) \in Nat /\ fr.i \in Nat
  BY PlaceType
<1>2. t.cname \in AliasTable /\ Cached(t.cname, w[Len(w)])
  BY <1>1 DEF TablesOK
<1>3. target \in Names /\ Linked(t.cname, Append(w, target), d)
      /\ (Distinct(w) /\ target \notin ToSet(w) => Distinct(Append(w, target)))
  BY <1>1, <1>2, GoesOn
<1>4. fr2.walk = Append(w, target)
  BY <1>1
<1>5. PlaceOK(fr2, t)
  <2>1. fr2.i \in 1..(Len(fr2.feature.queries) + 1) /\ fr2.i # Len(fr2.feature.queries) + 1
    BY <1>1 DEF PlaceOK
  <2>2. Linked(t.cname, fr2.walk, fr2.feature.queries[fr2.i].name)
    BY <1>3, <1>4
  <2>3. QED
    BY <2>1, <2>2 DEF PlaceOK
<1>6. QED
  BY <1>1, <1>3, <1>4, <1>5

LEMMA CountStep ==
    ASSUME NEW fr, NEW t, TablesOK(t), PlaceOK(fr, t), fr.i <= Len(fr.feature.queries),
           CountingOK(fr, t), fr.cached,
           Chases(fr.feature.queries[fr.i]),
           Cached(t.cname, Last(fr.walk)),
           t.cname[Last(fr.walk)].name \notin ToSet(fr.walk),
           NEW fr2 \in ReceiveLocals, fr2.feature = fr.feature, fr2.i = fr.i,
           fr2.walk = Append(fr.walk, t.cname[Last(fr.walk)].name),
           fr2.cached = fr.cached, fr2.banned = fr.banned, fr2.answers = fr.answers,
           fr2.answer_count = fr.answer_count + 1
    PROVE  PlaceOK(fr2, t) /\ CountingOK(fr2, t)
<1> DEFINE qs == fr.feature.queries
           w == fr.walk
           target == t.cname[Last(fr.walk)].name
<1>1. /\ qs \in QuerySeqs /\ Len(qs) \in Nat /\ fr.i \in Nat /\ fr.i >= 1 /\ fr.i <= Len(qs)
      /\ w \in Seq(Names) /\ Len(w) >= 1
  BY PlaceType
<1>2. Distinct(w)
  BY DEF CountingOK
<1>3. PlaceOK(fr2, t) /\ Distinct(fr2.walk) /\ target \in Names
  BY <1>2, PlaceStep
<1>4. Steps(fr2.walk) = Steps(w) + 1 /\ Steps(w) \in Nat
  <2>1. fr2.walk = Append(w, target)
    OBVIOUS
  <2> HIDE DEF target, w
  <2>2. QED
    BY <1>1, <1>3, <2>1, StepMore
<1>5. Total(t, qs)[fr.i - 1] \in Nat
  <2>1. fr.i - 1 \in 0..Len(qs)
    BY <1>1
  <2> HIDE DEF qs
  <2>2. QED
    BY <1>1, <2>1, TotalAdds
<1>6. fr2.cached /\ ~fr2.banned => fr2.answer_count = Total(t, qs)[fr.i - 1] + Steps(fr2.walk)
  <2> SUFFICES ASSUME ~fr.banned
               PROVE  fr.answer_count + 1 = Total(t, qs)[fr.i - 1] + (Steps(w) + 1)
    BY <1>4
  <2>1. fr.answer_count = Total(t, qs)[fr.i - 1] + Steps(w)
    BY DEF CountingOK
  <2> DEFINE a == fr.answer_count
             b == Total(t, qs)[fr.i - 1]
             c == Steps(w)
  <2>2. a \in Nat /\ b \in Nat /\ c \in Nat /\ a = b + c
    BY <1>4, <1>5, <2>1 DEF PlaceOK, ReceiveLocals
  <2> HIDE DEF a, b, c
  <2>3. a + 1 = b + (c + 1)
    BY <2>2
  <2>4. QED
    BY <2>3 DEF a, b, c
<1>7. QED
  BY <1>3, <1>6 DEF CountingOK

\* The first pass has counted what the second will write.
LEMMA Allocated ==
    ASSUME NEW fr, NEW t, TablesOK(t), PlaceOK(fr, t), fr.i = Len(fr.feature.queries) + 1,
           CountingOK(fr, t), fr.cached, ~fr.banned,
           NEW fr2 \in ReceiveLocals, fr2.feature = fr.feature, fr2.cached = fr.cached,
           fr2.room = fr.answer_count, fr2.answers = fr.answers,
           fr2.i = 1, fr2.walk = Start(fr.feature.queries, 1)
    PROVE  PlaceOK(fr2, t) /\ WritingOK(fr2, t)
<1> DEFINE qs == fr.feature.queries
           len == Len(qs)
<1>1. qs \in QuerySeqs /\ len \in Nat /\ fr.i = len + 1
  BY PlaceType
<1>2. /\ \A j \in 1..len : Hit(t, qs[j])
      /\ \A n \in Lookups(t, qs, len) : ~ZeroFirst(t.ipv4[n])
      /\ fr.answers = <<>>
      /\ fr.answer_count = Total(t, qs)[len] + Steps(fr.walk)
  <2>1. fr.i - 1 = len
    BY <1>1
  <2>2. QED
    BY <2>1 DEF CountingOK
<1>3. fr.walk = <<>> /\ Steps(fr.walk) = 0
  BY DEF PlaceOK, Steps
<1>4. /\ Total(t, qs)[0] = 0 /\ Total(t, qs)[len] \in Nat
  <2> HIDE DEF qs
  <2>1. len \in 0..len
    BY <1>1
  <2>2. QED
    BY <1>1, <2>1, TotalAdds
<1>5. 1 \in 1..(len + 1)
  BY <1>1
<1> DEFINE w == Start(qs, 1)
<1>6. /\ Steps(w) = 0 /\ generate_cname_response(w) = {}
      /\ 1 = len + 1 => w = <<>>
      /\ 1 <= len => Linked(t.cname, w, qs[1].name) /\ Len(w) = 1
  <2> HIDE DEF qs
  <2>1. QED
    BY <1>1, <1>5, Starts
<1>7. fr2.walk = w /\ fr2.i = 1 /\ fr2.feature.queries = qs
  OBVIOUS
<1> HIDE DEF w, len, qs
<1>8. PlaceOK(fr2, t)
  BY <1>5, <1>6, <1>7 DEF PlaceOK, len
<1>9. fr2.room = Total(t, qs)[len]
  BY <1>2, <1>3, <1>4
<1>10. Len(fr2.answers) = Total(t, qs)[fr2.i - 1] + Steps(fr2.walk)
  BY <1>2, <1>4, <1>6, <1>7
<1>11. ToSet(fr2.answers) = Generated(t, qs, fr2.i - 1) \cup generate_cname_response(fr2.walk)
  BY <1>2, <1>6, <1>7 DEF ToSet, Generated
<1>12. QED
  BY <1>2, <1>7, <1>8, <1>9, <1>10, <1>11 DEF WritingOK, len

\* Two lists of records, one after the other.
LEMMA ConcatSet ==
    ASSUME NEW S, NEW p \in Seq(S), NEW q \in Seq(S)
    PROVE  /\ p \o q \in Seq(S)
           /\ Len(p \o q) = Len(p) + Len(q) /\ Len(p) \in Nat /\ Len(q) \in Nat
           /\ ToSet(p \o q) = ToSet(p) \cup ToSet(q)
<1>1. /\ p \o q \in Seq(S) /\ Len(p) \in Nat /\ Len(q) \in Nat
      /\ DOMAIN p = 1..Len(p) /\ DOMAIN q = 1..Len(q) /\ DOMAIN (p \o q) = 1..Len(p \o q)
  BY ConcatProperties, LenProperties
<1>2. /\ Len(p \o q) = Len(p) + Len(q)
      /\ \A i \in 1..(Len(p) + Len(q)) :
            (p \o q)[i] = IF i <= Len(p) THEN p[i] ELSE q[i - Len(p)]
  BY ConcatProperties
<1> DEFINE r == p \o q
<1> HIDE DEF r
<1>3. ASSUME NEW x \in ToSet(p) \cup ToSet(q) PROVE x \in ToSet(r)
  <2>1. CASE x \in ToSet(p)
    <3>1. PICK i \in 1..Len(p) : x = p[i]
      BY <1>1, <2>1 DEF ToSet
    <3>2. i \in 1..(Len(p) + Len(q)) /\ i <= Len(p)
      BY <1>1
    <3>3. r[i] = x /\ i \in DOMAIN r
      BY <1>1, <1>2, <3>1, <3>2 DEF r
    <3>4. QED
      BY <3>3 DEF ToSet
  <2>2. CASE x \in ToSet(q)
    <3>1. PICK i \in 1..Len(q) : x = q[i]
      BY <1>1, <2>2 DEF ToSet
    <3> DEFINE j == Len(p) + i
    <3>2. j \in 1..(Len(p) + Len(q)) /\ ~(j <= Len(p)) /\ j - Len(p) = i
      BY <1>1
    <3> HIDE DEF j
    <3>3. r[j] = x /\ j \in DOMAIN r
      BY <1>1, <1>2, <3>1, <3>2 DEF r
    <3>4. QED
      BY <3>3 DEF ToSet
  <2>3. QED
    BY <2>1, <2>2
<1>4. ASSUME NEW x \in ToSet(r) PROVE x \in ToSet(p) \cup ToSet(q)
  <2>1. PICK i \in 1..(Len(p) + Len(q)) : x = r[i]
    BY <1>1, <1>2 DEF ToSet, r
  <2>2. CASE i <= Len(p)
    <3>1. i \in DOMAIN p /\ x = p[i]
      BY <1>1, <1>2, <2>1, <2>2 DEF r
    <3>2. QED
      BY <3>1 DEF ToSet
  <2>3. CASE ~(i <= Len(p))
    <3>1. i - Len(p) \in DOMAIN q /\ x = q[i - Len(p)]
      BY <1>1, <1>2, <2>1, <2>3 DEF r
    <3>2. QED
      BY <3>1 DEF ToSet
  <2>4. QED
    BY <2>2, <2>3
<1>5. ToSet(r) = ToSet(p) \cup ToSet(q)
  BY <1>3, <1>4
<1>6. QED
  BY <1>1, <1>2, <1>5 DEF r

\* The second pass writes an alias it follows.
LEMMA WriteStep ==
    ASSUME NEW fr, NEW t, TablesOK(t), PlaceOK(fr, t), fr.i <= Len(fr.feature.queries),
           WritingOK(fr, t),
           Chases(fr.feature.queries[fr.i]),
           Cached(t.cname, Last(fr.walk)),
           NEW fr2 \in ReceiveLocals, fr2.feature = fr.feature, fr2.i = fr.i,
           fr2.walk = Append(fr.walk, t.cname[Last(fr.walk)].name),
           fr2.cached = fr.cached, fr2.room = fr.room,
           fr2.answers = fr.answers \o
              <<[type |-> "CNAME", name |-> Last(fr.walk), data |-> t.cname[Last(fr.walk)].name]>>
    PROVE  PlaceOK(fr2, t) /\ WritingOK(fr2, t)
<1> DEFINE qs == fr.feature.queries
           w == fr.walk
           last == Last(fr.walk)
           target == t.cname[last].name
           rr == [type |-> "CNAME", name |-> last, data |-> target]
<1>1. /\ qs \in QuerySeqs /\ Len(qs) \in Nat /\ fr.i \in Nat /\ fr.i >= 1 /\ fr.i <= Len(qs)
      /\ w \in Seq(Names) /\ Len(w) >= 1 /\ last = w[Len(w)] /\ last \in Names
  BY PlaceType
<1>2. PlaceOK(fr2, t) /\ target \in Names
  BY PlaceStep
<1>3. fr2.walk = Append(w, target) /\ fr2.answers = fr.answers \o <<rr>>
  OBVIOUS
<1>4. fr.answers \in Seq(RR)
  BY DEF PlaceOK, ReceiveLocals
<1> HIDE DEF target, w, last
<1>5. /\ Steps(fr2.walk) = Steps(w) + 1 /\ Steps(w) \in Nat
      /\ generate_cname_response(fr2.walk) = generate_cname_response(w) \cup {rr}
  BY <1>1, <1>2, <1>3, StepMore
<1>6. rr \in RR
  BY <1>1, <1>2 DEF RR, CnameRR
<1> HIDE DEF rr
<1>7. <<rr>> \in Seq(RR) /\ Len(<<rr>>) = 1 /\ ToSet(<<rr>>) = {rr}
  BY <1>6 DEF ToSet
<1>8. /\ Len(fr2.answers) = Len(fr.answers) + 1
      /\ ToSet(fr2.answers) = ToSet(fr.answers) \cup {rr}
  <2> DEFINE one == <<rr>>
  <2>1. one \in Seq(RR) /\ Len(one) = 1 /\ ToSet(one) = {rr} /\ fr2.answers = fr.answers \o one
    BY <1>3, <1>7
  <2> HIDE DEF one
  <2>2. /\ Len(fr.answers \o one) = Len(fr.answers) + Len(one)
        /\ ToSet(fr.answers \o one) = ToSet(fr.answers) \cup ToSet(one)
    <3> DEFINE front == fr.answers
    <3>1. front \in Seq(RR) /\ one \in Seq(RR)
      BY ONLY <1>4, <2>1
    <3> HIDE DEF front
    <3>2. Len(front \o one) = Len(front) + Len(one) /\ ToSet(front \o one) = ToSet(front) \cup ToSet(one)
      BY ONLY <3>1, ConcatSet
    <3>3. QED
      BY ONLY <3>2 DEF front
  <2>3. QED
    BY <2>1, <2>2
<1>9. /\ Len(fr.answers) = Total(t, qs)[fr.i - 1] + Steps(w)
      /\ ToSet(fr.answers) = Generated(t, qs, fr.i - 1) \cup generate_cname_response(w)
  BY DEF WritingOK, w
<1>10. Total(t, qs)[fr.i - 1] \in Nat
  <2>1. fr.i - 1 \in 0..Len(qs)
    BY <1>1
  <2> HIDE DEF qs
  <2>2. QED
    BY <1>1, <2>1, TotalAdds
<1>11. Len(fr2.answers) = Total(t, qs)[fr.i - 1] + Steps(fr2.walk)
  <2> DEFINE a == Len(fr.answers)
             c == Total(t, qs)[fr.i - 1]
             x == Steps(w)
  <2>1. a = c + x /\ c \in Nat /\ x \in Nat /\ Len(fr2.answers) = a + 1 /\ Steps(fr2.walk) = x + 1
    BY <1>5, <1>8, <1>9, <1>10
  <2> HIDE DEF a, c, x
  <2>2. Len(fr2.answers) = c + Steps(fr2.walk)
    BY <2>1
  <2>3. QED
    BY <2>2 DEF c
<1>12. ToSet(fr2.answers) = Generated(t, qs, fr.i - 1) \cup generate_cname_response(fr2.walk)
  BY <1>5, <1>8, <1>9
<1>13. QED
  BY <1>2, <1>11, <1>12 DEF WritingOK

\* The second pass at the end of a chase writes the rest of what the question costs.
LEMMA WriteHit ==
    ASSUME NEW fr, NEW t, TablesOK(t), PlaceOK(fr, t), fr.i <= Len(fr.feature.queries),
           WritingOK(fr, t),
           NEW rrs \in Seq(RR),
           Len(rrs) + Steps(fr.walk) = Cost(t, fr.feature.queries[fr.i]),
           generate_cname_response(fr.walk) \cup ToSet(rrs) = Records(t, fr.feature.queries[fr.i]),
           NEW fr2 \in ReceiveLocals, fr2.feature = fr.feature, fr2.i = fr.i + 1,
           fr2.walk = Start(fr.feature.queries, fr.i + 1),
           fr2.cached = fr.cached, fr2.room = fr.room,
           fr2.answers = fr.answers \o rrs
    PROVE  PlaceOK(fr2, t) /\ WritingOK(fr2, t)
<1> DEFINE qs == fr.feature.queries
           q == qs[fr.i]
           w == fr.walk
<1>1. /\ qs \in QuerySeqs /\ Len(qs) \in Nat /\ fr.i \in Nat /\ fr.i >= 1 /\ fr.i <= Len(qs)
      /\ q \in Question
  BY PlaceType
<1>2. /\ PlaceOK(fr2, t) /\ Steps(fr2.walk) = 0 /\ generate_cname_response(fr2.walk) = {}
  BY PlaceNext
<1>3. fr.answers \in Seq(RR)
  BY DEF PlaceOK, ReceiveLocals
<1>4. /\ Len(fr2.answers) = Len(fr.answers) + Len(rrs) /\ Len(rrs) \in Nat
      /\ ToSet(fr2.answers) = ToSet(fr.answers) \cup ToSet(rrs)
  BY <1>3, ConcatSet
<1>5. /\ Len(fr.answers) = Total(t, qs)[fr.i - 1] + Steps(w)
      /\ ToSet(fr.answers) = Generated(t, qs, fr.i - 1) \cup generate_cname_response(w)
  BY DEF WritingOK
<1>6. /\ Total(t, qs)[fr.i] = Total(t, qs)[fr.i - 1] + Cost(t, q)
      /\ Total(t, qs)[fr.i - 1] \in Nat
  <2>1. fr.i - 1 \in 0..(Len(qs) - 1) /\ (fr.i - 1) + 1 = fr.i /\ fr.i - 1 \in 0..Len(qs)
    BY <1>1
  <2> HIDE DEF qs
  <2>2. \A n \in 0..(Len(qs) - 1) : Total(t, qs)[n + 1] = Total(t, qs)[n] + Cost(t, qs[n + 1])
    BY <1>1, TotalAdds
  <2>3. \A n \in 0..Len(qs) : Total(t, qs)[n] \in Nat
    BY <1>1, TotalAdds
  <2>4. QED
    BY <2>1, <2>2, <2>3
<1>7. Steps(w) \in Nat
  BY PlaceType DEF Steps
<1>8. /\ Len(rrs) + Steps(w) = Cost(t, q)
      /\ generate_cname_response(w) \cup ToSet(rrs) = Records(t, q)
  OBVIOUS
<1>9. fr2.i - 1 = fr.i /\ fr2.feature.queries = qs
  BY <1>1
<1> HIDE DEF w, q
<1>10. Len(fr2.answers) = Total(t, qs)[fr.i] + Steps(fr2.walk)
  <2> DEFINE a == Len(fr.answers)
             b == Len(rrs)
             c == Total(t, qs)[fr.i - 1]
             x == Steps(w)
  <2>1. /\ a = c + x /\ b \in Nat /\ c \in Nat /\ x \in Nat
        /\ Len(fr2.answers) = a + b /\ Total(t, qs)[fr.i] = c + (b + x)
    BY <1>4, <1>5, <1>6, <1>7, <1>8
  <2> HIDE DEF a, b, c, x
  <2>2. QED
    BY <1>2, <2>1
<1>11. Generated(t, qs, fr.i) = Generated(t, qs, fr.i - 1) \cup Records(t, q)
  <2>1. \A j : j \in 1..fr.i <=> j \in 1..(fr.i - 1) \/ j = fr.i
    BY <1>1
  <2> HIDE DEF qs
  <2>2. qs[fr.i] = q
    BY DEF q, qs
  <2>3. QED
    BY <2>1, <2>2 DEF Generated
<1>12. ToSet(fr2.answers) = Generated(t, qs, fr.i) \cup generate_cname_response(fr2.walk)
  BY <1>2, <1>4, <1>5, <1>8, <1>11
<1>13. /\ fr2.cached
       /\ \A j \in 1..Len(qs) : Hit(t, qs[j])
       /\ \A n \in Lookups(t, qs, Len(qs)) : ~ZeroFirst(t.ipv4[n])
       /\ fr2.room = Total(t, qs)[Len(qs)]
  BY DEF WritingOK
<1> HIDE DEF qs
<1>14. QED
  BY <1>2, <1>9, <1>10, <1>12, <1>13 DEF WritingOK

\* What a hit costs and what its records are, once its chase has ended at the
\* end of w.
LEMMA EndOfChase ==
    ASSUME NEW t, TablesOK(t), NEW q \in Question, Chases(q), Hit(t, q), NEW w,
           Chain(t.cname, q.name) = w
    PROVE  /\ Steps(w) \in Nat
           /\ q.type = "A" =>
                /\ Cost(t, q) = Steps(w) + Len(t.ipv4[w[Len(w)]].node)
                /\ Records(t, q) = generate_cname_response(w)
                                      \cup AddressRecords("A", t.ipv4, w[Len(w)])
           /\ q.type = "AAAA" =>
                /\ Cost(t, q) = Steps(w) + Len(t.ipv6[w[Len(w)]].node)
                /\ Records(t, q) = generate_cname_response(w)
                                      \cup AddressRecords("AAAA", t.ipv6, w[Len(w)])
           /\ q.type = "CNAME" =>
                Cost(t, q) = Steps(w) /\ Records(t, q) = generate_cname_response(w)
<1>1. w \in Seq(Names) /\ Len(w) \in Nat \ {0} /\ EndOf(t.cname, q.name) = w[Len(w)]
  BY HitType DEF EndOf
<1>2. Steps(w) = Len(w) - 1 /\ Steps(w) \in Nat
  BY <1>1 DEF Steps
<1> DEFINE n == w[Len(w)]
<1>3. /\ Cost(t, q) = Steps(w) + CASE q.type = "A"     -> Len(t.ipv4[n].node)
                                   [] q.type = "AAAA"  -> Len(t.ipv6[n].node)
                                   [] q.type = "CNAME" -> 0
      /\ Records(t, q) = generate_cname_response(w) \cup
              CASE q.type = "A"     -> AddressRecords("A", t.ipv4, n)
                [] q.type = "AAAA"  -> AddressRecords("AAAA", t.ipv6, n)
                [] q.type = "CNAME" -> {}
  BY <1>1, <1>2 DEF Cost, Records
<1> HIDE DEF n
<1>4. CASE q.type = "A"
  BY <1>2, <1>3, <1>4 DEF n
<1>5. CASE q.type = "AAAA"
  BY <1>2, <1>3, <1>5 DEF n
<1>6. CASE q.type = "CNAME"
  BY <1>2, <1>3, <1>6
<1>7. QED
  BY <1>2, <1>4, <1>5, <1>6

\* The same for each type of address.
LEMMA EndOfIPv4Chase ==
    ASSUME NEW t, TablesOK(t), NEW q \in Question, q.type = "A", Hit(t, q), NEW w,
           Chain(t.cname, q.name) = w, NEW n, n = w[Len(w)]
    PROVE  /\ Steps(w) \in Nat
           /\ Cost(t, q) = Steps(w) + Len(t.ipv4[n].node)
           /\ Records(t, q) = generate_cname_response(w) \cup AddressRecords("A", t.ipv4, n)
<1>1. Chases(q)
  BY DEF Chases
<1>2. QED
  BY ONLY <1>1, TablesOK(t), q \in Question, q.type = "A", Hit(t, q),
          Chain(t.cname, q.name) = w, n = w[Len(w)], EndOfChase

LEMMA EndOfIPv6Chase ==
    ASSUME NEW t, TablesOK(t), NEW q \in Question, q.type = "AAAA", Hit(t, q), NEW w,
           Chain(t.cname, q.name) = w, NEW n, n = w[Len(w)]
    PROVE  /\ Steps(w) \in Nat
           /\ Cost(t, q) = Steps(w) + Len(t.ipv6[n].node)
           /\ Records(t, q) = generate_cname_response(w) \cup AddressRecords("AAAA", t.ipv6, n)
<1>1. Chases(q)
  BY DEF Chases
<1>2. QED
  BY ONLY <1>1, TablesOK(t), q \in Question, q.type = "AAAA", Hit(t, q),
          Chain(t.cname, q.name) = w, n = w[Len(w)], EndOfChase

\* The second pass stays within the array, and fills it.
LEMMA Fits ==
    ASSUME NEW fr, NEW t, TablesOK(t), PlaceOK(fr, t), WritingOK(fr, t)
    PROVE  /\ Len(fr.answers) <= fr.room
           /\ fr.i = Len(fr.feature.queries) + 1 => Len(fr.answers) = fr.room
<1> DEFINE qs == fr.feature.queries
           len == Len(qs)
           w == fr.walk
<1>1. /\ qs \in QuerySeqs /\ len \in Nat /\ fr.i \in Nat /\ fr.i >= 1
      /\ fr.i <= len \/ fr.i = len + 1
  BY PlaceType
<1>2. /\ fr.room = Total(t, qs)[len]
      /\ Len(fr.answers) = Total(t, qs)[fr.i - 1] + Steps(w)
  BY DEF WritingOK
<1>3. /\ \A n \in 0..(len - 1) : Total(t, qs)[n + 1] = Total(t, qs)[n] + Cost(t, qs[n + 1])
      /\ \A n \in 0..len : Total(t, qs)[n] \in Nat /\ Total(t, qs)[n] <= Total(t, qs)[len]
  <2> HIDE DEF qs
  <2>1. QED
    BY <1>1, TotalAdds
<1>4. CASE fr.i = len + 1
  <2>1. w = <<>> /\ Steps(w) = 0
    BY <1>4 DEF PlaceOK, Steps
  <2>2. len \in 0..len /\ fr.i - 1 = len
    BY <1>1, <1>4
  <2>3. Len(fr.answers) = fr.room /\ fr.room \in Nat
    BY <1>2, <1>3, <2>1, <2>2
  <2>4. QED
    BY <2>3
<1>5. CASE fr.i <= len
  <2> DEFINE q == qs[fr.i]
             j == fr.i - 1
  <2>1. /\ j \in 0..(len - 1) /\ j + 1 = fr.i /\ j \in 0..len /\ fr.i \in 0..len
        /\ fr.i \in 1..len /\ fr.i # len + 1
    BY <1>1, <1>5
  <2>2. q \in Question /\ Hit(t, q)
    BY <1>5, <2>1, PlaceType DEF WritingOK
  <2>3. Linked(t.cname, w, q.name) /\ Len(w) \in Nat /\ Len(w) >= 1
    BY <1>5, PlaceType
  <2>4. Steps(w) = Len(w) - 1
    BY <2>3 DEF Steps
  <2>5. Cost(t, q) \in Nat
    BY <2>2, CostType
  <2>6. Steps(w) <= Cost(t, q)
    <3>1. CASE ~Chases(q)
      <4>1. Len(w) = 1
        BY <1>5, <3>1 DEF PlaceOK
      <4>2. QED
        BY <2>4, <2>5, <4>1
    <3>2. CASE Chases(q)
      <4> DEFINE v == Chain(t.cname, q.name)
      <4>1. q.name \in Names /\ t.cname \in AliasTable
        BY <2>2 DEF Question, TablesOK
      <4>2. ~Endless(t.cname, q.name) /\ Len(v) \in Nat \ {0}
        BY <2>2, <3>2, HitType
      <4>3. Len(w) <= Len(v)
        BY <2>3, <4>1, <4>2, WithinChain
      <4>4. Steps(v) \in Nat /\ Steps(v) = Len(v) - 1
        <5>1. Steps(v) \in Nat
          BY <2>2, <3>2, EndOfChase
        <5> HIDE DEF v
        <5>2. QED
          BY <4>2, <5>1 DEF Steps
      <4>5. /\ q.type = "A" => Cost(t, q) = Steps(v) + Len(t.ipv4[v[Len(v)]].node)
            /\ q.type = "AAAA" => Cost(t, q) = Steps(v) + Len(t.ipv6[v[Len(v)]].node)
            /\ q.type = "CNAME" => Cost(t, q) = Steps(v)
        BY <2>2, <3>2, EndOfChase
      <4>6. /\ q.type = "A" => Len(t.ipv4[v[Len(v)]].node) \in Nat
            /\ q.type = "AAAA" => Len(t.ipv6[v[Len(v)]].node) \in Nat
        <5>1. v[Len(v)] = EndOf(t.cname, q.name)
          BY DEF EndOf
        <5>2. /\ q.type = "A" => t.ipv4[EndOf(t.cname, q.name)] \in Entry(IPv4)
              /\ q.type = "AAAA" => t.ipv6[EndOf(t.cname, q.name)] \in Entry(IPv6)
          BY <2>2, <3>2, HitType
        <5> HIDE DEF v, q
        <5>3. QED
          BY <5>1, <5>2 DEF Entry
      <4>7. q.type \in {"A", "AAAA", "CNAME"}
        BY <2>2, <3>2 DEF Chases, Question, QTypes
      <4>8. Steps(v) <= Cost(t, q)
        <5> DEFINE x == Steps(v)
                   y == Cost(t, q)
                   l4 == Len(t.ipv4[v[Len(v)]].node)
                   l6 == Len(t.ipv6[v[Len(v)]].node)
        <5>1. x \in Nat /\ ((y = x + l4 /\ l4 \in Nat) \/ (y = x + l6 /\ l6 \in Nat) \/ y = x)
          <6>1. x \in Nat
            BY <4>4
          <6> HIDE DEF v, q
          <6>2. /\ q.type = "A" => y = x + l4 /\ l4 \in Nat
                /\ q.type = "AAAA" => y = x + l6 /\ l6 \in Nat
                /\ q.type = "CNAME" => y = x
            BY <4>5, <4>6
          <6> HIDE DEF x, y, l4, l6
          <6>3. QED
            BY <4>7, <6>1, <6>2
        <5> HIDE DEF x, y, l4, l6
        <5>2. x <= y
          BY <5>1
        <5>3. QED
          BY <5>2 DEF x, y
      <4> HIDE DEF v, q
      <4>9. QED
        BY <2>3, <2>4, <2>5, <4>2, <4>3, <4>4, <4>8
    <3>3. QED
      BY <3>1, <3>2
  <2> HIDE DEF q
  <2>7. Total(t, qs)[fr.i] = Total(t, qs)[j] + Cost(t, q)
    <3>1. Total(t, qs)[j + 1] = Total(t, qs)[j] + Cost(t, qs[j + 1])
      BY <1>3, <2>1
    <3>2. QED
      BY <2>1, <3>1 DEF q
  <2>8. /\ Total(t, qs)[j] \in Nat /\ Total(t, qs)[fr.i] \in Nat /\ Total(t, qs)[len] \in Nat
        /\ Total(t, qs)[fr.i] <= Total(t, qs)[len]
    <3> HIDE DEF len, j
    <3>1. len \in 0..len
      BY ONLY <1>1
    <3>2. QED
      BY ONLY <1>3, <2>1, <3>1
  <2> DEFINE a == Total(t, qs)[j]
             b == Total(t, qs)[fr.i]
             c == Total(t, qs)[len]
             x == Steps(w)
             y == Cost(t, q)
  <2>9. /\ a \in Nat /\ b \in Nat /\ c \in Nat /\ x \in Int /\ y \in Nat
        /\ b = a + y /\ b <= c /\ x <= y /\ Len(fr.answers) = a + x /\ fr.room = c
    BY <1>2, <2>3, <2>4, <2>5, <2>6, <2>7, <2>8
  <2> HIDE DEF a, b, c, x, y
  <2>10. Len(fr.answers) <= fr.room
    BY <2>9
  <2>11. QED
    BY <2>1, <2>10
<1>6. QED
  BY <1>1, <1>4, <1>5

\* The marks leave an entry its addresses.
LEMMA MarksKeep ==
    ASSUME NEW t, TablesOK(t), NEW qs \in QuerySeqs, NEW k \in 0..Len(qs), NEW table,
           table = Marked(t, Lookups(t, qs, k)), NEW n \in Names
    PROVE  /\ Cached(table, n) <=> Cached(t.ipv4, n)
           /\ Cached(t.ipv4, n) =>
                /\ table[n] \in Entry(IPv4) /\ table[n].node = t.ipv4[n].node
                /\ ZeroFirst(table[n]) <=> ZeroFirst(t.ipv4[n])
<1>1. CASE n \in Lookups(t, qs, k)
  <2>1. t.ipv4[n] \in Entry(IPv4)
    BY <1>1, LookupsType
  <2>2. ZeroFirst(t.ipv4[n]) \in BOOLEAN
    BY DEF ZeroFirst
  <2>3. table[n] = [t.ipv4[n] EXCEPT !.manual = ZeroFirst(t.ipv4[n])]
    BY <1>1 DEF Marked
  <2>4. table[n] \in Entry(IPv4) /\ table[n].node = t.ipv4[n].node
    BY <2>1, <2>2, <2>3 DEF Entry
  <2>5. Cached(table, n) /\ Cached(t.ipv4, n)
    BY <2>1, <2>4, AnsweringAssumption DEF Cached
  <2>6. QED
    BY <2>4, <2>5 DEF ZeroFirst
<1>2. CASE n \notin Lookups(t, qs, k)
  <2>1. table[n] = t.ipv4[n]
    BY <1>2 DEF Marked
  <2>2. QED
    BY <2>1 DEF Cached, TablesOK, AddressTable, ZeroFirst
<1>3. QED
  BY <1>1, <1>2

-----------------------------------------------------------------------------
(* The steps within bind_socket_read keep the invariant *)

LEMMA TypeKept == TypeOK /\ UNCHANGED vars => TypeOK'
BY DEF TypeOK, vars, server, network

\* What holds at a question of either pass.
LEMMA AtQuestion ==
    ASSUME IInv, ~Idle, frame.pc = "counting" \/ frame.pc = "writing", frame.i \in DOMAIN Queries
    PROVE  /\ TypeOK /\ TablesOK(before) /\ ReceiveInv /\ PlaceOK(frame, before)
           /\ frame \in ReceiveLocals
           /\ frame.pc = "counting" => CountingOK(frame, before)
           /\ frame.pc = "writing" => WritingOK(frame, before)
           /\ Query = frame.feature.queries[frame.i]
           /\ Query \in Question
           /\ frame.i <= Len(frame.feature.queries)
           /\ LookedAt(frame) \in 0..Len(frame.feature.queries)
           /\ frame.feature.queries \in QuerySeqs
           /\ Domain = Last(frame.walk) /\ Domain = frame.walk[Len(frame.walk)] /\ Domain \in Names
           /\ Linked(before.cname, frame.walk, Query.name)
           /\ Len(frame.walk) \in Nat /\ Len(frame.walk) >= 1
           /\ Follows <=> Chases(Query) /\ Cached(before.cname, Domain)
           /\ cname = before.cname /\ ipv6 = before.ipv6
           /\ Cached(ipv4, Domain) <=> Cached(before.ipv4, Domain)
           /\ Cached(before.ipv4, Domain) =>
                /\ ipv4[Domain] \in Entry(IPv4) /\ ipv4[Domain].node = before.ipv4[Domain].node
                /\ ZeroFirst(ipv4[Domain]) <=> ZeroFirst(before.ipv4[Domain])
<1>1. TypeOK /\ TablesOK(before) /\ ReceiveInv
  BY DEF IInv
<1>2. /\ PlaceOK(frame, before)
      /\ frame.pc = "counting" => CountingOK(frame, before)
      /\ frame.pc = "writing" => WritingOK(frame, before)
      /\ cname = before.cname /\ ipv6 = before.ipv6
      /\ ipv4 = Marked(before, Lookups(before, Queries, LookedAt(frame)))
  BY <1>1 DEF ReceiveInv
<1>3. frame \in ReceiveLocals
  BY <1>2 DEF PlaceOK
<1> DEFINE qs == frame.feature.queries
<1>4. Queries = qs /\ Query = qs[frame.i]
  BY DEF Queries, Query
<1>5. /\ qs \in QuerySeqs /\ Len(qs) \in Nat /\ frame.i \in Nat /\ frame.i >= 1
      /\ frame.i <= Len(qs)
      /\ \A j \in 1..Len(qs) : qs[j] \in Question
  BY <1>2, <1>4, PlaceType
<1>6. /\ Len(frame.walk) \in Nat /\ Len(frame.walk) >= 1
      /\ frame.walk[Len(frame.walk)] \in Names
      /\ Last(frame.walk) = frame.walk[Len(frame.walk)]
      /\ Linked(before.cname, frame.walk, qs[frame.i].name)
  BY <1>2, <1>5, PlaceType
<1> HIDE DEF qs
<1>7. frame.i \in 1..Len(qs) /\ Query \in Question
  BY <1>4, <1>5
<1>8. LookedAt(frame) \in 0..Len(qs)
  BY <1>5 DEF LookedAt, qs
<1>9. Domain = Last(frame.walk)
  BY DEF Domain
<1>10. Follows <=> Chases(Query) /\ Cached(before.cname, Domain)
  BY <1>2 DEF Follows
<1>11. /\ Cached(ipv4, Domain) <=> Cached(before.ipv4, Domain)
       /\ Cached(before.ipv4, Domain) =>
            /\ ipv4[Domain] \in Entry(IPv4) /\ ipv4[Domain].node = before.ipv4[Domain].node
            /\ ZeroFirst(ipv4[Domain]) <=> ZeroFirst(before.ipv4[Domain])
  <2>1. ipv4 = Marked(before, Lookups(before, qs, LookedAt(frame)))
    BY <1>2, <1>4
  <2>2. Domain \in Names
    BY <1>6, <1>9
  <2>3. QED
    BY <1>1, <1>5, <1>8, <2>1, <2>2, MarksKeep
<1>12. QED
  BY <1>1, <1>2, <1>3, <1>4, <1>5, <1>6, <1>7, <1>8, <1>9, <1>10, <1>11 DEF qs

\* A step of the callback that leaves the rest of the world alone.
LEMMA ReceiveKept ==
    ASSUME IInv, ~Idle, frame.pc = "counting" \/ frame.pc = "writing",
           before' = before, TypeOK',
           UNCHANGED <<status, owed, toUpstream, fromUpstream, clients, ipv6, cname>>,
           PlaceOK(frame', before),
           frame'.pc = "counting" => CountingOK(frame', before),
           frame'.pc = "writing" => WritingOK(frame', before),
           frame'.feature = frame.feature, frame'.client = frame.client,
           ipv4' = Marked(before, Lookups(before, frame.feature.queries, LookedAt(frame')))
    PROVE  IInv'
<1>1. TablesOK(before) /\ ReceiveInv
  BY DEF IInv
<1>2. frame'.pc = "counting" \/ frame'.pc = "writing"
  BY DEF PlaceOK, ReceiveLocals
<1>3. Queries' = frame.feature.queries /\ Queries = frame.feature.queries
  BY DEF Queries
<1>4. ReceiveInv'
  <2>1. PlaceOK(frame', before') /\ LookedAt(frame)' = LookedAt(frame')
    BY DEF LookedAt
  <2>2. frame'.pc = "counting" => CountingOK(frame', before')
    OBVIOUS
  <2>3. frame'.pc # "counting" => WritingOK(frame', before')
    BY <1>2
  <2>4. QED
    BY <1>1, <1>2, <1>3, <2>1, <2>2, <2>3 DEF ReceiveInv
<1>5. QED
  BY <1>1, <1>2, <1>4 DEF IInv

LEMMA Advanced ==
    ASSUME PlaceOK(frame, before), frame.i <= Len(frame.feature.queries),
           NEW fr \in ReceiveLocals, fr.i = frame.i
    PROVE  /\ Advance(fr) \in ReceiveLocals
           /\ Advance(fr).i = frame.i + 1
           /\ Advance(fr).walk = Start(frame.feature.queries, frame.i + 1)
           /\ Advance(fr).pc = fr.pc /\ Advance(fr).client = fr.client
           /\ Advance(fr).feature = fr.feature
           /\ Advance(fr).cached = fr.cached /\ Advance(fr).banned = fr.banned
           /\ Advance(fr).answer_count = fr.answer_count /\ Advance(fr).room = fr.room
           /\ Advance(fr).answers = fr.answers
<1> DEFINE w == Start(frame.feature.queries, frame.i + 1)
<1>1. frame.i \in Nat /\ frame.i + 1 \in 1..(Len(frame.feature.queries) + 1)
  BY PlaceType
<1>2. w \in Seq(Names)
  BY <1>1, PlaceType, Starts
<1>3. Advance(fr) = [fr EXCEPT !.i = frame.i + 1, !.walk = w]
  BY DEF Advance, Queries
<1> HIDE DEF w
<1> DEFINE fr2 == [fr EXCEPT !.i = frame.i + 1, !.walk = w]
<1>4. /\ fr2.i = frame.i + 1 /\ fr2.walk = w
      /\ fr2.pc = fr.pc /\ fr2.client = fr.client /\ fr2.feature = fr.feature
      /\ fr2.cached = fr.cached /\ fr2.banned = fr.banned
      /\ fr2.answer_count = fr.answer_count /\ fr2.room = fr.room /\ fr2.answers = fr.answers
  BY DEF ReceiveLocals
<1>5. fr2 \in ReceiveLocals
  <2>1. frame.i + 1 \in Nat
    BY <1>1
  <2>2. QED
    BY <1>2, <2>1 DEF ReceiveLocals
<1> HIDE DEF fr2
<1>6. QED
  BY <1>3, <1>4, <1>5 DEF w, fr2

LEMMA MarksSame ==
    ASSUME NEW t, NEW qs, NEW k \in Nat \ {0}, ~(qs[k].type = "A" /\ Hit(t, qs[k]))
    PROVE  Lookups(t, qs, k) = Lookups(t, qs, k - 1)
<1>1. \A n : n \in Lookups(t, qs, k) <=> n \in Lookups(t, qs, k - 1)
  BY LookupsAdd
<1>2. QED
  BY <1>1, SetExtensionality

\* The assignment in the condition of the first pass marks the entry it looks into.
LEMMA MarksAdd ==
    ASSUME NEW t, TablesOK(t), NEW qs \in QuerySeqs, NEW k \in 1..Len(qs),
           qs[k].type = "A", Hit(t, qs[k]),
           NEW d, d = EndOf(t.cname, qs[k].name),
           NEW table, table = Marked(t, Lookups(t, qs, k - 1)),
           NEW new, new = [table EXCEPT ![d].manual = ZeroFirst(table[d])]
    PROVE  new = Marked(t, Lookups(t, qs, k)) /\ new \in AddressTable(IPv4)
<1>1. qs[k] \in Question /\ Chases(qs[k]) /\ k \in Nat \ {0} /\ k - 1 \in 0..Len(qs)
  BY QuestionType DEF Chases
<1>2. d \in Names /\ t.ipv4[d] \in Entry(IPv4)
  BY <1>1, HitType
<1>3. \A n : n \in Lookups(t, qs, k) <=> n \in Lookups(t, qs, k - 1) \/ n = d
  BY <1>1, LookupsAdd
<1>4. ZeroFirst(t.ipv4[d]) \in BOOLEAN
  BY DEF ZeroFirst
<1>5. table[d] = t.ipv4[d] \/ table[d] = [t.ipv4[d] EXCEPT !.manual = ZeroFirst(t.ipv4[d])]
  BY <1>2 DEF Marked
<1>6. table[d] \in Entry(IPv4) /\ table[d].node = t.ipv4[d].node
  BY <1>2, <1>4, <1>5 DEF Entry
<1>7. ZeroFirst(table[d]) = ZeroFirst(t.ipv4[d])
  BY <1>6 DEF ZeroFirst
<1>8. [table[d] EXCEPT !.manual = ZeroFirst(table[d])] = [t.ipv4[d] EXCEPT !.manual = ZeroFirst(t.ipv4[d])]
  BY <1>2, <1>5, <1>7 DEF Entry
<1>9. new = [n \in Names |-> IF n = d THEN [table[d] EXCEPT !.manual = ZeroFirst(table[d])] ELSE table[n]]
  BY <1>2 DEF Marked
<1>10. \A n \in Names : n # d => (n \in Lookups(t, qs, k) <=> n \in Lookups(t, qs, k - 1))
  BY <1>3
<1>11. d \in Lookups(t, qs, k)
  BY <1>3
<1>12. new = Marked(t, Lookups(t, qs, k))
  <2> DEFINE S == Lookups(t, qs, k)
             R == Lookups(t, qs, k - 1)
             value(n) == IF n \in S THEN [t.ipv4[n] EXCEPT !.manual = ZeroFirst(t.ipv4[n])]
                                    ELSE t.ipv4[n]
             other(n) == IF n = d THEN [table[d] EXCEPT !.manual = ZeroFirst(table[d])] ELSE table[n]
  <2> HIDE DEF S, R
  <2>1. \A n \in Names : n # d => table[n] = value(n)
    BY <1>10 DEF Marked, S, R
  <2>2. \A n \in Names : other(n) = value(n)
    BY <1>8, <1>11, <2>1 DEF S
  <2>3. new = [n \in Names |-> other(n)]
    BY <1>9
  <2>4. Marked(t, S) = [n \in Names |-> value(n)]
    BY DEF Marked
  <2> HIDE DEF value, other
  <2>5. new = Marked(t, S)
    BY <2>2, <2>3, <2>4
  <2>6. QED
    BY <2>5 DEF S
<1>13. ASSUME NEW n \in Names PROVE Marked(t, Lookups(t, qs, k))[n] \in Entry(IPv4) \cup {NULL}
  <2>1. k \in 0..Len(qs)
    BY <1>1
  <2>2. CASE n \in Lookups(t, qs, k)
    <3>1. t.ipv4[n] \in Entry(IPv4) /\ ZeroFirst(t.ipv4[n]) \in BOOLEAN
      BY <2>1, <2>2, LookupsType DEF ZeroFirst
    <3>2. [t.ipv4[n] EXCEPT !.manual = ZeroFirst(t.ipv4[n])] \in Entry(IPv4)
      BY <3>1 DEF Entry
    <3>3. QED
      BY <2>2, <3>2 DEF Marked
  <2>3. CASE n \notin Lookups(t, qs, k)
    BY <2>3 DEF Marked, TablesOK, AddressTable
  <2>4. QED
    BY <2>2, <2>3
<1>14. QED
  BY <1>12, <1>13 DEF Marked, AddressTable

LEMMA CountAliasKeeps == ASSUME IInv, CountAlias PROVE IInv' /\ ~Idle'
<1> DEFINE target == cname[Domain].name
<1>1. /\ Counting /\ Follows /\ target \notin ToSet(frame.walk)
      /\ frame' = [frame EXCEPT !.answer_count = @ + 1, !.walk = Append(@, target)]
      /\ UNCHANGED <<vars, before>>
  BY DEF CountAlias
<1>2. ~Idle /\ frame.pc = "counting" /\ frame.i \in DOMAIN Queries /\ frame.cached
  BY <1>1 DEF Counting, At
<1>3. /\ TypeOK /\ TablesOK(before) /\ PlaceOK(frame, before) /\ CountingOK(frame, before)
      /\ frame \in ReceiveLocals /\ Query = frame.feature.queries[frame.i]
      /\ frame.i <= Len(frame.feature.queries)
      /\ Domain = Last(frame.walk) /\ Domain \in Names
      /\ Chases(Query) /\ Cached(before.cname, Domain)
      /\ cname = before.cname
      /\ ReceiveInv
  BY <1>1, <1>2, AtQuestion
<1>4. target \in Names
  BY <1>3 DEF TablesOK, AliasTable, Alias, Cached
<1>5. target = before.cname[Last(frame.walk)].name
  BY <1>3
<1> HIDE DEF target
<1>6. /\ frame' \in ReceiveLocals /\ frame'.feature = frame.feature /\ frame'.i = frame.i
      /\ frame'.walk = Append(frame.walk, target) /\ frame'.client = frame.client
      /\ frame'.cached = frame.cached /\ frame'.banned = frame.banned
      /\ frame'.answers = frame.answers /\ frame'.answer_count = frame.answer_count + 1
      /\ frame'.pc = frame.pc
  <2>1. Append(frame.walk, target) \in Seq(Names) /\ frame.answer_count + 1 \in Nat
    BY <1>3, <1>4, AppendProperties DEF ReceiveLocals
  <2>2. frame' \in ReceiveLocals
    BY <1>1, <1>3, <2>1 DEF ReceiveLocals
  <2>3. QED
    BY <1>1, <1>3, <2>2 DEF ReceiveLocals
<1>7. PlaceOK(frame', before) /\ CountingOK(frame', before)
  <2>1. PlaceOK(frame, before) /\ CountingOK(frame, before) /\ Chases(frame.feature.queries[frame.i])
        /\ Cached(before.cname, Last(frame.walk))
        /\ before.cname[Last(frame.walk)].name \notin ToSet(frame.walk)
        /\ frame'.walk = Append(frame.walk, before.cname[Last(frame.walk)].name)
    BY <1>1, <1>3, <1>5, <1>6
  <2>2. QED
    BY <1>2, <1>3, <1>6, <2>1, CountStep
<1>8. TypeOK'
  BY <1>1, <1>3, TypeKept
<1>9. /\ before' = before
      /\ UNCHANGED <<status, owed, toUpstream, fromUpstream, clients, ipv4, ipv6, cname>>
  BY <1>1 DEF vars, server, network
<1>10. ipv4' = Marked(before, Lookups(before, frame.feature.queries, LookedAt(frame')))
  BY <1>2, <1>3, <1>6, <1>9 DEF ReceiveInv, LookedAt, Queries
<1>11. IInv'
  BY <1>2, <1>6, <1>7, <1>8, <1>9, <1>10, ReceiveKept
<1>12. ~Idle'
  BY <1>6, AnsweringAssumption DEF Idle
<1>13. QED
  BY <1>11, <1>12

\* The first pass at the end of a chase.
LEMMA AtEnd ==
    ASSUME IInv, Counting, ~Follows, Chases(Query)
    PROVE  /\ ~Hanging(before, Query)
           /\ Chain(before.cname, Query.name) = frame.walk
           /\ EndOf(before.cname, Query.name) = Domain
           /\ Cached(before.cname, Query.name) <=> Len(frame.walk) > 1
<1>1. ~Idle /\ frame.pc = "counting" /\ frame.i \in DOMAIN Queries
  BY DEF Counting, At
<1>2. /\ TablesOK(before) /\ CountingOK(frame, before) /\ Query \in Question
      /\ Domain = frame.walk[Len(frame.walk)]
      /\ Linked(before.cname, frame.walk, Query.name)
      /\ ~Cached(before.cname, Domain)
  BY <1>1, AtQuestion
<1>3. Distinct(frame.walk) /\ ~Cached(before.cname, frame.walk[Len(frame.walk)])
  BY <1>2 DEF CountingOK
<1> DEFINE q == Query
           w == frame.walk
           t == before
<1>4. /\ TablesOK(t) /\ q \in Question /\ Linked(t.cname, w, q.name) /\ Distinct(w)
      /\ Chases(q) /\ ~Cached(t.cname, w[Len(w)])
  BY <1>2, <1>3
<1> HIDE DEF q, w, t
<1>5. /\ ~Hanging(t, q)
      /\ Chain(t.cname, q.name) = w
      /\ EndOf(t.cname, q.name) = w[Len(w)]
      /\ Cached(t.cname, q.name) <=> Len(w) > 1
  BY <1>4, ChaseShows
<1>6. QED
  BY <1>2, <1>5 DEF q, w, t

\* The first pass goes on to the next question after a hit.
LEMMA HitKeeps ==
    ASSUME IInv, Counting, Hit(before, Query),
           NEW fr \in ReceiveLocals, fr.i = frame.i, fr.pc = frame.pc,
           fr.client = frame.client, fr.feature = frame.feature,
           fr.cached = frame.cached, fr.answers = frame.answers,
           fr.banned <=> frame.banned \/
              (Query.type = "A" /\ ZeroFirst(before.ipv4[EndOf(before.cname, Query.name)])),
           ~fr.banned =>
              fr.answer_count + Steps(frame.walk) = frame.answer_count + Cost(before, Query),
           frame' = Advance(fr), before' = before,
           UNCHANGED <<status, owed, toUpstream, fromUpstream, clients, ipv6, cname>>,
           TypeOK',
           ipv4' = Marked(before, Lookups(before, frame.feature.queries, frame.i))
    PROVE  IInv' /\ ~Idle'
<1>1. ~Idle /\ frame.pc = "counting" /\ frame.i \in DOMAIN Queries /\ frame.cached
  BY DEF Counting, At
<1>2. /\ TablesOK(before) /\ PlaceOK(frame, before) /\ CountingOK(frame, before)
      /\ frame \in ReceiveLocals
      /\ Query = frame.feature.queries[frame.i] /\ frame.i <= Len(frame.feature.queries)
  BY <1>1, AtQuestion
<1>3. /\ frame' \in ReceiveLocals
      /\ frame'.i = frame.i + 1 /\ frame'.walk = Start(frame.feature.queries, frame.i + 1)
      /\ frame'.pc = frame.pc /\ frame'.client = frame.client /\ frame'.feature = frame.feature
      /\ frame'.cached = fr.cached /\ frame'.banned = fr.banned
      /\ frame'.answer_count = fr.answer_count /\ frame'.answers = fr.answers
  BY <1>2, Advanced
<1> DEFINE fr2 == frame'
           q == Query
<1>4. /\ fr2 \in ReceiveLocals /\ fr2.feature = frame.feature /\ fr2.pc = frame.pc
      /\ fr2.i = frame.i + 1 /\ fr2.walk = Start(frame.feature.queries, frame.i + 1)
      /\ fr2.cached /\ fr2.answers = frame.answers /\ Hit(before, q)
      /\ q = frame.feature.queries[frame.i]
      /\ fr2.banned <=> frame.banned \/ (q.type = "A" /\ ZeroFirst(before.ipv4[EndOf(before.cname, q.name)]))
      /\ ~fr2.banned => fr2.answer_count + Steps(frame.walk) = frame.answer_count + Cost(before, q)
  BY <1>1, <1>2, <1>3
<1>5. PlaceOK(fr2, before) /\ CountingOK(fr2, before)
  <2> HIDE DEF fr2, q
  <2>1. QED
    BY ONLY <1>1, <1>2, <1>4, CountHit
<1>6. LookedAt(frame') = frame.i
  <2>1. frame.i \in Nat
    BY ONLY <1>2, PlaceType
  <2>2. frame'.pc = "counting" /\ frame'.i = frame.i + 1
    BY ONLY <1>1, <1>3
  <2>3. QED
    BY ONLY <2>1, <2>2 DEF LookedAt
<1>7. ipv4' = Marked(before, Lookups(before, frame.feature.queries, LookedAt(frame')))
  BY <1>6
<1>8. IInv'
  BY <1>1, <1>3, <1>5, <1>7, ReceiveKept
<1>9. ~Idle'
  BY <1>3, AnsweringAssumption DEF Idle
<1>10. QED
  BY <1>8, <1>9

LEMMA CountIPv4Keeps == ASSUME IInv, CountIPv4 PROVE IInv' /\ ~Idle'
<1> DEFINE zero == ZeroFirst(ipv4[Domain])
           fr == IF zero THEN [frame EXCEPT !.banned = TRUE]
                 ELSE [frame EXCEPT !.answer_count = @ + Len(ipv4[Domain].node)]
<1>1. /\ Counting /\ ~Follows /\ Query.type = "A" /\ Cached(ipv4, Domain)
      /\ ipv4' = [ipv4 EXCEPT ![Domain].manual = zero]
      /\ frame' = Advance(fr)
      /\ UNCHANGED <<outside, clients, ipv6, cname, before>>
  BY DEF CountIPv4
<1>2. ~Idle /\ frame.pc = "counting" /\ frame.i \in DOMAIN Queries /\ frame.cached
  BY <1>1 DEF Counting, At
<1>3. /\ TypeOK /\ TablesOK(before) /\ PlaceOK(frame, before) /\ ReceiveInv
      /\ frame \in ReceiveLocals
      /\ Query = frame.feature.queries[frame.i] /\ frame.i <= Len(frame.feature.queries)
      /\ frame.feature.queries \in QuerySeqs /\ Query \in Question
      /\ Domain = frame.walk[Len(frame.walk)] /\ Domain \in Names
      /\ Cached(before.ipv4, Domain)
      /\ ipv4[Domain] \in Entry(IPv4) /\ ipv4[Domain].node = before.ipv4[Domain].node
      /\ zero <=> ZeroFirst(before.ipv4[Domain])
  BY <1>1, <1>2, AtQuestion
<1>4. /\ Chases(Query) /\ ~Hanging(before, Query)
      /\ Chain(before.cname, Query.name) = frame.walk
      /\ EndOf(before.cname, Query.name) = Domain
  BY <1>1, AtEnd DEF Chases
<1>5. Hit(before, Query)
  BY <1>1, <1>3, <1>4 DEF Hit, Missing
<1>6. Cost(before, Query) = Steps(frame.walk) + Len(before.ipv4[Domain].node) /\ Steps(frame.walk) \in Nat
  <2> DEFINE w == frame.walk
  <2>1. /\ TablesOK(before) /\ Query \in Question /\ Query.type = "A" /\ Hit(before, Query)
        /\ Chain(before.cname, Query.name) = w /\ Domain = w[Len(w)]
    BY ONLY <1>1, <1>3, <1>4, <1>5
  <2> HIDE DEF w
  <2>2. Cost(before, Query) = Steps(w) + Len(before.ipv4[Domain].node) /\ Steps(w) \in Nat
    BY ONLY <2>1, EndOfIPv4Chase
  <2>3. QED
    BY ONLY <2>2 DEF w
<1>7. Len(ipv4[Domain].node) \in Nat
  BY <1>3 DEF Entry
<1>8. /\ fr \in ReceiveLocals /\ fr.i = frame.i /\ fr.pc = frame.pc
      /\ fr.client = frame.client /\ fr.feature = frame.feature
      /\ fr.cached = frame.cached /\ fr.answers = frame.answers
      /\ fr.banned <=> frame.banned \/ zero
      /\ ~zero => fr.answer_count = frame.answer_count + Len(ipv4[Domain].node)
  <2>1. CASE zero
    BY <1>3, <2>1 DEF ReceiveLocals
  <2>2. CASE ~zero
    <3> DEFINE n == frame.answer_count + Len(ipv4[Domain].node)
    <3>1. n \in Nat
      <4>1. frame.answer_count \in Nat
        BY <1>3 DEF ReceiveLocals
      <4>2. \A a, b \in Nat : a + b \in Nat
        OBVIOUS
      <4>3. QED
        BY <1>7, <4>1, <4>2
    <3>2. fr = [frame EXCEPT !.answer_count = n]
      BY <2>2
    <3> HIDE DEF n, fr
    <3>3. /\ fr \in ReceiveLocals /\ fr.i = frame.i /\ fr.pc = frame.pc
          /\ fr.client = frame.client /\ fr.feature = frame.feature
          /\ fr.cached = frame.cached /\ fr.answers = frame.answers
          /\ fr.banned = frame.banned /\ fr.answer_count = n
      BY <1>3, <3>1, <3>2 DEF ReceiveLocals
    <3>4. QED
      BY <2>2, <3>3 DEF n
  <2>3. QED
    BY <2>1, <2>2
<1> HIDE DEF fr
<1>9. ~fr.banned => fr.answer_count + Steps(frame.walk) = frame.answer_count + Cost(before, Query)
  <2> DEFINE a == frame.answer_count
             b == Len(before.ipv4[Domain].node)
             x == Steps(frame.walk)
  <2>1. ~fr.banned => fr.answer_count = a + b
    BY <1>3, <1>8
  <2>2. a \in Nat /\ b \in Nat /\ x \in Nat /\ Cost(before, Query) = x + b
    BY <1>3, <1>6, <1>7 DEF ReceiveLocals
  <2> HIDE DEF a, b, x
  <2>3. ~fr.banned => fr.answer_count + x = a + Cost(before, Query)
    BY <2>1, <2>2
  <2>4. QED
    BY <2>3 DEF a, x
<1>10. /\ ipv4' = Marked(before, Lookups(before, frame.feature.queries, frame.i))
       /\ ipv4' \in AddressTable(IPv4)
  <2> DEFINE qs == frame.feature.queries
             k == frame.i
  <2>1. /\ k \in 1..Len(qs) /\ qs \in QuerySeqs
        /\ qs[k].type = "A" /\ Hit(before, qs[k]) /\ Domain = EndOf(before.cname, qs[k].name)
    BY <1>1, <1>2, <1>3, <1>4, <1>5, PlaceType
  <2>2. ipv4 = Marked(before, Lookups(before, qs, k - 1))
    BY <1>2, <1>3 DEF ReceiveInv, LookedAt, Queries
  <2>3. ipv4' = [ipv4 EXCEPT ![Domain].manual = ZeroFirst(ipv4[Domain])]
    BY <1>1
  <2> HIDE DEF qs, k
  <2>4. QED
    <3> DEFINE new == ipv4'
    <3>1. new = [ipv4 EXCEPT ![Domain].manual = ZeroFirst(ipv4[Domain])]
      BY <2>3
    <3> HIDE DEF new
    <3>2. new = Marked(before, Lookups(before, qs, k)) /\ new \in AddressTable(IPv4)
      BY <1>3, <2>1, <2>2, <3>1, MarksAdd
    <3>3. QED
      BY <3>2 DEF new, qs, k
<1>11. /\ UNCHANGED <<status, owed, toUpstream, fromUpstream, clients, ipv6, cname>>
       /\ before' = before
       /\ UNCHANGED <<now, nextClear, zone, reply>>
  BY <1>1 DEF outside, network
<1>12. TypeOK'
  BY <1>3, <1>10, <1>11 DEF TypeOK
<1>13. /\ frame' = Advance(fr)
       /\ fr.banned <=> frame.banned \/
             (Query.type = "A" /\ ZeroFirst(before.ipv4[EndOf(before.cname, Query.name)]))
  BY <1>1, <1>3, <1>4, <1>8
<1>14. QED
  BY <1>1, <1>5, <1>8, <1>9, <1>10, <1>11, <1>12, <1>13, HitKeeps

LEMMA CountIPv6Keeps == ASSUME IInv, CountIPv6 PROVE IInv' /\ ~Idle'
<1> DEFINE more == Len(ipv6[Domain].node)
           fr == [frame EXCEPT !.answer_count = @ + more]
<1>1. /\ Counting /\ ~Follows /\ Query.type = "AAAA" /\ Cached(ipv6, Domain)
      /\ frame' = Advance(fr)
      /\ UNCHANGED <<vars, before>>
  BY DEF CountIPv6
<1>2. ~Idle /\ frame.pc = "counting" /\ frame.i \in DOMAIN Queries
  BY <1>1 DEF Counting, At
<1>3. /\ TypeOK /\ TablesOK(before) /\ PlaceOK(frame, before) /\ ReceiveInv
      /\ frame \in ReceiveLocals
      /\ Query = frame.feature.queries[frame.i] /\ Query \in Question
      /\ frame.i <= Len(frame.feature.queries)
      /\ Domain = frame.walk[Len(frame.walk)] /\ Domain \in Names
      /\ ipv6 = before.ipv6
  BY <1>1, <1>2, AtQuestion
<1>4. /\ Chases(Query) /\ ~Hanging(before, Query)
      /\ Chain(before.cname, Query.name) = frame.walk
      /\ EndOf(before.cname, Query.name) = Domain
  BY <1>1, AtEnd DEF Chases
<1>5. Hit(before, Query)
  BY <1>1, <1>3, <1>4 DEF Hit, Missing
<1>6. Cost(before, Query) = Steps(frame.walk) + more /\ Steps(frame.walk) \in Nat
  <2> DEFINE w == frame.walk
  <2>1. /\ TablesOK(before) /\ Query \in Question /\ Query.type = "AAAA" /\ Hit(before, Query)
        /\ Chain(before.cname, Query.name) = w /\ Domain = w[Len(w)]
    BY ONLY <1>1, <1>3, <1>4, <1>5
  <2> HIDE DEF w
  <2>2. Cost(before, Query) = Steps(w) + Len(before.ipv6[Domain].node) /\ Steps(w) \in Nat
    BY ONLY <2>1, EndOfIPv6Chase
  <2>3. QED
    BY ONLY <1>3, <2>2 DEF w, more
<1>7. more \in Nat
  BY <1>1, <1>3 DEF TablesOK, AddressTable, Entry, Cached
<1> HIDE DEF more
<1>8. /\ fr \in ReceiveLocals /\ fr.i = frame.i /\ fr.pc = frame.pc
      /\ fr.client = frame.client /\ fr.feature = frame.feature
      /\ fr.cached = frame.cached /\ fr.answers = frame.answers
      /\ fr.banned = frame.banned /\ fr.answer_count = frame.answer_count + more
  <2>1. frame.answer_count \in Nat
    BY <1>3 DEF ReceiveLocals
  <2>2. frame.answer_count + more \in Nat
    BY <1>7, <2>1
  <2>3. QED
    BY <1>3, <2>2 DEF ReceiveLocals
<1> HIDE DEF fr
<1>9. fr.answer_count + Steps(frame.walk) = frame.answer_count + Cost(before, Query)
  <2> DEFINE a == frame.answer_count
             x == Steps(frame.walk)
  <2>1. a \in Nat /\ x \in Nat /\ fr.answer_count = a + more /\ Cost(before, Query) = x + more
    BY <1>3, <1>6, <1>8 DEF ReceiveLocals
  <2> HIDE DEF a, x
  <2>2. fr.answer_count + x = a + Cost(before, Query)
    BY <1>7, <2>1
  <2>3. QED
    BY <2>2 DEF a, x
<1>10. ipv4' = Marked(before, Lookups(before, frame.feature.queries, frame.i))
  <2> DEFINE qs == frame.feature.queries
             k == frame.i
  <2>1. k \in Nat \ {0} /\ ~(qs[k].type = "A" /\ Hit(before, qs[k]))
    BY <1>1, <1>3, PlaceType
  <2>2. ipv4 = Marked(before, Lookups(before, qs, k - 1))
    BY <1>2, <1>3 DEF ReceiveInv, LookedAt, Queries
  <2> HIDE DEF qs, k
  <2>3. Lookups(before, qs, k) = Lookups(before, qs, k - 1)
    BY <2>1, MarksSame
  <2>4. ipv4' = ipv4
    BY <1>1 DEF vars, server
  <2>5. QED
    BY <2>2, <2>3, <2>4 DEF qs, k
<1>11. /\ UNCHANGED <<status, owed, toUpstream, fromUpstream, clients, ipv6, cname>>
       /\ before' = before
  BY <1>1 DEF vars, server, network
<1>12. TypeOK'
  BY <1>1, <1>3, TypeKept
<1>13. /\ frame' = Advance(fr)
       /\ fr.banned <=> frame.banned \/
             (Query.type = "A" /\ ZeroFirst(before.ipv4[EndOf(before.cname, Query.name)]))
  BY <1>1, <1>8
<1>14. QED
  BY <1>1, <1>5, <1>8, <1>9, <1>10, <1>11, <1>12, <1>13, HitKeeps

LEMMA CountNoAddressKeeps == ASSUME IInv, CountNoAddress PROVE IInv' /\ ~Idle'
<1>1. /\ Counting /\ ~Follows
      /\ (Query.type = "CNAME" /\ Len(frame.walk) > 1) \/ Query.type = "OTHER"
      /\ frame' = Advance(frame)
      /\ UNCHANGED <<vars, before>>
  BY DEF CountNoAddress
<1>2. ~Idle /\ frame.pc = "counting" /\ frame.i \in DOMAIN Queries
  BY <1>1 DEF Counting, At
<1>3. /\ TypeOK /\ TablesOK(before) /\ PlaceOK(frame, before) /\ ReceiveInv
      /\ frame \in ReceiveLocals
      /\ Query = frame.feature.queries[frame.i] /\ Query \in Question
      /\ frame.i <= Len(frame.feature.queries)
      /\ Len(frame.walk) \in Nat /\ Len(frame.walk) >= 1
  BY <1>1, <1>2, AtQuestion
<1>4. Hit(before, Query) /\ Cost(before, Query) = Steps(frame.walk)
  <2>1. CASE Query.type = "CNAME" /\ Len(frame.walk) > 1
    <3>1. /\ Chases(Query) /\ ~Hanging(before, Query)
          /\ Chain(before.cname, Query.name) = frame.walk
          /\ Cached(before.cname, Query.name)
      BY <1>1, <2>1, AtEnd DEF Chases
    <3>2. Hit(before, Query)
      BY <2>1, <3>1 DEF Hit, Missing
    <3>3. QED
      <4> DEFINE w == frame.walk
      <4>1. /\ TablesOK(before) /\ Query \in Question /\ Chases(Query) /\ Hit(before, Query)
            /\ Chain(before.cname, Query.name) = w
        BY ONLY <1>3, <3>1, <3>2
      <4> HIDE DEF w
      <4>2. Cost(before, Query) = Steps(w)
        BY ONLY <2>1, <4>1, EndOfChase
      <4>3. QED
        BY ONLY <3>2, <4>2 DEF w
  <2>2. CASE Query.type = "OTHER"
    <3>1. ~Chases(Query)
      BY <2>2 DEF Chases
    <3>2. Hit(before, Query)
      BY <2>2, <3>1 DEF Hit, Hanging, Missing
    <3>3. Cost(before, Query) = 0
      BY <3>1 DEF Cost
    <3>4. Len(frame.walk) = 1
      BY <1>3, <3>1 DEF PlaceOK
    <3>5. QED
      BY <3>2, <3>3, <3>4 DEF Steps
  <2>3. QED
    BY <1>1, <2>1, <2>2
<1>5. ipv4' = Marked(before, Lookups(before, frame.feature.queries, frame.i))
  <2> DEFINE qs == frame.feature.queries
             k == frame.i
  <2>1. k \in Nat \ {0} /\ ~(qs[k].type = "A" /\ Hit(before, qs[k]))
    BY <1>1, <1>3, PlaceType
  <2>2. ipv4 = Marked(before, Lookups(before, qs, k - 1))
    BY <1>2, <1>3 DEF ReceiveInv, LookedAt, Queries
  <2> HIDE DEF qs, k
  <2>3. Lookups(before, qs, k) = Lookups(before, qs, k - 1)
    BY <2>1, MarksSame
  <2>4. ipv4' = ipv4
    BY <1>1 DEF vars, server
  <2>5. QED
    BY <2>2, <2>3, <2>4 DEF qs, k
<1>6. /\ UNCHANGED <<status, owed, toUpstream, fromUpstream, clients, ipv6, cname>>
      /\ before' = before
  BY <1>1 DEF vars, server, network
<1>7. TypeOK'
  BY <1>1, <1>3, TypeKept
<1> DEFINE fr == frame
<1>8. /\ fr \in ReceiveLocals /\ fr.i = frame.i /\ fr.pc = frame.pc
      /\ fr.client = frame.client /\ fr.feature = frame.feature
      /\ fr.cached = frame.cached /\ fr.answers = frame.answers
      /\ fr.banned <=> frame.banned \/
            (Query.type = "A" /\ ZeroFirst(before.ipv4[EndOf(before.cname, Query.name)]))
      /\ fr.answer_count + Steps(frame.walk) = frame.answer_count + Cost(before, Query)
      /\ frame' = Advance(fr)
  BY <1>1, <1>3, <1>4
<1> HIDE DEF fr
<1>9. QED
  BY <1>1, <1>4, <1>5, <1>6, <1>7, <1>8, HitKeeps

LEMMA MissKeeps == ASSUME IInv, Miss PROVE IInv' /\ ~Idle'
<1> DEFINE fr == [frame EXCEPT !.cached = FALSE]
<1>1. /\ Counting /\ ~Follows
      /\ \/ Query.type = "A"     /\ ~Cached(ipv4, Domain)
         \/ Query.type = "CNAME" /\ Len(frame.walk) = 1
         \/ Query.type = "AAAA"  /\ ~Cached(ipv6, Domain)
      /\ frame' = Advance(fr)
      /\ UNCHANGED <<vars, before>>
  BY DEF Miss
<1>2. ~Idle /\ frame.pc = "counting" /\ frame.i \in DOMAIN Queries /\ frame.cached
  BY <1>1 DEF Counting, At
<1>3. /\ TypeOK /\ TablesOK(before) /\ PlaceOK(frame, before) /\ ReceiveInv
      /\ CountingOK(frame, before)
      /\ frame \in ReceiveLocals
      /\ Query = frame.feature.queries[frame.i] /\ Query \in Question
      /\ frame.i <= Len(frame.feature.queries)
      /\ ipv6 = before.ipv6
      /\ Cached(ipv4, Domain) <=> Cached(before.ipv4, Domain)
  BY <1>1, <1>2, AtQuestion
<1>4. /\ Chases(Query) /\ ~Hanging(before, Query)
      /\ EndOf(before.cname, Query.name) = Domain
      /\ Cached(before.cname, Query.name) <=> Len(frame.walk) > 1
  BY <1>1, AtEnd DEF Chases
<1>5. Missing(before, Query)
  <2>1. Len(frame.walk) \in Nat
    BY <1>2, AtQuestion
  <2>2. CASE Query.type = "A" /\ ~Cached(ipv4, Domain)
    BY <1>3, <1>4, <2>2 DEF Missing
  <2>3. CASE Query.type = "CNAME" /\ Len(frame.walk) = 1
    BY <1>4, <2>1, <2>3 DEF Missing
  <2>4. CASE Query.type = "AAAA" /\ ~Cached(ipv6, Domain)
    BY <1>3, <1>4, <2>4 DEF Missing
  <2>5. QED
    BY <1>1, <2>2, <2>3, <2>4
<1>6. /\ fr \in ReceiveLocals /\ fr.i = frame.i /\ fr.pc = frame.pc
      /\ fr.client = frame.client /\ fr.feature = frame.feature
      /\ ~fr.cached /\ fr.answers = frame.answers /\ fr.banned = frame.banned
  BY <1>3 DEF ReceiveLocals
<1> HIDE DEF fr
<1>7. /\ frame' \in ReceiveLocals
      /\ frame'.i = frame.i + 1 /\ frame'.walk = Start(frame.feature.queries, frame.i + 1)
      /\ frame'.pc = frame.pc /\ frame'.client = frame.client /\ frame'.feature = frame.feature
      /\ ~frame'.cached /\ frame'.banned = frame.banned /\ frame'.answers = frame.answers
  BY <1>1, <1>3, <1>6, Advanced
<1>8. PlaceOK(frame', before) /\ CountingOK(frame', before)
  <2> DEFINE fr2 == frame'
             q == frame.feature.queries[frame.i]
  <2>1. /\ fr2 \in ReceiveLocals /\ fr2.feature = frame.feature /\ fr2.pc = frame.pc
        /\ fr2.i = frame.i + 1 /\ fr2.walk = Start(frame.feature.queries, frame.i + 1)
        /\ ~fr2.cached /\ fr2.banned = frame.banned /\ fr2.answers = frame.answers
        /\ ~Hanging(before, q) /\ Missing(before, q)
    BY <1>3, <1>4, <1>5, <1>7
  <2> HIDE DEF fr2
  <2>2. PlaceOK(fr2, before) /\ CountingOK(fr2, before)
    BY <1>2, <1>3, <2>1, CountMiss
  <2>3. QED
    BY <2>2 DEF fr2
<1>9. ipv4' = Marked(before, Lookups(before, frame.feature.queries, LookedAt(frame')))
  <2> DEFINE qs == frame.feature.queries
             k == frame.i
  <2>1. k \in Nat \ {0} /\ ~(qs[k].type = "A" /\ Hit(before, qs[k]))
    BY <1>3, <1>5, PlaceType DEF Hit
  <2>2. ipv4 = Marked(before, Lookups(before, qs, k - 1))
    BY <1>2, <1>3 DEF ReceiveInv, LookedAt, Queries
  <2>3. LookedAt(frame') = k
    BY <1>2, <1>7, <2>1 DEF LookedAt
  <2> HIDE DEF qs, k
  <2>4. Lookups(before, qs, k) = Lookups(before, qs, k - 1)
    BY <2>1, MarksSame
  <2>5. ipv4' = ipv4
    BY <1>1 DEF vars, server
  <2>6. QED
    BY <2>2, <2>3, <2>4, <2>5 DEF qs, k
<1>10. /\ UNCHANGED <<status, owed, toUpstream, fromUpstream, clients, ipv6, cname>>
       /\ before' = before
  BY <1>1 DEF vars, server, network
<1>11. TypeOK'
  BY <1>1, <1>3, TypeKept
<1>12. IInv'
  BY <1>2, <1>7, <1>8, <1>9, <1>10, <1>11, ReceiveKept
<1>13. ~Idle'
  BY <1>7, AnsweringAssumption DEF Idle
<1>14. QED
  BY <1>12, <1>13

LEMMA AllocateKeeps == ASSUME IInv, Allocate PROVE IInv' /\ ~Idle'
<1> DEFINE first == Start(Queries, 1)
<1>1. /\ Past("counting") /\ frame.cached /\ ~frame.banned
      /\ frame' = [frame EXCEPT !.pc = "writing", !.room = frame.answer_count,
                                !.answer_count = 0, !.i = 1, !.walk = first]
      /\ UNCHANGED <<vars, before>>
  BY DEF Allocate
<1>2. ~Idle /\ frame.pc = "counting" /\ frame.i \notin DOMAIN Queries
  BY <1>1 DEF Past
<1>3. /\ TypeOK /\ TablesOK(before) /\ PlaceOK(frame, before) /\ ReceiveInv
      /\ CountingOK(frame, before)
      /\ frame \in ReceiveLocals
  BY <1>2 DEF IInv, ReceiveInv, PlaceOK
<1>4. /\ Queries = frame.feature.queries /\ frame.feature.queries \in QuerySeqs
      /\ Len(frame.feature.queries) \in Nat
      /\ frame.i = Len(frame.feature.queries) + 1
  BY <1>2, <1>3, PlaceType DEF Queries
<1>5. first \in Seq(Names) /\ first = Start(frame.feature.queries, 1)
  <2>1. 1 \in 1..(Len(frame.feature.queries) + 1)
    BY <1>4
  <2>2. QED
    BY <1>4, <2>1, Starts
<1> HIDE DEF first
<1>6. /\ frame' \in ReceiveLocals /\ frame'.pc = "writing"
      /\ frame'.client = frame.client /\ frame'.feature = frame.feature
      /\ frame'.cached = frame.cached /\ frame'.room = frame.answer_count
      /\ frame'.answers = frame.answers /\ frame'.i = 1
      /\ frame'.walk = Start(frame.feature.queries, 1)
  BY <1>1, <1>3, <1>5 DEF ReceiveLocals
<1>7. PlaceOK(frame', before) /\ WritingOK(frame', before)
  <2> DEFINE fr2 == frame'
  <2>1. /\ fr2 \in ReceiveLocals
        /\ fr2.feature = frame.feature /\ fr2.cached = frame.cached
        /\ fr2.room = frame.answer_count /\ fr2.answers = frame.answers
        /\ fr2.i = 1 /\ fr2.walk = Start(frame.feature.queries, 1)
    BY <1>6
  <2> HIDE DEF fr2
  <2>2. PlaceOK(fr2, before) /\ WritingOK(fr2, before)
    BY <1>1, <1>3, <1>4, <2>1, Allocated
  <2>3. QED
    BY <2>2 DEF fr2
<1>8. ipv4' = Marked(before, Lookups(before, frame.feature.queries, LookedAt(frame')))
  <2>1. ipv4 = Marked(before, Lookups(before, frame.feature.queries, LookedAt(frame)))
    BY <1>3, <1>4 DEF ReceiveInv
  <2>2. LookedAt(frame') = Len(frame.feature.queries) /\ LookedAt(frame) = Len(frame.feature.queries)
    BY <1>2, <1>4, <1>6 DEF LookedAt
  <2>3. ipv4' = ipv4
    BY <1>1 DEF vars, server
  <2>4. QED
    BY <2>1, <2>2, <2>3
<1>9. /\ UNCHANGED <<status, owed, toUpstream, fromUpstream, clients, ipv6, cname>>
      /\ before' = before
  BY <1>1 DEF vars, server, network
<1>10. TypeOK'
  BY <1>1, <1>3, TypeKept
<1>11. IInv'
  BY <1>2, <1>6, <1>7, <1>8, <1>9, <1>10, ReceiveKept
<1>12. ~Idle'
  BY <1>6, AnsweringAssumption DEF Idle
<1>13. QED
  BY <1>11, <1>12

\* The effect of writing records.
LEMMA WrittenIs ==
    ASSUME NEW fr \in ReceiveLocals, NEW rrs \in Seq(RR)
    PROVE  /\ Written(fr, rrs) \in ReceiveLocals
           /\ Written(fr, rrs).answers = fr.answers \o rrs
           /\ Written(fr, rrs).pc = fr.pc /\ Written(fr, rrs).client = fr.client
           /\ Written(fr, rrs).feature = fr.feature /\ Written(fr, rrs).i = fr.i
           /\ Written(fr, rrs).walk = fr.walk /\ Written(fr, rrs).cached = fr.cached
           /\ Written(fr, rrs).room = fr.room
<1> DEFINE new == fr.answers \o rrs
           count == fr.answer_count + Len(rrs)
<1>1. new \in Seq(RR) /\ count \in Nat
  BY ConcatSet DEF ReceiveLocals
<1>2. Written(fr, rrs) = [fr EXCEPT !.answers = new, !.answer_count = count]
  BY DEF Written
<1> HIDE DEF new, count
<1>3. Written(fr, rrs) \in ReceiveLocals
  BY <1>1, <1>2 DEF ReceiveLocals
<1>4. Written(fr, rrs).answers = new
  BY <1>2 DEF ReceiveLocals
<1>5. QED
  BY <1>2, <1>3, <1>4 DEF ReceiveLocals, new

LEMMA WriteAliasKeeps == ASSUME IInv, WriteAlias PROVE IInv' /\ ~Idle'
<1> DEFINE target == cname[Domain].name
           longer == Append(frame.walk, target)
           rr == [type |-> "CNAME", name |-> Domain, data |-> target]
           fr == [frame EXCEPT !.walk = longer]
<1>1. /\ Writing /\ Follows
      /\ frame' = Written(fr, <<rr>>)
      /\ UNCHANGED <<vars, before>>
  BY DEF WriteAlias
<1>2. ~Idle /\ frame.pc = "writing" /\ frame.i \in DOMAIN Queries
  BY <1>1 DEF Writing, At
<1>3. /\ TypeOK /\ TablesOK(before) /\ PlaceOK(frame, before) /\ WritingOK(frame, before)
      /\ frame \in ReceiveLocals /\ Query = frame.feature.queries[frame.i]
      /\ frame.i <= Len(frame.feature.queries)
      /\ Domain = Last(frame.walk) /\ Domain \in Names
      /\ Chases(Query) /\ Cached(before.cname, Domain)
      /\ cname = before.cname
      /\ ReceiveInv
  BY <1>1, <1>2, AtQuestion
<1>4. target \in Names
  BY <1>3 DEF TablesOK, AliasTable, Alias, Cached
<1>5. target = before.cname[Last(frame.walk)].name
  BY <1>3
<1>6. longer = Append(frame.walk, target) /\ rr = [type |-> "CNAME", name |-> Domain, data |-> target]
  OBVIOUS
<1> HIDE DEF target
<1>7. <<rr>> \in Seq(RR)
  <2>1. rr \in RR
    BY <1>3, <1>4 DEF RR, CnameRR
  <2> HIDE DEF rr
  <2>2. QED
    BY <2>1
<1>8. longer \in Seq(Names)
  BY <1>3, <1>4, AppendProperties DEF ReceiveLocals
<1> HIDE DEF longer, rr
<1>9. /\ fr \in ReceiveLocals
      /\ fr.pc = frame.pc /\ fr.client = frame.client /\ fr.feature = frame.feature
      /\ fr.i = frame.i /\ fr.walk = longer /\ fr.cached = frame.cached
      /\ fr.room = frame.room /\ fr.answers = frame.answers
  BY <1>3, <1>8 DEF ReceiveLocals
<1> HIDE DEF fr
<1>10. /\ frame' \in ReceiveLocals /\ frame'.feature = frame.feature /\ frame'.i = frame.i
       /\ frame'.walk = longer /\ frame'.client = frame.client
       /\ frame'.cached = frame.cached /\ frame'.room = frame.room
       /\ frame'.answers = frame.answers \o <<rr>>
       /\ frame'.pc = frame.pc
  <2> DEFINE rrs == <<rr>>
  <2>1. rrs \in Seq(RR) /\ frame' = Written(fr, rrs)
    BY <1>1, <1>7
  <2>2. frame'.answers = frame.answers \o rrs => frame'.answers = frame.answers \o <<rr>>
    OBVIOUS
  <2> HIDE DEF rrs
  <2> DEFINE fr2 == Written(fr, rrs)
  <2>3. /\ fr2 \in ReceiveLocals
        /\ fr2.answers = fr.answers \o rrs
        /\ fr2.pc = fr.pc /\ fr2.client = fr.client /\ fr2.feature = fr.feature
        /\ fr2.i = fr.i /\ fr2.walk = fr.walk /\ fr2.cached = fr.cached
        /\ fr2.room = fr.room
    BY <1>9, <2>1, WrittenIs
  <2>4. frame' = fr2
    BY <2>1
  <2> HIDE DEF fr2
  <2>5. QED
    BY <1>9, <2>2, <2>3, <2>4
<1>11. PlaceOK(frame', before) /\ WritingOK(frame', before)
  <2> DEFINE fr2 == frame'
  <2>1. /\ fr2 \in ReceiveLocals /\ fr2.feature = frame.feature /\ fr2.i = frame.i
        /\ fr2.cached = frame.cached /\ fr2.room = frame.room
        /\ fr2.walk = Append(frame.walk, before.cname[Last(frame.walk)].name)
        /\ fr2.answers = frame.answers \o
              <<[type |-> "CNAME", name |-> Last(frame.walk),
                 data |-> before.cname[Last(frame.walk)].name]>>
    BY <1>3, <1>5, <1>6, <1>10
  <2> HIDE DEF fr2
  <2>2. Chases(frame.feature.queries[frame.i]) /\ Cached(before.cname, Last(frame.walk))
    BY <1>3
  <2>3. PlaceOK(fr2, before) /\ WritingOK(fr2, before)
    BY <1>3, <2>1, <2>2, WriteStep
  <2>4. QED
    BY <2>3 DEF fr2
<1>12. TypeOK'
  BY <1>1, <1>3, TypeKept
<1>13. /\ before' = before
       /\ UNCHANGED <<status, owed, toUpstream, fromUpstream, clients, ipv4, ipv6, cname>>
  BY <1>1 DEF vars, server, network
<1>14. ipv4' = Marked(before, Lookups(before, frame.feature.queries, LookedAt(frame')))
  BY <1>2, <1>3, <1>10, <1>13 DEF ReceiveInv, LookedAt, Queries
<1>15. IInv'
  BY <1>2, <1>10, <1>11, <1>12, <1>13, <1>14, ReceiveKept
<1>16. ~Idle'
  BY <1>10, AnsweringAssumption DEF Idle
<1>17. QED
  BY <1>15, <1>16

\* The addresses of an entry, as the records that are written.
LEMMA AddressesAre ==
    ASSUME NEW S, NEW node \in Seq(S), NEW type, NEW table, NEW n, table[n].node = node,
           Domain = n,
           \A x \in S : [type |-> type, name |-> n, data |-> x] \in RR
    PROVE  /\ Addresses(type, node) \in Seq(RR)
           /\ Len(Addresses(type, node)) = Len(node)
           /\ ToSet(Addresses(type, node)) = AddressRecords(type, table, n)
<1> DEFINE rr(x) == [type |-> type, name |-> n, data |-> x]
           len == Len(node)
           rrs == [k \in 1..len |-> rr(node[k])]
<1>1. len \in Nat /\ DOMAIN node = 1..len /\ \A k \in 1..len : node[k] \in S
  BY LenProperties, ElementOfSeq
<1>2. Addresses(type, node) = rrs
  BY <1>1 DEF Addresses
<1>3. \A k \in 1..len : rr(node[k]) \in RR
  BY <1>1
<1>4. ToSet(rrs) = AddressRecords(type, table, n)
  BY <1>1 DEF ToSet, AddressRecords
<1> HIDE DEF rr, len
<1>5. rrs \in Seq(RR) /\ Len(rrs) = len
  BY <1>1, <1>3
<1>6. QED
  BY <1>2, <1>4, <1>5 DEF len

LEMMA WriteAddressesKeeps == ASSUME IInv, WriteAddresses PROVE IInv' /\ ~Idle'
<1> DEFINE rrs ==
             CASE Query.type = "A"    /\ Cached(ipv4, Domain) -> Addresses("A", ipv4[Domain].node)
               [] Query.type = "AAAA" /\ Cached(ipv6, Domain) -> Addresses("AAAA", ipv6[Domain].node)
               [] OTHER -> <<>>
           w == frame.walk
<1>1. /\ Writing /\ ~Follows
      /\ frame' = Advance(Written(frame, rrs))
      /\ UNCHANGED <<vars, before>>
  BY DEF WriteAddresses
<1>2. ~Idle /\ frame.pc = "writing" /\ frame.i \in DOMAIN Queries
  BY <1>1 DEF Writing, At
<1>3. /\ TypeOK /\ TablesOK(before) /\ PlaceOK(frame, before) /\ WritingOK(frame, before)
      /\ frame \in ReceiveLocals /\ Query = frame.feature.queries[frame.i]
      /\ Query \in Question
      /\ frame.i <= Len(frame.feature.queries)
      /\ Domain = w[Len(w)] /\ Domain \in Names
      /\ ~(Chases(Query) /\ Cached(before.cname, Domain))
      /\ Linked(before.cname, w, Query.name)
      /\ cname = before.cname /\ ipv6 = before.ipv6
      /\ Cached(ipv4, Domain) <=> Cached(before.ipv4, Domain)
      /\ Cached(before.ipv4, Domain) => ipv4[Domain].node = before.ipv4[Domain].node
      /\ ReceiveInv
  BY <1>1, <1>2, AtQuestion
<1>4. Hit(before, Query)
  <2>1. frame.i \in 1..Len(frame.feature.queries)
    BY <1>3, PlaceType
  <2>2. QED
    BY <1>3, <2>1 DEF WritingOK
<1>5. ASSUME Chases(Query)
      PROVE  /\ Chain(before.cname, Query.name) = w
             /\ EndOf(before.cname, Query.name) = Domain
  <2>1. ~Endless(before.cname, Query.name) /\ before.cname \in AliasTable
    BY <1>3, <1>4, <1>5 DEF Hit, Hanging, TablesOK
  <2>2. Query.name \in Names
    BY <1>3 DEF Question
  <2>3. w = Chain(before.cname, Query.name)
    BY <1>3, <1>5, <2>1, <2>2, WithinChain
  <2>4. QED
    BY <1>3, <2>3 DEF EndOf
<1> HIDE DEF w
<1>6. /\ rrs \in Seq(RR)
      /\ Len(rrs) + Steps(w) = Cost(before, Query)
      /\ generate_cname_response(w) \cup ToSet(rrs) = Records(before, Query)
  <2>1. CASE Query.type = "A"
    <3> DEFINE node == before.ipv4[Domain].node
               as == Addresses("A", node)
    <3>1. Chases(Query)
      BY <2>1 DEF Chases
    <3>2. Cached(before.ipv4, Domain)
      BY <1>4, <1>5, <2>1, <3>1 DEF Hit, Missing
    <3>3. rrs = as
      BY <1>3, <2>1, <3>2
    <3>4. node \in Seq(IPv4)
      BY <1>3, <3>2 DEF TablesOK, AddressTable, Entry, Cached
    <3> HIDE DEF node
    <3>5. \A x \in IPv4 : [type |-> "A", name |-> Domain, data |-> x] \in RR
      BY <1>3 DEF RR, ARR
    <3>6. /\ as \in Seq(RR) /\ Len(as) = Len(node)
          /\ ToSet(as) = AddressRecords("A", before.ipv4, Domain)
      <4> DEFINE type == "A"
                 n == Domain
                 table == before.ipv4
      <4>1. /\ table[n].node = node /\ Domain = n /\ as = Addresses(type, node)
            /\ \A x \in IPv4 : [type |-> type, name |-> n, data |-> x] \in RR
        BY <3>5 DEF node
      <4> HIDE DEF type, n, table, as
      <4>2. /\ as \in Seq(RR) /\ Len(as) = Len(node)
            /\ ToSet(as) = AddressRecords(type, table, n)
        BY <3>4, <4>1, AddressesAre
      <4>3. QED
        BY <4>2 DEF type, n, table
    <3>7. Len(node) \in Nat
      BY <3>4, LenProperties
    <3>8. /\ Steps(w) \in Nat
          /\ Cost(before, Query) = Steps(w) + Len(node)
          /\ Records(before, Query) = generate_cname_response(w)
                                         \cup AddressRecords("A", before.ipv4, Domain)
      <4>1. /\ TablesOK(before) /\ Query \in Question /\ Query.type = "A" /\ Hit(before, Query)
            /\ Chain(before.cname, Query.name) = w /\ Domain = w[Len(w)]
        BY ONLY <1>3, <1>4, <1>5, <2>1, <3>1
      <4>2. QED
        BY ONLY <4>1, EndOfIPv4Chase DEF node
    <3> HIDE DEF rrs, as
    <3>9. rrs \in Seq(RR) /\ Len(rrs) = Len(node) /\ ToSet(rrs) = ToSet(as)
      BY <3>3, <3>6
    <3>10. Len(rrs) + Steps(w) = Cost(before, Query)
      BY <3>7, <3>8, <3>9
    <3>11. generate_cname_response(w) \cup ToSet(rrs) = Records(before, Query)
      BY <3>6, <3>8, <3>9
    <3>12. QED
      BY <3>9, <3>10, <3>11
  <2>2. CASE Query.type = "AAAA"
    <3> DEFINE node == before.ipv6[Domain].node
               as == Addresses("AAAA", node)
    <3>1. Chases(Query)
      BY <2>2 DEF Chases
    <3>2. Cached(before.ipv6, Domain)
      BY <1>4, <1>5, <2>2, <3>1 DEF Hit, Missing
    <3>3. rrs = as
      BY <1>3, <2>2, <3>2
    <3>4. node \in Seq(IPv6)
      BY <1>3, <3>2 DEF TablesOK, AddressTable, Entry, Cached
    <3> HIDE DEF node
    <3>5. \A x \in IPv6 : [type |-> "AAAA", name |-> Domain, data |-> x] \in RR
      BY <1>3 DEF RR, AaaaRR
    <3>6. /\ as \in Seq(RR) /\ Len(as) = Len(node)
          /\ ToSet(as) = AddressRecords("AAAA", before.ipv6, Domain)
      <4> DEFINE type == "AAAA"
                 n == Domain
                 table == before.ipv6
      <4>1. /\ table[n].node = node /\ Domain = n /\ as = Addresses(type, node)
            /\ \A x \in IPv6 : [type |-> type, name |-> n, data |-> x] \in RR
        BY <3>5 DEF node
      <4> HIDE DEF type, n, table, as
      <4>2. /\ as \in Seq(RR) /\ Len(as) = Len(node)
            /\ ToSet(as) = AddressRecords(type, table, n)
        BY <3>4, <4>1, AddressesAre
      <4>3. QED
        BY <4>2 DEF type, n, table
    <3>7. Len(node) \in Nat
      BY <3>4, LenProperties
    <3>8. /\ Steps(w) \in Nat
          /\ Cost(before, Query) = Steps(w) + Len(node)
          /\ Records(before, Query) = generate_cname_response(w)
                                         \cup AddressRecords("AAAA", before.ipv6, Domain)
      <4>1. /\ TablesOK(before) /\ Query \in Question /\ Query.type = "AAAA" /\ Hit(before, Query)
            /\ Chain(before.cname, Query.name) = w /\ Domain = w[Len(w)]
        BY ONLY <1>3, <1>4, <1>5, <2>2, <3>1
      <4>2. QED
        BY ONLY <4>1, EndOfIPv6Chase DEF node
    <3> HIDE DEF rrs, as
    <3>9. rrs \in Seq(RR) /\ Len(rrs) = Len(node) /\ ToSet(rrs) = ToSet(as)
      BY <3>3, <3>6
    <3>10. Len(rrs) + Steps(w) = Cost(before, Query)
      BY <3>7, <3>8, <3>9
    <3>11. generate_cname_response(w) \cup ToSet(rrs) = Records(before, Query)
      BY <3>6, <3>8, <3>9
    <3>12. QED
      BY <3>9, <3>10, <3>11
  <2>3. CASE Query.type \notin {"A", "AAAA"}
    <3>1. rrs = <<>>
      BY <2>3
    <3>2. rrs \in Seq(RR) /\ Len(rrs) = 0 /\ ToSet(rrs) = {}
      <4>1. <<>> \in Seq(RR) /\ Len(<<>>) = 0 /\ DOMAIN <<>> = {}
        OBVIOUS
      <4> HIDE DEF rrs
      <4>2. QED
        BY <3>1, <4>1 DEF ToSet
    <3> HIDE DEF rrs
    <3>3. CASE Query.type = "CNAME"
      <4>1. Chases(Query)
        BY <3>3 DEF Chases
      <4>2. /\ Steps(w) \in Nat
            /\ Cost(before, Query) = Steps(w)
            /\ Records(before, Query) = generate_cname_response(w)
        <5>1. /\ TablesOK(before) /\ Query \in Question /\ Hit(before, Query)
              /\ Chain(before.cname, Query.name) = w
          BY ONLY <1>3, <1>4, <1>5, <4>1
        <5>2. QED
          BY ONLY <3>3, <4>1, <5>1, EndOfChase
      <4>3. QED
        BY <3>2, <4>2
    <3>4. CASE Query.type # "CNAME"
      <4>1. ~Chases(Query)
        BY <1>3, <2>3, <3>4 DEF Chases, Question, QTypes
      <4>2. Len(w) = 1
        BY <1>3, <4>1 DEF PlaceOK, w
      <4>3. Steps(w) = 0 /\ generate_cname_response(w) = {}
        BY <4>2 DEF Steps, generate_cname_response
      <4>4. Cost(before, Query) = 0 /\ Records(before, Query) = {}
        BY <4>1 DEF Cost, Records
      <4>5. QED
        BY <3>2, <4>3, <4>4
    <3>5. QED
      BY <3>3, <3>4
  <2>4. QED
    BY <2>1, <2>2, <2>3
<1> HIDE DEF rrs
<1> DEFINE fr == Written(frame, rrs)
<1>7. /\ fr \in ReceiveLocals
      /\ fr.answers = frame.answers \o rrs
      /\ fr.pc = frame.pc /\ fr.client = frame.client /\ fr.feature = frame.feature
      /\ fr.i = frame.i /\ fr.cached = frame.cached /\ fr.room = frame.room
  BY <1>3, <1>6, WrittenIs
<1>8. frame' = Advance(fr)
  BY <1>1
<1> HIDE DEF fr
<1>9. /\ frame' \in ReceiveLocals
      /\ frame'.i = frame.i + 1 /\ frame'.walk = Start(frame.feature.queries, frame.i + 1)
      /\ frame'.pc = frame.pc /\ frame'.client = frame.client /\ frame'.feature = frame.feature
      /\ frame'.cached = frame.cached /\ frame'.room = frame.room
      /\ frame'.answers = frame.answers \o rrs
  BY <1>3, <1>7, <1>8, Advanced
<1>10. PlaceOK(frame', before) /\ WritingOK(frame', before)
  <2> DEFINE fr2 == frame'
             q == frame.feature.queries[frame.i]
  <2>1. /\ fr2 \in ReceiveLocals /\ fr2.feature = frame.feature
        /\ fr2.i = frame.i + 1 /\ fr2.walk = Start(frame.feature.queries, frame.i + 1)
        /\ fr2.cached = frame.cached /\ fr2.room = frame.room
        /\ fr2.answers = frame.answers \o rrs
        /\ Len(rrs) + Steps(frame.walk) = Cost(before, q)
        /\ generate_cname_response(frame.walk) \cup ToSet(rrs) = Records(before, q)
    BY <1>3, <1>6, <1>9 DEF w
  <2> HIDE DEF fr2
  <2>2. PlaceOK(fr2, before) /\ WritingOK(fr2, before)
    BY <1>3, <1>6, <2>1, WriteHit
  <2>3. QED
    BY <2>2 DEF fr2
<1>11. TypeOK'
  BY <1>1, <1>3, TypeKept
<1>12. /\ before' = before
       /\ UNCHANGED <<status, owed, toUpstream, fromUpstream, clients, ipv4, ipv6, cname>>
  BY <1>1 DEF vars, server, network
<1>13. ipv4' = Marked(before, Lookups(before, frame.feature.queries, LookedAt(frame')))
  BY <1>2, <1>3, <1>9, <1>12 DEF ReceiveInv, LookedAt, Queries
<1>14. IInv'
  BY <1>2, <1>9, <1>10, <1>11, <1>12, <1>13, ReceiveKept
<1>15. ~Idle'
  BY <1>9, AnsweringAssumption DEF Idle
<1>16. QED
  BY <1>14, <1>15

-----------------------------------------------------------------------------
(* The callbacks begin *)

\* Before the first question nothing is marked.
LEMMA NoMarks ==
    ASSUME NEW t, TablesOK(t), NEW qs
    PROVE  Lookups(t, qs, 0) = {} /\ t.ipv4 = Marked(t, Lookups(t, qs, 0))
<1>1. 1..0 = {}
  OBVIOUS
<1>2. Lookups(t, qs, 0) = {}
  BY <1>1 DEF Lookups
<1> DEFINE new == Marked(t, {})
<1>3. new = [n \in Names |-> t.ipv4[n]]
  BY DEF Marked
<1>4. t.ipv4 \in [Names -> Entry(IPv4) \cup {NULL}]
  BY DEF TablesOK, AddressTable
<1> HIDE DEF new
<1>5. new = t.ipv4
  BY <1>3, <1>4
<1>6. QED
  BY <1>2, <1>5 DEF new

LEMMA ReceiveKeeps ==
    ASSUME IInv, NEW c \in Clients, NEW f \in Feature, Receive(c, f)
    PROVE  IInv' /\ ~Idle'
<1> DEFINE qs == f.queries
           first == Start(f.queries, 1)
           fr == [pc |-> "counting", client |-> c, feature |-> f,
                  i |-> 1, walk |-> first, cached |-> TRUE, banned |-> FALSE,
                  answer_count |-> 0, room |-> 0, answers |-> <<>>]
           t == Tables
<1>1. /\ status = "running" /\ f.id \in IdsOf[c] /\ owed[c][f] < MaxOwed
      /\ Cardinality(toUpstream) + Cardinality(fromUpstream) < MaxInFlight
      /\ clients' = [clients EXCEPT ![f] = c]
      /\ before' = t /\ frame' = fr
      /\ UNCHANGED <<outside, ipv4, ipv6, cname>>
  BY DEF Receive
<1>2. TypeOK
  BY DEF IInv
<1>3. /\ t.clients = clients /\ t.ipv4 = ipv4 /\ t.ipv6 = ipv6 /\ t.cname = cname
      /\ TablesOK(t)
  BY <1>2 DEF Tables, TablesOK, TypeOK
<1> HIDE DEF t
<1>4. qs \in QuerySeqs /\ Len(qs) \in Nat
  BY QuestionType DEF Feature
<1>5. /\ first \in Seq(Names) /\ Steps(first) = 0 /\ Distinct(first)
      /\ 1 = Len(qs) + 1 => first = <<>>
      /\ 1 <= Len(qs) => Linked(t.cname, first, qs[1].name) /\ Len(first) = 1
  <2>1. 1 \in 1..(Len(qs) + 1)
    BY <1>4
  <2>2. QED
    BY <1>4, <2>1, Starts
<1> HIDE DEF first
<1>6. /\ fr.pc = "counting" /\ fr.client = c /\ fr.feature = f /\ fr.i = 1
      /\ fr.walk = first /\ fr.cached /\ ~fr.banned /\ fr.answer_count = 0
      /\ fr.answers = <<>>
  OBVIOUS
<1>7. fr \in ReceiveLocals
  <2>1. <<>> \in Seq(RR)
    OBVIOUS
  <2>2. QED
    BY <1>5, <2>1 DEF ReceiveLocals
<1> HIDE DEF fr
<1>8. PlaceOK(fr, t)
  <2>1. fr.i \in 1..(Len(qs) + 1)
    BY <1>4, <1>6
  <2>2. QED
    BY <1>4, <1>5, <1>6, <1>7, <2>1 DEF PlaceOK
<1>9. CountingOK(fr, t)
  <2>1. Total(t, qs)[0] = 0
    BY <1>3, <1>4, TotalAdds
  <2>2. Lookups(t, qs, 0) = {}
    BY <1>3, NoMarks
  <2>3. 1..(fr.i - 1) = {} /\ fr.i - 1 = 0 /\ fr.feature.queries = qs
    BY <1>6
  <2> HIDE DEF qs
  <2>4. fr.answer_count = Total(t, qs)[fr.i - 1] + Steps(fr.walk)
    BY <1>5, <1>6, <2>1, <2>3
  <2>5. ~ \E n \in Lookups(t, qs, fr.i - 1) : ZeroFirst(t.ipv4[n])
    BY <2>2, <2>3
  <2>6. \A j \in 1..(fr.i - 1) : Hit(t, qs[j])
    BY <2>3
  <2>7. QED
    BY <1>5, <1>6, <2>3, <2>4, <2>5, <2>6 DEF CountingOK
<1>10. LookedAt(fr) = 0
  BY <1>6 DEF LookedAt
<1>11. TypeOK'
  <2>1. clients' \in [Feature -> Clients \cup {NULL}]
    BY <1>1, <1>2, WaitingType
  <2>2. QED
    BY <1>1, <1>2, <2>1 DEF TypeOK, outside, network
<1>12. ReceiveInv'
  <2>1. PlaceOK(frame', before') /\ CountingOK(frame', before')
    BY <1>1, <1>8, <1>9
  <2>2. frame'.pc = "counting" /\ frame'.feature = f /\ frame'.client = c
    BY <1>1, <1>6
  <2>3. /\ status' = "running"
        /\ owed' = owed /\ toUpstream' = toUpstream /\ fromUpstream' = fromUpstream
        /\ ipv4' = ipv4 /\ ipv6' = ipv6 /\ cname' = cname
    BY <1>1 DEF outside, network
  <2>4. clients' = [before'.clients EXCEPT ![f] = c]
    BY <1>1, <1>3
  <2>5. ipv4' = Marked(before', Lookups(before', Queries', LookedAt(frame')))
    <3>1. t.ipv4 = Marked(t, Lookups(t, qs, 0))
      BY <1>3, NoMarks
    <3>2. Queries' = qs
      BY <2>2 DEF Queries
    <3>3. LookedAt(frame') = 0 /\ before' = t
      BY <1>1, <1>10
    <3>4. QED
      BY <1>3, <2>3, <3>1, <3>2, <3>3
  <2>6. QED
    BY <1>1, <1>3, <2>1, <2>2, <2>3, <2>4, <2>5 DEF ReceiveInv
<1>13. TablesOK(before')
  BY <1>1, <1>3
<1>14. frame'.pc # "learning"
  BY <1>1, <1>6
<1>15. IInv'
  BY <1>11, <1>12, <1>13, <1>14 DEF IInv
<1>16. ~Idle'
  BY <1>1, <1>7, AnsweringAssumption DEF Idle
<1>17. QED
  BY <1>15, <1>16

\* What is done of a list when nothing is, and when one more is.
LEMMA DoneIs ==
    ASSUME NEW S, NEW all \in Seq(S), NEW rest \in Seq(S), Rest(all, rest)
    PROVE  /\ Len(all) \in Nat /\ Len(rest) \in Nat /\ Len(rest) <= Len(all)
           /\ rest = all => Done(all, rest) = <<>>
           /\ rest = <<>> => Done(all, rest) = all
           /\ rest # <<>> =>
                /\ Tail(rest) \in Seq(S) /\ Rest(all, Tail(rest))
                /\ Head(rest) \in S /\ Head(rest) = all[Len(all) - Len(rest) + 1]
                /\ Len(Tail(rest)) = Len(rest) - 1
                /\ Len(rest) >= 1
<1>1. /\ Len(all) \in Nat /\ Len(rest) \in Nat /\ Len(rest) <= Len(all)
      /\ \A k \in 1..Len(rest) : rest[k] = all[Len(all) - Len(rest) + k]
  BY LenProperties DEF Rest
<1>2. ASSUME rest = all PROVE Done(all, rest) = <<>>
  <2>1. Len(all) - Len(rest) = 0 /\ 1..0 = {}
    BY <1>1, <1>2
  <2>2. [j \in 1..0 |-> all[j]] = <<>>
    OBVIOUS
  <2>3. QED
    BY <2>1, <2>2 DEF Done, Taken
<1>3. ASSUME rest = <<>> PROVE Done(all, rest) = all
  <2>1. Len(rest) = 0
    BY <1>3
  <2>2. Len(all) - Len(rest) = Len(all)
    BY <1>1, <2>1
  <2>3. all = [j \in 1..Len(all) |-> all[j]]
    OBVIOUS
  <2>4. QED
    BY <2>2, <2>3 DEF Done, Taken
<1>4. ASSUME rest # <<>>
      PROVE  /\ Tail(rest) \in Seq(S) /\ Rest(all, Tail(rest))
             /\ Head(rest) \in S /\ Head(rest) = all[Len(all) - Len(rest) + 1]
             /\ Len(Tail(rest)) = Len(rest) - 1
             /\ Len(rest) >= 1
  <2> DEFINE tail == Tail(rest)
             m == Len(rest)
             n == Len(all)
  <2>1. /\ tail \in Seq(S) /\ Len(tail) = m - 1 /\ m >= 1
        /\ \A k \in 1..(m - 1) : tail[k] = rest[k + 1]
        /\ Head(rest) = rest[1] /\ rest[1] \in S
    BY <1>1, <1>4, HeadTailProperties
  <2>2. /\ m \in Nat /\ n \in Nat /\ m <= n
        /\ \A k \in 1..m : rest[k] = all[n - m + k]
    BY <1>1
  <2> HIDE DEF tail, m, n
  <2>3. ASSUME NEW k \in 1..(m - 1) PROVE tail[k] = all[n - (m - 1) + k]
    <3>1. k + 1 \in 1..m /\ n - m + (k + 1) = n - (m - 1) + k
      BY <2>1, <2>2
    <3>2. QED
      BY <2>1, <2>2, <3>1
  <2>4. Len(tail) \in 0..n
    BY <2>1, <2>2
  <2>5. Rest(all, tail)
    BY <2>1, <2>3, <2>4 DEF Rest, n
  <2>6. rest[1] = all[n - m + 1]
    BY <2>1, <2>2
  <2>7. QED
    BY <2>1, <2>5, <2>6 DEF tail, m, n
<1>5. QED
  BY <1>1, <1>2, <1>3, <1>4

\* What the puts of a response leave under a name.
LEMMA PutsAre ==
    ASSUME NEW table, NEW rrs, NEW ttl, NEW t, NEW n \in Names
    PROVE  /\ (\A i \in DOMAIN rrs : rrs[i].name # n) =>
                 cname_cache_puts(table, rrs, ttl, t)[n] = table[n]
           /\ \A i \in DOMAIN rrs :
                 rrs[i].name = n /\ (\A j \in DOMAIN rrs : j \in Nat /\ (rrs[j].name = n => j <= i)) =>
                    cname_cache_puts(table, rrs, ttl, t)[n] =
                       [name |-> rrs[i].data, ttl |-> ttl, timestamp |-> t, manual |-> FALSE]
<1> DEFINE Of(i) == rrs[i].name = n /\ \A j \in DOMAIN rrs : rrs[j].name = n => j <= i
           last == CHOOSE i \in DOMAIN rrs : Of(i)
           entry(i) == [name |-> rrs[i].data, ttl |-> ttl, timestamp |-> t, manual |-> FALSE]
<1>1. cname_cache_puts(table, rrs, ttl, t)[n] =
         IF \E i \in DOMAIN rrs : rrs[i].name = n THEN entry(last) ELSE table[n]
  BY DEF cname_cache_puts
<1>2. ASSUME NEW i \in DOMAIN rrs, Of(i), \A j \in DOMAIN rrs : j \in Nat
      PROVE  last = i
  <2>1. last \in DOMAIN rrs /\ Of(last)
    BY <1>2
  <2>2. last \in Nat /\ i \in Nat /\ last <= i /\ i <= last
    BY <1>2, <2>1
  <2>3. QED
    BY <2>2
<1>3. ASSUME NEW i \in DOMAIN rrs, rrs[i].name = n,
             \A j \in DOMAIN rrs : j \in Nat /\ (rrs[j].name = n => j <= i)
      PROVE  cname_cache_puts(table, rrs, ttl, t)[n] = entry(i)
  <2>1. Of(i) /\ \A j \in DOMAIN rrs : j \in Nat
    BY <1>3
  <2>2. last = i
    BY <1>2, <2>1
  <2> HIDE DEF last
  <2>3. QED
    BY <1>1, <1>3, <2>2
<1>4. QED
  BY <1>1, <1>3

\* Putting the records one by one is putting them all.
LEMMA PutsOneMore ==
    ASSUME NEW table \in AliasTable, NEW all \in Seq(CnameRR), NEW m \in Nat, m < Len(all),
           NEW ttl \in Nat, NEW t \in Nat
    PROVE  cname_cache_puts(cname_cache_puts(table, Taken(all, m), ttl, t), <<all[m + 1]>>, ttl, t)
              = cname_cache_puts(table, Taken(all, m + 1), ttl, t)
<1> DEFINE one == <<all[m + 1]>>
           some == Taken(all, m)
           more == Taken(all, m + 1)
           mid == cname_cache_puts(table, some, ttl, t)
           left == cname_cache_puts(mid, one, ttl, t)
           right == cname_cache_puts(table, more, ttl, t)
           entry(rr) == [name |-> rr.data, ttl |-> ttl, timestamp |-> t, manual |-> FALSE]
<1>1. /\ DOMAIN one = {1} /\ one[1] = all[m + 1]
      /\ DOMAIN some = 1..m /\ \A k \in 1..m : some[k] = all[k]
      /\ DOMAIN more = 1..(m + 1) /\ \A k \in 1..(m + 1) : more[k] = all[k]
  BY DEF Taken
<1>2. left \in [Names -> Range(left)] /\ right \in [Names -> Range(right)]
  BY DEF cname_cache_puts, Range
<1>3. /\ mid = cname_cache_puts(table, some, ttl, t)
      /\ left = cname_cache_puts(mid, one, ttl, t)
      /\ right = cname_cache_puts(table, more, ttl, t)
  OBVIOUS
<1> HIDE DEF one, some, more, mid, left, right
<1>4. ASSUME NEW n \in Names PROVE left[n] = right[n]
  <2>1. CASE all[m + 1].name = n
    <3>1. left[n] = entry(one[1])
      <4>1. 1 \in DOMAIN one /\ one[1].name = n
        BY <1>1, <2>1
      <4>2. \A j \in DOMAIN one : j \in Nat /\ (one[j].name = n => j <= 1)
        BY <1>1
      <4>3. QED
        BY <1>3, <4>1, <4>2, PutsAre
    <3>2. right[n] = entry(more[m + 1])
      <4>1. m + 1 \in DOMAIN more /\ more[m + 1].name = n
        BY <1>1, <2>1
      <4>2. \A j \in DOMAIN more : j \in Nat /\ (more[j].name = n => j <= m + 1)
        BY <1>1
      <4>3. QED
        BY <1>3, <4>1, <4>2, PutsAre
    <3>3. one[1] = more[m + 1]
      BY <1>1
    <3>4. QED
      BY <3>1, <3>2, <3>3
  <2>2. CASE all[m + 1].name # n
    <3>1. left[n] = mid[n]
      <4>1. \A i \in DOMAIN one : one[i].name # n
        BY <1>1, <2>2
      <4>2. QED
        BY <1>3, <4>1, PutsAre
    <3>2. mid[n] = right[n]
      <4>1. CASE \A i \in DOMAIN some : some[i].name # n
        <5>1. \A i \in DOMAIN more : more[i].name # n
          BY <1>1, <2>2, <4>1
        <5>2. mid[n] = table[n] /\ right[n] = table[n]
          BY <1>3, <4>1, <5>1, PutsAre
        <5>3. QED
          BY <5>2
      <4>2. CASE \E i \in DOMAIN some : some[i].name = n
        <5>1. PICK first \in DOMAIN some : some[first].name = n
          BY <4>2
        <5>2. PICK i \in DOMAIN some :
                 some[i].name = n /\ \A j \in DOMAIN some : some[j].name = n => j <= i
          BY <1>1, <5>1, LastIndex
        <5>3. mid[n] = entry(some[i])
          <6>1. \A j \in DOMAIN some : j \in Nat /\ (some[j].name = n => j <= i)
            BY <1>1, <5>2
          <6>2. QED
            BY <1>3, <5>2, <6>1, PutsAre
        <5>4. right[n] = entry(more[i])
          <6>1. i \in DOMAIN more /\ more[i].name = n
            BY <1>1, <5>2
          <6>2. ASSUME NEW j \in DOMAIN more PROVE j \in Nat /\ (more[j].name = n => j <= i)
            <7>1. j \in 1..m \/ j = m + 1
              BY <1>1
            <7>2. CASE j \in 1..m
              BY <1>1, <5>2, <7>2
            <7>3. CASE j = m + 1
              BY <1>1, <2>2, <7>3
            <7>4. QED
              BY <7>1, <7>2, <7>3
          <6>3. QED
            BY <1>3, <6>1, <6>2, PutsAre
        <5>5. some[i] = more[i]
          BY <1>1
        <5>6. QED
          BY <5>3, <5>4, <5>5
      <4>3. QED
        BY <4>1, <4>2
    <3>3. QED
      BY <3>1, <3>2
  <2>3. QED
    BY <2>1, <2>2
<1>5. left = right
  BY <1>2, <1>4
<1>6. QED
  BY <1>5 DEF left, right, mid, one, some, more

\* The data of one more record.
LEMMA DataMore ==
    ASSUME NEW all, NEW m \in Nat
    PROVE  Data(Taken(all, m + 1)) = Append(Data(Taken(all, m)), all[m + 1].data)
<1> DEFINE v == Data(Taken(all, m))
           w == Data(Taken(all, m + 1))
<1>1. v = [k \in 1..m |-> all[k].data] /\ w = [k \in 1..(m + 1) |-> all[k].data]
  BY DEF Data, Taken
<1> HIDE DEF v, w
<1> DEFINE D == {all[k].data : k \in 1..(m + 1)}
<1>2. v \in Seq(D) /\ Len(v) = m /\ w \in Seq(D) /\ Len(w) = m + 1 /\ all[m + 1].data \in D
  <2>1. v \in [1..m -> D] /\ w \in [1..(m + 1) -> D]
    BY <1>1
  <2>2. all[m + 1].data \in D
    OBVIOUS
  <2> HIDE DEF D
  <2>3. v \in Seq(D) /\ Len(v) = m
    BY <2>1
  <2>4. w \in Seq(D) /\ Len(w) = m + 1
    BY <2>1
  <2>5. QED
    BY <2>2, <2>3, <2>4
<1> HIDE DEF D
<1> DEFINE longer == Append(v, all[m + 1].data)
<1>3. /\ longer \in Seq(D) /\ Len(longer) = m + 1
      /\ \A i \in 1..m : longer[i] = v[i]
      /\ longer[m + 1] = all[m + 1].data
  BY <1>2, AppendProperties
<1> HIDE DEF longer
<1>4. \A i \in 1..(m + 1) : longer[i] = w[i]
  BY <1>1, <1>3
<1>5. longer = w
  BY <1>2, <1>3, <1>4, SeqEqual
<1>6. QED
  BY <1>5 DEF longer, v, w

LEMMA AliasMore ==
    ASSUME NEW table \in AliasTable, NEW all \in Seq(CnameRR), NEW rest \in Seq(CnameRR),
           Rest(all, rest), rest # <<>>, NEW ttl \in Nat, NEW t \in Nat
    PROVE  cname_cache_puts(cname_cache_puts(table, Done(all, rest), ttl, t), <<Head(rest)>>, ttl, t)
              = cname_cache_puts(table, Done(all, Tail(rest)), ttl, t)
<1> DEFINE m == Len(all) - Len(rest)
<1>1. /\ m \in Nat /\ m < Len(all)
      /\ Head(rest) = all[m + 1]
      /\ Len(all) - Len(Tail(rest)) = m + 1
  BY DoneIs
<1>2. Done(all, rest) = Taken(all, m)
  BY DEF Done
<1> HIDE DEF m
<1>3. Done(all, Tail(rest)) = Taken(all, m + 1)
  BY <1>1 DEF Done
<1>4. QED
  BY <1>1, <1>2, <1>3, PutsOneMore

LEMMA CollectsMore ==
    ASSUME NEW S, NEW Address, NEW all \in Seq(S), NEW rest \in Seq(S), rest # <<>>,
           NEW domain, NEW node \in Seq(Address), Collects(all, rest, domain, node),
           Head(rest).data \in Address
    PROVE  Collects(all, Tail(rest), Head(rest).name, Append(node, Head(rest).data))
<1> DEFINE m == Len(all) - Len(rest)
           more == Append(node, Head(rest).data)
<1>0. Rest(all, rest) /\ node = Data(Done(all, rest))
  BY DEF Collects
<1>1. /\ m \in Nat
      /\ Head(rest) = all[m + 1]
      /\ Len(all) - Len(Tail(rest)) = m + 1
      /\ Rest(all, Tail(rest))
  BY <1>0, DoneIs
<1>2. Done(all, rest) = Taken(all, m)
  BY DEF Done
<1> HIDE DEF m
<1>3. Done(all, Tail(rest)) = Taken(all, m + 1)
  BY <1>1 DEF Done
<1>4. more = Data(Done(all, Tail(rest)))
  BY <1>0, <1>1, <1>2, <1>3, DataMore
<1>5. more # <<>>
  <2>1. Len(more) = Len(node) + 1 /\ Len(node) \in Nat
    BY AppendProperties, LenProperties
  <2>2. Len(<<>>) = 0
    OBVIOUS
  <2> HIDE DEF more
  <2>3. QED
    BY <2>1, <2>2
<1> HIDE DEF more
<1>6. Collects(all, Tail(rest), Head(rest).name, more)
  BY <1>1, <1>4, <1>5 DEF Collects
<1>7. QED
  BY <1>6 DEF more

LEMMA ReceiveResponseKeeps ==
    ASSUME IInv, NEW r \in fromUpstream, NEW duplicate \in BOOLEAN, ReceiveResponse(r, duplicate)
    PROVE  IInv' /\ ~Idle'
<1> DEFINE fr == [pc |-> "learning", response |-> r, rest |-> r.answer, duplicate |-> duplicate,
                  ipv4_domain |-> NULL, node4 |-> <<>>, ipv6_domain |-> NULL, node6 |-> <<>>]
           t == Tables
<1>1. status = "running" /\ before' = t /\ frame' = fr /\ UNCHANGED vars
  BY DEF ReceiveResponse
<1>2. TypeOK
  BY DEF IInv
<1>3. /\ t.clients = clients /\ t.ipv4 = ipv4 /\ t.ipv6 = ipv6 /\ t.cname = cname
      /\ TablesOK(t)
  BY <1>2 DEF Tables, TablesOK, TypeOK
<1> HIDE DEF t
<1>4. r \in Response /\ r.answer \in Answer
  BY <1>2 DEF TypeOK, Response
<1>5. r.answer.cname \in Seq(CnameRR) /\ r.answer.a \in Seq(ARR) /\ r.answer.aaaa \in Seq(AaaaRR)
  BY <1>4 DEF Answer
<1>6. /\ fr.pc = "learning" /\ fr.response = r /\ fr.rest = r.answer
      /\ fr.ipv4_domain = NULL /\ fr.node4 = <<>> /\ fr.ipv6_domain = NULL /\ fr.node6 = <<>>
  OBVIOUS
<1>7. fr \in ResponseLocals
  <2>1. <<>> \in Seq(IPv4) /\ <<>> \in Seq(IPv6)
    OBVIOUS
  <2>2. QED
    BY <1>4, <2>1 DEF ResponseLocals
<1> HIDE DEF fr
<1>8. ASSUME NEW S, NEW all \in Seq(S)
      PROVE  Rest(all, all) /\ Done(all, all) = <<>> /\ Collects(all, all, NULL, <<>>)
  <2>1. Len(all) \in Nat
    BY LenProperties
  <2>2. Rest(all, all)
    BY <2>1 DEF Rest
  <2>3. Done(all, all) = <<>>
    BY <2>2, DoneIs
  <2>4. Data(<<>>) = <<>>
    BY DEF Data
  <2>5. QED
    BY <2>2, <2>3, <2>4 DEF Collects
<1>9. cname = cname_cache_puts(t.cname, <<>>, TTL, now)
  <2>1. DOMAIN <<>> = {}
    OBVIOUS
  <2> DEFINE none == <<>>
  <2>2. DOMAIN none = {}
    BY <2>1
  <2> HIDE DEF none
  <2>3. cname_cache_puts(cname, none, TTL, now) = [n \in Names |-> cname[n]]
    BY <2>2 DEF cname_cache_puts
  <2>4. cname = [n \in Names |-> cname[n]]
    BY <1>2 DEF TypeOK, AliasTable
  <2>5. QED
    BY <1>3, <2>3, <2>4 DEF none
<1>10. ResponseInv'
  <2>1. /\ frame'.response = r /\ frame'.rest = r.answer
        /\ frame'.ipv4_domain = NULL /\ frame'.node4 = <<>>
        /\ frame'.ipv6_domain = NULL /\ frame'.node6 = <<>>
        /\ frame' \in ResponseLocals
    BY <1>1, <1>6, <1>7
  <2>2. /\ status' = status /\ fromUpstream' = fromUpstream /\ now' = now
        /\ clients' = clients /\ ipv4' = ipv4 /\ ipv6' = ipv6 /\ cname' = cname
    BY <1>1 DEF vars, server, network
  <2>3. /\ Rest(r.answer.cname, r.answer.cname) /\ Done(r.answer.cname, r.answer.cname) = <<>>
        /\ Collects(r.answer.a, r.answer.a, NULL, <<>>)
        /\ Collects(r.answer.aaaa, r.answer.aaaa, NULL, <<>>)
    BY <1>5, <1>8
  <2>4. cname' = cname_cache_puts(before'.cname,
                    Done(frame'.response.answer.cname, frame'.rest.cname), TTL, now')
    BY <1>1, <1>9, <2>1, <2>2, <2>3
  <2>5. QED
    BY <1>1, <1>3, <2>1, <2>2, <2>3, <2>4 DEF ResponseInv
<1>11. TypeOK'
  BY <1>1, <1>2, TypeKept
<1>12. TablesOK(before') /\ frame'.pc = "learning"
  BY <1>1, <1>3, <1>6
<1>13. IInv'
  BY <1>10, <1>11, <1>12 DEF IInv
<1>14. ~Idle'
  BY <1>1, <1>7, AnsweringAssumption DEF Idle
<1>15. QED
  BY <1>13, <1>14

\* What holds at a record.
LEMMA AtRecord ==
    ASSUME IInv, Learning
    PROVE  /\ TypeOK /\ TablesOK(before) /\ ResponseInv /\ frame \in ResponseLocals
           /\ frame.pc = "learning" /\ ~Idle
           /\ frame.response \in Response /\ frame.response.answer \in Answer
           /\ frame.rest \in Answer
           /\ frame.response.answer.cname \in Seq(CnameRR) /\ frame.rest.cname \in Seq(CnameRR)
           /\ frame.response.answer.a \in Seq(ARR) /\ frame.rest.a \in Seq(ARR)
           /\ frame.response.answer.aaaa \in Seq(AaaaRR) /\ frame.rest.aaaa \in Seq(AaaaRR)
           /\ frame.node4 \in Seq(IPv4) /\ frame.node6 \in Seq(IPv6)
           /\ TTL \in Nat /\ now \in Nat
<1>1. /\ TypeOK /\ TablesOK(before) /\ ResponseInv /\ frame \in ResponseLocals
      /\ frame.pc = "learning" /\ ~Idle
  BY DEF Learning, IInv, ResponseInv
<1>2. /\ frame.response \in Response /\ frame.rest \in Answer
      /\ frame.node4 \in Seq(IPv4) /\ frame.node6 \in Seq(IPv6)
  BY <1>1 DEF ResponseLocals
<1>3. frame.response.answer \in Answer
  BY <1>2 DEF Response
<1>4. TTL \in Nat /\ now \in Nat
  BY <1>1, RelayAssumption DEF TypeOK
<1>5. QED
  BY <1>1, <1>2, <1>3, <1>4 DEF Answer

LEMMA LearnAliasKeeps == ASSUME IInv, LearnAlias PROVE IInv' /\ ~Idle'
<1> DEFINE all == frame.response.answer.cname
           rest == frame.rest.cname
           tail == Tail(rest)
<1>1. /\ Learning /\ rest # <<>>
      /\ cname' = cname_cache_puts(cname, <<Head(rest)>>, TTL, now)
      /\ frame' = [frame EXCEPT !.rest.cname = tail]
      /\ UNCHANGED <<outside, clients, ipv4, ipv6, before>>
  BY DEF LearnAlias
<1>2. /\ TypeOK /\ TablesOK(before) /\ ResponseInv /\ frame \in ResponseLocals
      /\ frame.pc = "learning" /\ frame.rest \in Answer
      /\ all \in Seq(CnameRR) /\ rest \in Seq(CnameRR)
      /\ TTL \in Nat /\ now \in Nat
  BY <1>1, AtRecord
<1>3. Rest(all, rest) /\ cname = cname_cache_puts(before.cname, Done(all, rest), TTL, now)
  BY <1>2 DEF ResponseInv
<1>4. before.cname \in AliasTable
  BY <1>2 DEF TablesOK
<1>5. tail \in Seq(CnameRR) /\ Rest(all, tail) /\ Head(rest) \in CnameRR
  BY <1>1, <1>2, <1>3, DoneIs
<1>6. cname' = cname_cache_puts(before.cname, Done(all, tail), TTL, now)
  <2> HIDE DEF all, rest
  <2>1. QED
    BY <1>1, <1>2, <1>3, <1>4, AliasMore
<1> HIDE DEF tail
<1>7. /\ frame' \in ResponseLocals /\ frame'.pc = "learning"
      /\ frame'.response = frame.response /\ frame'.rest.cname = tail
      /\ frame'.rest.a = frame.rest.a /\ frame'.rest.aaaa = frame.rest.aaaa
      /\ frame'.ipv4_domain = frame.ipv4_domain /\ frame'.node4 = frame.node4
      /\ frame'.ipv6_domain = frame.ipv6_domain /\ frame'.node6 = frame.node6
  <2> DEFINE new == [frame.rest EXCEPT !.cname = tail]
  <2>1. /\ new \in Answer /\ new.cname = tail
        /\ new.a = frame.rest.a /\ new.aaaa = frame.rest.aaaa
    BY <1>2, <1>5 DEF Answer
  <2>2. frame' = [frame EXCEPT !.rest = new]
    BY <1>1, <1>2 DEF ResponseLocals
  <2> HIDE DEF new
  <2>3. frame' \in ResponseLocals
    BY <1>2, <2>1, <2>2 DEF ResponseLocals
  <2>4. QED
    BY <1>2, <2>1, <2>2, <2>3 DEF ResponseLocals
<1>8. TypeOK'
  <2>1. cname' \in AliasTable
    <3> DEFINE one == <<Head(rest)>>
    <3>1. one \in Seq(CnameRR) /\ cname' = cname_cache_puts(cname, one, TTL, now)
      BY <1>1, <1>5
    <3> HIDE DEF one
    <3>2. cname \in AliasTable
      BY <1>2 DEF TypeOK
    <3>3. QED
      BY <1>2, <3>1, <3>2, AliasPutsType
  <2>2. QED
    BY <1>1, <1>2, <2>1 DEF TypeOK, outside, network
<1>9. /\ status' = status /\ fromUpstream' = fromUpstream /\ now' = now
      /\ clients' = clients /\ ipv4' = ipv4 /\ ipv6' = ipv6 /\ before' = before
  BY <1>1 DEF outside, network
<1>10. ResponseInv'
  BY <1>2, <1>5, <1>6, <1>7, <1>9 DEF ResponseInv
<1>11. IInv'
  BY <1>2, <1>7, <1>8, <1>9, <1>10 DEF IInv
<1>12. ~Idle'
  BY <1>7, AnsweringAssumption DEF Idle
<1>13. QED
  BY <1>11, <1>12

LEMMA CollectIPv4Keeps == ASSUME IInv, CollectIPv4 PROVE IInv' /\ ~Idle'
<1> DEFINE all == frame.response.answer.a
           rest == frame.rest.a
           tail == Tail(rest)
           node == Append(frame.node4, Head(rest).data)
           name == Head(rest).name
<1>1. /\ Learning /\ rest # <<>>
      /\ frame' = [frame EXCEPT !.ipv4_domain = name, !.node4 = node, !.rest.a = tail]
      /\ UNCHANGED <<vars, before>>
  BY DEF CollectIPv4
<1>2. /\ TypeOK /\ TablesOK(before) /\ ResponseInv /\ frame \in ResponseLocals
      /\ frame.pc = "learning" /\ frame.rest \in Answer
      /\ all \in Seq(ARR) /\ rest \in Seq(ARR) /\ frame.node4 \in Seq(IPv4)
  BY <1>1, AtRecord
<1>3. Collects(all, rest, frame.ipv4_domain, frame.node4)
  BY <1>2 DEF ResponseInv
<1>4. tail \in Seq(ARR) /\ Head(rest) \in ARR
  BY <1>1, <1>2, <1>3, DoneIs DEF Collects
<1>5. Head(rest).name \in Names /\ Head(rest).data \in IPv4
  BY <1>4 DEF ARR
<1>6. Collects(all, tail, name, node)
  <2> HIDE DEF all, rest
  <2>1. QED
    BY <1>1, <1>2, <1>3, <1>5, CollectsMore
<1>7. node \in Seq(IPv4) /\ name \in Names \cup {NULL}
  BY <1>2, <1>5, AppendProperties
<1> HIDE DEF tail, node, name
<1>8. /\ frame' \in ResponseLocals /\ frame'.pc = "learning"
      /\ frame'.response = frame.response /\ frame'.rest.a = tail
      /\ frame'.rest.cname = frame.rest.cname /\ frame'.rest.aaaa = frame.rest.aaaa
      /\ frame'.ipv4_domain = name /\ frame'.node4 = node
      /\ frame'.ipv6_domain = frame.ipv6_domain /\ frame'.node6 = frame.node6
  <2> DEFINE new == [frame.rest EXCEPT !.a = tail]
  <2>1. /\ new \in Answer /\ new.a = tail
        /\ new.cname = frame.rest.cname /\ new.aaaa = frame.rest.aaaa
    BY <1>2, <1>4 DEF Answer
  <2>2. frame' = [frame EXCEPT !.ipv4_domain = name, !.node4 = node, !.rest = new]
    BY <1>1, <1>2 DEF ResponseLocals
  <2> HIDE DEF new
  <2>3. frame' \in ResponseLocals
    BY <1>2, <1>7, <2>1, <2>2 DEF ResponseLocals
  <2>4. QED
    BY <1>2, <2>1, <2>2, <2>3 DEF ResponseLocals
<1>9. TypeOK'
  BY <1>1, <1>2, TypeKept
<1>10. /\ status' = status /\ fromUpstream' = fromUpstream /\ now' = now
       /\ clients' = clients /\ ipv4' = ipv4 /\ ipv6' = ipv6 /\ cname' = cname
       /\ before' = before
  BY <1>1 DEF vars, server, network
<1>11. ResponseInv'
  BY <1>2, <1>6, <1>8, <1>10 DEF ResponseInv
<1>12. IInv'
  BY <1>2, <1>8, <1>9, <1>10, <1>11 DEF IInv
<1>13. ~Idle'
  BY <1>8, AnsweringAssumption DEF Idle
<1>14. QED
  BY <1>12, <1>13

LEMMA CollectIPv6Keeps == ASSUME IInv, CollectIPv6 PROVE IInv' /\ ~Idle'
<1> DEFINE all == frame.response.answer.aaaa
           rest == frame.rest.aaaa
           tail == Tail(rest)
           node == Append(frame.node6, Head(rest).data)
           name == Head(rest).name
<1>1. /\ Learning /\ rest # <<>>
      /\ frame' = [frame EXCEPT !.ipv6_domain = name, !.node6 = node, !.rest.aaaa = tail]
      /\ UNCHANGED <<vars, before>>
  BY DEF CollectIPv6
<1>2. /\ TypeOK /\ TablesOK(before) /\ ResponseInv /\ frame \in ResponseLocals
      /\ frame.pc = "learning" /\ frame.rest \in Answer
      /\ all \in Seq(AaaaRR) /\ rest \in Seq(AaaaRR) /\ frame.node6 \in Seq(IPv6)
  BY <1>1, AtRecord
<1>3. Collects(all, rest, frame.ipv6_domain, frame.node6)
  BY <1>2 DEF ResponseInv
<1>4. tail \in Seq(AaaaRR) /\ Head(rest) \in AaaaRR
  BY <1>1, <1>2, <1>3, DoneIs DEF Collects
<1>5. Head(rest).name \in Names /\ Head(rest).data \in IPv6
  BY <1>4 DEF AaaaRR
<1>6. Collects(all, tail, name, node)
  <2> HIDE DEF all, rest
  <2>1. QED
    BY <1>1, <1>2, <1>3, <1>5, CollectsMore
<1>7. node \in Seq(IPv6) /\ name \in Names \cup {NULL}
  BY <1>2, <1>5, AppendProperties
<1> HIDE DEF tail, node, name
<1>8. /\ frame' \in ResponseLocals /\ frame'.pc = "learning"
      /\ frame'.response = frame.response /\ frame'.rest.aaaa = tail
      /\ frame'.rest.cname = frame.rest.cname /\ frame'.rest.a = frame.rest.a
      /\ frame'.ipv6_domain = name /\ frame'.node6 = node
      /\ frame'.ipv4_domain = frame.ipv4_domain /\ frame'.node4 = frame.node4
  <2> DEFINE new == [frame.rest EXCEPT !.aaaa = tail]
  <2>1. /\ new \in Answer /\ new.aaaa = tail
        /\ new.cname = frame.rest.cname /\ new.a = frame.rest.a
    BY <1>2, <1>4 DEF Answer
  <2>2. frame' = [frame EXCEPT !.ipv6_domain = name, !.node6 = node, !.rest = new]
    BY <1>1, <1>2 DEF ResponseLocals
  <2> HIDE DEF new
  <2>3. frame' \in ResponseLocals
    BY <1>2, <1>7, <2>1, <2>2 DEF ResponseLocals
  <2>4. QED
    BY <1>2, <2>1, <2>2, <2>3 DEF ResponseLocals
<1>9. TypeOK'
  BY <1>1, <1>2, TypeKept
<1>10. /\ status' = status /\ fromUpstream' = fromUpstream /\ now' = now
       /\ clients' = clients /\ ipv4' = ipv4 /\ ipv6' = ipv6 /\ cname' = cname
       /\ before' = before
  BY <1>1 DEF vars, server, network
<1>11. ResponseInv'
  BY <1>2, <1>6, <1>8, <1>10 DEF ResponseInv
<1>12. IInv'
  BY <1>2, <1>8, <1>9, <1>10, <1>11 DEF IInv
<1>13. ~Idle'
  BY <1>8, AnsweringAssumption DEF Idle
<1>14. QED
  BY <1>12, <1>13

-----------------------------------------------------------------------------
(* The callbacks return *)

LEMMA IdleKept == ASSUME TypeOK', frame' = NULL PROVE IInv'
BY DEF IInv, Idle

\* What every return of bind_socket_read relies on.
LEMMA AtReturn ==
    ASSUME IInv, ~Idle, frame.pc = "counting" \/ frame.pc = "writing"
    PROVE  /\ TypeOK /\ TablesOK(before) /\ ReceiveInv /\ PlaceOK(frame, before)
           /\ frame.pc = "counting" => CountingOK(frame, before)
           /\ frame.pc = "writing" => WritingOK(frame, before)
           /\ frame \in ReceiveLocals
           /\ frame.client \in Clients /\ frame.feature \in Feature
           /\ frame.feature.queries \in QuerySeqs
           /\ Len(frame.feature.queries) \in Nat
           /\ Queries = frame.feature.queries
           /\ frame.i \in Nat /\ frame.i >= 1
           /\ frame.i \in DOMAIN Queries <=> frame.i <= Len(frame.feature.queries)
           /\ frame.i \notin DOMAIN Queries => frame.i = Len(frame.feature.queries) + 1
           /\ Due \in [Clients -> [Feature -> Int]]
<1>1. TypeOK /\ TablesOK(before) /\ ReceiveInv
  BY DEF IInv
<1>2. /\ PlaceOK(frame, before)
      /\ frame.pc = "counting" => CountingOK(frame, before)
      /\ frame.pc = "writing" => WritingOK(frame, before)
  BY <1>1 DEF ReceiveInv
<1>3. frame \in ReceiveLocals
  BY <1>2 DEF PlaceOK
<1>4. Queries = frame.feature.queries
  BY DEF Queries
<1>5. /\ frame.client \in Clients /\ frame.feature \in Feature
      /\ frame.feature.queries \in QuerySeqs
      /\ Len(frame.feature.queries) \in Nat
      /\ frame.i \in Nat /\ frame.i >= 1
      /\ frame.i \in DOMAIN Queries <=> frame.i <= Len(frame.feature.queries)
      /\ frame.i \notin DOMAIN Queries => frame.i = Len(frame.feature.queries) + 1
  BY <1>2, <1>4, PlaceType
<1>6. Due \in [Clients -> [Feature -> Int]]
  BY <1>1, <1>5, WaitingType DEF Due
<1>7. QED
  BY <1>1, <1>2, <1>3, <1>4, <1>5, <1>6

LEMMA SpinType == ASSUME IInv, Spin PROVE TypeOK'
<1>1. ~Idle /\ frame.pc = "counting"
  BY DEF Spin, Counting, At
<1>2. TypeOK /\ Due \in [Clients -> [Feature -> Int]]
  BY <1>1, AtReturn
<1>3. QED
  BY <1>2 DEF Spin, TypeOK, network

LEMMA AskUpstreamType == ASSUME IInv, AskUpstream PROVE TypeOK'
<1>1. ~Idle /\ frame.pc = "counting"
  BY DEF AskUpstream
<1>2. TypeOK /\ Due \in [Clients -> [Feature -> Int]] /\ frame.feature \in Feature
  BY <1>1, AtReturn
<1>3. toUpstream' \subseteq Feature
  BY <1>2 DEF AskUpstream, send_query, TypeOK
<1>4. QED
  BY <1>2, <1>3 DEF AskUpstream, TypeOK, server

LEMMA RefuseType == ASSUME IInv, Refuse PROVE TypeOK'
<1>1. ~Idle /\ frame.pc = "counting"
  BY DEF Refuse, Past
<1>2. TypeOK /\ Due \in [Clients -> [Feature -> Int]] /\ frame.feature \in Feature
  BY <1>1, AtReturn
<1>3. /\ clients \in [Feature -> Clients \cup {NULL}]
      /\ send_response(clients, Due, frame.feature, NXDOMAIN, {})
      /\ NXDOMAIN \in Rcode /\ {} \in SUBSET RR
  BY <1>2 DEF Refuse, TypeOK, NXDOMAIN, Rcode
<1>4. /\ clients' \in [Feature -> Clients \cup {NULL}]
      /\ reply' \in Reply \cup {NULL}
      /\ owed' \in [Clients -> [Feature -> Int]]
  BY <1>2, <1>3, SendType
<1>5. QED
  BY <1>2, <1>4 DEF Refuse, TypeOK, network

LEMMA AnsweredType == ASSUME IInv, Answered PROVE TypeOK'
<1>1. ~Idle /\ frame.pc = "writing"
  BY DEF Answered, Past
<1>2. /\ TypeOK /\ Due \in [Clients -> [Feature -> Int]] /\ frame.feature \in Feature
      /\ frame \in ReceiveLocals
  BY <1>1, AtReturn
<1>3. ToSet(frame.answers) \in SUBSET RR
  <2>1. frame.answers \in Seq(RR)
    BY <1>2 DEF ReceiveLocals
  <2>2. QED
    BY <2>1 DEF ToSet
<1>4. /\ clients \in [Feature -> Clients \cup {NULL}]
      /\ send_response(clients, Due, frame.feature, NOERROR, ToSet(frame.answers))
      /\ NOERROR \in Rcode
  BY <1>2 DEF Answered, TypeOK, NOERROR, Rcode
<1>5. /\ clients' \in [Feature -> Clients \cup {NULL}]
      /\ reply' \in Reply \cup {NULL}
      /\ owed' \in [Clients -> [Feature -> Int]]
  BY <1>2, <1>3, <1>4, SendType
<1>6. QED
  BY <1>2, <1>5 DEF Answered, TypeOK, network

\* Where the records of a response have been collected.
LEMMA CollectedIs ==
    ASSUME NEW S, NEW all \in Seq(S), NEW domain, NEW node, Collects(all, <<>>, domain, node)
    PROVE  /\ node = Data(all)
           /\ all = <<>> <=> node = <<>>
           /\ domain = IF all = <<>> THEN NULL ELSE all[Len(all)].name
<1> DEFINE rest == <<>>
<1>1. rest \in Seq(S) /\ Len(rest) = 0 /\ rest = <<>>
  OBVIOUS
<1>2. /\ Rest(all, rest) /\ node = Data(Done(all, rest))
      /\ domain = IF node = <<>> THEN NULL ELSE all[Len(all) - Len(rest)].name
  BY DEF Collects
<1> HIDE DEF rest
<1>3. Done(all, rest) = all
  BY <1>1, <1>2, DoneIs
<1>4. Len(all) \in Nat /\ Len(all) - Len(rest) = Len(all) /\ DOMAIN all = 1..Len(all)
  BY <1>1, LenProperties
<1>5. all = <<>> <=> node = <<>>
  <2>1. node = [k \in 1..Len(all) |-> all[k].data]
    BY <1>2, <1>3, <1>4 DEF Data
  <2>2. CASE all = <<>>
    <3>1. 1..Len(all) = {}
      BY <2>2
    <3>2. QED
      BY <2>1, <2>2, <3>1
  <2>3. CASE all # <<>>
    <3>1. Len(all) >= 1
      BY <1>4, <2>3, EmptySeq
    <3>2. 1 \in DOMAIN node
      BY <1>4, <2>1, <3>1
    <3>3. QED
      BY <2>3, <3>2
  <2>4. QED
    BY <2>2, <2>3
<1>6. QED
  BY <1>2, <1>3, <1>4, <1>5

\* The puts that end query_socket_read are those of the whole answer.
LEMMA RelayedPuts ==
    ASSUME IInv, Relayed
    PROVE  /\ TypeOK /\ TablesOK(before) /\ status = "running"
           /\ frame.response \in fromUpstream /\ frame.duplicate \in BOOLEAN
           /\ clients = before.clients
           /\ cname = cname_cache_puts(before.cname, frame.response.answer.cname, TTL, now)
           /\ ipv4' = IF frame.response.answer.a = <<>> THEN before.ipv4
                      ELSE ipv4_cache_put(before.ipv4,
                              frame.response.answer.a[Len(frame.response.answer.a)].name,
                              Data(frame.response.answer.a), TTL, now)
           /\ ipv6' = IF frame.response.answer.aaaa = <<>> THEN before.ipv6
                      ELSE ipv6_cache_put(before.ipv6,
                              frame.response.answer.aaaa[Len(frame.response.answer.aaaa)].name,
                              Data(frame.response.answer.aaaa), TTL, now)
<1> DEFINE ans == frame.response.answer
<1>1. /\ Learning
      /\ frame.rest.cname = <<>> /\ frame.rest.a = <<>> /\ frame.rest.aaaa = <<>>
      /\ ipv4' = IF frame.ipv4_domain = NULL THEN ipv4
                 ELSE ipv4_cache_put(ipv4, frame.ipv4_domain, frame.node4, TTL, now)
      /\ ipv6' = IF frame.ipv6_domain = NULL THEN ipv6
                 ELSE ipv6_cache_put(ipv6, frame.ipv6_domain, frame.node6, TTL, now)
  BY DEF Relayed
<1>2. /\ TypeOK /\ TablesOK(before) /\ ResponseInv /\ frame \in ResponseLocals
      /\ ans.cname \in Seq(CnameRR) /\ frame.rest.cname \in Seq(CnameRR)
      /\ ans.a \in Seq(ARR) /\ ans.aaaa \in Seq(AaaaRR)
  BY <1>1, AtRecord
<1>3. /\ status = "running" /\ frame.response \in fromUpstream
      /\ clients = before.clients /\ ipv4 = before.ipv4 /\ ipv6 = before.ipv6
      /\ Rest(ans.cname, <<>>)
      /\ cname = cname_cache_puts(before.cname, Done(ans.cname, <<>>), TTL, now)
      /\ Collects(ans.a, <<>>, frame.ipv4_domain, frame.node4)
      /\ Collects(ans.aaaa, <<>>, frame.ipv6_domain, frame.node6)
  BY <1>1, <1>2 DEF ResponseInv
<1>4. Done(ans.cname, <<>>) = ans.cname
  <2> DEFINE all == ans.cname
             rest == frame.rest.cname
  <2>1. /\ all \in Seq(CnameRR) /\ rest \in Seq(CnameRR)
        /\ Rest(all, rest) /\ rest = <<>>
    BY <1>1, <1>2, <1>3
  <2> HIDE DEF all, rest
  <2>2. Done(all, rest) = all
    BY <2>1, DoneIs
  <2>3. QED
    BY <2>1, <2>2 DEF all
<1>5. /\ frame.node4 = Data(ans.a)
      /\ frame.ipv4_domain = IF ans.a = <<>> THEN NULL ELSE ans.a[Len(ans.a)].name
  BY <1>2, <1>3, CollectedIs
<1>6. /\ frame.node6 = Data(ans.aaaa)
      /\ frame.ipv6_domain = IF ans.aaaa = <<>> THEN NULL ELSE ans.aaaa[Len(ans.aaaa)].name
  BY <1>2, <1>3, CollectedIs
<1>7. /\ ans.a # <<>> => ans.a[Len(ans.a)].name \in Names
      /\ ans.aaaa # <<>> => ans.aaaa[Len(ans.aaaa)].name \in Names
  <2>1. /\ \A rr \in ARR : rr.name \in Names /\ rr.data \in IPv4
        /\ \A rr \in AaaaRR : rr.name \in Names /\ rr.data \in IPv6
    BY DEF ARR, AaaaRR
  <2>2. QED
    BY <1>2, <2>1, DataType
<1>8. frame.duplicate \in BOOLEAN
  BY <1>2 DEF ResponseLocals
<1> HIDE DEF ans
<1>9. /\ ipv4' = IF ans.a = <<>> THEN before.ipv4
                 ELSE ipv4_cache_put(before.ipv4, ans.a[Len(ans.a)].name, Data(ans.a), TTL, now)
      /\ ipv6' = IF ans.aaaa = <<>> THEN before.ipv6
                 ELSE ipv6_cache_put(before.ipv6, ans.aaaa[Len(ans.aaaa)].name, Data(ans.aaaa), TTL, now)
  BY <1>1, <1>3, <1>5, <1>6, <1>7, AnsweringAssumption
<1>10. QED
  BY <1>2, <1>3, <1>4, <1>8, <1>9 DEF ans

LEMMA RelayedType == ASSUME IInv, Relayed PROVE TypeOK'
<1> DEFINE ans == frame.response.answer
<1>1. /\ TypeOK /\ TablesOK(before) /\ frame.response \in fromUpstream
      /\ ipv4' = IF ans.a = <<>> THEN before.ipv4
                 ELSE ipv4_cache_put(before.ipv4, ans.a[Len(ans.a)].name, Data(ans.a), TTL, now)
      /\ ipv6' = IF ans.aaaa = <<>> THEN before.ipv6
                 ELSE ipv6_cache_put(before.ipv6, ans.aaaa[Len(ans.aaaa)].name, Data(ans.aaaa), TTL, now)
  BY RelayedPuts
<1>2. /\ fromUpstream' \subseteq fromUpstream
      /\ send_response(clients, owed, frame.response.feature, ans.rcode, AnswerRecords(ans))
      /\ UNCHANGED <<status, cname, now, nextClear, toUpstream, zone>>
  BY DEF Relayed
<1>3. /\ frame.response.feature \in Feature /\ ans \in Answer /\ ans.rcode \in Rcode
      /\ ans.a \in Seq(ARR) /\ ans.aaaa \in Seq(AaaaRR)
      /\ TTL \in Nat /\ now \in Nat
  BY <1>1, RelayAssumption DEF TypeOK, Response, Answer
<1>4. AnswerRecords(ans) \in SUBSET RR
  BY <1>3, AnswerRecordsType
<1>5. /\ clients \in [Feature -> Clients \cup {NULL}]
      /\ owed \in [Clients -> [Feature -> Int]]
  BY <1>1 DEF TypeOK
<1> HIDE DEF ans
<1>6. /\ clients' \in [Feature -> Clients \cup {NULL}]
      /\ reply' \in Reply \cup {NULL}
      /\ owed' \in [Clients -> [Feature -> Int]]
  BY <1>2, <1>3, <1>4, <1>5, SendType
<1>7. before.ipv4 \in AddressTable(IPv4) /\ before.ipv6 \in AddressTable(IPv6)
  BY <1>1 DEF TablesOK
<1>8. ipv4' \in AddressTable(IPv4)
  <2>1. \A rr \in ARR : rr.name \in Names /\ rr.data \in IPv4
    BY DEF ARR
  <2>2. ans.a # <<>> => Data(ans.a) \in Seq(IPv4) \ {<<>>} /\ ans.a[Len(ans.a)].name \in Names
    BY <1>3, <2>1, DataType
  <2>3. QED
    BY <1>1, <1>3, <1>7, <2>2, PutType
<1>9. ipv6' \in AddressTable(IPv6)
  <2>1. \A rr \in AaaaRR : rr.name \in Names /\ rr.data \in IPv6
    BY DEF AaaaRR
  <2>2. ans.aaaa # <<>> => Data(ans.aaaa) \in Seq(IPv6) \ {<<>>} /\ ans.aaaa[Len(ans.aaaa)].name \in Names
    BY <1>3, <2>1, DataType
  <2>3. QED
    BY <1>1, <1>3, <1>7, <2>2, PutType
<1>10. QED
  BY <1>1, <1>2, <1>6, <1>8, <1>9 DEF TypeOK

-----------------------------------------------------------------------------
(* The invariant holds *)

LEMMA AnsweringInit == InitAnswering => IInv
BY InitType DEF InitAnswering, IInv, Idle

\* Every step keeps the invariant; a step of a callback that is not its return
\* leaves it running.
LEMMA AnsweringStep == IInv /\ [NextAnswering]_detail => IInv'
<1> SUFFICES ASSUME IInv, [NextAnswering]_detail PROVE IInv'
  OBVIOUS
<1>1. ASSUME NEW c \in Clients, NEW f \in Feature, Receive(c, f) PROVE IInv'
  BY <1>1, ReceiveKeeps
<1>2. CASE CountAlias
  BY <1>2, CountAliasKeeps
<1>3. CASE Spin
  BY <1>3, SpinType, IdleKept DEF Spin, Return
<1>4. CASE CountIPv4
  BY <1>4, CountIPv4Keeps
<1>5. CASE CountIPv6
  BY <1>5, CountIPv6Keeps
<1>6. CASE CountNoAddress
  BY <1>6, CountNoAddressKeeps
<1>7. CASE Miss
  BY <1>7, MissKeeps
<1>8. CASE AskUpstream
  BY <1>8, AskUpstreamType, IdleKept DEF AskUpstream, Return
<1>9. CASE Refuse
  BY <1>9, RefuseType, IdleKept DEF Refuse, Return
<1>10. CASE Allocate
  BY <1>10, AllocateKeeps
<1>11. CASE WriteAlias
  BY <1>11, WriteAliasKeeps
<1>12. CASE WriteAddresses
  BY <1>12, WriteAddressesKeeps
<1>13. CASE Answered
  BY <1>13, AnsweredType, IdleKept DEF Answered, Return
<1>14. ASSUME NEW r \in fromUpstream, NEW duplicate \in BOOLEAN, ReceiveResponse(r, duplicate)
       PROVE  IInv'
  BY <1>14, ReceiveResponseKeeps
<1>15. CASE LearnAlias
  BY <1>15, LearnAliasKeeps
<1>16. CASE CollectIPv4
  BY <1>16, CollectIPv4Keeps
<1>17. CASE CollectIPv6
  BY <1>17, CollectIPv6Keeps
<1>18. CASE Relayed
  BY <1>18, RelayedType, IdleKept DEF Relayed, Return
<1>19. CASE Between
  <2>1. TypeOK /\ [Next]_vars
    BY <1>19 DEF IInv, Between, Next
  <2>2. TypeOK'
    BY <2>1, TypeStep
  <2>3. QED
    BY <1>19, <2>2, IdleKept DEF Between, Idle
<1>20. CASE UNCHANGED detail
  <2>1. UNCHANGED vars /\ frame' = frame /\ before' = before
    BY <1>20 DEF detail
  <2>2. TypeOK'
    BY <2>1, TypeKept DEF IInv
  <2>3. /\ status' = status /\ now' = now
        /\ toUpstream' = toUpstream /\ fromUpstream' = fromUpstream
        /\ owed' = owed /\ clients' = clients /\ ipv4' = ipv4 /\ ipv6' = ipv6 /\ cname' = cname
    BY <2>1 DEF vars, server, network
  <2>4. ReceiveInv => ReceiveInv'
    BY <2>1, <2>3 DEF ReceiveInv, Queries
  <2>5. ResponseInv => ResponseInv'
    BY <2>1, <2>3 DEF ResponseInv
  <2>6. QED
    BY <2>1, <2>2, <2>4, <2>5 DEF IInv, Idle
<1>21. QED
  BY <1>1, <1>2, <1>3, <1>4, <1>5, <1>6, <1>7, <1>8, <1>9, <1>10, <1>11, <1>12, <1>13,
     <1>14, <1>15, <1>16, <1>17, <1>18, <1>19, <1>20 DEF NextAnswering

\* The tables of the start, the locals and what has been done of the response
\* or the questions stay in step, whatever the callbacks are given.
THEOREM LocalsInStep == SpecAnswering => []IInv
BY AnsweringInit, AnsweringStep, PTL DEF SpecAnswering

\* The second pass of bind_socket_read fills the array that the first one
\* measured, and never writes past its end.
THEOREM AnswersAlwaysFit == SpecAnswering => []AnswersFit
<1>1. IInv => AnswersFit
  <2> SUFFICES ASSUME IInv, ~Idle, frame.pc = "writing"
               PROVE  /\ Len(frame.answers) <= frame.room
                      /\ Past("writing") => Len(frame.answers) = frame.room
    BY DEF AnswersFit
  <2>1. /\ TablesOK(before) /\ PlaceOK(frame, before) /\ WritingOK(frame, before)
        /\ frame.i \notin DOMAIN Queries => frame.i = Len(frame.feature.queries) + 1
    BY AtReturn
  <2>2. /\ Len(frame.answers) <= frame.room
        /\ frame.i = Len(frame.feature.queries) + 1 => Len(frame.answers) = frame.room
    BY <2>1, Fits
  <2>3. QED
    BY <2>1, <2>2 DEF Past
<1>2. QED
  BY <1>1, LocalsInStep, PTL

-----------------------------------------------------------------------------
(* A callback is one step of Relay *)

LEMMA WholeSizes == \A S : Whole!Cardinality(S) = Cardinality(S)
BY DEF Whole!Cardinality, Cardinality

\* Relay, as Answering instantiates it, has the same chases.
LEMMA WholeChases ==
    /\ \A table, n : Whole!Cached(table, n) <=> Cached(table, n)
    /\ \A aliases, d : Whole!Chains(aliases, d) = Chains(aliases, d)
    /\ \A aliases, d : Whole!Endless(aliases, d) <=> Endless(aliases, d)
    /\ \A aliases, d : Whole!Chain(aliases, d) = Chain(aliases, d)
    /\ \A aliases, d : Whole!EndOf(aliases, d) = EndOf(aliases, d)
<1>1. \A table, n : Whole!Cached(table, n) <=> Cached(table, n)
  BY DEF Whole!Cached, Cached
<1>2. \A aliases, d : Whole!Chains(aliases, d) = Chains(aliases, d)
  <2> SUFFICES ASSUME NEW aliases, NEW d PROVE Whole!Chains(aliases, d) = Chains(aliases, d)
    OBVIOUS
  <2>1. \A walk : walk \in Whole!Chains(aliases, d) <=> walk \in Chains(aliases, d)
    BY <1>1, WholeSizes DEF Whole!Chains, Chains
  <2>2. QED
    BY <2>1, SetExtensionality
<1>3. \A aliases, d : Whole!Endless(aliases, d) <=> Endless(aliases, d)
  BY <1>2 DEF Whole!Endless, Endless
<1>4. \A aliases, d : Whole!Chain(aliases, d) = Chain(aliases, d)
  BY <1>2 DEF Whole!Chain, Chain
<1>5. \A aliases, d : Whole!EndOf(aliases, d) = EndOf(aliases, d)
  BY <1>4 DEF Whole!EndOf, EndOf
<1>6. QED
  BY <1>1, <1>2, <1>3, <1>4, <1>5

\* What Relay says of one question.
LEMMA WholeQuestion ==
    ASSUME NEW q
    PROVE  /\ Whole!Hangs(q) <=> Hanging(Seen, q)
           /\ Whole!Misses(q) <=> Missing(Seen, q)
           /\ Whole!RecordsFor(q) = Records(Seen, q)
<1>1. Whole!Chases(q) <=> Chases(q)
  BY DEF Whole!Chases, Chases
<1>2. Whole!Hangs(q) <=> Hanging(Seen, q)
  BY <1>1, WholeChases DEF Whole!Hangs, Hanging
<1>3. Whole!Misses(q) <=> Missing(Seen, q)
  BY WholeChases DEF Whole!Misses, Missing
<1>4. \A n : /\ Whole!generate_ipv4_response(n) = AddressRecords("A", Seen.ipv4, n)
             /\ Whole!generate_ipv6_response(n) = AddressRecords("AAAA", Seen.ipv6, n)
  BY DEF Whole!generate_ipv4_response, Whole!generate_ipv6_response, AddressRecords
<1>5. \A w : Whole!generate_cname_response(w) = generate_cname_response(w)
  BY DEF Whole!generate_cname_response, generate_cname_response
<1>6. Whole!RecordsFor(q) = Records(Seen, q)
  BY <1>1, <1>4, <1>5, WholeChases DEF Whole!RecordsFor, Records
<1>7. QED
  BY <1>2, <1>3, <1>6

\* What Relay says of the first pass over the questions, when the first k are
\* hits and the next, if there is one, is not.
LEMMA WholePass ==
    ASSUME NEW qs \in QuerySeqs, NEW k \in 0..Len(qs),
           \A j \in 1..k : Hit(Seen, qs[j]),
           k < Len(qs) => ~Hit(Seen, qs[k + 1])
    PROVE  /\ Whole!LookedUp(qs) = Lookups(Seen, qs, k)
           /\ k < Len(qs) /\ Hanging(Seen, qs[k + 1]) => Whole!PassHangs(qs)
           /\ k < Len(qs) /\ ~Hanging(Seen, qs[k + 1]) => Whole!PassMisses(qs)
           /\ k = Len(qs) => ~Whole!PassHangs(qs) /\ ~Whole!PassMisses(qs)
<1>1. Len(qs) \in Nat /\ DOMAIN qs = 1..Len(qs) /\ k \in Nat
  BY QuestionType
<1>2. \A j : Hit(Seen, qs[j]) <=> ~Whole!Hangs(qs[j]) /\ ~Whole!Misses(qs[j])
  BY WholeQuestion DEF Hit
<1>3. \A i : Whole!Reached(qs, i) <=> \A j \in 1..(i - 1) : Hit(Seen, qs[j])
  BY <1>2 DEF Whole!Reached
<1>4. ASSUME NEW j \in DOMAIN qs
      PROVE  Whole!Reached(qs, j) /\ Hit(Seen, qs[j]) <=> j \in 1..k
  <2>1. ASSUME j \in 1..k PROVE Whole!Reached(qs, j) /\ Hit(Seen, qs[j])
    <3>1. \A m \in 1..(j - 1) : m \in 1..k
      BY <1>1, <2>1
    <3>2. QED
      BY <1>3, <2>1, <3>1
  <2>2. ASSUME Whole!Reached(qs, j), Hit(Seen, qs[j]), j \notin 1..k PROVE FALSE
    <3>1. k < Len(qs) /\ k + 1 <= j
      BY <1>1, <2>2
    <3>2. k + 1 = j \/ k + 1 \in 1..(j - 1)
      BY <1>1, <3>1
    <3>3. Hit(Seen, qs[k + 1])
      BY <1>3, <2>2, <3>2
    <3>4. QED
      BY <3>1, <3>3
  <2>3. QED
    BY <2>1, <2>2
<1>5. Whole!LookedUp(qs) = Lookups(Seen, qs, k)
  <2>1. \A j : j \in 1..k => j \in DOMAIN qs
    BY <1>1
  <2>2. \A n : n \in Whole!LookedUp(qs) <=>
           \E j \in DOMAIN qs : /\ Whole!Reached(qs, j) /\ Hit(Seen, qs[j])
                                /\ qs[j].type = "A" /\ n = EndOf(Seen.cname, qs[j].name)
    BY <1>2, WholeChases DEF Whole!LookedUp
  <2>3. \A n : n \in Lookups(Seen, qs, k) <=>
           \E j \in 1..k : qs[j].type = "A" /\ Hit(Seen, qs[j]) /\ n = EndOf(Seen.cname, qs[j].name)
    BY DEF Lookups
  <2>4. \A n : n \in Whole!LookedUp(qs) <=> n \in Lookups(Seen, qs, k)
    BY <1>4, <2>1, <2>2, <2>3
  <2>5. QED
    BY <2>4, SetExtensionality
<1>6. ASSUME k < Len(qs)
      PROVE  /\ k + 1 \in DOMAIN qs /\ Whole!Reached(qs, k + 1)
             /\ Hanging(Seen, qs[k + 1]) <=> Whole!Hangs(qs[k + 1])
             /\ ~Hanging(Seen, qs[k + 1]) => Whole!Misses(qs[k + 1])
  <2>1. k + 1 \in DOMAIN qs /\ (k + 1) - 1 = k
    BY <1>1, <1>6
  <2>2. Whole!Reached(qs, k + 1)
    BY <1>3, <2>1
  <2>3. QED
    BY <1>6, <2>1, <2>2, WholeQuestion DEF Hit
<1>7. ASSUME k < Len(qs), Hanging(Seen, qs[k + 1]) PROVE Whole!PassHangs(qs)
  BY <1>6, <1>7 DEF Whole!PassHangs
<1>8. ASSUME k < Len(qs), ~Hanging(Seen, qs[k + 1]) PROVE Whole!PassMisses(qs)
  BY <1>6, <1>8 DEF Whole!PassMisses
<1>9. ASSUME k = Len(qs) PROVE ~Whole!PassHangs(qs) /\ ~Whole!PassMisses(qs)
  <2>1. \A i \in DOMAIN qs : ~Whole!Hangs(qs[i]) /\ ~Whole!Misses(qs[i])
    BY <1>1, <1>2, <1>9
  <2>2. QED
    BY <2>1 DEF Whole!PassHangs, Whole!PassMisses
<1>10. QED
  BY <1>5, <1>7, <1>8, <1>9

\* What follows for the tables and the reply.
LEMMA WholeMarks ==
    ASSUME NEW qs, NEW S, Whole!LookedUp(qs) = S
    PROVE  /\ Whole!Touched(qs) = Marked(Seen, S)
           /\ Whole!Banned(qs) <=> \E n \in S : ZeroFirst(Seen.ipv4[n])
<1>1. \A entry : Whole!ZeroFirst(entry) <=> ZeroFirst(entry)
  BY DEF Whole!ZeroFirst, ZeroFirst
<1>2. Whole!Banned(qs) <=> \E n \in S : ZeroFirst(Seen.ipv4[n])
  BY <1>1 DEF Whole!Banned
<1>3. Whole!Touched(qs) = Marked(Seen, S)
  BY DEF Whole!Touched, Marked, Whole!ZeroFirst, ZeroFirst
<1>4. QED
  BY <1>2, <1>3

LEMMA WholeAnswers ==
    ASSUME NEW qs \in QuerySeqs
    PROVE  Whole!CachedAnswers(qs) = Generated(Seen, qs, Len(qs))
<1>1. DOMAIN qs = 1..Len(qs)
  BY QuestionType
<1>2. \A i : Whole!RecordsFor(qs[i]) = Records(Seen, qs[i])
  BY WholeQuestion
<1>3. QED
  BY <1>1, <1>2 DEF Whole!CachedAnswers, Generated

\* A step that changes neither what is seen nor what is outside is none.
LEMMA Unseen == ASSUME Seen' = Seen, UNCHANGED outside PROVE UNCHANGED Whole!vars
BY DEF outside, network, Whole!vars, Whole!server, Whole!network

LEMMA StartUnseen == ASSUME Idle, ~Idle', before' = Tables PROVE Seen' = Seen
BY DEF Seen

LEMMA InnerUnseen == ASSUME ~Idle, ~Idle', before' = before PROVE Seen' = Seen
BY DEF Seen

\* Between callbacks the tables are seen as they are.
LEMMA IdleSeen ==
    ASSUME Idle
    PROVE  /\ Seen.clients = clients /\ Seen.ipv4 = ipv4
           /\ Seen.ipv6 = ipv6 /\ Seen.cname = cname
BY DEF Seen, Tables

LEMMA ReturnSeen ==
    ASSUME frame' = NULL
    PROVE  /\ Seen'.clients = clients' /\ Seen'.ipv4 = ipv4'
           /\ Seen'.ipv6 = ipv6' /\ Seen'.cname = cname'
BY DEF Seen, Tables, Idle

\* Sending, as Relay sees it.
LEMMA WholeSends ==
    ASSUME Seen'.clients = clients', NEW waiting, NEW due, NEW f, NEW rcode, NEW answers,
           send_response(waiting, due, f, rcode, answers)
    PROVE  Whole!send_response(waiting, due, f, rcode, answers)
BY DEF send_response, Whole!send_response

\* What a return of bind_socket_read has done, from the tables of the start.
LEMMA ReceivedSeen ==
    ASSUME IInv, ~Idle, frame.pc = "counting" \/ frame.pc = "writing"
    PROVE  /\ Seen = before
           /\ status = "running" /\ frame.feature.id \in IdsOf[frame.client]
           /\ owed[frame.client][frame.feature] < MaxOwed
           /\ Whole!Cardinality(toUpstream) + Whole!Cardinality(fromUpstream) < MaxInFlight
           /\ clients = [Seen.clients EXCEPT ![frame.feature] = frame.client]
           /\ ipv4 = Marked(Seen, Lookups(Seen, frame.feature.queries, LookedAt(frame)))
           /\ ipv6 = Seen.ipv6 /\ cname = Seen.cname
<1>1. ReceiveInv /\ Queries = frame.feature.queries
  BY AtReturn
<1>2. Seen = before
  BY DEF Seen
<1>3. QED
  BY <1>1, <1>2, WholeSizes DEF ReceiveInv

LEMMA SpinIsStep == ASSUME IInv, Spin PROVE Whole!bind_socket_read(frame.client, frame.feature)
<1> DEFINE c == frame.client
           f == frame.feature
           qs == frame.feature.queries
           k == frame.i - 1
<1>1. /\ ~Idle /\ frame.pc = "counting" /\ frame.cached /\ frame.i \in DOMAIN Queries
      /\ Follows
      /\ cname[Domain].name \in ToSet(frame.walk)
      /\ status' = "spinning" /\ owed' = Due /\ reply' = NULL /\ frame' = NULL
      /\ UNCHANGED <<clients, ipv4, ipv6, cname, now, nextClear, network, zone>>
  BY DEF Spin, Counting, At, Return
<1>2. /\ Seen = before
      /\ status = "running" /\ f.id \in IdsOf[c]
      /\ owed[c][f] < MaxOwed
      /\ Whole!Cardinality(toUpstream) + Whole!Cardinality(fromUpstream) < MaxInFlight
      /\ clients = [Seen.clients EXCEPT ![f] = c]
      /\ ipv4 = Marked(Seen, Lookups(Seen, qs, LookedAt(frame)))
      /\ ipv6 = Seen.ipv6 /\ cname = Seen.cname
  BY <1>1, ReceivedSeen
<1>3. /\ Seen'.clients = clients' /\ Seen'.ipv4 = ipv4'
      /\ Seen'.ipv6 = ipv6' /\ Seen'.cname = cname'
  BY <1>1, ReturnSeen
<1>4. /\ CountingOK(frame, before) /\ TablesOK(before)
      /\ qs \in QuerySeqs /\ Query = qs[frame.i]
      /\ frame.i <= Len(qs) /\ Domain = frame.walk[Len(frame.walk)]
      /\ Linked(before.cname, frame.walk, Query.name)
      /\ Chases(Query) /\ Cached(before.cname, Domain) /\ cname = before.cname
  BY <1>1, AtQuestion
<1>5. Len(qs) \in Nat /\ frame.i \in Nat /\ frame.i >= 1
  BY <1>1, AtReturn
<1>6. k \in 0..Len(qs) /\ k < Len(qs) /\ k + 1 = frame.i
  BY <1>4, <1>5
<1>7. \A j \in 1..k : Hit(Seen, qs[j])
  BY <1>1, <1>2, <1>4 DEF CountingOK
<1>8. Hanging(Seen, qs[k + 1])
  <2>1. Endless(before.cname, Query.name)
    BY <1>1, <1>4, ComesBack DEF TablesOK
  <2>2. QED
    BY <1>2, <1>4, <1>6, <2>1 DEF Hanging
<1>9. LookedAt(frame) = k
  BY <1>1 DEF LookedAt
<1> HIDE DEF k
<1>10. Whole!LookedUp(qs) = Lookups(Seen, qs, k) /\ Whole!PassHangs(qs)
  <2>1. k < Len(qs) => ~Hit(Seen, qs[k + 1])
    BY <1>8 DEF Hit
  <2> HIDE DEF qs
  <2>2. QED
    BY <1>4, <1>6, <1>7, <1>8, <2>1, WholePass
<1>11. Seen'.ipv4 = Whole!Touched(qs)
  BY <1>1, <1>2, <1>3, <1>9, <1>10, WholeMarks
<1>12. /\ Seen'.clients = [Seen.clients EXCEPT ![f] = c]
       /\ Seen'.ipv6 = Seen.ipv6 /\ Seen'.cname = Seen.cname
  BY <1>1, <1>2, <1>3
<1>13. /\ now' = now /\ nextClear' = nextClear /\ zone' = zone
       /\ toUpstream' = toUpstream /\ fromUpstream' = fromUpstream
       /\ owed' = [owed EXCEPT ![c][f] = @ + 1]
  BY <1>1 DEF network, Due
<1>14. QED
  BY <1>1, <1>2, <1>10, <1>11, <1>12, <1>13 DEF Whole!bind_socket_read

LEMMA AskUpstreamIsStep ==
    ASSUME IInv, AskUpstream
    PROVE  Whole!bind_socket_read(frame.client, frame.feature)
<1> DEFINE c == frame.client
           f == frame.feature
           qs == frame.feature.queries
           k == frame.i - 2
<1>1. /\ ~Idle /\ frame.pc = "counting" /\ ~frame.cached
      /\ send_query(f)
      /\ owed' = Due /\ reply' = NULL /\ frame' = NULL
      /\ UNCHANGED <<server, now, fromUpstream, zone>>
  BY DEF AskUpstream, Return
<1>2. /\ Seen = before
      /\ status = "running" /\ f.id \in IdsOf[c]
      /\ owed[c][f] < MaxOwed
      /\ Whole!Cardinality(toUpstream) + Whole!Cardinality(fromUpstream) < MaxInFlight
      /\ clients = [Seen.clients EXCEPT ![f] = c]
      /\ ipv4 = Marked(Seen, Lookups(Seen, qs, LookedAt(frame)))
      /\ ipv6 = Seen.ipv6 /\ cname = Seen.cname
  BY <1>1, ReceivedSeen
<1>3. /\ Seen'.clients = clients' /\ Seen'.ipv4 = ipv4'
      /\ Seen'.ipv6 = ipv6' /\ Seen'.cname = cname'
  BY <1>1, ReturnSeen
<1>4. /\ CountingOK(frame, before)
      /\ qs \in QuerySeqs /\ Len(qs) \in Nat
      /\ frame.i \in Nat /\ (frame.i <= Len(qs) \/ frame.i = Len(qs) + 1)
  BY <1>1, AtReturn
<1>5. /\ frame.i >= 2
      /\ \A j \in 1..(frame.i - 2) : Hit(Seen, qs[j])
      /\ ~Hanging(Seen, qs[frame.i - 1])
      /\ Missing(Seen, qs[frame.i - 1])
  BY <1>1, <1>2, <1>4 DEF CountingOK
<1>6. k \in 0..Len(qs) /\ k < Len(qs) /\ k + 1 = frame.i - 1 /\ (k + 1) - 1 = k /\ k + 1 \in Nat \ {0}
  BY <1>4, <1>5
<1>7. LookedAt(frame) = k + 1
  BY <1>1, <1>6 DEF LookedAt
<1>8. (\A j \in 1..k : Hit(Seen, qs[j])) /\ ~Hanging(Seen, qs[k + 1]) /\ ~Hit(Seen, qs[k + 1])
  BY <1>5, <1>6 DEF Hit
<1> HIDE DEF k
<1>9. Whole!LookedUp(qs) = Lookups(Seen, qs, k) /\ Whole!PassMisses(qs)
  <2> HIDE DEF qs
  <2>1. QED
    BY <1>4, <1>6, <1>8, WholePass
<1>10. Lookups(Seen, qs, k + 1) = Lookups(Seen, qs, k)
  <2>1. Lookups(Seen, qs, k + 1) = Lookups(Seen, qs, (k + 1) - 1)
    BY <1>6, <1>8, MarksSame
  <2>2. QED
    BY <1>6, <2>1
<1>11. Seen'.ipv4 = Whole!Touched(qs)
  <2>1. ipv4' = ipv4
    BY <1>1 DEF server
  <2>2. QED
    BY <1>2, <1>3, <1>7, <1>9, <1>10, <2>1, WholeMarks
<1>12. /\ Seen'.clients = [Seen.clients EXCEPT ![f] = c]
       /\ Seen'.ipv6 = Seen.ipv6 /\ Seen'.cname = Seen.cname
  BY <1>1, <1>2, <1>3 DEF server
<1>13. /\ now' = now /\ nextClear' = nextClear /\ zone' = zone /\ status' = status
       /\ fromUpstream' = fromUpstream
       /\ owed' = [owed EXCEPT ![c][f] = @ + 1]
  BY <1>1 DEF server, Due
<1>14. Whole!send_query(f)
  BY <1>1 DEF send_query, Readable, Whole!send_query, Whole!Readable
<1>15. QED
  BY <1>1, <1>2, <1>9, <1>11, <1>12, <1>13, <1>14 DEF Whole!bind_socket_read

\* Every question was a hit: what Relay does then.
LEMMA AllHitStep ==
    ASSUME IInv, ~Idle, frame.pc = "counting" \/ frame.pc = "writing",
           \A j \in 1..Len(frame.feature.queries) : Hit(Seen, frame.feature.queries[j]),
           LookedAt(frame) = Len(frame.feature.queries),
           frame' = NULL,
           NEW rcode, NEW answers,
           send_response(clients, Due, frame.feature, rcode, answers),
           IF \E n \in Lookups(Seen, frame.feature.queries, Len(frame.feature.queries)) :
                 ZeroFirst(Seen.ipv4[n])
           THEN rcode = NXDOMAIN /\ answers = {}
           ELSE /\ rcode = NOERROR
                /\ answers = Generated(Seen, frame.feature.queries, Len(frame.feature.queries)),
           UNCHANGED <<status, ipv4, ipv6, cname, now, nextClear, network, zone>>
    PROVE  Whole!bind_socket_read(frame.client, frame.feature)
<1> DEFINE c == frame.client
           f == frame.feature
           qs == frame.feature.queries
           k == Len(qs)
<1>1. /\ status = "running" /\ f.id \in IdsOf[c]
      /\ owed[c][f] < MaxOwed
      /\ Whole!Cardinality(toUpstream) + Whole!Cardinality(fromUpstream) < MaxInFlight
      /\ clients = [Seen.clients EXCEPT ![f] = c]
      /\ ipv4 = Marked(Seen, Lookups(Seen, qs, LookedAt(frame)))
      /\ ipv6 = Seen.ipv6 /\ cname = Seen.cname
  BY ReceivedSeen
<1>2. /\ Seen'.clients = clients' /\ Seen'.ipv4 = ipv4'
      /\ Seen'.ipv6 = ipv6' /\ Seen'.cname = cname'
  BY ReturnSeen
<1>3. qs \in QuerySeqs /\ k \in Nat
  BY AtReturn
<1>4. /\ Whole!LookedUp(qs) = Lookups(Seen, qs, k)
      /\ ~Whole!PassHangs(qs) /\ ~Whole!PassMisses(qs)
  <2> DEFINE l == k
  <2>1. l \in 0..Len(qs) /\ l = Len(qs) /\ \A j \in 1..l : Hit(Seen, qs[j])
    BY <1>3
  <2>2. l < Len(qs) => ~Hit(Seen, qs[l + 1])
    BY <1>3
  <2> HIDE DEF qs, l
  <2>3. /\ Whole!LookedUp(qs) = Lookups(Seen, qs, l)
        /\ ~Whole!PassHangs(qs) /\ ~Whole!PassMisses(qs)
    BY <1>3, <2>1, <2>2, WholePass
  <2>4. QED
    BY <2>3 DEF l
<1>5. /\ Seen'.ipv4 = Whole!Touched(qs)
      /\ Whole!Banned(qs) <=> \E n \in Lookups(Seen, qs, k) : ZeroFirst(Seen.ipv4[n])
  BY <1>1, <1>2, <1>4, WholeMarks
<1>6. Whole!CachedAnswers(qs) = Generated(Seen, qs, k)
  BY <1>3, WholeAnswers
<1>7. /\ Seen'.ipv6 = Seen.ipv6 /\ Seen'.cname = Seen.cname
      /\ now' = now /\ nextClear' = nextClear /\ zone' = zone /\ status' = status
      /\ fromUpstream' = fromUpstream /\ toUpstream' = toUpstream
  BY <1>1, <1>2 DEF network
<1>8. Whole!send_response([Seen.clients EXCEPT ![f] = c], [owed EXCEPT ![c][f] = @ + 1], f, rcode, answers)
  <2> DEFINE waiting == [Seen.clients EXCEPT ![f] = c]
             due == [owed EXCEPT ![c][f] = @ + 1]
  <2>1. Due = due /\ clients = waiting
    BY <1>1 DEF Due
  <2> HIDE DEF waiting, due, f
  <2>2. send_response(waiting, due, f, rcode, answers)
    BY <2>1 DEF f
  <2>3. Whole!send_response(waiting, due, f, rcode, answers)
    BY <1>2, <2>2, WholeSends
  <2>4. QED
    BY <2>3 DEF waiting, due
<1>9. IF Whole!Banned(qs) THEN rcode = Whole!NXDOMAIN /\ answers = {}
      ELSE rcode = Whole!NOERROR /\ answers = Whole!CachedAnswers(qs)
  BY <1>5, <1>6 DEF NXDOMAIN, NOERROR, Whole!NXDOMAIN, Whole!NOERROR
<1>10. QED
  BY <1>1, <1>4, <1>5, <1>7, <1>8, <1>9 DEF Whole!bind_socket_read

LEMMA RefuseIsStep == ASSUME IInv, Refuse PROVE Whole!bind_socket_read(frame.client, frame.feature)
<1> DEFINE qs == frame.feature.queries
<1>1. /\ ~Idle /\ frame.pc = "counting" /\ frame.i \notin DOMAIN Queries
      /\ frame.cached /\ frame.banned
      /\ send_response(clients, Due, frame.feature, NXDOMAIN, {})
      /\ frame' = NULL
      /\ UNCHANGED <<status, ipv4, ipv6, cname, now, nextClear, network, zone>>
  BY DEF Refuse, Past, Return
<1>2. /\ CountingOK(frame, before) /\ Len(qs) \in Nat /\ frame.i = Len(qs) + 1
  BY <1>1, AtReturn
<1>3. Seen = before
  BY <1>1 DEF Seen
<1>4. frame.i - 1 = Len(qs)
  BY <1>2
<1>5. /\ \A j \in 1..Len(qs) : Hit(Seen, qs[j])
      /\ \E n \in Lookups(Seen, qs, Len(qs)) : ZeroFirst(Seen.ipv4[n])
  BY <1>1, <1>2, <1>3, <1>4 DEF CountingOK
<1>6. LookedAt(frame) = Len(qs)
  BY <1>1, <1>4 DEF LookedAt
<1>7. QED
  BY <1>1, <1>5, <1>6, AllHitStep

LEMMA AnsweredIsStep == ASSUME IInv, Answered PROVE Whole!bind_socket_read(frame.client, frame.feature)
<1> DEFINE qs == frame.feature.queries
<1>1. /\ ~Idle /\ frame.pc = "writing" /\ frame.i \notin DOMAIN Queries
      /\ send_response(clients, Due, frame.feature, NOERROR, ToSet(frame.answers))
      /\ frame' = NULL
      /\ UNCHANGED <<status, ipv4, ipv6, cname, now, nextClear, network, zone>>
  BY DEF Answered, Past, Return
<1>2. /\ WritingOK(frame, before) /\ PlaceOK(frame, before)
      /\ Len(qs) \in Nat /\ frame.i = Len(qs) + 1
  BY <1>1, AtReturn
<1>3. Seen = before
  BY <1>1 DEF Seen
<1>4. frame.i - 1 = Len(qs)
  BY <1>2
<1>5. /\ \A j \in 1..Len(qs) : Hit(Seen, qs[j])
      /\ ~ \E n \in Lookups(Seen, qs, Len(qs)) : ZeroFirst(Seen.ipv4[n])
  BY <1>2, <1>3 DEF WritingOK
<1>6. ToSet(frame.answers) = Generated(Seen, qs, Len(qs))
  <2>1. frame.walk = <<>>
    BY <1>2 DEF PlaceOK
  <2>2. Len(<<>>) = 0
    OBVIOUS
  <2>3. generate_cname_response(frame.walk) = {}
    BY <2>1, <2>2 DEF generate_cname_response
  <2>4. QED
    BY <1>2, <1>3, <1>4, <2>3 DEF WritingOK
<1>7. LookedAt(frame) = Len(qs)
  BY <1>1 DEF LookedAt
<1>8. QED
  BY <1>1, <1>5, <1>6, <1>7, AllHitStep

\* The puts and clears of the caches, as Relay has them.
LEMMA WholePuts ==
    /\ \A table, n, node, ttl, t :
          /\ Whole!ipv4_cache_put(table, n, node, ttl, t) = ipv4_cache_put(table, n, node, ttl, t)
          /\ Whole!ipv6_cache_put(table, n, node, ttl, t) = ipv6_cache_put(table, n, node, ttl, t)
    /\ \A table, rrs, ttl, t :
          Whole!cname_cache_puts(table, rrs, ttl, t) = cname_cache_puts(table, rrs, ttl, t)
    /\ \A table, t :
          /\ Whole!ipv4_cache_clear(table, t) = ipv4_cache_clear(table, t)
          /\ Whole!ipv6_cache_clear(table, t) = ipv6_cache_clear(table, t)
          /\ Whole!cname_cache_clear(table) = cname_cache_clear(table)
<1>1. \A table, n, node, ttl, t :
         /\ Whole!ipv4_cache_put(table, n, node, ttl, t) = ipv4_cache_put(table, n, node, ttl, t)
         /\ Whole!ipv6_cache_put(table, n, node, ttl, t) = ipv6_cache_put(table, n, node, ttl, t)
  BY DEF Whole!ipv4_cache_put, Whole!ipv6_cache_put, Whole!Fresh, Whole!Manual, Whole!Cached,
         ipv4_cache_put, ipv6_cache_put, Fresh, Manual, Cached
<1>2. \A table, rrs, ttl, t :
         Whole!cname_cache_puts(table, rrs, ttl, t) = cname_cache_puts(table, rrs, ttl, t)
  BY DEF Whole!cname_cache_puts, cname_cache_puts
<1>3. \A table, t :
         /\ Whole!ipv4_cache_clear(table, t) = ipv4_cache_clear(table, t)
         /\ Whole!ipv6_cache_clear(table, t) = ipv6_cache_clear(table, t)
         /\ Whole!cname_cache_clear(table) = cname_cache_clear(table)
  BY DEF Whole!ipv4_cache_clear, Whole!ipv6_cache_clear, Whole!cname_cache_clear,
         Whole!Cached, Whole!Expired,
         ipv4_cache_clear, ipv6_cache_clear, cname_cache_clear, Cached, Expired
<1>4. QED
  BY <1>1, <1>2, <1>3

LEMMA RelayedIsStep ==
    ASSUME IInv, Relayed
    PROVE  /\ frame.response \in fromUpstream /\ frame.duplicate \in BOOLEAN
           /\ Whole!query_socket_read(frame.response, frame.duplicate)
<1> DEFINE r == frame.response
           ans == frame.response.answer
<1>1. /\ status = "running" /\ r \in fromUpstream /\ frame.duplicate \in BOOLEAN
      /\ clients = before.clients
      /\ cname = cname_cache_puts(before.cname, ans.cname, TTL, now)
      /\ ipv4' = IF ans.a = <<>> THEN before.ipv4
                 ELSE ipv4_cache_put(before.ipv4, ans.a[Len(ans.a)].name, Data(ans.a), TTL, now)
      /\ ipv6' = IF ans.aaaa = <<>> THEN before.ipv6
                 ELSE ipv6_cache_put(before.ipv6, ans.aaaa[Len(ans.aaaa)].name, Data(ans.aaaa), TTL, now)
  BY RelayedPuts
<1>2. /\ ~Idle
      /\ fromUpstream' = IF frame.duplicate THEN fromUpstream ELSE fromUpstream \ {r}
      /\ send_response(clients, owed, r.feature, ans.rcode, AnswerRecords(ans))
      /\ frame' = NULL
      /\ UNCHANGED <<status, cname, now, nextClear, toUpstream, zone>>
  BY DEF Relayed, Learning, Return
<1>3. Seen = before
  BY <1>2 DEF Seen
<1>4. /\ Seen'.clients = clients' /\ Seen'.ipv4 = ipv4'
      /\ Seen'.ipv6 = ipv6' /\ Seen'.cname = cname'
  BY <1>2, ReturnSeen
<1>5. /\ \A rrs : Whole!Data(rrs) = Data(rrs)
      /\ Whole!AnswerRecords(ans) = AnswerRecords(ans)
  BY DEF Whole!Data, Data, Whole!AnswerRecords, AnswerRecords
<1> HIDE DEF ans
<1>6. Seen'.ipv4 = Whole!Learn4(ans.a) /\ Seen'.ipv6 = Whole!Learn6(ans.aaaa)
  BY <1>1, <1>3, <1>4, <1>5, WholePuts DEF Whole!Learn4, Whole!Learn6
<1>7. Seen'.cname = Whole!cname_cache_puts(Seen.cname, ans.cname, TTL, now)
  BY <1>1, <1>2, <1>3, <1>4, WholePuts
<1>8. Whole!send_response(Seen.clients, owed, r.feature, ans.rcode, Whole!AnswerRecords(ans))
  <2> DEFINE waiting == Seen.clients
             f == r.feature
             rcode == ans.rcode
             answers == AnswerRecords(ans)
  <2>1. send_response(waiting, owed, f, rcode, answers)
    BY <1>1, <1>2, <1>3
  <2> HIDE DEF waiting, f, rcode, answers
  <2>2. Whole!send_response(waiting, owed, f, rcode, answers)
    BY <1>4, <2>1, WholeSends
  <2>3. QED
    BY <1>5, <2>2 DEF waiting, f, rcode, answers
<1>9. Whole!query_socket_read(r, frame.duplicate)
  BY <1>1, <1>2, <1>6, <1>7, <1>8 DEF Whole!query_socket_read, ans
<1>10. QED
  BY <1>1, <1>9

LEMMA BetweenIsStep == ASSUME Between PROVE Whole!Next
<1>1. Idle /\ frame' = NULL
  BY DEF Between, Idle
<1>2. /\ Seen.clients = clients /\ Seen.ipv4 = ipv4
      /\ Seen.ipv6 = ipv6 /\ Seen.cname = cname
      /\ Seen'.clients = clients' /\ Seen'.ipv4 = ipv4'
      /\ Seen'.ipv6 = ipv6' /\ Seen'.cname = cname'
  BY <1>1, IdleSeen, ReturnSeen
<1>3. UNCHANGED server => UNCHANGED Whole!server
  BY <1>2 DEF server, Whole!server
<1>4. UNCHANGED network => UNCHANGED Whole!network
  BY DEF network, Whole!network
<1>5. CASE clear_callback
  <2>1. Whole!clear_callback
    BY <1>2, <1>4, <1>5, WholePuts DEF clear_callback, Whole!clear_callback
  <2>2. QED
    BY <2>1 DEF Whole!Next
<1>6. CASE sigint_callback
  <2>1. Whole!sigint_callback
    BY <1>2, <1>4, <1>6 DEF sigint_callback, Whole!sigint_callback
  <2>2. QED
    BY <2>1 DEF Whole!Next
<1>7. CASE Tick
  <2>1. Whole!Tick
    BY <1>3, <1>4, <1>7 DEF Tick, Whole!Tick
  <2>2. QED
    BY <2>1 DEF Whole!Next
<1>8. ASSUME NEW f \in toUpstream, NEW duplicate \in BOOLEAN, UpstreamAnswer(f, duplicate)
      PROVE  Whole!Next
  <2>1. Whole!UpstreamAnswer(f, duplicate)
    BY <1>3, <1>8 DEF UpstreamAnswer, Whole!UpstreamAnswer
  <2>2. QED
    BY <2>1 DEF Whole!Next
<1>9. CASE ZoneChange
  <2>1. Whole!ZoneChange
    BY <1>3, <1>4, <1>9 DEF ZoneChange, Whole!ZoneChange
  <2>2. QED
    BY <2>1 DEF Whole!Next
<1>10. CASE Lose
  <2>1. Whole!Lose
    BY <1>3, <1>10 DEF Lose, Whole!Lose
  <2>2. QED
    BY <2>1 DEF Whole!Next
<1>11. CASE Stopped
  <2>1. Whole!Stopped
    BY <1>3, <1>4, <1>11 DEF Stopped, Whole!Stopped
  <2>2. QED
    BY <2>1 DEF Whole!Next
<1>12. QED
  BY <1>5, <1>6, <1>7, <1>8, <1>9, <1>10, <1>11 DEF Between

LEMMA WholeInit == InitAnswering => Whole!Init
<1> SUFFICES ASSUME InitAnswering PROVE Whole!Init
  OBVIOUS
<1>1. Init /\ Idle
  BY DEF InitAnswering, Idle
<1>2. /\ Seen.clients = clients /\ Seen.ipv4 = ipv4
      /\ Seen.ipv6 = ipv6 /\ Seen.cname = cname
  BY <1>1, IdleSeen
<1>3. Whole!ipv4_read_file = ipv4_read_file
  BY DEF Whole!ipv4_read_file, ipv4_read_file, Whole!ReadAddress, ReadAddress,
         Whole!Fresh, Fresh
<1>4. Whole!EmptyTable = EmptyTable
  BY DEF Whole!EmptyTable, EmptyTable
<1>5. Whole!Feature = Feature
  BY DEF Whole!Feature, Feature
<1>6. QED
  BY <1>1, <1>2, <1>3, <1>4, <1>5 DEF Init, Whole!Init

\* Every step of the callbacks is a step of Relay or hidden from it.
LEMMA WholeStep == IInv /\ [NextAnswering]_detail => [Whole!Next]_(Whole!vars)
<1> SUFFICES ASSUME IInv, [NextAnswering]_detail PROVE Whole!Next \/ UNCHANGED Whole!vars
  OBVIOUS
<1>1. ASSUME NEW c \in Clients, NEW f \in Feature, Receive(c, f) PROVE UNCHANGED Whole!vars
  BY <1>1, ReceiveKeeps, StartUnseen, Unseen DEF Receive
<1>2. ASSUME NEW r \in fromUpstream, NEW duplicate \in BOOLEAN, ReceiveResponse(r, duplicate)
      PROVE  UNCHANGED Whole!vars
  <2>1. UNCHANGED outside
    BY <1>2 DEF ReceiveResponse, outside, vars, server
  <2>2. QED
    BY <1>2, <2>1, ReceiveResponseKeeps, StartUnseen, Unseen DEF ReceiveResponse
<1>3. ASSUME ~Idle, ~Idle', before' = before, UNCHANGED vars \/ UNCHANGED outside
      PROVE  UNCHANGED Whole!vars
  <2>1. UNCHANGED outside
    BY <1>3 DEF outside, vars, server
  <2>2. QED
    BY <1>3, <2>1, InnerUnseen, Unseen
<1>4. CASE CountAlias
  BY <1>3, <1>4, CountAliasKeeps DEF CountAlias, Counting, At
<1>5. CASE CountIPv4
  BY <1>3, <1>5, CountIPv4Keeps DEF CountIPv4, Counting, At
<1>6. CASE CountIPv6
  BY <1>3, <1>6, CountIPv6Keeps DEF CountIPv6, Counting, At
<1>7. CASE CountNoAddress
  BY <1>3, <1>7, CountNoAddressKeeps DEF CountNoAddress, Counting, At
<1>8. CASE Miss
  BY <1>3, <1>8, MissKeeps DEF Miss, Counting, At
<1>9. CASE Allocate
  BY <1>3, <1>9, AllocateKeeps DEF Allocate, Past
<1>10. CASE WriteAlias
  BY <1>3, <1>10, WriteAliasKeeps DEF WriteAlias, Writing, At
<1>11. CASE WriteAddresses
  BY <1>3, <1>11, WriteAddressesKeeps DEF WriteAddresses, Writing, At
<1>12. CASE LearnAlias
  BY <1>3, <1>12, LearnAliasKeeps DEF LearnAlias, Learning
<1>13. CASE CollectIPv4
  BY <1>3, <1>13, CollectIPv4Keeps DEF CollectIPv4, Learning
<1>14. CASE CollectIPv6
  BY <1>3, <1>14, CollectIPv6Keeps DEF CollectIPv6, Learning
<1>15. ASSUME Whole!bind_socket_read(frame.client, frame.feature),
              ~Idle, frame.pc = "counting" \/ frame.pc = "writing"
       PROVE  Whole!Next
  <2>1. frame.client \in Clients /\ frame.feature \in Whole!Feature
    BY <1>15, AtReturn DEF Feature, Whole!Feature
  <2>2. QED
    BY <1>15, <2>1 DEF Whole!Next
<1>16. CASE Spin
  BY <1>15, <1>16, SpinIsStep DEF Spin, Counting, At
<1>17. CASE AskUpstream
  BY <1>15, <1>17, AskUpstreamIsStep DEF AskUpstream
<1>18. CASE Refuse
  BY <1>15, <1>18, RefuseIsStep DEF Refuse, Past
<1>19. CASE Answered
  BY <1>15, <1>19, AnsweredIsStep DEF Answered, Past
<1>20. CASE Relayed
  BY <1>20, RelayedIsStep DEF Whole!Next
<1>21. CASE Between
  BY <1>21, BetweenIsStep
<1>22. CASE UNCHANGED detail
  <2>1. UNCHANGED outside /\ Seen' = Seen
    BY <1>22 DEF detail, vars, server, outside, Seen, Tables, Idle
  <2>2. QED
    BY <2>1, Unseen
<1>23. QED
  BY <1>1, <1>2, <1>4, <1>5, <1>6, <1>7, <1>8, <1>9, <1>10, <1>11, <1>12, <1>13, <1>14,
     <1>16, <1>17, <1>18, <1>19, <1>20, <1>21, <1>22 DEF NextAnswering

\* Each receive callback, with its loops, comes to the one step that Relay
\* takes it for: the proofs about Relay are about the loops.
THEOREM AnsweringImplementsRelay == SpecAnswering => ImplementsRelay
<1>1. InitAnswering => Whole!Init
  BY WholeInit
<1>2. IInv /\ [NextAnswering]_detail => [Whole!Next]_(Whole!vars)
  BY WholeStep
<1>3. QED
  BY <1>1, <1>2, LocalsInStep, PTL DEF SpecAnswering, ImplementsRelay, Whole!Spec
=============================================================================
