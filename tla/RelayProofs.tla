----------------------------- MODULE RelayProofs -----------------------------
(***************************************************************************)
(* Theorems about Relay, for every choice of its constants that satisfies  *)
(* RelayAssumption and CachesAssumption.                                   *)
(***************************************************************************)
EXTENDS Relay, InductionLemmas, FiniteSetTheorems

-----------------------------------------------------------------------------
(* The caches *)

LEMMA FreshType ==
    ASSUME NEW Address, NEW node \in Seq(Address) \ {<<>>}, NEW ttl \in Nat, NEW t \in Nat
    PROVE  Fresh(node, ttl, t) \in Entry(Address)
BY DEF Fresh, Entry

\* A put keeps a table a table.
LEMMA PutType ==
    ASSUME NEW Address, NEW table \in AddressTable(Address), NEW n \in Names,
           NEW node \in Seq(Address) \ {<<>>}, NEW ttl \in Nat, NEW t \in Nat
    PROVE  /\ ipv4_cache_put(table, n, node, ttl, t) \in AddressTable(Address)
           /\ ipv6_cache_put(table, n, node, ttl, t) \in AddressTable(Address)
BY FreshType DEF ipv4_cache_put, ipv6_cache_put, AddressTable

\* The last record of an owner exists.
LEMMA LastIndex ==
    ASSUME NEW rrs, NEW len \in Nat, DOMAIN rrs = 1..len,
           NEW n, NEW first \in DOMAIN rrs, rrs[first].name = n
    PROVE  \E i \in DOMAIN rrs :
              rrs[i].name = n /\ \A j \in DOMAIN rrs : rrs[j].name = n => j <= i
<1> DEFINE S == {k \in Nat : k < len /\ rrs[len - k].name = n}
<1>1. len - first \in S
  BY SMT
<1> HIDE DEF S
<1>2. PICK m \in S : \A k \in S : m <= k
  <2>1. S \in SUBSET Nat /\ S # {}
    BY <1>1 DEF S
  <2>2. QED
    BY <2>1, LeastNatural
<1>3. m \in Nat /\ m < len /\ rrs[len - m].name = n
  BY <1>2 DEF S
<1>4. ASSUME NEW j \in DOMAIN rrs, rrs[j].name = n
      PROVE  j <= len - m
  <2>1. len - (len - j) = j /\ len - j \in Nat /\ len - j < len
    BY <1>4
  <2>2. len - j \in S
    BY <1>4, <2>1 DEF S
  <2>3. QED
    BY <1>2, <1>3, <2>2
<1>5. len - m \in DOMAIN rrs
  BY <1>3
<1>6. QED
  BY <1>3, <1>4, <1>5

LEMMA AliasPutsType ==
    ASSUME NEW table \in AliasTable, NEW rrs \in Seq(CnameRR), NEW ttl \in Nat, NEW t \in Nat
    PROVE  cname_cache_puts(table, rrs, ttl, t) \in AliasTable
<1> SUFFICES ASSUME NEW n \in Names
             PROVE  cname_cache_puts(table, rrs, ttl, t)[n] \in Alias \cup {NULL}
  BY DEF cname_cache_puts, AliasTable
<1>1. CASE \A i \in DOMAIN rrs : rrs[i].name # n
  BY <1>1 DEF cname_cache_puts, AliasTable
<1>2. CASE \E i \in DOMAIN rrs : rrs[i].name = n
  <2> DEFINE Of(i) == rrs[i].name = n /\ \A j \in DOMAIN rrs : rrs[j].name = n => j <= i
             last == CHOOSE i \in DOMAIN rrs : Of(i)
  <2>1. \E i \in DOMAIN rrs : Of(i)
    <3>1. PICK first \in DOMAIN rrs : rrs[first].name = n
      BY <1>2
    <3>2. Len(rrs) \in Nat /\ DOMAIN rrs = 1..Len(rrs)
      OBVIOUS
    <3>3. QED
      BY <3>1, <3>2, LastIndex
  <2>2. rrs[last] \in CnameRR
    <3>1. last \in DOMAIN rrs
      BY <2>1, Zenon
    <3>2. QED
      BY <3>1
  <2>3. QED
    BY <1>2, <2>2 DEF cname_cache_puts, Alias, CnameRR
<1>3. QED
  BY <1>1, <1>2

LEMMA ClearType ==
    ASSUME NEW Address, NEW table \in AddressTable(Address), NEW t \in Nat
    PROVE  /\ ipv4_cache_clear(table, t) \in AddressTable(Address)
           /\ ipv6_cache_clear(table, t) \in AddressTable(Address)
BY DEF ipv4_cache_clear, ipv6_cache_clear, AddressTable

\* A chase that ends, ends at a name without an alias, after a walk over names.
LEMMA ChainType ==
    ASSUME NEW aliases \in AliasTable, NEW d \in Names, ~Endless(aliases, d)
    PROVE  /\ Chain(aliases, d) \in Chains(aliases, d)
           /\ Chain(aliases, d) \in Seq(Names)
           /\ Len(Chain(aliases, d)) >= 1
           /\ EndOf(aliases, d) \in Names
           /\ ~Cached(aliases, EndOf(aliases, d))
<1> DEFINE walk == Chain(aliases, d)
<1>1. walk \in Chains(aliases, d)
  BY DEF Endless, Chain
<1>2. PICK k \in 1..Cardinality(Names) : walk \in [1..k -> Names]
  BY <1>1 DEF Chains
<1>3. k \in Nat /\ walk \in Seq(Names) /\ Len(walk) = k /\ k >= 1
  BY <1>2, SMT
<1>4. ~Cached(aliases, walk[Len(walk)])
  BY <1>1 DEF Chains
<1>5. QED
  BY <1>1, <1>2, <1>3, <1>4 DEF EndOf
-----------------------------------------------------------------------------
(* The two passes over the questions *)

LEMMA QuestionType ==
    ASSUME NEW qs \in QuerySeqs
    PROVE  /\ Len(qs) \in Nat /\ DOMAIN qs = 1..Len(qs)
           /\ \A i \in DOMAIN qs : qs[i] \in Question /\ qs[i].name \in Names
<1>1. qs \in Seq(Question)
  BY RelayAssumption
<1>2. \A i \in DOMAIN qs : qs[i] \in Question
  BY <1>1
<1>3. QED
  BY <1>1, <1>2 DEF Question

\* When the pass neither hangs nor misses, every question is a hit: the first
\* that is not would have been reached.
LEMMA AllHit ==
    ASSUME NEW qs \in QuerySeqs, ~PassHangs(qs), ~PassMisses(qs)
    PROVE  \A i \in DOMAIN qs : Reached(qs, i) /\ ~Hangs(qs[i]) /\ ~Misses(qs[i])
<1> DEFINE Bad == {i \in DOMAIN qs : Hangs(qs[i]) \/ Misses(qs[i])}
<1>1. Bad \in SUBSET Nat
  BY QuestionType
<1>2. Bad = {}
  <2> SUFFICES ASSUME Bad # {} PROVE FALSE
    OBVIOUS
  <2>1. PICK i \in Bad : \A j \in Bad : i <= j
    BY <1>1, LeastNatural
  <2>2. \A j \in 1..(i - 1) : j \in DOMAIN qs /\ j \notin Bad
    BY <2>1, <1>1, QuestionType
  <2>3. Reached(qs, i)
    BY <2>2 DEF Reached
  <2>4. QED
    BY <2>1, <2>3 DEF PassHangs, PassMisses
<1>3. ASSUME NEW i \in DOMAIN qs
      PROVE  Reached(qs, i)
  <2>1. \A j \in 1..(i - 1) : j \in DOMAIN qs
    BY QuestionType
  <2>2. QED
    BY <1>2, <2>1 DEF Reached
<1>4. QED
  BY <1>2, <1>3

\* The pass looks only into entries that are there.
LEMMA LookedUpCached ==
    ASSUME TypeOK, NEW qs \in QuerySeqs, NEW n \in LookedUp(qs)
    PROVE  n \in Names /\ Cached(ipv4, n) /\ ipv4[n] \in Entry(IPv4)
<1>1. PICK i \in DOMAIN qs : /\ n = EndOf(cname, qs[i].name)
                             /\ qs[i].type = "A"
                             /\ ~Hangs(qs[i])
                             /\ ~Misses(qs[i])
  BY DEF LookedUp
<1>2. n \in Names
  BY <1>1, QuestionType, ChainType DEF TypeOK, Hangs, Chases
<1>3. Cached(ipv4, n)
  BY <1>1 DEF Misses
<1>4. QED
  BY <1>2, <1>3 DEF Cached, TypeOK, AddressTable

LEMMA TouchedType ==
    ASSUME TypeOK, NEW qs \in QuerySeqs
    PROVE  Touched(qs) \in AddressTable(IPv4)
<1> SUFFICES ASSUME NEW n \in Names
             PROVE  Touched(qs)[n] \in Entry(IPv4) \cup {NULL}
  BY DEF Touched, AddressTable
<1>1. CASE n \in LookedUp(qs)
  <2>1. ipv4[n] \in Entry(IPv4)
    BY <1>1, LookedUpCached
  <2>2. ZeroFirst(ipv4[n]) \in BOOLEAN
    BY DEF ZeroFirst
  <2>3. [ipv4[n] EXCEPT !.manual = ZeroFirst(ipv4[n])] \in Entry(IPv4)
    BY <2>1, <2>2 DEF Entry
  <2>4. QED
    BY <1>1, <2>3 DEF Touched
<1>2. CASE n \notin LookedUp(qs)
  BY <1>2 DEF Touched, TypeOK, AddressTable
<1>3. QED
  BY <1>1, <1>2

\* The records of a question that hits are records: the second pass finds
\* again every entry the first one found.
LEMMA RecordsType ==
    ASSUME TypeOK, NEW q \in Question, ~Hangs(q), ~Misses(q)
    PROVE  RecordsFor(q) \subseteq RR
<1> DEFINE walk == Chain(cname, q.name)
           n == EndOf(cname, q.name)
<1>1. CASE ~Chases(q)
  BY <1>1 DEF RecordsFor
<1>2. CASE Chases(q)
  <2>1. ~Endless(cname, q.name)
    BY <1>2 DEF Hangs
  <2>2. walk \in Seq(Names) /\ n \in Names
    BY <2>1, ChainType DEF Question, TypeOK
  <2>3. generate_cname_response(walk) \subseteq RR
    <3> SUFFICES ASSUME NEW i \in 1..(Len(walk) - 1)
                 PROVE  [type |-> "CNAME", name |-> walk[i], data |-> walk[i + 1]] \in RR
      BY DEF generate_cname_response
    <3>1. walk[i] \in Names /\ walk[i + 1] \in Names
      <4> HIDE DEF walk
      <4>1. i \in 1..Len(walk) /\ i + 1 \in 1..Len(walk)
        BY <2>2
      <4>2. QED
        BY <2>2, <4>1
    <3>2. QED
      BY <3>1 DEF RR, CnameRR
  <2>4. CASE q.type = "A"
    <3>1. ipv4[n] \in Entry(IPv4)
      BY <2>4, <2>2 DEF Misses, Cached, TypeOK, AddressTable
    <3>2. \A i \in DOMAIN ipv4[n].node : ipv4[n].node[i] \in IPv4
      BY <3>1 DEF Entry
    <3>3. generate_ipv4_response(n) \subseteq RR
      BY <3>2, <2>2 DEF generate_ipv4_response, RR, ARR
    <3>4. QED
      BY <2>3, <2>4, <3>3, <1>2 DEF RecordsFor
  <2>5. CASE q.type = "AAAA"
    <3>1. ipv6[n] \in Entry(IPv6)
      BY <2>5, <2>2 DEF Misses, Cached, TypeOK, AddressTable
    <3>2. \A i \in DOMAIN ipv6[n].node : ipv6[n].node[i] \in IPv6
      BY <3>1 DEF Entry
    <3>3. generate_ipv6_response(n) \subseteq RR
      BY <3>2, <2>2 DEF generate_ipv6_response, RR, AaaaRR
    <3>4. QED
      BY <2>3, <2>5, <3>3, <1>2 DEF RecordsFor
  <2>6. CASE q.type = "CNAME"
    BY <2>3, <2>6, <1>2 DEF RecordsFor
  <2>7. QED
    BY <1>2, <2>4, <2>5, <2>6 DEF Chases, Question, QTypes
<1>3. QED
  BY <1>1, <1>2

LEMMA CachedAnswersType ==
    ASSUME TypeOK, NEW qs \in QuerySeqs, ~PassHangs(qs), ~PassMisses(qs)
    PROVE  CachedAnswers(qs) \subseteq RR
BY AllHit, QuestionType, RecordsType DEF CachedAnswers
-----------------------------------------------------------------------------
(* Type correctness *)

LEMMA SendType ==
    ASSUME NEW waiting \in [Feature -> Clients \cup {NULL}],
           NEW due \in [Clients -> [Feature -> Int]],
           NEW f \in Feature, NEW rcode \in Rcode, NEW answers \in SUBSET RR,
           send_response(waiting, due, f, rcode, answers)
    PROVE  /\ clients' \in [Feature -> Clients \cup {NULL}]
           /\ reply' \in Reply \cup {NULL}
           /\ owed' \in [Clients -> [Feature -> Int]]
<1> DEFINE c == waiting[f]
<1>1. CASE c = NULL
  BY <1>1 DEF send_response
<1>2. CASE c # NULL
  <2>1. c \in Clients
    BY <1>2
  <2>2. clients' = [waiting EXCEPT ![f] = NULL]
    BY <1>2 DEF send_response
  <2>3. reply' = [to |-> c, feature |-> f, rcode |-> rcode, answers |-> answers]
    BY <1>2 DEF send_response
  <2>4. owed' = [due EXCEPT ![c][f] = @ - 1]
    BY <1>2 DEF send_response
  <2>5. due[c] \in [Feature -> Int] /\ due[c][f] - 1 \in Int
    BY <2>1
  <2> HIDE DEF c
  <2>6. owed' \in [Clients -> [Feature -> Int]]
    BY <2>1, <2>4, <2>5
  <2>7. QED
    BY <2>1, <2>2, <2>3, <2>6 DEF Reply
<1>3. QED
  BY <1>1, <1>2

LEMMA WaitingType ==
    ASSUME TypeOK, NEW c \in Clients, NEW f \in Feature
    PROVE  /\ [clients EXCEPT ![f] = c] \in [Feature -> Clients \cup {NULL}]
           /\ [owed EXCEPT ![c][f] = @ + 1] \in [Clients -> [Feature -> Int]]
<1>1. owed[c] \in [Feature -> Int] /\ owed[c][f] + 1 \in Int
  BY DEF TypeOK
<1>2. QED
  BY <1>1 DEF TypeOK

LEMMA BindType ==
    ASSUME TypeOK, NEW c \in Clients, NEW f \in Feature, bind_socket_read(c, f)
    PROVE  TypeOK'
<1> DEFINE qs == f.queries
           waiting == [clients EXCEPT ![f] = c]
           due == [owed EXCEPT ![c][f] = @ + 1]
<1>1. qs \in QuerySeqs
  BY DEF Feature
<1>2. ipv4' \in AddressTable(IPv4)
  BY <1>1, TouchedType DEF bind_socket_read
<1>3. waiting \in [Feature -> Clients \cup {NULL}] /\ due \in [Clients -> [Feature -> Int]]
  BY WaitingType
<1>4. UNCHANGED <<ipv6, cname, now, nextClear, fromUpstream, zone>>
  BY DEF bind_socket_read
<1>5. \/ /\ clients' = waiting /\ owed' = due /\ reply' = NULL
         /\ status' \in {status, "spinning"}
         /\ toUpstream' \subseteq toUpstream \cup {f}
      \/ /\ ~PassHangs(qs) /\ ~PassMisses(qs)
         /\ \/ send_response(waiting, due, f, NXDOMAIN, {})
            \/ send_response(waiting, due, f, NOERROR, CachedAnswers(qs))
         /\ UNCHANGED <<status, toUpstream>>
  BY DEF bind_socket_read, send_query
<1> HIDE DEF qs, waiting, due
<1>6. CASE /\ clients' = waiting /\ owed' = due /\ reply' = NULL
           /\ status' \in {status, "spinning"}
           /\ toUpstream' \subseteq toUpstream \cup {f}
  BY <1>2, <1>3, <1>4, <1>6 DEF TypeOK
<1>7. CASE /\ ~PassHangs(qs) /\ ~PassMisses(qs)
           /\ \/ send_response(waiting, due, f, NXDOMAIN, {})
              \/ send_response(waiting, due, f, NOERROR, CachedAnswers(qs))
           /\ UNCHANGED <<status, toUpstream>>
  <2>1. NXDOMAIN \in Rcode /\ NOERROR \in Rcode
    BY DEF NXDOMAIN, NOERROR, Rcode
  <2>2. CachedAnswers(qs) \in SUBSET RR
    BY <1>1, <1>7, CachedAnswersType
  <2>3. /\ clients' \in [Feature -> Clients \cup {NULL}]
        /\ reply' \in Reply \cup {NULL}
        /\ owed' \in [Clients -> [Feature -> Int]]
    BY <1>3, <1>7, <2>1, <2>2, SendType
  <2>4. QED
    BY <1>2, <1>4, <1>7, <2>3 DEF TypeOK
<1>8. QED
  BY <1>5, <1>6, <1>7

\* The addresses of an answer, filed under the owner of the last one.
LEMMA DataType ==
    ASSUME NEW Address, NEW RRs, NEW rrs \in Seq(RRs), rrs # <<>>,
           \A rr \in RRs : rr.name \in Names /\ rr.data \in Address
    PROVE  /\ Data(rrs) \in Seq(Address) \ {<<>>}
           /\ rrs[Len(rrs)].name \in Names
<1>1. Len(rrs) \in Nat \ {0} /\ DOMAIN rrs = 1..Len(rrs)
  BY SMT
<1>2. \A i \in 1..Len(rrs) : rrs[i] \in RRs
  BY <1>1
<1>3. Data(rrs) \in [1..Len(rrs) -> Address]
  BY <1>1, <1>2 DEF Data
<1>4. Data(rrs) \in Seq(Address) /\ Len(Data(rrs)) = Len(rrs)
  BY <1>1, <1>3
<1>5. Data(rrs) # <<>>
  BY <1>1, <1>4
<1>6. QED
  BY <1>1, <1>2, <1>4, <1>5

LEMMA LearnType ==
    ASSUME TypeOK, NEW ans \in Answer
    PROVE  /\ Learn4(ans.a) \in AddressTable(IPv4)
           /\ Learn6(ans.aaaa) \in AddressTable(IPv6)
           /\ cname_cache_puts(cname, ans.cname, TTL, now) \in AliasTable
<1>1. /\ ans.a \in Seq(ARR) /\ ans.aaaa \in Seq(AaaaRR) /\ ans.cname \in Seq(CnameRR)
      /\ TTL \in Nat /\ now \in Nat
  BY RelayAssumption DEF Answer, TypeOK
<1>2. \A rr \in ARR : rr.name \in Names /\ rr.data \in IPv4
  BY DEF ARR
<1>3. \A rr \in AaaaRR : rr.name \in Names /\ rr.data \in IPv6
  BY DEF AaaaRR
<1>4. Learn4(ans.a) \in AddressTable(IPv4)
  BY <1>1, <1>2, DataType, PutType DEF Learn4, TypeOK
<1>5. Learn6(ans.aaaa) \in AddressTable(IPv6)
  BY <1>1, <1>3, DataType, PutType DEF Learn6, TypeOK
<1>6. QED
  BY <1>1, <1>4, <1>5, AliasPutsType DEF TypeOK

LEMMA AnswerRecordsType ==
    ASSUME NEW ans \in Answer
    PROVE  AnswerRecords(ans) \subseteq RR
<1>1. ans.a \in Seq(ARR) /\ ans.aaaa \in Seq(AaaaRR) /\ ans.cname \in Seq(CnameRR)
  BY DEF Answer
<1>2. /\ \A i \in DOMAIN ans.a : ans.a[i] \in ARR
      /\ \A i \in DOMAIN ans.aaaa : ans.aaaa[i] \in AaaaRR
      /\ \A i \in DOMAIN ans.cname : ans.cname[i] \in CnameRR
  BY <1>1
<1>3. QED
  BY <1>2 DEF AnswerRecords, RR

LEMMA QueryReadType ==
    ASSUME TypeOK, NEW r \in fromUpstream, NEW duplicate \in BOOLEAN,
           query_socket_read(r, duplicate)
    PROVE  TypeOK'
<1>1. r.feature \in Feature /\ r.answer \in Answer /\ r.answer.rcode \in Rcode
  BY DEF TypeOK, Response, Answer
<1>2. ipv4' \in AddressTable(IPv4) /\ ipv6' \in AddressTable(IPv6) /\ cname' \in AliasTable
  BY <1>1, LearnType DEF query_socket_read
<1>3. /\ clients \in [Feature -> Clients \cup {NULL}]
      /\ owed \in [Clients -> [Feature -> Int]]
      /\ AnswerRecords(r.answer) \in SUBSET RR
      /\ send_response(clients, owed, r.feature, r.answer.rcode, AnswerRecords(r.answer))
  BY <1>1, AnswerRecordsType DEF TypeOK, query_socket_read
<1>4. /\ clients' \in [Feature -> Clients \cup {NULL}]
      /\ reply' \in Reply \cup {NULL}
      /\ owed' \in [Clients -> [Feature -> Int]]
  BY <1>1, <1>3, SendType
<1>5. fromUpstream' \subseteq fromUpstream
  BY DEF query_socket_read
<1>6. QED
  BY <1>2, <1>4, <1>5 DEF query_socket_read, TypeOK

LEMMA InitType == Init => TypeOK
<1> SUFFICES ASSUME Init PROVE TypeOK
  OBVIOUS
<1>1. ipv4 \in AddressTable(IPv4)
  <2>1. \A a \in IPv4 : <<a>> \in Seq(IPv4) \ {<<>>}
    OBVIOUS
  <2>2. \A a \in IPv4 : Fresh(<<a>>, ConfigTTL, 0) \in Entry(IPv4)
    BY <2>1, FreshType, RelayAssumption
  <2>3. ipv4 \in [Names -> {NULL} \cup {Fresh(<<a>>, ConfigTTL, 0) : a \in IPv4}]
    BY DEF Init, ipv4_read_file
  <2>4. {NULL} \cup {Fresh(<<a>>, ConfigTTL, 0) : a \in IPv4} \subseteq Entry(IPv4) \cup {NULL}
    BY <2>2
  <2>5. QED
    BY <2>3, <2>4, Zenon DEF AddressTable
<1>2. ipv6 \in AddressTable(IPv6) /\ cname \in AliasTable
  BY DEF Init, EmptyTable, AddressTable, AliasTable
<1>3. nextClear \in Nat
  BY RelayAssumption DEF Init
<1>4. QED
  BY <1>1, <1>2, <1>3 DEF Init, TypeOK

\* Every step keeps every variable in its set.
LEMMA TypeStep == TypeOK /\ [Next]_vars => TypeOK'
<1> SUFFICES ASSUME TypeOK, [Next]_vars PROVE TypeOK'
  OBVIOUS
<1>1. ASSUME NEW c \in Clients, NEW f \in Feature, bind_socket_read(c, f)
      PROVE  TypeOK'
  BY <1>1, BindType
<1>2. ASSUME NEW r \in fromUpstream, NEW duplicate \in BOOLEAN, query_socket_read(r, duplicate)
      PROVE  TypeOK'
  BY <1>2, QueryReadType
<1>3. CASE clear_callback
  <2>1. ipv4' \in AddressTable(IPv4) /\ ipv6' \in AddressTable(IPv6)
    BY <1>3, ClearType DEF clear_callback, TypeOK
  <2>2. cname' = cname /\ nextClear' \in Nat
    BY <1>3, RelayAssumption DEF clear_callback, cname_cache_clear, TypeOK
  <2>3. QED
    BY <1>3, <2>1, <2>2 DEF clear_callback, network, TypeOK
<1>4. CASE sigint_callback
  BY <1>4 DEF sigint_callback, network, TypeOK
<1>5. CASE Tick
  BY <1>5 DEF Tick, server, network, TypeOK
<1>6. ASSUME NEW f \in toUpstream, NEW duplicate \in BOOLEAN, UpstreamAnswer(f, duplicate)
      PROVE  TypeOK'
  <2>1. f \in Feature /\ f.queries \in QuerySeqs
    BY DEF TypeOK, Feature
  <2>2. zone[f.queries] \in Answer
    BY <2>1, RelayAssumption DEF TypeOK
  <2>3. [feature |-> f, answer |-> zone[f.queries]] \in Response
    BY <2>1, <2>2 DEF Response
  <2>4. toUpstream' \subseteq toUpstream
    BY <1>6 DEF UpstreamAnswer
  <2>5. QED
    BY <1>6, <2>3, <2>4 DEF UpstreamAnswer, server, TypeOK
<1>7. CASE ZoneChange
  BY <1>7 DEF ZoneChange, server, network, TypeOK
<1>8. CASE Lose
  BY <1>8 DEF Lose, server, TypeOK
<1>9. CASE Stopped
  BY <1>9 DEF Stopped, server, network, TypeOK
<1>10. CASE UNCHANGED vars
  BY <1>10 DEF vars, server, network, TypeOK
<1>11. QED
  BY <1>1, <1>2, <1>3, <1>4, <1>5, <1>6, <1>7, <1>8, <1>9, <1>10 DEF Next

\* Every variable of the relay stays in its set: the tables hold well-formed
\* entries with at least one address, the replies well-formed records.
THEOREM TypeCorrect == Spec => []TypeOK
BY InitType, TypeStep, PTL DEF Spec
-----------------------------------------------------------------------------
(* Replies and debts. NoUnsolicitedReply alone is not inductive: a reply     *)
(* lowers a debt, and only WaitingIsOwed says that there was one.            *)

Balanced(waiting, due) ==
    /\ \A c \in Clients, f \in Feature : due[c][f] >= 0
    /\ \A f \in Feature : waiting[f] # NULL => due[waiting[f]][f] >= 1

DebtInv == TypeOK /\ NoUnsolicitedReply /\ WaitingIsOwed

LEMMA WaitingBalanced ==
    ASSUME DebtInv, NEW c \in Clients, NEW f \in Feature
    PROVE  Balanced([clients EXCEPT ![f] = c], [owed EXCEPT ![c][f] = @ + 1])
<1> DEFINE waiting == [clients EXCEPT ![f] = c]
           due == [owed EXCEPT ![c][f] = @ + 1]
<1>1. /\ clients \in [Feature -> Clients \cup {NULL}]
      /\ owed \in [Clients -> [Feature -> Int]]
  BY DEF DebtInv, TypeOK
<1>2. \A d \in Clients, g \in Feature :
         due[d][g] = IF d = c /\ g = f THEN owed[d][g] + 1 ELSE owed[d][g]
  BY <1>1
<1>3. \A d \in Clients, g \in Feature : owed[d][g] \in Int /\ owed[d][g] >= 0
  BY <1>1 DEF DebtInv, NoUnsolicitedReply
<1>4. \A d \in Clients, g \in Feature : due[d][g] >= 0
  BY <1>2, <1>3
<1>5. ASSUME NEW g \in Feature, waiting[g] # NULL
      PROVE  due[waiting[g]][g] >= 1
  <2>1. CASE g = f
    <3>1. waiting[g] = c
      BY <2>1, <1>1
    <3>2. QED
      BY <2>1, <3>1, <1>2, <1>3
  <2>2. CASE g # f
    <3>1. waiting[g] = clients[g] /\ waiting[g] \in Clients
      BY <2>2, <1>1, <1>5
    <3>2. owed[clients[g]][g] >= 1
      BY <3>1, <1>5 DEF DebtInv, WaitingIsOwed
    <3>3. QED
      BY <2>2, <3>1, <3>2, <1>2
  <2>3. QED
    BY <2>1, <2>2
<1>6. QED
  BY <1>4, <1>5 DEF Balanced

LEMMA SendBalanced ==
    ASSUME NEW waiting \in [Feature -> Clients \cup {NULL}],
           NEW due \in [Clients -> [Feature -> Int]],
           Balanced(waiting, due),
           NEW f \in Feature, NEW rcode, NEW answers,
           send_response(waiting, due, f, rcode, answers)
    PROVE  Balanced(clients', owed')
<1>1. CASE waiting[f] = NULL
  BY <1>1 DEF send_response
<1>2. CASE waiting[f] # NULL
  <2> DEFINE c == waiting[f]
  <2>1. c \in Clients /\ due[c][f] >= 1
    BY <1>2 DEF Balanced
  <2>2. clients' = [waiting EXCEPT ![f] = NULL] /\ owed' = [due EXCEPT ![c][f] = @ - 1]
    BY <1>2 DEF send_response
  <2> HIDE DEF c
  <2>3. \A d \in Clients, g \in Feature :
           owed'[d][g] = IF d = c /\ g = f THEN due[d][g] - 1 ELSE due[d][g]
    BY <2>1, <2>2
  <2>4. \A d \in Clients, g \in Feature : due[d][g] \in Int /\ due[d][g] >= 0
    BY DEF Balanced
  <2>5. \A d \in Clients, g \in Feature : owed'[d][g] >= 0
    BY <2>1, <2>3, <2>4
  <2>6. ASSUME NEW g \in Feature, clients'[g] # NULL
        PROVE  owed'[clients'[g]][g] >= 1
    <3>1. g # f /\ clients'[g] = waiting[g] /\ waiting[g] \in Clients
      BY <2>2, <2>6
    <3>2. due[waiting[g]][g] >= 1
      BY <2>6, <3>1 DEF Balanced
    <3>3. QED
      BY <2>3, <3>1, <3>2
  <2>7. QED
    BY <2>5, <2>6 DEF Balanced
<1>3. QED
  BY <1>1, <1>2

LEMMA DebtInit == Init => DebtInv
<1> SUFFICES ASSUME Init PROVE NoUnsolicitedReply /\ WaitingIsOwed
  BY InitType DEF DebtInv
<1>1. QED
  BY DEF Init, NoUnsolicitedReply, WaitingIsOwed

LEMMA DebtStep == DebtInv /\ [Next]_vars => DebtInv'
<1> SUFFICES ASSUME DebtInv, [Next]_vars PROVE DebtInv'
  OBVIOUS
<1>1. TypeOK /\ TypeOK'
  BY TypeStep DEF DebtInv
<1>2. Balanced(clients, owed)
  BY DEF DebtInv, Balanced, NoUnsolicitedReply, WaitingIsOwed
<1>3. SUFFICES Balanced(clients', owed')
  BY <1>1 DEF DebtInv, Balanced, NoUnsolicitedReply, WaitingIsOwed
<1>4. ASSUME NEW c \in Clients, NEW f \in Feature, bind_socket_read(c, f)
      PROVE  Balanced(clients', owed')
  <2> DEFINE waiting == [clients EXCEPT ![f] = c]
             due == [owed EXCEPT ![c][f] = @ + 1]
  <2>1. Balanced(waiting, due)
    BY WaitingBalanced
  <2>2. waiting \in [Feature -> Clients \cup {NULL}] /\ due \in [Clients -> [Feature -> Int]]
    BY <1>1, WaitingType
  <2>3. \/ clients' = waiting /\ owed' = due
        \/ \E rcode, answers : send_response(waiting, due, f, rcode, answers)
    BY <1>4 DEF bind_socket_read
  <2> HIDE DEF waiting, due
  <2>4. QED
    BY <2>1, <2>2, <2>3, SendBalanced
<1>5. ASSUME NEW r \in fromUpstream, NEW duplicate \in BOOLEAN, query_socket_read(r, duplicate)
      PROVE  Balanced(clients', owed')
  <2>1. r.feature \in Feature
    BY <1>1 DEF TypeOK, Response
  <2>2. send_response(clients, owed, r.feature, r.answer.rcode, AnswerRecords(r.answer))
    BY <1>5 DEF query_socket_read
  <2>3. QED
    BY <1>1, <1>2, <2>1, <2>2, SendBalanced DEF TypeOK
<1>6. ASSUME UNCHANGED <<clients, owed>>
      PROVE  Balanced(clients', owed')
  BY <1>2, <1>6
<1>7. QED
  BY <1>4, <1>5, <1>6 DEF Next, vars, server, network, clear_callback, sigint_callback,
     Tick, UpstreamAnswer, ZoneChange, Lose, Stopped

\* However datagrams are repeated, duplicated, delayed or lost, the relay
\* sends a client no more answers about a feature than the client sent
\* questions with it.
THEOREM RepliesAreSolicited == Spec => []NoUnsolicitedReply
<1>1. DebtInv => NoUnsolicitedReply
  BY DEF DebtInv
<1>2. QED
  BY <1>1, DebtInit, DebtStep, PTL DEF Spec

\* Nobody is left in the pending table who is owed nothing.
THEOREM WaitingClientsAreOwed == Spec => []WaitingIsOwed
<1>1. DebtInv => WaitingIsOwed
  BY DEF DebtInv
<1>2. QED
  BY <1>1, DebtInit, DebtStep, PTL DEF Spec
-----------------------------------------------------------------------------
(* Pinned and expiring entries *)

\* A pinned entry has survived every earlier step; BoundedStaleness follows
\* from where the clock is between two clears: what the next clear will find
\* expired can wait for it, because nothing in the caches is further behind.
TimerInv ==
    /\ nextClear - Period <= now
    /\ now <= nextClear + MaxLate
    /\ \A n \in Names :
        /\ Cached(ipv4, n) /\ ~ipv4[n].manual =>
              nextClear <= ipv4[n].timestamp + ipv4[n].ttl + Period
        /\ Cached(ipv6, n) => nextClear <= ipv6[n].timestamp + ipv6[n].ttl + Period

CacheInv == TypeOK /\ PinnedIsBlocked /\ TimerInv

LEMMA EntryType ==
    ASSUME TypeOK, NEW n \in Names
    PROVE  /\ Cached(ipv4, n) => ipv4[n] \in Entry(IPv4)
           /\ Cached(ipv6, n) => ipv6[n] \in Entry(IPv6)
BY DEF TypeOK, AddressTable, Cached

LEMMA ClockType ==
    ASSUME TypeOK
    PROVE  /\ now \in Nat /\ nextClear \in Nat
           /\ Period \in Nat /\ MaxLate \in Nat /\ TTL \in Nat
BY RelayAssumption DEF TypeOK

LEMMA CacheInit == Init => CacheInv
<1> SUFFICES ASSUME Init PROVE PinnedIsBlocked /\ TimerInv
  BY InitType DEF CacheInv
<1>1. ASSUME NEW n \in Names, Cached(ipv4, n)
      PROVE  ipv4[n].timestamp = 0 /\ ipv4[n].ttl = ConfigTTL /\ ~ipv4[n].manual
  <2>1. ipv4 \in [Names -> {NULL} \cup {Fresh(<<a>>, ConfigTTL, 0) : a \in IPv4}]
    BY DEF Init, ipv4_read_file
  <2>2. ipv4[n] \in {NULL} \cup {Fresh(<<a>>, ConfigTTL, 0) : a \in IPv4}
    BY <2>1
  <2>3. PICK a \in IPv4 : ipv4[n] = Fresh(<<a>>, ConfigTTL, 0)
    BY <1>1, <2>2 DEF Cached
  <2>4. QED
    BY <2>3 DEF Fresh
<1>2. PinnedIsBlocked
  BY <1>1 DEF PinnedIsBlocked, Manual
<1>3. \A n \in Names : ~Cached(ipv6, n)
  BY DEF Init, EmptyTable, Cached
<1>4. TimerInv
  <2>1. /\ now = 0 /\ nextClear = Period
        /\ Period \in Nat /\ MaxLate \in Nat /\ ConfigTTL \in Nat
    BY RelayAssumption DEF Init
  <2>2. QED
    BY <1>1, <1>3, <2>1 DEF TimerInv
<1>5. QED
  BY <1>2, <1>4

\* A step changes an IPv4 entry in one of four ways: it touches it, fills it
\* in afresh where it is not pinned, removes it when it is not pinned, or
\* leaves it alone.
LEMMA StepOnEntry ==
    ASSUME CacheInv, [Next]_vars, NEW n \in Names
    PROVE  \/ ipv4'[n] = ipv4[n]
           \/ /\ Cached(ipv4, n)
              /\ ipv4'[n] = [ipv4[n] EXCEPT !.manual = ZeroFirst(ipv4[n])]
           \/ /\ ~Manual(ipv4, n)
              /\ \/ ipv4'[n] = NULL
                 \/ \E node : ipv4'[n] = Fresh(node, TTL, now)
<1>1. TypeOK
  BY DEF CacheInv
<1>2. ASSUME NEW c \in Clients, NEW f \in Feature, bind_socket_read(c, f)
      PROVE  \/ ipv4'[n] = ipv4[n]
             \/ /\ Cached(ipv4, n)
                /\ ipv4'[n] = [ipv4[n] EXCEPT !.manual = ZeroFirst(ipv4[n])]
  <2>1. f.queries \in QuerySeqs
    BY DEF Feature
  <2>2. ipv4' = Touched(f.queries)
    BY <1>2 DEF bind_socket_read
  <2>3. QED
    BY <1>1, <2>1, <2>2, LookedUpCached DEF Touched
<1>3. ASSUME NEW r \in fromUpstream, NEW duplicate \in BOOLEAN, query_socket_read(r, duplicate)
      PROVE  \/ ipv4'[n] = ipv4[n]
             \/ ~Manual(ipv4, n) /\ \E node : ipv4'[n] = Fresh(node, TTL, now)
  <2> DEFINE rrs == r.answer.a
  <2>1. ipv4' = Learn4(rrs)
    BY <1>3 DEF query_socket_read
  <2>2. CASE rrs = <<>>
    BY <2>1, <2>2 DEF Learn4
  <2>3. CASE rrs # <<>>
    <3>1. ipv4' = ipv4_cache_put(ipv4, rrs[Len(rrs)].name, Data(rrs), TTL, now)
      BY <2>1, <2>3 DEF Learn4
    <3>2. QED
      BY <1>1, <3>1 DEF ipv4_cache_put, TypeOK, AddressTable
  <2>4. QED
    BY <2>2, <2>3
<1>4. CASE clear_callback
  BY <1>4 DEF clear_callback, ipv4_cache_clear, Manual
<1>5. CASE UNCHANGED ipv4
  BY <1>5
<1>6. QED
  BY <1>2, <1>3, <1>4, <1>5 DEF Next, vars, server, network, sigint_callback,
     Tick, UpstreamAnswer, ZoneChange, Lose, Stopped

\* Pinned entries are untouchable: touching one assigns it what it has.
LEMMA PinnedStep ==
    ASSUME CacheInv, [Next]_vars, NEW n \in Names, Manual(ipv4, n)
    PROVE  ipv4'[n] = ipv4[n]
<1>1. ZeroFirst(ipv4[n]) /\ ipv4[n].manual /\ Cached(ipv4, n)
  BY DEF CacheInv, PinnedIsBlocked, Manual
<1>2. ipv4[n] \in Entry(IPv4)
  BY <1>1, EntryType DEF CacheInv
<1>3. ipv4[n].manual = ZeroFirst(ipv4[n])
  BY <1>1, <1>2 DEF Entry, ZeroFirst
<1>4. [ipv4[n] EXCEPT !.manual = ZeroFirst(ipv4[n])] = ipv4[n]
  BY <1>2, <1>3 DEF Entry
<1>5. QED
  BY <1>4, StepOnEntry

LEMMA PinnedIsBlockedStep ==
    ASSUME CacheInv, [Next]_vars
    PROVE  PinnedIsBlocked'
<1> SUFFICES ASSUME NEW n \in Names, Manual(ipv4', n)
             PROVE  ZeroFirst(ipv4'[n])
  BY DEF PinnedIsBlocked
<1>1. CASE ipv4'[n] = ipv4[n]
  BY <1>1 DEF CacheInv, PinnedIsBlocked, Manual, Cached
<1>2. CASE /\ Cached(ipv4, n)
           /\ ipv4'[n] = [ipv4[n] EXCEPT !.manual = ZeroFirst(ipv4[n])]
  <2>1. ipv4[n] \in Entry(IPv4)
    BY <1>2, EntryType DEF CacheInv
  <2>2. ipv4'[n].node = ipv4[n].node /\ ipv4'[n].manual = ZeroFirst(ipv4[n])
    BY <1>2, <2>1 DEF Entry
  <2>3. QED
    BY <2>2 DEF Manual, ZeroFirst
<1>3. CASE ipv4'[n] = NULL
  BY <1>3 DEF Manual, Cached
<1>4. ASSUME NEW node, ipv4'[n] = Fresh(node, TTL, now)
      PROVE  FALSE
  BY <1>4 DEF Manual, Fresh
<1>5. QED
  BY <1>1, <1>2, <1>3, <1>4, StepOnEntry
LEMMA TimerStep ==
    ASSUME CacheInv, [Next]_vars
    PROVE  TimerInv'
<1>1. TypeOK /\ TimerInv
  BY DEF CacheInv
<1>2. /\ now \in Nat /\ nextClear \in Nat
      /\ Period \in Nat /\ MaxLate \in Nat /\ TTL \in Nat
  BY <1>1, ClockType
<1>3. \A n \in Names :
         /\ Cached(ipv4, n) => ipv4[n].timestamp \in Nat /\ ipv4[n].ttl \in Nat
         /\ Cached(ipv6, n) => ipv6[n].timestamp \in Nat /\ ipv6[n].ttl \in Nat
  BY <1>1, EntryType DEF Entry
<1>4. CASE clear_callback
  <2>1. now' = now /\ nextClear' = now + Period /\ now >= nextClear
    BY <1>4 DEF clear_callback
  <2>2. ASSUME NEW n \in Names, Cached(ipv4', n), ~ipv4'[n].manual
        PROVE  ipv4'[n] = ipv4[n] /\ Cached(ipv4, n) /\ ~Expired(ipv4[n], now)
    BY <1>4, <2>2 DEF clear_callback, ipv4_cache_clear, Cached
  <2>3. ASSUME NEW n \in Names, Cached(ipv6', n)
        PROVE  ipv6'[n] = ipv6[n] /\ Cached(ipv6, n) /\ ~Expired(ipv6[n], now)
    BY <1>4, <2>3 DEF clear_callback, ipv6_cache_clear, Cached
  <2>4. ASSUME NEW n \in Names, Cached(ipv4', n), ~ipv4'[n].manual
        PROVE  nextClear' <= ipv4'[n].timestamp + ipv4'[n].ttl + Period
    BY <1>2, <1>3, <2>1, <2>2, <2>4 DEF Expired
  <2>5. ASSUME NEW n \in Names, Cached(ipv6', n)
        PROVE  nextClear' <= ipv6'[n].timestamp + ipv6'[n].ttl + Period
    BY <1>2, <1>3, <2>1, <2>3, <2>5 DEF Expired
  <2>6. QED
    BY <1>2, <2>1, <2>4, <2>5 DEF TimerInv
<1>5. ASSUME ~clear_callback
      PROVE  TimerInv'
  <2>1. /\ nextClear' = nextClear
        /\ nextClear - Period <= now' /\ now' <= nextClear + MaxLate
    <3>1. CASE Tick
      BY <1>1, <1>2, <3>1 DEF Tick, server, TimerInv
    <3>2. CASE UNCHANGED <<now, nextClear>>
      BY <1>1, <3>2 DEF TimerInv
    <3>3. Tick \/ UNCHANGED <<now, nextClear>>
      BY <1>5 DEF Next, vars, server, bind_socket_read, query_socket_read,
         sigint_callback, UpstreamAnswer, ZoneChange, Lose, Stopped
    <3>4. QED
      BY <3>1, <3>2, <3>3
  <2>2. ASSUME NEW n \in Names, Cached(ipv4', n), ~ipv4'[n].manual
        PROVE  nextClear <= ipv4'[n].timestamp + ipv4'[n].ttl + Period
    <3>1. CASE ipv4'[n] = ipv4[n]
      BY <1>1, <2>2, <3>1 DEF TimerInv, Cached
    <3>2. CASE /\ Cached(ipv4, n)
               /\ ipv4'[n] = [ipv4[n] EXCEPT !.manual = ZeroFirst(ipv4[n])]
      <4>1. ipv4[n] \in Entry(IPv4)
        BY <1>1, <3>2, EntryType
      <4>2. /\ ipv4'[n].timestamp = ipv4[n].timestamp /\ ipv4'[n].ttl = ipv4[n].ttl
            /\ ipv4'[n].manual = ZeroFirst(ipv4[n])
        BY <3>2, <4>1 DEF Entry
      <4>3. ~ipv4[n].manual
        BY <2>2, <3>2, <4>2 DEF CacheInv, PinnedIsBlocked, Manual
      <4>4. QED
        BY <1>1, <3>2, <4>2, <4>3 DEF TimerInv
    <3>3. CASE ipv4'[n] = NULL
      BY <2>2, <3>3 DEF Cached
    <3>4. ASSUME NEW node, ipv4'[n] = Fresh(node, TTL, now)
          PROVE  nextClear <= ipv4'[n].timestamp + ipv4'[n].ttl + Period
      BY <1>1, <1>2, <3>4 DEF Fresh, TimerInv
    <3>5. QED
      BY <3>1, <3>2, <3>3, <3>4, StepOnEntry
  <2>3. ASSUME NEW n \in Names, Cached(ipv6', n)
        PROVE  nextClear <= ipv6'[n].timestamp + ipv6'[n].ttl + Period
    <3>1. ipv6'[n] = ipv6[n] \/ \E node : ipv6'[n] = Fresh(node, TTL, now)
      <4>1. ASSUME NEW r \in fromUpstream, NEW duplicate \in BOOLEAN,
                   query_socket_read(r, duplicate)
            PROVE  ipv6'[n] = ipv6[n] \/ \E node : ipv6'[n] = Fresh(node, TTL, now)
        BY <1>1, <4>1 DEF query_socket_read, Learn6, ipv6_cache_put, TypeOK, AddressTable
      <4>2. QED
        BY <1>5, <4>1 DEF Next, vars, server, network, bind_socket_read, sigint_callback,
           Tick, UpstreamAnswer, ZoneChange, Lose, Stopped
    <3>2. CASE ipv6'[n] = ipv6[n]
      BY <1>1, <2>3, <3>2 DEF TimerInv, Cached
    <3>3. ASSUME NEW node, ipv6'[n] = Fresh(node, TTL, now)
          PROVE  nextClear <= ipv6'[n].timestamp + ipv6'[n].ttl + Period
      BY <1>1, <1>2, <3>3 DEF Fresh, TimerInv
    <3>4. QED
      BY <3>1, <3>2, <3>3
  <2>4. QED
    BY <2>1, <2>2, <2>3 DEF TimerInv
<1>6. QED
  BY <1>4, <1>5

LEMMA CacheStep == CacheInv /\ [Next]_vars => CacheInv'
BY TypeStep, PinnedIsBlockedStep, TimerStep DEF CacheInv

\* What no clear and no put will ever touch again is a ban.
THEOREM PinnedEntriesAreBans == Spec => []PinnedIsBlocked
<1>1. CacheInv => PinnedIsBlocked
  BY DEF CacheInv
<1>2. QED
  BY <1>1, CacheInit, CacheStep, PTL DEF Spec

\* Once a ban is pinned it is never changed, cleared or unpinned.
THEOREM BansStayPinned == Spec => PinnedForever
<1>1. CacheInv /\ [Next]_vars =>
        [\A n \in Names : Manual(ipv4, n) => ipv4'[n] = ipv4[n]]_vars
  BY PinnedStep
<1>2. QED
  BY <1>1, CacheInit, CacheStep, PTL DEF Spec, PinnedForever

\* No address that is not pinned is in a cache later than its lifetime, one
\* period of the clear timer and what that is late by after it was learned.
THEOREM AddressesExpire == Spec => []BoundedStaleness
<1>1. CacheInv => BoundedStaleness
  <2> SUFFICES ASSUME CacheInv PROVE BoundedStaleness
    OBVIOUS
  <2>1. \A n \in Names :
           /\ Cached(ipv4, n) => ipv4[n].timestamp \in Nat /\ ipv4[n].ttl \in Nat
           /\ Cached(ipv6, n) => ipv6[n].timestamp \in Nat /\ ipv6[n].ttl \in Nat
    BY EntryType DEF CacheInv, Entry
  <2>2. QED
    BY <2>1, ClockType DEF CacheInv, TimerInv, BoundedStaleness
<1>2. QED
  BY <1>1, CacheInit, CacheStep, PTL DEF Spec
-----------------------------------------------------------------------------
(* Nobody waits for nothing, on a network that loses nothing *)

OrphanInv == TypeOK /\ NoOrphanedClient

LEMMA OrphanInit == Init => OrphanInv
<1> SUFFICES ASSUME Init PROVE NoOrphanedClient
  BY InitType DEF OrphanInv
<1>1. QED
  BY DEF Init, NoOrphanedClient

\* After send_response, whoever still waits was waiting before it, under
\* another feature.
LEMMA SendWaiting ==
    ASSUME NEW waiting \in [Feature -> Clients \cup {NULL}], NEW due,
           NEW f \in Feature, NEW rcode, NEW answers,
           send_response(waiting, due, f, rcode, answers),
           NEW g \in Feature, clients'[g] # NULL
    PROVE  g # f /\ clients'[g] = waiting[g]
<1>1. CASE waiting[f] = NULL
  BY <1>1 DEF send_response
<1>2. CASE waiting[f] # NULL
  <2>1. clients' = [waiting EXCEPT ![f] = NULL]
    BY <1>2 DEF send_response
  <2>2. QED
    BY <2>1
<1>3. QED
  BY <1>1, <1>2

LEMMA OrphanStep == ~Lossy /\ OrphanInv /\ [Next]_vars => OrphanInv'
<1> SUFFICES ASSUME ~Lossy, OrphanInv, [Next]_vars, NEW g \in Feature,
                    clients'[g] # NULL, Readable(g.queries), status' = "running"
             PROVE  g \in toUpstream' \/ \E r \in fromUpstream' : r.feature = g
  BY TypeStep DEF OrphanInv, NoOrphanedClient
<1>1. /\ TypeOK
      /\ \A f \in Feature :
            clients[f] # NULL /\ Readable(f.queries) /\ status = "running" =>
                f \in toUpstream \/ \E r \in fromUpstream : r.feature = f
  BY DEF OrphanInv, NoOrphanedClient
<1>2. ASSUME NEW c \in Clients, NEW f \in Feature, bind_socket_read(c, f)
      PROVE  g \in toUpstream' \/ \E r \in fromUpstream' : r.feature = g
  <2> DEFINE waiting == [clients EXCEPT ![f] = c]
             due == [owed EXCEPT ![c][f] = @ + 1]
  <2>1. status = "running" /\ fromUpstream' = fromUpstream
    BY <1>2 DEF bind_socket_read
  <2>2. \/ /\ clients' = waiting
           /\ toUpstream' = IF Readable(f.queries) THEN toUpstream \cup {f} ELSE toUpstream
        \/ /\ \E rcode, answers : send_response(waiting, due, f, rcode, answers)
           /\ toUpstream' = toUpstream
    BY <1>2 DEF bind_socket_read, send_query
  <2>3. waiting \in [Feature -> Clients \cup {NULL}]
    BY <1>1, WaitingType
  <2>4. ASSUME g # f PROVE waiting[g] = clients[g]
    BY <1>1, <2>4 DEF TypeOK
  <2> HIDE DEF waiting, due
  <2>5. CASE /\ clients' = waiting
             /\ toUpstream' = IF Readable(f.queries) THEN toUpstream \cup {f}
                              ELSE toUpstream
    BY <1>1, <2>1, <2>4, <2>5
  <2>6. CASE /\ \E rcode, answers : send_response(waiting, due, f, rcode, answers)
             /\ toUpstream' = toUpstream
    <3>1. g # f /\ clients'[g] = waiting[g]
      BY <2>3, <2>6, SendWaiting
    <3>2. QED
      BY <1>1, <2>1, <2>4, <2>6, <3>1
  <2>7. QED
    BY <2>2, <2>5, <2>6
<1>3. ASSUME NEW r \in fromUpstream, NEW duplicate \in BOOLEAN, query_socket_read(r, duplicate)
      PROVE  g \in toUpstream' \/ \E s \in fromUpstream' : s.feature = g
  <2>1. /\ clients \in [Feature -> Clients \cup {NULL}] /\ r.feature \in Feature
    BY <1>1 DEF TypeOK, Response
  <2>2. /\ send_response(clients, owed, r.feature, r.answer.rcode, AnswerRecords(r.answer))
        /\ status = "running" /\ toUpstream' = toUpstream
        /\ fromUpstream \ {r} \subseteq fromUpstream'
    BY <1>3 DEF query_socket_read
  <2>3. g # r.feature /\ clients'[g] = clients[g]
    BY <2>1, <2>2, SendWaiting
  <2>4. QED
    BY <1>1, <2>2, <2>3
<1>4. ASSUME NEW f \in toUpstream, NEW duplicate \in BOOLEAN, UpstreamAnswer(f, duplicate)
      PROVE  g \in toUpstream' \/ \E r \in fromUpstream' : r.feature = g
  <2> DEFINE answer == [feature |-> f, answer |-> zone[f.queries]]
  <2>1. /\ clients' = clients /\ status' = status
        /\ toUpstream \ {f} \subseteq toUpstream'
        /\ fromUpstream' = fromUpstream \cup {answer}
    BY <1>4 DEF UpstreamAnswer, server
  <2>2. answer.feature = f
    OBVIOUS
  <2> HIDE DEF answer
  <2>3. QED
    BY <1>1, <2>1, <2>2
<1>5. CASE UNCHANGED <<clients, network>>
  <2>1. status = "running"
    BY <1>5 DEF Next, vars, server, network, bind_socket_read, query_socket_read,
       clear_callback, sigint_callback, Tick, UpstreamAnswer, ZoneChange, Lose, Stopped
  <2>2. QED
    BY <1>1, <1>5, <2>1 DEF network
<1>6. QED
  BY <1>2, <1>3, <1>4, <1>5 DEF Next, vars, server, network, clear_callback,
     sigint_callback, Tick, ZoneChange, Lose, Stopped

\* On a network without loss a client that waits is not forgotten: its query,
\* if upstream can read it, or the answer to it is on its way.
THEOREM WaitingIsInFlight == ASSUME ~Lossy PROVE Spec => []NoOrphanedClient
<1>1. OrphanInv => NoOrphanedClient
  BY DEF OrphanInv
<1>2. OrphanInv /\ [Next]_vars => OrphanInv'
  BY OrphanStep
<1>3. QED
  BY <1>1, <1>2, OrphanInit, PTL DEF Spec
-----------------------------------------------------------------------------
(* Nobody takes another client's place, when no two clients share an id *)

DistinctIds == \A c, d \in Clients : c # d => IdsOf[c] \cap IdsOf[d] = {}

OwnerInv ==
    /\ TypeOK
    /\ \A f \in Feature : clients[f] # NULL => f.id \in IdsOf[clients[f]]

LEMMA OwnerInit == Init => OwnerInv
<1> SUFFICES ASSUME Init PROVE \A f \in Feature : clients[f] = NULL
  BY InitType DEF OwnerInv
<1>1. QED
  BY DEF Init

LEMMA OwnerStep == OwnerInv /\ [Next]_vars => OwnerInv'
<1> SUFFICES ASSUME OwnerInv, [Next]_vars, NEW g \in Feature, clients'[g] # NULL
             PROVE  g.id \in IdsOf[clients'[g]]
  BY TypeStep DEF OwnerInv
<1>1. ASSUME NEW c \in Clients, NEW f \in Feature, bind_socket_read(c, f)
      PROVE  g.id \in IdsOf[clients'[g]]
  <2> DEFINE waiting == [clients EXCEPT ![f] = c]
             due == [owed EXCEPT ![c][f] = @ + 1]
  <2>1. /\ waiting \in [Feature -> Clients \cup {NULL}]
        /\ clients \in [Feature -> Clients \cup {NULL}]
    BY WaitingType DEF OwnerInv, TypeOK
  <2>2. waiting[g] = IF g = f THEN c ELSE clients[g]
    BY <2>1
  <2>3. \/ clients' = waiting
        \/ \E rcode, answers : send_response(waiting, due, f, rcode, answers)
    BY <1>1 DEF bind_socket_read
  <2>4. f.id \in IdsOf[c]
    BY <1>1 DEF bind_socket_read
  <2> HIDE DEF waiting, due
  <2>5. clients'[g] = waiting[g]
    BY <2>1, <2>3, SendWaiting
  <2>6. QED
    BY <2>2, <2>4, <2>5 DEF OwnerInv
<1>2. ASSUME NEW r \in fromUpstream, NEW duplicate \in BOOLEAN, query_socket_read(r, duplicate)
      PROVE  g.id \in IdsOf[clients'[g]]
  <2>1. /\ clients \in [Feature -> Clients \cup {NULL}] /\ r.feature \in Feature
    BY DEF OwnerInv, TypeOK, Response
  <2>2. send_response(clients, owed, r.feature, r.answer.rcode, AnswerRecords(r.answer))
    BY <1>2 DEF query_socket_read
  <2>3. clients'[g] = clients[g]
    BY <2>1, <2>2, SendWaiting
  <2>4. QED
    BY <2>3 DEF OwnerInv
<1>3. CASE UNCHANGED clients
  BY <1>3 DEF OwnerInv
<1>4. QED
  BY <1>1, <1>2, <1>3 DEF Next, vars, server, network, clear_callback, sigint_callback,
     Tick, UpstreamAnswer, ZoneChange, Lose, Stopped

\* send_response takes nobody from the table but the one it answers.
LEMMA SendAnswers ==
    ASSUME NEW waiting \in [Feature -> Clients \cup {NULL}], NEW due,
           NEW f \in Feature, NEW rcode, NEW answers,
           send_response(waiting, due, f, rcode, answers),
           NEW g \in Feature, waiting[g] # NULL, clients'[g] # waiting[g],
           NULL \notin Reply, rcode \in Rcode, answers \in SUBSET RR
    PROVE  reply' # NULL /\ reply'.to = waiting[g] /\ reply'.feature = g
<1>1. waiting[f] # NULL
  BY DEF send_response
<1>2. /\ clients' = [waiting EXCEPT ![f] = NULL]
      /\ reply' = [to |-> waiting[f], feature |-> f, rcode |-> rcode, answers |-> answers]
  BY <1>1 DEF send_response
<1>3. g = f
  BY <1>2
<1>4. reply' \in Reply
  BY <1>1, <1>2 DEF Reply
<1>5. QED
  BY <1>2, <1>3, <1>4

LEMMA KeptStep ==
    ASSUME DistinctIds, OwnerInv, [Next]_vars,
           NEW g \in Feature, clients[g] # NULL, clients'[g] # clients[g]
    PROVE  reply' # NULL /\ reply'.to = clients[g] /\ reply'.feature = g
<1>1. TypeOK /\ NULL \notin Reply /\ clients[g] \in Clients
  BY RelayAssumption DEF OwnerInv, TypeOK
<1>2. ASSUME NEW c \in Clients, NEW f \in Feature, bind_socket_read(c, f)
      PROVE  reply' # NULL /\ reply'.to = clients[g] /\ reply'.feature = g
  <2> DEFINE qs == f.queries
             waiting == [clients EXCEPT ![f] = c]
             due == [owed EXCEPT ![c][f] = @ + 1]
  <2>1. waiting \in [Feature -> Clients \cup {NULL}]
    BY <1>1, WaitingType
  <2>2. waiting[g] = clients[g]
    <3>1. CASE g # f
      BY <1>1, <3>1 DEF TypeOK
    <3>2. CASE g = f
      <4>1. g.id \in IdsOf[clients[g]] /\ g.id \in IdsOf[c]
        BY <1>2, <3>2 DEF OwnerInv, bind_socket_read
      <4>2. clients[g] = c
        BY <1>1, <4>1 DEF DistinctIds
      <4>3. QED
        BY <2>1, <3>2, <4>2 DEF TypeOK
    <3>3. QED
      BY <3>1, <3>2
  <2>3. ~(clients' = waiting)
    BY <2>2
  <2>4. /\ ~PassHangs(qs) /\ ~PassMisses(qs)
        /\ \/ send_response(waiting, due, f, NXDOMAIN, {})
           \/ send_response(waiting, due, f, NOERROR, CachedAnswers(qs))
    BY <1>2, <2>3 DEF bind_socket_read
  <2>5. qs \in QuerySeqs
    BY DEF Feature
  <2>6. CachedAnswers(qs) \in SUBSET RR
    BY <1>1, <2>4, <2>5, CachedAnswersType
  <2>7. NXDOMAIN \in Rcode /\ NOERROR \in Rcode
    BY DEF NXDOMAIN, NOERROR, Rcode
  <2> HIDE DEF waiting, due, qs
  <2>8. QED
    BY <1>1, <2>1, <2>2, <2>4, <2>6, <2>7, SendAnswers
<1>3. ASSUME NEW r \in fromUpstream, NEW duplicate \in BOOLEAN, query_socket_read(r, duplicate)
      PROVE  reply' # NULL /\ reply'.to = clients[g] /\ reply'.feature = g
  <2>1. /\ r.feature \in Feature /\ r.answer \in Answer /\ r.answer.rcode \in Rcode
        /\ clients \in [Feature -> Clients \cup {NULL}]
    BY <1>1 DEF TypeOK, Response, Answer
  <2>2. send_response(clients, owed, r.feature, r.answer.rcode, AnswerRecords(r.answer))
    BY <1>3 DEF query_socket_read
  <2>3. QED
    BY <1>1, <2>1, <2>2, AnswerRecordsType, SendAnswers
<1>4. ~UNCHANGED clients
  OBVIOUS
<1>5. QED
  BY <1>2, <1>3, <1>4 DEF Next, vars, server, network, clear_callback, sigint_callback,
     Tick, UpstreamAnswer, ZoneChange, Lose, Stopped

\* As long as clients do not share ids, waiting ends only with the answer.
THEOREM WaitingEndsWithAnswer == ASSUME DistinctIds PROVE Spec => WaitingClientKept
<1>1. OwnerInv /\ [Next]_vars =>
        [\A f \in Feature :
            clients[f] # NULL /\ clients'[f] # clients[f] =>
                reply' # NULL /\ reply'.to = clients[f] /\ reply'.feature = f]_vars
  BY KeptStep
<1>2. QED
  BY <1>1, OwnerInit, OwnerStep, PTL DEF Spec, WaitingClientKept
-----------------------------------------------------------------------------
(* Relay implements Service, when no two clients share an id. OwnerInv is    *)
(* what makes a request of a client leave the others in the pending table    *)
(* alone, and WaitingIsOwed what makes an answer one that is due.            *)

\* What Service calls waiting.
Pairs(table) == {p \in Clients \X Feature : table[p[2]] = p[1]}

\* A client that enters the table under a feature of its own is one pair more.
LEMMA PairsEnter ==
    ASSUME NEW table \in [Feature -> Clients \cup {NULL}], NEW c \in Clients, NEW f \in Feature,
           table[f] \in {c, NULL}
    PROVE  Pairs([table EXCEPT ![f] = c]) = Pairs(table) \cup {<<c, f>>}
<1>0. NULL \notin Clients
  BY RelayAssumption
<1>1. ASSUME NEW d \in Clients, NEW g \in Feature
      PROVE  [table EXCEPT ![f] = c][g] = d <=> table[g] = d \/ <<d, g>> = <<c, f>>
  <2>1. CASE g = f
    BY <1>0, <2>1
  <2>2. CASE g # f
    BY <2>2
  <2>3. QED
    BY <2>1, <2>2
<1>2. QED
  BY <1>1 DEF Pairs

\* A feature whose client is taken out of the table is one pair less.
LEMMA PairsLeave ==
    ASSUME NEW table \in [Feature -> Clients \cup {NULL}], NEW c \in Clients, NEW f \in Feature,
           table[f] \in {c, NULL}
    PROVE  Pairs([table EXCEPT ![f] = NULL]) = Pairs(table) \ {<<c, f>>}
<1>0. NULL \notin Clients
  BY RelayAssumption
<1>1. ASSUME NEW d \in Clients, NEW g \in Feature
      PROVE  [table EXCEPT ![f] = NULL][g] = d <=> table[g] = d /\ <<d, g>> # <<c, f>>
  <2>1. CASE g = f
    BY <1>0, <2>1
  <2>2. CASE g # f
    BY <2>2
  <2>3. QED
    BY <2>1, <2>2
<1>2. QED
  BY <1>1 DEF Pairs

\* A request is taken in, or answered at once.
LEMMA BindServes ==
    ASSUME DistinctIds, OwnerInv, NEW c \in Clients, NEW f \in Feature, bind_socket_read(c, f)
    PROVE  Clientele!Next
<1> DEFINE qs == f.queries
           waiting == [clients EXCEPT ![f] = c]
           due == [owed EXCEPT ![c][f] = @ + 1]
<1>0. TypeOK /\ NULL \notin Clients /\ NULL \notin Reply
  BY RelayAssumption DEF OwnerInv
<1>1. /\ clients \in [Feature -> Clients \cup {NULL}]
      /\ owed \in [Clients -> [Feature -> Int]]
      /\ waiting \in [Feature -> Clients \cup {NULL}]
      /\ due \in [Clients -> [Feature -> Int]]
      /\ waiting[f] = c
  BY <1>0, WaitingType DEF TypeOK
<1>2. clients[f] \in {c, NULL}
  <2>1. f.id \in IdsOf[c]
    BY DEF bind_socket_read
  <2>2. clients[f] # NULL => f.id \in IdsOf[clients[f]] /\ clients[f] \in Clients
    BY <1>1 DEF OwnerInv
  <2>3. QED
    BY <2>1, <2>2 DEF DistinctIds
<1>3. status = "running"
  BY DEF bind_socket_read
<1>4. CASE clients' = waiting /\ owed' = due /\ reply' = NULL
  <2>1. Pairs(clients') = Pairs(clients) \cup {<<c, f>>}
    <3>1. Pairs([clients EXCEPT ![f] = c]) = Pairs(clients) \cup {<<c, f>>}
      <4>1. clients \in [Feature -> Clients \cup {NULL}]
        BY ONLY <1>1
      <4>2. QED
        BY ONLY <1>2, <4>1, c \in Clients, f \in Feature, PairsEnter
    <3>2. QED
      BY <1>4, <3>1
  <2>2. Clientele!Ask(c, f)
    BY <1>3, <1>4, <2>1 DEF Clientele!Ask, Pairs
  <2>3. QED
    BY <2>2 DEF Clientele!Next
<1>5. CASE /\ ~PassHangs(qs) /\ ~PassMisses(qs)
           /\ \/ send_response(waiting, due, f, NXDOMAIN, {})
              \/ send_response(waiting, due, f, NOERROR, CachedAnswers(qs))
           /\ UNCHANGED status
  <2>0. c # NULL
    BY <1>0
  <2>1. /\ clients' = [waiting EXCEPT ![f] = NULL]
        /\ owed' = [due EXCEPT ![c][f] = @ - 1]
        /\ \E rcode, answers :
              reply' = [to |-> c, feature |-> f, rcode |-> rcode, answers |-> answers]
    <3> HIDE DEF waiting, due, qs
    <3>1. QED
      BY <1>1, <1>5, <2>0 DEF send_response
  <2>2. clients' = [clients EXCEPT ![f] = NULL]
    BY <1>1, <2>1
  <2>3. owed' = owed
    <3>1. owed[c] \in [Feature -> Int] /\ owed[c][f] \in Int
      BY <1>1
    <3>2. due[c] = [owed[c] EXCEPT ![f] = owed[c][f] + 1]
      BY <1>1
    <3>3. [due[c] EXCEPT ![f] = due[c][f] - 1] = owed[c]
      BY <3>1, <3>2
    <3>4. owed' = [due EXCEPT ![c] = owed[c]]
      BY <2>1, <3>3
    <3>5. QED
      BY <1>1, <3>4
  <2>4. Pairs(clients') = Pairs(clients) \ {<<c, f>>}
    <3>1. clients \in [Feature -> Clients \cup {NULL}]
      BY <1>1
    <3>2. Pairs([clients EXCEPT ![f] = NULL]) = Pairs(clients) \ {<<c, f>>}
      BY <1>2, <3>1, PairsLeave
    <3>3. QED
      BY <2>2, <3>2
  <2>5. reply' # NULL /\ reply'.to = c /\ reply'.feature = f
    <3>1. NXDOMAIN \in Rcode /\ NOERROR \in Rcode
      BY DEF NXDOMAIN, NOERROR, Rcode
    <3>2. CachedAnswers(qs) \in SUBSET RR
      BY <1>0, <1>5, CachedAnswersType DEF Feature
    <3>3. reply' \in Reply
      <4>1. \/ reply' = [to |-> c, feature |-> f, rcode |-> NXDOMAIN, answers |-> {}]
            \/ reply' = [to |-> c, feature |-> f, rcode |-> NOERROR, answers |-> CachedAnswers(qs)]
        <5> HIDE DEF waiting, due, qs
        <5>1. QED
          BY <1>1, <1>5, <2>0 DEF send_response
      <4>2. QED
        BY <3>1, <3>2, <4>1 DEF Reply
    <3>4. QED
      BY <1>0, <2>1, <3>3
  <2>6. Clientele!AskAndAnswer(c, f)
    BY <1>3, <1>5, <2>3, <2>4, <2>5 DEF Clientele!AskAndAnswer, Pairs
  <2>7. QED
    BY <2>6 DEF Clientele!Next
<1>6. QED
  BY <1>4, <1>5 DEF bind_socket_read

\* A response answers whoever waits for it, and otherwise nobody notices.
LEMMA QueryServes ==
    ASSUME DebtInv, NEW r \in fromUpstream, NEW duplicate \in BOOLEAN,
           query_socket_read(r, duplicate)
    PROVE  Clientele!Next
<1> DEFINE f == r.feature
           c == clients[f]
<1>0. TypeOK /\ NULL \notin Clients /\ NULL \notin Reply
  BY RelayAssumption DEF DebtInv
<1>1. /\ f \in Feature /\ r.answer \in Answer /\ r.answer.rcode \in Rcode
      /\ clients \in [Feature -> Clients \cup {NULL}]
      /\ owed \in [Clients -> [Feature -> Int]]
  BY <1>0 DEF TypeOK, Response, Answer
<1>2. /\ send_response(clients, owed, f, r.answer.rcode, AnswerRecords(r.answer))
      /\ status = "running" /\ UNCHANGED status
  BY DEF query_socket_read
<1>3. CASE c = NULL
  <2>1. clients' = clients /\ owed' = owed /\ reply' = NULL
    BY <1>2, <1>3 DEF send_response
  <2>2. Clientele!Quiet
    BY <1>2, <2>1 DEF Clientele!Quiet
  <2>3. QED
    BY <2>2 DEF Clientele!Next
<1>4. CASE c # NULL
  <2>1. c \in Clients /\ owed[c][f] >= 1
    BY <1>1, <1>4 DEF DebtInv, WaitingIsOwed
  <2>2. /\ clients' = [clients EXCEPT ![f] = NULL]
        /\ owed' = [owed EXCEPT ![c][f] = @ - 1]
        /\ reply' = [to |-> c, feature |-> f, rcode |-> r.answer.rcode,
                     answers |-> AnswerRecords(r.answer)]
    BY <1>2, <1>4 DEF send_response
  <2>3. Pairs(clients') = Pairs(clients) \ {<<c, f>>}
    BY <1>1, <2>1, <2>2, PairsLeave
  <2>4. reply' # NULL /\ reply'.to = c /\ reply'.feature = f
    <3>1. AnswerRecords(r.answer) \in SUBSET RR
      BY <1>1, AnswerRecordsType
    <3>2. reply' \in Reply
      BY <1>1, <2>1, <2>2, <3>1 DEF Reply
    <3>3. QED
      BY <1>0, <2>2, <3>2
  <2>5. <<c, f>> \in Pairs(clients)
    BY <1>1, <2>1 DEF Pairs
  <2>6. Clientele!Answer(c, f)
    BY <1>2, <2>1, <2>2, <2>3, <2>4, <2>5 DEF Clientele!Answer, Pairs
  <2>7. QED
    BY <1>1, <2>1, <2>6 DEF Clientele!Next
<1>5. QED
  BY <1>3, <1>4

\* Nobody waits at the start.
LEMMA ServiceInit == Init => Clientele!Init
<1> SUFFICES ASSUME Init PROVE Clientele!Init
  OBVIOUS
<1>1. Pairs(clients) = {}
  BY RelayAssumption DEF Init, Pairs
<1>2. QED
  BY <1>1 DEF Init, Clientele!Init, Pairs

\* Every step is one of Service, or changes nothing a client could notice.
LEMMA ServiceStep ==
    ASSUME DistinctIds, OwnerInv, DebtInv, [Next]_vars
    PROVE  Clientele!Next \/ UNCHANGED <<clients, owed, reply, status>>
<1>1. ASSUME NEW c \in Clients, NEW f \in Feature, bind_socket_read(c, f)
      PROVE  Clientele!Next
  BY <1>1, BindServes
<1>2. ASSUME NEW r \in fromUpstream, NEW duplicate \in BOOLEAN, query_socket_read(r, duplicate)
      PROVE  Clientele!Next
  BY <1>2, QueryServes
<1>3. ASSUME UNCHANGED <<clients, owed>>, reply' = NULL,
             status' = status \/ status' = "exited"
      PROVE  Clientele!Next
  BY <1>3 DEF Clientele!Next, Clientele!Quiet
<1>4. QED
  BY <1>1, <1>2, <1>3 DEF Next, vars, server, network, clear_callback, sigint_callback,
     Tick, UpstreamAnswer, ZoneChange, Lose, Stopped

\* To its clients the relay is the service that Service describes, whatever the
\* caches hold and the network does, as long as clients do not share ids: a client
\* is answered what it asked and is still due, and is removed from the pending
\* table by nothing but its answer.
THEOREM RelayImplementsService == ASSUME DistinctIds PROVE Spec => ImplementsService
<1>1. OwnerInv /\ DebtInv /\ [Next]_vars => [Clientele!Next]_<<
          {p \in Clients \X Feature : clients[p[2]] = p[1]}, owed,
          IF reply = NULL THEN NULL ELSE <<reply.to, reply.feature>>, status = "running">>
  BY ServiceStep
<1>2. QED
  BY <1>1, ServiceInit, OwnerInit, OwnerStep, DebtInit, DebtStep, PTL
     DEF Spec, ImplementsService, Clientele!Spec, Clientele!vars
-----------------------------------------------------------------------------
(* A chase ends along the aliases of one zone without a cycle, whenever they *)
(* were learned: every alias leads to a name of lower rank.                  *)

DescendingTable(rank, aliases) ==
    \A n \in Names : Cached(aliases, n) => rank[aliases[n].name] < rank[n]

Walk(aliases, d, k, walk) ==
    /\ walk \in [1..k -> Names]
    /\ walk[1] = d
    /\ \A i \in 1..(k - 1) :
          Cached(aliases, walk[i]) /\ walk[i + 1] = aliases[walk[i]].name
    /\ ~Cached(aliases, walk[k])

\* A chase that loses rank with every step is over before the ranks are.
LEMMA DescentEnds ==
    ASSUME NEW aliases \in AliasTable, NEW rank \in [Names -> 1..Cardinality(Names)],
           Cardinality(Names) \in Nat,
           DescendingTable(rank, aliases), NEW d \in Names
    PROVE  ~Endless(aliases, d)
<1> DEFINE Ends(n) == \E k \in 1..rank[n] : \E walk : Walk(aliases, n, k, walk)
           Bad == {r \in Nat : \E n \in Names : rank[n] = r /\ ~Ends(n)}
<1>1. \A n \in Names : Ends(n)
  <2> SUFFICES ASSUME NEW m \in Names, ~Ends(m) PROVE FALSE
    OBVIOUS
  <2>1. rank[m] \in Bad /\ Bad \in SUBSET Nat
    BY SMT
  <2> HIDE DEF Ends
  <2>2. PICK r \in Bad : \A s \in Bad : r <= s
    <3> HIDE DEF Bad
    <3>1. QED
      BY <2>1, LeastNatural
  <2>3. PICK n \in Names : rank[n] = r /\ ~Ends(n)
    OBVIOUS
  <2>4. rank[n] \in 1..Cardinality(Names)
    OBVIOUS
  <2>5. CASE ~Cached(aliases, n)
    <3> DEFINE walk == [i \in 1..1 |-> n]
    <3>1. Walk(aliases, n, 1, walk)
      BY <2>5 DEF Walk
    <3>2. QED
      BY <3>1, <2>3, <2>4 DEF Ends
  <2>6. CASE Cached(aliases, n)
    <3> DEFINE next == aliases[n].name
    <3>1. next \in Names /\ rank[next] < rank[n] /\ rank[next] \in 1..Cardinality(Names)
      BY <2>6 DEF DescendingTable, AliasTable, Alias, Cached
    <3>2. Ends(next)
      <4>1. rank[next] \notin Bad
        BY <2>2, <2>3, <2>4, <3>1
      <4>2. QED
        BY <3>1, <4>1
    <3>3. PICK k \in 1..rank[next] : \E w : Walk(aliases, next, k, w)
      BY <3>2 DEF Ends
    <3>4. PICK w : Walk(aliases, next, k, w)
      BY <3>3
    <3>5. k \in Nat /\ k >= 1 /\ k + 1 <= rank[n] /\ k + 1 \in 1..rank[n]
      BY <3>1, <3>3, <2>4
    <3> DEFINE walk == [i \in 1..(k + 1) |-> IF i = 1 THEN n ELSE w[i - 1]]
    <3> HIDE DEF next
    <3>6. walk \in [1..(k + 1) -> Names]
      <4>1. \A i \in 1..(k + 1) : i # 1 => i - 1 \in 1..k
        BY <3>5
      <4>2. w \in [1..k -> Names]
        BY <3>4 DEF Walk
      <4>3. QED
        BY <4>1, <4>2
    <3>7. walk[1] = n /\ walk[2] = next /\ walk[k + 1] = w[k]
      BY <3>4, <3>5 DEF Walk
    <3>8. ASSUME NEW i \in 1..k
          PROVE  Cached(aliases, walk[i]) /\ walk[i + 1] = aliases[walk[i]].name
      <4>1. CASE i = 1
        BY <4>1, <3>7, <2>6 DEF next
      <4>2. CASE i # 1
        <5>1. i - 1 \in 1..(k - 1) /\ (i - 1) + 1 = i /\ (i + 1) - 1 = i /\ i + 1 # 1
          BY <4>2, <3>5
        <5>2. walk[i] = w[i - 1] /\ walk[i + 1] = w[i]
          BY <4>2, <5>1, <3>5
        <5>3. QED
          BY <5>1, <5>2, <3>4 DEF Walk
      <4>3. QED
        BY <4>1, <4>2
    <3> HIDE DEF walk
    <3>9. Walk(aliases, n, k + 1, walk)
      BY <3>4, <3>5, <3>6, <3>7, <3>8 DEF Walk
    <3>10. QED
      BY <3>5, <3>9, <2>3 DEF Ends
  <2>7. QED
    BY <2>5, <2>6
<1>2. PICK k \in 1..rank[d] : \E walk : Walk(aliases, d, k, walk)
  BY <1>1
<1>3. PICK walk : Walk(aliases, d, k, walk)
  BY <1>2
<1>4. k \in 1..Cardinality(Names) /\ k \in Nat
  BY <1>2
<1>5. walk \in [1..k -> Names] /\ Len(walk) = k
  BY <1>3, <1>4 DEF Walk
<1>6. walk \in Chains(aliases, d)
  BY <1>3, <1>4, <1>5 DEF Walk, Chains
<1>7. QED
  BY <1>6 DEF Endless

\* Where the aliases come from, and what a callback that hangs goes round.
SpinInv ==
    /\ TypeOK
    /\ \A r \in fromUpstream : \E z \in Zones, qs \in QuerySeqs : r.answer = z[qs]
    /\ CachedAliases \subseteq UNION {AliasesOf(z) : z \in Zones}
    /\ status = "spinning" => \E n \in Names : Endless(cname, n)

LEMMA SpinInit == Init => SpinInv
<1> SUFFICES ASSUME Init PROVE SpinInv
  OBVIOUS
<1>1. \A n \in Names : ~Cached(cname, n)
  BY DEF Init, EmptyTable, Cached
<1>2. CachedAliases = {}
  BY <1>1 DEF CachedAliases
<1>3. QED
  BY <1>2, InitType DEF Init, SpinInv

\* The table holds what it held, or records of the answer put into it.
LEMMA AliasesPut ==
    ASSUME NEW rrs \in Seq(CnameRR), NEW n \in Names,
           cname' = cname_cache_puts(cname, rrs, TTL, now), Cached(cname', n)
    PROVE  \/ cname'[n] = cname[n]
           \/ \E i \in DOMAIN rrs :
                 [type |-> "CNAME", name |-> n, data |-> cname'[n].name] = rrs[i]
<1>1. CASE \A i \in DOMAIN rrs : rrs[i].name # n
  BY <1>1 DEF cname_cache_puts
<1>2. CASE \E i \in DOMAIN rrs : rrs[i].name = n
  <2> DEFINE Of(i) == rrs[i].name = n /\ \A j \in DOMAIN rrs : rrs[j].name = n => j <= i
             last == CHOOSE i \in DOMAIN rrs : Of(i)
  <2>1. \E i \in DOMAIN rrs : Of(i)
    <3>1. Len(rrs) \in Nat /\ DOMAIN rrs = 1..Len(rrs)
      OBVIOUS
    <3>2. QED
      BY <1>2, <3>1, LastIndex
  <2>2. last \in DOMAIN rrs /\ Of(last)
    BY <2>1, Zenon
  <2>3. cname'[n].name = rrs[last].data
    BY <1>2 DEF cname_cache_puts
  <2> HIDE DEF last
  <2>4. rrs[last] \in CnameRR
    BY <2>2
  <2>5. rrs[last] = [type |-> "CNAME", name |-> n, data |-> rrs[last].data]
    BY <2>2, <2>4 DEF CnameRR
  <2>6. QED
    BY <2>2, <2>3, <2>5
<1>3. QED
  BY <1>1, <1>2

LEMMA AliasesStep ==
    ASSUME SpinInv, NEW r \in fromUpstream, NEW duplicate \in BOOLEAN,
           query_socket_read(r, duplicate)
    PROVE  CachedAliases' \subseteq UNION {AliasesOf(z) : z \in Zones}
<1> DEFINE alias(n) == [type |-> "CNAME", name |-> n, data |-> cname'[n].name]
<1>1. PICK z \in Zones, qs \in QuerySeqs : r.answer = z[qs]
  BY DEF SpinInv
<1>2. r.answer.cname \in Seq(CnameRR)
  BY DEF SpinInv, TypeOK, Response, Answer
<1>3. cname' = cname_cache_puts(cname, r.answer.cname, TTL, now)
  BY DEF query_socket_read
<1>4. ASSUME NEW n \in Names, Cached(cname', n)
      PROVE  alias(n) \in UNION {AliasesOf(y) : y \in Zones}
  <2>1. CASE cname'[n] = cname[n]
    <3>1. alias(n) \in CachedAliases
      BY <1>4, <2>1 DEF CachedAliases, Cached
    <3>2. QED
      BY <3>1 DEF SpinInv
  <2>2. CASE \E i \in DOMAIN r.answer.cname : alias(n) = r.answer.cname[i]
    <3>1. PICK i \in DOMAIN z[qs].cname : alias(n) = z[qs].cname[i]
      BY <1>1, <2>2
    <3>2. alias(n) \in AliasesOf(z)
      BY <3>1 DEF AliasesOf
    <3>3. QED
      BY <3>2
  <2>3. QED
    BY <1>2, <1>3, <1>4, <2>1, <2>2, AliasesPut
<1>5. QED
  BY <1>4 DEF CachedAliases

LEMMA SpinStep == SpinInv /\ [Next]_vars => SpinInv'
<1> SUFFICES ASSUME SpinInv, [Next]_vars
             PROVE  /\ \A r \in fromUpstream' :
                          \E z \in Zones, qs \in QuerySeqs : r.answer = z[qs]
                    /\ CachedAliases' \subseteq UNION {AliasesOf(z) : z \in Zones}
                    /\ status' = "spinning" => \E n \in Names : Endless(cname', n)
  BY TypeStep DEF SpinInv
<1>1. TypeOK
  BY DEF SpinInv
<1>2. ASSUME NEW c \in Clients, NEW f \in Feature, bind_socket_read(c, f)
      PROVE  /\ cname' = cname
             /\ status' = "spinning" => \E n \in Names : Endless(cname, n)
  <2>1. cname' = cname /\ status = "running"
    BY <1>2 DEF bind_socket_read
  <2>2. f.queries \in QuerySeqs
    BY DEF Feature
  <2>3. ASSUME PassHangs(f.queries) PROVE \E n \in Names : Endless(cname, n)
    <3>1. PICK i \in DOMAIN f.queries : Hangs(f.queries[i])
      BY <2>3 DEF PassHangs
    <3>2. f.queries[i].name \in Names
      BY <2>2, <3>1, QuestionType
    <3>3. QED
      BY <3>1, <3>2 DEF Hangs
  <2>4. status' = "spinning" => PassHangs(f.queries)
    BY <1>2, <2>1 DEF bind_socket_read
  <2>5. QED
    BY <2>1, <2>3, <2>4
<1>3. ASSUME NEW r \in fromUpstream, NEW duplicate \in BOOLEAN, query_socket_read(r, duplicate)
      PROVE  status' = "running"
  BY <1>3 DEF query_socket_read
<1>4. ASSUME NEW f \in toUpstream, NEW duplicate \in BOOLEAN, UpstreamAnswer(f, duplicate)
      PROVE  \A r \in fromUpstream' : \E z \in Zones, qs \in QuerySeqs : r.answer = z[qs]
  <2>1. f.queries \in QuerySeqs /\ zone \in Zones
    BY <1>1 DEF TypeOK, Feature
  <2>2. fromUpstream' = fromUpstream \cup {[feature |-> f, answer |-> zone[f.queries]]}
    BY <1>4 DEF UpstreamAnswer
  <2>3. QED
    BY <2>1, <2>2 DEF SpinInv
<1>5. status' = status \/ status' = "exited" \/
        \E c \in Clients, f \in Feature : bind_socket_read(c, f)
  BY DEF Next, vars, server, network, query_socket_read, clear_callback, sigint_callback,
     Tick, UpstreamAnswer, ZoneChange, Lose, Stopped
<1>6. cname' = cname \/
        \E r \in fromUpstream, duplicate \in BOOLEAN : query_socket_read(r, duplicate)
  BY DEF Next, vars, server, network, bind_socket_read, clear_callback, cname_cache_clear,
     sigint_callback, Tick, UpstreamAnswer, ZoneChange, Lose, Stopped
<1>7. fromUpstream' \subseteq fromUpstream \/
        \E f \in toUpstream, duplicate \in BOOLEAN : UpstreamAnswer(f, duplicate)
  BY DEF Next, vars, server, network, bind_socket_read, query_socket_read, clear_callback,
     sigint_callback, Tick, ZoneChange, Lose, Stopped
<1>8. CASE cname' = cname
  <2>1. CachedAliases' = CachedAliases
    BY <1>8 DEF CachedAliases
  <2>2. status' = "spinning" => \E n \in Names : Endless(cname, n)
    BY <1>2, <1>5 DEF SpinInv
  <2>3. QED
    BY <1>4, <1>7, <1>8, <2>1, <2>2 DEF SpinInv
<1>9. CASE \E r \in fromUpstream, duplicate \in BOOLEAN : query_socket_read(r, duplicate)
  <2>1. CachedAliases' \subseteq UNION {AliasesOf(z) : z \in Zones}
    BY <1>9, AliasesStep
  <2>2. status' = "running"
    BY <1>3, <1>9
  <2>3. QED
    BY <1>4, <1>7, <2>1, <2>2 DEF SpinInv
<1>10. QED
  BY <1>6, <1>8, <1>9

\* Whatever aliases the cache has collected over time, upstream has announced
\* every one, and a question hangs only if they fit into no zone without a cycle
\* of its own: it takes two zones that contradict each other, or one that does.
THEOREM SpinsWhereZonesMeet == Spec => []SpinsOnlyWhereZonesMeet
<1>1. ASSUME SpinInv, status = "spinning",
             NEW z \in Zones, CachedAliases \subseteq AliasesOf(z), Acyclic(AliasesOf(z))
      PROVE  FALSE
  <2>1. PICK n \in Names : Endless(cname, n)
    BY <1>1 DEF SpinInv
  <2>2. PICK rank \in [Names -> 1..Cardinality(Names)] :
           \A rr \in AliasesOf(z) : rank[rr.data] < rank[rr.name]
    BY <1>1 DEF Acyclic
  <2>3. ASSUME NEW m \in Names, Cached(cname, m)
        PROVE  rank[cname[m].name] < rank[m]
    <3> DEFINE rr == [type |-> "CNAME", name |-> m, data |-> cname[m].name]
    <3>1. rr \in AliasesOf(z)
      BY <1>1, <2>3 DEF CachedAliases
    <3>2. rank[rr.data] < rank[rr.name]
      BY <2>2, <3>1
    <3>3. QED
      BY <3>2
  <2>4. DescendingTable(rank, cname)
    BY <2>3 DEF DescendingTable
  <2>5. cname \in AliasTable /\ Cardinality(Names) \in Nat
    BY <1>1, FS_CardinalityType, CachesAssumption DEF SpinInv, TypeOK
  <2>6. QED
    BY <2>1, <2>4, <2>5, DescentEnds
<1>2. SpinInv => SpinsOnlyWhereZonesMeet
  BY <1>1 DEF SpinInv, SpinsOnlyWhereZonesMeet
<1>3. QED
  BY <1>2, SpinInit, SpinStep, PTL DEF Spec
-----------------------------------------------------------------------------
(* What is served was said by upstream or configured, under that very name  *)

Known == Announced \cup ConfiguredRecords

KnownAddresses(type, table) ==
    \A n \in Names : Cached(table, n) =>
        \A i \in DOMAIN table[n].node :
            [type |-> type, name |-> n, data |-> table[n].node[i]] \in Known

KnownAliases(table) ==
    \A n \in Names : Cached(table, n) =>
        [type |-> "CNAME", name |-> n, data |-> table[n].name] \in Known

TruthInv ==
    /\ TypeOK
    /\ KnownAddresses("A", ipv4)
    /\ KnownAddresses("AAAA", ipv6)
    /\ KnownAliases(cname)
    /\ \A r \in fromUpstream : \E z \in Zones, qs \in QuerySeqs : r.answer = z[qs]
    /\ ServedTruthful

LEMMA TruthInit == Init => TruthInv
<1> SUFFICES ASSUME Init PROVE TruthInv
  OBVIOUS
<1>1. ASSUME NEW n \in Names, Cached(ipv4, n), NEW i \in DOMAIN ipv4[n].node
      PROVE  [type |-> "A", name |-> n, data |-> ipv4[n].node[i]] \in Known
  <2>1. /\ ipv4 \in [Names -> {NULL} \cup {Fresh(<<a>>, ConfigTTL, 0) : a \in IPv4}]
        /\ IF Config[n] = NULL THEN ipv4[n] = NULL
           ELSE \E a \in ReadAddress(n) : ipv4[n] = Fresh(<<a>>, ConfigTTL, 0)
    BY DEF Init, ipv4_read_file
  <2>2. Config[n] # NULL
    BY <1>1, <2>1 DEF Cached
  <2>3. PICK a \in ReadAddress(n) : ipv4[n] = Fresh(<<a>>, ConfigTTL, 0)
    BY <2>1, <2>2
  <2>4. ipv4[n].node = <<a>>
    BY <2>3 DEF Fresh
  <2>5. ipv4[n].node[i] = a
    BY <1>1, <2>4
  <2>6. QED
    BY <2>2, <2>3, <2>5 DEF Known, ConfiguredRecords
<1>2. \A n \in Names : ~Cached(ipv6, n) /\ ~Cached(cname, n)
  BY DEF Init, EmptyTable, Cached
<1>3. fromUpstream = {} /\ reply = NULL
  BY DEF Init
<1>4. QED
  BY <1>1, <1>2, <1>3, InitType DEF TruthInv, KnownAddresses, KnownAliases, ServedTruthful

LEMMA AnnouncedAnswer ==
    ASSUME NEW z \in Zones, NEW qs \in QuerySeqs
    PROVE  /\ z[qs] \in Answer
           /\ AnswerRecords(z[qs]) \subseteq Known
BY RelayAssumption DEF Known, Announced

\* Filing a list of one owner under that owner keeps its records known.
LEMMA KnownPut ==
    ASSUME NEW T, NEW Address, NEW table \in AddressTable(Address),
           NEW rrs \in Seq([type : {T}, name : Names, data : Address]), rrs # <<>>,
           \A i \in DOMAIN rrs : rrs[i] \in Known,
           \A i, j \in DOMAIN rrs : rrs[i].name = rrs[j].name,
           KnownAddresses(T, table), NEW t
    PROVE  /\ KnownAddresses(T, ipv4_cache_put(table, rrs[Len(rrs)].name, Data(rrs), TTL, t))
           /\ KnownAddresses(T, ipv6_cache_put(table, rrs[Len(rrs)].name, Data(rrs), TTL, t))
<1> DEFINE owner == rrs[Len(rrs)].name
<1>1. Len(rrs) \in DOMAIN rrs
  BY SMT
<1>2. ASSUME NEW i \in DOMAIN Data(rrs)
      PROVE  [type |-> T, name |-> owner, data |-> Data(rrs)[i]] \in Known
  <2>1. i \in DOMAIN rrs /\ Data(rrs)[i] = rrs[i].data
    BY <1>2 DEF Data
  <2> DEFINE RRs == [type : {T}, name : Names, data : Address]
  <2>2. rrs[i] \in RRs
    <3>1. rrs \in Seq(RRs)
      OBVIOUS
    <3> HIDE DEF RRs
    <3>2. QED
      BY <2>1, <3>1
  <2>3. rrs[i].name = owner
    BY <1>1, <2>1
  <2>4. rrs[i] = [type |-> T, name |-> rrs[i].name, data |-> rrs[i].data]
    BY <2>2
  <2> HIDE DEF owner
  <2>5. QED
    BY <2>1, <2>3, <2>4
<1> HIDE DEF owner
<1>3. ASSUME NEW new, NEW n \in Names, Cached(new, n),
             new[n] = table[n] \/ (n = owner /\ new[n] = Fresh(Data(rrs), TTL, t)),
             NEW i \in DOMAIN new[n].node
      PROVE  [type |-> T, name |-> n, data |-> new[n].node[i]] \in Known
  <2>1. CASE new[n] = table[n]
    BY <1>3, <2>1 DEF KnownAddresses, Cached
  <2>2. CASE n = owner /\ new[n] = Fresh(Data(rrs), TTL, t)
    <3>1. new[n].node = Data(rrs)
      BY <2>2 DEF Fresh
    <3>2. QED
      BY <1>2, <1>3, <2>2, <3>1
  <2>3. QED
    BY <1>3, <2>1, <2>2
<1>4. table \in [Names -> Entry(Address) \cup {NULL}]
  BY DEF AddressTable
<1> DEFINE put4 == ipv4_cache_put(table, owner, Data(rrs), TTL, t)
           put6 == ipv6_cache_put(table, owner, Data(rrs), TTL, t)
<1>5. \A n \in Names :
        /\ put4[n] = table[n] \/ (n = owner /\ put4[n] = Fresh(Data(rrs), TTL, t))
        /\ put6[n] = table[n] \/ (n = owner /\ put6[n] = Fresh(Data(rrs), TTL, t))
  <2>1. /\ put4 = table \/ put4 = [table EXCEPT ![owner] = Fresh(Data(rrs), TTL, t)]
        /\ put6 = [table EXCEPT ![owner] = Fresh(Data(rrs), TTL, t)]
    BY DEF ipv4_cache_put, ipv6_cache_put
  <2> HIDE DEF put4, put6
  <2>2. QED
    BY <1>4, <2>1
<1> HIDE DEF put4, put6
<1>6. KnownAddresses(T, put4) /\ KnownAddresses(T, put6)
  BY <1>3, <1>5 DEF KnownAddresses
<1>7. QED
  BY <1>6 DEF put4, put6, owner

\* What the second pass generates for a hit is known.
LEMMA KnownRecords ==
    ASSUME TruthInv, NEW q \in Question, ~Hangs(q), ~Misses(q)
    PROVE  RecordsFor(q) \subseteq Known
<1> DEFINE walk == Chain(cname, q.name)
           n == EndOf(cname, q.name)
<1>1. CASE ~Chases(q)
  BY <1>1 DEF RecordsFor
<1>2. CASE Chases(q)
  <2>1. ~Endless(cname, q.name) /\ cname \in AliasTable /\ q.name \in Names
    BY <1>2 DEF Hangs, TruthInv, TypeOK, Question
  <2>2. walk \in Seq(Names) /\ n \in Names /\ walk \in Chains(cname, q.name)
    BY <2>1, ChainType
  <2>3. generate_cname_response(walk) \subseteq Known
    <3> SUFFICES ASSUME NEW i \in 1..(Len(walk) - 1)
                 PROVE  [type |-> "CNAME", name |-> walk[i], data |-> walk[i + 1]] \in Known
      BY DEF generate_cname_response
    <3>1. Cached(cname, walk[i]) /\ walk[i + 1] = cname[walk[i]].name
      BY <2>2 DEF Chains
    <3>2. walk[i] \in Names
      <4> HIDE DEF walk
      <4>1. i \in 1..Len(walk)
        BY <2>2
      <4>2. QED
        BY <2>2, <4>1
    <3>3. QED
      BY <3>1, <3>2 DEF TruthInv, KnownAliases
  <2> HIDE DEF walk, n
  <2>4. CASE q.type = "A"
    <3>1. Cached(ipv4, n)
      BY <2>4 DEF Misses, n
    <3>2. generate_ipv4_response(n) \subseteq Known
      BY <2>2, <3>1 DEF generate_ipv4_response, TruthInv, KnownAddresses
    <3>3. QED
      BY <2>3, <2>4, <3>2, <1>2 DEF RecordsFor, walk, n
  <2>5. CASE q.type = "AAAA"
    <3>1. Cached(ipv6, n)
      BY <2>5 DEF Misses, n
    <3>2. generate_ipv6_response(n) \subseteq Known
      BY <2>2, <3>1 DEF generate_ipv6_response, TruthInv, KnownAddresses
    <3>3. QED
      BY <2>3, <2>5, <3>2, <1>2 DEF RecordsFor, walk, n
  <2>6. CASE q.type = "CNAME"
    BY <2>3, <2>6, <1>2 DEF RecordsFor, walk
  <2>7. QED
    BY <1>2, <2>4, <2>5, <2>6 DEF Chases, Question, QTypes
<1>3. QED
  BY <1>1, <1>2

LEMMA SendKnown ==
    ASSUME NEW waiting, NEW due, NEW f, NEW rcode, NEW answers \in SUBSET Known,
           send_response(waiting, due, f, rcode, answers)
    PROVE  ServedTruthful'
BY DEF send_response, ServedTruthful, Known
LEMMA TruthStep == OneOwner /\ TruthInv /\ [Next]_vars => TruthInv'
<1> SUFFICES ASSUME OneOwner, TruthInv, [Next]_vars
             PROVE  /\ KnownAddresses("A", ipv4') /\ KnownAddresses("AAAA", ipv6')
                    /\ KnownAliases(cname')
                    /\ \A r \in fromUpstream' : \E z \in Zones, qs \in QuerySeqs : r.answer = z[qs]
                    /\ ServedTruthful'
  BY TypeStep DEF TruthInv, KnownAddresses, KnownAliases
<1>1. TypeOK
  BY DEF TruthInv
<1>2. ASSUME NEW c \in Clients, NEW f \in Feature, bind_socket_read(c, f)
      PROVE  KnownAddresses("A", ipv4') /\ ServedTruthful'
  <2> DEFINE qs == f.queries
             waiting == [clients EXCEPT ![f] = c]
             due == [owed EXCEPT ![c][f] = @ + 1]
  <2>1. qs \in QuerySeqs
    BY DEF Feature
  <2>2. ipv4' = Touched(qs)
    BY <1>2 DEF bind_socket_read
  <2>3. \/ reply' = NULL
        \/ send_response(waiting, due, f, NXDOMAIN, {})
        \/ /\ ~PassHangs(qs) /\ ~PassMisses(qs)
           /\ send_response(waiting, due, f, NOERROR, CachedAnswers(qs))
    BY <1>2 DEF bind_socket_read
  <2> HIDE DEF qs, waiting, due
  <2>4. ASSUME NEW n \in Names, Cached(ipv4', n)
        PROVE  Cached(ipv4, n) /\ ipv4'[n].node = ipv4[n].node
    <3>1. CASE n \in LookedUp(qs)
      <4>1. ipv4[n] \in Entry(IPv4) /\ Cached(ipv4, n)
        BY <1>1, <2>1, <3>1, LookedUpCached
      <4>2. ipv4'[n] = [ipv4[n] EXCEPT !.manual = ZeroFirst(ipv4[n])]
        BY <2>2, <3>1 DEF Touched
      <4>3. QED
        BY <4>1, <4>2 DEF Entry
    <3>2. CASE n \notin LookedUp(qs)
      BY <2>2, <2>4, <3>2 DEF Touched, Cached
    <3>3. QED
      BY <3>1, <3>2
  <2>5. KnownAddresses("A", ipv4')
    BY <2>4 DEF TruthInv, KnownAddresses
  <2>6. ASSUME ~PassHangs(qs), ~PassMisses(qs)
        PROVE  CachedAnswers(qs) \subseteq Known
    BY <2>1, <2>6, AllHit, QuestionType, KnownRecords DEF CachedAnswers
  <2>7. ServedTruthful'
    <3>1. CASE reply' = NULL
      BY <3>1 DEF ServedTruthful
    <3>2. CASE send_response(waiting, due, f, NXDOMAIN, {})
      BY <3>2, SendKnown
    <3>3. CASE /\ ~PassHangs(qs) /\ ~PassMisses(qs)
               /\ send_response(waiting, due, f, NOERROR, CachedAnswers(qs))
      BY <2>6, <3>3, SendKnown
    <3>4. QED
      BY <2>3, <3>1, <3>2, <3>3
  <2>8. QED
    BY <2>5, <2>7
<1>3. ASSUME NEW r \in fromUpstream, NEW duplicate \in BOOLEAN, query_socket_read(r, duplicate)
      PROVE  /\ KnownAddresses("A", ipv4') /\ KnownAddresses("AAAA", ipv6')
             /\ KnownAliases(cname') /\ ServedTruthful'
  <2>1. PICK z \in Zones, qs \in QuerySeqs : r.answer = z[qs]
    BY DEF TruthInv
  <2> DEFINE ans == r.answer
  <2>2. ans \in Answer /\ AnswerRecords(ans) \subseteq Known
    BY <2>1, AnnouncedAnswer
  <2>3. /\ ipv4' = Learn4(ans.a) /\ ipv6' = Learn6(ans.aaaa)
        /\ cname' = cname_cache_puts(cname, ans.cname, TTL, now)
        /\ send_response(clients, owed, r.feature, ans.rcode, AnswerRecords(ans))
    BY <1>3 DEF query_socket_read
  <2>4. /\ \A i, j \in DOMAIN ans.a : ans.a[i].name = ans.a[j].name
        /\ \A i, j \in DOMAIN ans.aaaa : ans.aaaa[i].name = ans.aaaa[j].name
    BY <2>1 DEF OneOwner
  <2> HIDE DEF ans
  <2>5. /\ ans.a \in Seq([type : {"A"}, name : Names, data : IPv4])
        /\ ans.aaaa \in Seq([type : {"AAAA"}, name : Names, data : IPv6])
        /\ ans.cname \in Seq(CnameRR)
    BY <2>2 DEF Answer, ARR, AaaaRR
  <2>6. /\ \A i \in DOMAIN ans.a : ans.a[i] \in Known
        /\ \A i \in DOMAIN ans.aaaa : ans.aaaa[i] \in Known
        /\ \A i \in DOMAIN ans.cname : ans.cname[i] \in Known
    BY <2>2 DEF AnswerRecords
  <2>7. KnownAddresses("A", ipv4')
    <3>1. CASE ans.a = <<>>
      BY <2>3, <3>1 DEF Learn4, TruthInv
    <3>2. CASE ans.a # <<>>
      <4>1. ipv4' = ipv4_cache_put(ipv4, ans.a[Len(ans.a)].name, Data(ans.a), TTL, now)
        BY <2>3, <3>2 DEF Learn4
      <4>2. ipv4 \in AddressTable(IPv4) /\ KnownAddresses("A", ipv4)
        BY DEF TruthInv, TypeOK
      <4>3. QED
        BY <2>4, <2>5, <2>6, <3>2, <4>1, <4>2, KnownPut
    <3>3. QED
      BY <3>1, <3>2
  <2>8. KnownAddresses("AAAA", ipv6')
    <3>1. CASE ans.aaaa = <<>>
      BY <2>3, <3>1 DEF Learn6, TruthInv
    <3>2. CASE ans.aaaa # <<>>
      <4>1. ipv6' = ipv6_cache_put(ipv6, ans.aaaa[Len(ans.aaaa)].name, Data(ans.aaaa), TTL, now)
        BY <2>3, <3>2 DEF Learn6
      <4>2. ipv6 \in AddressTable(IPv6) /\ KnownAddresses("AAAA", ipv6)
        BY DEF TruthInv, TypeOK
      <4>3. QED
        BY <2>4, <2>5, <2>6, <3>2, <4>1, <4>2, KnownPut
    <3>3. QED
      BY <3>1, <3>2
  <2>9. ASSUME NEW n \in Names, Cached(cname', n)
        PROVE  [type |-> "CNAME", name |-> n, data |-> cname'[n].name] \in Known
    <3> DEFINE rrs == ans.cname
               Of(i) == rrs[i].name = n /\ \A j \in DOMAIN rrs : rrs[j].name = n => j <= i
               last == CHOOSE i \in DOMAIN rrs : Of(i)
    <3>1. CASE \A i \in DOMAIN rrs : rrs[i].name # n
      <4>1. cname'[n] = cname[n]
        BY <2>3, <3>1 DEF cname_cache_puts
      <4>2. QED
        BY <2>9, <4>1 DEF TruthInv, KnownAliases, Cached
    <3>2. CASE \E i \in DOMAIN rrs : rrs[i].name = n
      <4>1. \E i \in DOMAIN rrs : Of(i)
        <5>1. Len(rrs) \in Nat /\ DOMAIN rrs = 1..Len(rrs)
          BY <2>5
        <5>2. QED
          BY <3>2, <5>1, LastIndex
      <4>2. last \in DOMAIN rrs /\ Of(last)
        BY <4>1, Zenon
      <4>3. cname'[n].name = rrs[last].data
        BY <2>3, <3>2 DEF cname_cache_puts
      <4> HIDE DEF last
      <4>4. rrs[last] \in CnameRR
        BY <2>5, <4>2
      <4>5. rrs[last] = [type |-> "CNAME", name |-> n, data |-> rrs[last].data]
        BY <4>2, <4>4 DEF CnameRR
      <4>6. QED
        BY <2>6, <4>2, <4>3, <4>5
    <3>3. QED
      BY <3>1, <3>2
  <2>10. KnownAliases(cname')
    BY <2>9 DEF KnownAliases
  <2>11. ServedTruthful'
    BY <2>2, <2>3, SendKnown
  <2>12. QED
    BY <2>7, <2>8, <2>10, <2>11
<1>4. CASE clear_callback
  <2>1. \A n \in Names : Cached(ipv4', n) => ipv4'[n] = ipv4[n]
    BY <1>4 DEF clear_callback, ipv4_cache_clear, Cached
  <2>2. \A n \in Names : Cached(ipv6', n) => ipv6'[n] = ipv6[n]
    BY <1>4 DEF clear_callback, ipv6_cache_clear, Cached
  <2>3. reply' = NULL /\ cname' = cname /\ fromUpstream' = fromUpstream
    BY <1>4 DEF clear_callback, cname_cache_clear, network
  <2>4. KnownAddresses("A", ipv4') /\ KnownAddresses("AAAA", ipv6')
    BY <2>1, <2>2 DEF TruthInv, KnownAddresses, Cached
  <2>5. QED
    BY <2>3, <2>4 DEF TruthInv, ServedTruthful
<1>5. ASSUME NEW f \in toUpstream, NEW duplicate \in BOOLEAN, UpstreamAnswer(f, duplicate)
      PROVE  \A r \in fromUpstream' : \E z \in Zones, qs \in QuerySeqs : r.answer = z[qs]
  <2> DEFINE response == [feature |-> f, answer |-> zone[f.queries]]
  <2>1. f.queries \in QuerySeqs /\ zone \in Zones
    BY <1>1 DEF TypeOK, Feature
  <2>2. fromUpstream' = fromUpstream \cup {response}
    BY <1>5 DEF UpstreamAnswer
  <2>3. response.answer = zone[f.queries]
    OBVIOUS
  <2> HIDE DEF response
  <2>4. QED
    BY <2>1, <2>2, <2>3 DEF TruthInv
<1>6. \/ UNCHANGED <<ipv4, ipv6, cname, fromUpstream>> /\ (reply' = NULL \/ reply' = reply)
      \/ /\ \E c \in Clients, f \in Feature : bind_socket_read(c, f)
         /\ UNCHANGED <<ipv6, cname, fromUpstream>>
      \/ /\ \E r \in fromUpstream, duplicate \in BOOLEAN : query_socket_read(r, duplicate)
         /\ fromUpstream' \subseteq fromUpstream
      \/ clear_callback
      \/ /\ \E f \in toUpstream, duplicate \in BOOLEAN : UpstreamAnswer(f, duplicate)
         /\ UNCHANGED <<ipv4, ipv6, cname>> /\ reply' = NULL
      \/ Lose /\ UNCHANGED <<ipv4, ipv6, cname>> /\ fromUpstream' \subseteq fromUpstream
  BY DEF Next, vars, server, network, bind_socket_read, query_socket_read, sigint_callback,
     Tick, UpstreamAnswer, ZoneChange, Lose, Stopped
<1>7. CASE UNCHANGED <<ipv4, ipv6, cname, fromUpstream>> /\ (reply' = NULL \/ reply' = reply)
  BY <1>7 DEF TruthInv, ServedTruthful
<1>8. CASE Lose /\ UNCHANGED <<ipv4, ipv6, cname>> /\ fromUpstream' \subseteq fromUpstream
  BY <1>8 DEF TruthInv, ServedTruthful, Lose
<1>9. CASE /\ \E c \in Clients, f \in Feature : bind_socket_read(c, f)
           /\ UNCHANGED <<ipv6, cname, fromUpstream>>
  BY <1>2, <1>9 DEF TruthInv
<1>10. CASE /\ \E r \in fromUpstream, duplicate \in BOOLEAN : query_socket_read(r, duplicate)
            /\ fromUpstream' \subseteq fromUpstream
  BY <1>3, <1>10 DEF TruthInv
<1>11. CASE /\ \E f \in toUpstream, duplicate \in BOOLEAN : UpstreamAnswer(f, duplicate)
            /\ UNCHANGED <<ipv4, ipv6, cname>> /\ reply' = NULL
  BY <1>5, <1>11 DEF TruthInv, ServedTruthful
<1>12. QED
  BY <1>4, <1>6, <1>7, <1>8, <1>9, <1>10, <1>11

\* As long as the A records of an answer have one owner, and so have its AAAA
\* records, nothing reaches a client under a name it does not belong to.
THEOREM ServedIsTrue == ASSUME OneOwner PROVE Spec => []ServedTruthful
<1>1. TruthInv => ServedTruthful
  BY DEF TruthInv
<1>2. TruthInv /\ [Next]_vars => TruthInv'
  BY TruthStep
<1>3. QED
  BY <1>1, <1>2, TruthInit, PTL DEF Spec
=============================================================================
