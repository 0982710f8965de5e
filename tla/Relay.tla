-------------------------------- MODULE Relay --------------------------------
(***************************************************************************)
(* The DNS relay: clients, the server (main.c, socket.c) with its pending  *)
(* table and its three caches, the network on both sides, and the upstream *)
(* name server.  The server is one libuv loop, so each callback is one     *)
(* action; what interleaves is the callbacks, the clock, the datagrams in  *)
(* flight and the changes the owners of the names make upstream.           *)
(***************************************************************************)
EXTENDS Caches

CONSTANTS
    Clients,    \* client socket addresses
    Ids,        \* values of the ID field
    IdsOf,      \* the ids each client may use, [Clients -> SUBSET Ids]
    QuerySeqs,  \* question sections in use, a set of sequences of questions
    Zones,      \* what upstream may answer, a set of [QuerySeqs -> Answer]
    Config,     \* the ipv4 configuration file, [Names -> IPv4 \cup {NULL}]
    LastLine,   \* the name on its last line if that has no newline, or NULL
    TTL,        \* lifetime the relay gives every learned record (120 s)
    ConfigTTL,  \* lifetime of a configured record (1 s)
    Period,     \* of the clear timer (120 s)
    MaxLate,    \* how much later than due the timer fires at most
    MaxTime,    \* bound: the clock stops here
    MaxOwed,    \* bound: unanswered datagrams of one client with one feature
    MaxInFlight,\* bound: clients are quiet while this much is in flight upstream
    Lossy       \* whether the network may lose datagrams

QTypes == {"A", "CNAME", "AAAA", "OTHER"}
Question == [name : Names, type : QTypes]

CnameRR == [type : {"CNAME"}, name : Names, data : Names]
ARR     == [type : {"A"},     name : Names, data : IPv4]
AaaaRR  == [type : {"AAAA"},  name : Names, data : IPv6]
RR      == CnameRR \cup ARR \cup AaaaRR

Rcode == 0..15
NOERROR  == 0
NXDOMAIN == 3

\* The answer section by type, each type in message order. The relay handles
\* every type on its own and skips the types not listed here.
Answer == [rcode : Rcode, cname : Seq(CnameRR), a : Seq(ARR), aaaa : Seq(AaaaRR)]

\* What the relay identifies a request by: the id and the questions.
Feature  == [id : Ids, queries : QuerySeqs]
Response == [feature : Feature, answer : Answer]
Reply    == [to : Clients, feature : Feature, rcode : Rcode, answers : SUBSET RR]

ASSUME RelayAssumption ==
    /\ QuerySeqs \subseteq Seq(Question)
    /\ Zones \subseteq [QuerySeqs -> Answer]
    /\ Zones # {}
    /\ IdsOf \in [Clients -> SUBSET Ids]
    /\ Config \in [Names -> IPv4 \cup {NULL}]
    /\ LastLine \in Names \cup {NULL}
    /\ TTL \in Nat /\ ConfigTTL \in Nat
    /\ MaxTime \in Nat /\ MaxOwed \in Nat /\ MaxInFlight \in Nat
    /\ Period \in Nat \ {0} /\ MaxLate \in Nat
    /\ ConfigTTL <= TTL
    /\ Lossy \in BOOLEAN
    /\ NULL \notin Clients
    /\ NULL \notin Reply

VARIABLES
    status,       \* "running", "spinning" in a callback forever, or "exited"
    clients,      \* clients_hash_table: the client waiting under a feature
    ipv4,         \* ipv4_table
    ipv6,         \* ipv6_table
    cname,        \* cname_table
    now,          \* time(NULL)
    nextClear,    \* when the clear timer is due
    toUpstream,   \* queries in flight to the upstream server, as it reads them
    fromUpstream, \* its responses in flight
    zone,         \* what upstream answers at present
    reply,        \* the message the last step sent to a client, or NULL
    owed          \* datagrams received less datagrams sent, per client, feature

server   == <<status, clients, ipv4, ipv6, cname, nextClear>>
network  == <<toUpstream, fromUpstream>>
vars == <<server, now, network, zone, reply, owed>>

TypeOK ==
    /\ status \in {"running", "spinning", "exited"}
    /\ clients \in [Feature -> Clients \cup {NULL}]
    /\ ipv4 \in AddressTable(IPv4)
    /\ ipv6 \in AddressTable(IPv6)
    /\ cname \in AliasTable
    /\ now \in Nat
    /\ nextClear \in Nat
    /\ toUpstream \subseteq Feature
    /\ fromUpstream \subseteq Response
    /\ zone \in Zones
    /\ reply \in Reply \cup {NULL}
    /\ owed \in [Clients -> [Feature -> Int]]

-----------------------------------------------------------------------------
(* The configuration file. ipv4_read_file leaves the copied address without *)
(* a terminator and ignores uv_ip4_addr's verdict: the bytes that follow may *)
(* complete it to another address or make it invalid, which reads 0.0.0.0.   *)
(* 0.0.0.0 itself stays what it is, unless its last octet is lost: of a line *)
(* that does not end with a newline the last character is cut off as well.   *)

ReadAddress(n) == IF Config[n] = Zero /\ n # LastLine THEN {Zero} ELSE IPv4

ipv4_read_file ==
    {table \in [Names -> {NULL} \cup {Fresh(<<a>>, ConfigTTL, 0) : a \in IPv4}] :
        \A n \in Names :
            IF Config[n] = NULL
            THEN table[n] = NULL
            ELSE \E a \in ReadAddress(n) :
                    table[n] = Fresh(<<a>>, ConfigTTL, 0)}

Init ==
    /\ status = "running"
    /\ clients = [f \in Feature |-> NULL]
    /\ ipv4 \in ipv4_read_file
    /\ ipv6 = EmptyTable
    /\ cname = EmptyTable
    /\ now = 0
    /\ nextClear = Period
    /\ toUpstream = {}
    /\ fromUpstream = {}
    /\ zone \in Zones
    /\ reply = NULL
    /\ owed = [c \in Clients |-> [f \in Feature |-> 0]]

-----------------------------------------------------------------------------
(* bind_socket_read, first pass over the questions *)

Chases(q) == q.type # "OTHER"

Hangs(q) == Chases(q) /\ Endless(cname, q.name)

\* The cache has nothing for q. A type it does not know counts as a hit.
Misses(q) ==
    \/ q.type = "A"     /\ ~Cached(ipv4, EndOf(cname, q.name))
    \/ q.type = "CNAME" /\ ~Cached(cname, q.name)
    \/ q.type = "AAAA"  /\ ~Cached(ipv6, EndOf(cname, q.name))

\* The pass gets as far as question i: it stops at the first miss, and never
\* gets past an endless chase. It does not stop at a banned name.
Reached(qs, i) == \A j \in 1..(i - 1) : ~Hangs(qs[j]) /\ ~Misses(qs[j])

PassHangs(qs)  == \E i \in DOMAIN qs : Reached(qs, i) /\ Hangs(qs[i])
PassMisses(qs) == \E i \in DOMAIN qs : Reached(qs, i) /\ ~Hangs(qs[i]) /\ Misses(qs[i])

\* The address entries the pass looks into.
LookedUp(qs) ==
    {EndOf(cname, qs[i].name) : i \in
        {j \in DOMAIN qs : /\ Reached(qs, j)
                           /\ qs[j].type = "A"
                           /\ ~Hangs(qs[j])
                           /\ ~Misses(qs[j])}}

ZeroFirst(entry) == entry.node[1] = Zero

Banned(qs) == \E n \in LookedUp(qs) : ZeroFirst(ipv4[n])

\* Mutant: a plain assignment of true, without the address test.
TouchedAlways(qs) ==
    [n \in Names |-> IF n \in LookedUp(qs) THEN [ipv4[n] EXCEPT !.manual = TRUE]
                                           ELSE ipv4[n]]

\* The condition that tests for a ban assigns to cache->manual (= for ==).
Touched(qs) ==
    [n \in Names |-> IF n \in LookedUp(qs)
                     THEN [ipv4[n] EXCEPT !.manual = ZeroFirst(ipv4[n])]
                     ELSE ipv4[n]]

-----------------------------------------------------------------------------
(* bind_socket_read, second pass: the records of the reply *)

generate_cname_response(walk) ==
    {[type |-> "CNAME", name |-> walk[i], data |-> walk[i + 1]] : i \in 1..(Len(walk) - 1)}

generate_ipv4_response(n) ==
    {[type |-> "A", name |-> n, data |-> ipv4[n].node[i]] : i \in DOMAIN ipv4[n].node}

generate_ipv6_response(n) ==
    {[type |-> "AAAA", name |-> n, data |-> ipv6[n].node[i]] : i \in DOMAIN ipv6[n].node}

\* Mutant: addresses under the name asked for, not the one the chase ended at.
RecordsForAsked(q) ==
    IF ~Chases(q) THEN {}
    ELSE generate_cname_response(Chain(cname, q.name)) \cup
            IF q.type = "A"
            THEN {[rr EXCEPT !.name = q.name] :
                    rr \in generate_ipv4_response(EndOf(cname, q.name))}
            ELSE {}

RecordsFor(q) ==
    IF ~Chases(q) THEN {}
    ELSE generate_cname_response(Chain(cname, q.name)) \cup
            CASE q.type = "A"     -> generate_ipv4_response(EndOf(cname, q.name))
              [] q.type = "AAAA"  -> generate_ipv6_response(EndOf(cname, q.name))
              [] q.type = "CNAME" -> {}

CachedAnswers(qs) == UNION {RecordsFor(qs[i]) : i \in DOMAIN qs}

-----------------------------------------------------------------------------
(* Sending *)

\* Mutant: the client stays in the pending table.
send_response_kept(waiting, due, f, rcode, answers) ==
    LET c == waiting[f] IN
    /\ clients' = waiting
    /\ IF c = NULL
       THEN reply' = NULL /\ owed' = due
       ELSE /\ reply' = [to |-> c, feature |-> f, rcode |-> rcode, answers |-> answers]
            /\ owed' = [due EXCEPT ![c][f] = @ - 1]

\* Mutant: an answer without records is not sent, the client forgotten all the same.
send_response_nonempty(waiting, due, f, rcode, answers) ==
    LET c == waiting[f] IN
    /\ clients' = [waiting EXCEPT ![f] = NULL]
    /\ IF c = NULL \/ answers = {}
       THEN reply' = NULL /\ owed' = due
       ELSE /\ reply' = [to |-> c, feature |-> f, rcode |-> rcode, answers |-> answers]
            /\ owed' = [due EXCEPT ![c][f] = @ - 1]

\* The datagram goes to whoever waits under its feature, who is then
\* forgotten; without anyone waiting it is dropped. waiting is the pending
\* table, and due the debts, at the time of the call.
send_response(waiting, due, f, rcode, answers) ==
    LET c == waiting[f] IN
    IF c = NULL
    THEN /\ clients' = waiting
         /\ reply' = NULL
         /\ owed' = due
    ELSE /\ clients' = [waiting EXCEPT ![f] = NULL]
         /\ reply' = [to |-> c, feature |-> f, rcode |-> rcode, answers |-> answers]
         /\ owed' = [due EXCEPT ![c][f] = @ - 1]

\* message2bufQuestion writes one question as it should. It puts the next over
\* the class of the one before: what upstream reads then has another feature.
Readable(qs) == Len(qs) <= 1

send_query(f) ==
    toUpstream' = IF Readable(f.queries) THEN toUpstream \cup {f} ELSE toUpstream

\* A datagram of client c with id and questions f.
bind_socket_read(c, f) ==
    LET qs == f.queries
        waiting == [clients EXCEPT ![f] = c]
        due == [owed EXCEPT ![c][f] = @ + 1]
    IN
    /\ status = "running"
    /\ f.id \in IdsOf[c]
    /\ owed[c][f] < MaxOwed
    /\ Cardinality(toUpstream) + Cardinality(fromUpstream) < MaxInFlight
    /\ ipv4' = Touched(qs)
    /\ UNCHANGED <<ipv6, cname, now, nextClear, fromUpstream, zone>>
    /\ \/ /\ PassHangs(qs)
          /\ status' = "spinning"
          /\ clients' = waiting
          /\ owed' = due
          /\ reply' = NULL
          /\ UNCHANGED toUpstream
       \/ /\ PassMisses(qs)
          /\ send_query(f)
          /\ clients' = waiting
          /\ owed' = due
          /\ reply' = NULL
          /\ UNCHANGED status
       \/ /\ ~PassHangs(qs) /\ ~PassMisses(qs)
          /\ IF Banned(qs)
             THEN send_response(waiting, due, f, NXDOMAIN, {})
             ELSE send_response(waiting, due, f, NOERROR, CachedAnswers(qs))
          /\ UNCHANGED <<status, toUpstream>>

-----------------------------------------------------------------------------
(* query_socket_read *)

\* Mutant: the list lacks its last address.
DataButLast(rrs) == [i \in 1..(Len(rrs) - 1) |-> rrs[i].data]

Data(rrs) == [i \in DOMAIN rrs |-> rrs[i].data]

\* All addresses of the answer are filed under the owner of the last one.
Learn4(rrs) ==
    IF rrs = <<>> THEN ipv4
    ELSE ipv4_cache_put(ipv4, rrs[Len(rrs)].name, Data(rrs), TTL, now)

Learn6(rrs) ==
    IF rrs = <<>> THEN ipv6
    ELSE ipv6_cache_put(ipv6, rrs[Len(rrs)].name, Data(rrs), TTL, now)

AnswerRecords(ans) ==
    {ans.cname[i] : i \in DOMAIN ans.cname} \cup
    {ans.a[i] : i \in DOMAIN ans.a} \cup
    {ans.aaaa[i] : i \in DOMAIN ans.aaaa}

\* Mutant: an early return for error responses.
query_socket_read_noerror(r, duplicate) ==
    /\ status = "running"
    /\ r \in fromUpstream
    /\ fromUpstream' = IF duplicate THEN fromUpstream ELSE fromUpstream \ {r}
    /\ IF r.answer.rcode = NOERROR
       THEN /\ cname' = cname_cache_puts(cname, r.answer.cname, TTL, now)
            /\ ipv4' = Learn4(r.answer.a)
            /\ ipv6' = Learn6(r.answer.aaaa)
            /\ send_response(clients, owed, r.feature, NOERROR, AnswerRecords(r.answer))
       ELSE reply' = NULL /\ UNCHANGED <<clients, ipv4, ipv6, cname, owed>>
    /\ UNCHANGED <<status, now, nextClear, toUpstream, zone>>

\* A response arrives, once more if the network keeps a duplicate of it.
query_socket_read(r, duplicate) ==
    /\ status = "running"
    /\ r \in fromUpstream
    /\ fromUpstream' = IF duplicate THEN fromUpstream ELSE fromUpstream \ {r}
    /\ cname' = cname_cache_puts(cname, r.answer.cname, TTL, now)
    /\ ipv4' = Learn4(r.answer.a)
    /\ ipv6' = Learn6(r.answer.aaaa)
    /\ send_response(clients, owed, r.feature, r.answer.rcode, AnswerRecords(r.answer))
    /\ UNCHANGED <<status, now, nextClear, toUpstream, zone>>

-----------------------------------------------------------------------------
(* The timer and the signal *)

\* Mutant: the IPv6 cache is forgotten.
clear_callback_ipv4 ==
    /\ status = "running"
    /\ now >= nextClear
    /\ ipv4' = ipv4_cache_clear(ipv4, now)
    /\ nextClear' = now + Period
    /\ reply' = NULL
    /\ UNCHANGED <<status, clients, ipv6, cname, now, network, zone, owed>>

\* uv__run_timers starts the timer again, from the time it has, before the call.
clear_callback ==
    /\ status = "running"
    /\ now >= nextClear
    /\ ipv4' = ipv4_cache_clear(ipv4, now)
    /\ ipv6' = ipv6_cache_clear(ipv6, now)
    /\ cname' = cname_cache_clear(cname)
    /\ nextClear' = now + Period
    /\ reply' = NULL
    /\ UNCHANGED <<status, clients, now, network, zone, owed>>

\* A timer that is due waits for the callbacks of one round of the loop, and the
\* clock may show another second by then.
Tick ==
    /\ now < nextClear + MaxLate
    /\ now < MaxTime
    /\ now' = now + 1
    /\ reply' = NULL
    /\ UNCHANGED <<server, network, zone, owed>>

sigint_callback ==
    /\ status = "running"
    /\ status' = "exited"
    /\ reply' = NULL
    /\ UNCHANGED <<clients, ipv4, ipv6, cname, nextClear, now, network, zone, owed>>

-----------------------------------------------------------------------------
(* The rest of the world: upstream and the network *)

UpstreamAnswer(f, duplicate) ==
    /\ f \in toUpstream
    /\ toUpstream' = IF duplicate THEN toUpstream ELSE toUpstream \ {f}
    /\ fromUpstream' = fromUpstream \cup {[feature |-> f, answer |-> zone[f.queries]]}
    /\ reply' = NULL
    /\ UNCHANGED <<server, now, zone, owed>>

ZoneChange ==
    /\ zone' \in Zones
    /\ reply' = NULL
    /\ UNCHANGED <<server, now, network, owed>>

Lose ==
    /\ Lossy
    /\ \/ \E f \in toUpstream :
             toUpstream' = toUpstream \ {f} /\ UNCHANGED fromUpstream
       \/ \E r \in fromUpstream :
             fromUpstream' = fromUpstream \ {r} /\ UNCHANGED toUpstream
    /\ reply' = NULL
    /\ UNCHANGED <<server, now, zone, owed>>

Stopped ==
    /\ status # "running"
    /\ reply' = NULL
    /\ UNCHANGED <<server, now, network, zone, owed>>

Next ==
    \/ \E c \in Clients, f \in Feature : bind_socket_read(c, f)
    \/ \E r \in fromUpstream, duplicate \in BOOLEAN : query_socket_read(r, duplicate)
    \/ clear_callback
    \/ sigint_callback
    \/ Tick
    \/ \E f \in toUpstream, duplicate \in BOOLEAN : UpstreamAnswer(f, duplicate)
    \/ ZoneChange
    \/ Lose
    \/ Stopped

Spec == Init /\ [][Next]_vars
-----------------------------------------------------------------------------
(* Safety *)

\* A client is sent a datagram about a feature only in return for one it sent
\* with that feature: retries, duplicated and late responses never make the
\* relay answer twice (send_response forgets whom it answered).
NoUnsolicitedReply == \A c \in Clients, f \in Feature : owed[c][f] >= 0

\* Whoever waits in the pending table is owed an answer: no entry outlives
\* the datagrams it stands for.
WaitingIsOwed == \A f \in Feature : clients[f] # NULL => owed[clients[f]][f] >= 1

\* What the comment of query_socket_read assumes: the A records of an answer
\* have one owner, and so do its AAAA records.
OneOwner ==
    \A z \in Zones, qs \in QuerySeqs :
        /\ \A i, j \in DOMAIN z[qs].a : z[qs].a[i].name = z[qs].a[j].name
        /\ \A i, j \in DOMAIN z[qs].aaaa : z[qs].aaaa[i].name = z[qs].aaaa[j].name

Announced == UNION {AnswerRecords(z[qs]) : z \in Zones, qs \in QuerySeqs}

ConfiguredRecords ==
    UNION {{[type |-> "A", name |-> n, data |-> a] : a \in ReadAddress(n)} :
              n \in {m \in Names : Config[m] # NULL}}

\* Every record sent to a client, relayed or put together from the caches,
\* is one that upstream has under that very owner, or that was read from the
\* configuration file: caching never moves a record to another name.
ServedTruthful ==
    reply # NULL => reply.answers \subseteq Announced \cup ConfiguredRecords

\* An address that is not pinned leaves its cache at the latest one timer
\* period after its lifetime, and what the timer is late by: no address older
\* than that is served.
BoundedStaleness ==
    \A n \in Names :
        /\ Cached(ipv4, n) /\ ~ipv4[n].manual =>
              now <= ipv4[n].timestamp + ipv4[n].ttl + Period + MaxLate
        /\ Cached(ipv6, n) =>
              now <= ipv6[n].timestamp + ipv6[n].ttl + Period + MaxLate

\* Only a ban pins an entry: what the clear and the puts never touch again
\* is always the address 0.0.0.0.
PinnedIsBlocked == \A n \in Names : Manual(ipv4, n) => ZeroFirst(ipv4[n])

\* A ban that was pinned by a question stays, whatever upstream answers and
\* however often the clear runs or the name is looked up.
PinnedForever ==
    [][\A n \in Names : Manual(ipv4, n) => ipv4'[n] = ipv4[n]]_vars

\* A client that waits has its query or an answer to it in flight, as long
\* as the network loses nothing and the query can be read.
NoOrphanedClient ==
    \A f \in Feature :
        clients[f] # NULL /\ Readable(f.queries) /\ status = "running" =>
            f \in toUpstream \/ \E r \in fromUpstream : r.feature = f

\* A client stops waiting only by being sent its answer: nobody takes its
\* place in the pending table.
WaitingClientKept ==
    [][\A f \in Feature :
          clients[f] # NULL /\ clients'[f] # clients[f] =>
              reply' # NULL /\ reply'.to = clients[f] /\ reply'.feature = f]_vars

AliasesOf(z) == UNION {{z[qs].cname[i] : i \in DOMAIN z[qs].cname} : qs \in QuerySeqs}

CachedAliases ==
    {[type |-> "CNAME", name |-> n, data |-> cname[n].name] :
        n \in {m \in Names : Cached(cname, m)}}

\* Some rank falls along all of them: who follows them never comes back.
Acyclic(aliases) ==
    \E rank \in [Names -> 1..Cardinality(Names)] :
        \A rr \in aliases : rank[rr.data] < rank[rr.name]

\* Aliases are never cleared, and the first pass follows those of different times
\* together. It hangs only if they contradict each other: upstream has announced
\* each of them, but never all of them in a zone without a cycle of its own.
SpinsOnlyWhereZonesMeet ==
    status = "spinning" =>
        /\ CachedAliases \subseteq UNION {AliasesOf(z) : z \in Zones}
        /\ \A z \in Zones : CachedAliases \subseteq AliasesOf(z) => ~Acyclic(AliasesOf(z))

\* README: a name configured with the address 0.0.0.0 is blocked, and asking
\* for its address returns NXDOMAIN.
BlockedIsNXDOMAIN ==
    \A n \in Names :
        /\ Config[n] = Zero
        /\ reply # NULL
        /\ reply.feature.queries = <<[name |-> n, type |-> "A"]>>
        => reply.rcode = NXDOMAIN

\* The aliases that a clear of expired ones, which main.c says happens in every
\* period, would have left.
Unexpired ==
    [n \in Names |->
        IF Cached(cname, n) /\ now <= cname[n].timestamp + cname[n].ttl + Period + MaxLate
        THEN cname[n] ELSE NULL]

\* main.c: expired cache entries are done away with every 120 seconds. So an alias
\* that expired longer ago keeps no callback from returning: if one does not, what
\* it goes round is a cycle of aliases that are younger.
ExpiredNeverHang == status = "spinning" => \E n \in Names : Endless(Unexpired, n)

\* The service the clients get, as long as no two of them use the same ids:
\* who waits is only removed from the pending table by an answer that is due.
Clientele == INSTANCE Service WITH
    Requests <- Feature,
    waiting <- {p \in Clients \X Feature : clients[p[2]] = p[1]},
    due <- owed,
    served <- IF reply = NULL THEN NULL ELSE <<reply.to, reply.feature>>,
    up <- status = "running"

ImplementsService == Clientele!Spec

-----------------------------------------------------------------------------
(* Liveness. The callbacks run as long as the loop does; upstream is assumed *)
(* to answer what it receives, and the network to deliver the answers.       *)

Fairness ==
    \A f \in Feature :
        /\ WF_vars(\E duplicate \in BOOLEAN : UpstreamAnswer(f, duplicate))
        /\ WF_vars(\E r \in fromUpstream, duplicate \in BOOLEAN :
                      r.feature = f /\ query_socket_read(r, duplicate))

FairSpec == Spec /\ Fairness

\* While the server runs, a client that waits is eventually sent its answer,
\* unless upstream could not read its query.
EventuallyAnswered ==
    \A f \in Feature, c \in Clients :
        Readable(f.queries) /\ clients[f] = c ~>
            \/ reply # NULL /\ reply.to = c /\ reply.feature = f
            \/ status # "running"
=============================================================================
