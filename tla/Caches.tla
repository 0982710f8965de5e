------------------------------- MODULE Caches -------------------------------
(***************************************************************************)
(* The three record caches (ipv4_cache.c, ipv6_cache.c, cname_cache.c) as  *)
(* total functions from names to an entry or NULL, the entry hash_table_get*)
(* would return.  The operators take a table and return the table the C    *)
(* function leaves behind; the table itself is a variable of Relay.        *)
(* The bucket chains underneath are the subject of HashTable.              *)
(***************************************************************************)
EXTENDS Integers, Sequences, FiniteSets

CONSTANTS
    Names,      \* domain names
    IPv4,       \* IPv4 addresses
    Zero,       \* the address 0.0.0.0, which bans a name
    IPv6,       \* IPv6 addresses
    NULL        \* no entry, no client, no datagram

ASSUME CachesAssumption ==
    /\ IsFiniteSet(Names)
    /\ Zero \in IPv4

-----------------------------------------------------------------------------
(* The entries. node is the linked list of addresses, never empty: a put    *)
(* is made only for a domain that had at least one record.                  *)

Entry(Address) ==
    [node : Seq(Address) \ {<<>>}, ttl : Nat, timestamp : Nat, manual : BOOLEAN]

Alias == [name : Names, ttl : Nat, timestamp : Nat, manual : BOOLEAN]

AddressTable(Address) == [Names -> Entry(Address) \cup {NULL}]
AliasTable == [Names -> Alias \cup {NULL}]

EmptyTable == [n \in Names |-> NULL]

Cached(table, n) == table[n] # NULL

Manual(table, n) == Cached(table, n) /\ table[n].manual

-----------------------------------------------------------------------------
(* Puts. Whatever the caller says, an entry is stored with manual = false.  *)

Fresh(node, ttl, t) ==
    [node |-> node, ttl |-> ttl, timestamp |-> t, manual |-> FALSE]

\* Mutant: as for IPv6, without the test of manual.
ipv4_cache_put_always(table, n, node, ttl, t) ==
    [table EXCEPT ![n] = Fresh(node, ttl, t)]

\* A manual IPv4 entry is left as it is.
ipv4_cache_put(table, n, node, ttl, t) ==
    IF Manual(table, n) THEN table
                        ELSE [table EXCEPT ![n] = Fresh(node, ttl, t)]

ipv6_cache_put(table, n, node, ttl, t) ==
    [table EXCEPT ![n] = Fresh(node, ttl, t)]

\* Mutant: the entry gets the owner's name, not the name it stands for.
cname_cache_puts_owner(table, rrs, ttl, t) ==
    [n \in Names |->
        IF \E i \in DOMAIN rrs : rrs[i].name = n
        THEN [name |-> n, ttl |-> ttl, timestamp |-> t, manual |-> FALSE]
        ELSE table[n]]

\* One cname_cache_put per CNAME record of an answer, in order: the last
\* record of an owner stays.
cname_cache_puts(table, rrs, ttl, t) ==
    [n \in Names |->
        IF \E i \in DOMAIN rrs : rrs[i].name = n
        THEN LET last == CHOOSE i \in DOMAIN rrs :
                            /\ rrs[i].name = n
                            /\ \A j \in DOMAIN rrs : rrs[j].name = n => j <= i
             IN  [name |-> rrs[last].data, ttl |-> ttl, timestamp |-> t,
                  manual |-> FALSE]
        ELSE table[n]]

-----------------------------------------------------------------------------
(* The periodic clear. CNAME entries are never cleared: cname_cache_clear   *)
(* has an empty body.                                                       *)

Expired(entry, t) == entry.timestamp + entry.ttl < t

ipv4_cache_clear(table, t) ==
    [n \in Names |->
        IF Cached(table, n) /\ ~table[n].manual /\ Expired(table[n], t)
        THEN NULL ELSE table[n]]

ipv6_cache_clear(table, t) ==
    [n \in Names |->
        IF Cached(table, n) /\ Expired(table[n], t) THEN NULL ELSE table[n]]

cname_cache_clear(table) == table

-----------------------------------------------------------------------------
(* The CNAME chase, the loop that every question of type A, CNAME or AAAA   *)
(* runs:  while (cname != NULL) { domain = cname->name; cname = get(domain) } *)

\* The walks from d that follow one alias per step and stop at a name without
\* one. There is at most one, and a walk longer than Names has come back to a
\* name it had left and never stops.
Chains(aliases, d) ==
    {walk \in UNION {[1..k -> Names] : k \in 1..Cardinality(Names)} :
        /\ walk[1] = d
        /\ \A i \in 1..(Len(walk) - 1) :
              Cached(aliases, walk[i]) /\ walk[i + 1] = aliases[walk[i]].name
        /\ ~Cached(aliases, walk[Len(walk)])}

\* The loop never leaves a cycle of cached aliases.
Endless(aliases, d) == Chains(aliases, d) = {}

Chain(aliases, d) == CHOOSE walk \in Chains(aliases, d) : TRUE

\* The name whose addresses answer a question about d.
EndOf(aliases, d) == Chain(aliases, d)[Len(Chain(aliases, d))]
=============================================================================
