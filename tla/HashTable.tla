------------------------------ MODULE HashTable ------------------------------
(***************************************************************************)
(* hash_table.c: an array of buckets, each a chain whose first node lies   *)
(* in the array itself and whose other nodes are allocated one by one.     *)
(* A chain is the sequence of its cells; a head without a name is the      *)
(* empty chain.  A cell can be linked although its node was freed: an      *)
(* operation that reads one goes on as if nothing had happened, or ends in *)
(* undefined behaviour, and freeing it again always does.                  *)
(***************************************************************************)
EXTENDS Integers, Sequences, FiniteSets, SequencesExt

CONSTANTS
    Keys,            \* names
    Data,            \* what the callers store
    NULL,
    Hash,            \* string_hash_code(name) & INT_MAX
    InitialCapacity, \* 8 in hash_table_new
    MaxCount         \* bound: nothing new is put into a table that counted so far

ASSUME HashTableAssumption ==
    /\ IsFiniteSet(Keys)
    /\ Hash \in [Keys -> Nat]
    /\ InitialCapacity \in Nat \ {0, 1}
    /\ MaxCount \in Nat
    /\ NULL \notin Keys \cup Data

Cell == [name : Keys, data : Data, freed : BOOLEAN]

VARIABLES
    capacity,   \* number of buckets
    count,      \* table->count
    table,      \* the chain of every bucket
    status,     \* "open", "closed" by hash_table_free, or "undefined"
    damaged,    \* a freed cell was linked at some time
    doomed      \* the names that a clear has collected and not yet removed

vars == <<capacity, count, table, status, damaged, doomed>>

Threshold(cap) == (3 * cap) \div 4

Index(k, cap) == Hash[k] % cap

TypeOK ==
    /\ capacity \in Nat \ {0}
    /\ count \in Nat
    /\ table \in [0..(capacity - 1) -> Seq(Cell)]
    /\ status \in {"open", "closed", "undefined"}
    /\ damaged \in BOOLEAN
    /\ doomed \in Seq(Keys)

hash_table_new ==
    /\ capacity = InitialCapacity
    /\ count = 0
    /\ table = [b \in 0..(InitialCapacity - 1) |-> <<>>]
    /\ status = "open"
    /\ damaged = FALSE
    /\ doomed = <<>>

\* A clear goes through with nothing else in between.
Ready == status = "open" /\ doomed = <<>>

-----------------------------------------------------------------------------
(* Walking a chain *)

Bucket(k) == table[Index(k, capacity)]

Positions(k) == {i \in DOMAIN Bucket(k) : Bucket(k)[i].name = k}

Present(k) == Positions(k) # {}

\* Where the walk for k finds it: the first cell with that name.
Position(k) == CHOOSE i \in Positions(k) : \A j \in Positions(k) : i <= j

\* The cells the walk for k goes over.
Walked(k) == IF Present(k) THEN 1..Position(k) ELSE DOMAIN Bucket(k)

WalksFreed(k) == \E i \in Walked(k) : Bucket(k)[i].freed

hash_table_get(k) == IF Present(k) THEN Bucket(k)[Position(k)].data ELSE NULL

\* All cells, bucket by bucket and in chain order.
CellsOf(tab, cap) ==
    LET cells[b \in 0..cap] == IF b = 0 THEN <<>> ELSE cells[b - 1] \o tab[b - 1]
    IN  cells[cap]

HasFreed(tab) == \E b \in DOMAIN tab : \E i \in DOMAIN tab[b] : tab[b][i].freed

\* What reading a freed node may lead to, and freeing it again always does.
Undefined ==
    /\ status' = "undefined"
    /\ UNCHANGED <<capacity, count, table, damaged, doomed>>

\* The caller only looks.
get(k) ==
    /\ Ready
    /\ \/ UNCHANGED vars
       \/ WalksFreed(k) /\ Undefined

-----------------------------------------------------------------------------
(* hash_table_put, add_node and resize *)

New(k, d) == [name |-> k, data |-> d, freed |-> FALSE]

add_node(tab, cap, k, d) == [tab EXCEPT ![Index(k, cap)] = Append(@, New(k, d))]

\* Mutant: the chains stay at the index they had.
RehashedInPlace(tab, cap, newCap) ==
    [b \in 0..(newCap - 1) |-> IF b < cap THEN tab[b] ELSE <<>>]

\* Every cell is added to the new array, which is empty at first.
Rehashed(tab, cap, newCap) ==
    LET cells == CellsOf(tab, cap)
        moved[i \in 0..Len(cells)] ==
            IF i = 0 THEN [b \in 0..(newCap - 1) |-> <<>>]
            ELSE add_node(moved[i - 1], newCap, cells[i].name, cells[i].data)
    IN  moved[Len(cells)]

\* Mutant: the capacity stays what it was.
resize_capacity(tab, newCount) ==
    /\ table' = Rehashed(tab, capacity, 2 * capacity + 1)
    /\ count' = newCount + Len(CellsOf(tab, capacity))
    /\ UNCHANGED capacity

\* Mutant: the count starts again from nothing.
resize_reset(tab, newCount) ==
    /\ capacity' = 2 * capacity + 1
    /\ table' = Rehashed(tab, capacity, capacity')
    /\ count' = 0

\* add_node counts the cells it moves once more: count is never reset, and
\* never lowered by a removal.
resize(tab, newCount) ==
    /\ capacity' = 2 * capacity + 1
    /\ table' = Rehashed(tab, capacity, capacity')
    /\ count' = newCount + Len(CellsOf(tab, capacity))

\* Adds a cell, and moves to a larger array, which frees the nodes of the old
\* one, when there are too many.
Grow(k, d) ==
    LET added == add_node(table, capacity, k, d) IN
    /\ count < MaxCount
    /\ IF count + 1 <= Threshold(capacity)
       THEN table' = added /\ count' = count + 1 /\ UNCHANGED <<capacity, status, damaged, doomed>>
       ELSE IF HasFreed(added) THEN Undefined
       ELSE resize(added, count + 1) /\ UNCHANGED <<status, damaged, doomed>>

\* Mutant: no look for an entry of that name.
hash_table_put_always(k, d) == Ready /\ Grow(k, d)

hash_table_put(k, d) ==
    /\ Ready
    /\ \/ /\ Present(k)
          /\ table' = [table EXCEPT ![Index(k, capacity)][Position(k)].data = d]
          /\ UNCHANGED <<capacity, count, status, damaged, doomed>>
       \/ ~Present(k) /\ Grow(k, d)
       \/ WalksFreed(k) /\ Undefined

-----------------------------------------------------------------------------
(* hash_table_remove and its callers *)

\* Mutant: the node that is freed is the one copied into the head.
WithoutHead_copy(chain) ==
    [i \in 1..(Len(chain) - 1) |-> [chain[i + 1] EXCEPT !.freed = IF i = 1 THEN TRUE ELSE @]]

\* The head takes the place of its successor, and the node freed is the one
\* after that, which stays linked.
WithoutHead(chain) ==
    [i \in 1..(Len(chain) - 1) |->
        [chain[i + 1] EXCEPT !.freed = IF i = 1 THEN FALSE
                                       ELSE IF i = 2 THEN TRUE ELSE @]]

\* Bucket b is left with that chain.
Unlink(b, chain) ==
    /\ table' = [table EXCEPT ![b] = chain]
    /\ damaged' = (damaged \/ HasFreed(table'))
    /\ UNCHANGED <<capacity, count, status>>

\* Mutant: the node before the one removed becomes the last of its chain.
hash_table_remove_cut(k) ==
    LET b == Index(k, capacity) IN
    IF Present(k)
    THEN Unlink(b, IF Position(k) = 1 THEN WithoutHead(table[b])
                                      ELSE SubSeq(table[b], 1, Position(k) - 1))
    ELSE IF table[b] = <<>> THEN UNCHANGED <<capacity, count, table, status, damaged>>
    ELSE status' = "undefined" /\ UNCHANGED <<capacity, count, table, damaged>>

\* Without the name the walk goes past the end of a chain that is not empty.
hash_table_remove(k) ==
    LET b == Index(k, capacity)
        chain == table[b]
        i == Position(k)
        freesAgain == IF i = 1 THEN Len(chain) >= 3 /\ chain[3].freed ELSE chain[i].freed
        readsFreed == WalksFreed(k) \/ (i = 1 /\ Len(chain) >= 2 /\ chain[2].freed)
        undefined == status' = "undefined" /\ UNCHANGED <<capacity, count, table, damaged>>
    IN
    \/ /\ Present(k) /\ ~freesAgain
       /\ Unlink(b, IF i = 1 THEN WithoutHead(chain) ELSE RemoveAt(chain, i))
    \/ /\ Present(k) /\ (freesAgain \/ readsFreed)
       /\ undefined
    \/ /\ ~Present(k) /\ chain = <<>>
       /\ UNCHANGED <<capacity, count, table, status, damaged>>
    \/ /\ ~Present(k) /\ (chain # <<>> \/ WalksFreed(k))
       /\ undefined

\* send_response removes the name it has just found.
remove(k) ==
    /\ Ready
    /\ Present(k)
    /\ hash_table_remove(k)
    /\ UNCHANGED doomed

\* ipv4_cache_clear and ipv6_cache_clear walk over all cells, and collect the
\* names of those that expired: any of them.
Collected(expired) ==
    LET cells == CellsOf(table, capacity)
        names[i \in 0..Len(cells)] ==
            IF i = 0 THEN <<>>
            ELSE IF cells[i].name \in expired THEN Append(names[i - 1], cells[i].name)
            ELSE names[i - 1]
    IN  names[Len(cells)]

Collect(expired) ==
    /\ Ready
    /\ \/ /\ doomed' = Collected(expired)
          /\ UNCHANGED <<capacity, count, table, status, damaged>>
       \/ HasFreed(table) /\ Undefined

\* Then they remove one after the other.
RemoveDoomed ==
    /\ status = "open"
    /\ doomed # <<>>
    /\ hash_table_remove(Head(doomed))
    /\ doomed' = Tail(doomed)

hash_table_free ==
    /\ Ready
    /\ IF HasFreed(table) THEN Undefined
       ELSE /\ status' = "closed"
            /\ UNCHANGED <<capacity, count, table, damaged, doomed>>

Over == status # "open" /\ UNCHANGED vars

Next ==
    \/ \E k \in Keys, d \in Data : hash_table_put(k, d)
    \/ \E k \in Keys : remove(k)
    \/ \E expired \in SUBSET Keys : Collect(expired)
    \/ RemoveDoomed
    \/ \E k \in Keys : get(k)
    \/ hash_table_free
    \/ Over

Spec == hash_table_new /\ [][Next]_vars

-----------------------------------------------------------------------------
(* Properties *)

\* A name has at most one cell, in the bucket where a lookup will search it.
Placed(tab, cap) ==
    \A b, c \in DOMAIN tab : \A i \in DOMAIN tab[b], j \in DOMAIN tab[c] :
        /\ Index(tab[b][i].name, cap) = b
        /\ tab[b][i].name = tab[c][j].name => <<b, i>> = <<c, j>>

\* So it stays however often the table was resized, and whatever was removed.
WellPlaced == ~damaged => Placed(table, capacity)

\* count errs only upwards, and the load factor is kept: ipv4_cache_clear and
\* ipv6_cache_clear collect the names of expired cells in an array of count
\* elements, which they never overrun.
CountCovers ==
    LET live == Len(CellsOf(table, capacity))
    IN  live <= count /\ live <= Threshold(capacity)

\* A clear finds every name it has collected: removing one moves others within
\* their chain, but loses none, so no walk runs off the end of a chain.
RemovalFinds ==
    ~damaged =>
        \A i, j \in DOMAIN doomed :
            Present(doomed[i]) /\ (doomed[i] = doomed[j] => i = j)

\* No walk off the end of a chain, no freed node read or freed again, before a
\* removal has left one linked.
DefinedUntilDamaged == status = "undefined" => damaged

\* To its callers the table is a dictionary until a removal damages it.
Promise == INSTANCE Dictionary WITH dict <- [k \in Keys |-> hash_table_get(k)]
ImplementsDict == Promise!Spec

Removes(k) == remove(k) \/ (RemoveDoomed /\ Head(doomed) = k)

\* hash_table.h: hash_table_remove removes one datum from the table. Every
\* other one stays, and stays in live memory.
RemovesOne ==
    [][\A k, j \in Keys :
        Removes(k) /\ j # k =>
            /\ hash_table_get(j)' = hash_table_get(j)
            /\ ~WalksFreed(j)']_vars

\* The head of a chain of three or more is removed.
RemovesHeadOfThree ==
    \E k \in Keys : Removes(k) /\ Position(k) = 1 /\ Len(Bucket(k)) >= 3

\* Nothing but that damages a table: not a removal further down a chain, of the
\* head of a shorter one, or of one name after the other in a clear, and not the
\* move to a larger array.
OnlyHeadsDamage == [][~damaged /\ damaged' => RemovesHeadOfThree]_vars
=============================================================================
