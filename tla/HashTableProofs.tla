--------------------------- MODULE HashTableProofs ---------------------------
(***************************************************************************)
(* Theorems about HashTable, for every hash function, every set of names   *)
(* and every initial capacity.                                             *)
(***************************************************************************)
EXTENDS HashTable, InductionLemmas, FiniteSetTheorems, SequenceTheorems

-----------------------------------------------------------------------------
(* Tables *)

Table(cap) == [0..(cap - 1) -> Seq(Cell)]

\* The cells of a table, and the names they have.
Contents(tab) == UNION {Range(tab[b]) : b \in DOMAIN tab}
NamesOf(tab) == {cell.name : cell \in Contents(tab)}

\* An index lies within the array.
LEMMA IndexRange ==
    ASSUME NEW k \in Keys, NEW cap \in Nat \ {0}
    PROVE  Index(k, cap) \in 0..(cap - 1)
<1>1. Hash[k] \in Nat
  BY HashTableAssumption
<1>2. QED
  BY <1>1 DEF Index

\* A cell of the table is at some place of some chain.
LEMMA CellPlace ==
    ASSUME NEW cap \in Nat, NEW tab \in Table(cap), NEW cell
    PROVE  /\ cell \in Contents(tab) <=>
                \E b \in 0..(cap - 1) : \E i \in 1..Len(tab[b]) : tab[b][i] = cell
           /\ cell \in Contents(tab) => cell \in Cell
<1>1. DOMAIN tab = 0..(cap - 1)
  BY DEF Table
<1>2. \A b \in 0..(cap - 1) : tab[b] \in Seq(Cell)
  BY DEF Table
<1>3. \A b \in 0..(cap - 1) : Range(tab[b]) = {tab[b][i] : i \in 1..Len(tab[b])}
  BY <1>2 DEF Range
<1>4. \A b \in 0..(cap - 1) : \A i \in 1..Len(tab[b]) : tab[b][i] \in Cell
  BY <1>2
<1>5. QED
  BY <1>1, <1>3, <1>4 DEF Contents

\* What the walk over all cells has gathered in front of each index.
WalksOver(tab, cap, cells) ==
    /\ CellsOf(tab, cap) = cells[cap]
    /\ cells[0] = <<>>
    /\ \A b \in 0..(cap - 1) : cells[b + 1] = cells[b] \o tab[b]

\* The walk over all cells adds one chain after the other.
LEMMA CellsOfUnfolds ==
    ASSUME NEW cap \in Nat, NEW tab
    PROVE  \E cells : WalksOver(tab, cap, cells)
<1> DEFINE IsWalk(n, f) == f = [b \in 0..n |-> IF b = 0 THEN <<>> ELSE f[b - 1] \o tab[b - 1]]
           S == {n \in Nat : \E f : IsWalk(n, f)}
<1>1. 0 \in S
  <2>1. IsWalk(0, [b \in 0..0 |-> <<>>])
    OBVIOUS
  <2>2. QED
    BY <2>1
<1>2. ASSUME NEW n \in Nat, n \in S PROVE n + 1 \in S
  <2>1. PICK f : IsWalk(n, f)
    BY <1>2
  <2> DEFINE g == [b \in 0..(n + 1) |-> IF b = 0 THEN <<>> ELSE f[b - 1] \o tab[b - 1]]
  <2>2. \A b \in 0..n : g[b] = f[b]
    BY <2>1
  <2>3. \A b \in 0..(n + 1) : g[b] = IF b = 0 THEN <<>> ELSE g[b - 1] \o tab[b - 1]
    <3>1. \A b \in 0..(n + 1) : b # 0 => b - 1 \in 0..n
      OBVIOUS
    <3>2. \A b \in 0..(n + 1) : g[b] = IF b = 0 THEN <<>> ELSE f[b - 1] \o tab[b - 1]
      OBVIOUS
    <3> HIDE DEF g
    <3>3. QED
      BY <2>2, <3>1, <3>2
  <2>4. IsWalk(n + 1, g)
    BY <2>3
  <2> HIDE DEF g, IsWalk
  <2>5. \E h : IsWalk(n + 1, h)
    BY <2>4
  <2>6. QED
    BY <2>5
<1> HIDE DEF S
<1>3. cap \in S
  BY <1>1, <1>2, EveryNatural
<1> DEFINE cells == CHOOSE f : IsWalk(cap, f)
<1>4. IsWalk(cap, cells)
  BY <1>3 DEF S
<1>5. CellsOf(tab, cap) = cells[cap]
  BY DEF CellsOf
<1>6. 0 \in 0..cap /\ \A b \in 0..(cap - 1) : b + 1 \in 0..cap /\ b + 1 # 0 /\ b + 1 - 1 = b
  OBVIOUS
<1> HIDE DEF cells
<1>7. cells[0] = << >>
  BY ONLY <1>4, <1>6
<1>8. \A b \in 0..(cap - 1) : cells[b + 1] = cells[b] \o tab[b]
  <2> SUFFICES ASSUME NEW b \in 0..(cap - 1)
               PROVE  cells[b + 1] = cells[b] \o tab[b]
    OBVIOUS
  <2> DEFINE c == b + 1
  <2>1. c \in 0..cap /\ c # 0 /\ c - 1 = b
    BY ONLY <1>6, b \in 0..(cap - 1)
  <2> HIDE DEF c
  <2>2. cells[c] = IF c = 0 THEN << >> ELSE cells[c - 1] \o tab[c - 1]
    BY ONLY <1>4, <2>1
  <2>3. cells[c] = cells[b] \o tab[b]
    BY ONLY <2>1, <2>2
  <2>4. QED
    BY ONLY <2>3 DEF c
<1> HIDE DEF IsWalk
<1>9. WalksOver(tab, cap, cells)
  BY ONLY <1>5, <1>7, <1>8 DEF WalksOver
<1>10. QED
  BY <1>9

\* No two cells of a list have one name.
DistinctNames(list) == \A i, j \in 1..Len(list) : list[i].name = list[j].name => i = j

\* Two lists without a name in common, one after the other.
LEMMA ConcatDistinct ==
    ASSUME NEW p \in Seq(Cell), NEW q \in Seq(Cell), DistinctNames(p), DistinctNames(q),
           \A i \in 1..Len(p), j \in 1..Len(q) : p[i].name # q[j].name
    PROVE  DistinctNames(p \o q)
<1>1. /\ Len(p) \in Nat /\ Len(q) \in Nat /\ Len(p \o q) = Len(p) + Len(q)
      /\ \A i \in 1..(Len(p) + Len(q)) :
            (p \o q)[i] = IF i <= Len(p) THEN p[i] ELSE q[i - Len(p)]
  BY ConcatProperties, LenProperties
<1> SUFFICES ASSUME NEW i \in 1..(Len(p) + Len(q)), NEW j \in 1..(Len(p) + Len(q)),
                    (p \o q)[i].name = (p \o q)[j].name
             PROVE  i = j
  BY <1>1 DEF DistinctNames
<1>2. /\ i <= Len(p) => i \in 1..Len(p) /\ (p \o q)[i] = p[i]
      /\ ~(i <= Len(p)) => i - Len(p) \in 1..Len(q) /\ (p \o q)[i] = q[i - Len(p)]
      /\ j <= Len(p) => j \in 1..Len(p) /\ (p \o q)[j] = p[j]
      /\ ~(j <= Len(p)) => j - Len(p) \in 1..Len(q) /\ (p \o q)[j] = q[j - Len(p)]
  BY <1>1
<1>3. CASE i <= Len(p) /\ j <= Len(p)
  BY <1>2, <1>3 DEF DistinctNames
<1>4. CASE ~(i <= Len(p)) /\ ~(j <= Len(p))
  <2>1. i - Len(p) = j - Len(p)
    BY <1>2, <1>4 DEF DistinctNames
  <2>2. QED
    BY <1>1, <2>1
<1>5. CASE i <= Len(p) /\ ~(j <= Len(p))
  BY <1>2, <1>5
<1>6. CASE ~(i <= Len(p)) /\ j <= Len(p)
  BY <1>2, <1>6
<1>7. QED
  BY <1>3, <1>4, <1>5, <1>6

\* The walk over a table whose names are where they belong meets every cell, and
\* every name once.
LEMMA CellsOfList ==
    ASSUME NEW cap \in Nat, NEW tab \in Table(cap), Placed(tab, cap)
    PROVE  /\ CellsOf(tab, cap) \in Seq(Cell)
           /\ Range(CellsOf(tab, cap)) = Contents(tab)
           /\ DistinctNames(CellsOf(tab, cap))
<1>0. PICK cells : WalksOver(tab, cap, cells)
  BY ONLY cap \in Nat, CellsOfUnfolds
<1>1. /\ CellsOf(tab, cap) = cells[cap]
      /\ cells[0] = <<>>
      /\ \A b \in 0..(cap - 1) : cells[b + 1] = cells[b] \o tab[b]
  BY ONLY <1>0 DEF WalksOver
<1> DEFINE Good(n) == /\ cells[n] \in Seq(Cell)
                      /\ \A cell : cell \in Range(cells[n]) <=>
                            \E b \in 0..(n - 1) : cell \in Range(tab[b])
                      /\ DistinctNames(cells[n])
           S == {n \in Nat : n <= cap => Good(n)}
<1>2. 0 \in S
  <2>1. cells[0] \in Seq(Cell) /\ Len(cells[0]) = 0 /\ Range(cells[0]) = {}
    BY <1>1, EmptySeq DEF Range
  <2>2. QED
    BY <2>1 DEF DistinctNames
<1>3. ASSUME NEW n \in Nat, n \in S PROVE n + 1 \in S
  <2> SUFFICES ASSUME n + 1 <= cap PROVE Good(n + 1)
    OBVIOUS
  <2> DEFINE p == cells[n]
             q == tab[n]
  <2>1. Good(n)
    BY <1>3
  <2>2. n \in 0..(cap - 1)
    OBVIOUS
  <2>3. cells[n + 1] = p \o q
    BY <1>1, <2>2
  <2>4. p \in Seq(Cell) /\ q \in Seq(Cell)
    BY <2>1, <2>2 DEF Table
  <2>5. p \o q \in Seq(Cell) /\ Range(p \o q) = Range(p) \cup Range(q)
    BY <2>4, ConcatProperties, RangeConcatenation
  <2>6. \A cell : cell \in Range(p \o q) <=> \E b \in 0..(n + 1 - 1) : cell \in Range(tab[b])
    BY <2>1, <2>5
  <2>7. DistinctNames(q)
    BY <2>2, <2>4 DEF Placed, DistinctNames, Table
  <2>8. \A i \in 1..Len(p), j \in 1..Len(q) : p[i].name # q[j].name
    <3> SUFFICES ASSUME NEW i \in 1..Len(p), NEW j \in 1..Len(q) PROVE p[i].name # q[j].name
      OBVIOUS
    <3>1. p[i] \in Range(p)
      BY <2>4 DEF Range
    <3>2. PICK b \in 0..(n - 1) : p[i] \in Range(tab[b])
      BY <2>1, <3>1
    <3>3. b \in 0..(cap - 1) /\ b # n
      BY <2>2
    <3>4. PICK k \in DOMAIN tab[b] : p[i] = tab[b][k]
      BY <3>2 DEF Range
    <3>5. j \in DOMAIN tab[n] /\ b \in DOMAIN tab /\ n \in DOMAIN tab
      BY <2>2, <2>4, <3>3 DEF Table
    <3>6. tab[b][k].name = tab[n][j].name => <<b, k>> = <<n, j>>
      BY <3>4, <3>5 DEF Placed
    <3>7. QED
      BY <3>3, <3>4, <3>6
  <2> HIDE DEF p, q
  <2>9. DistinctNames(p \o q)
    BY <2>1, <2>4, <2>7, <2>8, ConcatDistinct DEF p
  <2>10. QED
    BY ONLY <2>3, <2>4, <2>5, <2>6, <2>9
<1> HIDE DEF S
<1>4. cap \in S
  BY <1>2, <1>3, EveryNatural
<1>5. Good(cap)
  BY <1>4 DEF S
<1>6. Range(cells[cap]) = Contents(tab)
  <2>1. DOMAIN tab = 0..(cap - 1)
    BY DEF Table
  <2>2. QED
    BY <1>5, <2>1 DEF Contents
<1>7. QED
  BY <1>1, <1>5, <1>6

\* So the walk is as long as there are names.
LEMMA LiveIsNames ==
    ASSUME NEW cap \in Nat, NEW tab \in Table(cap), Placed(tab, cap)
    PROVE  /\ IsFiniteSet(NamesOf(tab))
           /\ Len(CellsOf(tab, cap)) = Cardinality(NamesOf(tab))
           /\ Len(CellsOf(tab, cap)) \in Nat
<1> DEFINE cells == CellsOf(tab, cap)
           f == [i \in 1..Len(cells) |-> cells[i].name]
<1>1. /\ cells \in Seq(Cell) /\ Range(cells) = Contents(tab) /\ DistinctNames(cells)
      /\ Len(cells) \in Nat /\ DOMAIN cells = 1..Len(cells)
  BY CellsOfList, LenProperties
<1>2. NamesOf(tab) \subseteq Keys
  <2>1. \A cell \in Contents(tab) : cell \in Cell
    BY CellPlace
  <2>2. QED
    BY <2>1 DEF NamesOf, Cell
<1>3. IsFiniteSet(NamesOf(tab))
  BY <1>2, HashTableAssumption, FS_Subset
<1>4. Contents(tab) = {cells[i] : i \in 1..Len(cells)}
  BY <1>1 DEF Range
<1> HIDE DEF cells
<1>5. f \in Bijection(1..Len(cells), NamesOf(tab))
  <2>1. f \in [1..Len(cells) -> NamesOf(tab)]
    BY <1>4 DEF NamesOf
  <2>2. \A i, j \in 1..Len(cells) : f[i] = f[j] => i = j
    BY <1>1 DEF DistinctNames
  <2>3. \A k \in NamesOf(tab) : \E i \in 1..Len(cells) : f[i] = k
    BY <1>4 DEF NamesOf
  <2> HIDE DEF f
  <2>4. QED
    BY <2>1, <2>2, <2>3 DEF Bijection, Injection, Surjection, IsInjective
<1>6. Cardinality(NamesOf(tab)) = Len(cells)
  BY <1>1, <1>5, FS_CountingElements DEF ExistsBijection
<1>7. QED
  BY <1>1, <1>3, <1>6 DEF cells

-----------------------------------------------------------------------------
(* Chains. A table is placed if each of its chains is. *)

PlacedIn(b, chain, cap) ==
    /\ DistinctNames(chain)
    /\ \A i \in 1..Len(chain) : Index(chain[i].name, cap) = b

\* The <<name, datum>> pairs of a chain and of a table.
ChainEntries(chain) == {<<chain[i].name, chain[i].data>> : i \in 1..Len(chain)}
Entries(tab) == UNION {ChainEntries(tab[b]) : b \in DOMAIN tab}

\* A table and the one it becomes: k has the datum d, or is gone.
Stores(tab, new, k, d) == Entries(new) = {e \in Entries(tab) : e[1] # k} \cup {<<k, d>>}
Drops(tab, new, k) == Entries(new) = {e \in Entries(tab) : e[1] # k}

\* One cell of a table, or one of its chains, is replaced.
WithDatum(tab, b, pos, d) == [tab EXCEPT ![b][pos].data = d]
WithChain(tab, b, chain) == [tab EXCEPT ![b] = chain]

\* The chains of a placed table, and back.
LEMMA PlacedChains ==
    ASSUME NEW cap \in Nat, NEW tab \in Table(cap)
    PROVE  Placed(tab, cap) <=> \A b \in 0..(cap - 1) : PlacedIn(b, tab[b], cap)
<1>1. DOMAIN tab = 0..(cap - 1) /\ \A b \in 0..(cap - 1) : DOMAIN tab[b] = 1..Len(tab[b])
  BY DEF Table
<1>2. ASSUME Placed(tab, cap), NEW b \in 0..(cap - 1)
      PROVE  PlacedIn(b, tab[b], cap)
  <2>1. \A i \in 1..Len(tab[b]) : Index(tab[b][i].name, cap) = b
    BY <1>1, <1>2 DEF Placed
  <2>2. \A i, j \in 1..Len(tab[b]) :
           tab[b][i].name = tab[b][j].name => <<b, i>> = <<b, j>>
    <3>1. \A i, j \in DOMAIN tab[b] :
             tab[b][i].name = tab[b][j].name => <<b, i>> = <<b, j>>
      <4>1. b \in DOMAIN tab
        BY ONLY <1>1, b \in 0..(cap - 1)
      <4>2. QED
        BY ONLY <1>2, <4>1 DEF Placed
    <3>2. QED
      BY ONLY <1>1, <3>1, b \in 0..(cap - 1)
  <2>3. DistinctNames(tab[b])
    BY <2>2 DEF DistinctNames
  <2>4. QED
    BY <2>1, <2>3 DEF PlacedIn
<1>3. ASSUME \A b \in 0..(cap - 1) : PlacedIn(b, tab[b], cap)
      PROVE  Placed(tab, cap)
  <2> SUFFICES ASSUME NEW b \in DOMAIN tab, NEW c \in DOMAIN tab,
                      NEW i \in DOMAIN tab[b], NEW j \in DOMAIN tab[c]
               PROVE  /\ Index(tab[b][i].name, cap) = b
                      /\ tab[b][i].name = tab[c][j].name => <<b, i>> = <<c, j>>
    BY DEF Placed
  <2>1. /\ b \in 0..(cap - 1) /\ c \in 0..(cap - 1)
        /\ i \in 1..Len(tab[b]) /\ j \in 1..Len(tab[c])
    BY <1>1
  <2>2. Index(tab[b][i].name, cap) = b /\ Index(tab[c][j].name, cap) = c
    BY <1>3, <2>1 DEF PlacedIn
  <2>3. DistinctNames(tab[b])
    BY <1>3, <2>1 DEF PlacedIn
  <2>4. tab[b][i].name = tab[c][j].name => i = j
    BY <2>1, <2>2, <2>3 DEF DistinctNames
  <2>5. QED
    BY <2>2, <2>4
<1>4. QED
  BY <1>2, <1>3

\* A table has the entries of its chains, and the names of its entries.
LEMMA EntryPlace ==
    ASSUME NEW cap \in Nat, NEW tab \in Table(cap)
    PROVE  /\ \A e : e \in Entries(tab) <=>
                \E b \in 0..(cap - 1) : \E i \in 1..Len(tab[b]) :
                    e = <<tab[b][i].name, tab[b][i].data>>
           /\ Entries(tab) \subseteq Keys \X Data
           /\ NamesOf(tab) = {e[1] : e \in Entries(tab)}
<1>1. DOMAIN tab = 0..(cap - 1) /\ \A b \in 0..(cap - 1) : tab[b] \in Seq(Cell)
  BY DEF Table
<1>2. \A e : e \in Entries(tab) <=>
         \E b \in 0..(cap - 1) : \E i \in 1..Len(tab[b]) : e = <<tab[b][i].name, tab[b][i].data>>
  BY <1>1 DEF Entries, ChainEntries
<1>3. \A b \in 0..(cap - 1) : \A i \in 1..Len(tab[b]) :
         /\ tab[b][i].name \in Keys /\ tab[b][i].data \in Data
         /\ tab[b][i] \in Contents(tab)
  <2>1. \A b \in 0..(cap - 1) : \A i \in 1..Len(tab[b]) : tab[b][i] \in Cell
    BY <1>1
  <2>2. QED
    BY <2>1, CellPlace DEF Cell
<1>4. Entries(tab) \subseteq Keys \X Data
  BY <1>2, <1>3
<1>5. \A k : k \in NamesOf(tab) <=>
         \E b \in 0..(cap - 1) : \E i \in 1..Len(tab[b]) : k = tab[b][i].name
  <2>1. \A cell : cell \in Contents(tab) <=>
           \E b \in 0..(cap - 1) : \E i \in 1..Len(tab[b]) : tab[b][i] = cell
    BY CellPlace
  <2>2. QED
    BY <2>1 DEF NamesOf
<1>6. \A k : k \in {e[1] : e \in Entries(tab)} <=>
         \E b \in 0..(cap - 1) : \E i \in 1..Len(tab[b]) : k = tab[b][i].name
  <2>1. ASSUME NEW k, k \in {e[1] : e \in Entries(tab)}
        PROVE  \E b \in 0..(cap - 1) : \E i \in 1..Len(tab[b]) : k = tab[b][i].name
    <3>1. PICK e \in Entries(tab) : k = e[1]
      BY <2>1
    <3>2. PICK b \in 0..(cap - 1) : \E i \in 1..Len(tab[b]) : e = <<tab[b][i].name, tab[b][i].data>>
      BY <1>2
    <3>3. QED
      BY <3>1, <3>2
  <2>2. ASSUME NEW k, NEW b \in 0..(cap - 1), NEW i \in 1..Len(tab[b]), k = tab[b][i].name
        PROVE  k \in {e[1] : e \in Entries(tab)}
    <3>1. <<tab[b][i].name, tab[b][i].data>> \in Entries(tab)
      BY <1>2
    <3>2. QED
      BY <2>2, <3>1
  <2>3. QED
    BY <2>1, <2>2
<1>7. QED
  BY <1>2, <1>4, <1>5, <1>6

\* One chain of a table is replaced.
LEMMA ReplaceChain ==
    ASSUME NEW cap \in Nat, NEW tab \in Table(cap), Placed(tab, cap),
           NEW b \in 0..(cap - 1), NEW chain \in Seq(Cell), PlacedIn(b, chain, cap),
           NEW new, new = [tab EXCEPT ![b] = chain]
    PROVE  /\ new \in Table(cap)
           /\ Placed(new, cap)
           /\ \A e : e \in Entries(new) <=>
                \/ e \in Entries(tab) /\ Index(e[1], cap) # b
                \/ e \in ChainEntries(chain)
<1>1. new \in Table(cap) /\ \A c \in 0..(cap - 1) : new[c] = IF c = b THEN chain ELSE tab[c]
  BY DEF Table
<1>2. \A c \in 0..(cap - 1) : PlacedIn(c, tab[c], cap)
  BY PlacedChains
<1>3. Placed(new, cap)
  BY <1>1, <1>2, PlacedChains
<1>4. \A e : e \in Entries(new) <=>
         \E c \in 0..(cap - 1) : \E i \in 1..Len(new[c]) : e = <<new[c][i].name, new[c][i].data>>
  BY <1>1, EntryPlace
<1>5. \A e : e \in Entries(tab) <=>
         \E c \in 0..(cap - 1) : \E i \in 1..Len(tab[c]) : e = <<tab[c][i].name, tab[c][i].data>>
  BY EntryPlace
<1>6. \A c \in 0..(cap - 1) : \A i \in 1..Len(tab[c]) : Index(tab[c][i].name, cap) = c
  BY <1>2 DEF PlacedIn
<1>7. ASSUME NEW e
      PROVE  e \in Entries(new) <=>
                \/ e \in Entries(tab) /\ Index(e[1], cap) # b
                \/ e \in ChainEntries(chain)
  <2>1. ASSUME e \in Entries(new)
        PROVE  \/ e \in Entries(tab) /\ Index(e[1], cap) # b
               \/ e \in ChainEntries(chain)
    <3>1. PICK c \in 0..(cap - 1) : \E i \in 1..Len(new[c]) :
                  e = <<new[c][i].name, new[c][i].data>>
      BY <1>4, <2>1
    <3>2. CASE c = b
      BY <1>1, <3>1, <3>2 DEF ChainEntries
    <3>3. CASE c # b
      <4>1. PICK i \in 1..Len(tab[c]) : e = <<tab[c][i].name, tab[c][i].data>>
        BY <1>1, <3>1, <3>3
      <4>2. e \in Entries(tab) /\ e[1] = tab[c][i].name
        BY <1>5, <4>1
      <4>3. Index(e[1], cap) = c
        BY <1>6, <4>2
      <4>4. QED
        BY <3>3, <4>2, <4>3
    <3>4. QED
      BY <3>2, <3>3
  <2>2. ASSUME e \in Entries(tab), Index(e[1], cap) # b
        PROVE  e \in Entries(new)
    <3>1. PICK c \in 0..(cap - 1) : \E i \in 1..Len(tab[c]) :
                  e = <<tab[c][i].name, tab[c][i].data>>
      BY <1>5, <2>2
    <3>2. c # b
      BY <1>6, <2>2, <3>1
    <3>3. QED
      BY <1>1, <1>4, <3>1, <3>2
  <2>3. ASSUME e \in ChainEntries(chain)
        PROVE  e \in Entries(new)
    BY <1>1, <1>4, <2>3 DEF ChainEntries
  <2>4. QED
    BY <2>1, <2>2, <2>3
<1>8. QED
  BY <1>1, <1>3, <1>7

\* The entries of one chain are those whose names belong there.
LEMMA ChainOf ==
    ASSUME NEW cap \in Nat, NEW tab \in Table(cap), Placed(tab, cap), NEW b \in 0..(cap - 1)
    PROVE  /\ tab[b] \in Seq(Cell)
           /\ PlacedIn(b, tab[b], cap)
           /\ \A e : e \in ChainEntries(tab[b]) <=> e \in Entries(tab) /\ Index(e[1], cap) = b
<1>1. tab[b] \in Seq(Cell) /\ \A c \in 0..(cap - 1) : PlacedIn(c, tab[c], cap)
  BY PlacedChains DEF Table
<1>2. \A e : e \in Entries(tab) <=>
         \E c \in 0..(cap - 1) : \E i \in 1..Len(tab[c]) : e = <<tab[c][i].name, tab[c][i].data>>
  BY EntryPlace
<1>3. \A c \in 0..(cap - 1) : \A i \in 1..Len(tab[c]) : Index(tab[c][i].name, cap) = c
  BY <1>1 DEF PlacedIn
<1>4. ASSUME NEW e
      PROVE  e \in ChainEntries(tab[b]) <=> e \in Entries(tab) /\ Index(e[1], cap) = b
  <2>1. ASSUME e \in ChainEntries(tab[b])
        PROVE  e \in Entries(tab) /\ Index(e[1], cap) = b
    <3>1. PICK i \in 1..Len(tab[b]) : e = <<tab[b][i].name, tab[b][i].data>>
      BY <2>1 DEF ChainEntries
    <3>2. QED
      BY <1>2, <1>3, <3>1
  <2>2. ASSUME e \in Entries(tab), Index(e[1], cap) = b
        PROVE  e \in ChainEntries(tab[b])
    <3>1. PICK c \in 0..(cap - 1) : \E i \in 1..Len(tab[c]) :
                  e = <<tab[c][i].name, tab[c][i].data>>
      BY <1>2, <2>2
    <3>2. c = b
      BY <1>3, <2>2, <3>1
    <3>3. QED
      BY <3>1, <3>2 DEF ChainEntries
  <2>3. QED
    BY <2>1, <2>2
<1>5. QED
  BY <1>1, <1>4

\* A new name is added at the end of its chain.
LEMMA AddNode ==
    ASSUME NEW cap \in Nat \ {0}, NEW tab \in Table(cap), Placed(tab, cap),
           NEW k \in Keys, NEW d \in Data, k \notin NamesOf(tab)
    PROVE  /\ add_node(tab, cap, k, d) \in Table(cap)
           /\ Placed(add_node(tab, cap, k, d), cap)
           /\ Entries(add_node(tab, cap, k, d)) = Entries(tab) \cup {<<k, d>>}
           /\ HasFreed(add_node(tab, cap, k, d)) => HasFreed(tab)
<1> DEFINE b == Index(k, cap)
           new == add_node(tab, cap, k, d)
           chain == Append(tab[b], New(k, d))
           n == Len(tab[b])
<1>0. b \in 0..(cap - 1) /\ DOMAIN tab = 0..(cap - 1)
  BY IndexRange DEF Table
<1>1. /\ tab[b] \in Seq(Cell) /\ PlacedIn(b, tab[b], cap)
      /\ \A e : e \in ChainEntries(tab[b]) <=> e \in Entries(tab) /\ Index(e[1], cap) = b
  BY <1>0, ChainOf
<1>2. New(k, d) \in Cell /\ New(k, d).name = k /\ New(k, d).data = d /\ New(k, d).freed = FALSE
  BY DEF New, Cell
<1>3. /\ chain \in Seq(Cell) /\ n \in Nat /\ Len(chain) = n + 1
      /\ \A i \in 1..n : chain[i] = tab[b][i]
      /\ chain[n + 1] = New(k, d)
  BY <1>1, <1>2, AppendProperties, LenProperties
<1>4. \A i \in 1..n : tab[b][i].name # k
  <2> SUFFICES ASSUME NEW i \in 1..n, tab[b][i].name = k PROVE FALSE
    OBVIOUS
  <2>1. <<tab[b][i].name, tab[b][i].data>> \in Entries(tab)
    BY <1>1 DEF ChainEntries
  <2>2. k \in NamesOf(tab)
    BY <2>1, EntryPlace
  <2>3. QED
    BY <2>2
<1>5. new = [tab EXCEPT ![b] = chain]
  BY DEF add_node
<1> HIDE DEF chain, n, new
<1>6. PlacedIn(b, chain, cap)
  <2>1. \A i \in 1..(n + 1) : i \in 1..n \/ i = n + 1
    BY <1>3
  <2>2. \A i \in 1..(n + 1) : Index(chain[i].name, cap) = b
    BY <1>1, <1>2, <1>3, <2>1 DEF PlacedIn, n
  <2>3. DistinctNames(chain)
    BY <1>1, <1>2, <1>3, <1>4, <2>1 DEF PlacedIn, DistinctNames, n
  <2>4. QED
    BY <1>3, <2>2, <2>3 DEF PlacedIn
<1>7. \A e : e \in ChainEntries(chain) <=> e \in ChainEntries(tab[b]) \/ e = <<k, d>>
  <2>1. \A i \in 1..(n + 1) : i \in 1..n \/ i = n + 1
    BY <1>3
  <2>2. \A i \in 1..n : i \in 1..(n + 1)
    BY <1>3
  <2>3. n + 1 \in 1..(n + 1)
    BY <1>3
  <2>4. QED
    BY <1>2, <1>3, <2>1, <2>2, <2>3 DEF ChainEntries, n
<1>8. /\ new \in Table(cap)
      /\ Placed(new, cap)
      /\ \A e : e \in Entries(new) <=>
            \/ e \in Entries(tab) /\ Index(e[1], cap) # b
            \/ e \in ChainEntries(chain)
  <2> HIDE DEF b
  <2>1. QED
    BY <1>0, <1>3, <1>5, <1>6, ReplaceChain
<1>9. Entries(new) = Entries(tab) \cup {<<k, d>>}
  BY <1>1, <1>7, <1>8
<1>10. HasFreed(new) => HasFreed(tab)
  <2> SUFFICES ASSUME HasFreed(new) PROVE HasFreed(tab)
    OBVIOUS
  <2>1. PICK c \in DOMAIN new : \E i \in DOMAIN new[c] : new[c][i].freed
    BY DEF HasFreed
  <2>2. PICK i \in DOMAIN new[c] : new[c][i].freed
    BY <2>1
  <2>3. c \in 0..(cap - 1)
    BY <1>8 DEF Table
  <2>4. CASE c = b
    <3>1. new[c] = chain /\ DOMAIN chain = 1..(n + 1) /\ DOMAIN tab[b] = 1..n
      BY <1>0, <1>1, <1>3, <1>5, <2>4, LenProperties DEF n
    <3>2. i \in 1..n
      <4>1. i # n + 1
        BY <1>2, <1>3, <2>2, <3>1
      <4>2. QED
        BY <1>3, <3>1, <4>1
    <3>3. tab[b][i].freed
      BY <1>3, <2>2, <3>1, <3>2
    <3>4. QED
      BY <1>0, <3>1, <3>2, <3>3 DEF HasFreed
  <2>5. CASE c # b
    <3>1. new[c] = tab[c]
      BY <1>0, <1>5, <2>3, <2>5
    <3>2. QED
      BY <1>0, <2>2, <2>3, <3>1 DEF HasFreed
  <2>6. QED
    BY <2>4, <2>5
<1>11. QED
  BY <1>8, <1>9, <1>10 DEF new

\* The datum of a name that has a cell is replaced.
LEMMA SetData ==
    ASSUME NEW cap \in Nat \ {0}, NEW tab \in Table(cap), Placed(tab, cap),
           NEW k \in Keys, NEW d \in Data,
           NEW pos \in 1..Len(tab[Index(k, cap)]), tab[Index(k, cap)][pos].name = k,
           NEW new, new = WithDatum(tab, Index(k, cap), pos, d)
    PROVE  /\ new \in Table(cap)
           /\ Placed(new, cap)
           /\ Stores(tab, new, k, d)
           /\ HasFreed(new) => HasFreed(tab)
<1> DEFINE b == Index(k, cap)
           chain == [tab[b] EXCEPT ![pos].data = d]
           n == Len(tab[b])
<1>0. b \in 0..(cap - 1) /\ DOMAIN tab = 0..(cap - 1)
  BY IndexRange DEF Table
<1>1. /\ tab[b] \in Seq(Cell) /\ PlacedIn(b, tab[b], cap)
      /\ \A e : e \in ChainEntries(tab[b]) <=> e \in Entries(tab) /\ Index(e[1], cap) = b
  BY <1>0, ChainOf
<1>2. /\ n \in Nat /\ DOMAIN tab[b] = 1..n /\ \A i \in 1..n : tab[b][i] \in Cell
      /\ pos \in 1..n /\ tab[b][pos].name = k
  BY <1>1, LenProperties
<1>3. new = [tab EXCEPT ![b] = chain]
  BY DEF WithDatum
<1> HIDE DEF b
<1>4. /\ chain \in Seq(Cell) /\ Len(chain) = n
      /\ \A i \in 1..n : /\ chain[i].name = tab[b][i].name
                         /\ chain[i].freed = tab[b][i].freed
                         /\ chain[i].data = IF i = pos THEN d ELSE tab[b][i].data
  <2>1. [tab[b][pos] EXCEPT !.data = d] \in Cell
    BY <1>2 DEF Cell
  <2>2. chain = [tab[b] EXCEPT ![pos] = [tab[b][pos] EXCEPT !.data = d]]
    OBVIOUS
  <2>3. chain \in Seq(Cell) /\ Len(chain) = n
    BY <1>1, <1>2, <2>1, <2>2, ExceptSeq
  <2>4. \A i \in 1..n : chain[i] = IF i = pos THEN [tab[b][pos] EXCEPT !.data = d] ELSE tab[b][i]
    BY <1>2, <2>2
  <2>5. QED
    BY <1>2, <2>3, <2>4 DEF Cell
<1> HIDE DEF chain, n
<1>5. PlacedIn(b, chain, cap)
  BY <1>1, <1>4 DEF PlacedIn, DistinctNames, n
<1>6. /\ new \in Table(cap)
      /\ Placed(new, cap)
      /\ \A e : e \in Entries(new) <=>
            \/ e \in Entries(tab) /\ Index(e[1], cap) # b
            \/ e \in ChainEntries(chain)
  BY <1>0, <1>3, <1>4, <1>5, ReplaceChain
<1>7. \A e : e \in ChainEntries(chain) <=>
         \/ e \in ChainEntries(tab[b]) /\ e[1] # k
         \/ e = <<k, d>>
  <2>1. \A i \in 1..n : i # pos => tab[b][i].name # k
    BY <1>1, <1>2 DEF PlacedIn, DistinctNames, n
  <2>2. ASSUME NEW e, e \in ChainEntries(chain)
        PROVE  (e \in ChainEntries(tab[b]) /\ e[1] # k) \/ e = <<k, d>>
    <3>1. PICK i \in 1..n : e = <<chain[i].name, chain[i].data>>
      BY <1>4, <2>2 DEF ChainEntries
    <3>2. CASE i = pos
      BY <1>2, <1>4, <3>1, <3>2
    <3>3. CASE i # pos
      <4>1. e = <<tab[b][i].name, tab[b][i].data>> /\ e[1] # k
        BY <1>4, <2>1, <3>1, <3>3
      <4>2. QED
        BY <4>1 DEF ChainEntries, n
    <3>4. QED
      BY <3>2, <3>3
  <2>3. ASSUME NEW e, e \in ChainEntries(tab[b]), e[1] # k
        PROVE  e \in ChainEntries(chain)
    <3>1. PICK i \in 1..n : e = <<tab[b][i].name, tab[b][i].data>>
      BY <2>3 DEF ChainEntries, n
    <3>2. i # pos
      BY <1>2, <2>3, <3>1
    <3>3. e = <<chain[i].name, chain[i].data>>
      BY <1>4, <3>1, <3>2
    <3>4. QED
      BY <1>4, <3>3 DEF ChainEntries
  <2>4. <<k, d>> \in ChainEntries(chain)
    BY <1>2, <1>4 DEF ChainEntries
  <2>5. QED
    BY <2>2, <2>3, <2>4
<1>8. Stores(tab, new, k, d)
  <2>1. \A e : e \in Entries(tab) /\ Index(e[1], cap) # b => e[1] # k
    BY DEF b
  <2>2. QED
    BY <1>1, <1>6, <1>7, <2>1 DEF Stores
<1>9. HasFreed(new) => HasFreed(tab)
  <2> SUFFICES ASSUME HasFreed(new) PROVE HasFreed(tab)
    OBVIOUS
  <2>1. PICK c \in DOMAIN new : \E i \in DOMAIN new[c] : new[c][i].freed
    BY DEF HasFreed
  <2>2. PICK i \in DOMAIN new[c] : new[c][i].freed
    BY <2>1
  <2>3. c \in 0..(cap - 1)
    BY <1>6 DEF Table
  <2>4. CASE c = b
    <3>1. new[c] = chain /\ DOMAIN chain = 1..n
      BY <1>0, <1>3, <1>4, <2>4, LenProperties
    <3>2. i \in 1..n /\ tab[b][i].freed
      BY <1>4, <2>2, <3>1
    <3>3. QED
      BY <1>0, <1>2, <3>2 DEF HasFreed
  <2>5. CASE c # b
    <3>1. new[c] = tab[c]
      BY <1>0, <1>3, <2>3, <2>5
    <3>2. QED
      BY <1>0, <2>2, <2>3, <3>1 DEF HasFreed
  <2>6. QED
    BY <2>4, <2>5
<1>10. QED
  BY <1>6, <1>8, <1>9

\* A chain from which the cell at pos is gone; the others keep name and data.
Shorter(chain, short, pos) ==
    /\ short \in Seq(Cell)
    /\ Len(short) = Len(chain) - 1
    /\ \A i \in 1..(Len(chain) - 1) :
          LET j == IF i < pos THEN i ELSE i + 1
          IN  short[i].name = chain[j].name /\ short[i].data = chain[j].data

\* Without its head the chain is shorter by that.
LEMMA WithoutHeadShorter ==
    ASSUME NEW chain \in Seq(Cell), chain # <<>>
    PROVE  Shorter(chain, WithoutHead(chain), 1)
<1> DEFINE n == Len(chain) - 1
           cell(i) == [chain[i + 1] EXCEPT !.freed = IF i = 1 THEN FALSE
                                                     ELSE IF i = 2 THEN TRUE ELSE @]
<1>1. n \in Nat /\ \A i \in 1..n : i + 1 \in 1..Len(chain)
  BY LenProperties, EmptySeq
<1>2. \A i \in 1..n : chain[i + 1] \in Cell
  BY <1>1
<1>3. \A i \in 1..n : cell(i) \in Cell /\ cell(i).name = chain[i + 1].name
                                       /\ cell(i).data = chain[i + 1].data
  BY <1>2 DEF Cell
<1>4. WithoutHead(chain) = [i \in 1..n |-> cell(i)]
  BY DEF WithoutHead
<1> HIDE DEF cell
<1>5. [i \in 1..n |-> cell(i)] \in Seq(Cell) /\ Len([i \in 1..n |-> cell(i)]) = n
  BY <1>1, <1>3, IsASeq
<1>6. \A i \in 1..n : ~(i < 1)
  BY <1>1
<1>7. QED
  BY <1>1, <1>3, <1>4, <1>5, <1>6 DEF Shorter

\* So it is without another cell.
LEMMA RemoveAtShorter ==
    ASSUME NEW chain \in Seq(Cell), NEW pos \in 1..Len(chain)
    PROVE  /\ Shorter(chain, RemoveAt(chain, pos), pos)
           /\ \A i \in 1..(Len(chain) - 1) :
                RemoveAt(chain, pos)[i] = chain[IF i < pos THEN i ELSE i + 1]
<1> DEFINE p == SubSeq(chain, 1, pos - 1)
           q == SubSeq(chain, pos + 1, Len(chain))
<1>0. Len(chain) \in Nat /\ \A i \in 1..Len(chain) : chain[i] \in Cell
  BY LenProperties
<1>1. /\ p \in Seq(Cell) /\ Len(p) = pos - 1
      /\ \A i \in 1..(pos - 1) : p[i] = chain[i]
  BY <1>0, SubSeqProperties
<1>2. /\ q \in Seq(Cell) /\ Len(q) = Len(chain) - pos
      /\ \A i \in 1..(Len(chain) - pos) : q[i] = chain[pos + i]
  BY <1>0, SubSeqProperties
<1> HIDE DEF p, q
<1>3. /\ p \o q \in Seq(Cell) /\ Len(p \o q) = Len(chain) - 1
      /\ \A i \in 1..(Len(chain) - 1) : (p \o q)[i] = IF i <= pos - 1 THEN p[i] ELSE q[i - (pos - 1)]
  <2>1. /\ p \o q \in Seq(Cell) /\ Len(p \o q) = Len(p) + Len(q)
        /\ \A i \in 1..(Len(p) + Len(q)) : (p \o q)[i] = IF i <= Len(p) THEN p[i] ELSE q[i - Len(p)]
    BY <1>1, <1>2, ConcatProperties
  <2>2. Len(p) + Len(q) = Len(chain) - 1
    BY <1>0, <1>1, <1>2
  <2>3. QED
    BY <1>1, <2>1, <2>2
<1>4. ASSUME NEW i \in 1..(Len(chain) - 1)
      PROVE  (p \o q)[i] = chain[IF i < pos THEN i ELSE i + 1]
  <2>1. CASE i < pos
    <3>1. i \in 1..(pos - 1) /\ i <= pos - 1
      BY <2>1
    <3>2. (p \o q)[i] = p[i]
      BY <1>3, <3>1
    <3>3. p[i] = chain[i]
      BY <1>1, <3>1
    <3>4. QED
      BY <2>1, <3>2, <3>3
  <2>2. CASE i >= pos
    <3>1. ~(i <= pos - 1) /\ ~(i < pos) /\ i - (pos - 1) \in 1..(Len(chain) - pos)
      BY <1>0, <2>2
    <3>2. pos + (i - (pos - 1)) = i + 1
      BY <2>2
    <3>3. (p \o q)[i] = q[i - (pos - 1)]
      BY <1>3, <3>1
    <3>4. q[i - (pos - 1)] = chain[i + 1]
      BY <1>2, <3>1, <3>2
    <3>5. QED
      BY <3>1, <3>3, <3>4
  <2>3. i < pos \/ i >= pos
    BY <1>0
  <2>4. QED
    BY <2>1, <2>2, <2>3
<1>5. RemoveAt(chain, pos) = p \o q
  BY DEF RemoveAt, p, q
<1>6. QED
  BY <1>3, <1>4, <1>5 DEF Shorter

\* A name is taken out of its chain; the others stay, with their data.
LEMMA Removal ==
    ASSUME NEW cap \in Nat \ {0}, NEW tab \in Table(cap), Placed(tab, cap), NEW k \in Keys,
           NEW pos \in 1..Len(tab[Index(k, cap)]), tab[Index(k, cap)][pos].name = k,
           NEW short, Shorter(tab[Index(k, cap)], short, pos),
           NEW new, new = WithChain(tab, Index(k, cap), short)
    PROVE  /\ new \in Table(cap)
           /\ Placed(new, cap)
           /\ Drops(tab, new, k)
<1> DEFINE b == Index(k, cap)
           chain == tab[b]
           n == Len(chain)
           from(i) == IF i < pos THEN i ELSE i + 1
<1>0. b \in 0..(cap - 1)
  BY IndexRange
<1>1. /\ chain \in Seq(Cell) /\ PlacedIn(b, chain, cap)
      /\ \A e : e \in ChainEntries(chain) <=> e \in Entries(tab) /\ Index(e[1], cap) = b
  BY <1>0, ChainOf
<1>2. n \in Nat /\ pos \in 1..n /\ chain[pos].name = k
  BY <1>1, LenProperties
<1>3. new = [tab EXCEPT ![b] = short]
  BY DEF WithChain
<1>4. /\ short \in Seq(Cell) /\ Len(short) = n - 1
      /\ \A i \in 1..(n - 1) : /\ short[i].name = chain[from(i)].name
                               /\ short[i].data = chain[from(i)].data
  BY DEF Shorter
<1> HIDE DEF b, chain, n
<1>5. /\ \A i \in 1..(n - 1) : from(i) \in 1..n /\ from(i) # pos
      /\ \A i, j \in 1..(n - 1) : from(i) = from(j) => i = j
      /\ \A j \in 1..n : j # pos => \E i \in 1..(n - 1) : from(i) = j
  <2>1. \A i \in 1..(n - 1) : from(i) \in 1..n /\ from(i) # pos
    BY <1>2
  <2>2. \A i, j \in 1..(n - 1) : from(i) = from(j) => i = j
    BY <1>2
  <2>3. ASSUME NEW j \in 1..n, j # pos
        PROVE  \E i \in 1..(n - 1) : from(i) = j
    <3>1. CASE j < pos
      BY <1>2, <3>1
    <3>2. CASE ~(j < pos)
      <4>1. j - 1 \in 1..(n - 1) /\ from(j - 1) = j
        BY <1>2, <2>3, <3>2
      <4> HIDE DEF from
      <4>2. QED
        BY <4>1
    <3>3. QED
      BY <3>1, <3>2
  <2>4. QED
    BY <2>1, <2>2, <2>3
<1> HIDE DEF from
<1>6. PlacedIn(b, short, cap)
  <2>1. \A i \in 1..(n - 1) : Index(short[i].name, cap) = b
    <3>1. \A j \in 1..n : Index(chain[j].name, cap) = b
      BY ONLY <1>1 DEF PlacedIn, n
    <3>2. \A i \in 1..(n - 1) : from(i) \in 1..n /\ short[i].name = chain[from(i)].name
      BY ONLY <1>4, <1>5
    <3> HIDE DEF n
    <3>3. QED
      BY ONLY <3>1, <3>2
  <2>2. \A i, j \in 1..(n - 1) : short[i].name = short[j].name => i = j
    <3> SUFFICES ASSUME NEW i \in 1..(n - 1), NEW j \in 1..(n - 1), short[i].name = short[j].name
                 PROVE  i = j
      OBVIOUS
    <3>1. from(i) \in 1..n /\ from(j) \in 1..n /\ chain[from(i)].name = chain[from(j)].name
      BY <1>4, <1>5
    <3>2. from(i) = from(j)
      BY <1>1, <3>1 DEF PlacedIn, DistinctNames, n
    <3>3. QED
      BY <1>5, <3>2
  <2>3. QED
    BY <1>4, <2>1, <2>2 DEF PlacedIn, DistinctNames
<1>7. /\ new \in Table(cap)
      /\ Placed(new, cap)
      /\ \A e : e \in Entries(new) <=>
            \/ e \in Entries(tab) /\ Index(e[1], cap) # b
            \/ e \in ChainEntries(short)
  BY <1>0, <1>3, <1>4, <1>6, ReplaceChain
<1>8. \A e : e \in ChainEntries(short) <=> e \in ChainEntries(chain) /\ e[1] # k
  <2>1. \A j \in 1..n : j # pos => chain[j].name # k
    BY <1>1, <1>2 DEF PlacedIn, DistinctNames, n
  <2>2. ASSUME NEW e, e \in ChainEntries(short)
        PROVE  e \in ChainEntries(chain) /\ e[1] # k
    <3>1. PICK i \in 1..(n - 1) : e = <<short[i].name, short[i].data>>
      BY <1>4, <2>2 DEF ChainEntries
    <3>2. e = <<chain[from(i)].name, chain[from(i)].data>> /\ from(i) \in 1..n /\ from(i) # pos
      BY <1>4, <1>5, <3>1
    <3>3. QED
      BY <2>1, <3>2 DEF ChainEntries, n
  <2>3. ASSUME NEW e, e \in ChainEntries(chain), e[1] # k
        PROVE  e \in ChainEntries(short)
    <3>1. PICK j \in 1..n : e = <<chain[j].name, chain[j].data>>
      BY <2>3 DEF ChainEntries, n
    <3>2. j # pos
      BY <1>2, <2>3, <3>1
    <3>3. PICK i \in 1..(n - 1) : from(i) = j
      BY <1>5, <3>2
    <3>4. e = <<short[i].name, short[i].data>>
      BY <1>4, <3>1, <3>3
    <3>5. QED
      BY <1>4, <3>4 DEF ChainEntries
  <2>4. QED
    BY <2>2, <2>3
<1>9. Drops(tab, new, k)
  <2>1. \A e : e \in Entries(tab) /\ Index(e[1], cap) # b => e[1] # k
    BY DEF b
  <2>2. QED
    BY <1>1, <1>7, <1>8, <2>1 DEF Drops
<1>10. QED
  BY <1>7, <1>9

-----------------------------------------------------------------------------
(* Resizing *)

\* The move to a larger array adds one cell after the other.
LEMMA RehashedUnfolds ==
    ASSUME NEW cap \in Nat, NEW tab, NEW newCap, NEW n \in Nat, n = Len(CellsOf(tab, cap)),
           NEW cells, cells = CellsOf(tab, cap)
    PROVE  \E moved :
              /\ Rehashed(tab, cap, newCap) = moved[n]
              /\ moved[0] = [b \in 0..(newCap - 1) |-> <<>>]
              /\ \A i \in 0..(n - 1) :
                    moved[i + 1] = add_node(moved[i], newCap, cells[i + 1].name, cells[i + 1].data)
<1> DEFINE next(prev, i) == add_node(prev, newCap, cells[i].name, cells[i].data)
           empty == [b \in 0..(newCap - 1) |-> <<>>]
           IsMove(m, f) == f = [i \in 0..m |-> IF i = 0 THEN empty ELSE next(f[i - 1], i)]
           S == {m \in Nat : \E f : IsMove(m, f)}
<1> HIDE DEF next, empty
<1>1. 0 \in S
  <2>1. IsMove(0, [i \in 0..0 |-> empty])
    OBVIOUS
  <2>2. QED
    BY <2>1
<1>2. ASSUME NEW m \in Nat, m \in S PROVE m + 1 \in S
  <2>1. PICK f : IsMove(m, f)
    BY <1>2
  <2> DEFINE g == [i \in 0..(m + 1) |-> IF i = 0 THEN empty ELSE next(f[i - 1], i)]
  <2>2. \A i \in 0..m : g[i] = f[i]
    BY <2>1
  <2>3. \A i \in 0..(m + 1) : g[i] = IF i = 0 THEN empty ELSE next(g[i - 1], i)
    <3>1. \A i \in 0..(m + 1) : i # 0 => i - 1 \in 0..m
      OBVIOUS
    <3>2. \A i \in 0..(m + 1) : g[i] = IF i = 0 THEN empty ELSE next(f[i - 1], i)
      OBVIOUS
    <3> HIDE DEF g
    <3>3. QED
      BY <2>2, <3>1, <3>2
  <2>4. IsMove(m + 1, g)
    BY <2>3
  <2> HIDE DEF g, IsMove
  <2>5. \E h : IsMove(m + 1, h)
    BY <2>4
  <2>6. QED
    BY <2>5
<1> HIDE DEF S
<1>3. n \in S
  BY <1>1, <1>2, EveryNatural
<1> DEFINE moved == CHOOSE f : IsMove(n, f)
<1>4. IsMove(n, moved)
  BY <1>3 DEF S
<1>5. Rehashed(tab, cap, newCap) = moved[n]
  BY DEF Rehashed, next, empty
<1>6. 0 \in 0..n /\ \A i \in 0..(n - 1) : i + 1 \in 0..n /\ i + 1 # 0 /\ i + 1 - 1 = i
  OBVIOUS
<1> HIDE DEF moved
<1>7. \A i \in 0..(n - 1) : moved[i + 1] = next(moved[i], i + 1)
  BY <1>4, <1>6
<1>8. moved[0] = empty
  BY <1>4, <1>6
<1>9. QED
  BY <1>5, <1>7, <1>8 DEF next, empty

\* Every cell comes along, to where a lookup in the larger array will search it,
\* and no node of the new array was ever freed.
LEMMA RehashedKeeps ==
    ASSUME NEW cap \in Nat \ {0}, NEW tab \in Table(cap), Placed(tab, cap),
           NEW newCap \in Nat \ {0}
    PROVE  /\ Rehashed(tab, cap, newCap) \in Table(newCap)
           /\ Placed(Rehashed(tab, cap, newCap), newCap)
           /\ Entries(Rehashed(tab, cap, newCap)) = Entries(tab)
           /\ ~HasFreed(Rehashed(tab, cap, newCap))
<1> DEFINE cells == CellsOf(tab, cap)
           n == Len(cells)
<1>1. /\ cells \in Seq(Cell) /\ Range(cells) = Contents(tab) /\ DistinctNames(cells)
      /\ n \in Nat /\ DOMAIN cells = 1..n
      /\ \A i \in 1..n : cells[i] \in Cell
  BY CellsOfList, LenProperties
<1>2. PICK moved :
         /\ Rehashed(tab, cap, newCap) = moved[n]
         /\ moved[0] = [b \in 0..(newCap - 1) |-> <<>>]
         /\ \A i \in 0..(n - 1) :
               moved[i + 1] = add_node(moved[i], newCap, cells[i + 1].name, cells[i + 1].data)
  BY <1>1, RehashedUnfolds
<1> HIDE DEF cells, n
<1> DEFINE Good(m) ==
             /\ moved[m] \in Table(newCap)
             /\ Placed(moved[m], newCap)
             /\ \A e : e \in Entries(moved[m]) <=> \E i \in 1..m : e = <<cells[i].name, cells[i].data>>
             /\ ~HasFreed(moved[m])
           S == {m \in Nat : m <= n => Good(m)}
<1>3. 0 \in S
  <2>1. /\ moved[0] \in Table(newCap)
        /\ \A b \in 0..(newCap - 1) : moved[0][b] = <<>>
        /\ DOMAIN moved[0] = 0..(newCap - 1)
    BY <1>2, EmptySeq DEF Table
  <2>2. Entries(moved[0]) = {} /\ Placed(moved[0], newCap) /\ ~HasFreed(moved[0])
    BY <2>1, EmptySeq DEF Entries, ChainEntries, Placed, HasFreed
  <2>3. QED
    BY <2>1, <2>2
<1>4. ASSUME NEW m \in Nat, m \in S PROVE m + 1 \in S
  <2> SUFFICES ASSUME m + 1 <= n PROVE Good(m + 1)
    OBVIOUS
  <2> DEFINE k == cells[m + 1].name
             d == cells[m + 1].data
             old == moved[m]
             new == moved[m + 1]
  <2>1. Good(m) /\ m \in 0..(n - 1) /\ m + 1 \in 1..n
    BY <1>1, <1>4
  <2>2. new = add_node(old, newCap, k, d)
    BY <1>2, <2>1
  <2>3. k \in Keys /\ d \in Data
    BY <1>1, <2>1 DEF Cell
  <2>4. k \notin NamesOf(old)
    <3> SUFFICES ASSUME k \in NamesOf(old) PROVE FALSE
      OBVIOUS
    <3>1. NamesOf(old) = {e[1] : e \in Entries(old)}
      BY <2>1, EntryPlace
    <3>2. PICK e \in Entries(old) : e[1] = k
      BY <3>1
    <3>3. PICK i \in 1..m : e = <<cells[i].name, cells[i].data>>
      BY <2>1
    <3>4. i \in 1..n /\ i # m + 1 /\ cells[i].name = cells[m + 1].name
      BY <1>1, <2>1, <3>2, <3>3
    <3>5. QED
      BY <1>1, <2>1, <3>4 DEF DistinctNames, n
  <2>5. /\ old \in Table(newCap) /\ Placed(old, newCap) /\ ~HasFreed(old)
        /\ \A e : e \in Entries(old) <=> \E i \in 1..m : e = <<cells[i].name, cells[i].data>>
    BY <2>1
  <2> HIDE DEF k, d, old, new, Good
  <2>6. /\ new \in Table(newCap) /\ Placed(new, newCap)
        /\ Entries(new) = Entries(old) \cup {<<k, d>>}
        /\ ~HasFreed(new)
    BY <2>2, <2>3, <2>4, <2>5, AddNode
  <2>7. \A i \in 1..(m + 1) : i \in 1..m \/ i = m + 1
    OBVIOUS
  <2>8. \A e : e \in Entries(new) <=> \E i \in 1..(m + 1) : e = <<cells[i].name, cells[i].data>>
    <3>1. m + 1 \in 1..(m + 1) /\ \A i \in 1..m : i \in 1..(m + 1)
      OBVIOUS
    <3>2. QED
      BY <2>5, <2>6, <2>7, <3>1 DEF k, d
  <2>9. QED
    BY <2>6, <2>8 DEF Good, new
<1> HIDE DEF S
<1>5. n \in S
  BY <1>1, <1>3, <1>4, EveryNatural
<1>6. Good(n)
  BY <1>1, <1>5 DEF S
<1>7. \A e : e \in Entries(tab) <=> \E i \in 1..n : e = <<cells[i].name, cells[i].data>>
  <2>1. \A cell : cell \in Contents(tab) <=> \E i \in 1..n : cell = cells[i]
    BY <1>1 DEF Range
  <2>2. \A cell : cell \in Contents(tab) <=>
           \E b \in 0..(cap - 1) : \E i \in 1..Len(tab[b]) : tab[b][i] = cell
    BY CellPlace
  <2>3. \A e : e \in Entries(tab) <=>
           \E b \in 0..(cap - 1) : \E i \in 1..Len(tab[b]) : e = <<tab[b][i].name, tab[b][i].data>>
    BY EntryPlace
  <2>4. ASSUME NEW e, e \in Entries(tab)
        PROVE  \E i \in 1..n : e = <<cells[i].name, cells[i].data>>
    <3>1. PICK b \in 0..(cap - 1) : \E i \in 1..Len(tab[b]) : e = <<tab[b][i].name, tab[b][i].data>>
      BY <2>3, <2>4
    <3>2. PICK j \in 1..Len(tab[b]) : e = <<tab[b][j].name, tab[b][j].data>>
      BY <3>1
    <3>3. tab[b][j] \in Contents(tab)
      BY <2>2
    <3>4. QED
      BY <2>1, <3>2, <3>3
  <2>5. ASSUME NEW i \in 1..n
        PROVE  <<cells[i].name, cells[i].data>> \in Entries(tab)
    <3>1. cells[i] \in Contents(tab)
      BY <2>1
    <3>2. PICK b \in 0..(cap - 1) : \E j \in 1..Len(tab[b]) : tab[b][j] = cells[i]
      BY <2>2, <3>1
    <3>3. QED
      BY <2>3, <3>2
  <2>6. QED
    BY <2>4, <2>5
<1>8. QED
  BY <1>2, <1>6, <1>7 DEF n, cells

-----------------------------------------------------------------------------
(* Clearing *)

\* The walk that collects the names of expired cells.
LEMMA CollectedUnfolds ==
    ASSUME NEW expired, NEW n \in Nat, n = Len(CellsOf(table, capacity)),
           NEW cells, cells = CellsOf(table, capacity)
    PROVE  \E names :
              /\ Collected(expired) = names[n]
              /\ names[0] = <<>>
              /\ \A i \in 0..(n - 1) :
                    names[i + 1] = IF cells[i + 1].name \in expired
                                   THEN Append(names[i], cells[i + 1].name)
                                   ELSE names[i]
<1> DEFINE next(prev, i) == IF cells[i].name \in expired THEN Append(prev, cells[i].name)
                            ELSE prev
           IsWalk(m, f) == f = [i \in 0..m |-> IF i = 0 THEN <<>> ELSE next(f[i - 1], i)]
           S == {m \in Nat : \E f : IsWalk(m, f)}
<1>5. Collected(expired) = (CHOOSE f : IsWalk(n, f))[n]
  BY DEF Collected
<1> HIDE DEF next
<1>1. 0 \in S
  <2>1. IsWalk(0, [i \in 0..0 |-> <<>>])
    OBVIOUS
  <2>2. QED
    BY <2>1
<1>2. ASSUME NEW m \in Nat, m \in S PROVE m + 1 \in S
  <2>1. PICK f : IsWalk(m, f)
    BY <1>2
  <2> DEFINE g == [i \in 0..(m + 1) |-> IF i = 0 THEN <<>> ELSE next(f[i - 1], i)]
  <2>2. \A i \in 0..m : g[i] = f[i]
    BY <2>1
  <2>3. \A i \in 0..(m + 1) : g[i] = IF i = 0 THEN <<>> ELSE next(g[i - 1], i)
    <3>1. \A i \in 0..(m + 1) : i # 0 => i - 1 \in 0..m
      OBVIOUS
    <3>2. \A i \in 0..(m + 1) : g[i] = IF i = 0 THEN <<>> ELSE next(f[i - 1], i)
      OBVIOUS
    <3> HIDE DEF g
    <3>3. QED
      BY <2>2, <3>1, <3>2
  <2>4. IsWalk(m + 1, g)
    BY <2>3
  <2> HIDE DEF g, IsWalk
  <2>5. \E h : IsWalk(m + 1, h)
    BY <2>4
  <2>6. QED
    BY <2>5
<1> HIDE DEF S
<1>3. n \in S
  BY <1>1, <1>2, EveryNatural
<1> DEFINE names == CHOOSE f : IsWalk(n, f)
<1>4. IsWalk(n, names)
  BY <1>3 DEF S
<1>6. 0 \in 0..n /\ \A i \in 0..(n - 1) : i + 1 \in 0..n /\ i + 1 # 0 /\ i + 1 - 1 = i
  OBVIOUS
<1>7. Collected(expired) = names[n]
  BY <1>5
<1> HIDE DEF names
<1>8. \A i \in 0..(n - 1) : names[i + 1] = next(names[i], i + 1)
  BY <1>4, <1>6
<1>9. names[0] = <<>>
  BY <1>4, <1>6
<1>10. \A i \in 0..(n - 1) :
          names[i + 1] = IF cells[i + 1].name \in expired
                         THEN Append(names[i], cells[i + 1].name)
                         ELSE names[i]
  BY <1>8 DEF next
<1>11. QED
  BY <1>7, <1>9, <1>10

\* A clear collects names that the table has, and none of them twice.
LEMMA CollectedList ==
    ASSUME capacity \in Nat, table \in Table(capacity), Placed(table, capacity),
           NEW expired
    PROVE  /\ Collected(expired) \in Seq(Keys)
           /\ \A i, j \in 1..Len(Collected(expired)) :
                /\ Collected(expired)[i] \in NamesOf(table)
                /\ Collected(expired)[i] = Collected(expired)[j] => i = j
<1> DEFINE cells == CellsOf(table, capacity)
           n == Len(cells)
<1>1. /\ cells \in Seq(Cell) /\ Range(cells) = Contents(table) /\ DistinctNames(cells)
      /\ n \in Nat /\ DOMAIN cells = 1..n
      /\ \A i \in 1..n : cells[i] \in Cell
  BY CellsOfList, LenProperties
<1>0. cells = CellsOf(table, capacity) /\ n = Len(CellsOf(table, capacity))
  OBVIOUS
<1> HIDE DEF cells, n
<1>2. PICK names :
         /\ Collected(expired) = names[n]
         /\ names[0] = <<>>
         /\ \A i \in 0..(n - 1) :
               names[i + 1] = IF cells[i + 1].name \in expired
                              THEN Append(names[i], cells[i + 1].name)
                              ELSE names[i]
  BY <1>0, <1>1, CollectedUnfolds
<1> DEFINE Good(m) ==
             /\ names[m] \in Seq(Keys)
             /\ \A i \in 1..Len(names[m]) : \E j \in 1..m : names[m][i] = cells[j].name
             /\ \A i, j \in 1..Len(names[m]) : names[m][i] = names[m][j] => i = j
           S == {m \in Nat : m <= n => Good(m)}
<1>3. 0 \in S
  <2>1. names[0] \in Seq(Keys) /\ Len(names[0]) = 0
    BY <1>2, EmptySeq
  <2>2. QED
    BY <2>1
<1>4. ASSUME NEW m \in Nat, m \in S PROVE m + 1 \in S
  <2> SUFFICES ASSUME m + 1 <= n PROVE Good(m + 1)
    OBVIOUS
  <2> DEFINE old == names[m]
             new == names[m + 1]
             k == cells[m + 1].name
  <2>1. m \in 0..(n - 1) /\ m + 1 \in 1..n /\ m + 1 \in 1..(m + 1)
        /\ \A j \in 1..m : j \in 1..(m + 1) /\ j \in 1..n /\ j # m + 1
    BY <1>1
  <2>2. /\ old \in Seq(Keys)
        /\ \A i \in 1..Len(old) : \E j \in 1..m : old[i] = cells[j].name
        /\ \A i, j \in 1..Len(old) : old[i] = old[j] => i = j
    BY <1>1, <1>4
  <2>3. k \in Keys
    BY <1>1, <2>1 DEF Cell
  <2>4. \A j \in 1..m : cells[j].name # k
    BY <1>1, <2>1 DEF DistinctNames, n
  <2>5. new = IF k \in expired THEN Append(old, k) ELSE old
    BY <1>2, <2>1
  <2>6. SUFFICES /\ new \in Seq(Keys)
                 /\ \A i \in 1..Len(new) : \E j \in 1..(m + 1) : new[i] = cells[j].name
                 /\ \A i, j \in 1..Len(new) : new[i] = new[j] => i = j
    OBVIOUS
  <2> HIDE DEF old, new, Good
  <2>7. CASE k \notin expired
    BY <2>1, <2>2, <2>5, <2>7
  <2>8. CASE k \in expired
    <3> DEFINE l == Len(old)
    <3>1. new = Append(old, k)
      BY <2>5, <2>8
    <3>2. /\ new \in Seq(Keys) /\ l \in Nat /\ Len(new) = l + 1
          /\ \A i \in 1..l : new[i] = old[i]
          /\ new[l + 1] = k
      <4> HIDE DEF k
      <4>1. QED
        BY <2>2, <2>3, <3>1, AppendProperties, LenProperties
    <3>3. \A i \in 1..(l + 1) : i \in 1..l \/ i = l + 1
      BY <3>2
    <3>4. \A i \in 1..l : new[i] # k /\ \E j \in 1..m : new[i] = cells[j].name
      BY <2>2, <2>4, <3>2
    <3> HIDE DEF l
    <3>5. \A i \in 1..(l + 1) : \E j \in 1..(m + 1) : new[i] = cells[j].name
      BY <2>1, <3>2, <3>3, <3>4 DEF k
    <3>6. \A i, j \in 1..(l + 1) : new[i] = new[j] => i = j
      BY <2>2, <3>2, <3>3, <3>4 DEF l
    <3>7. QED
      BY <3>2, <3>5, <3>6
  <2>9. QED
    BY <2>7, <2>8
<1> HIDE DEF S
<1>5. n \in S
  BY <1>1, <1>3, <1>4, EveryNatural
<1>6. Good(n)
  BY <1>1, <1>5 DEF S
<1>7. \A j \in 1..n : cells[j].name \in NamesOf(table)
  <2>1. \A j \in 1..n : cells[j] \in Contents(table)
    BY <1>1 DEF Range
  <2>2. QED
    BY <2>1 DEF NamesOf
<1>8. QED
  BY <1>2, <1>6, <1>7 DEF n

-----------------------------------------------------------------------------
(* Lookups *)

\* A lookup finds what the table has under that name, and nothing else.
LEMMA Lookup ==
    /\ capacity \in Nat \ {0}
    /\ table \in Table(capacity)
    /\ Placed(table, capacity)
    => \A k \in Keys :
          /\ Present(k) <=> k \in NamesOf(table)
          /\ Present(k) => /\ Position(k) \in 1..Len(table[Index(k, capacity)])
                           /\ table[Index(k, capacity)][Position(k)].name = k
          /\ hash_table_get(k) \in Data \cup {NULL}
          /\ \A d \in Data : hash_table_get(k) = d <=> <<k, d>> \in Entries(table)
<1> SUFFICES ASSUME capacity \in Nat \ {0}, table \in Table(capacity),
                    Placed(table, capacity), NEW k \in Keys
             PROVE  /\ Present(k) <=> k \in NamesOf(table)
                    /\ Present(k) => /\ Position(k) \in 1..Len(table[Index(k, capacity)])
                                     /\ table[Index(k, capacity)][Position(k)].name = k
                    /\ hash_table_get(k) \in Data \cup {NULL}
                    /\ \A d \in Data : hash_table_get(k) = d <=> <<k, d>> \in Entries(table)
  OBVIOUS
<1> DEFINE b == Index(k, capacity)
           chain == table[b]
           n == Len(chain)
           pos == Position(k)
<1>1. b \in 0..(capacity - 1)
  BY IndexRange
<1>2. /\ chain \in Seq(Cell) /\ PlacedIn(b, chain, capacity)
      /\ \A e : e \in ChainEntries(chain) <=> e \in Entries(table) /\ Index(e[1], capacity) = b
  BY <1>1, ChainOf
<1>3. /\ n \in Nat /\ DOMAIN chain = 1..n /\ \A i \in 1..n : chain[i] \in Cell
      /\ Positions(k) = {i \in 1..n : chain[i].name = k}
  BY <1>2, LenProperties DEF Positions, Bucket
<1>4. /\ pos = CHOOSE i \in Positions(k) : \A j \in Positions(k) : i <= j
      /\ hash_table_get(k) = IF Present(k) THEN chain[pos].data ELSE NULL
      /\ Present(k) <=> Positions(k) # {}
  BY DEF Position, hash_table_get, Bucket, Present
<1>5. Present(k) => pos \in 1..n /\ chain[pos].name = k
  <2> SUFFICES ASSUME Present(k) PROVE pos \in Positions(k)
    BY <1>3
  <2>1. Positions(k) \in SUBSET Nat /\ Positions(k) # {}
    <3> HIDE DEF b, chain, n, pos
    <3>1. 1..n \subseteq Nat /\ Positions(k) \subseteq 1..n
      BY <1>3
    <3>2. QED
      BY <1>4, <3>1
  <2>2. \E i \in Positions(k) : \A j \in Positions(k) : i <= j
    BY <2>1, LeastNatural
  <2>3. QED
    BY <1>4, <2>2
<1>6. \A i \in 1..n : chain[i].name = k => i = pos
  <2> SUFFICES ASSUME NEW i \in 1..n, chain[i].name = k PROVE i = pos
    OBVIOUS
  <2>1. Present(k)
    BY <1>3, <1>4
  <2>2. DistinctNames(chain)
    BY <1>2 DEF PlacedIn
  <2> HIDE DEF pos, chain
  <2>3. QED
    BY <1>5, <2>1, <2>2 DEF DistinctNames, n
<1> HIDE DEF b, chain, n, pos
<1>7. \A d : <<k, d>> \in Entries(table) <=> Present(k) /\ d = chain[pos].data
  <2> SUFFICES ASSUME NEW d
               PROVE  <<k, d>> \in Entries(table) <=> Present(k) /\ d = chain[pos].data
    OBVIOUS
  <2>1. <<k, d>> \in ChainEntries(chain) <=> <<k, d>> \in Entries(table)
    BY <1>2 DEF b
  <2>2. ASSUME <<k, d>> \in Entries(table)
        PROVE  Present(k) /\ d = chain[pos].data
    <3>1. PICK i \in 1..n : <<k, d>> = <<chain[i].name, chain[i].data>>
      BY <2>1, <2>2 DEF ChainEntries, n
    <3>2. chain[i].name = k /\ chain[i].data = d
      BY <3>1
    <3>3. QED
      BY <1>3, <1>4, <1>6, <3>2
  <2>3. ASSUME Present(k), d = chain[pos].data
        PROVE  <<k, d>> \in Entries(table)
    <3>1. pos \in 1..n /\ <<k, d>> = <<chain[pos].name, chain[pos].data>>
      BY <1>5, <2>3
    <3>2. QED
      BY <2>1, <3>1 DEF ChainEntries, n
  <2>4. QED
    BY <2>2, <2>3
<1>8. Present(k) <=> k \in NamesOf(table)
  <2>1. NamesOf(table) = {e[1] : e \in Entries(table)} /\ Entries(table) \subseteq Keys \X Data
    BY EntryPlace
  <2>2. ASSUME k \in NamesOf(table) PROVE Present(k)
    <3>1. PICK e \in Entries(table) : e[1] = k
      BY <2>1, <2>2
    <3>2. e = <<k, e[2]>>
      BY <2>1, <3>1
    <3>3. QED
      BY <1>7, <3>1, <3>2
  <2>3. ASSUME Present(k) PROVE k \in NamesOf(table)
    <3>1. <<k, chain[pos].data>> \in Entries(table)
      BY <1>7, <2>3
    <3>2. QED
      BY <2>1, <3>1
  <2>4. QED
    BY <2>2, <2>3
<1>9. Present(k) => chain[pos].data \in Data
  BY <1>3, <1>5 DEF Cell
<1>10. \A d \in Data : d # NULL
  BY HashTableAssumption
<1>11. QED
  BY <1>4, <1>5, <1>7, <1>8, <1>9, <1>10 DEF b, chain, n, pos

-----------------------------------------------------------------------------
(* The inductive invariant *)

Live == Len(CellsOf(table, capacity))

\* What is true of the table whatever was damaged: the names are where they
\* belong, there are no more cells than counted and than the load factor
\* allows, and what a clear has still to remove is there.
IInv ==
    /\ TypeOK
    /\ Placed(table, capacity)
    /\ Live <= count
    /\ Live <= Threshold(capacity)
    /\ HasFreed(table) => damaged
    /\ \A i, j \in 1..Len(doomed) :
          doomed[i] \in NamesOf(table) /\ (doomed[i] = doomed[j] => i = j)

\* The load factor lets a larger array have at least one cell more.
LEMMA ThresholdGrows ==
    ASSUME NEW cap \in Nat \ {0}
    PROVE  /\ Threshold(cap) \in Nat
           /\ Threshold(cap) + 1 <= Threshold(2 * cap + 1)
BY DEF Threshold

\* The names of a table in which a name has a new datum, or from which one was
\* taken.
LEMMA NamesAfter ==
    ASSUME NEW cap \in Nat, NEW tab \in Table(cap),
           NEW newCap \in Nat, NEW new \in Table(newCap)
    PROVE  /\ \A k, d : Stores(tab, new, k, d) =>
                NamesOf(new) = NamesOf(tab) \cup {k}
           /\ \A k : Drops(tab, new, k) =>
                NamesOf(new) = NamesOf(tab) \ {k}
<1>1. NamesOf(new) = {e[1] : e \in Entries(new)} /\ NamesOf(tab) = {e[1] : e \in Entries(tab)}
  BY EntryPlace
<1>2. ASSUME NEW k, NEW d, Stores(tab, new, k, d)
      PROVE  NamesOf(new) = NamesOf(tab) \cup {k}
  <2>1. <<k, d>>[1] = k
    OBVIOUS
  <2>2. QED
    BY <1>1, <1>2, <2>1 DEF Stores
<1>3. ASSUME NEW k, Drops(tab, new, k)
      PROVE  NamesOf(new) = NamesOf(tab) \ {k}
  BY <1>1, <1>3 DEF Drops
<1>4. QED
  BY <1>2, <1>3

\* The number of cells follows the names.
LEMMA LiveAfter ==
    ASSUME NEW cap \in Nat, NEW tab \in Table(cap), Placed(tab, cap),
           NEW newCap \in Nat, NEW new \in Table(newCap), Placed(new, newCap)
    PROVE  /\ NamesOf(new) = NamesOf(tab) =>
                Len(CellsOf(new, newCap)) = Len(CellsOf(tab, cap))
           /\ \A k : k \notin NamesOf(tab) /\ NamesOf(new) = NamesOf(tab) \cup {k} =>
                Len(CellsOf(new, newCap)) = Len(CellsOf(tab, cap)) + 1
           /\ \A k : NamesOf(new) = NamesOf(tab) \ {k} =>
                Len(CellsOf(new, newCap)) <= Len(CellsOf(tab, cap))
           /\ Len(CellsOf(tab, cap)) \in Nat
           /\ Len(CellsOf(new, newCap)) \in Nat
<1>1. /\ IsFiniteSet(NamesOf(tab)) /\ IsFiniteSet(NamesOf(new))
      /\ Len(CellsOf(tab, cap)) = Cardinality(NamesOf(tab))
      /\ Len(CellsOf(new, newCap)) = Cardinality(NamesOf(new))
      /\ Len(CellsOf(tab, cap)) \in Nat /\ Len(CellsOf(new, newCap)) \in Nat
  BY LiveIsNames
<1>2. \A k : k \notin NamesOf(tab) =>
         Cardinality(NamesOf(tab) \cup {k}) = Cardinality(NamesOf(tab)) + 1
  BY <1>1, FS_AddElement
<1>3. ASSUME NEW k, NamesOf(new) = NamesOf(tab) \ {k}
      PROVE  Cardinality(NamesOf(new)) <= Cardinality(NamesOf(tab))
  <2>1. NamesOf(new) \subseteq NamesOf(tab)
    BY <1>3
  <2>2. QED
    BY <1>1, <2>1, FS_Subset
<1>4. QED
  BY <1>1, <1>2, <1>3

\* At the start there is nothing in the table.
LEMMA InitIInv == hash_table_new => IInv
<1> SUFFICES ASSUME hash_table_new PROVE IInv
  OBVIOUS
<1>1. /\ capacity \in Nat \ {0} /\ capacity = InitialCapacity
      /\ table = [b \in 0..(capacity - 1) |-> <<>>]
  BY HashTableAssumption DEF hash_table_new
<1>2. TypeOK
  BY <1>1, EmptySeq DEF hash_table_new, TypeOK
<1>3. /\ table \in Table(capacity) /\ DOMAIN table = 0..(capacity - 1)
      /\ \A b \in 0..(capacity - 1) : table[b] = <<>>
  BY <1>1, EmptySeq DEF Table
<1>4. Placed(table, capacity) /\ ~HasFreed(table)
  BY <1>3 DEF Placed, HasFreed
<1>5. NamesOf(table) = {}
  BY <1>3 DEF NamesOf, Contents, Range
<1>6. Live = 0
  BY <1>1, <1>3, <1>4, <1>5, LiveIsNames, FS_EmptySet DEF Live
<1>7. count = 0 /\ Len(doomed) = 0
  BY EmptySeq DEF hash_table_new
<1>8. Threshold(capacity) \in Nat
  BY <1>1, ThresholdGrows
<1>9. QED
  BY <1>2, <1>4, <1>6, <1>7, <1>8 DEF IInv

-----------------------------------------------------------------------------
(* What a step does to the table *)

\* Nothing, as far as a lookup can tell; k has a new datum; k is gone.
Same == UNCHANGED <<capacity, table, damaged>>

Stored(k, d) ==
    /\ Stores(table, table', k, d)
    /\ UNCHANGED damaged

Dropped(k) ==
    /\ k \in NamesOf(table)
    /\ Drops(table, table', k)
    /\ damaged => damaged'

\* What the invariant says about the table by itself.
LEMMA TableFacts ==
    IInv => /\ capacity \in Nat \ {0} /\ count \in Nat
            /\ table \in Table(capacity)
            /\ Placed(table, capacity)
            /\ Live \in Nat /\ Live <= count /\ Live <= Threshold(capacity)
<1> SUFFICES ASSUME IInv
             PROVE  /\ capacity \in Nat \ {0} /\ count \in Nat
                    /\ table \in Table(capacity)
                    /\ Placed(table, capacity)
                    /\ Live \in Nat /\ Live <= count /\ Live <= Threshold(capacity)
  OBVIOUS
<1>1. /\ capacity \in Nat \ {0} /\ count \in Nat
      /\ table \in Table(capacity)
      /\ Placed(table, capacity)
      /\ Live <= count /\ Live <= Threshold(capacity)
  BY DEF IInv, TypeOK, Table
<1>2. QED
  BY <1>1, LiveIsNames DEF Live

\* Undefined behaviour is an end, and leaves the table as it is here.
LEMMA UndefinedKeeps == IInv /\ Undefined => IInv' /\ Same
<1> SUFFICES ASSUME IInv, Undefined PROVE IInv' /\ Same
  OBVIOUS
<1>1. UNCHANGED <<capacity, count, table, damaged, doomed>> /\ status' = "undefined"
  BY DEF Undefined
<1>2. TypeOK'
  BY <1>1 DEF IInv, TypeOK
<1>3. QED
  BY <1>1, <1>2 DEF IInv, Live, Same

\* A larger array holds what the old one held, and the count is high enough.
LEMMA GrowKeeps ==
    ASSUME IInv, doomed = <<>>, NEW k \in Keys, NEW d \in Data, k \notin NamesOf(table),
           Grow(k, d)
    PROVE  IInv' /\ (Same \/ Stored(k, d))
<1> DEFINE added == add_node(table, capacity, k, d)
           larger == Rehashed(added, capacity, 2 * capacity + 1)
<1>1. /\ capacity \in Nat \ {0} /\ count \in Nat
      /\ table \in Table(capacity) /\ Placed(table, capacity)
      /\ Live \in Nat /\ Live <= count /\ Live <= Threshold(capacity)
  BY TableFacts
<1>2. /\ status \in {"open", "closed", "undefined"} /\ damaged \in BOOLEAN
      /\ HasFreed(table) => damaged
  BY DEF IInv, TypeOK
<1>3. /\ added \in Table(capacity) /\ Placed(added, capacity)
      /\ Entries(added) = Entries(table) \cup {<<k, d>>}
      /\ HasFreed(added) => HasFreed(table)
  BY <1>1, AddNode
<1>4. {e \in Entries(table) : e[1] # k} = Entries(table)
  <2>1. NamesOf(table) = {e[1] : e \in Entries(table)}
    BY <1>1, EntryPlace
  <2>2. QED
    BY <2>1
<1> HIDE DEF added
<1>5. Len(CellsOf(added, capacity)) = Live + 1
  <2>1. NamesOf(added) = NamesOf(table) \cup {k}
    <3>1. capacity \in Nat
      BY <1>1
    <3>2. /\ NamesOf(added) = {e[1] : e \in Entries(added)}
          /\ NamesOf(table) = {e[1] : e \in Entries(table)}
      BY <1>1, <1>3, <3>1, EntryPlace
    <3>3. <<k, d>>[1] = k
      OBVIOUS
    <3>4. QED
      BY <1>3, <3>2, <3>3
  <2>2. QED
    BY <1>1, <1>3, <2>1, LiveAfter DEF Live
<1>6. doomed \in Seq(Keys) /\ Len(doomed) = 0
  BY EmptySeq
<1>7. CASE /\ count + 1 <= Threshold(capacity)
           /\ table' = added /\ count' = count + 1
           /\ UNCHANGED <<capacity, status, damaged, doomed>>
  <2>1. TypeOK'
    BY <1>1, <1>2, <1>3, <1>6, <1>7 DEF TypeOK, Table
  <2>2. Live' = Live + 1
    BY <1>5, <1>7 DEF Live
  <2>3. Live' <= count' /\ Live' <= Threshold(capacity)'
    <3>1. Threshold(capacity) \in Nat
      BY <1>1, ThresholdGrows
    <3>2. Threshold(capacity)' = Threshold(capacity)
      BY <1>7
    <3>3. QED
      BY <1>1, <1>7, <2>2, <3>1, <3>2
  <2>4. Placed(table, capacity)' /\ (HasFreed(table)' => damaged')
    BY <1>2, <1>3, <1>7
  <2>5. IInv'
    BY <1>6, <1>7, <2>1, <2>3, <2>4 DEF IInv
  <2>6. Stored(k, d)
    BY <1>3, <1>4, <1>7 DEF Stored, Stores
  <2>7. QED
    BY <2>5, <2>6
<1>8. CASE HasFreed(added) /\ Undefined
  BY <1>8, UndefinedKeeps
<1>9. CASE /\ resize(added, count + 1)
           /\ UNCHANGED <<status, damaged, doomed>>
  <2>1. /\ capacity' = 2 * capacity + 1 /\ capacity' \in Nat \ {0}
        /\ table' = larger /\ count' = count + 1 + Len(CellsOf(added, capacity))
        /\ UNCHANGED <<status, damaged, doomed>>
    <3>1. /\ capacity' = 2 * capacity + 1
          /\ table' = Rehashed(added, capacity, capacity')
          /\ count' = count + 1 + Len(CellsOf(added, capacity))
          /\ UNCHANGED <<status, damaged, doomed>>
      BY <1>9 DEF resize
    <3>2. QED
      BY <1>1, <3>1
  <2>2. /\ larger \in Table(capacity') /\ Placed(larger, capacity')
        /\ Entries(larger) = Entries(added) /\ ~HasFreed(larger)
    BY <1>1, <1>3, <2>1, RehashedKeeps
  <2> HIDE DEF larger
  <2>3. Live' = Live + 1
    <3>1. NamesOf(larger) = NamesOf(added)
      <4>1. NamesOf(larger) = {e[1] : e \in Entries(larger)}
        BY <2>1, <2>2, EntryPlace
      <4>2. NamesOf(added) = {e[1] : e \in Entries(added)}
        BY <1>1, <1>3, EntryPlace
      <4>3. QED
        BY <2>2, <4>1, <4>2
    <3>2. Len(CellsOf(larger, capacity')) = Len(CellsOf(added, capacity))
      BY <1>1, <1>3, <2>1, <2>2, <3>1, LiveAfter
    <3>3. QED
      BY <1>5, <2>1, <3>2 DEF Live
  <2>4. TypeOK'
    BY <1>1, <1>2, <1>5, <1>6, <2>1, <2>2 DEF TypeOK, Table
  <2>5. Live' <= count' /\ Live' <= Threshold(capacity)'
    <3>1. Threshold(capacity) \in Nat /\ Threshold(capacity) + 1 <= Threshold(2 * capacity + 1)
      BY <1>1, ThresholdGrows
    <3>2. Threshold(2 * capacity + 1) \in Nat
      BY <1>1, <2>1, ThresholdGrows
    <3>3. Threshold(capacity)' = Threshold(2 * capacity + 1)
      BY <2>1
    <3>4. Live + 1 <= Threshold(2 * capacity + 1)
      BY <1>1, <3>1, <3>2
    <3>5. Live + 1 <= count + 1 + (Live + 1)
      BY <1>1
    <3>6. QED
      BY <1>5, <2>1, <2>3, <3>3, <3>4, <3>5
  <2>6. Placed(table, capacity)' /\ (HasFreed(table)' => damaged')
    BY <2>1, <2>2
  <2>7. IInv'
    BY <1>6, <2>1, <2>4, <2>5, <2>6 DEF IInv
  <2>8. Stored(k, d)
    BY <1>3, <1>4, <2>1, <2>2 DEF Stored, Stores
  <2>9. QED
    BY <2>7, <2>8
<1>10. QED
  BY <1>7, <1>8, <1>9 DEF Grow, added

\* A put stores the datum under its name, or ends in undefined behaviour.
LEMMA PutKeeps ==
    ASSUME IInv, NEW k \in Keys, NEW d \in Data, hash_table_put(k, d)
    PROVE  IInv' /\ (Same \/ Stored(k, d))
<1>0. doomed = <<>> /\ Len(doomed) = 0
  BY EmptySeq DEF hash_table_put, Ready
<1>1. /\ capacity \in Nat \ {0} /\ count \in Nat
      /\ table \in Table(capacity) /\ Placed(table, capacity)
      /\ Live \in Nat /\ Live <= count /\ Live <= Threshold(capacity)
  BY TableFacts
<1>2. /\ Present(k) <=> k \in NamesOf(table)
      /\ Present(k) => /\ Position(k) \in 1..Len(table[Index(k, capacity)])
                       /\ table[Index(k, capacity)][Position(k)].name = k
  BY <1>1, Lookup
<1>3. CASE /\ Present(k)
           /\ table' = [table EXCEPT ![Index(k, capacity)][Position(k)].data = d]
           /\ UNCHANGED <<capacity, count, status, damaged, doomed>>
  <2> DEFINE pos == Position(k)
             new == WithDatum(table, Index(k, capacity), pos, d)
  <2>0. /\ new = WithDatum(table, Index(k, capacity), pos, d)
        /\ pos \in 1..Len(table[Index(k, capacity)])
        /\ table[Index(k, capacity)][pos].name = k
    BY <1>2, <1>3
  <2>2. table' = new /\ UNCHANGED <<capacity, count, status, damaged, doomed>>
    BY <1>3 DEF WithDatum
  <2> HIDE DEF pos, new
  <2>1. /\ new \in Table(capacity) /\ Placed(new, capacity)
        /\ Stores(table, new, k, d)
        /\ HasFreed(new) => HasFreed(table)
    BY <1>1, <2>0, SetData
  <2>3. NamesOf(new) = NamesOf(table)
    <3>1. capacity \in Nat
      BY <1>1
    <3>2. NamesOf(new) = NamesOf(table) \cup {k}
      BY <1>1, <2>1, <3>1, NamesAfter
    <3>3. QED
      BY <1>2, <1>3, <3>2
  <2>4. Live' = Live
    <3>1. capacity \in Nat
      BY <1>1
    <3>2. Len(CellsOf(new, capacity)) = Len(CellsOf(table, capacity))
      BY <1>1, <2>1, <2>3, <3>1, LiveAfter
    <3>3. QED
      BY <2>2, <3>2 DEF Live
  <2>5. TypeOK'
    BY <1>1, <2>1, <2>2 DEF IInv, TypeOK, Table
  <2>6. Placed(table, capacity)' /\ (HasFreed(table)' => damaged')
    BY <2>1, <2>2 DEF IInv
  <2>7. Live' <= count' /\ Live' <= Threshold(capacity)'
    BY <1>1, <2>2, <2>4
  <2>8. IInv'
    BY <1>0, <2>2, <2>5, <2>6, <2>7 DEF IInv
  <2>9. Stored(k, d)
    BY <2>1, <2>2 DEF Stored
  <2>10. QED
    BY <2>8, <2>9
<1>4. CASE ~Present(k) /\ Grow(k, d)
  BY <1>0, <1>2, <1>4, GrowKeeps
<1>5. CASE WalksFreed(k) /\ Undefined
  BY <1>5, UndefinedKeeps
<1>6. QED
  BY <1>3, <1>4, <1>5 DEF hash_table_put

\* A removal takes the name out, or does nothing to the table; a freed cell that
\* stays linked is damage.
LEMMA RemoveKeeps ==
    ASSUME IInv, NEW k \in Keys, hash_table_remove(k)
    PROVE  /\ UNCHANGED <<capacity, count>>
           /\ table' \in Table(capacity) /\ Placed(table', capacity)
           /\ Live' <= Live
           /\ status' \in {"open", "closed", "undefined"}
           /\ damaged' \in BOOLEAN
           /\ HasFreed(table') => damaged'
           /\ Same \/ Dropped(k)
<1> DEFINE b == Index(k, capacity)
           chain == table[b]
           i == Position(k)
           short == IF i = 1 THEN WithoutHead(chain) ELSE RemoveAt(chain, i)
<1>1. /\ capacity \in Nat \ {0} /\ count \in Nat
      /\ table \in Table(capacity) /\ Placed(table, capacity)
      /\ Live \in Nat
  BY TableFacts
<1>2. /\ status \in {"open", "closed", "undefined"} /\ damaged \in BOOLEAN
      /\ HasFreed(table) => damaged
  BY DEF IInv, TypeOK
<1>3. /\ Present(k) <=> k \in NamesOf(table)
      /\ Present(k) => i \in 1..Len(chain) /\ chain[i].name = k
  BY <1>1, Lookup
<1>4. CASE Present(k) /\ Unlink(b, short)
  <2> DEFINE new == WithChain(table, b, short)
  <2>1. chain \in Seq(Cell)
    BY <1>1, IndexRange DEF Table
  <2>2. Shorter(chain, short, i)
    <3>1. CASE i = 1
      <4>1. chain # <<>>
        BY <1>3, <1>4, EmptySeq
      <4>2. QED
        BY <2>1, <3>1, <4>1, WithoutHeadShorter
    <3>2. CASE i # 1
      <4>1. i \in 1..Len(chain)
        BY <1>3, <1>4
      <4> HIDE DEF i, chain
      <4>2. QED
        BY <2>1, <3>2, <4>1, RemoveAtShorter
    <3>3. QED
      BY <3>1, <3>2
  <2>3. /\ table' = new /\ damaged' = (damaged \/ HasFreed(table'))
        /\ UNCHANGED <<capacity, count, status>>
    BY <1>4 DEF Unlink, WithChain
  <2>9. /\ new = WithChain(table, Index(k, capacity), short)
        /\ i \in 1..Len(table[Index(k, capacity)])
        /\ table[Index(k, capacity)][i].name = k
        /\ Shorter(table[Index(k, capacity)], short, i)
    BY <1>3, <1>4, <2>2
  <2> HIDE DEF short, new, i
  <2>4. new \in Table(capacity) /\ Placed(new, capacity) /\ Drops(table, new, k)
    BY <1>1, <2>9, Removal
  <2>5. Live' <= Live
    <3>1. capacity \in Nat
      BY <1>1
    <3>2. NamesOf(new) = NamesOf(table) \ {k}
      BY <1>1, <2>4, <3>1, NamesAfter
    <3>3. Len(CellsOf(new, capacity)) <= Len(CellsOf(table, capacity))
      BY <1>1, <2>4, <3>1, <3>2, LiveAfter
    <3>4. QED
      BY <2>3, <3>3 DEF Live
  <2>6. Dropped(k)
    BY <1>3, <1>4, <2>3, <2>4 DEF Dropped
  <2>7. damaged' \in BOOLEAN
    BY <1>2, <2>3 DEF HasFreed
  <2>8. QED
    BY <1>1, <1>2, <2>3, <2>4, <2>5, <2>6, <2>7
<1>5. CASE /\ UNCHANGED <<capacity, count, table, damaged>>
           /\ status' \in {"open", "closed", "undefined"}
  <2>1. Live' = Live
    BY <1>5 DEF Live
  <2>2. QED
    BY <1>1, <1>2, <1>5, <2>1 DEF Same
<1>6. \/ Present(k) /\ Unlink(b, short)
      \/ /\ UNCHANGED <<capacity, count, table, damaged>>
         /\ status' = status \/ status' = "undefined"
  BY DEF hash_table_remove
<1>7. QED
  BY <1>2, <1>4, <1>5, <1>6

\* A removal outside a clear.
LEMMA RemoveStep ==
    ASSUME IInv, NEW k \in Keys, remove(k)
    PROVE  IInv' /\ (Same \/ Dropped(k))
<1>1. /\ UNCHANGED <<capacity, count>>
      /\ table' \in Table(capacity) /\ Placed(table', capacity)
      /\ Live' <= Live
      /\ status' \in {"open", "closed", "undefined"}
      /\ damaged' \in BOOLEAN
      /\ HasFreed(table') => damaged'
      /\ Same \/ Dropped(k)
  BY RemoveKeeps DEF remove
<1>2. /\ capacity \in Nat \ {0} /\ count \in Nat
      /\ Live \in Nat /\ Live <= count /\ Live <= Threshold(capacity)
  BY TableFacts
<1>3. doomed = <<>> /\ doomed' = <<>> /\ Len(doomed') = 0
  BY EmptySeq DEF remove, Ready
<1>4. TypeOK'
  BY <1>1, <1>2, <1>3, EmptySeq DEF TypeOK, Table
<1>5. Live' \in Nat
  BY <1>1, <1>2, LiveIsNames DEF Live
<1>6. Live' <= count' /\ Live' <= Threshold(capacity)'
  <2>1. Threshold(capacity)' = Threshold(capacity) /\ count' = count
    BY <1>1
  <2>2. Threshold(capacity) \in Nat
    BY <1>2, ThresholdGrows
  <2>3. QED
    BY <1>1, <1>2, <1>5, <2>1, <2>2
<1>7. Placed(table, capacity)' /\ (HasFreed(table)' => damaged')
  BY <1>1
<1>8. QED
  BY <1>1, <1>3, <1>4, <1>6, <1>7 DEF IInv

\* A clear removes the next of the names it collected: the others are still
\* there, because it is another one.
LEMMA RemoveDoomedStep ==
    ASSUME IInv, RemoveDoomed
    PROVE  /\ IInv'
           /\ Head(doomed) \in Keys
           /\ Same \/ Dropped(Head(doomed))
<1> DEFINE k == Head(doomed)
           rest == Tail(doomed)
           n == Len(doomed)
<1>1. doomed \in Seq(Keys) /\ doomed # <<>> /\ doomed' = rest /\ hash_table_remove(k)
  BY DEF RemoveDoomed, IInv, TypeOK
<1>2. /\ k \in Keys /\ n \in Nat /\ 1 \in 1..n /\ k = doomed[1]
      /\ rest \in Seq(Keys) /\ Len(rest) = n - 1
      /\ \A i \in 1..(n - 1) : i + 1 \in 1..n /\ rest[i] = doomed[i + 1]
  <2>1. n \in Nat /\ n # 0
    BY <1>1, EmptySeq, LenProperties
  <2>2. QED
    BY <1>1, <2>1, HeadTailProperties
<1>3. /\ UNCHANGED <<capacity, count>>
      /\ table' \in Table(capacity) /\ Placed(table', capacity)
      /\ Live' <= Live
      /\ status' \in {"open", "closed", "undefined"}
      /\ damaged' \in BOOLEAN
      /\ HasFreed(table') => damaged'
      /\ Same \/ Dropped(k)
  BY <1>1, <1>2, RemoveKeeps
<1> HIDE DEF k, rest, n
<1>4. /\ capacity \in Nat \ {0} /\ count \in Nat /\ table \in Table(capacity)
      /\ Live \in Nat /\ Live <= count /\ Live <= Threshold(capacity)
  BY TableFacts
<1>5. TypeOK'
  BY <1>1, <1>2, <1>3, <1>4 DEF TypeOK, Table
<1>6. Live' \in Nat
  BY <1>3, <1>4, LiveIsNames DEF Live
<1>7. Live' <= count' /\ Live' <= Threshold(capacity)'
  <2>1. Threshold(capacity)' = Threshold(capacity) /\ count' = count
    BY <1>3
  <2>2. Threshold(capacity) \in Nat
    BY <1>4, ThresholdGrows
  <2>3. QED
    BY <1>3, <1>4, <1>6, <2>1, <2>2
<1>8. Placed(table, capacity)' /\ (HasFreed(table)' => damaged')
  BY <1>3
<1>9. \A i, j \in 1..n : doomed[i] \in NamesOf(table) /\ (doomed[i] = doomed[j] => i = j)
  BY DEF IInv, n
<1>10. \A i \in 1..(n - 1) : rest[i] \in NamesOf(table) /\ rest[i] # k
  BY <1>2, <1>9
<1>11. \A i, j \in 1..(n - 1) : rest[i] = rest[j] => i = j
  <2> SUFFICES ASSUME NEW i \in 1..(n - 1), NEW j \in 1..(n - 1), rest[i] = rest[j]
               PROVE  i = j
    OBVIOUS
  <2>1. i + 1 = j + 1
    BY <1>2, <1>9
  <2>2. QED
    BY <1>2, <2>1
<1>12. \A i \in 1..(n - 1) : rest[i] \in NamesOf(table')
  <2>1. CASE Same
    <3>1. table' = table
      BY <2>1 DEF Same
    <3>2. QED
      BY <1>10, <3>1
  <2>2. CASE Dropped(k)
    <3>1. capacity \in Nat /\ Drops(table, table', k)
      BY <1>4, <2>2 DEF Dropped
    <3>2. NamesOf(table') = NamesOf(table) \ {k}
      BY <1>3, <1>4, <3>1, NamesAfter
    <3>3. QED
      BY <1>10, <3>2
  <2>3. QED
    BY <1>3, <2>1, <2>2
<1>13. IInv'
  BY <1>1, <1>2, <1>3, <1>5, <1>7, <1>8, <1>11, <1>12 DEF IInv
<1>14. QED
  BY <1>2, <1>3, <1>13 DEF k

\* A clear begins: it has names to remove that are there, and none twice.
LEMMA CollectStep ==
    ASSUME IInv, NEW expired \in SUBSET Keys, Collect(expired)
    PROVE  IInv' /\ Same
<1>1. CASE /\ doomed' = Collected(expired)
           /\ UNCHANGED <<capacity, count, table, status, damaged>>
  <2>1. capacity \in Nat /\ table \in Table(capacity) /\ Placed(table, capacity)
    BY TableFacts
  <2>2. /\ doomed' \in Seq(Keys)
        /\ \A i, j \in 1..Len(doomed') :
              doomed'[i] \in NamesOf(table) /\ (doomed'[i] = doomed'[j] => i = j)
    BY <1>1, <2>1, CollectedList
  <2>3. TypeOK'
    BY <1>1, <2>2 DEF IInv, TypeOK
  <2>4. Live' = Live
    BY <1>1 DEF Live
  <2>5. QED
    BY <1>1, <2>2, <2>3, <2>4 DEF IInv, Same
<1>2. CASE HasFreed(table) /\ Undefined
  BY <1>2, UndefinedKeeps
<1>3. QED
  BY <1>1, <1>2 DEF Collect

\* Every step keeps the invariant; to a lookup it stores one datum, drops one
\* name, or changes nothing.
LEMMA StepIInv ==
    IInv /\ [Next]_vars =>
        /\ IInv'
        /\ \/ Same
           \/ \E k \in Keys, d \in Data : Stored(k, d)
           \/ \E k \in Keys : Dropped(k)
<1> SUFFICES ASSUME IInv, [Next]_vars
             PROVE  /\ IInv'
                    /\ \/ Same
                       \/ \E k \in Keys, d \in Data : Stored(k, d)
                       \/ \E k \in Keys : Dropped(k)
  OBVIOUS
<1>1. CASE \E k \in Keys, d \in Data : hash_table_put(k, d)
  BY <1>1, PutKeeps
<1>2. CASE \E k \in Keys : remove(k)
  BY <1>2, RemoveStep
<1>3. CASE \E expired \in SUBSET Keys : Collect(expired)
  BY <1>3, CollectStep
<1>4. CASE RemoveDoomed
  BY <1>4, RemoveDoomedStep
<1>5. CASE UNCHANGED vars
  <2>1. UNCHANGED <<capacity, count, table, status, damaged, doomed>>
    BY <1>5 DEF vars
  <2>2. TypeOK'
    BY <2>1 DEF IInv, TypeOK
  <2>3. QED
    BY <2>1, <2>2 DEF IInv, Live, Same
<1>6. CASE \E k \in Keys : get(k)
  BY <1>5, <1>6, UndefinedKeeps DEF get
<1>7. CASE hash_table_free
  <2>1. CASE Undefined
    BY <2>1, UndefinedKeeps
  <2>2. CASE status' = "closed" /\ UNCHANGED <<capacity, count, table, damaged, doomed>>
    <3>1. TypeOK'
      BY <2>2 DEF IInv, TypeOK
    <3>2. QED
      BY <2>2, <3>1 DEF IInv, Live, Same
  <2>3. QED
    BY <1>7, <2>1, <2>2 DEF hash_table_free
<1>8. CASE Over
  BY <1>5, <1>8 DEF Over
<1>9. QED
  BY <1>1, <1>2, <1>3, <1>4, <1>5, <1>6, <1>7, <1>8 DEF Next

-----------------------------------------------------------------------------
(* Theorems *)

\* The inductive invariant holds in every state of every behaviour.
THEOREM AlwaysIInv == Spec => []IInv
<1>1. IInv /\ [Next]_vars => IInv'
  BY StepIInv
<1>2. QED
  BY <1>1, InitIInv, PTL DEF Spec

\* The table is what hash_table.c declares: as many chains as the capacity says,
\* each of cells with a name and a datum.
THEOREM TypeCorrect == Spec => []TypeOK
<1>1. IInv => TypeOK
  BY DEF IInv
<1>2. QED
  BY <1>1, AlwaysIInv, PTL

\* However often hash_table_put resized the array, and whatever hash_table_remove
\* unlinked, a name has one cell at most and a lookup will pass it.
THEOREM NamesWellPlaced == Spec => []WellPlaced
<1>1. IInv => WellPlaced
  BY DEF IInv, WellPlaced
<1>2. QED
  BY <1>1, AlwaysIInv, PTL

\* There are never more cells than table->count says, so a clear does not
\* overrun the array of count elements in which it collects names.
THEOREM CountCoversCells == Spec => []CountCovers
<1>1. IInv => CountCovers
  BY DEF IInv, CountCovers, Live
<1>2. QED
  BY <1>1, AlwaysIInv, PTL

\* hash_table_remove finds every name a clear has collected, after whatever the
\* clear removed before it: its walk does not run off the end of a chain.
THEOREM ClearsFind == Spec => []RemovalFinds
<1>1. IInv => RemovalFinds
  <2> SUFFICES ASSUME IInv, NEW i \in DOMAIN doomed, NEW j \in DOMAIN doomed
               PROVE  Present(doomed[i]) /\ (doomed[i] = doomed[j] => i = j)
    BY DEF RemovalFinds
  <2>1. doomed \in Seq(Keys) /\ i \in 1..Len(doomed) /\ j \in 1..Len(doomed)
    BY DEF IInv, TypeOK
  <2>2. /\ doomed[i] \in Keys /\ doomed[i] \in NamesOf(table)
        /\ doomed[i] = doomed[j] => i = j
    BY <2>1 DEF IInv
  <2>3. Present(doomed[i])
    BY <2>2, TableFacts, Lookup
  <2>4. QED
    BY <2>2, <2>3
<1>2. QED
  BY <1>1, AlwaysIInv, PTL

\* A freed cell on the way of a walk is damage.
LEMMA FreedIsDamage ==
    ASSUME IInv, NEW k \in Keys
    PROVE  /\ \A i \in 1..Len(table[Index(k, capacity)]) :
                 table[Index(k, capacity)][i].freed => damaged
           /\ WalksFreed(k) => damaged
<1> DEFINE b == Index(k, capacity)
           chain == table[b]
           n == Len(chain)
<1>1. /\ capacity \in Nat \ {0} /\ table \in Table(capacity) /\ Placed(table, capacity)
  BY TableFacts
<1>2. b \in DOMAIN table /\ chain \in Seq(Cell)
  BY <1>1, IndexRange DEF Table
<1>3. DOMAIN chain = 1..n
  BY <1>2, LenProperties
<1>4. \A i \in 1..n : chain[i].freed => damaged
  BY <1>2, <1>3 DEF IInv, HasFreed
<1>5. Present(k) => Position(k) \in 1..n
  BY <1>1, Lookup
<1>6. Walked(k) \subseteq 1..n
  <2>1. n \in Nat
    BY <1>2, LenProperties
  <2>2. Walked(k) = IF Present(k) THEN 1..Position(k) ELSE 1..n
    BY <1>3 DEF Walked, Bucket
  <2> HIDE DEF n
  <2>3. QED
    BY <1>5, <2>1, <2>2
<1>7. WalksFreed(k) => damaged
  <2>1. WalksFreed(k) <=> \E i \in Walked(k) : chain[i].freed
    BY DEF WalksFreed, Bucket
  <2>2. QED
    BY <1>4, <1>6, <2>1
<1>8. QED
  BY <1>4, <1>7

\* Removing a name that is there is defined if nothing is damaged.
LEMMA RemoveDefined ==
    ASSUME IInv, NEW k \in Keys, hash_table_remove(k), k \in NamesOf(table)
    PROVE  (status' = status \/ damaged) /\ (damaged => damaged')
<1> DEFINE b == Index(k, capacity)
           chain == table[b]
           i == Position(k)
           freesAgain == IF i = 1 THEN Len(chain) >= 3 /\ chain[3].freed ELSE chain[i].freed
           readsFreed == WalksFreed(k) \/ (i = 1 /\ Len(chain) >= 2 /\ chain[2].freed)
<1>1. /\ capacity \in Nat \ {0} /\ table \in Table(capacity) /\ Placed(table, capacity)
  BY TableFacts
<1>2. Present(k) /\ i \in 1..Len(chain)
  BY <1>1, Lookup
<1>3. chain \in Seq(Cell) /\ Len(chain) \in Nat
  BY <1>1, IndexRange, LenProperties DEF Table
<1>4. /\ \A j \in 1..Len(chain) : chain[j].freed => damaged
      /\ WalksFreed(k) => damaged
  BY FreedIsDamage
<1> HIDE DEF i, chain
<1>5. freesAgain \/ readsFreed => damaged
  BY <1>2, <1>3, <1>4
<1>6. \/ UNCHANGED status /\ (damaged => damaged')
      \/ (freesAgain \/ readsFreed) /\ UNCHANGED damaged
  BY <1>2 DEF hash_table_remove, Unlink, i, chain
<1> HIDE DEF freesAgain, readsFreed
<1>7. QED
  BY <1>5, <1>6

\* A step that ends in undefined behaviour starts from a damaged table.
LEMMA DefinedStep ==
    IInv /\ DefinedUntilDamaged /\ [Next]_vars => DefinedUntilDamaged'
<1> SUFFICES ASSUME IInv, DefinedUntilDamaged, [Next]_vars
             PROVE  status' = "undefined" => damaged'
  BY DEF DefinedUntilDamaged
<1>1. ASSUME status' = status \/ damaged \/ status' = "closed", damaged => damaged'
      PROVE  status' = "undefined" => damaged'
  BY <1>1 DEF DefinedUntilDamaged
<1>2. HasFreed(table) => damaged
  BY DEF IInv
<1>3. Undefined => UNCHANGED damaged
  BY DEF Undefined
<1>4. ASSUME NEW k \in Keys, NEW d \in Data, hash_table_put(k, d)
      PROVE  (status' = status \/ damaged) /\ (damaged => damaged')
  <2>1. WalksFreed(k) => damaged
    BY FreedIsDamage
  <2>2. ASSUME ~Present(k) PROVE HasFreed(add_node(table, capacity, k, d)) => damaged
    <3>1. /\ capacity \in Nat \ {0} /\ table \in Table(capacity) /\ Placed(table, capacity)
      BY TableFacts
    <3>2. k \notin NamesOf(table)
      BY <2>2, <3>1, Lookup
    <3>3. QED
      BY <1>2, <3>1, <3>2, AddNode
  <2>3. QED
    BY <1>3, <1>4, <2>1, <2>2 DEF hash_table_put, Grow
<1>5. ASSUME NEW k \in Keys, remove(k)
      PROVE  (status' = status \/ damaged) /\ (damaged => damaged')
  <2>1. /\ capacity \in Nat \ {0} /\ table \in Table(capacity) /\ Placed(table, capacity)
    BY TableFacts
  <2>2. k \in NamesOf(table) /\ hash_table_remove(k)
    BY <1>5, <2>1, Lookup DEF remove
  <2>3. QED
    BY <2>2, RemoveDefined
<1>6. ASSUME RemoveDoomed
      PROVE  (status' = status \/ damaged) /\ (damaged => damaged')
  <2>1. doomed \in Seq(Keys) /\ doomed # <<>>
    BY <1>6 DEF IInv, TypeOK, RemoveDoomed
  <2>2. 1 \in 1..Len(doomed) /\ Head(doomed) = doomed[1] /\ Head(doomed) \in Keys
    <3>1. Len(doomed) \in Nat /\ Len(doomed) # 0
      BY <2>1, EmptySeq, LenProperties
    <3>2. QED
      BY <2>1, <3>1
  <2>3. Head(doomed) \in NamesOf(table)
    BY <2>2 DEF IInv
  <2>4. QED
    BY <1>6, <2>2, <2>3, RemoveDefined DEF RemoveDoomed
<1>7. ASSUME NEW expired \in SUBSET Keys, Collect(expired)
      PROVE  (status' = status \/ damaged) /\ (damaged => damaged')
  BY <1>2, <1>3, <1>7 DEF Collect
<1>8. ASSUME NEW k \in Keys, get(k)
      PROVE  (status' = status \/ damaged) /\ (damaged => damaged')
  BY <1>3, <1>8, FreedIsDamage DEF get, vars
<1>9. ASSUME hash_table_free
      PROVE  (status' = status \/ damaged \/ status' = "closed") /\ (damaged => damaged')
  BY <1>2, <1>3, <1>9 DEF hash_table_free
<1>10. ASSUME Over \/ UNCHANGED vars
       PROVE  status' = status /\ damaged' = damaged
  BY <1>10 DEF Over, vars
<1>11. QED
  BY <1>1, <1>4, <1>5, <1>6, <1>7, <1>8, <1>9, <1>10 DEF Next

\* Until a removal leaves a freed cell linked, every operation is defined.
THEOREM DefinedBeforeDamage == Spec => []DefinedUntilDamaged
<1>1. hash_table_new => DefinedUntilDamaged
  BY DEF hash_table_new, DefinedUntilDamaged
<1>2. QED
  BY <1>1, DefinedStep, AlwaysIInv, PTL DEF Spec

-----------------------------------------------------------------------------
(* HashTable implements Dictionary *)

\* A lookup returns what the table has under the name, or NULL.
LookupsAgree ==
    \A k \in Keys :
        /\ hash_table_get(k) \in Data \cup {NULL}
        /\ \A d \in Data : hash_table_get(k) = d <=> <<k, d>> \in Entries(table)
        /\ hash_table_get(k) # NULL <=> k \in NamesOf(table)

\* So it is by the inductive invariant.
LEMMA LookupsSay == IInv => LookupsAgree
<1> SUFFICES ASSUME IInv, NEW k \in Keys
             PROVE  /\ hash_table_get(k) \in Data \cup {NULL}
                    /\ \A d \in Data : hash_table_get(k) = d <=> <<k, d>> \in Entries(table)
                    /\ hash_table_get(k) # NULL <=> k \in NamesOf(table)
  BY DEF LookupsAgree
<1>1. /\ capacity \in Nat /\ capacity \in Nat \ {0}
      /\ table \in Table(capacity) /\ Placed(table, capacity)
  BY TableFacts
<1>2. /\ hash_table_get(k) \in Data \cup {NULL}
      /\ \A d \in Data : hash_table_get(k) = d <=> <<k, d>> \in Entries(table)
  BY <1>1, Lookup
<1>3. NamesOf(table) = {e[1] : e \in Entries(table)} /\ Entries(table) \subseteq Keys \X Data
  BY <1>1, EntryPlace
<1>4. ASSUME k \in NamesOf(table) PROVE hash_table_get(k) # NULL
  <2>1. PICK e \in Entries(table) : e[1] = k
    BY <1>3, <1>4
  <2>2. e = <<k, e[2]>> /\ e[2] \in Data
    BY <1>3, <2>1
  <2>3. hash_table_get(k) = e[2]
    BY <1>2, <2>1, <2>2
  <2>4. QED
    BY <2>2, <2>3, HashTableAssumption
<1>5. ASSUME hash_table_get(k) # NULL PROVE k \in NamesOf(table)
  <2>1. hash_table_get(k) \in Data
    BY <1>2, <1>5
  <2>2. <<k, hash_table_get(k)>> \in Entries(table)
    BY <1>2, <2>1
  <2>3. QED
    BY <1>3, <2>2
<1>6. QED
  BY <1>2, <1>4, <1>5

\* A lookup finds the same after a step that leaves the datum of that name alone.
LEMMA SameFound ==
    ASSUME IInv, IInv', NEW j \in Keys,
           \A x \in Data : <<j, x>> \in Entries(table') <=> <<j, x>> \in Entries(table)
    PROVE  hash_table_get(j)' = hash_table_get(j)
<1>1. LookupsAgree /\ LookupsAgree'
  <2>1. IInv' => LookupsAgree'
    BY LookupsSay, PTL
  <2>2. QED
    BY <2>1, LookupsSay
<1>2. /\ hash_table_get(j) \in Data \cup {NULL}
      /\ \A d \in Data : hash_table_get(j) = d <=> <<j, d>> \in Entries(table)
  BY ONLY <1>1, j \in Keys DEF LookupsAgree
<1>3. /\ hash_table_get(j)' \in Data \cup {NULL}
      /\ \A d \in Data : hash_table_get(j)' = d <=> <<j, d>> \in Entries(table')
  BY ONLY <1>1, j \in Keys DEF LookupsAgree
<1>4. \A x \in Data : hash_table_get(j)' = x <=> hash_table_get(j) = x
  BY <1>2, <1>3
<1>5. NULL \notin Data
  BY HashTableAssumption
<1>6. QED
  BY ONLY <1>2, <1>3, <1>4, <1>5

\* An empty table is an empty dictionary.
LEMMA DictInit == hash_table_new => Promise!Init
<1> SUFFICES ASSUME hash_table_new PROVE Promise!Init
  OBVIOUS
<1>1. IInv
  BY InitIInv
<1>2. capacity \in Nat /\ table \in Table(capacity) /\ table = [b \in 0..(capacity - 1) |-> <<>>]
  BY <1>1, TableFacts DEF hash_table_new
<1>3. NamesOf(table) = {}
  <2>1. DOMAIN table = 0..(capacity - 1) /\ \A b \in 0..(capacity - 1) : table[b] = <<>>
    BY <1>2
  <2>2. QED
    BY <2>1 DEF NamesOf, Contents, Range
<1>4. \A k \in Keys : hash_table_get(k) = NULL
  BY <1>1, <1>3, LookupsSay DEF LookupsAgree
<1>5. QED
  BY <1>4 DEF Promise!Init, hash_table_new

\* Every step is one of the dictionary: it puts, it removes, after damage it does
\* anything, or it leaves what lookups say alone.
LEMMA DictStep ==
    IInv /\ [Next]_vars => [Promise!Next]_<<[k \in Keys |-> hash_table_get(k)], damaged>>
<1> SUFFICES ASSUME IInv, [Next]_vars
             PROVE  Promise!Next \/ UNCHANGED <<[k \in Keys |-> hash_table_get(k)], damaged>>
  OBVIOUS
<1> DEFINE dict == [k \in Keys |-> hash_table_get(k)]
<1>1. IInv'
  BY StepIInv
<1>2. \A k \in Keys :
         /\ hash_table_get(k) \in Data \cup {NULL}
         /\ \A d \in Data : hash_table_get(k) = d <=> <<k, d>> \in Entries(table)
         /\ hash_table_get(k) # NULL <=> k \in NamesOf(table)
  BY LookupsSay DEF LookupsAgree
<1>3. \A k \in Keys :
         /\ hash_table_get(k)' \in Data \cup {NULL}
         /\ \A d \in Data : hash_table_get(k)' = d <=> <<k, d>> \in Entries(table')
         /\ hash_table_get(k)' # NULL <=> k \in NamesOf(table')
  <2>1. IInv' => LookupsAgree'
    BY LookupsSay, PTL
  <2>2. QED
    BY <1>1, <2>1 DEF LookupsAgree
<1>4. damaged \in BOOLEAN /\ damaged' \in BOOLEAN
  BY <1>1 DEF IInv, TypeOK
<1>5. dict' \in [Keys -> Data \cup {NULL}]
  BY <1>1, <1>3
<1>7. CASE Same
  BY <1>7 DEF Same, hash_table_get, Present, Position, Positions, Bucket
<1>8. ASSUME NEW k \in Keys, NEW d \in Data, Stored(k, d)
      PROVE  Promise!Next
  <2>1. Entries(table') = {e \in Entries(table) : e[1] # k} \cup {<<k, d>>} /\ damaged' = damaged
    BY <1>8 DEF Stored, Stores
  <2>2. hash_table_get(k)' = d
    BY <1>1, <1>3, <2>1
  <2>3. ASSUME NEW j \in Keys, j # k
        PROVE  hash_table_get(j)' = hash_table_get(j)
    <3>1. \A x \in Data : <<j, x>> \in Entries(table') <=> <<j, x>> \in Entries(table)
      BY <2>1, <2>3
    <3>2. QED
      BY ONLY <1>1, <3>1, IInv, j \in Keys, SameFound
  <2>4. dict' = [dict EXCEPT ![k] = d]
    BY <2>2, <2>3
  <2>5. CASE damaged
    BY <1>5, <2>1, <2>5 DEF Promise!Next, Promise!Anything
  <2>6. CASE ~damaged
    <3>1. Promise!Put(k, d)
      BY <2>1, <2>4, <2>6 DEF Promise!Put
    <3>2. QED
      BY <3>1 DEF Promise!Next
  <2>7. QED
    BY <2>5, <2>6
<1>9. ASSUME NEW k \in Keys, Dropped(k)
      PROVE  Promise!Next
  <2>1. /\ Entries(table') = {e \in Entries(table) : e[1] # k}
        /\ k \in NamesOf(table)
        /\ damaged => damaged'
    BY <1>9 DEF Dropped, Drops
  <2>2. hash_table_get(k)' = NULL
    <3>1. \A x \in Data : <<k, x>> \notin Entries(table')
      BY <2>1
    <3>2. QED
      BY <1>1, <1>3, <3>1
  <2>3. ASSUME NEW j \in Keys, j # k
        PROVE  hash_table_get(j)' = hash_table_get(j)
    <3>1. \A x \in Data : <<j, x>> \in Entries(table') <=> <<j, x>> \in Entries(table)
      BY <2>1, <2>3
    <3>2. QED
      BY ONLY <1>1, <3>1, IInv, j \in Keys, SameFound
  <2>4. dict' = [dict EXCEPT ![k] = NULL] /\ dict[k] # NULL
    BY <1>2, <2>1, <2>2, <2>3
  <2>5. CASE damaged
    BY <1>5, <2>1, <2>5 DEF Promise!Next, Promise!Anything
  <2>6. CASE ~damaged
    <3>1. Promise!Remove(k)
      BY <1>4, <2>4, <2>6 DEF Promise!Remove
    <3>2. QED
      BY <3>1 DEF Promise!Next
  <2>7. QED
    BY <2>5, <2>6
<1>10. QED
  BY <1>7, <1>8, <1>9, StepIInv

\* Until a removal leaves a freed cell linked, the table is a dictionary: what a
\* lookup finds is what was last put under that name and not removed since, in
\* spite of colliding names, of resizes, and of clears. HashTable implements
\* Dictionary.
THEOREM TableImplementsDictionary == Spec => ImplementsDict
<1>1. QED
  BY DictInit, DictStep, AlwaysIInv, PTL DEF Spec, ImplementsDict, Promise!Spec, Promise!vars

-----------------------------------------------------------------------------
(* Which removals damage a table *)

\* The head of a chain of three or more goes.
HeadOfThree(k) == Position(k) = 1 /\ Len(Bucket(k)) >= 3

\* In a table without a freed cell a removal leaves one linked where it takes the
\* head of a chain of three or more, and nowhere else.
LEMMA RemoveDamages ==
    ASSUME IInv, ~damaged, NEW k \in Keys, hash_table_remove(k), k \in NamesOf(table)
    PROVE  damaged' <=> HeadOfThree(k)
<1> DEFINE b == Index(k, capacity)
           chain == table[b]
           i == Position(k)
           n == Len(chain)
           short == IF i = 1 THEN WithoutHead(chain) ELSE RemoveAt(chain, i)
<1>1. /\ capacity \in Nat \ {0} /\ table \in Table(capacity) /\ Placed(table, capacity)
  BY TableFacts
<1>2. Present(k) /\ i \in 1..n
  BY <1>1, Lookup
<1>3. /\ b \in 0..(capacity - 1) /\ b \in DOMAIN table /\ DOMAIN table = 0..(capacity - 1)
      /\ chain \in Seq(Cell) /\ n \in Nat
  BY <1>1, IndexRange, LenProperties DEF Table
<1>4. /\ \A j \in 1..n : ~chain[j].freed
      /\ ~WalksFreed(k)
      /\ ~HasFreed(table)
  BY FreedIsDamage DEF IInv
<1>5. table' = [table EXCEPT ![b] = short] /\ damaged' = HasFreed(table')
  <2>1. ~(IF i = 1 THEN n >= 3 /\ chain[3].freed ELSE chain[i].freed)
    <3> HIDE DEF i, n, chain
    <3>1. QED
      BY ONLY <1>2, <1>3, <1>4
  <2>2. ~(WalksFreed(k) \/ (i = 1 /\ n >= 2 /\ chain[2].freed))
    <3> HIDE DEF i, n, chain
    <3>1. QED
      BY ONLY <1>2, <1>3, <1>4
  <2>3. Unlink(b, short)
    <3> HIDE DEF short
    <3>1. QED
      BY ONLY <1>2, <2>1, <2>2, hash_table_remove(k) DEF hash_table_remove, i, n, chain, b, short
  <2> HIDE DEF short
  <2>4. QED
    BY ONLY <2>3, ~damaged DEF Unlink, HasFreed
<1>6. HasFreed(table') <=> \E j \in DOMAIN short : short[j].freed
  <2> HIDE DEF b, short
  <2>1. DOMAIN table' = DOMAIN table /\ table'[b] = short
        /\ \A c \in DOMAIN table : c # b => table'[c] = table[c]
    BY ONLY <1>3, <1>5
  <2>2. QED
    BY ONLY <1>3, <1>4, <2>1 DEF HasFreed
<1>7. CASE i = 1
  <2> DEFINE head == WithoutHead(chain)
  <2>1. DOMAIN head = 1..(n - 1)
    BY DEF WithoutHead
  <2>2. \A j \in 1..(n - 1) : head[j].freed <=> j = 2
    <3> SUFFICES ASSUME NEW j \in 1..(n - 1) PROVE head[j].freed <=> j = 2
      OBVIOUS
    <3>1. j + 1 \in 1..n
      BY ONLY <1>3, j \in 1..(n - 1)
    <3>2. chain[j + 1] \in Cell /\ ~chain[j + 1].freed
      <4> HIDE DEF n, chain
      <4>1. QED
        BY ONLY <1>3, <1>4, <3>1 DEF n
    <3>3. head[j] = [chain[j + 1] EXCEPT !.freed = IF j = 1 THEN FALSE
                                                   ELSE IF j = 2 THEN TRUE ELSE @]
      BY DEF WithoutHead
    <3> HIDE DEF head, chain, n
    <3>4. QED
      BY ONLY <3>2, <3>3 DEF Cell
  <2> HIDE DEF head
  <2>3. short = head
    BY ONLY <1>7 DEF short, head
  <2>4. damaged' <=> \E j \in 1..(n - 1) : j = 2
    <3> HIDE DEF short
    <3>1. QED
      BY ONLY <1>5, <1>6, <2>1, <2>2, <2>3
  <2>5. (\E j \in 1..(n - 1) : j = 2) <=> n >= 3
    BY ONLY <1>3
  <2>6. QED
    BY ONLY <1>7, <2>4, <2>5 DEF HeadOfThree, Bucket, i, n, chain, b
<1>8. CASE i # 1
  <2> DEFINE rest == RemoveAt(chain, i)
  <2>1. /\ rest \in Seq(Cell) /\ Len(rest) = n - 1
        /\ \A j \in 1..(n - 1) : rest[j] = chain[IF j < i THEN j ELSE j + 1]
    <3> HIDE DEF i, chain
    <3>1. QED
      BY ONLY <1>2, <1>3, RemoveAtShorter DEF Shorter, n
  <2> HIDE DEF rest
  <2>2. DOMAIN rest = 1..(n - 1)
    BY ONLY <2>1, LenProperties
  <2>3. \A j \in 1..(n - 1) : ~rest[j].freed
    <3> SUFFICES ASSUME NEW j \in 1..(n - 1) PROVE ~rest[j].freed
      OBVIOUS
    <3> HIDE DEF i, chain, n
    <3>1. (IF j < i THEN j ELSE j + 1) \in 1..n
      BY ONLY <1>2, <1>3, j \in 1..(n - 1)
    <3>2. QED
      BY ONLY <1>4, <2>1, <3>1, j \in 1..(n - 1)
  <2>4. short = rest
    BY ONLY <1>8 DEF short, rest
  <2>5. ~damaged'
    <3> HIDE DEF short
    <3>1. QED
      BY ONLY <1>5, <1>6, <2>2, <2>3, <2>4
  <2>6. QED
    BY ONLY <1>8, <2>5 DEF HeadOfThree, i
<1>9. QED
  BY ONLY <1>7, <1>8

\* What is removed was there, and nothing else goes with it.
LEMMA RemovalIsOfOne ==
    ASSUME IInv, NEW k \in Keys, Removes(k)
    PROVE  hash_table_remove(k) /\ k \in NamesOf(table) /\ (Same \/ Dropped(k))
<1>1. /\ capacity \in Nat \ {0} /\ table \in Table(capacity) /\ Placed(table, capacity)
  BY TableFacts
<1>2. CASE remove(k)
  <2>1. k \in NamesOf(table)
    BY <1>1, <1>2, Lookup DEF remove
  <2>2. Same \/ Dropped(k)
    BY ONLY <1>2, IInv, k \in Keys, RemoveStep
  <2>3. QED
    BY ONLY <1>2, <2>1, <2>2 DEF remove
<1>3. CASE RemoveDoomed /\ Head(doomed) = k
  <2>1. doomed \in Seq(Keys) /\ doomed # <<>>
    BY <1>3 DEF IInv, TypeOK, RemoveDoomed
  <2>2. Len(doomed) \in Nat /\ Len(doomed) # 0
    BY <2>1, EmptySeq, LenProperties
  <2>3. 1 \in 1..Len(doomed) /\ doomed[1] = k
    BY <1>3, <2>1, <2>2
  <2>4. k \in NamesOf(table)
    BY ONLY <2>3, IInv DEF IInv
  <2>5. Same \/ Dropped(k)
    BY ONLY <1>3, IInv, RemoveDoomedStep
  <2>6. QED
    BY ONLY <1>3, <2>4, <2>5 DEF RemoveDoomed
<1>4. QED
  BY <1>2, <1>3 DEF Removes

\* Nothing but a removal changes damaged.
LEMMA OnlyRemovalsDamage ==
    ASSUME IInv, [Next]_vars
    PROVE  damaged' = damaged \/ \E k \in Keys : Removes(k)
<1>1. Undefined => damaged' = damaged
  BY DEF Undefined
<1>2. ASSUME NEW k \in Keys, NEW d \in Data, hash_table_put(k, d)
      PROVE  damaged' = damaged
  <2>1. Grow(k, d) => damaged' = damaged
    BY ONLY <1>1 DEF Grow
  <2>2. QED
    BY ONLY <1>1, <1>2, <2>1 DEF hash_table_put
<1>3. ASSUME NEW k \in Keys, remove(k) PROVE \E j \in Keys : Removes(j)
  BY <1>3 DEF Removes
<1>4. ASSUME RemoveDoomed PROVE \E j \in Keys : Removes(j)
  <2>1. Head(doomed) \in Keys
    BY ONLY <1>4, IInv, RemoveDoomedStep
  <2>2. Removes(Head(doomed))
    BY ONLY <1>4 DEF Removes
  <2>3. QED
    BY ONLY <2>1, <2>2
<1>5. ASSUME NEW expired \in SUBSET Keys, Collect(expired) PROVE damaged' = damaged
  BY ONLY <1>1, <1>5 DEF Collect
<1>6. ASSUME NEW k \in Keys, get(k) PROVE damaged' = damaged
  BY ONLY <1>1, <1>6 DEF get, vars
<1>7. hash_table_free => damaged' = damaged
  BY ONLY <1>1 DEF hash_table_free
<1>8. Over \/ UNCHANGED vars => damaged' = damaged
  BY ONLY TRUE DEF Over, vars
<1>9. QED
  BY ONLY [Next]_vars, <1>2, <1>3, <1>4, <1>5, <1>6, <1>7, <1>8 DEF Next

LEMMA DamageStep ==
    ASSUME IInv, [Next]_vars, ~damaged
    PROVE  damaged' <=> RemovesHeadOfThree
<1>1. \A k \in Keys : Removes(k) => (damaged' <=> HeadOfThree(k))
  <2> SUFFICES ASSUME NEW k \in Keys, Removes(k) PROVE damaged' <=> HeadOfThree(k)
    OBVIOUS
  <2>1. hash_table_remove(k) /\ k \in NamesOf(table)
    BY RemovalIsOfOne
  <2>2. QED
    BY ONLY <2>1, IInv, ~damaged, k \in Keys, RemoveDamages
<1>2. RemovesHeadOfThree <=> \E k \in Keys : Removes(k) /\ HeadOfThree(k)
  BY ONLY TRUE DEF RemovesHeadOfThree, HeadOfThree
<1>3. damaged' = damaged \/ \E k \in Keys : Removes(k)
  BY OnlyRemovalsDamage
<1>4. QED
  BY ONLY <1>1, <1>2, <1>3, ~damaged

\* No operation damages the table but the removal of the head of a chain of three
\* or more: not hash_table_put with its move to a larger array, and no other removal.
THEOREM DamageIsOfHeads == Spec => OnlyHeadsDamage
<1>1. IInv /\ [Next]_vars => [~damaged /\ damaged' => RemovesHeadOfThree]_vars
  BY DamageStep
<1>2. QED
  BY <1>1, AlwaysIInv, PTL DEF Spec, OnlyHeadsDamage

\* And that removal always does.
THEOREM HeadsAlwaysDamage == Spec => [][~damaged /\ RemovesHeadOfThree => damaged']_vars
<1>1. IInv /\ [Next]_vars => [~damaged /\ RemovesHeadOfThree => damaged']_vars
  BY DamageStep
<1>2. QED
  BY <1>1, AlwaysIInv, PTL DEF Spec

\* Where no such removal takes place the promise of hash_table.h holds: the table is
\* never damaged, no operation is undefined, and hash_table_remove removes one datum
\* and leaves every other where a lookup finds it.
THEOREM SoundWithoutHeads ==
    Spec /\ [][~RemovesHeadOfThree]_vars => [](~damaged /\ status # "undefined") /\ RemovesOne
<1> DEFINE OthersStay ==
              \A k, j \in Keys : Removes(k) /\ j # k => /\ hash_table_get(j)' = hash_table_get(j)
                                                        /\ ~WalksFreed(j)'
           NoneWalked == \A m \in Keys : WalksFreed(m) => damaged
<1>1. hash_table_new => ~damaged
  BY DEF hash_table_new
<1>2. IInv /\ ~damaged /\ [Next]_vars /\ [~RemovesHeadOfThree]_vars => ~damaged'
  <2>1. UNCHANGED vars => damaged' = damaged
    BY DEF vars
  <2>2. QED
    BY ONLY <2>1, DamageStep
<1>3. IInv => NoneWalked
  BY FreedIsDamage
<1>4. IInv' => NoneWalked'
  BY <1>3, PTL
<1>5. IInv /\ IInv' /\ ~damaged' => OthersStay
  <2> SUFFICES ASSUME IInv, IInv', ~damaged', NEW k \in Keys, NEW j \in Keys, Removes(k), j # k
               PROVE  hash_table_get(j)' = hash_table_get(j) /\ ~WalksFreed(j)'
    OBVIOUS
  <2>1. Same \/ Dropped(k)
    BY RemovalIsOfOne
  <2>2. \A x \in Data : <<j, x>> \in Entries(table') <=> <<j, x>> \in Entries(table)
    <3>1. CASE Same
      BY ONLY <3>1 DEF Same
    <3>2. CASE Dropped(k)
      BY ONLY <3>2, j # k DEF Dropped, Drops
    <3>3. QED
      BY ONLY <2>1, <3>1, <3>2
  <2>3. hash_table_get(j)' = hash_table_get(j)
    BY ONLY <2>2, IInv, IInv', j \in Keys, SameFound
  <2>4. ~WalksFreed(j)'
    <3>1. NoneWalked'
      BY ONLY <1>4, IInv'
    <3>2. QED
      BY ONLY <3>1, ~damaged', j \in Keys DEF NoneWalked
  <2>5. QED
    BY ONLY <2>3, <2>4
<1>6. IInv /\ IInv' /\ ~damaged' => [OthersStay]_vars
  BY <1>5
<1> HIDE DEF OthersStay
<1>7. Spec /\ [][~RemovesHeadOfThree]_vars => []~damaged /\ [][OthersStay]_vars
  BY <1>1, <1>2, <1>6, AlwaysIInv, PTL DEF Spec
<1>8. DefinedUntilDamaged /\ ~damaged => status # "undefined"
  BY DEF DefinedUntilDamaged
<1>9. QED
  BY <1>7, <1>8, DefinedBeforeDamage, PTL DEF RemovesOne, OthersStay
=============================================================================
