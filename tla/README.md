# A formal model of post_dns

post_dns is a DNS relay on libuv. A client asks it over UDP; it answers from
three caches, or passes the question on to one upstream server, remembers who
asked, and passes the answer back when it comes. These modules model the relay,
its caches, its hash table, its message codec, its command line and the event
loop it runs in, check them with TLC on small instances, and prove their main
properties with TLAPS for all of them.

## 1. The system

Everything runs in one libuv loop on one thread: a callback is never
interrupted by another. What interleaves is the callbacks themselves, the
datagrams on two sides, the clock, and changes of the zones upstream.

| Component | State | Operations | What makes it correct |
|---|---|---|---|
| `src/socket.c`, the core | `clients_hash_table`: who waits, keyed by id and questions | `bind_socket_read` (a client's datagram), `query_socket_read` (an upstream response), `send_response`, `send_query` | one answer per question at most, to the one who asked; whoever waits is answered; records are those upstream has; every callback ends |
| `src/ipv4_cache.c` | table of address lists with lifetime, timestamp, `manual` | put, get, clear, reading the configuration file | expired addresses go, bans stay and nothing else does |
| `src/ipv6_cache.c` | the same without a meaning for `manual` | put, get, clear | expired addresses go |
| `src/cname_cache.c` | table of aliases | put, get, an empty clear | chains end; aliases go when they expire (they do not) |
| `src/hash_table.c` | array of chains, `count`, `capacity` | new, put (may grow), get, remove, free | a dictionary; only live memory linked; `count` never too low |
| `main.c` | the loop, a timer, a signal | `clear_callback` every 120 s, `sigint_callback` | clears all three caches; the process ends |
| `src/message.c`, `resource_record.c`, `utils.c` | none | `buf2message`, `message2buf`, byte order, addresses | parsing what was printed gives the message back |
| `src/string_t.c` | none | split, compare, hash | |
| `src/config.c` | `dns_config` | reads the command line | every option sets what it names |
| `src/logging.c` | the level | printing | |
| `libuv/` (vendored), the part the relay uses on Linux | of each socket the queue of requests and of completed ones; watchers; pending queue; timer; signal pipe | `uv_run`, `uv_udp_send`, receiving, `uv__run_pending`, `uv__run_timers` | what was sent is finished, once and in order; no callback starves |
| `libuv/`, the rest | | | not called |

Interaction: `main` wires the callbacks. `bind_socket_read` writes the pending
table, reads all three caches, and writes one of them (`cache->manual`, section
5). `query_socket_read` writes all three and takes from the pending table.
`clear_callback` takes from two caches. `send_response` and `send_query` hand the
datagram to `uv_udp_send` and forget it: libuv sends it at once or keeps it
until the kernel wants it. The four tables are separate instances
of the hash table. There is no lock that matters: `uv_rwlock_t` is taken by the
only thread.

What is hard here: UDP on both sides (loss, duplicates, reordering, retries), no
timeout, keys chosen by others, aliases learned at different times and followed
together, a clear that races with lookups that never look at an age, and manual
memory management in the chains. `PROJECT.json` lists each hazard at its line
with the property that would notice.

## 2. The modules

| Module | What it is |
|---|---|
| `Service` | what clients may expect of a relay: questions, each answered at most once |
| `Caches` | the three caches as operators from table to table, and the walk along aliases |
| `Relay` (extends `Caches`) | the state machine: server, network, upstream, clock; implements `Service` |
| `MCRelay` | questions, zones and configuration files for TLC |
| `RelayProofs` | theorems about `Relay` |
| `Answering` (extends `Relay`) | the two receive callbacks loop by loop; implements `Relay` |
| `MCAnswering` | questions and zones for it |
| `AnsweringProofs` | theorems about `Answering` |
| `Dictionary` | the promise of `hash_table.h` |
| `HashTable` | `hash_table.c` and the clears that work on it; implements `Dictionary` |
| `MCHashTable` | names that collide |
| `HashTableProofs` | theorems about `HashTable` |
| `InductionLemmas` | induction over the naturals, in the form the proof modules use |
| `Message` | `message.c` octet by octet, with peers that compress names as they like |
| `MCMessage` | messages of every shape |
| `MessageProofs` | theorems about what `Message` reads |
| `MessageWritingProofs` (extends `MessageProofs`) | theorems about what it writes |
| `Outbox` | what `uv_udp_send` promises |
| `Loop` | `uv_run` with two sockets, a timer and a signal; implements `Outbox` |
| `CommandLine` | `config_init` as operators on `argv`, and what the help text says |
| `Process` (extends `Loop` and `CommandLine`) | `main`, from its first line to the end of the program |
| `MCProcess` | command lines |
| `LoopProofs` | theorems about `Process` and its `Loop` |
| `CommandLineProofs` | theorems about the command line in `Process` |

### Relay

One action per callback, the whole callback in it.

- `bind_socket_read(c, f)`: a datagram of client `c` with id and questions `f`.
  The client is put into the pending table first, replacing whoever was there.
  The first pass over the questions is given by its outcome: `Reached` says how
  far it gets (it stops at the first miss), and it hangs in an endless chase,
  misses, or hits everywhere. Accordingly the callback never returns
  (`status = "spinning"`), calls `send_query`, or calls `send_response` with
  NXDOMAIN for a ban or with the records of the second pass (`RecordsFor`).
  `Touched` is what the first pass does to `manual`.
- `query_socket_read(r, duplicate)`: the response is learned by all three caches
  and then sent on. `duplicate` says whether the network keeps a copy.
- `clear_callback`, `sigint_callback`, and `Tick`: a second passes. A timer that is due
  waits for the callbacks of one round of the loop, so the clock may run ahead of
  it, by `MaxLate` at most; `uv__run_timers` starts it again from the time it
  then has, so that it drifts (`clear_callback` sets `nextClear` to `now + Period`).
- `UpstreamAnswer`, `ZoneChange`, `Lose`: the world outside. In-flight messages
  are sets, so they are reordered freely, and duplicates are copies that stay.

A table is a total function from names to an entry or `NULL`, that is, what
`hash_table_get` returns. Requests are identified by `Feature`, the id together
with the questions, as `message2feature_string` makes it. A question's class is
not modelled. `reply` is the message handed to the encoder in the last step;
`owed` counts, per client and feature, datagrams received less datagrams sent,
and is the only variable that is not state of a program or a network.

Records of other types than A, AAAA and CNAME are skipped by the code and not in
the model. `Answer` keeps the three types apart since the code handles each on
its own; within a type the order of the message is kept, because the last owner
counts. Sections of several questions are encoded wrongly on the way upstream
(`message.c:876` adds a whole prefix to the end position and leaves the position
at the class field): the first question's class is overwritten, so no response
can have the feature of the request. `Readable` says so.

`ReadAddress`: the configuration reader puts the terminator behind the wrong
element and ignores whether the address was valid, so the address read is any
address. A line's 0.0.0.0 either stays what it is or becomes invalid, which
reads as 0.0.0.0 too. But of every line the last character is cut off as its
newline: if the last line has none (its name is `LastLine`), `0.0.0.` remains, which the
byte that happens to follow may complete to another address.

`Service` is the relay without its insides: clients ask, questions lie open, an
answer closes one: each at most as often as it was asked, and the one who asked gets it.
`ImplementsService` (with clients that have ids of their own) maps the pending
table, the debts and the last reply to it.

### Answering

The same callbacks with their locals in `frame`: one step per alias, question or
record. `Receive` starts `bind_socket_read`; the pass that counts, the allocation,
the pass that writes and the return follow, and `ReceiveResponse`, `LearnAlias`,
`CollectIPv4`, `CollectIPv6` and `Relayed` are `query_socket_read`. Nothing else
runs in between, since the thread is in the callback (`Between` asks for `Idle`),
except that TLC sees the tables in all their intermediate states. `Seen` shows
`Relay` the tables as they were at the start until the callback returns;
`ImplementsRelay` says that each callback is the one step `Relay` takes it for.
That is what the properties and the theorems of `Relay` stand on, and it is proved
(section 4). `ReceiveLocals` and `ResponseLocals` are the types of the locals;
`AnsweringAssumption` says that none of them is the value that stands for "no
callback runs".

### HashTable

A chain is a sequence of cells; the head lies in the array. `hash_table_put`
replaces the data of the first cell with the name, or appends, and grows the
array when `count` passes three quarters of the capacity. Growing counts the
moved cells once more on top of the old count, as the code does.
`hash_table_remove` has a flaw in one case: the head of a chain of three or more.
The model marks the cell that is freed while linked. A later operation that
reads such a cell goes on as if nothing had happened or ends in undefined
behaviour (`status = "undefined"`), and freeing it again always does. Removing a
name that is not there walks off the end of a chain that is not empty, which is
undefined as well; `RemovalFinds` says that no caller does it. `Collect` and
`RemoveDoomed` are the two halves of a clear: names are collected from all cells
and then removed one by one. `damaged` remembers that a freed cell was linked once.

`Dictionary` promises put, get and remove until the table is damaged, which only
a removal may do. `ImplementsDict` maps `dict` to what `hash_table_get` returns.

`Relay` uses the dictionaries, not the chains: it describes the program as long
as no removal has damaged a table. That this can happen in the running program
is finding 4.

### Message

A peer composes a datagram question by question and answer by answer; each name is
spelled in full or as some labels and a pointer to any earlier place where the rest of
it stands (`Spellings`). The names of records are read by `createName`, which follows
pointers. Those of questions are read by a loop in `buf2messageQuestion` that does not
(`QuestionName`): it takes a pointer for the length of a label. What comes of such a
question is `Unread`, and the message is `garbled`; the model goes no further with it.
`buf2message` reads the octets; `Forward` and `Reply` write a
message, as `send_query`, `send_response` and the second half of
`bind_socket_read` do; the latter replies to whatever came, request or not. `Put` writes at an offset, and octets that nobody wrote are
-1, so that a hole is seen. Names are sequences of labels; their text with dots,
which the code keeps, is only measured (`TextLength`).

`IsMessage` and `IsRecord` say which messages the peers mean to send: names and
labels as long as DNS allows, without a zero or a dot in a label, addresses of 4
and 16 octets. Everything else about the sizes is open, and `BufferSize` is any
number of 16 bits (1500 in the code). `meant` is the intention against which `sendbuf` is held: the message that
came without its Z bits and the records behind its answers (`Extra`: authority and
additional, of which the relay only reads the counts), or `ReplyMeant`.
`createName` is recursive in the code. Its depth is bounded in the model by the number of
octets (`Labels`), which no name of a composed datagram exceeds: without that, reading
would return fewer labels than were said.

`WritesWhatIsMeant` is an equivalence: the messages with at most one question and
only A, AAAA and CNAME records are written correctly, and no others are. The
second half records two mistakes of `message2buf`: the position after the first of
several questions, and records of other types, which are written without length
and data. `Relay!Readable` is the first of them. `SentIsUnderstood` closes the
circle: the octets that `message2buf` writes of a message it can write are read by
`buf2message` as the message that was meant, with all four counts.

### Loop and Process

`Process` is `main`: it reads the command line, opens the sockets (or fails to),
starts signal and timer, and enters `Loop`. A step of `Loop` is a phase of `uv_run`
or one callback in it. `phase` says where `uv_run` is; `ready` holds the watchers
whose callbacks are still to run in this phase, whether they come from the poll
or from the pending queue. `uv__udp_recvmsg` is one round of its loop: one datagram
read and the relay's callback for it, which sends at most one datagram. `Outcomes`
is what `uv__udp_sendmsg` can do with a queue: the kernel takes some and then no
more, takes all, or reports an error, with which the rest of a batch is
completed as if sent. Time is relative to `loop->time`: `due` is how far ahead the
timer is, `late` how far the clock is.

`CommandLine` gives what `config_init` returns for any `argv`. Where the code reads
behind the last argument the result is undefined, and the model ends.

## 3. What TLC checks

| Run | Question | Instance |
|---|---|---|
| `relay_pending` | `NoUnsolicitedReply`, `WaitingIsOwed`: is anybody answered more often than they asked, or listed who is owed nothing? | two clients sharing one id, two names that are aliases of each other in two zones, two datagrams each, loss; symmetric clients |
| `relay_clock` | `TypeOK`, `BoundedStaleness`, `PinnedIsBlocked`, `PinnedForever` | one client, A and AAAA questions, a zone that turns to 0.0.0.0, a ban on a last line without a newline, five seconds with a period of two and a timer that is up to one second late |
| `relay_records` | `ServedTruthful`, `SpinsOnlyWhereZonesMeet` | three names, every question type, sections of none, one and two, alias chains of two steps, two zones whose aliases together have a cycle |
| `relay_reliable` | `NoOrphanedClient`, `WaitingClientKept`, `ImplementsService`, `EventuallyAnswered` (under fairness) | two clients with ids of their own, no loss, a name that comes and goes, three seconds |
| `answering` | `AnswersFit`, `ImplementsRelay`: do the two passes agree, and is a callback one step? | one client, none to two questions of several types, a ban, aliases of two steps |
| `hash_table` | `TypeOK`, `WellPlaced`, `CountCovers`, `RemovalFinds`, `DefinedUntilDamaged`, `ImplementsDict`, `OnlyHeadsDamage` | four names, three of which share a bucket at capacity 4 and at 9, growth to 19, clears of any set of names |
| `message` | `ReadsWhatWasSaid`, `WritesWhatIsMeant`, `SentIsUnderstood`, `OverrunsOnlyIfTooLong` | eight messages in all their spellings, four replies, a buffer of 330 octets |
| `process` | `TypeOK`, `NeverStuck`, `ConfigIsAsSaid`, `ImplementsOutbox`, and under fairness `SendsComplete`, `ClearsRecur`, `InterruptEnds` | all command lines of up to four of nine words; two requests, batches of one, two datagrams in a row, one round of pending callbacks |

Four runs find a property violated that a document or comment states:

1. `blocked_name`: `README.md` says a name configured as 0.0.0.0 is blocked. The
   put ignores `manual = true`, so the first clear removes a ban that no
   question has pinned, and the name resolves.
2. `alias_hang`: `main.c` says the clear callback does away with expired
   entries. Aliases are never cleared. When the owners of two names turn an alias
   round, the expired one and the new one make a cycle, and the next question for
   either name never returns: the relay stops (`ExpiredNeverHang`). With a clear that
   removes expired aliases the property holds in the same run.
3. `superseded_client`: `message.h` says id and questions mark a request. Two
   clients may choose the same, and the first is never answered.
4. `table_removal`: `hash_table.h` says remove takes one datum away. Removing the
   head of a chain of three frees the node of another.

Bounds. `MaxTime` stops the clock; five seconds contain two clears and the
lifetimes between them, and one learned entry on each side of a clear. `MaxLate`
of one lets each clear be on time or not; the other runs do without.
`MaxOwed` bounds the unanswered datagrams of one client under one feature: two is
a retry. `MaxInFlight` keeps clients quiet while that much is in flight: three
is a request, a duplicate and a response of another. The lifetimes are one second
and the period two, in place of 120 and 120: the properties depend on an entry
having expired or not when the timer fires, and both occur. `MaxCount` lets the
table grow twice.

In `answering` time hardly moves: what matters is what the tables hold when a
callback starts, and every combination the zones allow is reached with one
response in flight. In `message` the buffer of 330 octets lets the long message
(two names of 129 octets) fit in when it comes and overrun when it goes on,
as 1500 does for longer ones; its pointers need both octets. In `process` two
requests are enough for one to wait behind the other on a socket and for both to
be on different sockets; `BatchSize` of one makes the rest of a queue differ from
a batch, `RecvLimit` of two is a limit that is reached or not, and a period of one
lets the timer be due at every poll. `MaxLate` is how far the clock gets ahead
before the loop looks at it (there it is the lateness of one poll). Four words are two options with arguments, and
odd ones. An arriving datagram needs a free request (`Arrive`), which bounds the
queues; the program has no such bound but its memory.

Fairness. `FairSpec` in `relay_reliable`: every response in flight is
eventually read, since the loop runs until the process ends, and upstream
eventually answers a query that reached it. The second is an assumption about
the server upstream, and with `Lossy = FALSE` about the network: the code has no
timeout, so without them a client waits until it asks again. Nothing is assumed
about clients, the timer, zones or the signal; `EventuallyAnswered` says what
holds while the server runs. `Process!Spec`, in `process`: the only thread of the
program is scheduled (weak fairness of `Main` and of `LoopStep`), time passes
(weak fairness of `Tick`), and of the kernel that a socket watched for it is at some
point reported writable, and that a send that is tried again and again is at
some point taken or fails (strong fairness: each try may be refused). Nothing is
assumed about datagrams, which may come for ever, or about the signal.
`SendsComplete` says that `udp_on_send` is called for each request, not that its
datagram arrived.

Each property has a mutant: a definition next to the one it replaces, marked
`Mutant:`, that breaks the code in a plausible way and makes TLC find that
property violated.

## 4. What is proved

The theorems hold for every value of the constants, from the assumptions that
the modules state about them (`CachesAssumption`, `RelayAssumption`,
`AnsweringAssumption`, `HashTableAssumption`, `LoopAssumption`, `ProcessAssumption`,
`MessageAssumption`): that a sentinel is no name, that bounds are positive numbers,
that sets which are counted are finite, that peers send messages. TLC evaluates them in the runs. Where a property needs more, the
theorem says so.

### The relay

`RelayProofs` proves these theorems for all clients, ids, names, addresses,
zones and bounds.

| Theorem | Property | Further assumption | Invariant |
|---|---|---|---|
| `TypeCorrect` | `TypeOK` | | itself |
| `RepliesAreSolicited` | `NoUnsolicitedReply` | | `DebtInv` |
| `WaitingClientsAreOwed` | `WaitingIsOwed` | | `DebtInv` |
| `PinnedEntriesAreBans` | `PinnedIsBlocked` | | `CacheInv` |
| `BansStayPinned` | `PinnedForever` | | `CacheInv` |
| `AddressesExpire` | `BoundedStaleness` | | `CacheInv` |
| `WaitingIsInFlight` | `NoOrphanedClient` | no loss | `OrphanInv` |
| `WaitingEndsWithAnswer` | `WaitingClientKept` | no two clients share an id | `OwnerInv` |
| `RelayImplementsService` | `ImplementsService` | no two clients share an id | `OwnerInv`, `DebtInv` |
| `SpinsWhereZonesMeet` | `SpinsOnlyWhereZonesMeet` | | `SpinInv` |
| `ServedIsTrue` | `ServedTruthful` | the addresses of an answer have one owner | `TruthInv` |

- `DebtInv`: no debt is negative, and whoever waits is owed something. Neither
  half is inductive alone: an answer lowers the debt only of someone who waits.
- `CacheInv` replaces the age bound by one the next clear meets (`TimerInv`): the
  timer is due within a period and at most `MaxLate` overdue, and no unpinned entry
  is so old that the next
  clear is due more than a period after its lifetime. It also says that pinned
  entries are bans, from which `BansStayPinned` follows step by step, since a
  lookup of a ban pins it again and a put leaves it alone.
- `OwnerInv`: whoever waits under a feature may use its id, so with distinct ids
  the one that puts itself there is the one that was there. `RelayImplementsService`
  stands on it: with it a reply closes the question of the client it is sent to,
  and with `DebtInv` that question is open.
- `SpinInv`: every alias in the cache or in flight was announced in some zone, and
  if a callback hangs then some name has an endless chase. The rest is about one
  state (`DescentEnds`): if the cached aliases all stand in one zone without a cycle, they
  fall along its rank, and a chase along them is over before the ranks are, shown for
  a name of least rank among those without an end. So a hang needs aliases of two zones
  that contradict each other, which nothing in the code prevents and finding 2 reaches.
- `TruthInv`: every entry of a cache and every record in flight was announced
  under its owner. It fails without the assumption of one owner, which the comment
  in `query_socket_read` makes too.

### The callbacks, loop by loop

| Theorem of `AnsweringProofs` | Property | Invariant |
|---|---|---|
| `LocalsInStep` | `IInv` | itself |
| `AnswersAlwaysFit` | `AnswersFit` | `IInv` |
| `AnsweringImplementsRelay` | `ImplementsRelay` | `IInv` |

`AnswersFit` compares two loops that run one after the other, and says nothing of
the first. `IInv` measures the locals of a callback against the tables as they were
when it began. In the first pass (`CountingOK`) the questions passed are hits, or
the last of them is the first miss; `answer_count` is the sum of what the hits cost
(`Total`) and the length of the walk along aliases so far; the walk is the
beginning of the chase of its question (`Linked`) and comes to no name twice; what is
banned is what a lookup found to begin with 0.0.0.0; and the IPv4 table differs
from the table at the start by the marks of exactly those lookups (`Marked`). In the
second pass (`WritingOK`) the room is the total over all questions, the number of
records written is the total up to here, and their set is that of the questions so
far: since the costs are never negative, what is written never exceeds the room.
In the other callback (`ResponseInv`) the alias table has learned the part of the
list that is done, and the collected addresses are the data of theirs. The lemmas
about chases (two chases from one name go the same way; one that has come to no name twice
is a beginning of `Chain`; one that does come back is `Endless`) make the walks of the two
passes agree, and connect both with what `Relay` computes at once.

The refinement follows: every step of a loop is a stutter of `Relay`, since
`Seen` shows the tables of the start; the step that returns is `bind_socket_read`
or `query_socket_read` as a whole. A walk that comes to a name again is the endless
chase of `Relay`. So the theorems of `RelayProofs` speak about the loops of the
code and not only about their summary.

### The hash table

`HashTableProofs` is about all names, data, hash functions and initial
capacities.

| Theorem | Property |
|---|---|
| `AlwaysIInv` | `IInv` |
| `HashTableProofs!TypeCorrect` | `TypeOK` |
| `NamesWellPlaced` | `WellPlaced` |
| `CountCoversCells` | `CountCovers` |
| `ClearsFind` | `RemovalFinds` |
| `DefinedBeforeDamage` | `DefinedUntilDamaged` |
| `TableImplementsDictionary` | `ImplementsDict` |
| `DamageIsOfHeads` | `OnlyHeadsDamage` |
| `HeadsAlwaysDamage` | |
| `SoundWithoutHeads` | |

`IInv` is about the cells alone and holds with or without damage. `Placed`: every
cell lies in the bucket of its name, and no name has two. The number of cells
(`Live`) is at most `count` and at most `Threshold(capacity)`: a put adds one cell
and one to `count`, and growing, which counts every cell again, raises both bounds.
A freed cell is only linked in a damaged table (`HasFreed(table) => damaged`). What a
clear has still to remove (`doomed`) are names that are in the table, each once;
that is why each removal of a clear finds its name, although the removals before it
have rearranged the chain: a removal drops its own name and no other (`Drops`).
`DefinedUntilDamaged` and the refinement need that a step, seen through lookups,
stores one datum, drops one name or does nothing, which the lemmas about put,
growing and removal show for every chain; `LookupsAgree` turns that into the
dictionary.

The last three theorems delimit finding 4. `OnlyHeadsDamage`: a step that damages a sound
table removes the head of a chain of three or more; no other removal, further down a chain
or of the head of a shorter one, frees a node that stays linked (from a chain of two the
second node only leaks). `HeadsAlwaysDamage` is
the converse: no such removal leaves the table sound. `SoundWithoutHeads` follows for the
behaviours in which no such head is removed (`[][~RemovesHeadOfThree]_vars`): the table
is never damaged, nothing undefined happens, and `RemovesOne`, which the run
`table_removal` finds violated, holds.

### The loop and the command line

`LoopProofs` is about every number of requests, every batch size, read limit,
number of rounds and period, and every set of command lines.

| Theorem | Property | Invariant |
|---|---|---|
| `LoopProofs!TypeCorrect` | `TypeOK` | `IInv` |
| `NeverSleepsOnASend` | `NeverStuck` | `IInv` |
| `LoopImplementsOutbox` | `ImplementsOutbox` | `IInv` |
| `CommandLineProofs!ConfigAlwaysAsSaid` | `ConfigIsAsSaid` | `ConfigRead` |

`NeverStuck` speaks of one phase only, so its strengthening follows a request
through all of them. `CountExact`: `send_queue_count` is the length of both queues;
this is why a send that goes out at once finds both empty, and then either
leaves its request on the write queue, which makes it watch for `OUT`, or
completes it, which feeds the watcher (`OutcomeOf`: a single request is never
completed without a feed). `UnsentWatched`: what is unsent is in `pevents`.
`CompletedFed`: a completed request has its socket on the pending queue or among
the callbacks to run. `Synced`: if the kernel was told otherwise, the socket is on
the watcher queue, which is empty after each poll starts. `Phases`: `ready` is empty
whenever the loop sleeps, and so is the pending queue if it sleeps for long.
Together they leave nothing to sleep on.

`LoopImplementsOutbox`: a socket's outbox is the completed queue followed by the write
queue. `CountExact` is what keeps a datagram from overtaking: it may go out at once
only when both are empty. Moving requests from one queue to the other leaves the outbox
as it is, and callbacks take them off its front.

`ConfigAlwaysAsSaid` stands on `ReadsAsSaid`, about `config_init` alone: in a
command line that the help text allows, of any length, the loop comes to every odd
position (`OddAreVisited`); to an even one only after an `-l`, whose argument is no
option by assumption; so what it takes for options is what the help text calls so.

### The codec

`MessageProofs` and `MessageWritingProofs` are about messages with any number of
questions and records, in every spelling.

| Theorem | Property | Invariant |
|---|---|---|
| `AlwaysReadsWhatWasSaid` | `ReadsWhatWasSaid` | `Reading` |
| `AlwaysWritesWhatIsMeant` | `WritesWhatIsMeant` | `Writing`, with `Reading` |
| `AlwaysUnderstood` | `SentIsUnderstood` | `Sending`, with `Reading`, `Writing` |
| `AlwaysOverrunsOnlyIfTooLong` | `OverrunsOnlyIfTooLong` | `Writing`, with `Reading` |

Reading. A pointer leads to octets written long before it, and what is read there must
not change as the datagram grows. So `Reading` speaks about every sequence of octets that
extends the ones so far (`Extends`): in each of them, a reader that starts at an
anchor finds the labels that the anchor stands for (`Leads`), in no more steps than there
are octets; and one that starts with the header comes, after as many records as were
written, to the end of what was written, with those records read (`Composed`), as long as
the questions were spelled out; once one was not, each such reader finds an `Unread`
among the questions (`Lost`).
Composing a record keeps both. `SpellingRead` is the case that matters: whatever
labels a name begins with, and whichever anchor the pointer after them leads to, the
name is read and its last octet found, and each of its labels is a new anchor. That the
depth suffices is counted along the way: a name found in n steps is found in more
(`LabelsFrom` on more of them), and each new label or pointer adds octets as well as a
step. When the datagram is sent it extends the composed one by the records behind the
answers, so that `buf2message` finds what was said (`ReadAs`).

Writing. `Put` leaves alone what stands before the place it writes to
(`PutAnywhere`), and at the end of the buffer it appends (`PutAtEnd`). One question
leaves the position right behind it (`FirstQuestion`), and each record with a known type
ends where the next one begins (`AnswersStep`), since the length that came with an address is
that of its octets, and that of an alias is measured anew. So `EncodedAsMeant` has the
datagram octet by octet. The other direction of the equivalence looks for an octet
that is wrong or missing: after a second question the end is moved too far
and leaves an octet that nobody wrote (`GapStays`); with a record of another type the end
is short of that of the plain message (`AsFarAsKnown`). `SameForward` and `SameReply` show
that what is handed to `message2buf` is the message that is meant, bit for bit in the flags
(`SumOfFields`).

Reading what was written. `SentIsUnderstood` joins the two halves without a third argument about
octets: a message written without compression is one of the spellings that a peer may
choose (`PlainSpelled`, `PlainComposed`), so what is proved of reading applies to it
(`PlainRead`). It remains to show that what is sent is a message at all (`Sending`): the
one that goes on is as it came (`ForwardIsMessage`), and of the reply, whose answers come
from the caches, the count fits its 16 bits because the answers fit the buffer
(`ReplyIsMessage`). This is what `BufferSize` of 16 bits is for.

`Reading` quantifies over all sequences of octets, which TLC cannot enumerate; the runs
check the three properties themselves.

### Not proved

With TLC alone: what needs fairness (`EventuallyAnswered`, `SendsComplete`,
`ClearsRecur`, `InterruptEnds`), which is out of the prover's reach.

## 5. Three things the code does that the model keeps

- `if ((cache->manual = true and cache->node->address == 0))` assigns. A lookup
  of a ban pins the entry, and a lookup of any other address unpins it.
  `Touched` is this assignment. It is what makes bans last at all (finding 1),
  and `PinnedIsBlocked` is why it does no harm otherwise.
- The first pass does not stop at a ban: the `break` leaves the `switch`. Later
  questions may still miss, and then the whole section is passed upstream.
- A question of an unknown type counts as a hit and is answered with no records.

## 6. Not modelled

- Of the relay's own code: logging and the printing of messages for it
  (`message_log`, the conversions of addresses to text), memory that is only
  leaked, failures of `malloc`, and how a line of the configuration file is split
  (its effect is: any address). In the codec, the root name, labels with a dot or
  a zero octet in them, addresses of another length than their type has, and
  datagrams that end too early: these are messages
  nobody means to send. Nor what becomes of a message whose question was read wrongly.
- Of libuv, everything the relay does not call, which is nearly all of it: the
  other platforms, files, streams, pipes, terminals, processes, threads, name
  resolution, and handles other than two UDP sockets, a timer and a signal. It
  makes up more than nine tenths of the lines of this repository, and models of
  code that never runs would say nothing about the program; so the share of all
  lines that the modules cover is small, while they cover most of `src/src` and
  `src/main.c`.
- In `Loop`: `uv__io_poll` goes on polling when all 1024 slots of one call were
  filled, which two sockets and a pipe cannot do; `recvmmsg` and io_uring, which
  the relay does not turn on; errors of `epoll_pwait`, which abort.

## 7. Plan

The plan is carried out. What could follow:

1. A theorem that joins `Message` and `Relay`: `Relay` takes what passes between the
   peers for messages, and `AlwaysReadsWhatWasSaid` and `AlwaysUnderstood` are why it may;
   the two modules share no state yet.
2. The order of two answers to one question, and the `count` that never goes down, if a
   document should ever promise something about them.
