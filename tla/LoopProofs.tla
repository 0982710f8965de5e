----------------------------- MODULE LoopProofs -----------------------------
(***************************************************************************)
(* Theorems about Process and its Loop, for every number of requests, every*)
(* batch size and bound of the loop, and every set of command lines.       *)
(***************************************************************************)
EXTENDS Process, FiniteSetTheorems, SequenceTheorems, TLAPS

-----------------------------------------------------------------------------
(* Queues *)

\* What uv__udp_sendmsg can do lies within the queue, and it does not leave a
\* single request on the completed queue without feeding the watcher.
LEMMA OutcomeOf ==
    ASSUME NEW n \in Nat, NEW o \in Outcomes(n)
    PROVE  /\ o.moved \in 0..n
           /\ o.fed \in BOOLEAN
           /\ n = 1 /\ o.moved = 1 => o.fed
<1>0. BatchSize \in Nat /\ BatchSize >= 1
  BY LoopAssumption
<1>1. CASE n = 0
  <2>1. o = [moved |-> 0, fed |-> FALSE]
    BY <1>1 DEF Outcomes
  <2>2. QED
    BY <1>1, <2>1
<1>2. CASE n # 0
  <2>1. CASE o = [moved |-> n, fed |-> TRUE]
    BY <2>1
  <2>2. CASE \E k \in 0..(n - 1) : o = [moved |-> k, fed |-> FALSE]
    BY <2>2
  <2>3. CASE \E k \in 0..(n - 1) : o = [moved |-> k + Smaller(BatchSize, n - k), fed |-> TRUE]
    <3>1. PICK k \in 0..(n - 1) : o = [moved |-> k + Smaller(BatchSize, n - k), fed |-> TRUE]
      BY <2>3
    <3>2. Smaller(BatchSize, n - k) \in 1..(n - k)
      BY <1>0, <3>1 DEF Smaller
    <3>3. QED
      BY <3>1, <3>2
  <2>4. QED
    BY <1>2, <2>1, <2>2, <2>3 DEF Outcomes
<1>3. QED
  BY <1>1, <1>2

\* A queue is split into what goes and what stays.
LEMMA SplitType ==
    ASSUME NEW q \in Seq(Requests), NEW n \in 0..Len(q)
    PROVE  /\ First(q, n) \in Seq(Requests)
           /\ Len(First(q, n)) = n
           /\ After(q, n) \in Seq(Requests)
           /\ Len(After(q, n)) = Len(q) - n
<1>1. First(q, n) \in Seq(Requests) /\ Len(First(q, n)) = n
  BY SubSeqProperties DEF First
<1>2. After(q, n) \in Seq(Requests) /\ Len(After(q, n)) = Len(q) - n
  BY SubSeqProperties DEF After
<1>3. QED
  BY <1>1, <1>2

\* Feeding a watcher puts it on the pending queue and takes nobody off it.
LEMMA Feeding ==
    ASSUME NEW s \in Sockets, pending_queue \in Seq(Sockets), uv__io_feed(s)
    PROVE  /\ pending_queue' \in Seq(Sockets)
           /\ Range(pending_queue') = Range(pending_queue) \cup {s}
<1>1. CASE s \in Range(pending_queue)
  BY <1>1 DEF uv__io_feed
<1>2. CASE s \notin Range(pending_queue)
  <2>1. pending_queue' = Append(pending_queue, s)
    BY <1>2 DEF uv__io_feed
  <2>2. QED
    BY <2>1, AppendProperties DEF Range
<1>3. QED
  BY <1>1, <1>2

-----------------------------------------------------------------------------
(* The inductive invariant *)

\* Counts are exact: this is why a send finds both queues empty when it sends
\* at once.
CountExact ==
    \A s \in Sockets :
        send_queue_count[s] = Len(write_queue[s]) + Len(write_completed_queue[s])

\* What is unsent is watched for.
UnsentWatched == \A s \in Sockets : write_queue[s] # <<>> => "OUT" \in pevents[s]

DueIn(s, items) == \E i \in DOMAIN items : items[i][1] = s /\ "OUT" \in items[i][2]

\* A callback that is due is on its way.
CompletedFed ==
    \A s \in Sockets : write_completed_queue[s] # <<>> =>
        s \in Range(pending_queue) \/ DueIn(s, ready)

\* The kernel knows, or will be told before the next poll.
Synced == \A s \in Sockets : events[s] # pevents[s] => s \in watcher_queue

\* Between the phases that run callbacks none is left, the poll sleeps only if
\* none is pending, and nothing is sent before the sockets are open.
Phases ==
    /\ phase = "starting" => \A s \in Sockets : write_queue[s] = <<>>
    /\ phase \in {"starting", "started", "timers", "iteration", "waiting"} => ready = <<>>
    /\ phase = "waiting" => watcher_queue = {} /\ (timeout > 0 => pending_queue = <<>>)

IInv == TypeOK /\ CountExact /\ UnsentWatched /\ CompletedFed /\ Synced /\ Phases

\* The invariant is strong enough: with nothing pending, ready or unsynced when
\* the loop goes to sleep, no callback is due and the kernel watches what is unsent.
THEOREM IInvImplies == IInv => NeverStuck
<1> SUFFICES ASSUME IInv, phase = "waiting", timeout > 0, NEW s \in Sockets
             PROVE  /\ write_completed_queue[s] = <<>>
                    /\ write_queue[s] # <<>> => "OUT" \in events[s]
  BY DEF NeverStuck
<1>1. ready = <<>> /\ pending_queue = <<>> /\ watcher_queue = {}
  BY DEF IInv, Phases
<1>2. s \notin Range(pending_queue) /\ ~ DueIn(s, ready)
  BY <1>1 DEF Range, DueIn
<1>3. QED
  BY <1>1, <1>2 DEF IInv, CompletedFed, UnsentWatched, Synced

\* It holds when the program starts.
THEOREM InitIInv == Init => IInv
<1> SUFFICES ASSUME Init PROVE IInv
  OBVIOUS
<1>0. RecvLimit \in 1..RecvLimit /\ 0 \in 0..PendingRounds /\ 0 \in 0..MaxLate
  BY LoopAssumption
<1>1. TypeOK
  <2>1. /\ write_queue \in [Sockets -> Seq(Requests)]
        /\ write_completed_queue \in [Sockets -> Seq(Requests)]
        /\ pending_queue \in Seq(Sockets)
    BY EmptySeq DEF Init
  <2>2. ready \in Seq((Sockets \cup {Signal}) \X SUBSET {"IN", "OUT"})
    BY DEF Init
  <2>3. /\ send_queue_count \in [Sockets -> Nat]
        /\ pevents \in [Sockets -> SUBSET {"IN", "OUT"}]
        /\ events \in [Sockets -> SUBSET {"IN", "OUT"}]
        /\ arrived \in [Sockets -> Nat]
    BY DEF Init
  <2>4. /\ phase \in {"starting", "started", "timers", "iteration", "pending", "waiting",
                      "events", "after", "exited"}
        /\ count \in 1..RecvLimit
        /\ rounds \in 0..PendingRounds
        /\ timeout \in Nat
        /\ due \in Int
        /\ late \in 0..MaxLate
    BY <1>0 DEF Init
  <2>5. watcher_queue \subseteq Sockets /\ signalled \in BOOLEAN
    BY DEF Init
  <2>6. QED
    BY <2>1, <2>2, <2>3, <2>4, <2>5 DEF TypeOK
<1>2. CountExact /\ UnsentWatched /\ CompletedFed /\ Synced /\ Phases
  BY DEF Init, CountExact, UnsentWatched, CompletedFed, Synced, Phases
<1>3. QED
  BY <1>1, <1>2 DEF IInv

-----------------------------------------------------------------------------
(* What the actions are made of *)

Items == Seq((Sockets \cup {Signal}) \X SUBSET {"IN", "OUT"})

\* Taking an event off the first item leaves everything else due.
LEMMA ItemDone ==
    ASSUME ready \in Items, ready # <<>>, NEW event \in {"IN", "OUT"}
    PROVE  /\ ReadyWithout(event) \in Items
           /\ \A s \in Sockets : DueIn(s, ready) /\ (event = "IN" \/ s # Head(ready)[1])
                 => DueIn(s, ReadyWithout(event))
<1> DEFINE Item == (Sockets \cup {Signal}) \X SUBSET {"IN", "OUT"}
           rest == Head(ready)[2] \ {event}
           first == <<Head(ready)[1], rest>>
<1>1. /\ Head(ready) = ready[1]
      /\ ready[1] \in Item
      /\ Tail(ready) \in Seq(Item)
      /\ Len(Tail(ready)) = Len(ready) - 1
      /\ \A i \in 1..(Len(ready) - 1) : Tail(ready)[i] = ready[i + 1]
      /\ Len(ready) \in Nat /\ Len(ready) >= 1 /\ DOMAIN ready = 1..Len(ready)
      /\ DOMAIN Tail(ready) = 1..(Len(ready) - 1)
  BY HeadTailProperties, EmptySeq, LenProperties DEF Items
<1>2. first \in Item
  BY <1>1
<1>3. /\ <<first>> \o Tail(ready) \in Seq(Item)
      /\ Len(<<first>> \o Tail(ready)) = Len(ready)
      /\ (<<first>> \o Tail(ready))[1] = first
      /\ \A i \in 2..Len(ready) : (<<first>> \o Tail(ready))[i] = ready[i]
  <2>1. <<first>> \in Seq(Item) /\ Len(<<first>>) = 1 /\ <<first>>[1] = first
    BY <1>2
  <2>2. /\ <<first>> \o Tail(ready) \in Seq(Item)
        /\ Len(<<first>> \o Tail(ready)) = Len(ready)
        /\ \A i \in 1..Len(ready) : (<<first>> \o Tail(ready))[i] =
              IF i <= 1 THEN <<first>>[i] ELSE Tail(ready)[i - 1]
    BY <1>1, <2>1, ConcatProperties
  <2>3. QED
    BY <1>1, <2>1, <2>2
<1>4. ReadyWithout(event) = IF rest = {} THEN Tail(ready) ELSE <<first>> \o Tail(ready)
  BY DEF ReadyWithout
<1>5. ReadyWithout(event) \in Items
  BY <1>1, <1>3, <1>4 DEF Items
<1>6. ASSUME NEW s \in Sockets, DueIn(s, ready), event = "IN" \/ s # Head(ready)[1]
      PROVE  DueIn(s, ReadyWithout(event))
  <2>1. PICK i \in 1..Len(ready) : ready[i][1] = s /\ "OUT" \in ready[i][2]
    BY <1>1, <1>6 DEF DueIn
  <2>2. CASE i = 1
    <3>1. event = "IN" /\ "OUT" \in rest /\ first[1] = s /\ first[2] = rest
      BY <1>1, <1>6, <2>1, <2>2
    <3>2. ReadyWithout(event) = <<first>> \o Tail(ready)
      BY <1>4, <3>1
    <3>3. 1 \in DOMAIN (<<first>> \o Tail(ready))
      BY <1>1, <1>3
    <3>4. QED
      BY <1>3, <3>1, <3>2, <3>3 DEF DueIn
  <2>3. CASE i # 1
    <3>1. i - 1 \in DOMAIN Tail(ready) /\ Tail(ready)[i - 1] = ready[i]
      BY <1>1, <2>1, <2>3
    <3>2. i \in DOMAIN (<<first>> \o Tail(ready)) /\ (<<first>> \o Tail(ready))[i] = ready[i]
      BY <1>1, <1>3, <2>1, <2>3
    <3>3. QED
      BY <1>4, <2>1, <3>1, <3>2 DEF DueIn
  <2>4. QED
    BY <2>2, <2>3
<1>7. QED
  BY <1>5, <1>6

\* Watching for an event, and stopping to.
LEMMA Watching ==
    ASSUME NEW s \in Sockets, pevents \in [Sockets -> SUBSET {"IN", "OUT"}],
           watcher_queue \subseteq Sockets, Synced, UNCHANGED events,
           uv__io_start(s, "OUT") \/ uv__io_stop(s, "OUT") \/ UNCHANGED <<pevents, watcher_queue>>
    PROVE  /\ pevents' \in [Sockets -> SUBSET {"IN", "OUT"}]
           /\ watcher_queue' \subseteq Sockets
           /\ Synced'
           /\ \A t \in Sockets \ {s} : pevents'[t] = pevents[t]
           /\ uv__io_start(s, "OUT") => "OUT" \in pevents'[s]
<1>1. CASE uv__io_start(s, "OUT")
  BY <1>1 DEF uv__io_start, Synced
<1>2. CASE uv__io_stop(s, "OUT")
  <2>1. \A t \in Sockets \ {s} : pevents'[t] = pevents[t]
    BY <1>2 DEF uv__io_stop
  <2>2. pevents' \in [Sockets -> SUBSET {"IN", "OUT"}] /\ watcher_queue' \subseteq Sockets
    BY <1>2 DEF uv__io_stop
  <2>3. Synced'
    BY <1>2, <2>1 DEF uv__io_stop, Synced
  <2>4. uv__io_start(s, "OUT") => "OUT" \in pevents'[s]
    BY DEF uv__io_start
  <2>5. QED
    BY <2>1, <2>2, <2>3, <2>4
<1>3. CASE UNCHANGED <<pevents, watcher_queue>>
  <2>1. Synced'
    BY <1>3 DEF Synced
  <2>2. uv__io_start(s, "OUT") => "OUT" \in pevents'[s]
    BY DEF uv__io_start
  <2>3. QED
    BY <1>3, <2>1, <2>2
<1>4. QED
  BY <1>1, <1>2, <1>3

QueuesOK ==
    /\ write_queue \in [Sockets -> Seq(Requests)]
    /\ write_completed_queue \in [Sockets -> Seq(Requests)]
    /\ send_queue_count \in [Sockets -> Nat]
    /\ pending_queue \in Seq(Sockets)

WatchersOK ==
    /\ pevents \in [Sockets -> SUBSET {"IN", "OUT"}]
    /\ events \in [Sockets -> SUBSET {"IN", "OUT"}]
    /\ watcher_queue \subseteq Sockets

\* Every completed request that was not there before is fed.
NewlyFed ==
    /\ Range(pending_queue) \subseteq Range(pending_queue')
    /\ \A s \in Sockets : write_completed_queue'[s] # <<>> =>
          write_completed_queue[s] # <<>> \/ s \in Range(pending_queue')

\* A send keeps the queues and watchers consistent, and feeds what it completes.
LEMMA Sending ==
    ASSUME QueuesOK, WatchersOK, CountExact, UnsentWatched, Synced,
           NEW s \in Sockets, NEW r \in Requests, uv_udp_send(s, r)
    PROVE  QueuesOK' /\ WatchersOK' /\ CountExact' /\ UnsentWatched' /\ Synced' /\ NewlyFed
<1> DEFINE queue == Append(write_queue[s], r)
<1>0. /\ write_queue[s] \in Seq(Requests) /\ Len(write_queue[s]) \in Nat
      /\ write_completed_queue[s] \in Seq(Requests) /\ Len(write_completed_queue[s]) \in Nat
      /\ queue \in Seq(Requests) /\ Len(queue) = Len(write_queue[s]) + 1
      /\ Queued(write_queue[s], r) = queue
      /\ send_queue_count[s] = Len(write_queue[s]) + Len(write_completed_queue[s])
      /\ send_queue_count' = [send_queue_count EXCEPT ![s] = @ + 1]
      /\ events' = events
  BY AppendProperties, LenProperties DEF QueuesOK, CountExact, uv_udp_send, Queued
<1> HIDE DEF queue
<1>1. CASE send_queue_count[s] = 0
  <2>1. PICK o \in Outcomes(Len(queue)) :
          /\ uv__udp_sendmsg(s, queue, o)
          /\ write_completed_queue' =
                [write_completed_queue EXCEPT ![s] = @ \o First(queue, o.moved)]
          /\ WatchUnsent(s, Len(queue) - o.moved)
    BY <1>0, <1>1 DEF uv_udp_send
  <2>2. Len(queue) = 1 /\ write_completed_queue[s] = <<>>
    <3>1. Len(write_queue[s]) = 0 /\ Len(write_completed_queue[s]) = 0
      BY <1>1 DEF CountExact, QueuesOK
    <3>2. QED
      BY <1>0, <3>1, EmptySeq
  <2>3. o.moved \in 0..1 /\ o.fed \in BOOLEAN /\ (o.moved = 1 => o.fed)
    BY <2>2, OutcomeOf
  <2>4. /\ First(queue, o.moved) \in Seq(Requests) /\ Len(First(queue, o.moved)) = o.moved
        /\ After(queue, o.moved) \in Seq(Requests) /\ Len(After(queue, o.moved)) = 1 - o.moved
    BY <1>0, <2>2, <2>3, SplitType
  <2>5. write_completed_queue[s] \o First(queue, o.moved) = First(queue, o.moved)
    BY <2>2, <2>4, ConcatEmptySeq
  <2>6. /\ write_queue' = [write_queue EXCEPT ![s] = After(queue, o.moved)]
        /\ write_completed_queue' = [write_completed_queue EXCEPT ![s] = First(queue, o.moved)]
    BY <2>1, <2>5 DEF uv__udp_sendmsg
  <2>7. /\ pending_queue' \in Seq(Sockets)
        /\ Range(pending_queue) \subseteq Range(pending_queue')
        /\ o.moved = 1 => s \in Range(pending_queue')
    BY <2>1, <2>3, Feeding DEF uv__udp_sendmsg, QueuesOK
  <2>8. /\ pevents' \in [Sockets -> SUBSET {"IN", "OUT"}]
        /\ watcher_queue' \subseteq Sockets
        /\ Synced'
        /\ \A t \in Sockets \ {s} : pevents'[t] = pevents[t]
        /\ o.moved = 0 => "OUT" \in pevents'[s]
    BY <1>0, <2>1, <2>2, <2>3, Watching DEF WatchUnsent, WatchersOK
  <2>9. /\ write_queue' \in [Sockets -> Seq(Requests)]
        /\ write_completed_queue' \in [Sockets -> Seq(Requests)]
        /\ send_queue_count' \in [Sockets -> Nat]
        /\ write_queue'[s] = After(queue, o.moved)
        /\ write_completed_queue'[s] = First(queue, o.moved)
        /\ send_queue_count'[s] = 1
        /\ \A t \in Sockets \ {s} :
              /\ write_queue'[t] = write_queue[t]
              /\ write_completed_queue'[t] = write_completed_queue[t]
              /\ send_queue_count'[t] = send_queue_count[t]
    BY <1>0, <1>1, <2>4, <2>6 DEF QueuesOK
  <2>9a. QueuesOK' /\ WatchersOK'
    <3>1. QueuesOK'
      BY <2>7, <2>9 DEF QueuesOK
    <3>2. WatchersOK'
      BY <1>0, <2>8 DEF WatchersOK
    <3>3. QED
      BY <3>1, <3>2
  <2>10. CountExact'
    <3> SUFFICES ASSUME NEW t \in Sockets
                 PROVE  send_queue_count'[t] = Len(write_queue'[t]) + Len(write_completed_queue'[t])
      BY DEF CountExact
    <3>1. CASE t = s
      BY <2>3, <2>4, <2>9, <3>1
    <3>2. CASE t # s
      BY <2>9, <3>2 DEF CountExact
    <3>3. QED
      BY <3>1, <3>2
  <2>11. UnsentWatched'
    <3>1. o.moved = 1 => write_queue'[s] = <<>>
      <4>1. o.moved = 1 => Len(After(queue, o.moved)) = 0
        BY <2>3, <2>4
      <4>2. QED
        BY <2>4, <2>9, <4>1, EmptySeq
    <3>2. o.moved = 0 \/ o.moved = 1
      BY <2>3
    <3>3. ASSUME NEW t \in Sockets, write_queue'[t] # <<>>
          PROVE  "OUT" \in pevents'[t]
      BY <2>8, <2>9, <3>1, <3>2, <3>3 DEF UnsentWatched
    <3>4. QED
      BY <3>3 DEF UnsentWatched
  <2>12. NewlyFed
    BY <2>3, <2>4, <2>6, <2>7, EmptySeq DEF NewlyFed, QueuesOK
  <2>13. QED
    BY <2>8, <2>9a, <2>10, <2>11, <2>12
<1>2. CASE send_queue_count[s] # 0
  <2>1. /\ write_queue' = [write_queue EXCEPT ![s] = queue]
        /\ uv__io_start(s, "OUT")
        /\ UNCHANGED <<write_completed_queue, pending_queue>>
    BY <1>0, <1>2 DEF uv_udp_send
  <2>2. /\ pevents' \in [Sockets -> SUBSET {"IN", "OUT"}]
        /\ watcher_queue' \subseteq Sockets
        /\ Synced'
        /\ \A t \in Sockets \ {s} : pevents'[t] = pevents[t]
        /\ "OUT" \in pevents'[s]
    BY <1>0, <2>1, Watching DEF WatchersOK
  <2>2a. /\ write_queue' \in [Sockets -> Seq(Requests)]
         /\ send_queue_count' \in [Sockets -> Nat]
         /\ write_queue'[s] = queue
         /\ send_queue_count'[s] = send_queue_count[s] + 1
         /\ \A t \in Sockets \ {s} :
              write_queue'[t] = write_queue[t] /\ send_queue_count'[t] = send_queue_count[t]
    BY <1>0, <2>1 DEF QueuesOK
  <2>3. QueuesOK' /\ WatchersOK'
    <3>1. QueuesOK'
      BY <2>1, <2>2a DEF QueuesOK
    <3>2. WatchersOK'
      BY <1>0, <2>2 DEF WatchersOK
    <3>3. QED
      BY <3>1, <3>2
  <2>4. CountExact'
    <3> SUFFICES ASSUME NEW t \in Sockets
                 PROVE  send_queue_count'[t] = Len(write_queue'[t]) + Len(write_completed_queue'[t])
      BY DEF CountExact
    <3>0. write_completed_queue' = write_completed_queue
      BY <2>1
    <3>1. CASE t = s
      BY <1>0, <2>2a, <3>0, <3>1 DEF CountExact, QueuesOK
    <3>2. CASE t # s
      BY <2>2a, <3>0, <3>2 DEF CountExact
    <3>3. QED
      BY <3>1, <3>2
  <2>5. UnsentWatched'
    BY <2>1, <2>2 DEF UnsentWatched, QueuesOK
  <2>6. NewlyFed
    BY <2>1 DEF NewlyFed
  <2>7. QED
    BY <2>2, <2>3, <2>4, <2>5, <2>6
<1>3. QED
  BY <1>1, <1>2

-----------------------------------------------------------------------------
(* The steps *)

\* Reading a datagram, with what the relay sends upon it.
LEMMA RecvKeeps ==
    ASSUME IInv, NEW s \in Sockets, uv__udp_recvmsg(s)
    PROVE  IInv'
<1>0. /\ QueuesOK /\ WatchersOK /\ CountExact /\ UnsentWatched /\ Synced
      /\ ready \in Items /\ ready # <<>>
      /\ UNCHANGED <<phase, rounds, timeout, due, late, signalled>>
  BY DEF IInv, TypeOK, QueuesOK, WatchersOK, Items, uv__udp_recvmsg, Current, clocks
<1>1. phase \in {"pending", "events", "after", "exited"}
  BY <1>0 DEF IInv, Phases, TypeOK
<1>2. /\ QueuesOK' /\ WatchersOK' /\ CountExact' /\ UnsentWatched' /\ Synced' /\ NewlyFed
  <2>1. CASE \E t \in Sends(s), r \in Free : uv_udp_send(t, r)
    <3>1. PICK t \in Sends(s), r \in Free : uv_udp_send(t, r)
      BY <2>1
    <3>2. t \in Sockets /\ r \in Requests
      BY DEF Sends, Sockets, Free
    <3>3. QED
      BY <1>0, <3>1, <3>2, Sending
  <2>2. CASE UNCHANGED <<queues, watchers, pending_queue>>
    <3>1. UNCHANGED <<write_queue, write_completed_queue, send_queue_count, pevents, events,
                      watcher_queue, pending_queue>>
      BY <2>2 DEF queues, watchers
    <3>2. QED
      BY <1>0, <3>1 DEF QueuesOK, WatchersOK, CountExact, UnsentWatched, Synced, NewlyFed
  <2>3. QED
    BY <2>1, <2>2 DEF uv__udp_recvmsg
<1>3. /\ ready' \in Items
      /\ \A t \in Sockets : DueIn(t, ready) => DueIn(t, ready')
  <2>1. CASE ready' = ReadyWithout("IN")
    BY <1>0, <2>1, ItemDone
  <2>2. CASE ready' = ready
    BY <1>0, <2>2
  <2>3. QED
    BY <2>1, <2>2 DEF uv__udp_recvmsg
<1>4. count' \in 1..RecvLimit
  <2>1. RecvLimit \in Nat /\ RecvLimit >= 1 /\ count \in 1..RecvLimit
    BY LoopAssumption DEF IInv, TypeOK
  <2>2. count' = RecvLimit \/ (count' = IF count > 1 THEN count - 1 ELSE 1)
    BY DEF uv__udp_recvmsg
  <2>3. QED
    BY <2>1, <2>2
<1>5. arrived' \in [Sockets -> Nat]
  <2>1. arrived \in [Sockets -> Nat]
    BY DEF IInv, TypeOK
  <2>2. \/ arrived[s] > 0 /\ arrived' = [arrived EXCEPT ![s] = @ - 1]
        \/ arrived' = arrived
    BY DEF uv__udp_recvmsg
  <2>3. QED
    BY <2>1, <2>2
<1>6. TypeOK'
  BY <1>0, <1>2, <1>3, <1>4, <1>5 DEF IInv, TypeOK, QueuesOK, WatchersOK, Items
<1>7. CompletedFed'
  BY <1>2, <1>3 DEF IInv, CompletedFed, NewlyFed
<1>8. Phases'
  BY <1>0, <1>1 DEF Phases
<1>9. QED
  BY <1>2, <1>6, <1>7, <1>8 DEF IInv

\* Writing what is queued, and the callbacks of what is completed.
LEMMA WriteKeeps ==
    ASSUME IInv, NEW s \in Sockets, NEW o \in AllOutcomes, uv__udp_io_pollout(s, o)
    PROVE  IInv'
<1> DEFINE queue == write_queue[s]
<1>0. /\ QueuesOK /\ WatchersOK /\ CountExact /\ UnsentWatched /\ Synced
      /\ ready \in Items /\ ready # <<>> /\ Head(ready)[1] = s
      /\ UNCHANGED <<phase, events, count, rounds, timeout, due, late, arrived, signalled>>
      /\ queue \in Seq(Requests)
      /\ o \in Outcomes(Len(queue))
      /\ uv__udp_sendmsg(s, queue, o)
      /\ write_completed_queue' = [write_completed_queue EXCEPT ![s] = <<>>]
      /\ ready' = ReadyWithout("OUT")
  BY DEF IInv, TypeOK, QueuesOK, WatchersOK, Items, uv__udp_io_pollout, Current, clocks
<1>1. phase \in {"pending", "events", "after", "exited"}
  BY <1>0 DEF IInv, Phases, TypeOK
<1>2. Len(queue) \in Nat
  BY <1>0, LenProperties
<1>3. o.moved \in 0..Len(queue) /\ o.fed \in BOOLEAN
  BY <1>0, <1>2, OutcomeOf
<1>4. After(queue, o.moved) \in Seq(Requests) /\ Len(After(queue, o.moved)) = Len(queue) - o.moved
  BY <1>0, <1>3, SplitType
<1>5. /\ write_queue' \in [Sockets -> Seq(Requests)]
      /\ write_queue'[s] = After(queue, o.moved)
      /\ write_completed_queue' \in [Sockets -> Seq(Requests)]
      /\ write_completed_queue'[s] = <<>>
      /\ \A t \in Sockets \ {s} : /\ write_queue'[t] = write_queue[t]
                                  /\ write_completed_queue'[t] = write_completed_queue[t]
  <2>1. write_queue' = [write_queue EXCEPT ![s] = After(queue, o.moved)]
    BY <1>0 DEF uv__udp_sendmsg
  <2>2. <<>> \in Seq(Requests)
    BY EmptySeq
  <2>3. QED
    BY <1>0, <1>4, <2>1, <2>2 DEF QueuesOK
<1>6. /\ send_queue_count' \in [Sockets -> Nat]
      /\ send_queue_count'[s] = Len(queue) - o.moved
      /\ \A t \in Sockets \ {s} : send_queue_count'[t] = send_queue_count[t]
  <2>1. send_queue_count' = [send_queue_count EXCEPT
                                ![s] = @ - (Len(write_completed_queue[s]) + o.moved)]
    BY DEF uv__udp_io_pollout, Finished
  <2>2. send_queue_count[s] - (Len(write_completed_queue[s]) + o.moved) = Len(queue) - o.moved
    BY <1>0, <1>3 DEF CountExact, QueuesOK
  <2>3. Len(queue) - o.moved \in Nat
    BY <1>2, <1>3
  <2>4. QED
    BY <1>0, <2>1, <2>2, <2>3 DEF QueuesOK
<1>7. /\ pending_queue' \in Seq(Sockets)
      /\ Range(pending_queue) \subseteq Range(pending_queue')
  BY <1>0, <1>3, Feeding DEF uv__udp_sendmsg, QueuesOK
<1>8. /\ pevents' \in [Sockets -> SUBSET {"IN", "OUT"}]
      /\ watcher_queue' \subseteq Sockets
      /\ Synced'
      /\ \A t \in Sockets \ {s} : pevents'[t] = pevents[t]
      /\ o.moved # Len(queue) => pevents' = pevents
  <2>1. uv__io_stop(s, "OUT") \/ UNCHANGED <<pevents, watcher_queue>>
    BY DEF uv__udp_io_pollout
  <2>2. o.moved # Len(queue) => pevents' = pevents
    BY DEF uv__udp_io_pollout
  <2>3. UNCHANGED events
    BY <1>0
  <2>4. QED
    BY <1>0, <2>1, <2>2, <2>3, Watching DEF WatchersOK
<1>9. CountExact'
  <2> SUFFICES ASSUME NEW t \in Sockets
               PROVE  send_queue_count'[t] = Len(write_queue'[t]) + Len(write_completed_queue'[t])
    BY DEF CountExact
  <2>1. CASE t = s
    BY <1>2, <1>3, <1>4, <1>5, <1>6, <2>1, EmptySeq
  <2>2. CASE t # s
    BY <1>0, <1>5, <1>6, <2>2 DEF CountExact
  <2>3. QED
    BY <2>1, <2>2
<1>10. UnsentWatched'
  <2>1. o.moved = Len(queue) => write_queue'[s] = <<>>
    <3>1. o.moved = Len(queue) => Len(After(queue, o.moved)) = 0
      BY <1>2, <1>3, <1>4
    <3>2. QED
      BY <1>4, <1>5, <3>1, EmptySeq
  <2>2. o.moved # Len(queue) => queue # <<>>
    BY <1>3, EmptySeq
  <2>3. ASSUME NEW t \in Sockets, write_queue'[t] # <<>>
        PROVE  "OUT" \in pevents'[t]
    BY <1>0, <1>5, <1>8, <2>1, <2>2, <2>3 DEF UnsentWatched
  <2>4. QED
    BY <2>3 DEF UnsentWatched
<1>11. /\ ready' \in Items
       /\ \A t \in Sockets \ {s} : DueIn(t, ready) => DueIn(t, ready')
  BY <1>0, ItemDone
<1>12. CompletedFed'
  BY <1>5, <1>7, <1>11 DEF IInv, CompletedFed
<1>13. TypeOK'
  BY <1>0, <1>5, <1>6, <1>7, <1>8, <1>11 DEF IInv, TypeOK, WatchersOK, Items
<1>14. Phases'
  BY <1>0, <1>1 DEF Phases
<1>15. QED
  BY <1>8, <1>9, <1>10, <1>12, <1>13, <1>14 DEF IInv

\* The steps of the loop that only move it from phase to phase.
LEMMA QuietKeeps ==
    ASSUME IInv, UNCHANGED <<queues, watchers, pending_queue, ready, count>>,
           timeout' = timeout, due' \in Int, late' \in 0..MaxLate, rounds' \in 0..PendingRounds,
           arrived' \in [Sockets -> Nat], signalled' \in BOOLEAN,
           \/ phase' = phase
           \/ /\ phase' \in {"started", "timers", "iteration", "events", "after", "exited"}
              /\ phase' \in {"started", "timers", "iteration"} => ready = <<>>
    PROVE  IInv'
<1>1. UNCHANGED <<write_queue, write_completed_queue, send_queue_count, pevents, events,
                  watcher_queue, pending_queue, ready, count>>
  BY DEF queues, watchers
<1>2. TypeOK'
  BY <1>1 DEF IInv, TypeOK
<1>3. CountExact' /\ UnsentWatched' /\ CompletedFed' /\ Synced'
  BY <1>1 DEF IInv, CountExact, UnsentWatched, CompletedFed, Synced
<1>4. Phases'
  BY <1>1 DEF IInv, Phases
<1>5. QED
  BY <1>2, <1>3, <1>4 DEF IInv

\* The pending queue becomes what is to run next.
LEMMA PendingKeeps == ASSUME IInv, uv__run_pending PROVE IInv'
<1>0. /\ UNCHANGED <<write_queue, write_completed_queue, send_queue_count, pevents, events,
                     watcher_queue, count, timeout, due, late, arrived, signalled>>
      /\ ready = <<>> /\ ready' = Fed /\ pending_queue' = <<>>
      /\ pending_queue \in Seq(Sockets)
      /\ phase' \in {"pending", "after"}
  BY DEF IInv, TypeOK, uv__run_pending, queues, watchers, clocks
<1>1. /\ ready' \in Items
      /\ \A s \in Range(pending_queue) : DueIn(s, ready')
  <2>1. /\ Len(pending_queue) \in Nat /\ DOMAIN pending_queue = 1..Len(pending_queue)
        /\ \A i \in 1..Len(pending_queue) : pending_queue[i] \in Sockets
    BY <1>0, LenProperties
  <2>2. \A i \in 1..Len(pending_queue) :
           <<pending_queue[i], {"OUT"}>> \in (Sockets \cup {Signal}) \X SUBSET {"IN", "OUT"}
    BY <2>1
  <2>3. ready' = [i \in 1..Len(pending_queue) |-> <<pending_queue[i], {"OUT"}>>]
    BY <1>0, <2>1 DEF Fed
  <2>4. ready' \in Items
    BY <2>1, <2>2, <2>3, IsASeq DEF Items
  <2>5. \A s \in Range(pending_queue) : DueIn(s, ready')
    BY <2>1, <2>3 DEF Range, DueIn
  <2>6. QED
    BY <2>4, <2>5
<1>2. rounds' \in 0..PendingRounds
  <2>1. PendingRounds \in Nat /\ rounds \in 0..PendingRounds
    BY LoopAssumption DEF IInv, TypeOK
  <2>2. rounds' = rounds \/ (rounds < PendingRounds /\ rounds' = rounds + 1)
    BY DEF uv__run_pending
  <2>3. QED
    BY <2>1, <2>2
<1>3. TypeOK'
  <2>1. pending_queue' \in Seq(Sockets)
    BY <1>0, EmptySeq
  <2>2. QED
    BY <1>0, <1>1, <1>2, <2>1 DEF IInv, TypeOK, Items
<1>4. CompletedFed'
  <2>1. \A s \in Sockets : ~ DueIn(s, ready)
    BY <1>0 DEF DueIn
  <2>2. QED
    BY <1>0, <1>1, <2>1 DEF IInv, CompletedFed
<1>5. CountExact' /\ UnsentWatched' /\ Synced'
  BY <1>0 DEF IInv, CountExact, UnsentWatched, Synced
<1>6. Phases'
  BY <1>0 DEF Phases
<1>7. QED
  BY <1>3, <1>4, <1>5, <1>6 DEF IInv

\* The kernel is told what to watch, and the timeout is chosen.
LEMMA PollKeeps == ASSUME IInv, Poll PROVE IInv'
<1>0. /\ UNCHANGED <<write_queue, write_completed_queue, send_queue_count, pevents,
                     pending_queue, ready, count, rounds, due, late, arrived, signalled>>
      /\ ready = <<>> /\ phase' = "waiting" /\ watcher_queue' = {}
      /\ timeout' = IF pending_queue = <<>> /\ due > 0 THEN due ELSE 0
      /\ events' = [s \in Sockets |-> IF s \in watcher_queue THEN pevents[s] ELSE events[s]]
  BY DEF Poll, queues, clocks
<1>1. TypeOK'
  <2>1. events' \in [Sockets -> SUBSET {"IN", "OUT"}]
    BY <1>0 DEF IInv, TypeOK
  <2>2. timeout' \in Nat
    BY <1>0 DEF IInv, TypeOK
  <2>3. QED
    BY <1>0, <2>1, <2>2 DEF IInv, TypeOK
<1>2. Synced'
  BY <1>0 DEF IInv, Synced, TypeOK
<1>3. CountExact' /\ UnsentWatched' /\ CompletedFed'
  BY <1>0 DEF IInv, CountExact, UnsentWatched, CompletedFed
<1>4. Phases'
  BY <1>0 DEF Phases
<1>5. QED
  BY <1>1, <1>2, <1>3, <1>4 DEF IInv

\* The kernel reports events, in any order.
LEMMA EventsKeep ==
    ASSUME IInv, NEW writable \in SUBSET Sockets, PollEvents(writable) PROVE IInv'
<1>0. /\ UNCHANGED <<write_queue, write_completed_queue, send_queue_count, pevents, events,
                     watcher_queue, pending_queue, count, rounds, timeout, arrived, signalled>>
      /\ phase = "waiting" /\ phase' = "events" /\ due' = due - late /\ late' = 0
  BY DEF PollEvents, uv__update_time, queues, watchers
<1>1. ready' \in Items
  <2> DEFINE found == [s \in Sockets |-> events[s] \cap
                         ((IF arrived[s] > 0 THEN {"IN"} ELSE {})
                             \cup (IF s \in writable THEN {"OUT"} ELSE {}))]
             W == {s \in Sockets : found[s] # {}}
  <2>1. PICK order \in SetToSeqs(W) :
           ready' = WithSignal([i \in DOMAIN order |-> <<order[i], found[order[i]]>>])
    BY DEF PollEvents
  <2>2. \E n \in Nat : order \in [1..n -> W]
    <3>1. IsFiniteSet(Sockets)
      <4>1. Sockets = {"bind_socket"} \cup {"query_socket"}
        BY DEF Sockets
      <4>2. QED
        BY <4>1, FS_EmptySet, FS_Singleton, FS_Union
    <3>2. Cardinality(W) \in Nat
      BY <3>1, FS_Subset, FS_CardinalityType
    <3>3. QED
      BY <2>1, <3>2 DEF SetToSeqs
  <2>3. PICK n \in Nat : order \in [1..n -> W]
    BY <2>2
  <2> DEFINE items == [i \in DOMAIN order |-> <<order[i], found[order[i]]>>]
  <2>4. items \in Items
    <3>1. items = [i \in 1..n |-> <<order[i], found[order[i]]>>]
      BY <2>3
    <3>0. \A s \in Sockets : found[s] \in SUBSET {"IN", "OUT"}
      BY DEF IInv, TypeOK
    <3>2. \A i \in 1..n : <<order[i], found[order[i]]>>
                             \in (Sockets \cup {Signal}) \X SUBSET {"IN", "OUT"}
      <4> HIDE DEF found
      <4>1. \A i \in 1..n : order[i] \in Sockets
        BY <2>3
      <4>2. QED
        BY <3>0, <4>1
    <3>3. QED
      <4> HIDE DEF found, items
      <4> DEFINE Item == (Sockets \cup {Signal}) \X SUBSET {"IN", "OUT"}
      <4>1. \A i \in 1..n : <<order[i], found[order[i]]>> \in Item
        BY <3>2
      <4> HIDE DEF Item
      <4>2. [i \in 1..n |-> <<order[i], found[order[i]]>>] \in Seq(Item)
        BY <4>1, <2>3, IsASeq
      <4>3. QED
        BY <3>1, <4>2 DEF Items, Item
  <2>5. Append(items, <<Signal, {"IN"}>>) \in Items
    BY <2>4, AppendProperties DEF Items
  <2>6. QED
    BY <2>1, <2>4, <2>5 DEF WithSignal
<1>2. TypeOK'
  <2>1. due' \in Int /\ late' \in 0..MaxLate
    BY <1>0, LoopAssumption DEF IInv, TypeOK
  <2>2. QED
    BY <1>0, <1>1, <2>1 DEF IInv, TypeOK, Items
<1>3. CountExact' /\ UnsentWatched' /\ Synced'
  BY <1>0 DEF IInv, CountExact, UnsentWatched, Synced
<1>4. CompletedFed'
  <2>1. \A s \in Sockets : ~ DueIn(s, ready)
    BY <1>0 DEF IInv, Phases, DueIn
  <2>2. QED
    BY <1>0, <2>1 DEF IInv, CompletedFed
<1>5. Phases'
  BY <1>0 DEF Phases
<1>6. QED
  BY <1>2, <1>3, <1>4, <1>5 DEF IInv

\* Sockets are opened with nothing queued, and both are to be watched.
LEMMA SocketsKeep == ASSUME IInv, socket_init PROVE IInv'
<1>0. /\ UNCHANGED <<write_queue, write_completed_queue, send_queue_count, events,
                     pending_queue, ready, count, rounds, timeout, due, late, arrived, signalled>>
      /\ phase = "starting" /\ phase' \in {"starting", "exited"}
      /\ \/ UNCHANGED <<pevents, watcher_queue>>
         \/ pevents' = [s \in Sockets |-> {"IN"}] /\ watcher_queue' = Sockets
  BY DEF socket_init, Exit, queues, clocks
<1>1. TypeOK'
  BY <1>0 DEF IInv, TypeOK
<1>2. CountExact' /\ CompletedFed' /\ Synced'
  BY <1>0 DEF IInv, CountExact, CompletedFed, Synced
<1>3. UnsentWatched'
  <2>1. \A s \in Sockets : write_queue'[s] = <<>>
    BY <1>0 DEF IInv, Phases
  <2>2. QED
    BY <2>1 DEF UnsentWatched
<1>4. Phases'
  BY <1>0 DEF IInv, Phases
<1>5. QED
  BY <1>1, <1>2, <1>3, <1>4 DEF IInv

\* Every step of the loop and of the world around it keeps the invariant.
LEMMA LoopKeeps == ASSUME IInv, LoopNext PROVE IInv'
<1> USE DEF IInv
<1>0. /\ due \in Int /\ late \in 0..MaxLate /\ rounds \in 0..PendingRounds
      /\ arrived \in [Sockets -> Nat] /\ signalled \in BOOLEAN
      /\ MaxLate \in Nat \ {0} /\ PendingRounds \in Nat \ {0} /\ Period \in Nat \ {0}
  BY LoopAssumption DEF TypeOK
<1>1. CASE uv__run_timers
  <2>1. due' \in Int /\ late' \in 0..MaxLate
    BY <1>0, <1>1 DEF uv__run_timers
  <2>2. ready = <<>>
    BY <1>1 DEF uv__run_timers, Phases
  <2>3. QED
    BY <1>0, <1>1, <2>1, <2>2, QuietKeeps DEF uv__run_timers
<1>2. CASE uv__run_pending
  BY <1>2, PendingKeeps
<1>3. CASE Poll
  BY <1>3, PollKeeps
<1>4. CASE \E writable \in SUBSET Sockets : PollEvents(writable)
  BY <1>4, EventsKeep
<1>5. CASE PollTimeout
  <2>1. due' \in Int /\ late' \in 0..MaxLate
    BY <1>0, <1>5 DEF PollTimeout, uv__update_time
  <2>2. QED
    BY <1>0, <1>5, <2>1, QuietKeeps DEF PollTimeout
<1>6. CASE \E s \in Sockets : uv__udp_recvmsg(s)
  BY <1>6, RecvKeeps
<1>7. CASE \E s \in Sockets, o \in AllOutcomes : uv__udp_io_pollout(s, o)
  BY <1>7, WriteKeeps
<1>8. CASE sigint_callback
  BY <1>0, <1>8, QuietKeeps DEF sigint_callback, clocks
<1>9. CASE EndPhase
  <2>1. rounds' \in 0..PendingRounds
    BY <1>0, <1>9 DEF EndPhase
  <2>2. phase' \in {"after", "timers"} /\ ready = <<>>
    BY <1>9 DEF EndPhase
  <2>3. QED
    BY <1>0, <1>9, <2>1, <2>2, QuietKeeps DEF EndPhase, clocks
<1>10. CASE \E s \in Sockets : Arrive(s)
  <2>1. arrived' \in [Sockets -> Nat]
    BY <1>0, <1>10 DEF Arrive
  <2>2. QED
    BY <1>0, <1>10, <2>1, QuietKeeps DEF Arrive, clocks
<1>11. CASE Interrupt
  BY <1>0, <1>11, QuietKeeps DEF Interrupt, clocks
<1>12. CASE Tick
  <2>1. late' \in 0..MaxLate
    BY <1>0, <1>12 DEF Tick
  <2>2. QED
    BY <1>0, <1>12, <2>1, QuietKeeps DEF Tick
<1>13. QED
  BY <1>1, <1>2, <1>3, <1>4, <1>5, <1>6, <1>7, <1>8, <1>9, <1>10, <1>11, <1>12
     DEF LoopNext, LoopStep, World

\* So does every step of main.
THEOREM StepIInv == IInv /\ [Next]_vars => IInv'
<1> SUFFICES ASSUME IInv, [Next]_vars PROVE IInv'
  OBVIOUS
<1>0. /\ due \in Int /\ late \in 0..MaxLate /\ rounds \in 0..PendingRounds
      /\ arrived \in [Sockets -> Nat] /\ signalled \in BOOLEAN /\ Period \in Int
  BY LoopAssumption DEF IInv, TypeOK
<1>1. CASE ReadCommandLine
  BY <1>0, <1>1, QuietKeeps DEF ReadCommandLine, Exit, clocks
<1>2. CASE socket_init
  BY <1>2, SocketsKeep
<1>3. CASE StartHandles
  <2>1. ready = <<>>
    BY <1>3 DEF StartHandles, IInv, Phases
  <2>2. QED
    BY <1>0, <1>3, <2>1, QuietKeeps DEF StartHandles
<1>4. CASE uv_run
  <2>1. ready = <<>>
    BY <1>4 DEF uv_run, IInv, Phases
  <2>2. QED
    BY <1>0, <1>4, <2>1, QuietKeeps DEF uv_run, clocks
<1>5. CASE Killed
  BY <1>0, <1>5, QuietKeeps DEF Killed, Exit, clocks
<1>6. CASE LoopNext
  BY <1>6, LoopKeeps
<1>7. CASE UNCHANGED vars
  BY <1>0, <1>7, QuietKeeps DEF vars, loopVars, clocks
<1>8. QED
  BY <1>1, <1>2, <1>3, <1>4, <1>5, <1>6, <1>7 DEF Next, Main, Exited

\* So it holds in every state.
LEMMA AlwaysIInv == Spec => []IInv
<1>1. QED
  BY InitIInv, StepIInv, PTL DEF Spec

-----------------------------------------------------------------------------
(* The theorems *)

\* Type correctness, of Process with its Loop.
THEOREM TypeCorrect == Spec => []TypeOK
<1>1. IInv => TypeOK
  BY DEF IInv
<1>2. QED
  BY <1>1, AlwaysIInv, PTL

\* The relay ignores what uv_udp_send returns, and may: the loop never sleeps
\* on a datagram. What is unsent the kernel was told to report, and no udp_on_send
\* is left for after the sleep.
THEOREM NeverSleepsOnASend == Spec => []NeverStuck
<1>1. QED
  BY IInvImplies, AlwaysIInv, PTL
-----------------------------------------------------------------------------
(* Loop implements Outbox *)

\* What Outbox calls the outbox of a socket.
Waiting(s) == write_completed_queue[s] \o write_queue[s]

\* The order in which the two queues of a socket hold its requests.
LEMMA WaitingType ==
    ASSUME QueuesOK, NEW s \in Sockets
    PROVE  /\ write_queue[s] \in Seq(Requests)
           /\ write_completed_queue[s] \in Seq(Requests)
           /\ Waiting(s) \in Seq(Requests)
           /\ Len(Waiting(s)) = Len(write_completed_queue[s]) + Len(write_queue[s])
           /\ Range(Waiting(s)) = Held(s)
<1>1. write_queue[s] \in Seq(Requests) /\ write_completed_queue[s] \in Seq(Requests)
  BY DEF QueuesOK
<1>2. /\ Waiting(s) \in Seq(Requests)
      /\ Len(Waiting(s)) = Len(write_completed_queue[s]) + Len(write_queue[s])
  BY <1>1, ConcatProperties DEF Waiting
<1>3. Range(Waiting(s)) = Range(write_completed_queue[s]) \cup Range(write_queue[s])
  BY <1>1, RangeConcatenation DEF Waiting
<1>4. QED
  BY <1>1, <1>2, <1>3 DEF Held

\* Concatenation is associative.
LEMMA Regroup ==
    ASSUME NEW p \in Seq(Requests), NEW q \in Seq(Requests), NEW r \in Seq(Requests)
    PROVE  (p \o q) \o r = p \o (q \o r)
<1>1. \A S : \A a, b, c \in Seq(S) : (a \o b) \o c = a \o (b \o c)
  BY ConcatAssociative
<1>2. QED
  BY <1>1

\* What is cut off the front of a queue and put behind another is where it was.
LEMMA MovedOver ==
    ASSUME NEW q \in Seq(Requests), NEW n \in 0..Len(q)
    PROVE  First(q, n) \o After(q, n) = q
<1>0. Len(q) \in Nat
  BY LenProperties
<1>1. SubSeq(q, 1, n) \o SubSeq(q, n + 1, Len(q)) = SubSeq(q, 1, Len(q))
  <2>1. 1 \in 1..(Len(q) + 1) /\ n \in (1 - 1)..Len(q) /\ Len(q) \in n..Len(q)
    BY <1>0
  <2>2. QED
    BY <2>1, ConcatAdjacentSubSeq
<1>2. QED
  BY <1>1, SubSeqFull DEF First, After

\* The queue less all of its first part and k of its second.
LEMMA AfterBoth ==
    ASSUME NEW p \in Seq(Requests), NEW q \in Seq(Requests), NEW k \in 0..Len(q)
    PROVE  /\ Len(p) + k \in 0..Len(p \o q)
           /\ SubSeq(p \o q, Len(p) + k + 1, Len(p \o q)) = After(q, k)
<1>1. /\ p \o q \in Seq(Requests) /\ Len(p \o q) = Len(p) + Len(q)
      /\ Len(p) \in Nat /\ Len(q) \in Nat
      /\ \A i \in 1..(Len(p) + Len(q)) : (p \o q)[i] = IF i <= Len(p) THEN p[i] ELSE q[i - Len(p)]
  BY ConcatProperties, LenProperties
<1>2. \A i \in 1..Len(q) : q[i] \in Requests
  BY ElementOfSeq
<1>3. \A i \in 1..(Len(p) + Len(q)) : (p \o q)[i] \in Requests
  BY <1>1, ElementOfSeq
<1> DEFINE rest == SubSeq(p \o q, Len(p) + k + 1, Len(p) + Len(q))
           m == Len(q) - k
<1>4. /\ rest \in Seq(Requests)
      /\ Len(rest) = m
      /\ \A i \in 1..m : rest[i] = (p \o q)[Len(p) + k + i]
  <2>0. Len(p) + k + 1 \in Int /\ Len(p) + Len(q) \in Int
    BY <1>1
  <2>1. \A i \in (Len(p) + k + 1)..(Len(p) + Len(q)) : (p \o q)[i] \in Requests
    BY <1>1, <1>3
  <2>2. /\ rest \in Seq(Requests)
        /\ Len(rest) = (IF Len(p) + k + 1 <= Len(p) + Len(q)
                        THEN Len(p) + Len(q) - (Len(p) + k + 1) + 1 ELSE 0)
        /\ \A i \in 1..(Len(p) + Len(q) - (Len(p) + k + 1) + 1) :
              rest[i] = (p \o q)[Len(p) + k + 1 + i - 1]
    BY <2>0, <2>1, SubSeqProperties
  <2>3. rest \in Seq(Requests)
    BY <2>2
  <2>4. Len(rest) = m
    BY <1>1, <2>2, SMT
  <2>5. \A i \in 1..m : rest[i] = (p \o q)[Len(p) + k + i]
    <3>1. \A i \in 1..m : Len(p) + k + 1 + i - 1 = Len(p) + k + i
      BY <1>1
    <3>2. m = Len(p) + Len(q) - (Len(p) + k + 1) + 1
      BY <1>1
    <3> HIDE DEF rest
    <3>3. QED
      BY <2>2, <3>1, <3>2
  <2>6. QED
    BY <2>3, <2>4, <2>5
<1>5. /\ After(q, k) \in Seq(Requests)
      /\ Len(After(q, k)) = m
      /\ \A i \in 1..m : After(q, k)[i] = q[k + i]
  BY <1>1, <1>2, SubSeqProperties DEF After
<1>6. \A i \in 1..m : (p \o q)[Len(p) + k + i] = q[k + i]
  BY <1>1
<1> HIDE DEF rest
<1>7. rest = After(q, k)
  BY <1>4, <1>5, <1>6, SeqEqual
<1>8. QED
  BY <1>1, <1>7 DEF rest
\* A send puts one request at the end of the outbox of its socket, whether the
\* kernel takes it at once or it is queued.
LEMMA SendSubmits ==
    ASSUME IInv, NEW s \in Sockets, NEW r \in Free, uv_udp_send(s, r)
    PROVE  \A t \in Sockets :
              Waiting(t)' = IF t = s THEN Append(Waiting(s), r) ELSE Waiting(t)
<1> DEFINE queue == Append(write_queue[s], r)
           done == write_completed_queue[s]
<1>0. QueuesOK /\ CountExact /\ r \in Requests
  BY DEF IInv, TypeOK, QueuesOK, Free
<1>1. /\ write_queue[s] \in Seq(Requests) /\ done \in Seq(Requests)
      /\ queue \in Seq(Requests) /\ Len(queue) = Len(write_queue[s]) + 1
      /\ Queued(write_queue[s], r) = queue
  <2>1. write_queue[s] \in Seq(Requests) /\ done \in Seq(Requests)
    BY ONLY <1>0, s \in Sockets DEF QueuesOK
  <2>2. queue \in Seq(Requests) /\ Len(queue) = Len(write_queue[s]) + 1
    BY ONLY <1>0, <2>1, AppendProperties
  <2>3. Queued(write_queue[s], r) = queue
    BY ONLY TRUE DEF Queued
  <2>4. QED
    BY ONLY <2>1, <2>2, <2>3
<1>2. done \o queue = Append(Waiting(s), r)
  <2>1. queue = write_queue[s] \o <<r>> /\ <<r>> \in Seq(Requests)
    BY <1>0, <1>1, AppendIsConcat
  <2>2. done \o queue = Waiting(s) \o <<r>>
    <3>1. Waiting(s) \o <<r>> = done \o (write_queue[s] \o <<r>>)
      BY <1>1, <2>1, Regroup DEF Waiting
    <3>2. QED
      BY <2>1, <3>1
  <2>3. QED
    BY <1>0, <2>2, WaitingType, AppendIsConcat
<1> HIDE DEF queue
<1>3. \E o \in 0..Len(queue) :
         /\ write_queue' = [write_queue EXCEPT ![s] = After(queue, o)]
         /\ write_completed_queue' = [write_completed_queue EXCEPT ![s] = done \o First(queue, o)]
  <2>1. CASE send_queue_count[s] = 0
    <3>1. PICK o \in Outcomes(Len(queue)) :
            /\ write_queue' = [write_queue EXCEPT ![s] = After(queue, o.moved)]
            /\ write_completed_queue' =
                  [write_completed_queue EXCEPT ![s] = done \o First(queue, o.moved)]
      BY <1>1, <2>1 DEF uv_udp_send, uv__udp_sendmsg
    <3>2. o.moved \in 0..Len(queue)
      BY <1>1, LenProperties, OutcomeOf
    <3>3. QED
      BY <3>1, <3>2
  <2>2. CASE send_queue_count[s] # 0
    <3>1. First(queue, 0) = <<>> /\ After(queue, 0) = queue
      BY <1>1, SubSeqEmpty, SubSeqFull DEF First, After
    <3>2. done \o First(queue, 0) = done
      BY <1>1, <3>1, ConcatEmptySeq
    <3>3. write_queue' = [write_queue EXCEPT ![s] = queue]
      BY <1>1, <2>2 DEF uv_udp_send
    <3>4. write_completed_queue' = write_completed_queue
      BY <2>2 DEF uv_udp_send
    <3>5. write_completed_queue' = [write_completed_queue EXCEPT ![s] = done]
      BY <1>0, <3>4 DEF QueuesOK
    <3>6. 0 \in 0..Len(queue)
      BY <1>1
    <3>7. QED
      BY <3>1, <3>2, <3>3, <3>5, <3>6
  <2>3. QED
    BY <2>1, <2>2
<1>4. PICK o \in 0..Len(queue) :
         /\ write_queue' = [write_queue EXCEPT ![s] = After(queue, o)]
         /\ write_completed_queue' = [write_completed_queue EXCEPT ![s] = done \o First(queue, o)]
  BY <1>3
<1>5. /\ write_queue'[s] = After(queue, o)
      /\ write_completed_queue'[s] = done \o First(queue, o)
      /\ \A t \in Sockets \ {s} : /\ write_queue'[t] = write_queue[t]
                                  /\ write_completed_queue'[t] = write_completed_queue[t]
  BY <1>0, <1>4 DEF QueuesOK
<1>6. (done \o First(queue, o)) \o After(queue, o) = done \o queue
  <2>1. First(queue, o) \in Seq(Requests) /\ After(queue, o) \in Seq(Requests)
    BY <1>1, SplitType
  <2>2. (done \o First(queue, o)) \o After(queue, o) = done \o (First(queue, o) \o After(queue, o))
    <3> DEFINE first == First(queue, o)
               after == After(queue, o)
    <3>1. done \in Seq(Requests) /\ first \in Seq(Requests) /\ after \in Seq(Requests)
      BY ONLY <1>1, <2>1
    <3> HIDE DEF done, first, after
    <3>2. (done \o first) \o after = done \o (first \o after)
      BY ONLY <3>1, Regroup
    <3>3. QED
      BY ONLY <3>2 DEF first, after
  <2>3. QED
    BY <1>1, <2>2, MovedOver
<1>7. QED
  BY <1>2, <1>5, <1>6 DEF Waiting

\* Where nothing is sent or finished, the outboxes stay as they are.
LEMMA QueuesStay ==
    ASSUME UNCHANGED <<write_queue, write_completed_queue>>, NEW t \in Sockets
    PROVE  Waiting(t)' = Waiting(t)
BY DEF Waiting

\* Writing finishes what was completed and what the kernel takes now: a front
\* part of the outbox, or nothing.
LEMMA WriteFinishes ==
    ASSUME IInv, NEW s \in Sockets, NEW o \in AllOutcomes, uv__udp_io_pollout(s, o)
    PROVE  \E n \in 0..Len(Waiting(s)) : \A t \in Sockets :
              Waiting(t)' = IF t = s THEN SubSeq(Waiting(s), n + 1, Len(Waiting(s)))
                                     ELSE Waiting(t)
<1> DEFINE queue == write_queue[s]
           done == write_completed_queue[s]
<1>0. QueuesOK
  BY DEF IInv, TypeOK, QueuesOK
<1>1. /\ queue \in Seq(Requests) /\ done \in Seq(Requests) /\ Waiting(s) \in Seq(Requests)
      /\ Len(Waiting(s)) = Len(done) + Len(queue)
      /\ Len(done) \in Nat /\ Len(queue) \in Nat
  BY <1>0, WaitingType, LenProperties
<1>2. o.moved \in 0..Len(queue)
  BY <1>1, OutcomeOf DEF uv__udp_io_pollout
<1>3. /\ write_queue'[s] = After(queue, o.moved)
      /\ write_completed_queue'[s] = <<>>
      /\ \A t \in Sockets \ {s} : /\ write_queue'[t] = write_queue[t]
                                  /\ write_completed_queue'[t] = write_completed_queue[t]
  BY <1>0 DEF QueuesOK, uv__udp_io_pollout, uv__udp_sendmsg
<1>4. Waiting(s)' = After(queue, o.moved)
  <2>1. After(queue, o.moved) \in Seq(Requests)
    BY <1>1, <1>2, SplitType
  <2>2. QED
    BY <1>3, <2>1, ConcatEmptySeq DEF Waiting
<1>5. /\ Len(done) + o.moved \in 0..Len(Waiting(s))
      /\ After(queue, o.moved) = SubSeq(Waiting(s), Len(done) + o.moved + 1, Len(Waiting(s)))
  BY <1>1, <1>2, AfterBoth DEF Waiting
<1>6. QED
  BY <1>3, <1>4, <1>5 DEF Waiting

\* The outbox of every socket is empty at the start.
LEMMA OutboxInit == Init => Promise!Init
<1> SUFFICES ASSUME Init PROVE Promise!Init
  OBVIOUS
<1>1. \A s \in Sockets : write_completed_queue[s] \o write_queue[s] = <<>>
  BY EmptySeq, ConcatEmptySeq DEF Init
<1>2. QED
  BY <1>1 DEF Promise!Init

\* Every step takes in a request, finishes some, or leaves the outboxes alone.
LEMMA OutboxStep ==
    ASSUME IInv, [Next]_vars
    PROVE  Promise!Next \/ UNCHANGED [s \in Sockets |-> Waiting(s)]
<1> DEFINE outbox == [s \in Sockets |-> Waiting(s)]
<1>0. QueuesOK
  BY DEF IInv, TypeOK, QueuesOK
<1>1. CASE \E s \in Sockets, r \in Free : uv_udp_send(s, r)
  <2>1. PICK s \in Sockets, r \in Free : uv_udp_send(s, r)
    BY <1>1
  <2>2. outbox' = [outbox EXCEPT ![s] = Append(@, r)]
    BY <2>1, SendSubmits
  <2>3. ASSUME NEW t \in Sockets, NEW i \in DOMAIN outbox[t]
        PROVE  outbox[t][i] # r
    <3>1. outbox[t][i] \in Range(Waiting(t))
      BY DEF Range
    <3>2. outbox[t][i] \in Held(t)
      BY <1>0, <3>1, WaitingType
    <3>3. QED
      BY <3>2 DEF Free
  <2>4. Promise!Submit(s, r)
    BY <2>2, <2>3 DEF Promise!Submit, Waiting
  <2>5. r \in Requests
    BY DEF Free
  <2>6. QED
    BY <2>4, <2>5 DEF Promise!Next
<1>2. CASE \E s \in Sockets, o \in AllOutcomes : uv__udp_io_pollout(s, o)
  <2>1. PICK s \in Sockets, o \in AllOutcomes : uv__udp_io_pollout(s, o)
    BY <1>2
  <2>2. PICK n \in 0..Len(Waiting(s)) : \A t \in Sockets :
              Waiting(t)' = IF t = s THEN SubSeq(Waiting(s), n + 1, Len(Waiting(s)))
                                     ELSE Waiting(t)
    BY <2>1, WriteFinishes
  <2>3. Waiting(s) \in Seq(Requests) /\ Len(Waiting(s)) \in Nat
    BY <1>0, WaitingType, LenProperties
  <2>4. CASE n = 0
    <3>1. SubSeq(Waiting(s), n + 1, Len(Waiting(s))) = Waiting(s)
      BY <2>3, <2>4, SubSeqFull
    <3>2. \A t \in Sockets : Waiting(t)' = Waiting(t)
      BY <2>2, <3>1
    <3>3. QED
      BY <3>2
  <2>5. CASE n # 0
    <3>1. n \in 1..Len(outbox[s])
      BY <2>3, <2>5
    <3>2. outbox' = [outbox EXCEPT ![s] = SubSeq(@, n + 1, Len(@))]
      BY <2>2
    <3>3. Promise!Finish(s)
      BY <3>1, <3>2 DEF Promise!Finish, Waiting
    <3>4. QED
      BY <3>3 DEF Promise!Next
  <2>6. QED
    BY <2>4, <2>5
<1>3. CASE UNCHANGED queues
  <2>1. \A t \in Sockets : Waiting(t)' = Waiting(t)
    BY <1>3, QueuesStay DEF queues
  <2>2. QED
    BY <2>1
<1>4. ASSUME NEW s \in Sockets, uv__udp_recvmsg(s)
      PROVE  (\E t \in Sockets, r \in Free : uv_udp_send(t, r)) \/ UNCHANGED queues
  <2>1. Sends(s) \subseteq Sockets
    BY DEF Sends, Sockets
  <2>2. QED
    BY <1>4, <2>1 DEF uv__udp_recvmsg
<1>5. LoopNext => \/ \E s \in Sockets : uv__udp_recvmsg(s)
                  \/ \E s \in Sockets, o \in AllOutcomes : uv__udp_io_pollout(s, o)
                  \/ UNCHANGED queues
  BY DEF LoopNext, LoopStep, World, uv__run_timers, uv__run_pending, Poll, PollEvents, PollTimeout,
         sigint_callback, EndPhase, Arrive, Interrupt, Tick
<1>6. LoopNext \/ UNCHANGED queues
  BY DEF Next, Main, ReadCommandLine, socket_init, StartHandles, uv_run, Killed, Exited, vars, loopVars
<1>7. QED
  BY <1>1, <1>2, <1>3, <1>4, <1>5, <1>6

\* Every datagram the relay hands to uv_udp_send is finished once, in the order
\* of the calls on its socket, and its request is used again only then: Loop
\* implements Outbox.
THEOREM LoopImplementsOutbox == Spec => ImplementsOutbox
<1>1. IInv /\ [Next]_vars => [Promise!Next]_[s \in Sockets |-> write_completed_queue[s] \o write_queue[s]]
  BY OutboxStep DEF Waiting
<1>2. QED
  BY <1>1, OutboxInit, AlwaysIInv, PTL DEF Spec, ImplementsOutbox, Promise!Spec
=============================================================================
