-------------------------------- MODULE Loop --------------------------------
(***************************************************************************)
(* The loop that main runs the relay in (uv_run on Linux), with its two    *)
(* UDP sockets, its timer and its signal: when callbacks run, and what     *)
(* becomes of a datagram after uv_udp_send, whose result the relay ignores.*)
(* What the relay does with a datagram is Relay's concern; here its        *)
(* callback sends one datagram or none. The kernel takes or refuses        *)
(* datagrams, receives others and raises the signal at any time.           *)
(*                                                                         *)
(* IN is watched on both sockets until the program exits. No callback of   *)
(* the relay sends from udp_on_send, so UV_HANDLE_UDP_PROCESSING is never  *)
(* seen by a send.                                                         *)
(***************************************************************************)
EXTENDS Integers, Sequences, FiniteSets, SequencesExt

CONSTANTS
    Requests,        \* uv_udp_send_t blocks, never all in use: the senders' bound
    BatchSize,       \* datagrams to one sendmmsg, 20
    RecvLimit,       \* datagrams read in a row, 32
    PendingRounds,   \* rounds of immediate callbacks after a poll, 8
    Period,          \* of the timer, 120000
    MaxLate          \* bound: how far the kernel's clock runs ahead of loop->time

ASSUME LoopAssumption ==
    /\ IsFiniteSet(Requests)
    /\ {BatchSize, RecvLimit, PendingRounds, Period, MaxLate} \subseteq Nat \ {0}

Sockets == {"bind_socket", "query_socket"}
Signal  == "signal_io_watcher"

VARIABLES
    phase,                  \* what uv_run is about to do
    write_queue,            \* of each socket: requests not yet handed to the kernel
    write_completed_queue,  \* of each socket: requests whose callback is due
    send_queue_count,       \* of each socket
    pevents,                \* of each socket: events the loop wants
    events,                 \* of each socket: events the kernel was last told
    watcher_queue,          \* sockets for which the two may differ
    pending_queue,          \* sockets fed for an immediate callback
    ready,                  \* <<watcher, its events>> still to run in this phase
    count,                  \* datagrams the current uv__udp_recvmsg may still read
    rounds,                 \* of immediate callbacks since the poll
    timeout,                \* of epoll_pwait
    due,                    \* timer_handler.timeout - loop->time
    late,                   \* the kernel's clock - loop->time
    arrived,                \* of each socket: datagrams in the kernel
    signalled               \* a message is in the signal pipe

queues == <<write_queue, write_completed_queue, send_queue_count>>
watchers == <<pevents, events, watcher_queue>>
clocks == <<due, late>>
loopVars == <<phase, queues, watchers, pending_queue, ready, count, rounds,
              timeout, clocks, arrived, signalled>>

Held(s) == Range(write_queue[s]) \cup Range(write_completed_queue[s])
Free == Requests \ UNION {Held(s) : s \in Sockets}

TypeOK ==
    /\ phase \in {"starting", "started", "timers", "iteration", "pending", "waiting", "events",
                  "after", "exited"}
    /\ write_queue \in [Sockets -> Seq(Requests)]
    /\ write_completed_queue \in [Sockets -> Seq(Requests)]
    /\ send_queue_count \in [Sockets -> Nat]
    /\ pevents \in [Sockets -> SUBSET {"IN", "OUT"}]
    /\ events \in [Sockets -> SUBSET {"IN", "OUT"}]
    /\ watcher_queue \subseteq Sockets
    /\ pending_queue \in Seq(Sockets)
    /\ ready \in Seq((Sockets \cup {Signal}) \X SUBSET {"IN", "OUT"})
    /\ count \in 1..RecvLimit
    /\ rounds \in 0..PendingRounds
    /\ timeout \in Nat
    /\ due \in Int
    /\ late \in 0..MaxLate
    /\ arrived \in [Sockets -> Nat]
    /\ signalled \in BOOLEAN

-----------------------------------------------------------------------------
(* Watchers *)

uv__io_start(s, event) ==
    /\ pevents' = [pevents EXCEPT ![s] = @ \cup {event}]
    /\ watcher_queue' = IF events[s] = pevents'[s] THEN watcher_queue
                        ELSE watcher_queue \cup {s}

uv__io_stop(s, event) ==
    /\ pevents' = [pevents EXCEPT ![s] = @ \ {event}]
    /\ watcher_queue' = watcher_queue \cup {s}

uv__io_feed(s) ==
    pending_queue' = IF s \in Range(pending_queue) THEN pending_queue
                     ELSE Append(pending_queue, s)

-----------------------------------------------------------------------------
(* UDP *)

Smaller(a, b) == IF a < b THEN a ELSE b

\* What uv__udp_sendmsg can do with a queue of n requests: move some to the
\* completed queue, and feed the watcher or not. The kernel takes any number of
\* them and then the rest; or wants no more for now; or reports an error, with
\* which the whole next batch is completed.
Outcomes(n) ==
    IF n = 0 THEN {[moved |-> 0, fed |-> FALSE]}
    ELSE {[moved |-> n, fed |-> TRUE]}
         \cup {[moved |-> k, fed |-> FALSE] : k \in 0..(n - 1)}
         \cup {[moved |-> k + Smaller(BatchSize, n - k), fed |-> TRUE] : k \in 0..(n - 1)}

First(q, n) == SubSeq(q, 1, n)
After(q, n) == SubSeq(q, n + 1, Len(q))

\* queue is what the socket has to send.
uv__udp_sendmsg(s, queue, o) ==
    /\ write_queue' = [write_queue EXCEPT ![s] = After(queue, o.moved)]
    /\ IF o.fed THEN uv__io_feed(s) ELSE UNCHANGED pending_queue

\* Mutant: a request is put in front of those that wait.
Queued_front(queue, r) == <<r>> \o queue

Queued(queue, r) == Append(queue, r)

\* Mutant: what the kernel did not want at once is not waited for.
WatchUnsent_never(s, left) == UNCHANGED <<pevents, watcher_queue>>

WatchUnsent(s, left) ==
    IF left > 0 THEN uv__io_start(s, "OUT") ELSE UNCHANGED <<pevents, watcher_queue>>

\* A datagram is sent at once if nothing else of the socket is under way.
uv_udp_send(s, r) ==
    LET queue == Queued(write_queue[s], r) IN
    /\ send_queue_count' = [send_queue_count EXCEPT ![s] = @ + 1]
    /\ IF send_queue_count[s] = 0
       THEN \E o \in Outcomes(Len(queue)) :
              /\ uv__udp_sendmsg(s, queue, o)
              /\ write_completed_queue' =
                    [write_completed_queue EXCEPT ![s] = @ \o First(queue, o.moved)]
              /\ WatchUnsent(s, Len(queue) - o.moved)
       ELSE /\ write_queue' = [write_queue EXCEPT ![s] = queue]
            /\ uv__io_start(s, "OUT")
            /\ UNCHANGED <<write_completed_queue, pending_queue>>
    /\ UNCHANGED events

\* The sockets on which the relay's callback for a datagram on s may send: a
\* request is answered or passed on, a response goes to a client.
Sends(s) == IF s = "bind_socket" THEN Sockets ELSE {"bind_socket"}

\* The watcher at the head of ready, and what of its events is still to run.
Current(s, event) == ready # <<>> /\ Head(ready)[1] = s /\ event \in Head(ready)[2]

ReadyWithout(event) ==
    LET rest == Head(ready)[2] \ {event} IN
    IF rest = {} THEN Tail(ready) ELSE <<<<Head(ready)[1], rest>>>> \o Tail(ready)

\* Mutant: datagrams are read for as long as there are any.
ReadingEnds_empty(s) == arrived[s] = 0

\* recvmsg returned EAGAIN, or it is enough for now.
ReadingEnds(s) == arrived[s] = 0 \/ count = 1

\* One round of the loop in uv__udp_recvmsg, with the relay's callback.
uv__udp_recvmsg(s) ==
    /\ Current(s, "IN")
    /\ IF ReadingEnds(s) THEN ready' = ReadyWithout("IN") /\ count' = RecvLimit
                         ELSE count' = (IF count > 1 THEN count - 1 ELSE 1) /\ UNCHANGED ready
    /\ \/ /\ arrived[s] > 0
          /\ arrived' = [arrived EXCEPT ![s] = @ - 1]
          /\ \/ \E t \in Sends(s), r \in Free : uv_udp_send(t, r)
             \/ UNCHANGED <<queues, watchers, pending_queue>>
       \/ arrived[s] = 0 /\ UNCHANGED <<arrived, queues, watchers, pending_queue>>
    /\ UNCHANGED <<phase, rounds, timeout, clocks, signalled>>

\* Mutant: a whole batch is taken as finished.
Finished_batch(s, o) == Len(write_completed_queue[s]) + BatchSize

Finished(s, o) == Len(write_completed_queue[s]) + o.moved

\* The second half of uv__udp_io: uv__udp_sendmsg, with one of its outcomes, and
\* uv__udp_run_completed. udp_on_send only frees the request.
uv__udp_io_pollout(s, o) ==
    /\ Current(s, "OUT")
    /\ "IN" \notin Head(ready)[2]
    /\ o \in Outcomes(Len(write_queue[s]))
    /\ uv__udp_sendmsg(s, write_queue[s], o)
    /\ write_completed_queue' = [write_completed_queue EXCEPT ![s] = <<>>]
    /\ send_queue_count' = [send_queue_count EXCEPT ![s] = @ - Finished(s, o)]
    /\ IF o.moved = Len(write_queue[s]) THEN uv__io_stop(s, "OUT")
       ELSE UNCHANGED <<pevents, watcher_queue>>
    /\ ready' = ReadyWithout("OUT")
    /\ UNCHANGED <<phase, events, count, rounds, timeout, clocks, arrived, signalled>>

-----------------------------------------------------------------------------
(* uv_run *)

uv__update_time == due' = due - late /\ late' = 0

\* The time is updated, and clear_callback runs if the timer is due; the timer
\* is started again before.
uv__run_timers ==
    /\ phase = "timers"
    /\ phase' = "iteration"
    /\ late' = 0
    /\ due' = IF due - late <= 0 THEN Period ELSE due - late
    /\ UNCHANGED <<queues, watchers, pending_queue, ready, count, rounds, timeout,
                   arrived, signalled>>

Fed == [i \in DOMAIN pending_queue |-> <<pending_queue[i], {"OUT"}>>]

\* The callbacks of the whole queue, at the start of an iteration or after a
\* poll; what they feed comes in the next round.
uv__run_pending ==
    /\ ready = <<>>
    /\ \/ phase = "iteration" /\ phase' = "pending" /\ UNCHANGED rounds
       \/ /\ phase = "after"
          /\ rounds < PendingRounds
          /\ pending_queue # <<>>
          /\ rounds' = rounds + 1
          /\ UNCHANGED phase
    /\ ready' = Fed
    /\ pending_queue' = <<>>
    /\ UNCHANGED <<queues, watchers, count, timeout, clocks, arrived, signalled>>

\* uv__backend_timeout and the start of uv__io_poll: the kernel is told what to
\* watch.
Poll ==
    /\ phase = "pending"
    /\ ready = <<>>
    /\ phase' = "waiting"
    /\ timeout' = IF pending_queue = <<>> /\ due > 0 THEN due ELSE 0
    /\ events' = [s \in Sockets |-> IF s \in watcher_queue THEN pevents[s] ELSE events[s]]
    /\ watcher_queue' = {}
    /\ UNCHANGED <<queues, pevents, pending_queue, ready, count, rounds, clocks, arrived,
                   signalled>>

\* Mutant: the signal waits until no socket is ready.
WithSignal_last(items) == IF signalled /\ items = <<>> THEN <<<<Signal, {"IN"}>>>> ELSE items

\* The signal watcher runs last.
WithSignal(items) == IF signalled THEN Append(items, <<Signal, {"IN"}>>) ELSE items

\* epoll_pwait returns with the sockets that are readable, and with those in
\* writable, in any order.
PollEvents(writable) ==
    LET found == [s \in Sockets |-> events[s] \cap
                    ((IF arrived[s] > 0 THEN {"IN"} ELSE {})
                        \cup (IF s \in writable THEN {"OUT"} ELSE {}))]
    IN  /\ phase = "waiting"
        /\ \A s \in writable : "OUT" \in events[s]
        /\ \E order \in SetToSeqs({s \in Sockets : found[s] # {}}) :
              ready' = WithSignal([i \in DOMAIN order |-> <<order[i], found[order[i]]>>])
        /\ ready' # <<>>
        /\ phase' = "events"
        /\ uv__update_time
        /\ UNCHANGED <<queues, watchers, pending_queue, count, rounds, timeout, arrived,
                       signalled>>

PollTimeout ==
    /\ phase = "waiting"
    /\ \A s \in Sockets : "IN" \in events[s] => arrived[s] = 0
    /\ ~ signalled
    /\ late >= timeout
    /\ phase' = "events"
    /\ uv__update_time
    /\ UNCHANGED <<queues, watchers, pending_queue, ready, count, rounds, timeout, arrived,
                   signalled>>

\* uv__signal_event and sigint_callback.
sigint_callback ==
    /\ phase = "events"
    /\ Current(Signal, "IN")
    /\ phase' = "exited"
    /\ UNCHANGED <<queues, watchers, pending_queue, ready, count, rounds, timeout, clocks,
                   arrived, signalled>>

\* The poll is over, and later the immediate callbacks after it.
EndPhase ==
    /\ ready = <<>>
    /\ \/ phase = "events" /\ phase' = "after" /\ rounds' = 0
       \/ /\ phase = "after"
          /\ rounds = PendingRounds \/ pending_queue = <<>>
          /\ phase' = "timers"
          /\ UNCHANGED rounds
    /\ UNCHANGED <<queues, watchers, pending_queue, ready, count, timeout, clocks, arrived,
                   signalled>>

-----------------------------------------------------------------------------
(* The world outside *)

Running == phase \notin {"starting", "exited"}

Pile == arrived["bind_socket"] + arrived["query_socket"]

\* The kernel receives a datagram, if there is a free request for its answer.
Arrive(s) ==
    /\ Running
    /\ Pile < Cardinality(Free)
    /\ arrived' = [arrived EXCEPT ![s] = @ + 1]
    /\ UNCHANGED <<phase, queues, watchers, pending_queue, ready, count, rounds, timeout,
                   clocks, signalled>>

\* uv__signal_handler, at any time; the pipe holds more messages than matter.
Interrupt ==
    /\ Running
    /\ ~ signalled
    /\ signalled' = TRUE
    /\ UNCHANGED <<phase, queues, watchers, pending_queue, ready, count, rounds, timeout,
                   clocks, arrived>>

Tick ==
    /\ Running
    /\ late < MaxLate
    /\ late' = late + 1
    /\ UNCHANGED <<phase, queues, watchers, pending_queue, ready, count, rounds, timeout,
                   due, arrived, signalled>>

-----------------------------------------------------------------------------
AllOutcomes == UNION {Outcomes(n) : n \in 0..Cardinality(Requests)}

LoopStep ==
    \/ uv__run_timers
    \/ uv__run_pending
    \/ Poll
    \/ \E writable \in SUBSET Sockets : PollEvents(writable)
    \/ PollTimeout
    \/ \E s \in Sockets : uv__udp_recvmsg(s)
    \/ \E s \in Sockets, o \in AllOutcomes : uv__udp_io_pollout(s, o)
    \/ sigint_callback
    \/ EndPhase

World ==
    \/ \E s \in Sockets : Arrive(s)
    \/ Interrupt
    \/ Tick

LoopNext == LoopStep \/ World

\* The thread runs and time passes; the kernel, asked again and again, reports
\* a socket as writable and then takes a datagram or fails on it.
Reports(s) == \E writable \in SUBSET Sockets : s \in writable /\ PollEvents(writable)
Takes(s) == \E o \in AllOutcomes : o.moved > 0 /\ uv__udp_io_pollout(s, o)

LoopFairness ==
    /\ WF_loopVars(LoopStep)
    /\ WF_loopVars(Tick)
    /\ \A s \in Sockets : SF_loopVars(Reports(s)) /\ SF_loopVars(Takes(s))

-----------------------------------------------------------------------------
(* Properties *)

\* The loop never goes to sleep on a datagram: a request that was not sent is
\* one the kernel was told to report, and no callback is due.
NeverStuck ==
    phase = "waiting" /\ timeout > 0 =>
        \A s \in Sockets :
            /\ write_completed_queue[s] = <<>>
            /\ write_queue[s] # <<>> => "OUT" \in events[s]

\* Every request is finished once, in the order of uv_udp_send on its socket.
Promise == INSTANCE Outbox WITH
    outbox <- [s \in Sockets |-> write_completed_queue[s] \o write_queue[s]]

ImplementsOutbox == Promise!Spec

\* Whatever the kernel refuses and for how long, udp_on_send runs for every
\* request in the end.
SendsComplete ==
    \A r \in Requests :
        (\E s \in Sockets : r \in Held(s)) ~> (r \in Free \/ phase = "exited")

\* No flood of datagrams keeps clear_callback from running: the caches are
\* cleared for ever, as Relay has it.
ClearsRecur ==
    <>(phase = "exited") \/ []<><<uv__run_timers /\ due - late <= 0>>_loopVars

\* No flood of datagrams keeps the program from ending after an interrupt.
InterruptEnds == signalled ~> phase = "exited"
=============================================================================
