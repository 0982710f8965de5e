------------------------------- MODULE Process -------------------------------
(***************************************************************************)
(* The program as main runs it: command line, sockets, signal and timer,   *)
(* caches, and then Loop. What the caches hold is Relay's concern.         *)
(***************************************************************************)
EXTENDS Loop, CommandLine

CONSTANT ArgVectors   \* the command lines it may be started with

ASSUME ProcessAssumption == ArgVectors \subseteq Seq(Seq(STRING))

VARIABLES
    argv,
    config,     \* dns_config and logging_level, until they are used
    stage       \* the call that main makes next

vars == <<argv, config, stage, loopVars>>

NoConfig == [outcome |-> "none"]

Init ==
    /\ argv \in ArgVectors
    /\ config = NoConfig
    /\ stage = "config_init"
    /\ phase = "starting"
    /\ write_queue = [s \in Sockets |-> <<>>]
    /\ write_completed_queue = [s \in Sockets |-> <<>>]
    /\ send_queue_count = [s \in Sockets |-> 0]
    /\ pevents = [s \in Sockets |-> {}]
    /\ events = [s \in Sockets |-> {}]
    /\ watcher_queue = {}
    /\ pending_queue = <<>>
    /\ ready = <<>>
    /\ count = RecvLimit
    /\ rounds = 0
    /\ timeout = 0
    /\ due = 0
    /\ late = 0
    /\ arrived = [s \in Sockets |-> 0]
    /\ signalled = FALSE

Exit == phase' = "exited"

\* Help is the end, and so is for these properties an -l without an argument,
\* which is undefined.
ReadCommandLine ==
    /\ stage = "config_init"
    /\ phase = "starting"
    /\ config' = config_init(argv)
    /\ stage' = "socket_init"
    /\ IF config'.outcome = "run" THEN UNCHANGED phase ELSE Exit
    /\ UNCHANGED <<argv, queues, watchers, pending_queue, ready, count, rounds, timeout, clocks,
                   arrived, signalled>>

\* Binding either socket may fail. The address of no upstream, after an -s at the
\* end, is read all the same: undefined, and nothing is claimed after it.
socket_init ==
    /\ stage = "socket_init"
    /\ phase = "starting"
    /\ stage' = "uv_signal_start"
    /\ \/ Exit /\ UNCHANGED <<pevents, watcher_queue>>
       \/ /\ IF config.upstream_name = NULL THEN Exit ELSE UNCHANGED phase
          /\ pevents' = [s \in Sockets |-> {"IN"}]
          /\ watcher_queue' = Sockets
    /\ argv' = <<>>
    /\ config' = NoConfig
    /\ UNCHANGED <<queues, events, pending_queue, ready, count, rounds, timeout, clocks,
                   arrived, signalled>>

\* Signal and timer. From here on a signal goes to the pipe, the clock counts,
\* and datagrams wait in the kernel while main fills the caches.
StartHandles ==
    /\ stage = "uv_signal_start"
    /\ phase = "starting"
    /\ stage' = "uv_run"
    /\ phase' = "started"
    /\ due' = Period
    /\ UNCHANGED <<argv, config, queues, watchers, pending_queue, ready, count, rounds,
                   timeout, late, arrived, signalled>>

uv_run ==
    /\ stage = "uv_run"
    /\ phase = "started"
    /\ phase' = "timers"
    /\ UNCHANGED <<argv, config, stage, queues, watchers, pending_queue, ready, count, rounds,
                   timeout, clocks, arrived, signalled>>

\* Nobody handles SIGINT yet.
Killed ==
    /\ phase = "starting"
    /\ Exit
    /\ UNCHANGED <<argv, config, stage, queues, watchers, pending_queue, ready, count, rounds,
                   timeout, clocks, arrived, signalled>>

Main == ReadCommandLine \/ socket_init \/ StartHandles \/ uv_run

Exited == phase = "exited" /\ UNCHANGED vars

Next ==
    \/ Main
    \/ Killed
    \/ LoopNext /\ UNCHANGED <<argv, config, stage>>
    \/ Exited

Spec == Init /\ [][Next]_vars /\ WF_vars(Main) /\ LoopFairness

-----------------------------------------------------------------------------
(* Properties *)

\* The configuration is what the help text makes of the command line: every
\* option has the last argument given to it, whatever that looks like, although
\* the case of -l falls through and its argument is read again; only an
\* argument of -l that looks like an option is excluded.
ConfigIsAsSaid ==
    stage = "socket_init" /\ WellFormed(argv) => IsAsSaid(argv, config)
=============================================================================
