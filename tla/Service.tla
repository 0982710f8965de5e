------------------------------- MODULE Service -------------------------------
(***************************************************************************)
(* What the relay is to its clients, without caches, upstream or network:  *)
(* it takes requests and answers those who wait, each of them once.  A     *)
(* client waits from its request until its answer, or until the server is  *)
(* down, and is answered only what it has asked and is still due.          *)
(***************************************************************************)
EXTENDS Integers

CONSTANTS
    Clients,
    Requests,
    NULL        \* nothing was served

VARIABLES
    waiting,    \* the <<client, request>> that wait
    due,        \* requests received less answers sent, per client and request
    served,     \* the <<client, request>> the last step answered, or NULL
    up

vars == <<waiting, due, served, up>>

Init ==
    /\ waiting = {}
    /\ due = [c \in Clients |-> [r \in Requests |-> 0]]
    /\ served = NULL
    /\ up = TRUE

\* The server may break down over a request, and then the client waits on.
Ask(c, r) ==
    /\ up
    /\ waiting' = waiting \cup {<<c, r>>}
    /\ due' = [due EXCEPT ![c][r] = @ + 1]
    /\ served' = NULL
    /\ up' \in BOOLEAN

Answer(c, r) ==
    /\ up
    /\ <<c, r>> \in waiting
    /\ due[c][r] >= 1
    /\ waiting' = waiting \ {<<c, r>>}
    /\ due' = [due EXCEPT ![c][r] = @ - 1]
    /\ served' = <<c, r>>
    /\ UNCHANGED up

\* A request that is answered in the step that takes it. One of the same kind
\* that waited is not answered any more.
AskAndAnswer(c, r) ==
    /\ up
    /\ waiting' = waiting \ {<<c, r>>}
    /\ served' = <<c, r>>
    /\ UNCHANGED <<due, up>>

Quiet ==
    /\ served' = NULL
    /\ up' \in {up, FALSE}
    /\ UNCHANGED <<waiting, due>>

Next ==
    \/ \E c \in Clients, r \in Requests : Ask(c, r) \/ Answer(c, r) \/ AskAndAnswer(c, r)
    \/ Quiet

Spec == Init /\ [][Next]_vars
=============================================================================
