------------------------------- MODULE Outbox -------------------------------
(***************************************************************************)
(* What uv_udp_send promises, whatever the kernel does and whenever the    *)
(* loop gets to it: every request is finished once, in the order of the    *)
(* calls on its socket, and may only then be used again.                   *)
(***************************************************************************)
EXTENDS Naturals, Sequences

CONSTANTS Sockets, Requests

VARIABLE outbox   \* of each socket: the requests that are not finished

Init == outbox = [s \in Sockets |-> <<>>]

Submit(s, r) ==
    /\ \A t \in Sockets : \A i \in DOMAIN outbox[t] : outbox[t][i] # r
    /\ outbox' = [outbox EXCEPT ![s] = Append(@, r)]

Finish(s) ==
    \E n \in 1..Len(outbox[s]) :
        outbox' = [outbox EXCEPT ![s] = SubSeq(@, n + 1, Len(@))]

Next == \E s \in Sockets : Finish(s) \/ \E r \in Requests : Submit(s, r)

Spec == Init /\ [][Next]_outbox
=============================================================================
