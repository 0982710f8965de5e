------------------------------ MODULE Answering ------------------------------
(***************************************************************************)
(* The two receive callbacks of socket.c as the loops they are: one step   *)
(* per alias, question and record, with the locals of the callback in      *)
(* frame.  bind_socket_read goes over the questions twice, once to count   *)
(* the records and once to write them into an array of that many, and      *)
(* query_socket_read goes over the records of a response.  Relay takes     *)
(* each callback for one step; this module shows that it may.              *)
(***************************************************************************)
EXTENDS Relay, SequencesExt

VARIABLES
    frame,      \* the locals of the callback that runs, or NULL
    before      \* the tables when it was called, or NULL

detail == <<vars, frame, before>>

Idle == frame = NULL

InitAnswering == Init /\ frame = NULL /\ before = NULL

\* The locals of bind_socket_read in the order in which it gives them a value,
\* and those of query_socket_read, where rest is what its loop has yet to reach.
ReceiveLocals ==
    [pc : {"counting", "writing"}, client : Clients, feature : Feature, i : Nat,
     walk : Seq(Names), cached : BOOLEAN, banned : BOOLEAN,
     answer_count : Nat, room : Nat, answers : Seq(RR)]

ResponseLocals ==
    [pc : {"learning"}, response : Response, rest : Answer, duplicate : BOOLEAN,
     ipv4_domain : Names \cup {NULL}, node4 : Seq(IPv4),
     ipv6_domain : Names \cup {NULL}, node6 : Seq(IPv6)]

\* A pointer to a name, an entry or a callback's locals is not NULL.
ASSUME AnsweringAssumption ==
    /\ NULL \notin Names
    /\ NULL \notin Entry(IPv4)
    /\ NULL \notin ReceiveLocals \cup ResponseLocals

Tables == [clients |-> clients, ipv4 |-> ipv4, ipv6 |-> ipv6, cname |-> cname]

Return == frame' = NULL /\ before' = NULL

outside == <<status, now, nextClear, network, zone, reply, owed>>

-----------------------------------------------------------------------------
(* bind_socket_read *)

\* The chase for question n starts at its name.
Start(qs, n) == IF n \in DOMAIN qs THEN <<qs[n].name>> ELSE <<>>

Queries == frame.feature.queries
Query   == Queries[frame.i]
Domain  == Last(frame.walk)

Due == [owed EXCEPT ![frame.client][frame.feature] = @ + 1]

Receive(c, f) ==
    /\ Idle
    /\ status = "running"
    /\ f.id \in IdsOf[c]
    /\ owed[c][f] < MaxOwed
    /\ Cardinality(toUpstream) + Cardinality(fromUpstream) < MaxInFlight
    /\ clients' = [clients EXCEPT ![f] = c]
    /\ before' = Tables
    /\ frame' = [pc |-> "counting", client |-> c, feature |-> f,
                 i |-> 1, walk |-> Start(f.queries, 1),
                 cached |-> TRUE, banned |-> FALSE,
                 answer_count |-> 0, room |-> 0, answers |-> <<>>]
    /\ UNCHANGED <<outside, ipv4, ipv6, cname>>

\* The pass with that name is at a question.
At(pc) == ~Idle /\ frame.pc = pc /\ frame.i \in DOMAIN Queries

\* It is past the last question.
Past(pc) == ~Idle /\ frame.pc = pc /\ frame.i \notin DOMAIN Queries

Counting == At("counting") /\ frame.cached
Writing  == At("writing")

Follows == Chases(Query) /\ Cached(cname, Domain)

\* The next question, with frame fr otherwise.
Advance(fr) == [fr EXCEPT !.i = @ + 1, !.walk = Start(Queries, fr.i + 1)]

\* Mutant: the aliases of a question of type AAAA are not counted.
CountAlias_A ==
    /\ Counting /\ Follows
    /\ cname[Domain].name \notin ToSet(frame.walk)
    /\ frame' = [frame EXCEPT !.answer_count = IF Query.type = "AAAA" THEN @ ELSE @ + 1,
                              !.walk = Append(@, cname[Domain].name)]
    /\ UNCHANGED <<vars, before>>

CountAlias ==
    /\ Counting /\ Follows
    /\ cname[Domain].name \notin ToSet(frame.walk)
    /\ frame' = [frame EXCEPT !.answer_count = @ + 1,
                              !.walk = Append(@, cname[Domain].name)]
    /\ UNCHANGED <<vars, before>>

\* The alias leads back to a name the chase has left: it goes on for ever.
Spin ==
    /\ Counting /\ Follows
    /\ cname[Domain].name \in ToSet(frame.walk)
    /\ status' = "spinning"
    /\ owed' = Due
    /\ reply' = NULL
    /\ Return
    /\ UNCHANGED <<clients, ipv4, ipv6, cname, now, nextClear, network, zone>>

\* Mutant: a ban ends the pass, and the questions after it are not looked at.
CountIPv4_stop ==
    LET zero == ZeroFirst(ipv4[Domain]) IN
    /\ Counting /\ ~Follows
    /\ Query.type = "A" /\ Cached(ipv4, Domain)
    /\ ipv4' = [ipv4 EXCEPT ![Domain].manual = zero]
    /\ frame' = IF zero THEN [frame EXCEPT !.banned = TRUE, !.i = Len(Queries) + 1]
                ELSE Advance([frame EXCEPT !.answer_count = @ + Len(ipv4[Domain].node)])
    /\ UNCHANGED <<outside, clients, ipv6, cname, before>>

\* A ban leaves the switch, not the loop.
CountIPv4 ==
    LET zero == ZeroFirst(ipv4[Domain]) IN
    /\ Counting /\ ~Follows
    /\ Query.type = "A" /\ Cached(ipv4, Domain)
    /\ ipv4' = [ipv4 EXCEPT ![Domain].manual = zero]
    /\ frame' = IF zero THEN Advance([frame EXCEPT !.banned = TRUE])
                ELSE Advance([frame EXCEPT !.answer_count = @ + Len(ipv4[Domain].node)])
    /\ UNCHANGED <<outside, clients, ipv6, cname, before>>

CountIPv6 ==
    /\ Counting /\ ~Follows
    /\ Query.type = "AAAA" /\ Cached(ipv6, Domain)
    /\ frame' = Advance([frame EXCEPT !.answer_count = @ + Len(ipv6[Domain].node)])
    /\ UNCHANGED <<vars, before>>

\* A CNAME question whose aliases were counted, or a type without a case.
CountNoAddress ==
    /\ Counting /\ ~Follows
    /\ (Query.type = "CNAME" /\ Len(frame.walk) > 1) \/ Query.type = "OTHER"
    /\ frame' = Advance(frame)
    /\ UNCHANGED <<vars, before>>

Miss ==
    /\ Counting /\ ~Follows
    /\ \/ Query.type = "A"     /\ ~Cached(ipv4, Domain)
       \/ Query.type = "CNAME" /\ Len(frame.walk) = 1
       \/ Query.type = "AAAA"  /\ ~Cached(ipv6, Domain)
    /\ frame' = Advance([frame EXCEPT !.cached = FALSE])
    /\ UNCHANGED <<vars, before>>

AskUpstream ==
    /\ ~Idle /\ frame.pc = "counting" /\ ~frame.cached
    /\ send_query(frame.feature)
    /\ owed' = Due
    /\ reply' = NULL
    /\ Return
    /\ UNCHANGED <<server, now, fromUpstream, zone>>

Refuse ==
    /\ Past("counting") /\ frame.cached /\ frame.banned
    /\ send_response(clients, Due, frame.feature, NXDOMAIN, {})
    /\ Return
    /\ UNCHANGED <<status, ipv4, ipv6, cname, now, nextClear, network, zone>>

\* The array is allocated and the index starts again.
Allocate ==
    /\ Past("counting") /\ frame.cached /\ ~frame.banned
    /\ frame' = [frame EXCEPT !.pc = "writing", !.room = frame.answer_count,
                              !.answer_count = 0, !.i = 1, !.walk = Start(Queries, 1)]
    /\ UNCHANGED <<vars, before>>

\* Records rrs written from answer_count on.
Written(fr, rrs) ==
    [fr EXCEPT !.answers = @ \o rrs, !.answer_count = @ + Len(rrs)]

WriteAlias ==
    /\ Writing /\ Follows
    /\ LET target == cname[Domain].name
           rr == [type |-> "CNAME", name |-> Domain, data |-> target]
       IN  frame' = Written([frame EXCEPT !.walk = Append(@, target)], <<rr>>)
    /\ UNCHANGED <<vars, before>>

\* The list of addresses found under the name the chase ended at.
Addresses(type, node) ==
    [k \in DOMAIN node |-> [type |-> type, name |-> Domain, data |-> node[k]]]

WriteAddresses ==
    /\ Writing /\ ~Follows
    /\ frame' = Advance(Written(frame,
            CASE Query.type = "A"    /\ Cached(ipv4, Domain) -> Addresses("A", ipv4[Domain].node)
              [] Query.type = "AAAA" /\ Cached(ipv6, Domain) -> Addresses("AAAA", ipv6[Domain].node)
              [] OTHER -> <<>>))
    /\ UNCHANGED <<vars, before>>

Answered ==
    /\ Past("writing")
    /\ send_response(clients, Due, frame.feature, NOERROR, ToSet(frame.answers))
    /\ Return
    /\ UNCHANGED <<status, ipv4, ipv6, cname, now, nextClear, network, zone>>

-----------------------------------------------------------------------------
(* query_socket_read. The records come in any order of their types. *)

ReceiveResponse(r, duplicate) ==
    /\ Idle
    /\ status = "running"
    /\ r \in fromUpstream
    /\ before' = Tables
    /\ frame' = [pc |-> "learning", response |-> r, rest |-> r.answer, duplicate |-> duplicate,
                 ipv4_domain |-> NULL, node4 |-> <<>>, ipv6_domain |-> NULL, node6 |-> <<>>]
    /\ UNCHANGED vars

Learning == ~Idle /\ frame.pc = "learning"

LearnAlias ==
    /\ Learning /\ frame.rest.cname # <<>>
    /\ cname' = cname_cache_puts(cname, <<Head(frame.rest.cname)>>, TTL, now)
    /\ frame' = [frame EXCEPT !.rest.cname = Tail(@)]
    /\ UNCHANGED <<outside, clients, ipv4, ipv6, before>>

CollectIPv4 ==
    /\ Learning /\ frame.rest.a # <<>>
    /\ LET rr == Head(frame.rest.a) IN
       frame' = [frame EXCEPT !.ipv4_domain = rr.name, !.node4 = Append(@, rr.data),
                              !.rest.a = Tail(@)]
    /\ UNCHANGED <<vars, before>>

CollectIPv6 ==
    /\ Learning /\ frame.rest.aaaa # <<>>
    /\ LET rr == Head(frame.rest.aaaa) IN
       frame' = [frame EXCEPT !.ipv6_domain = rr.name, !.node6 = Append(@, rr.data),
                              !.rest.aaaa = Tail(@)]
    /\ UNCHANGED <<vars, before>>

\* The addresses are filed, and the response goes on to the client.
Relayed ==
    LET r == frame.response IN
    /\ Learning
    /\ frame.rest.cname = <<>> /\ frame.rest.a = <<>> /\ frame.rest.aaaa = <<>>
    /\ ipv4' = IF frame.ipv4_domain = NULL THEN ipv4
               ELSE ipv4_cache_put(ipv4, frame.ipv4_domain, frame.node4, TTL, now)
    /\ ipv6' = IF frame.ipv6_domain = NULL THEN ipv6
               ELSE ipv6_cache_put(ipv6, frame.ipv6_domain, frame.node6, TTL, now)
    /\ fromUpstream' = IF frame.duplicate THEN fromUpstream ELSE fromUpstream \ {r}
    /\ send_response(clients, owed, r.feature, r.answer.rcode, AnswerRecords(r.answer))
    /\ Return
    /\ UNCHANGED <<status, cname, now, nextClear, toUpstream, zone>>

-----------------------------------------------------------------------------
\* What is not one of these callbacks happens between them.
Between ==
    /\ Idle
    /\ \/ clear_callback
       \/ sigint_callback
       \/ Tick
       \/ \E f \in toUpstream, duplicate \in BOOLEAN : UpstreamAnswer(f, duplicate)
       \/ ZoneChange
       \/ Lose
       \/ Stopped
    /\ UNCHANGED <<frame, before>>

NextAnswering ==
    \/ \E c \in Clients, f \in Feature : Receive(c, f)
    \/ CountAlias
    \/ Spin
    \/ CountIPv4
    \/ CountIPv6
    \/ CountNoAddress
    \/ Miss
    \/ AskUpstream
    \/ Refuse
    \/ Allocate
    \/ WriteAlias
    \/ WriteAddresses
    \/ Answered
    \/ \E r \in fromUpstream, duplicate \in BOOLEAN : ReceiveResponse(r, duplicate)
    \/ LearnAlias
    \/ CollectIPv4
    \/ CollectIPv6
    \/ Relayed
    \/ Between

SpecAnswering == InitAnswering /\ [][NextAnswering]_detail

-----------------------------------------------------------------------------
(* Properties *)

\* The second pass never writes past the array that the first one measured,
\* and leaves none of its records unwritten: message2buf encodes all of them.
AnswersFit ==
    ~Idle /\ frame.pc = "writing" =>
        /\ Len(frame.answers) <= frame.room
        /\ Past("writing") => Len(frame.answers) = frame.room

\* Seen from outside, that is with the tables of the start until it returns,
\* a callback is the one step that Relay takes it for.
Seen == IF Idle THEN Tables ELSE before

Whole == INSTANCE Relay WITH
    clients <- Seen.clients, ipv4 <- Seen.ipv4, ipv6 <- Seen.ipv6, cname <- Seen.cname

ImplementsRelay == Whole!Spec
=============================================================================
