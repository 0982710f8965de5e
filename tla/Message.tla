------------------------------- MODULE Message -------------------------------
(***************************************************************************)
(* The message codec (message.c), octet by octet: a peer composes a        *)
(* datagram, with any compression of its names that DNS allows, buf2message*)
(* reads it, and message2buf writes what the relay makes of it: the same   *)
(* message on its way to upstream or a client, or a reply of its own.      *)
(* A name is the sequence of its labels, its text has a dot between two.   *)
(***************************************************************************)
EXTENDS Integers, Sequences, SequencesExt

CONSTANTS
    Messages,   \* what the peers send
    CachedRRs,  \* sequences of records that the caches may hold for a question
    BufferSize  \* of message2buf, 1500

Octet == 0..255
Half  == {n \in Nat : n < 65536}

\* No zero and no dot, at which the code's strings end and split.
Letter == Octet \ {0, 46}
Label  == {l \in Seq(Letter) : Len(l) \in 1..63}

\* Every label after its length.
Prefixed(labels) == FlattenSeq([i \in DOMAIN labels |-> <<Len(labels[i])>> \o labels[i]])

\* The names of DNS, which fit into the array Name of buf2messageRR.
Name == {n \in Seq(Label) : n # <<>> /\ Len(Prefixed(n)) < 255}

TypeA     == 1
TypeCNAME == 5
TypeAAAA  == 28
KnownTypes == {TypeA, TypeCNAME, TypeAAAA}

Question == [name : Name, type : Half, class : Half]

\* A time to live has 31 bits.
IsSeconds(n) == n \in Nat /\ n \div 65536 < 32768

\* The data of a record is a name, an address or any octets. An address has the
\* length of its type, which is what message2bufAnswer copies.
IsRecord(rr) ==
    /\ rr.name \in Name
    /\ rr.type \in Half
    /\ IF rr.type = TypeCNAME THEN rr.data \in Name
                              ELSE rr.data \in Seq(Octet) /\ Len(rr.data) \in Half
    /\ rr.type = TypeA => Len(rr.data) = 4
    /\ rr.type = TypeAAAA => Len(rr.data) = 16

AreRecords(rrs) == rrs \in Seq(Range(rrs)) /\ \A rr \in Range(rrs) : IsRecord(rr)

\* The records behind the answers, which the relay only counts.
Extra == [authorities : Half, additional : Half, octets : Seq(Octet)]

NoExtra == [authorities |-> 0, additional |-> 0, octets |-> <<>>]

\* What the two ends of a conversation have in mind.
IsMessage(m) ==
    /\ m = [id |-> m.id, flags |-> m.flags, queries |-> m.queries, answers |-> m.answers,
            extra |-> m.extra]
    /\ m.id \in Half
    /\ m.flags \in Half
    /\ m.queries \in Seq(Question) /\ Len(m.queries) \in Half
    /\ AreRecords(m.answers) /\ Len(m.answers) \in Half
    /\ \A rr \in Range(m.answers) : rr.class \in Half /\ IsSeconds(rr.ttl)
    /\ m.extra \in Extra

ASSUME MessageAssumption ==
    /\ BufferSize \in Half
    /\ \A m \in Messages : IsMessage(m)
    /\ \A rrs \in CachedRRs : AreRecords(rrs)

VARIABLES
    stage,      \* "composing", "received", "parsed", "garbled", "sent" or "undefined"
    said,       \* the message the peer sends
    wire,       \* its octets so far
    asked,      \* how many of its questions they hold
    spelledOut, \* whether the names of these questions have no pointer
    written,    \* how many of its answers they hold
    anchors,    \* the <<offset, name>> in them that a pointer may lead to
    message,    \* what buf2message made of them
    meant,      \* the message that the relay sends
    sendbuf     \* the octets it hands to libuv

composition == <<said, wire, asked, spelledOut, written, anchors>>

vars == <<stage, composition, message, meant, sendbuf>>

-----------------------------------------------------------------------------
(* Numbers and names as octets, most significant first *)

char2Short(high, low) == 256 * high + low

Short(n) == <<n \div 256, n % 256>>

Word(n) == Short(n \div 65536) \o Short(n % 65536)

name2message(name) == Prefixed(name) \o <<0>>

\* Length of the text of a name, domain_name->length.
TextLength(name) == Len(Prefixed(name)) - 1

-----------------------------------------------------------------------------
(* The datagram without compression: what a reader of DNS understands *)

PlainQuestion(q) == name2message(q.name) \o Short(q.type) \o Short(q.class)

PlainData(rr) == IF rr.type = TypeCNAME THEN name2message(rr.data) ELSE rr.data

PlainRecord(rr) ==
    name2message(rr.name) \o Short(rr.type) \o Short(rr.class) \o Word(rr.ttl)
        \o Short(Len(PlainData(rr))) \o PlainData(rr)

Heading(m) ==
    Short(m.id) \o Short(m.flags) \o Short(Len(m.queries)) \o Short(Len(m.answers))
        \o Short(m.extra.authorities) \o Short(m.extra.additional)

PlainStart(m) ==
    Heading(m) \o FlattenSeq([i \in DOMAIN m.queries |-> PlainQuestion(m.queries[i])])

Plain(m) ==
    PlainStart(m) \o FlattenSeq([i \in DOMAIN m.answers |-> PlainRecord(m.answers[i])])
        \o m.extra.octets

-----------------------------------------------------------------------------
(* The peer *)

\* The offsets at which the first n labels of a name at offset start, with the
\* rest of the name from there on.
Anchors(offset, name, n) ==
    {<<offset + Len(Prefixed(SubSeq(name, 1, k))), SubSeq(name, k + 1, Len(name))>> :
        k \in 0..(n - 1)}

\* The ways to put a name at offset: n labels and then, if that is not all of
\* it, a pointer to the rest, which has 14 bits. octets is what is written.
Spellings(name, offset, known) ==
    {[octets |-> name2message(name), anchors |-> Anchors(offset, name, Len(name))]} \cup
    {[octets |-> Prefixed(SubSeq(name, 1, Len(name) - Len(a[2]))) \o
                    <<192 + a[1] \div 256, a[1] % 256>>,
      anchors |-> Anchors(offset, name, Len(name) - Len(a[2]))] :
        a \in {b \in known : b[1] \div 256 < 64 /\ IsSuffix(b[2], name)}}

\* The data of a record is spelled like a name if it is one.
DataSpellings(rr, offset, known) ==
    IF rr.type = TypeCNAME THEN Spellings(rr.data, offset, known)
    ELSE {[octets |-> rr.data, anchors |-> {}]}

Init ==
    /\ stage = "composing"
    /\ said \in Messages
    /\ wire = Heading(said)
    /\ asked = 0
    /\ spelledOut = TRUE
    /\ written = 0
    /\ anchors = {}
    /\ message = <<>>
    /\ meant = said
    /\ sendbuf = <<>>

\* The next question, with its name spelled in any way.
ComposeQuestion ==
    LET q == said.queries[asked + 1] IN
    /\ stage = "composing"
    /\ asked < Len(said.queries)
    /\ asked' = asked + 1
    /\ \E name \in Spellings(q.name, Len(wire), anchors) :
         /\ wire' = wire \o name.octets \o Short(q.type) \o Short(q.class)
         /\ anchors' = anchors \cup name.anchors
         /\ spelledOut' = (spelledOut /\ name.octets = name2message(q.name))
    /\ UNCHANGED <<stage, said, written, message, meant, sendbuf>>

\* The next answer, with its owner and the name in its data spelled in any way.
Compose ==
    LET rr == said.answers[written + 1] IN
    /\ stage = "composing"
    /\ asked = Len(said.queries)
    /\ written < Len(said.answers)
    /\ written' = written + 1
    /\ \E owner \in Spellings(rr.name, Len(wire), anchors) :
         LET fixed == wire \o owner.octets \o Short(rr.type) \o Short(rr.class) \o Word(rr.ttl)
             known == anchors \cup owner.anchors
         IN  \E data \in DataSpellings(rr, Len(fixed) + 2, known) :
                /\ wire' = fixed \o Short(Len(data.octets)) \o data.octets
                /\ anchors' = known \cup data.anchors
    /\ UNCHANGED <<stage, said, asked, spelledOut, message, meant, sendbuf>>

Send ==
    /\ stage = "composing"
    /\ asked = Len(said.queries)
    /\ written = Len(said.answers)
    /\ stage' = "received"
    /\ wire' = wire \o said.extra.octets
    /\ anchors' = {}
    /\ UNCHANGED <<said, asked, spelledOut, written, message, meant, sendbuf>>

-----------------------------------------------------------------------------
(* buf2message. Offsets count from 0 as in the code. *)

At(w, offset) == w[offset + 1]

ShortAt(w, offset) == char2Short(At(w, offset), At(w, offset + 1))

IntAt(w, offset) == 65536 * ShortAt(w, offset) + ShortAt(w, offset + 2)

OctetsAt(w, offset, length) == SubSeq(w, offset + 1, offset + length)

\* The field of so many values whose lowest bit is worth unit.
Bits(n, unit, values) == (n \div unit) % values

Flags(n) ==
    [QR |-> Bits(n, 32768, 2), Opcode |-> Bits(n, 2048, 16), AA |-> Bits(n, 1024, 2),
     TC |-> Bits(n, 512, 2), RD |-> Bits(n, 256, 2), RA |-> Bits(n, 128, 2),
     Z |-> Bits(n, 16, 8), RCODE |-> Bits(n, 1, 16)]

\* Mutant: a pointer ends the name and is not followed.
createName_unfollowed(w, start) ==
    LET from[p \in 0..(Len(w) - 1)] ==
            IF At(w, p) = 0 THEN [labels |-> <<>>, last |-> p]
            ELSE IF At(w, p) >= 192 THEN [labels |-> <<>>, last |-> p + 1]
            ELSE LET rest == from[p + 1 + At(w, p)] IN
                 [labels |-> <<OctetsAt(w, p + 1, At(w, p))>> \o rest.labels,
                  last |-> rest.last]
    IN  from[start]

\* The labels from an offset on, and the offset of the last octet: the end of the
\* name or the second octet of the first pointer. further is what stands at the
\* offsets that this one leads to.
LabelsFrom(w, further) ==
    [p \in Nat |->
        IF At(w, p) = 0 THEN [labels |-> <<>>, last |-> p]
        ELSE IF At(w, p) >= 192
             THEN [labels |-> further[char2Short(At(w, p) % 64, At(w, p + 1))].labels,
                   last |-> p + 1]
        ELSE LET rest == further[p + 1 + At(w, p)] IN
             [labels |-> <<OctetsAt(w, p + 1, At(w, p))>> \o rest.labels, last |-> rest.last]]

\* What is read in at most n labels and pointers.
Labels(w) ==
    LET upTo[n \in 0..Len(w)] ==
            IF n = 0 THEN [p \in Nat |-> [labels |-> <<>>, last |-> p]]
            ELSE LabelsFrom(w, upTo[n - 1])
    IN  upTo

\* A name that ends does so after at most as many steps as there are octets.
createName(w, start) == Labels(w)[Len(w)][start]

\* The labels from an offset on as buf2messageQuestion takes them, and the offset
\* that they lead to. A pointer is none to it: it takes 192 and more for the length
\* of a label, and reads on there, past the end of the datagram if need be.
QuestionName(w) ==
    LET from[p \in 0..Len(w)] ==
            IF p < Len(w) /\ At(w, p) \in 1..63 /\ p + At(w, p) < Len(w)
            THEN LET rest == from[p + 1 + At(w, p)] IN
                 [labels |-> <<OctetsAt(w, p + 1, At(w, p))>> \o rest.labels, last |-> rest.last]
            ELSE [labels |-> <<>>, last |-> p]
    IN  from

\* Whatever comes of a name that has no labels or does not end after them.
Unread == [name |-> <<>>, type |-> 0, class |-> 0]

\* One question, and the offset after it.
QuestionAt(w, offset) ==
    LET name == QuestionName(w)[offset]
        p == name.last + 1
    IN  IF p <= Len(w) /\ At(w, name.last) = 0 /\ name.labels # <<>>
        THEN [value |-> [name |-> name.labels, type |-> ShortAt(w, p), class |-> ShortAt(w, p + 2)],
              next |-> p + 4]
        ELSE [value |-> Unread, next |-> offset]

\* createRData: an address is copied, a name read, and any other data skipped.
createRData(w, p, type, length) ==
    CASE type = TypeCNAME -> [value |-> createName(w, p).labels, next |-> createName(w, p).last + 1]
      [] type \in {TypeA, TypeAAAA} -> [value |-> OctetsAt(w, p, length), next |-> p + length]
      [] OTHER -> [value |-> <<>>, next |-> p + length]

RecordAt(w, offset) ==
    LET name == createName(w, offset)
        p == name.last + 1
        type == ShortAt(w, p)
        length == ShortAt(w, p + 8)
        data == createRData(w, p + 10, type, length)
    IN  [value |-> [name |-> name.labels, type |-> type, class |-> ShortAt(w, p + 2),
                    ttl |-> IntAt(w, p + 4), response_data_length |-> length,
                    data |-> data.value],
         next |-> data.next]

\* n entries read one after the other.
Entries(Read, offset, n) ==
    LET upTo[i \in 0..n] ==
            IF i = 0 THEN [list |-> <<>>, next |-> offset]
            ELSE LET sofar == upTo[i - 1]
                     entry == Read[sofar.next]
                 IN  [list |-> Append(sofar.list, entry.value), next |-> entry.next]
    IN  upTo[n]

buf2messageQuestion(w, n) == Entries([p \in Nat |-> QuestionAt(w, p)], 12, n)
buf2messageRR(w, offset, n) == Entries([p \in Nat |-> RecordAt(w, p)], offset, n)

Parsed(w) ==
    LET questions == buf2messageQuestion(w, ShortAt(w, 4))
        records == buf2messageRR(w, questions.next, ShortAt(w, 6))
    IN  [id |-> ShortAt(w, 0), flags |-> Flags(ShortAt(w, 2)), queries |-> questions.list,
         answers |-> records.list,
         authority_count |-> ShortAt(w, 8), additional_count |-> ShortAt(w, 10)]

\* What comes of a question that is not read is not followed any further.
buf2message ==
    /\ stage = "received"
    /\ IF Unread \in Range(buf2messageQuestion(wire, ShortAt(wire, 4)).list)
       THEN stage' = "garbled" /\ UNCHANGED message
       ELSE stage' = "parsed" /\ message' = Parsed(wire)
    /\ UNCHANGED <<composition, meant, sendbuf>>

-----------------------------------------------------------------------------
(* message2buf. A buffer holds the octets written, and -1 where nothing was. *)

Put(buf, offset, octets) ==
    LET gap == IF offset > Len(buf) THEN [p \in 1..(offset - Len(buf)) |-> -1] ELSE <<>> IN
    SubSeq(buf \o gap, 1, offset) \o octets
        \o SubSeq(buf, offset + Len(octets) + 1, Len(buf))

\* The bits of Z are three copies of it.
FlagsOctets(f) ==
    Short(32768 * f.QR + 2048 * f.Opcode + 1024 * f.AA + 512 * f.TC + 256 * f.RD
            + 128 * f.RA + (64 + 32 + 16) * f.Z + f.RCODE)

message2bufHeader(m) ==
    Short(m.id) \o FlagsOctets(m.flags) \o Short(Len(m.queries)) \o Short(Len(m.answers))
        \o Short(m.authority_count) \o Short(m.additional_count)

\* What is written with one question more. endPos is raised by the whole offset
\* after every question, and the next one starts at the class of this one: right
\* for the first question only.
WithQuestion(s, q) ==
    LET class == s.bufPos + TextLength(q.name) + 2 + 2
    IN  [buf |-> Put(Put(s.buf, 12 + s.bufPos, name2message(q.name) \o Short(q.type)),
                     12 + class, Short(q.class)),
         bufPos |-> class,
         endPos |-> s.endPos + class + 2]

message2bufQuestion(buf, queries) ==
    LET upTo[i \in 0..Len(queries)] ==
            IF i = 0 THEN [buf |-> buf, bufPos |-> 0, endPos |-> 12]
            ELSE WithQuestion(upTo[i - 1], queries[i])
    IN  upTo[Len(queries)]

\* Mutant: the length that came with a CNAME record, of its name as it was
\* spelled there, is written in front of the name as it is spelled here.
RecordOctets_length(rr) ==
    name2message(rr.name) \o Short(rr.type) \o Short(rr.class) \o Word(rr.ttl)
        \o Short(rr.response_data_length)
        \o (IF rr.type = TypeCNAME THEN name2message(rr.data) ELSE rr.data)

\* What is written for a record, up to the offset of the next one and further:
\* after a type without a case it starts in the middle of the TTL.
RecordOctets(rr) ==
    LET fixed == name2message(rr.name) \o Short(rr.type) \o Short(rr.class) \o Word(rr.ttl)
    IN  CASE rr.type = TypeCNAME -> fixed \o Short(TextLength(rr.data) + 2) \o name2message(rr.data)
          [] rr.type \in {TypeA, TypeAAAA} -> fixed \o Short(rr.response_data_length) \o rr.data
          [] OTHER -> fixed

Advance(rr) == IF rr.type \in KnownTypes THEN Len(RecordOctets(rr)) ELSE Len(RecordOctets(rr)) - 2

\* Mutant: the offset of the answers is counted twice.
message2bufAnswer_twice(buf, start, answers) ==
    LET upTo[i \in 0..Len(answers)] ==
            IF i = 0 THEN [buf |-> buf, endPos |-> start]
            ELSE LET s == upTo[i - 1] IN
                 [buf |-> Put(s.buf, start + s.endPos, RecordOctets(answers[i])),
                  endPos |-> s.endPos + Advance(answers[i])]
    IN  upTo[Len(answers)]

WithAnswer(s, rr) ==
    [buf |-> Put(s.buf, s.endPos, RecordOctets(rr)), endPos |-> s.endPos + Advance(rr)]

message2bufAnswer(buf, start, answers) ==
    LET upTo[i \in 0..Len(answers)] ==
            IF i = 0 THEN [buf |-> buf, endPos |-> start]
            ELSE WithAnswer(upTo[i - 1], answers[i])
    IN  upTo[Len(answers)]

Encoded(m) ==
    LET questions == message2bufQuestion(message2bufHeader(m), m.queries)
    IN  message2bufAnswer(questions.buf, questions.endPos, m.answers)

\* Writing past the buffer is undefined. What is sent has length endPos.
message2buf(m) ==
    LET e == Encoded(m) IN
    IF Len(e.buf) > BufferSize
    THEN stage' = "undefined" /\ UNCHANGED sendbuf
    ELSE /\ stage' = "sent"
         /\ sendbuf' = [p \in 1..e.endPos |-> IF p <= Len(e.buf) THEN e.buf[p] ELSE -1]

-----------------------------------------------------------------------------
(* What the relay sends *)

\* Mutant: the count of authority records stays, but none of them is written.
Cleared_count(m) == [m EXCEPT !.flags.Z = 0, !.additional_count = 0]

\* send_query and send_response, before they encode.
Cleared(m) == [m EXCEPT !.flags.Z = 0, !.authority_count = 0, !.additional_count = 0]

WithoutZ(n) == n - 16 * Bits(n, 16, 8)

\* The message goes on, to upstream or to the client.
Forward ==
    /\ stage = "parsed"
    /\ meant' = [said EXCEPT !.flags = WithoutZ(@), !.extra = NoExtra]
    /\ message2buf(Cleared(message))
    /\ UNCHANGED <<composition, message>>

\* generate_cname_response, generate_ipv4_response, generate_ipv6_response: the
\* length of a CNAME is not that of its data.
Generated(rr) ==
    [name |-> rr.name, type |-> rr.type, class |-> 1, ttl |-> 120, data |-> rr.data,
     response_data_length |-> IF rr.type = TypeCNAME THEN TextLength(rr.name) ELSE Len(rr.data)]

\* message_copy_header_queries and what bind_socket_read sets.
BackMessage(m, rcode, answers) ==
    [id |-> m.id,
     flags |-> [m.flags EXCEPT !.QR = 1, !.RD = 0, !.RCODE = rcode],
     queries |-> m.queries, answers |-> answers,
     authority_count |-> 0, additional_count |-> 0]

ReplyFlags(n, rcode) ==
    WithoutZ(n) - 256 * Bits(n, 256, 2) - Bits(n, 1, 16) + 32768 * (1 - Bits(n, 32768, 2)) + rcode

\* What the relay means to reply to m.
ReplyMeant(m, rrs, rcode) ==
    [id |-> m.id, flags |-> ReplyFlags(m.flags, rcode), queries |-> m.queries,
     answers |-> [i \in DOMAIN rrs |->
                    [name |-> rrs[i].name, type |-> rrs[i].type,
                     class |-> 1, ttl |-> 120, data |-> rrs[i].data]],
     extra |-> NoExtra]

\* What came is answered from the caches, be it a request or not.
Reply ==
    /\ stage = "parsed"
    /\ \E rrs \in CachedRRs, rcode \in {0, 3} :
         LET answers == [i \in DOMAIN rrs |-> Generated(rrs[i])] IN
         /\ rcode = 3 => rrs = <<>>
         /\ meant' = ReplyMeant(said, rrs, rcode)
         /\ message2buf(Cleared(BackMessage(message, rcode, answers)))
    /\ UNCHANGED <<composition, message>>

Done == stage \in {"garbled", "sent", "undefined"} /\ UNCHANGED vars

Next ==
    \/ ComposeQuestion
    \/ Compose
    \/ Send
    \/ buf2message
    \/ Forward
    \/ Reply
    \/ Done

Spec == Init /\ [][Next]_vars

-----------------------------------------------------------------------------
(* Properties *)

\* got is m as buf2message gives it to the relay: every question and every record,
\* with the data of the types it knows.
Understood(got, m) ==
    /\ got.id = m.id
    /\ got.flags = Flags(m.flags)
    /\ got.queries = m.queries
    /\ got.authority_count = m.extra.authorities
    /\ got.additional_count = m.extra.additional
    /\ Len(got.answers) = Len(m.answers)
    /\ \A i \in DOMAIN m.answers :
          LET found == got.answers[i]
              rr == m.answers[i]
          IN  /\ <<found.name, found.type, found.class, found.ttl>>
                    = <<rr.name, rr.type, rr.class, rr.ttl>>
              /\ rr.type \in KnownTypes => found.data = rr.data

\* However the peer compressed the names of its records, buf2message finds the
\* records it meant: it steps over every pointer and over the data it does not
\* know, and follows the pointers to the right place. It finds the questions
\* exactly if the peer compressed none of their names.
ReadsWhatWasSaid ==
    /\ stage \in {"parsed", "sent", "undefined"} => spelledOut /\ Understood(message, said)
    /\ stage = "garbled" => ~spelledOut

\* The messages that message2buf can write.
Writable(m) ==
    /\ Len(m.queries) <= 1
    /\ \A i \in DOMAIN m.answers : m.answers[i].type \in KnownTypes

\* What is sent reads as the message the relay means to send, no octet more,
\* less or unwritten, exactly if it has at most one question and only records
\* with addresses and aliases. This is what Relay!Readable stands on.
WritesWhatIsMeant ==
    stage = "sent" => (sendbuf = Plain(meant) <=> Writable(meant))

\* What message2buf writes buf2message reads: a second relay, to which this one
\* sends its queries or its answers, takes them for the message that is meant.
SentIsUnderstood ==
    stage = "sent" /\ Writable(meant) => Understood(Parsed(sendbuf), meant)

\* The buffer is overrun only by messages that need more octets than it has:
\* never by one that came, or could have come, uncompressed in that many.
OverrunsOnlyIfTooLong ==
    stage = "undefined" /\ Writable(meant) => Len(Plain(meant)) > BufferSize
=============================================================================
