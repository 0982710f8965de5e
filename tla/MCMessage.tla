------------------------------ MODULE MCMessage ------------------------------
(***************************************************************************)
(* Small messages, one of every shape: requests with none, one and two     *)
(* questions and an OPT record, responses with chains of aliases, with     *)
(* addresses of both kinds and with a record of another type, and one so   *)
(* long that its pointers take more than an octet and that it does not fit *)
(* into the buffer once its names are written out.                         *)
(***************************************************************************)
EXTENDS Message

a == <<97>>
b == <<98, 98>>
long == [i \in 1..63 |-> 108]

Www  == <<a, b>>
Host == <<b>>
Far  == <<long, long, b>>

Ask(n, t) == [name |-> n, type |-> t, class |-> 1]
RR(n, t, d) == [name |-> n, type |-> t, class |-> 1, ttl |-> 70000, data |-> d]

One == RR(Host, TypeA, <<192, 168, 0, 1>>)
Six == RR(Www, TypeAAAA, [i \in 1..16 |-> 255 - i])
Als == RR(Www, TypeCNAME, Host)
Txt == RR(Host, 16, <<1, 97>>)
FarAls == RR(Www, TypeCNAME, Far)

Says(flags, qs, rrs, extra) ==
    [id |-> 513, flags |-> flags, queries |-> qs, answers |-> rrs, extra |-> extra]

\* An OPT record, alone or after an authority record of a root server.
Opt == [authorities |-> 0, additional |-> 1, octets |-> <<0, 0, 41, 5, 0, 0, 0, 0, 0, 0, 0>>]
Both == [authorities |-> 1, additional |-> 1,
         octets |-> <<0, 0, 2, 0, 1, 0, 0, 0, 9, 0, 2, 192, 12>> \o Opt.octets]

\* Flags: RD and AD, or QR, AA, RD, RA and CD with an error code.
Asking == 256 + 32
Answering == 32768 + 1024 + 256 + 128 + 16 + 2

MCMessages ==
    {Says(Asking, <<>>, <<>>, NoExtra),
     Says(Asking, <<Ask(Www, TypeA)>>, <<>>, Opt),
     Says(Asking + 2^11, <<Ask(Www, TypeA), Ask(Host, TypeAAAA)>>, <<>>, NoExtra),
     Says(Answering, <<Ask(Www, TypeA)>>, <<Als, One, One>>, Both),
     Says(Answering, <<Ask(Www, TypeAAAA)>>, <<Six, Txt, One>>, Opt),
     Says(Answering, <<Ask(Www, 16)>>, <<Als, Txt>>, NoExtra),
     Says(Answering, <<Ask(Www, TypeA), Ask(Host, TypeA)>>, <<One>>, NoExtra),
     Says(Answering, <<Ask(Www, TypeA)>>, <<FarAls, RR(Far, TypeCNAME, Host), One>>, NoExtra)}

MCCachedRRs == {<<>>, <<One, Six>>, <<Als, One>>, <<FarAls, RR(Far, TypeCNAME, Www)>>}
=============================================================================
