------------------------------- MODULE MCRelay -------------------------------
(***************************************************************************)
(* Small instances of Relay for TLC: question sections, zones and          *)
(* configuration files.  Zones that mention no question answer NXDOMAIN.   *)
(***************************************************************************)
EXTENDS Relay, TLC

Ask(n, t) == <<[name |-> n, type |-> t]>>

C(n, m) == [type |-> "CNAME", name |-> n, data |-> m]
A(n, d) == [type |-> "A", name |-> n, data |-> d]
Q(n, d) == [type |-> "AAAA", name |-> n, data |-> d]

Says(cn, as, qs) == [rcode |-> NOERROR, cname |-> cn, a |-> as, aaaa |-> qs]
Nothing == [rcode |-> NXDOMAIN, cname |-> <<>>, a |-> <<>>, aaaa |-> <<>>]
Only(mentioned) ==
    [qs \in QuerySeqs |-> IF qs \in DOMAIN mentioned THEN mentioned[qs] ELSE Nothing]

MCNames  == {"www", "host"}
MCNames3 == {"www", "cdn", "host"}
MCIPv4   == {"0.0.0.0", "1.1.1.1"}
MCIPv6   == {"1::1"}

NoConfig   == [n \in Names |-> NULL]
ConfigHost == [NoConfig EXCEPT !["host"] = "1.1.1.1"]
ConfigBan  == [NoConfig EXCEPT !["host"] = "0.0.0.0"]

SharedIds == [c \in Clients |-> Ids]
\* Ids are numbers, clients are numbers: each client has the id of its number.
OwnIds    == [c \in Clients |-> {c}]

\* Clients differ in nothing but their address.
Alike == Permutations(Clients)

-----------------------------------------------------------------------------
(* www is an alias of host in one zone, and host one of www in the other. *)

AliasQuestions == {Ask("www", "A"), Ask("host", "A")}

AliasZones ==
    {Only(Ask("www", "A")  :> Says(<<C("www", "host")>>, <<A("host", "1.1.1.1")>>, <<>>)
       @@ Ask("host", "A") :> Says(<<>>, <<A("host", "1.1.1.1")>>, <<>>)),
     Only(Ask("www", "A")  :> Says(<<>>, <<A("www", "0.0.0.0")>>, <<>>)
       @@ Ask("host", "A") :> Says(<<C("host", "www")>>, <<A("www", "0.0.0.0")>>, <<>>))}

\* One name that exists in one zone and not in the other.
OneQuestion == {Ask("host", "A")}

ComeAndGoZones ==
    {Only(Ask("host", "A") :> Says(<<>>, <<A("host", "1.1.1.1")>>, <<>>)),
     Only(<<>>)}

\* host has addresses of both kinds, and 0.0.0.0 in one of the zones.
HostQuestions == {Ask("host", "A"), Ask("host", "AAAA")}

HostZones ==
    {Only(Ask("host", "A")    :> Says(<<>>, <<A("host", "1.1.1.1")>>, <<>>)
       @@ Ask("host", "AAAA") :> Says(<<>>, <<>>, <<Q("host", "1::1")>>)),
     Only(Ask("host", "A")    :> Says(<<>>, <<A("host", "0.0.0.0"), A("host", "1.1.1.1")>>, <<>>))}

-----------------------------------------------------------------------------
(* Every type of question and sections of none, one and two of them; aliases *)
(* that lead from www over cdn to host, in part or all the way, and in a     *)
(* zone without cdn in between from cdn to www.                              *)

RecordQuestions ==
    {<<>>, Ask("www", "A"), Ask("www", "AAAA"), Ask("cdn", "CNAME"),
     Ask("host", "OTHER"), Ask("host", "A") \o Ask("www", "AAAA")}

LongZone ==
    LET aliases == <<C("www", "cdn"), C("cdn", "host")>>
        as == <<A("host", "1.1.1.1"), A("host", "0.0.0.0")>>
    IN Only(Ask("www", "A")     :> Says(aliases, as, <<>>)
         @@ Ask("www", "AAAA")  :> Says(aliases, <<>>, <<Q("host", "1::1")>>)
         @@ Ask("cdn", "CNAME") :> Says(<<C("cdn", "host")>>, <<>>, <<>>))

ShortZone ==
    Only(Ask("www", "A")     :> Says(<<C("www", "host")>>, <<A("host", "1.1.1.1")>>, <<>>)
      @@ Ask("www", "AAAA")  :> Says(<<>>, <<>>, <<Q("www", "1::1")>>)
      @@ Ask("cdn", "CNAME") :> Says(<<C("cdn", "www")>>, <<>>, <<>>))

RecordZones == {LongZone, ShortZone}
=============================================================================
