----------------------------- MODULE MCAnswering -----------------------------
(***************************************************************************)
(* The instances of MCRelay for Answering.                                 *)
(***************************************************************************)
EXTENDS Answering, MCRelay

\* A zone with an alias of two steps, two addresses of one kind and one of
\* the other, and one in which that address is a ban and host an alias of www.
StepQuestions ==
    {<<>>, Ask("www", "A"), Ask("host", "CNAME"), Ask("host", "OTHER"),
     Ask("host", "A") \o Ask("www", "AAAA")}

StepZones ==
    {Only(Ask("www", "A") :> Says(<<C("www", "cdn"), C("cdn", "host")>>,
                                  <<A("host", "1.1.1.1"), A("host", "0.0.0.0")>>,
                                  <<Q("host", "1::1")>>)),
     Only(Ask("www", "A") :> Says(<<>>, <<A("host", "0.0.0.0")>>, <<>>)
       @@ Ask("host", "CNAME") :> Says(<<C("host", "www")>>, <<>>, <<>>))}
=============================================================================
