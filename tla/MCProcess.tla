------------------------------ MODULE MCProcess ------------------------------
(***************************************************************************)
(* Every command line of up to four words, among them options, arguments   *)
(* that are levels or not, and a dash; and a loop with two requests, in    *)
(* batches of one, that reads two datagrams in a row.                      *)
(***************************************************************************)
EXTENDS Process

Words == {<<"-", "s">>, <<"-", "4">>, <<"-", "6">>, <<"-", "l">>, <<"-", "h">>,
          <<"-">>, <<"a">>, <<"2">>, <<"9">>}

MCArgVectors == UNION {[1..n -> Words] : n \in 0..4}
=============================================================================
