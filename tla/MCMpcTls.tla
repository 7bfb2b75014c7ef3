------------------------------ MODULE MCMpcTls ------------------------------
(***************************************************************************)
(* Instances of MpcTls.  Lengths are scaled: a block has 2 bytes, so that  *)
(* a Finished message fills a block and an alert half of one, as 16 and 2  *)
(* bytes do with blocks of 16.                                             *)
(***************************************************************************)
EXTENDS MpcTls

Out(k, n) == [kind |-> k, len |-> n]
In(k, n, t) == [kind |-> k, len |-> n, tag |-> t]

BothModes == {TRUE, FALSE}

\* Any order of the records a client sends
AllOut == {Out("finished", 2), Out("data", 1), Out("alert", 1)}

\* Any order of the records a server sends, some with a wrong tag; the client only finishes
AllIn == {In("finished", 2, TRUE), In("data", 2, TRUE), In("data", 1, FALSE), In("close_notify", 1, TRUE)}
FinishedOut == {Out("finished", 2)}

\* A handshake and data that fails, for liveness
SomeIn == {In("finished", 2, TRUE), In("data", 1, FALSE)}

=============================================================================
