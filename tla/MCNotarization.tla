---------------------------- MODULE MCNotarization ----------------------------
(* Instance of Notarization for TLC. *)
EXTENDS Notarization

D(text) == [typ |-> "ApplicationData", text |-> text]
Alert == [typ |-> "Alert", text |-> <<9>>]
Records(sent, recv) == [d \in Directions |-> IF d = "Sent" THEN sent ELSE recv]

\* One record in each direction; records in between and at the end that carry
\* no data, ranges that span records; nothing received; short records whose
\* padding does not fit.
MCRecordChoices ==
  {Records(<<D(<<1>>)>>, <<D(<<2, 1>>)>>),
   Records(<<D(<<1>>)>>, <<D(<<1>>), Alert, D(<<>>), D(<<2>>), Alert>>),
   Records(<<D(<<2>>), D(<<1>>)>>, <<>>)}

Config(recv, records, online, version) ==
  [max_sent_data |-> 4, max_recv_data |-> recv, max_sent_records |-> None, max_recv_records |-> records,
   max_recv_data_online |-> online, version |-> version]
\* Four bytes hold two padded records; two do not.
OtherConfigs == {Config(4, Some(2), Some(4), 1), Config(2, None, None, 1),
              Config(8, None, None, 1), Config(4, Some(4), None, 1), Config(4, None, None, 2),
              Config(2, None, Some(4), 1)}
MCValidator == [max_sent_data |-> 4, max_recv_data |-> 4, max_sent_records |-> 3, max_recv_records |-> 3,
                version |-> 1]

Req(sig, alg, ext) == [signature_alg |-> sig, hash_alg |-> alg, extensions |-> ext]
OtherRequests ==
  {Req("SECP256R1", "BLAKE3", <<>>),
   Req("SECP256K1", "SHA256", <<>>), Req("SECP256K1", "custom", <<>>), Req("SECP256K1", "BLAKE3", <<"extension">>)}
MCNotaryConfig == [signature_algs |-> {"SECP256K1"}, hash_algs |-> {"BLAKE3", "KECCAK256"},
                   fields |-> {"EncodingCommitment"}]
Deviations ==
  {"none", "plaintext", "partial", "length", "name", "identity", "attestation cert", "attestation algorithm",
   "attestation encoding", "opening byte", "opening index", "presented name", "presented cert",
   "presented length", "presented key"}

\* One departure from the usual at a time.
Usual == [config |-> Config(4, None, None, 1), request |-> Req("SECP256K1", "BLAKE3", <<>>), deviation |-> "none"]
MCParties == {[Usual EXCEPT !.config = c] : c \in OtherConfigs} \union {[Usual EXCEPT !.request = r] : r \in OtherRequests}
             \union {[Usual EXCEPT !.deviation = d] : d \in Deviations}
===============================================================================
