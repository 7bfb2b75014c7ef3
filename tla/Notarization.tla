----------------------------- MODULE Notarization -----------------------------
(***************************************************************************)
(* A session of a prover and a verifier from its setup to its end:         *)
(* prover/src, verifier/src and common/src of tlsn.  The prover either     *)
(* notarizes (the verifier is then a notary and signs an attestation) or   *)
(* proves parts of the transcript to the verifier itself.  An attestation  *)
(* is shown to others by a presentation.                                   *)
(*                                                                         *)
(* The two exchange messages over a multiplexed connection and take joint  *)
(* steps: preprocessing, MPC-TLS (modelled by MpcTls and TlsSession) with  *)
(* the proof of the records received, and flushing the VM.  An end that    *)
(* stops drops its mux; the other then reads what was sent and fails.      *)
(*                                                                         *)
(* session.deviation says which party, if any, departs from the protocol   *)
(* and where; the code of the other has to notice it.                      *)
(***************************************************************************)
EXTENDS Attestation, FiniteSetsExt

CONSTANTS
  BlockLen,     \* length of an AES block
  RecordChoices,\* what may be sent and received: from directions to sequences of records
  Parties,      \* what the parties may choose: config, request and deviation of the prover
  Validator,    \* limits of the verifier
  NotaryConfig, \* what the notary attests to
  MaxCommits,   \* bound: commitments of a session
  LinkFails     \* whether the connection of the two may break

ASSUME NotarizationAssumption ==
  BlockLen \in Nat \ {0} /\ MaxCommits \in Nat /\ LinkFails \in BOOLEAN

VARIABLES
  session,  \* what the applications, the server and the configuration fix
  prover,   \* pc, result and what the states of the prover keep
  verifier, \* the same of the verifier
  net,      \* messages under way in both directions, and whether the link is up
  output    \* presentation that was shown, and what its verification returned

vars == <<session, prover, verifier, net, output>>

-----------------------------------------------------------------------------
\* The server, its certificates, and the providers of the three parties.

ServerName == "server"
OtherName == "other"
SessionTime == 1
Cert(id, name) == [id |-> id, name |-> name, trusted |-> TRUE, validity |-> {SessionTime}]
EphemKey == "ephemeral"
OtherKey == "otherEphemeral"
\* What a server with that name has signed in the handshake of a session.
CertDataOf(name, key) ==
  [certs |-> <<Cert(name, name)>>, sig |-> [by |-> name, randoms |-> name, key |-> key],
   handshake |-> [randoms |-> name, key |-> key]]
CertData == CertDataOf(ServerName, EphemKey)

HashAlgs == {"SHA256", "BLAKE3", "KECCAK256"}
SigAlgs == {"SECP256K1", "SECP256R1", "SECP256K1ETH"}
DefaultProvider == [hash |-> HashAlgs, signature |-> SigAlgs, signer |-> {}, owner |-> "nobody"]
NotaryProvider == [DefaultProvider EXCEPT !.signer = {"SECP256K1"}, !.owner = "notary"]
OtherNotary == [DefaultProvider EXCEPT !.signer = SigAlgs, !.owner = "otherNotary"]

\* Text with another byte in front.
Changed(text) == [i \in DOMAIN text |-> IF i = 1 THEN text[1] + 1 ELSE text[i]]
Text(rs) == FlattenSeq([i \in DOMAIN DataRecords(rs) |-> DataRecords(rs)[i].text])
Truth == [d \in Directions |-> Text(session.records[d])]

-----------------------------------------------------------------------------
\* common/src/config.rs.

\* ProtocolConfigBuilder.validate compares options: an online limit that is
\* not set is smaller than any other.
config_builds(c) ==
  c.max_recv_data_online # None => c.max_recv_data_online[1] <= c.max_recv_data

AtMost(option, limit) == option # None => option[1] <= limit
config_valid(c) ==
  /\ c.max_sent_data <= Validator.max_sent_data /\ c.max_recv_data <= Validator.max_recv_data
  /\ AtMost(c.max_sent_records, Validator.max_sent_records)
  /\ AtMost(c.max_recv_records, Validator.max_recv_records)
  /\ c.version = Validator.version

-----------------------------------------------------------------------------
\* common/src/zk_aes.rs and common/src/commit.rs.

Padded(len) == BlockLen * ((len + BlockLen - 1) \div BlockLen)

\* encrypt takes whole blocks from what alloc has set aside.
PoolAfter(pool, rs) == FoldLeft(LAMBDA left, r : left - Padded(Len(r.text)), pool, rs)
RecordsFit(pool, rs) == \A n \in 0..Len(rs) : PoolAfter(pool, SubSeq(rs, 1, n)) >= 0

\* commit_records: each record gets a reference, to the plaintext assigned.
committed(rs, texts) == [i \in DOMAIN rs |-> Record(rs[i].typ, Some(texts[i]), Some(texts[i]))]

\* RecordProof.verify: the ciphertext of what was assigned is the ciphertext.
proof_verify(refs, rs) == \A i \in DOMAIN rs : refs[i] = rs[i].text

-----------------------------------------------------------------------------
\* The connection of the two.

Ended(party) == party.pc = "ended"
Fail(party, result) == [party EXCEPT !.pc = "ended", !.result = result]
At(party, pc) == party.pc = pc
Go(party, pc) == [party EXCEPT !.pc = pc]

Message(typ, body) == [typ |-> typ, body |-> body]
Send(dst, typ, body) == [net EXCEPT ![dst] = Append(@, Message(typ, body))]
Arrived(dst) == net[dst] # <<>>
Received(dst, typ) == Arrived(dst) /\ Head(net[dst]).typ = typ
Body(dst) == Head(net[dst]).body
Took(dst) == [net EXCEPT ![dst] = Tail(@)]

\* What waits for a message that cannot come, or for one of another type, fails.
WaitFails(dst, peer, typ) ==
  \/ Arrived(dst) /\ Head(net[dst]).typ # typ
  \/ ~Arrived(dst) /\ (Ended(peer) \/ ~net.up)
\* So does a joint step when the other party has stopped.
JointFails(peer) == Ended(peer) \/ ~net.up

Init ==
  /\ \E records \in RecordChoices, choice \in Parties,
        pmode \in {"notarize", "prove"}, vmode \in {"notarize", "verify"} :
       /\ config_builds(choice.config)
       /\ session = [records |-> records, config |-> choice.config, request |-> choice.request,
                     prover |-> pmode, verifier |-> vmode, deviation |-> choice.deviation]
  /\ prover = [pc |-> "setup", result |-> "none", transcript |-> None, refs |-> None, encodings |-> None,
               request |-> None, secrets |-> None, attestation |-> None, query |-> None]
  /\ verifier = [pc |-> "setup", result |-> "none", refs |-> None, info |-> None, config |-> None,
                 partial |-> None, purported |-> None, name |-> None, attestation |-> None]
  /\ net = [prover |-> <<>>, verifier |-> <<>>, up |-> TRUE]
  /\ output = [shown |-> None, result |-> None, done |-> FALSE]

Deviates(where) == session.deviation = where

-----------------------------------------------------------------------------
\* Setup: the prover sends its configuration, the verifier validates it.

prover_setup ==
  /\ At(prover, "setup")
  /\ net' = Send("verifier", "ProtocolConfig", session.config)
  /\ prover' = Go(prover, "preprocess")
  /\ UNCHANGED <<session, verifier, output>>

verifier_setup ==
  /\ At(verifier, "setup") /\ Received("verifier", "ProtocolConfig")
  /\ net' = Took("verifier")
  /\ verifier' = IF config_valid(Body("verifier"))
                 THEN [verifier EXCEPT !.pc = "preprocess", !.config = Some(Body("verifier"))]
                 ELSE Fail(verifier, "Err")
  /\ UNCHANGED <<session, prover, output>>

preprocess ==
  /\ At(prover, "preprocess") /\ At(verifier, "preprocess") /\ net.up
  /\ prover' = Go(prover, "tls") /\ verifier' = Go(verifier, "tls")
  /\ UNCHANGED <<session, net, output>>

-----------------------------------------------------------------------------
\* Prover.connect and Verifier.run: after MPC-TLS both commit to the records
\* received, finalize the VM together, and take up the transcript.

\* Plaintexts the prover assigns to the records received.
Assigned(rs) == [i \in DOMAIN rs |-> IF Deviates("plaintext") THEN Changed(rs[i].text) ELSE rs[i].text]
SentRecords == DataRecords(session.records["Sent"])
RecvRecords == DataRecords(session.records["Received"])
Committed == [d \in Directions |->
                IF d = "Sent" THEN committed(SentRecords, [i \in DOMAIN SentRecords |-> SentRecords[i].text])
                ELSE committed(RecvRecords, Assigned(RecvRecords))]

\* Lengths the verifier sums from the ciphertexts.
CiphertextLengths == [d \in Directions |-> Len(Truth[d])]
ConnectionInfo(lengths) == [time |-> SessionTime, version |-> "V1_2", lengths |-> lengths]

Closed(p) == [p EXCEPT !.pc = session.prover, !.transcript = Some(to_transcript(Committed)),
                       !.refs = Some(to_transcript_refs(Committed))]
run_verifier ==
  IF proof_verify(to_transcript_refs(Committed)["Received"], RecvRecords)
  THEN [verifier EXCEPT !.pc = IF session.verifier = "notarize" THEN "transfer" ELSE "receive",
                        !.refs = Some(to_transcript_refs(Committed)),
                        !.info = Some(ConnectionInfo(CiphertextLengths))]
  ELSE Fail(verifier, "Err")

mpc_tls ==
  /\ At(prover, "tls") /\ At(verifier, "tls") /\ net.up
  /\ IF RecordsFit(Padded(session.config.max_recv_data), RecvRecords)
     THEN prover' = Closed(prover) /\ verifier' = run_verifier
     ELSE prover' = Fail(prover, "Err") /\ verifier' = Fail(verifier, "Err")
  /\ UNCHANGED <<session, net, output>>

-----------------------------------------------------------------------------
\* Prover.notarize and Verifier.notarize.

\* encoding::transfer; the secret is drawn for this session.
EncoderSecret == "secret"
\* Mutant: the notary waits for the request before it sends the encodings.
transfer_AfterRequest ==
  /\ At(verifier, "transfer") /\ Received("verifier", "Request")
  /\ net' = Send("prover", "Encodings", [secret |-> EncoderSecret, lengths |-> verifier.info[1].lengths])
  /\ verifier' = Go(verifier, "request")
  /\ UNCHANGED <<session, prover, output>>

transfer ==
  /\ At(verifier, "transfer")
  /\ net' = Send("prover", "Encodings", [secret |-> EncoderSecret, lengths |-> Lengths(
                   [d \in Directions |-> FlattenSeq(verifier.refs[1][d])])])
  /\ verifier' = Go(verifier, "request")
  /\ UNCHANGED <<session, prover, output>>

\* encoding::receive: the MACs of the prover turn them into encodings of the
\* plaintext in the VM.
Encode(secret, d, text) == encode_subsequence(secret, d, [idx |-> 1..Len(text), data |-> text])
receive_encodings ==
  /\ At(prover, "notarize") /\ Received("prover", "Encodings")
  /\ net' = Took("prover")
  /\ LET values == [d \in Directions |-> FlattenSeq(prover.refs[1][d])]
     IN  prover' = IF Body("prover").lengths # Lengths(values) THEN Fail(prover, "Err")
                   ELSE [prover EXCEPT !.pc = "request", !.encodings =
                           Some([d \in Directions |-> Encode(Body("prover").secret, d, values[d])])]
  /\ UNCHANGED <<session, verifier, output>>

\* TranscriptCommitConfig: the application's choice.
Commits(t) == {c \in [dir : Directions, idx : SUBSET (1..Max({Len(t[d]) : d \in Directions} \union {0})), kind : Kinds] :
                 commit_with_kind({}, t, c.dir, c.idx, c.kind) # None}

\* What the prover asks for.  The order of iteration only numbers the leaves.
SendRequest(commits) ==
  LET t == prover.transcript[1]
      tree == IF ~has_encoding(commits) THEN Some(None)
              ELSE LET made == EncodingTree(session.request.hash_alg, SetToSeq(iter_encoding(commits)),
                                            prover.encodings[1], Lengths(t))
                   IN  IF made = None THEN None ELSE Some(made)
      data == IF Deviates("identity") THEN CertDataOf(OtherName, OtherKey) ELSE CertData
      name == IF Deviates("identity") THEN OtherName ELSE ServerName
      request == Request(session.request, data, tree[1])
  IN  CASE session.request.hash_alg \notin DefaultProvider.hash \/ tree = None ->
             prover' = Fail(prover, "Err") /\ UNCHANGED net
        [] tree # None /\ RequestPanics(tree[1]) -> prover' = Fail(prover, "Panic") /\ UNCHANGED net
        [] OTHER -> /\ prover' = [prover EXCEPT !.pc = "attestation", !.request = Some(request),
                                                !.secrets = Some(Secrets(name, data, tree[1], t))]
                    /\ net' = Send("verifier", "Request", request)

send_request ==
  /\ At(prover, "request")
  /\ \E commits \in UNION {kSubset(n, Commits(prover.transcript[1])) : n \in 0..MaxCommits} :
       SendRequest(commits)
  /\ UNCHANGED <<session, verifier, output>>

\* A notary that departs from the request in one field of the attestation.
Altered(a) ==
  CASE Deviates("attestation cert") -> [a EXCEPT !.body.cert = cert_commit(a.header.root.alg, ServerCertOpening(CertData, 1))]
    [] Deviates("attestation algorithm") -> [a EXCEPT !.signature.alg = "SECP256R1"]
    [] Deviates("attestation encoding") -> [a EXCEPT !.body.encoding = None]
    [] OTHER -> a

attest ==
  /\ At(verifier, "request") /\ Received("verifier", "Request")
  /\ LET request == Body("verifier")
         built == attestation_build(NotaryProvider, request, verifier.info[1], EphemKey, EncoderSecret)
     IN  IF accept_request(NotaryConfig, request) /\ built # None
         THEN /\ verifier' = [verifier EXCEPT !.pc = "closing", !.attestation = built]
              /\ net' = [Took("verifier") EXCEPT !.prover = Append(@, Message("Attestation", Altered(built[1])))]
         ELSE verifier' = Fail(verifier, "Err") /\ net' = Took("verifier")
  /\ UNCHANGED <<session, prover, output>>

\* The mux is closed before the attestation is validated.
receive_attestation ==
  /\ At(prover, "attestation") /\ Received("prover", "Attestation")
  /\ prover' = [prover EXCEPT !.pc = "closing", !.attestation = Some(Body("prover"))]
  /\ net' = Took("prover")
  /\ UNCHANGED <<session, verifier, output>>

-----------------------------------------------------------------------------
\* Prover.prove_transcript and Verifier.receive.

Queries(t) == {q \in [Directions -> SUBSET (1..Max({Len(t[d]) : d \in Directions} \union {0}))] : InBounds(t, q)}

Purported(p) ==
  CASE Deviates("partial") -> [p EXCEPT !.data = [d \in Directions |-> Changed(p.data[d])]]
    [] Deviates("length") -> [p EXCEPT !.data["Received"] = Append(@, 1)]
    [] OTHER -> p

\* The slices are decoded by both: the prover needs their references too.
prove_transcript ==
  /\ At(prover, "prove")
  /\ \E query \in Queries(prover.transcript[1]) :
       LET partial == compress(Purported(to_partial(prover.transcript[1], query)))
       IN  IF \A d \in Directions : refs_get(prover.refs[1][d], query[d]) # None
           THEN /\ prover' = [prover EXCEPT !.pc = "flush", !.query = Some(query)]
                /\ net' = Send("verifier", "PartialTranscript", partial)
           ELSE prover' = Fail(prover, "Panic") /\ UNCHANGED net
  /\ UNCHANGED <<session, verifier, output>>

\* Up to the flush: a transcript of the right length, and references to decode.
receive_partial ==
  /\ At(verifier, "receive") /\ Received("verifier", "PartialTranscript")
  /\ net' = Took("verifier")
  /\ LET c == Body("verifier")
         p == decompress(c)
     IN  verifier' = CASE ~ValidCompressed(c) -> Fail(verifier, "Err")
                       [] ValidCompressed(c) /\ Lengths(p.data) # verifier.info[1].lengths -> Fail(verifier, "Err")
                       [] ValidCompressed(c) /\ Lengths(p.data) = verifier.info[1].lengths ->
                            IF \E d \in Directions : refs_get(verifier.refs[1][d], p.authed[d]) = None
                            THEN Fail(verifier, "Panic")
                            ELSE [verifier EXCEPT !.pc = "flush", !.purported = Some(p)]
  /\ UNCHANGED <<session, prover, output>>

\* After the flush the decoded data are compared with the purported.
Decoded(refs, p) ==
  FlattenSeq(refs_get(refs["Sent"], p.authed["Sent"])[1]) \o FlattenSeq(refs_get(refs["Received"], p.authed["Received"])[1])

\* Mutant: the bytes received are not compared.
Agrees_Sent(refs, p) == SubSeq(Decoded(refs, p), 1, Len(iter(p, "Sent"))) = iter(p, "Sent")
\* zip: what one has more than the other is not looked at.
Agrees(refs, p) == LET purported == iter(p, "Sent") \o iter(p, "Received")
                   IN  \A n \in DOMAIN Decoded(refs, p) \intersect DOMAIN purported : Decoded(refs, p)[n] = purported[n]

flush ==
  /\ At(prover, "flush") /\ At(verifier, "flush") /\ net.up
  /\ prover' = Go(prover, "finalize")
  /\ verifier' = IF Agrees(verifier.refs[1], verifier.purported[1])
                 THEN [verifier EXCEPT !.pc = "identity", !.partial = verifier.purported]
                 ELSE Fail(verifier, "Err")
  /\ UNCHANGED <<session, net, output>>

prover_finalize ==
  /\ At(prover, "finalize")
  /\ LET name == IF Deviates("name") THEN OtherName ELSE ServerName
         data == IF Deviates("identity") THEN CertDataOf(OtherName, OtherKey) ELSE CertData
     IN  net' = Send("verifier", "ServerIdentityProof",
                     [name |-> IF Deviates("identity") THEN OtherName ELSE name, data |-> data])
  /\ prover' = Go(prover, "closing")
  /\ UNCHANGED <<session, verifier, output>>

verifier_finalize ==
  /\ At(verifier, "identity") /\ Received("verifier", "ServerIdentityProof")
  /\ LET proof == Body("verifier")
     IN  verifier' = IF ServerCertData_verify(proof.data, verifier.info[1].time, EphemKey, proof.name)
                     THEN [verifier EXCEPT !.pc = "closing", !.name = Some(proof.name)]
                     ELSE Fail(verifier, "Err")
  /\ net' = Took("verifier")
  /\ UNCHANGED <<session, prover, output>>

-----------------------------------------------------------------------------
\* The ends.  When the link is down, closing the mux fails unless its future
\* has already completed.

prover_closes ==
  /\ At(prover, "closing")
  /\ \/ ~net.up /\ prover' = Fail(prover, "Err")
     \/ prover' = Fail(prover, IF prover.attestation # None /\ ~validate(prover.request[1], prover.attestation[1])
                               THEN "Err" ELSE "Ok")
  /\ UNCHANGED <<session, verifier, net, output>>

verifier_closes ==
  /\ At(verifier, "closing")
  /\ \/ ~net.up /\ verifier' = Fail(verifier, "Err")
     \/ verifier' = Fail(verifier, "Ok")
  /\ UNCHANGED <<session, prover, net, output>>

ProverAwaits(pc, typ) == At(prover, pc) /\ WaitFails("prover", verifier, typ)
VerifierAwaits(pc, typ) == At(verifier, pc) /\ WaitFails("verifier", prover, typ)

\* A read or a joint step returns an error.
prover_fails ==
  /\ \/ ProverAwaits("notarize", "Encodings")
     \/ ProverAwaits("attestation", "Attestation")
     \/ At(prover, "preprocess") /\ JointFails(verifier)
     \/ At(prover, "tls") /\ JointFails(verifier)
     \/ At(prover, "flush") /\ JointFails(verifier)
  /\ prover' = Fail(prover, "Err")
  /\ UNCHANGED <<session, verifier, net, output>>

\* The verifier unwraps the result of the flush.
verifier_fails ==
  /\ \/ /\ \/ VerifierAwaits("setup", "ProtocolConfig")
           \/ VerifierAwaits("request", "Request")
           \/ VerifierAwaits("receive", "PartialTranscript")
           \/ VerifierAwaits("identity", "ServerIdentityProof")
           \/ At(verifier, "preprocess") /\ JointFails(prover)
           \/ At(verifier, "tls") /\ JointFails(prover)
        /\ verifier' = Fail(verifier, "Err")
     \/ /\ At(verifier, "flush") /\ JointFails(prover)
        /\ verifier' = Fail(verifier, "Panic")
  /\ UNCHANGED <<session, prover, net, output>>

\* The link breaks, and what is under way is lost.
link_fails ==
  /\ LinkFails /\ net.up /\ ~(Ended(prover) /\ Ended(verifier))
  /\ net' = [prover |-> <<>>, verifier |-> <<>>, up |-> FALSE]
  /\ UNCHANGED <<session, prover, verifier, output>>

-----------------------------------------------------------------------------
\* A presentation of the attestation the prover has received, made when the
\* session is over, and its verification by someone who knows the notary.

Holds(p) == At(p, "ended") /\ p.result = "Ok" /\ p.attestation # None

Tampered(p) ==
  LET opened(f(_)) == IF p.transcript[1].encoding = None THEN p
                      ELSE [p EXCEPT !.transcript[1].encoding[1].openings =
                              [n \in DOMAIN @ |-> [@[n] EXCEPT !.seq = f(@)]]]
  IN  CASE Deviates("opening byte") -> opened(LAMBDA s : [s EXCEPT !.data = Changed(@)])
        [] Deviates("opening index") -> opened(LAMBDA s : [s EXCEPT !.idx = {i + 1 : i \in @}])
        [] Deviates("presented name") -> [p EXCEPT !.identity[1].name = OtherName]
        [] Deviates("presented cert") -> [p EXCEPT !.identity[1].name = OtherName,
                                                   !.identity[1].opening.data = CertDataOf(OtherName, EphemKey)]
        [] Deviates("presented length") -> [p EXCEPT !.body.connection_info.lengths["Sent"] = @ + 1]
        [] Deviates("presented key") ->
             LET body == [p.body EXCEPT !.verifying_key = verifying_key("SECP256K1", "otherNotary"),
                                        !.connection_info.time = 2]
                 header == Header(p.header.root.alg, body)
             IN  [p EXCEPT !.body = body, !.header = header, !.signature = sign("SECP256K1", "otherNotary", header)]
        [] OTHER -> p

present ==
  /\ Holds(prover) /\ Ended(verifier) /\ ~output.done /\ output.shown = None
  /\ \E query \in Queries(prover.transcript[1]), kinds \in {<<"Encoding">>, <<"Hash", "Encoding">>} :
       LET secrets == prover.secrets[1]
           covers == IF secrets.tree = None THEN {{}} ELSE Covers(secrets.tree[1], query)
           identity == Some([name |-> secrets.name, opening |-> secrets.opening])
       IN  \E chosen \in covers :
             LET proof == transcript_build(secrets, query, kinds, chosen)
             IN  /\ prover' = [prover EXCEPT !.query = Some(query)]
                 /\ output' = IF reveal(secrets, query) /\ proof # None
                              THEN [output EXCEPT !.shown =
                                      Some(Tampered(Presentation(prover.attestation[1], identity, proof)))]
                              ELSE [output EXCEPT !.done = TRUE]
  /\ UNCHANGED <<session, verifier, net>>

verify_presentation ==
  /\ output.shown # None /\ ~output.done
  /\ output' = [output EXCEPT !.result = presentation_verify(DefaultProvider, output.shown[1]), !.done = TRUE]
  /\ UNCHANGED <<session, prover, verifier, net>>

-----------------------------------------------------------------------------
ProverStep == prover_setup \/ receive_encodings \/ send_request \/ receive_attestation
              \/ prove_transcript \/ prover_finalize \/ prover_closes \/ prover_fails
VerifierStep == verifier_setup \/ transfer \/ attest \/ receive_partial \/ verifier_finalize
                \/ verifier_closes \/ verifier_fails
JointStep == preprocess \/ mpc_tls \/ flush
Next == ProverStep \/ VerifierStep \/ JointStep \/ link_fails \/ present \/ verify_presentation

\* Each party is driven by the executor until its future has returned.
Spec == Init /\ [][Next]_vars /\ WF_vars(ProverStep) /\ WF_vars(VerifierStep) /\ WF_vars(JointStep)

-----------------------------------------------------------------------------
\* An application fills what is not authenticated with a byte of its own.
True(p) == LET shown == set_unauthed(p, 9)
           IN  /\ Lengths(shown.data) = Lengths(Truth)
               /\ \A d \in Directions : \A i \in shown.authed[d] : shown.data[d][i] = Truth[d][i]
               /\ is_complete(shown) => shown.data = Truth

\* A presentation that verifies under the key of the notary tells the truth
\* about the connection: what it authenticates are bytes of the transcript in
\* their places, its lengths are those of the connection and the name is the
\* one of the server, whatever the prover has assigned, committed to, or
\* changed in the presentation (presentation.rs, transcript/encoding/proof.rs,
\* connection/proof.rs and the proof of the records in verifier/src/lib.rs).
PresentedIsTrue ==
  (output.result # None /\ output.result[1].key.owner = "notary") =>
    /\ output.result[1].info.lengths = Lengths(Truth)
    /\ output.result[1].name # None => output.result[1].name[1] = ServerName
    /\ output.result[1].transcript # None => True(output.result[1].transcript[1])

\* A presentation that was built and not tampered with verifies, names the
\* server and authenticates what was revealed and nothing else: the cover of
\* the query by committed ranges (transcript/proof.rs build) leaks no byte.
PresentationWorks ==
  (Deviates("none") /\ output.done /\ output.shown # None) =>
    /\ output.result # None
    /\ output.result[1].name = Some(ServerName)
    /\ output.result[1].transcript[1].authed = prover.query[1]

\* What Verifier.receive returns is part of the connection's transcript, and
\* Verifier.finalize names the server that was connected to, whatever the
\* prover has purported (verifier/src/verify.rs).
VerifiedIsTrue ==
  /\ verifier.partial # None => True(verifier.partial[1])
  /\ verifier.name # None => verifier.name[1] = ServerName

ModesAgree == session.prover = "notarize" <=> session.verifier = "notarize"

\* When both have chosen the same protocol after the connection was closed,
\* both come to an end: none waits for a message that the other does not send,
\* also when one of them fails on the way or the link breaks.
PartiesEnd == ModesAgree => <>(Ended(prover) /\ Ended(verifier))

Honest ==
  /\ Deviates("none") /\ ModesAgree /\ config_valid(session.config)
  /\ RecordsFit(Padded(session.config.max_recv_data), DataRecords(session.records["Received"]))
  /\ session.prover = "notarize" =>
       /\ session.request.hash_alg \in NotaryConfig.hash_algs \intersect HashAlgs
       /\ session.request.signature_alg \in NotaryConfig.signature_algs
       /\ session.request.extensions = <<>>
\* The prover has committed to empty ranges only.
EmptyTree == prover.result = "Panic" /\ prover.encodings # None /\ prover.request = None

\* Two parties that keep to the protocol, with a configuration and a request
\* the verifier supports, both succeed unless the link breaks: the checks of
\* one never refuse what the code of the other has made, for any records,
\* commitments and ranges to prove.
HonestSucceeds ==
  Honest => <>(~net.up \/ EmptyTree \/ (prover.result = "Ok" /\ verifier.result = "Ok"))
===============================================================================
