------------------------------ MODULE TlsClient ------------------------------
(***************************************************************************)
(* The TLS client (tlsn/crates/tls/client): ConnectionCommon and           *)
(* CommonState of conn.rs with the handshake states of client/hs.rs,       *)
(* client/tls12.rs and client/tls13.rs, the sequence numbers of            *)
(* record_layer.rs, the buffers of vecbuf.rs and the handshake hash of     *)
(* hash_hs.rs, over a backend that does the cryptography.                  *)
(*                                                                         *)
(* A handler is a script: the checks, backend calls, emitted messages and  *)
(* assignments of its code, in their order.  One step of Next runs one step*)
(* of the script, which ends the handler at the first one that fails.      *)
(* A received message carries the defects a handler looks for (flaws) and  *)
(* the options it reacts to (opts); its bytes are left out.                *)
(*                                                                         *)
(* `process_new_packets' borrows the connection for its whole duration, so *)
(* no other call happens before it returns: pc tells where it is.          *)
(*                                                                         *)
(* tls13.rs runs only when the configuration has a suite of TLS 1.3 and the*)
(* backend accepts the version.  It never starts the record layer, and the *)
(* model follows it: builds with debug assertions stop there.              *)
(***************************************************************************)
EXTENDS Naturals, Sequences, FiniteSets

CONSTANTS
  Versions,        \* versions the configuration has enabled with a suite
  BackendVersions, \* versions set_protocol_version of the backend accepts
  HasCerts,        \* whether the resolver of client certificates has one
  Records,         \* records of an ordinary peer
  OddRecords,      \* records the peer sends more rarely
  BackendFails,    \* whether calls of the backend may fail
  BufferLimit,     \* DEFAULT_BUFFER_LIMIT, in chunks
  SoftLimit,       \* SEQ_SOFT_LIMIT
  HardLimit,       \* SEQ_HARD_LIMIT
  MaxFrames,       \* bound: records read before they are processed
  MaxRecords,      \* bound: records the peer sends
  MaxOdd,          \* bound: those of them that are in OddRecords
  MaxChunks        \* bound: chunks the application writes

ASSUME ClientAssumption ==
  /\ Versions \subseteq {"TLSv1_2", "TLSv1_3"} /\ Versions # {}
  /\ {HasCerts, BackendFails} \subseteq BOOLEAN
  /\ {BufferLimit, SoftLimit, HardLimit, MaxFrames, MaxRecords, MaxOdd, MaxChunks} \subseteq Nat
  /\ SoftLimit < HardLimit

\* A message carries the defects that the handlers of its kind look for: Defects are those that an
\* authenticated server does not have.  The sentinel is one only where TLS 1.3 was on offer.
Defects == {"downgrade", "noCertificate", "certificate", "kxAlgorithm", "kxSignature",
            "verifySignature", "verifyData"}
DefectsOf(m) ==
  CASE m.kind = "ServerHello" ->
         IF m.ver = "TLSv1_2" /\ "TLSv1_3" \in Versions THEN {"downgrade"} ELSE {}
    [] m.kind = "Certificate" -> {"noCertificate", "certificate"}
    [] m.kind = "ServerKeyExchange" -> {"kxAlgorithm", "kxSignature"}
    [] m.kind = "CertificateVerify" -> {"verifySignature"}
    [] m.kind = "Finished" -> {"verifyData"}
    [] OTHER -> {}

IsHandshake(m) == m.kind \notin {"ChangeCipherSpec", "ApplicationData", "Alert"}
Messages ==
  {m \in [kind : STRING, ver : STRING, opts : SUBSET STRING, flaws : SUBSET STRING] :
     m.flaws \intersect Defects \subseteq DefectsOf(m)}

\* The type of a record is that of what it holds
ASSUME RecordsAssumption ==
  \A r \in Records \union OddRecords :
    /\ r \in [typ : {"Handshake", "ChangeCipherSpec", "Alert", "ApplicationData"},
              msgs : Seq(Messages), rest : BOOLEAN, prot : BOOLEAN, valid : BOOLEAN]
    /\ r.typ = "Handshake" => \A i \in DOMAIN r.msgs : IsHandshake(r.msgs[i])
    /\ r.typ # "Handshake" => r.msgs # <<>> /\ r.msgs[1].kind = r.typ

VARIABLES
  state,       \* name of the handshake state, "Error" once it is an Err
  error,       \* the error kept in its place, "none" while there is none
  returned,    \* error the last call returned
  pc,          \* where process_new_packets is, "idle" outside of it
  script,      \* rest of the running handler
  msg,         \* message it handles
  hs,          \* fields the handshake states hand on to each other
  common,      \* fields of CommonState
  rl,          \* record_layer.rs: states of the directions, sequence numbers
  be,          \* backend: calls made, queues of records
  frames,      \* records of the deframer
  joiner,      \* messages of the joiner
  transcript,  \* messages hashed
  hslog,       \* handshake messages in the order they were exchanged
  plain,       \* sendable_plaintext, received_plaintext
  tls,         \* all that sendable_tls was given for write_tls to take
  env          \* records the peer sent, chunks the application wrote

vars == <<state, error, returned, pc, script, msg, hs, common, rl, be, frames, joiner, transcript,
          hslog, plain, tls, env>>
coreVars == <<state, error, returned, pc>>
hsVars == <<msg, hs, transcript, hslog>>
inVars == <<frames, joiner>>
outVars == <<rl, be, tls>>

NoMsg == [kind |-> "none", ver |-> "none", opts |-> {}, flaws |-> {}]

Init ==
  /\ state = "Initialized" /\ error = "none" /\ returned = "none"
  /\ pc = "idle" /\ script = <<>> /\ msg = NoMsg
  /\ hs = [opts |-> {}, auth |-> "none", authBuf |-> HasCerts, retried |-> FALSE,
           fakeCcs |-> FALSE, flaws |-> {}]
  /\ common = [version |-> "none", aligned |-> TRUE, may_send |-> FALSE, may_receive |-> FALSE,
               fatal |-> 0, close_notify |-> FALSE, eof |-> FALSE, ccs |-> 0, desynced |-> FALSE]
  /\ rl = [enc |-> "Invalid", dec |-> "Invalid", write_seq |-> 0, read_seq |-> 0]
  /\ be = [calls |-> {}, early |-> FALSE, inEnc |-> <<>>, inPlain |-> <<>>, outPlain |-> <<>>,
           outEnc |-> <<>>]
  /\ frames = <<>> /\ joiner = <<>> /\ transcript = <<>> /\ hslog = <<>>
  /\ plain = [sendable |-> <<>>, received |-> <<>>] /\ tls = <<>>
  /\ env = [sent |-> 0, odd |-> 0, wrote |-> 0]

-----------------------------------------------------------------------------
(* Steps of a handler *)

Step(op, arg, alert) == [op |-> op, arg |-> arg, alert |-> alert]
Check(flaw, alert) == Step("check", flaw, alert)  \* fails if the peer sent this defect
Refuse(flaw) == Step("check", flaw, "none")       \* the same, without an alert
Fail(alert) == Step("fail", alert, alert)
Alert(desc) == Step("alert", desc, desc)          \* send_fatal_alert, and go on
Aligned == Step("aligned", "", "UnexpectedMessage")
Call(method) == Step("call", method, "none")      \* call of the backend
Hash == Step("hash", "", "none")                  \* transcript.add_message of the message
Emit(kind) == Step("emit", kind, "none")
Encrypt(kind) == Step("encrypt", kind, "none")
Do(what) == Step("do", what, "none")
Goto(next) == Step("goto", next, "none")

If(condition, steps) == IF condition THEN steps ELSE <<>>

\* send_cert_error_alert: the alert depends on the kind of the error
CertError(flaw) == Check(flaw, "BadCertificate")

\* emit_client_hello_for_retry
ClientHello(retry) ==
  If(retry, <<Do("fakeCcs")>>)
    \o <<Emit("ClientHello"), Goto(IF "TLSv1_3" \in Versions /\ ~retry
                                   THEN "ServerHelloOrRetry" ELSE "ServerHello")>>

start_handshake ==
  If("TLSv1_3" \in Versions, <<Call("get_client_key_share")>>)
    \o <<Call("get_client_random")>> \o ClientHello(FALSE)

\* process_alpn_protocol
Alpn == <<Check("alpn", "IllegalParameter")>>

\* tls12.rs, handle_server_hello; the sentinel counts only if 1.3 was on offer
ServerHello12(m) ==
  If("TLSv1_3" \in Versions, <<Check("downgrade", "IllegalParameter")>>)
    \o <<Refuse("sct"), Do("opts"), Goto("Certificate")>>

\* tls13.rs, handle_server_hello with validate_server_hello
ServerHello13 ==
  <<Check("cleartextExt", "UnsupportedExtension"), Check("noKeyShare", "MissingExtension"),
    Check("keyShareGroup", "IllegalParameter"), Call("set_server_key_share"), Aligned,
    Call("set_hs_hash_server_hello"), Call("set_decrypt"), Call("set_encrypt"), Do("fakeCcs"),
    Goto("EncryptedExtensions")>>

\* hs.rs, ExpectServerHello
ExpectServerHello(m) ==
  IF m.ver \notin Versions THEN <<Fail("ProtocolVersion")>>
  ELSE If(m.ver = "TLSv1_2", <<Check("v12ByExtension", "IllegalParameter")>>)
    \o <<Call("set_protocol_version"), Check("compression", "IllegalParameter"),
         Check("duplicateExt", "DecodeError"), Check("unsolicitedExt", "UnsupportedExtension"),
         Do("negotiate")>>
    \o If(m.ver = "TLSv1_2", Alpn)
    \o <<Check("pointFormat", "HandshakeFailure"), Check("suite", "HandshakeFailure"),
         Check("suiteVersion", "IllegalParameter")>>
    \o If(hs.retried, <<Check("suiteVaried", "IllegalParameter")>>)
    \o <<Call("set_cipher_suite"), Hash, Call("set_server_random")>>
    \o IF m.ver = "TLSv1_2" THEN ServerHello12(m) ELSE ServerHello13

\* hs.rs, handle_hello_retry_request
HelloRetryRequest ==
  <<Aligned, Check("ourGroup", "IllegalParameter"), Check("emptyCookie", "IllegalParameter"),
    Check("unknownExt", "UnsupportedExtension"), Check("duplicateHrrExt", "IllegalParameter"),
    Check("noChange", "IllegalParameter"), Check("hrrVersion", "IllegalParameter"),
    Do("retryVersion"), Check("hrrSuite", "IllegalParameter"), Do("retried"),
    Check("hrrGroup", "IllegalParameter")>> \o ClientHello(TRUE)

\* conn.rs, start_traffic and start_outgoing_traffic
start_traffic == <<Do("may_receive"), Call("start_traffic"), Do("flush_plaintext")>>

-----------------------------------------------------------------------------
(* tls12.rs *)

ExpectCertificate(m) ==
  <<Hash>> \o IF "status" \in hs.opts THEN <<Goto("StatusOrKx")>>
              ELSE <<Call("set_server_cert_details"), Goto("ServerKx")>>

ExpectCertificateStatus == <<Hash, Call("set_server_cert_details"), Goto("ServerKx")>>

ExpectServerKx == <<Hash, Check("undecodedKx", "DecodeError"), Goto("DoneOrCertReq")>>

\* Mutant: a server that leaves out the status leaves the backend without its certificate
ExpectCertificateStatusOrServerKx_NoCert(m) ==
  IF m.kind = "CertificateStatus" THEN ExpectCertificateStatus ELSE ExpectServerKx

ExpectCertificateStatusOrServerKx(m) ==
  IF m.kind = "CertificateStatus" THEN ExpectCertificateStatus
  ELSE <<Call("set_server_cert_details")>> \o ExpectServerKx

\* ClientAuthDetails::resolve
ExpectCertificateRequest == <<Hash, Do("auth"), Goto("ServerDone")>>

\* Mutant: the signature over the key share is not verified
VerifyServer_NoSignature ==
  <<Hash, Aligned, Refuse("noCertificate"), CertError("certificate"), Refuse("kxAlgorithm")>>

\* The checks of ExpectServerDone: certificate, then signature of the parameters
VerifyServer ==
  <<Hash, Aligned, Refuse("noCertificate"), CertError("certificate"),
    Refuse("kxAlgorithm"), CertError("kxSignature")>>

\* What ExpectServerDone sends: the flight of the client, up to its Finished
ClientFlight ==
  If(hs.auth # "none", <<Emit("Certificate")>>)
    \o <<Check("undecodedParams", "DecodeError"), Call("get_client_key_share"), Refuse("group"),
         Emit("ClientKeyExchange"), Call("set_hs_hash_client_key_exchange")>>
    \o If(hs.auth = "verify", <<Do("certverify"), Emit("CertificateVerify")>>)
    \o <<Emit("ChangeCipherSpec"), Call("set_server_kx_details"), Call("set_server_key_share"),
         Call("prepare_encryption"), Do("start_encrypting"), Call("get_client_finished_vd"),
         Encrypt("Finished"),
         Goto(IF "ticket" \in hs.opts THEN "NewTicket" ELSE "Ccs")>>

ExpectServerDone(m) == VerifyServer \o ClientFlight

ExpectServerDoneOrCertReq(m) ==
  IF m.kind = "CertificateRequest" THEN ExpectCertificateRequest
  ELSE <<Do("abandon_client_auth")>> \o ExpectServerDone(m)

\* Mutant: the ticket is not hashed
ExpectNewTicket_Unhashed == <<Goto("Ccs")>>

ExpectNewTicket == <<Hash, Goto("Ccs")>>

ExpectCcs == <<Aligned, Do("start_decrypting"), Goto("Finished")>>

ExpectFinished ==
  <<Aligned, Call("get_server_finished_vd"), Check("verifyData", "DecryptError"), Hash>>
    \o start_traffic \o <<Goto("Traffic")>>

ExpectTraffic == <<Do("take_received_plaintext")>>

-----------------------------------------------------------------------------
(* tls13.rs.  A client never resumes, so early data stays disabled. *)

\* with validate_encrypted_extensions
ExpectEncryptedExtensions ==
  <<Hash, Check("duplicateEe", "DecodeError"), Check("unsolicitedEe", "UnsupportedExtension"),
    Check("inappropriateEe", "UnsupportedExtension")>> \o Alpn
    \o <<Refuse("earlyData"), Goto("CertOrCertReq13")>>

ExpectCertificate13 ==
  <<Hash, Check("context", "DecodeError"), Check("certExt", "UnsupportedExtension"),
    Refuse("sct"), Goto("CertificateVerify13")>>

ExpectCertificateRequest13 ==
  <<Hash, Check("reqContext", "DecodeError"), Check("reqSchemes", "HandshakeFailure"), Do("auth"),
    Goto("Certificate13")>>

ExpectCertificateOrCertReq13(m) ==
  IF m.kind = "Certificate" THEN ExpectCertificate13 ELSE ExpectCertificateRequest13

ExpectCertificateVerify13 ==
  <<Refuse("noCertificate"), CertError("certificate"), CertError("verifySignature"), Hash,
    Goto("Finished13")>>

\* with emit_certificate_tls13, emit_certverify_tls13 and emit_finished_tls13
ExpectFinished13 ==
  <<Call("get_server_finished_vd"), Check("verifyData", "DecryptError"), Hash>>
    \o If(hs.auth # "none", <<Encrypt("Certificate")>>)
    \o If(hs.auth = "verify", <<Encrypt("CertificateVerify")>>)
    \o <<Call("get_client_finished_vd"), Encrypt("Finished"), Aligned, Call("set_encrypt"),
         Call("set_decrypt")>> \o start_traffic \o <<Goto("Traffic13")>>

\* Tickets are checked and dropped; a key update is refused
ExpectTraffic13(m) ==
  IF m.kind = "ApplicationData" THEN ExpectTraffic
  ELSE IF m.kind = "NewSessionTicket" THEN <<Check("duplicateNst", "IllegalParameter")>>
  ELSE <<Aligned, Fail("InternalError")>>

-----------------------------------------------------------------------------
\* The messages a state takes; require_handshake_msg! and inappropriate_message refuse others
Expects(s) ==
  [ServerHello |-> {"ServerHello"}, ServerHelloOrRetry |-> {"ServerHello", "HelloRetryRequest"},
   Certificate |-> {"Certificate"}, StatusOrKx |-> {"CertificateStatus", "ServerKeyExchange"},
   ServerKx |-> {"ServerKeyExchange"}, DoneOrCertReq |-> {"CertificateRequest", "ServerHelloDone"},
   ServerDone |-> {"ServerHelloDone"}, NewTicket |-> {"NewSessionTicket"},
   Ccs |-> {"ChangeCipherSpec"}, Finished |-> {"Finished"}, Traffic |-> {"ApplicationData"},
   EncryptedExtensions |-> {"EncryptedExtensions"},
   CertOrCertReq13 |-> {"Certificate", "CertificateRequest"}, Certificate13 |-> {"Certificate"},
   CertificateVerify13 |-> {"CertificateVerify"}, Finished13 |-> {"Finished"},
   Traffic13 |-> {"ApplicationData", "NewSessionTicket", "KeyUpdate"}][s]

Handler(s, m) ==
  CASE m.kind = "HelloRetryRequest" -> HelloRetryRequest
    [] m.kind = "ServerHello" -> ExpectServerHello(m)
    [] s = "Certificate" -> ExpectCertificate(m)
    [] s = "StatusOrKx" -> ExpectCertificateStatusOrServerKx(m)
    [] s = "ServerKx" -> ExpectServerKx
    [] s = "DoneOrCertReq" -> ExpectServerDoneOrCertReq(m)
    [] s = "ServerDone" -> ExpectServerDone(m)
    [] s = "NewTicket" -> ExpectNewTicket
    [] s = "Ccs" -> ExpectCcs
    [] s = "Finished" -> ExpectFinished
    [] s = "Traffic" -> ExpectTraffic
    [] s = "EncryptedExtensions" -> ExpectEncryptedExtensions
    [] s = "CertOrCertReq13" -> ExpectCertificateOrCertReq13(m)
    [] s = "Certificate13" -> ExpectCertificate13
    [] s = "CertificateVerify13" -> ExpectCertificateVerify13
    [] s = "Finished13" -> ExpectFinished13
    [] s = "Traffic13" -> ExpectTraffic13(m)

\* conn.rs, process_alert: an alert of unknown level is answered, and then read all the same
process_alert(m) ==
  If("unknown" \in m.opts, <<Alert("IllegalParameter")>>)
    \o IF "close_notify" \in m.opts THEN <<Do("close_notify")>>
       ELSE IF "warning" \in m.opts
               /\ (common.version # "TLSv1_3" \/ "user_canceled" \in m.opts) THEN <<>>
       ELSE If("warning" \in m.opts, <<Alert("DecodeError")>>) \o <<Fail("none")>>

\* conn.rs, process_main_protocol, with the errors of check.rs
process_main_protocol(m) ==
  IF common.may_receive /\ common.version # "TLSv1_3" /\ m.kind = "HelloRequest"
  THEN <<Step("warn", "NoRenegotiation", "none")>>
  ELSE IF m.kind \in Expects(state) THEN Handler(state, m)
  ELSE <<Fail("UnexpectedMessage")>>

-----------------------------------------------------------------------------
(* Sending *)

Item(kind, n, enc) == [kind |-> kind, n |-> n, enc |-> enc]
DataItems(chunks) == [i \in DOMAIN chunks |-> Item("ApplicationData", chunks[i], TRUE)]
Least(a, b) == IF a < b THEN a ELSE b

\* send_single_fragment, for each of the items: the backend takes those that find a sequence number
Fit(items) == Least(Len(items), IF rl.write_seq < HardLimit THEN HardLimit - rl.write_seq ELSE 0)
Pushed(items) ==
  /\ be' = [be EXCEPT !.outPlain = @ \o SubSeq(items, 1, Fit(items))]
  /\ rl' = [rl EXCEPT !.write_seq = @ + Fit(items)]

\* send_msg_encrypt: at the soft limit close_notify goes first
EncryptItems(kind) ==
  IF rl.write_seq = SoftLimit THEN <<Item("close_notify", 0, TRUE), Item(kind, 0, TRUE)>>
  ELSE <<Item(kind, 0, TRUE)>>

\* send_msg(m, must_encrypt)
send_msg(kind, must_encrypt) ==
  IF must_encrypt THEN Pushed(EncryptItems(kind)) /\ UNCHANGED tls
  ELSE tls' = Append(tls, Item(kind, 0, FALSE)) /\ UNCHANGED <<rl, be>>
Sends(kind, must_encrypt) == must_encrypt => Fit(EncryptItems(kind)) = Len(EncryptItems(kind))

IsEncrypting == rl.enc = "Active"

\* Mutant: alerts are always sent in the clear
send_fatal_alert_Clear(alert) ==
  /\ send_msg("Alert", FALSE)
  /\ common' = [common EXCEPT !.fatal = @ + 1]

\* send_fatal_alert
send_fatal_alert(alert) ==
  /\ send_msg("Alert", IsEncrypting)
  /\ common' = IF Sends("Alert", IsEncrypting) THEN [common EXCEPT !.fatal = @ + 1] ELSE common

\* An error of a handler: it is kept in place of the state
Failed(e) ==
  /\ state' = "Error" /\ error' = e /\ returned' = IF pc = "start" THEN "none" ELSE e
  /\ pc' = "idle" /\ script' = <<>>
  /\ UNCHANGED <<hsVars, inVars, plain, env>>

\* An error that `?' hands up from process_new_packets, whose state is out of its place
Returned(e) ==
  /\ state' = "Error" /\ error' = "HandshakeNotComplete" /\ returned' = e
  /\ pc' = "idle" /\ script' = <<>>

-----------------------------------------------------------------------------
(* Running the handler *)

Running(op) == script # <<>> /\ Head(script).op = op
Arg == Head(script).arg
Continue == script' = Tail(script) /\ UNCHANGED <<coreVars, inVars, plain, env>>

Aborts(alert) ==
  /\ IF alert = "none" THEN UNCHANGED <<outVars, common>> ELSE send_fatal_alert(alert)
  /\ Failed("peer")

check ==
  /\ Running("check")
  /\ \/ Arg \in hs.flaws /\ Aborts(Head(script).alert)
     \/ Arg \notin hs.flaws /\ Continue /\ UNCHANGED <<hsVars, outVars, common>>

fail == Running("fail") /\ Aborts(Arg)

\* check_aligned_handshake
check_aligned_handshake ==
  /\ Running("aligned")
  /\ \/ ~common.aligned /\ Aborts("UnexpectedMessage")
     \/ common.aligned /\ Continue /\ UNCHANGED <<hsVars, outVars, common>>

\* A call of the backend, which may fail; what it has to be given before is in Needs
Needs(method) ==
  CASE method = "set_cipher_suite" -> {"set_protocol_version"}
    [] method = "set_server_key_share" ->
         {"get_client_key_share", "get_client_random", "set_server_random", "set_cipher_suite"}
    [] method = "prepare_encryption" ->
         {"set_server_cert_details", "set_server_kx_details", "set_server_key_share"}
    [] method \in {"get_client_finished_vd", "get_server_finished_vd"} -> {"set_server_key_share"}
    [] method = "start_traffic" -> {"get_client_finished_vd", "get_server_finished_vd"}
    [] OTHER -> {}

call_backend ==
  /\ Running("call")
  /\ be' = [be EXCEPT !.calls = @ \union {Arg}, !.early = @ \/ ~(Needs(Arg) \subseteq be.calls)]
  /\ \/ /\ BackendFails \/ (Arg = "set_protocol_version" /\ msg.ver \notin BackendVersions)
        /\ Failed("backend") /\ UNCHANGED <<rl, tls, common>>
     \/ /\ Arg = "set_protocol_version" => msg.ver \in BackendVersions
        /\ Continue /\ UNCHANGED <<hsVars, rl, tls, common>>

\* transcript.add_message
hash_message ==
  /\ Running("hash")
  /\ transcript' = Append(transcript, msg.kind)
  /\ Continue /\ UNCHANGED <<msg, hs, hslog, outVars, common>>

\* The emit_ functions, in the clear or not; what is sent is hashed first
emit ==
  /\ Running("emit") \/ Running("encrypt")
  /\ LET enc == Head(script).op = "encrypt"
         hashed(log) == IF Arg = "ChangeCipherSpec" THEN log ELSE Append(log, Arg)
     IN /\ send_msg(Arg, enc)
        /\ UNCHANGED common
        /\ \/ ~Sends(Arg, enc) /\ Failed("EncryptError")
           \/ /\ Sends(Arg, enc) /\ Continue
              /\ transcript' = hashed(transcript) /\ hslog' = hashed(hslog) /\ UNCHANGED <<msg, hs>>

\* Alerts that do not end the handler
send_alert ==
  /\ Running("alert") \/ Running("warn")
  /\ IF Head(script).op = "alert" THEN send_fatal_alert(Arg)
     ELSE send_msg("Alert", IsEncrypting) /\ UNCHANGED common
  /\ \/ ~Sends("Alert", IsEncrypting) /\ Failed("EncryptError")
     \/ Sends("Alert", IsEncrypting) /\ Continue /\ UNCHANGED hsVars

goto ==
  /\ Running("goto")
  /\ state' = Arg /\ script' = Tail(script)
  /\ UNCHANGED <<error, returned, pc, hsVars, inVars, outVars, common, plain, env>>

Doing(what) == Running("do") /\ Arg = what
Notes(field, value) ==
  /\ hs' = [hs EXCEPT ![field] = value]
  /\ Continue /\ UNCHANGED <<msg, transcript, hslog, outVars, common>>

\* Assignments to the fields of the handshake states
note ==
  \/ Doing("opts") /\ Notes("opts", msg.opts)
  \/ Doing("auth") /\ \E a \in {"empty"} \union (IF HasCerts THEN {"verify"} ELSE {}) : Notes("auth", a)
  \/ Doing("abandon_client_auth") /\ Notes("authBuf", FALSE)

\* negotiated_version, in the ServerHello or already in the HelloRetryRequest
negotiate ==
  /\ Doing("negotiate") \/ Doing("retryVersion")
  /\ common' = [common EXCEPT !.version = IF Arg = "negotiate" THEN msg.ver ELSE "TLSv1_3"]
  /\ Continue /\ UNCHANGED <<hsVars, outVars>>

\* into_hrr_buffer: the hash of the first hello takes its place
retry ==
  /\ Doing("retried")
  /\ hs' = [hs EXCEPT !.retried = TRUE]
  /\ transcript' = <<"message_hash", "HelloRetryRequest">>
  /\ Continue /\ UNCHANGED <<msg, hslog, outVars, common>>

emit_fake_ccs ==
  /\ Doing("fakeCcs")
  /\ hs' = [hs EXCEPT !.fakeCcs = TRUE]
  /\ tls' = IF hs.fakeCcs THEN tls ELSE Append(tls, Item("ChangeCipherSpec", 0, FALSE))
  /\ Continue /\ UNCHANGED <<msg, transcript, hslog, rl, be, common>>

\* emit_certverify signs the messages the transcript has kept
take_handshake_buf ==
  /\ Doing("certverify")
  /\ \/ ~hs.authBuf /\ Aborts("none")
     \/ hs.authBuf /\ Notes("authBuf", FALSE)

\* record_layer.rs: prepare_message_encrypter, prepare_message_decrypter and start_encrypting
start_encrypting ==
  /\ Doing("start_encrypting")
  /\ rl' = [enc |-> "Active", dec |-> "Prepared", write_seq |-> 0, read_seq |-> 0]
  /\ Continue /\ UNCHANGED <<hsVars, be, tls, common>>

start_decrypting ==
  /\ Doing("start_decrypting")
  /\ rl' = [rl EXCEPT !.dec = "Active"]
  /\ Continue /\ UNCHANGED <<hsVars, be, tls, common>>

may_receive ==
  /\ Doing("may_receive")
  /\ common' = [common EXCEPT !.may_receive = TRUE]
  /\ Continue /\ UNCHANGED <<hsVars, outVars>>

\* start_outgoing_traffic and flush_plaintext: what was written during the handshake
flush_plaintext ==
  /\ Doing("flush_plaintext")
  /\ LET items == DataItems(plain.sendable)
     IN /\ Pushed(items)
        /\ common' = [common EXCEPT !.may_send = TRUE]
        /\ UNCHANGED <<tls, hsVars, inVars, env>>
        /\ \/ /\ Fit(items) < Len(items)
              /\ plain' = [plain EXCEPT !.sendable = SubSeq(@, Fit(items) + 2, Len(@))]
              /\ state' = "Error" /\ error' = "EncryptError" /\ returned' = "EncryptError"
              /\ pc' = "idle" /\ script' = <<>>
           \/ /\ Fit(items) = Len(items)
              /\ plain' = [plain EXCEPT !.sendable = <<>>]
              /\ script' = Tail(script) /\ UNCHANGED coreVars

\* take_received_plaintext; the close_notify of process_alert
receive ==
  /\ \/ /\ Doing("take_received_plaintext")
        /\ plain' = [plain EXCEPT !.received = Append(@, msg.opts)]
        /\ UNCHANGED common
     \/ /\ Doing("close_notify")
        /\ common' = [common EXCEPT !.close_notify = TRUE]
        /\ UNCHANGED plain
  /\ script' = Tail(script) /\ UNCHANGED <<coreVars, inVars, env, hsVars, outVars>>

Handling ==
  \/ check \/ fail \/ check_aligned_handshake \/ call_backend \/ hash_message \/ emit
  \/ send_alert \/ goto \/ note \/ negotiate \/ retry \/ emit_fake_ccs \/ take_handshake_buf
  \/ start_encrypting \/ start_decrypting \/ may_receive \/ flush_plaintext \/ receive

-----------------------------------------------------------------------------
(* process_new_packets *)

Resting == pc = "idle" /\ state \notin {"Initialized", "Panic"}
\* Callers drop a connection that returned an error; they may still write what it has to send
Usable == Resting /\ state # "Error" /\ returned = "none"
Between(phase) == pc = phase /\ script = <<>> /\ joiner = <<>>

\* A connection in error returns it; a desynced deframer is an error
process_new_packets ==
  /\ Resting
  /\ \/ /\ state = "Error"
        /\ returned' = error
        /\ UNCHANGED <<state, error, pc, script, common>>
     \/ /\ Usable /\ common.desynced
        /\ Returned("CorruptMessage")
        /\ UNCHANGED common
     \/ /\ Usable /\ ~common.desynced
        /\ pc' = "opaque"
        /\ UNCHANGED <<state, error, returned, script, common>>
  /\ UNCHANGED <<hsVars, inVars, outVars, plain, env>>

\* The joiner's message goes to the state; hslog is the order of the conversation
next_handshake_message ==
  /\ pc # "idle" /\ script = <<>> /\ joiner # <<>>
  /\ LET m == Head(joiner)
     IN /\ script' = process_main_protocol(m)
        /\ msg' = m
        /\ hs' = IF m.kind \in Expects(state) THEN [hs EXCEPT !.flaws = @ \union m.flaws] ELSE hs
        /\ hslog' = Append(hslog, m.kind)
  /\ joiner' = Tail(joiner)
  /\ UNCHANGED <<coreVars, transcript, frames, outVars, common, plain, env>>

\* Message::try_from and take_message read what the record says, if it is not ciphertext
Readable(r) == r.valid /\ (r.prot => rl.dec = "Active")

\* process_incoming_plain
process_incoming_plain(r) ==
  \/ /\ r.typ = "Handshake" /\ Readable(r)
     /\ joiner' = r.msgs
     /\ common' = [common EXCEPT !.aligned = ~r.rest]
     /\ UNCHANGED <<script, msg>>
  \/ /\ r.typ = "Handshake" /\ ~Readable(r)
     /\ script' = <<Fail("DecodeError")>>
     /\ UNCHANGED <<msg, joiner, common>>
  \/ /\ r.typ # "Handshake"
     /\ LET m == [r.msgs[1] EXCEPT !.opts = @ \union (IF r.prot THEN {"prot"} ELSE {})]
        IN /\ msg' = m
           /\ script' = IF ~Readable(r) /\ r.typ # "ApplicationData" THEN <<Fail("none")>>
                        ELSE IF r.typ = "Alert" THEN process_alert(m)
                        ELSE process_main_protocol(m)
     /\ UNCHANGED <<joiner, common>>

\* decrypt_incoming of conn.rs and of record_layer.rs; at the soft limit close_notify is sent
decrypt_incoming(r) ==
  LET items == IF rl.read_seq = SoftLimit THEN EncryptItems("close_notify") ELSE <<>>
      ok == Fit(items) = Len(items)
  IN /\ rl' = [rl EXCEPT !.write_seq = @ + Fit(items), !.read_seq = IF ok THEN @ + 1 ELSE @]
     /\ be' = [be EXCEPT !.outPlain = @ \o SubSeq(items, 1, Fit(items)),
                         !.inEnc = IF ok THEN Append(@, r) ELSE @]
     /\ \/ ok /\ UNCHANGED <<coreVars, script>>
        \/ (~ok \/ BackendFails) /\ Returned("backend")

\* process_incoming_opaque: middlebox CCS of TLS 1.3, the backend, or the state itself
process_incoming_opaque ==
  /\ Between("opaque") /\ frames # <<>>
  /\ frames' = Tail(frames)
  /\ LET r == Head(frames)
         middlebox == r.typ = "ChangeCipherSpec" /\ ~common.may_receive /\ common.version = "TLSv1_3"
     IN \/ /\ middlebox /\ (~r.valid \/ common.ccs > 2)
           /\ send_fatal_alert("UnexpectedMessage") /\ Returned("PeerMisbehaved")
           /\ UNCHANGED <<msg, joiner>>
        \/ /\ middlebox /\ r.valid /\ common.ccs <= 2
           /\ common' = [common EXCEPT !.ccs = @ + 1]
           /\ UNCHANGED <<coreVars, script, msg, joiner, outVars>>
        \/ /\ ~middlebox /\ rl.dec = "Active"
           /\ decrypt_incoming(r)
           /\ UNCHANGED <<msg, joiner, common, tls>>
        \/ /\ ~middlebox /\ rl.dec # "Active"
           /\ process_incoming_plain(r)
           /\ UNCHANGED <<coreVars, outVars>>
  /\ UNCHANGED <<hs, transcript, hslog, plain, env>>

\* flush of the backend: records of the peer are opened up to the first that is not authentic, then
\* those of the client are sealed
Opens(r) == r.prot \/ r.typ = "ChangeCipherSpec"
flush ==
  LET bad == {i \in DOMAIN be.inEnc : ~Opens(be.inEnc[i])}
      n == CHOOSE i \in 0..Len(be.inEnc) : (\A j \in 1..i : j \notin bad) /\ (bad # {} => i + 1 \in bad)
                                            /\ (bad = {} => i = Len(be.inEnc))
  IN /\ be' = [be EXCEPT !.inPlain = @ \o SubSeq(be.inEnc, 1, n), !.inEnc = <<>>,
                         !.outPlain = IF bad = {} THEN <<>> ELSE @,
                         !.outEnc = IF bad = {} THEN @ \o be.outPlain ELSE @]
     /\ IF bad = {} THEN pc' = "incoming" /\ UNCHANGED <<state, error, returned, script>>
        ELSE Returned("DecryptError")

flush_packets ==
  /\ Between("opaque") /\ frames = <<>>
  /\ flush
  /\ UNCHANGED <<hsVars, inVars, rl, tls, common, plain, env>>

next_incoming ==
  /\ Between("incoming") /\ be.inPlain # <<>>
  /\ be' = [be EXCEPT !.inPlain = Tail(@)]
  /\ process_incoming_plain(Head(be.inPlain))
  /\ UNCHANGED <<coreVars, frames, hs, transcript, hslog, rl, tls, plain, env>>

\* next_outgoing and queue_tls_message, for all there is
Queued == tls \o be.outEnc
next_outgoing ==
  /\ Between("incoming") /\ be.inPlain = <<>>
  /\ tls' = Queued /\ be' = [be EXCEPT !.outEnc = <<>>]
  /\ pc' = "idle" /\ returned' = "none"
  /\ UNCHANGED <<state, error, script, hsVars, inVars, rl, common, plain, env>>

Processing ==
  \/ process_new_packets \/ next_handshake_message \/ process_incoming_opaque \/ flush_packets
  \/ next_incoming \/ next_outgoing

-----------------------------------------------------------------------------
(* Other calls of the connection *)

start ==
  /\ pc = "idle" /\ state = "Initialized"
  /\ pc' = "start" /\ script' = start_handshake
  /\ UNCHANGED <<state, error, returned, hsVars, inVars, outVars, common, plain, env>>

started ==
  /\ pc = "start" /\ script = <<>>
  /\ pc' = "idle"
  /\ UNCHANGED <<state, error, returned, script, hsVars, inVars, outVars, common, plain, env>>

\* read_tls: records, the end of the stream, or bytes that are no record
read_tls ==
  /\ Usable /\ ~common.eof /\ ~common.desynced
  /\ \/ /\ env.sent < MaxRecords /\ Len(frames) < MaxFrames
        /\ \E r \in Records \union OddRecords :
             LET odd == IF r \in OddRecords THEN 1 ELSE 0
             IN /\ env.odd + odd <= MaxOdd
                /\ frames' = Append(frames, r)
                /\ env' = [env EXCEPT !.sent = @ + 1, !.odd = @ + odd]
        /\ UNCHANGED common
     \/ common' = [common EXCEPT !.eof = TRUE] /\ UNCHANGED <<frames, env>>
     \/ common' = [common EXCEPT !.desynced = TRUE] /\ UNCHANGED <<frames, env>>
  /\ UNCHANGED <<coreVars, script, joiner, hsVars, outVars, plain>>

\* send_plain with a limit: before the handshake is over data is kept, then it goes to the backend
\* whenever write_tls has left space in sendable_tls
HasSpace == common.may_send \/ Len(plain.sendable) < BufferLimit

\* Mutant: data goes to the backend as soon as the client encrypts
send_some_plaintext_Early(n) ==
  IF IsEncrypting THEN Pushed(<<Item("ApplicationData", n, TRUE)>>) /\ UNCHANGED plain
  ELSE plain' = [plain EXCEPT !.sendable = Append(@, n)] /\ UNCHANGED <<rl, be>>

send_some_plaintext(n) ==
  IF common.may_send
  THEN Pushed(<<Item("ApplicationData", n, TRUE)>>) /\ UNCHANGED plain
  ELSE plain' = [plain EXCEPT !.sendable = Append(@, n)] /\ UNCHANGED <<rl, be>>

\* write_plaintext; perhaps_write_key_update of TLS 1.3 is not implemented
write_plaintext ==
  /\ Usable /\ env.wrote < MaxChunks
  /\ \/ /\ state = "Traffic13"
        /\ state' = "Panic"
        /\ UNCHANGED <<rl, be, plain, env, returned>>
     \/ /\ state # "Traffic13" /\ HasSpace
        /\ send_some_plaintext(env.wrote + 1)
        /\ env' = [env EXCEPT !.wrote = @ + 1]
        /\ returned' = IF common.may_send /\ rl.write_seq >= HardLimit THEN "EncryptError" ELSE "none"
        /\ UNCHANGED state
  /\ UNCHANGED <<error, pc, script, hsVars, inVars, tls, common>>

\* The end of write_all_plaintext: flush and next_outgoing after write_plaintext
flush_written ==
  /\ Usable
  /\ be.outPlain # <<>> /\ be.inEnc = <<>>
  /\ be' = [be EXCEPT !.outPlain = <<>>, !.outEnc = <<>>]
  /\ tls' = Queued \o be.outPlain
  /\ UNCHANGED <<coreVars, script, hsVars, inVars, rl, common, plain, env>>

read_plaintext ==
  /\ pc = "idle" /\ plain.received # <<>>
  /\ plain' = [plain EXCEPT !.received = <<>>]
  /\ UNCHANGED <<coreVars, script, hsVars, inVars, outVars, common, env>>

send_close_notify ==
  /\ Usable /\ state = "Traffic"
  /\ \A i \in DOMAIN be.outPlain : be.outPlain[i].kind # "close_notify"
  /\ \A i \in DOMAIN tls : tls[i].kind # "close_notify"
  /\ send_msg("close_notify", IsEncrypting)
  /\ UNCHANGED <<coreVars, script, hsVars, inVars, common, plain, env>>

Ended == pc = "idle" /\ (state \in {"Error", "Panic"} \/ returned # "none") /\ UNCHANGED vars

Next ==
  \/ Handling \/ Processing \/ start \/ started \/ read_tls \/ write_plaintext \/ flush_written
  \/ read_plaintext \/ send_close_notify \/ Ended

Spec == Init /\ [][Next]_vars

-----------------------------------------------------------------------------
(* Properties *)

(***************************************************************************)
(* Application data is exchanged only with an authenticated server: its    *)
(* certificate, the signature over its key share, and its Finished were    *)
(* good, although they are looked at states after they arrived; with TLS   *)
(* 1.2 every record of data that is delivered was protected.               *)
(***************************************************************************)
DataAuthenticated ==
  /\ common.may_send \/ plain.received # <<>> => hs.flaws \intersect Defects = {}
  /\ common.version = "TLSv1_2" =>
       \A i \in DOMAIN plain.received : "prot" \in plain.received[i]

(***************************************************************************)
(* When the backend derives a Finished or a secret from the handshake hash *)
(* that hash covers every message of the conversation once, in its order,  *)
(* with the first hello of a retried handshake replaced by its hash.       *)
(***************************************************************************)
Conversation(log) ==
  IF Len(log) > 1 /\ log[2] = "HelloRetryRequest"
  THEN <<"message_hash">> \o SubSeq(log, 2, Len(log)) ELSE log
TranscriptComplete ==
  (script # <<>> /\ Head(script).op = "call") =>
    CASE Arg = "get_server_finished_vd" -> transcript = Conversation(SubSeq(hslog, 1, Len(hslog) - 1))
      [] Arg \in {"get_client_finished_vd", "set_hs_hash_client_key_exchange",
                  "set_hs_hash_server_hello"} -> transcript = Conversation(hslog)
      [] OTHER -> TRUE

(***************************************************************************)
(* Once the client has started to encrypt nothing, alerts included, leaves *)
(* it in the clear behind its ChangeCipherSpec.                            *)
(***************************************************************************)
ProtectedAfterCcs ==
  rl.enc = "Active" =>
    \A i, j \in DOMAIN tls :
      (/\ i < j /\ tls[i].kind = "ChangeCipherSpec"
       /\ \A k \in (i + 1)..Len(tls) : tls[k].kind # "ChangeCipherSpec") => tls[j].enc

(***************************************************************************)
(* What the application wrote is, on a connection without an error, once   *)
(* and in its order in the buffers between sendable_plaintext and          *)
(* sendable_tls, whether it was written before or after the handshake      *)
(* ended.                                                                  *)
(***************************************************************************)
Line == tls \o be.outEnc \o be.outPlain \o DataItems(plain.sendable)
DataAt(line) == {i \in DOMAIN line : line[i].kind = "ApplicationData"}
InOrder(line, n) ==
  /\ {line[i].n : i \in DataAt(line)} = 1 .. n
  /\ \A i, j \in DataAt(line) : i < j => line[i].n < line[j].n
DataInOrder == state # "Error" /\ returned = "none" => InOrder(Line, env.wrote)

(***************************************************************************)
(* No call reaches the backend before the calls that give it what this one *)
(* needs, on no path through the optional messages of a handshake.         *)
(***************************************************************************)
BackendReady == ~be.early
=============================================================================
