---------------------------- MODULE MCTlsClient ----------------------------
(***************************************************************************)
(* Instances of TlsClient for TLC: the records a peer may send.            *)
(***************************************************************************)
EXTENDS TlsClient

M(kind, ver, opts, flaws) == [kind |-> kind, ver |-> ver, opts |-> opts, flaws |-> flaws]
Good(kind) == M(kind, "none", {}, {})
Flawed(kind, flaws) == {M(kind, "none", {}, {f}) : f \in flaws}

R(typ, msgs, rest, prot, valid) ==
  [typ |-> typ, msgs |-> msgs, rest |-> rest, prot |-> prot, valid |-> valid]
Clear(m) == R("Handshake", <<m>>, FALSE, FALSE, TRUE)

ServerHellos ==
  {M("ServerHello", "TLSv1_2", o, {}) : o \in {{}, {"status"}, {"ticket"}}}
    \union {M("ServerHello", "TLSv1_3", {}, {})}
FlawedHellos ==
  {M("ServerHello", "TLSv1_2", {}, {f}) :
     f \in {"v12ByExtension", "compression", "unsolicitedExt", "suite", "downgrade", "sct"}}
    \union {M("ServerHello", "TLSv1_3", {}, {f}) :
              f \in {"noKeyShare", "keyShareGroup", "suiteVaried"}}

\* Messages without a flaw
GoodMessages ==
  ServerHellos
    \union {Good(k) : k \in {"HelloRetryRequest", "Certificate", "CertificateStatus",
                             "ServerKeyExchange", "CertificateRequest", "ServerHelloDone",
                             "NewSessionTicket", "Finished", "EncryptedExtensions",
                             "CertificateVerify"}}

\* One defect of each kind of check: with an alert or without, early or several states later
OddMessages ==
  FlawedHellos \union Flawed("HelloRetryRequest", {"noChange", "hrrGroup"})
    \union Flawed("Certificate", {"noCertificate", "certificate", "context"})
    \union Flawed("ServerKeyExchange", {"undecodedKx", "kxAlgorithm", "kxSignature", "group"})
    \union Flawed("CertificateRequest", {"reqSchemes"})
    \union Flawed("EncryptedExtensions", {"duplicateEe", "earlyData"})
    \union Flawed("CertificateVerify", {"verifySignature"})
    \union Flawed("Finished", {"verifyData"})
    \union Flawed("NewSessionTicket", {"duplicateNst"})
    \union {Good("KeyUpdate"), Good("HelloRequest"), M("ServerHello", "TLSv1_1", {}, {})}

\* Messages that share a record, whole or with the beginning of another one
Coalesced ==
  {R("Handshake", <<Good("ServerKeyExchange"), Good("ServerHelloDone")>>, FALSE, FALSE, TRUE),
   R("Handshake", <<Good("ServerHelloDone")>>, TRUE, FALSE, TRUE),
   R("Handshake", <<Good("NewSessionTicket")>>, TRUE, FALSE, TRUE),
   R("Handshake", <<Good("Finished")>>, TRUE, TRUE, TRUE),
   R("Handshake", <<Good("Certificate")>>, FALSE, FALSE, FALSE)}

Alerts ==
  {R("Alert", <<M("Alert", "none", o, {})>>, FALSE, p, TRUE) :
     o \in {{"warning", "close_notify"}, {"warning", "other"}, {"fatal", "other"},
            {"unknown", "close_notify"}},
     p \in BOOLEAN}

CCS(valid) == R("ChangeCipherSpec", <<Good("ChangeCipherSpec")>>, FALSE, FALSE, valid)
Data(prot) == R("ApplicationData", <<Good("ApplicationData")>>, FALSE, prot, TRUE)
Protected(m) == R("Handshake", <<m>>, FALSE, TRUE, TRUE)

PeerRecords ==
  {Clear(m) : m \in GoodMessages} \union {CCS(TRUE), Data(TRUE), Protected(Good("Finished"))}

PeerOddRecords ==
  {Clear(m) : m \in OddMessages} \union Coalesced \union Alerts \union {CCS(FALSE), Data(FALSE)}
    \union {Protected(m) : m \in {Good("HelloRequest")} \union Flawed("Finished", {"verifyData"})}
=============================================================================
