----------------------------- MODULE TlsMessages -----------------------------
(***************************************************************************)
(* The messages of TLS (tls/core/src/msgs/handshake.rs, alert.rs, ccs.rs   *)
(* and the enums they are made of), as grammars.                           *)
(*                                                                         *)
(* An enum reads every ordinal, Unknown included, and writes it back, so   *)
(* its grammar is an integer.  The getters of the payloads only look at    *)
(* what was read.                                                          *)
(***************************************************************************)
EXTENDS Codec, TLC

CONSTANTS
  RandomLen,     \* length of Random, 32 in the code
  SessionMax,    \* longest SessionID, 32 in the code
  CertBytesMax   \* most bytes of a list of certificates, 0x10000 in the code

ASSUME MessagesAssumption == RandomLen \in Nat \ {0} /\ {SessionMax, CertBytesMax} \subseteq Nat

-----------------------------------------------------------------------------
(* Enums *)

ProtocolVersion == U(2)
TLSv1_2 == 771
TLSv1_3 == 772
KnownVersions == {512} \cup 768..772 \cup {65276, 65277, 65279}   \* SSLv2 to TLSv1_3, and DTLS
ClientCertificateType == U(1)
Compression == U(1)
ContentType == [ChangeCipherSpec |-> 20, Alert |-> 21, Handshake |-> 22, ApplicationData |-> 23,
                Heartbeat |-> 24]
HandshakeType ==
  [HelloRequest |-> 0, ClientHello |-> 1, ServerHello |-> 2, NewSessionTicket |-> 4,
   EndOfEarlyData |-> 5, HelloRetryRequest |-> 6, EncryptedExtensions |-> 8, Certificate |-> 11,
   ServerKeyExchange |-> 12, CertificateRequest |-> 13, ServerHelloDone |-> 14,
   CertificateVerify |-> 15, ClientKeyExchange |-> 16, Finished |-> 20, CertificateStatus |-> 22,
   KeyUpdate |-> 24, MessageHash |-> 254]
AlertLevel == U(1)
AlertDescription == U(1)
ExtensionType ==
  [ServerName |-> 0, StatusRequest |-> 5, EllipticCurves |-> 10, ECPointFormats |-> 11,
   SignatureAlgorithms |-> 13, ALProtocolNegotiation |-> 16, SCT |-> 18,
   ExtendedMasterSecret |-> 23, SessionTicket |-> 35, PreSharedKey |-> 41, EarlyData |-> 42,
   SupportedVersions |-> 43, Cookie |-> 44, PSKKeyExchangeModes |-> 45,
   CertificateAuthorities |-> 47, KeyShare |-> 51, TransportParameters |-> 57,
   RenegotiationInfo |-> 65281, TransportParametersDraft |-> 65445]
ServerNameType == [HostName |-> 0]
NamedGroup == U(2)
CipherSuite == U(2)
ECPointFormat == U(1)
ECCurveType == [NamedCurve |-> 3]
SignatureScheme == U(2)
PSKKeyExchangeMode == U(1)
KeyUpdateRequest == U(1)
CertificateStatusType == [OCSP |-> 1]

-----------------------------------------------------------------------------
(* Parts *)

Random == Fixed(RandomLen)
HELLO_RETRY_REQUEST_RANDOM == [i \in 1..RandomLen |-> 207]
SessionID == UpTo(SessionMax)

\* UnknownExtension is the Payload a type without a case has
Extension(cases) == Tagged(2, 2, cases)

VecU16OfPayloadU8 == Vec(2, Bytes(1))
VecU16OfPayloadU16 == Vec(2, Bytes(2))
ECPointFormatList == Vec(1, ECPointFormat)
NamedGroups == Vec(2, NamedGroup)
SupportedSignatureSchemes == Vec(2, SignatureScheme)
ServerName == Typed(1, ServerNameType.HostName :> Name(2))
ServerNameRequest == Vec(2, ServerName)
ProtocolNameList == VecU16OfPayloadU8
KeyShareEntry == Struct(<<NamedGroup, Bytes(2)>>)
PresharedKeyIdentity == Struct(<<Bytes(2), Fixed(4)>>)
PresharedKeyOffer == Struct(<<Vec(2, PresharedKeyIdentity), VecU16OfPayloadU8>>)
OCSPCertificateStatusRequest == Struct(<<VecU16OfPayloadU16, Bytes(2)>>)
CertificateStatusRequest == Typed(1, CertificateStatusType.OCSP :> OCSPCertificateStatusRequest)
SCTList == VecU16OfPayloadU16
Empty == Struct(<<>>)

\* Requests without contents are unknown extensions when they have some: Rest stands for both
ClientExtension ==
  LET T == ExtensionType
  IN  Extension(T.ECPointFormats :> ECPointFormatList
                  @@ T.EllipticCurves :> NamedGroups
                  @@ T.SignatureAlgorithms :> SupportedSignatureSchemes
                  @@ T.ServerName :> ServerNameRequest
                  @@ T.ALProtocolNegotiation :> ProtocolNameList
                  @@ T.SupportedVersions :> Vec(1, ProtocolVersion)
                  @@ T.KeyShare :> Vec(2, KeyShareEntry)
                  @@ T.PSKKeyExchangeModes :> Vec(1, PSKKeyExchangeMode)
                  @@ T.PreSharedKey :> PresharedKeyOffer
                  @@ T.Cookie :> Bytes(2)
                  @@ T.StatusRequest :> CertificateStatusRequest)

ServerExtension ==
  LET T == ExtensionType
  IN  Extension(T.ECPointFormats :> ECPointFormatList
                  @@ T.ServerName :> Empty @@ T.SessionTicket :> Empty @@ T.StatusRequest :> Empty
                  @@ T.ExtendedMasterSecret :> Empty @@ T.EarlyData :> Empty
                  @@ T.RenegotiationInfo :> Bytes(1)
                  @@ T.ALProtocolNegotiation :> ProtocolNameList
                  @@ T.KeyShare :> KeyShareEntry
                  @@ T.PreSharedKey :> U(2)
                  @@ T.SCT :> SCTList
                  @@ T.SupportedVersions :> ProtocolVersion)

HelloRetryExtension ==
  Extension(ExtensionType.KeyShare :> NamedGroup @@ ExtensionType.Cookie :> Bytes(2)
              @@ ExtensionType.SupportedVersions :> ProtocolVersion)

-----------------------------------------------------------------------------
(* Messages of the handshake *)

\* Without extensions it is written without their list, which read does not accept
ClientHelloPayload ==
  Struct(<<ProtocolVersion, Random, SessionID, Vec(2, CipherSuite), Vec(1, Compression),
           NonEmpty(Vec(2, ClientExtension))>>)

HelloRetryRequest ==
  Struct(<<ProtocolVersion, Const(HELLO_RETRY_REQUEST_RANDOM), SessionID, CipherSuite,
           Const(<<0>>), Vec(2, HelloRetryExtension)>>)

ServerHelloPayload ==
  Struct(<<ProtocolVersion, Random, SessionID, CipherSuite, Compression,
           Vec(2, ServerExtension)>>)

ServerHelloOrRetry == Switch(2, HELLO_RETRY_REQUEST_RANDOM, HelloRetryRequest, ServerHelloPayload)

Certificate == Bytes(3)
CertificatePayload == Limited(Vec(3, Certificate), CertBytesMax)

CertificateStatus == Struct(<<Const(<<CertificateStatusType.OCSP>>), Bytes(3)>>)
CertificateExtension ==
  Extension(ExtensionType.StatusRequest :> CertificateStatus @@ ExtensionType.SCT :> SCTList)
CertificateEntry == Struct(<<Certificate, Vec(2, CertificateExtension)>>)
CertificatePayloadTLS13 == Struct(<<Bytes(1), Limited(Vec(3, CertificateEntry), CertBytesMax)>>)

ECParameters == Struct(<<Const(<<ECCurveType.NamedCurve>>), NamedGroup>>)
DigitallySignedStruct == Struct(<<SignatureScheme, Bytes(2)>>)
ServerECDHParams == Struct(<<ECParameters, Bytes(1)>>)
ECDHEServerKeyExchange == Struct(<<ServerECDHParams, DigitallySignedStruct>>)

\* Read as a Payload first; unwrap_given_kxa reads that, and all of it
ServerKeyExchangePayload == Rest
unwrap_given_kxa(payload) ==
  LET r == Read(ECDHEServerKeyExchange, payload) IN IF r.ok /\ r.rest = <<>> THEN r ELSE Fail

EncryptedExtensions == Vec(2, ServerExtension)
CertificateRequestPayload ==
  Struct(<<Vec(1, ClientCertificateType), NonEmpty(SupportedSignatureSchemes),
           VecU16OfPayloadU16>>)
CertReqExtension ==
  Extension(ExtensionType.SignatureAlgorithms :> NonEmpty(SupportedSignatureSchemes)
              @@ ExtensionType.CertificateAuthorities :> VecU16OfPayloadU16)
CertificateRequestPayloadTLS13 == Struct(<<Bytes(1), Vec(2, CertReqExtension)>>)
NewSessionTicketPayload == Struct(<<Fixed(4), Bytes(2)>>)
NewSessionTicketExtension == Extension(ExtensionType.EarlyData :> Fixed(4))
NewSessionTicketPayloadTLS13 ==
  Struct(<<Fixed(4), Fixed(4), Bytes(1), Bytes(2), Vec(2, NewSessionTicketExtension)>>)

HandshakeCases(vers) ==
  LET T == HandshakeType
      by13(new, old) == IF vers = TLSv1_3 THEN new ELSE old
  IN  T.ClientHello :> ClientHelloPayload @@ T.ServerHello :> ServerHelloOrRetry
        @@ T.Certificate :> by13(CertificatePayloadTLS13, CertificatePayload)
        @@ T.ServerKeyExchange :> ServerKeyExchangePayload
        @@ T.ServerHelloDone :> Empty
        @@ T.CertificateRequest :> by13(CertificateRequestPayloadTLS13, CertificateRequestPayload)
        @@ T.CertificateVerify :> DigitallySignedStruct
        @@ T.NewSessionTicket :> by13(NewSessionTicketPayloadTLS13, NewSessionTicketPayload)
        @@ T.EncryptedExtensions :> EncryptedExtensions
        @@ T.KeyUpdate :> KeyUpdateRequest
        @@ T.EndOfEarlyData :> Empty
        @@ T.CertificateStatus :> CertificateStatus
        @@ T.MessageHash :> Never @@ T.HelloRetryRequest :> Never

\* read_version; HelloRequest, ClientKeyExchange, Finished and unknown types are Payloads
HandshakeMessage12 == Tagged(1, 3, HandshakeCases(TLSv1_2))
HandshakeMessage13 == Tagged(1, 3, HandshakeCases(TLSv1_3))
HandshakeMessagePayload(vers) ==
  IF vers = TLSv1_3 THEN HandshakeMessage13 ELSE HandshakeMessage12

AlertMessagePayload == Struct(<<AlertLevel, AlertDescription>>)
ChangeCipherSpecPayload == Const(<<1>>)
=============================================================================
