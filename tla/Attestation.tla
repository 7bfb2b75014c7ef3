----------------------------- MODULE Attestation -----------------------------
(***************************************************************************)
(* Commitments to a transcript, the request for an attestation, the        *)
(* attestation and the presentations made from it: tlsn/crates/core/src.   *)
(*                                                                         *)
(* Hashes, signatures, encodings and Merkle roots are terms: two of them   *)
(* are equal only when they are of the same thing.  A provider is the set  *)
(* of hash algorithms, of signers and of signature verifiers it knows.     *)
(* Operators that fail in the code return None.                            *)
(***************************************************************************)
EXTENDS Transcript

CONSTANTS MaxCommitted \* MAX_TOTAL_COMMITTED_DATA

ASSUME AttestationAssumption == MaxCommitted \in Nat

-----------------------------------------------------------------------------
\* hash.rs, signing.rs, merkle.rs.

hash(alg, x) == [alg |-> alg, of |-> x]
Blinded(x, blinder) == [data |-> x, blinder |-> blinder]
\* hash_separated: the domain is the name of the hashed type.
hash_separated(alg, domain, x) == hash(alg, [domain |-> domain, x |-> x])

\* A signer signs with its own algorithm; secp256k1 and secp256k1eth have
\* keys of the same algorithm.
KeyAlg(sigAlg) == IF sigAlg = "SECP256R1" THEN "P256" ELSE "K256"
verifying_key(sigAlg, owner) == [alg |-> KeyAlg(sigAlg), owner |-> owner]
sign(sigAlg, owner, header) ==
  [alg |-> sigAlg, data |-> [key |-> verifying_key(sigAlg, owner), alg |-> sigAlg, header |-> header]]
signature_verify(key, header, signature) ==
  /\ key.alg = KeyAlg(signature.alg)
  /\ signature.data = [key |-> key, alg |-> signature.alg, header |-> header]

merkle_root(alg, leaves) == [alg |-> alg, leaves |-> leaves]
merkle_proof(leaves) == [leaf_count |-> Len(leaves)]
\* opened is a function from the numbers of leaves to their hashes.
merkle_verify(proof, root, opened) ==
  /\ proof.leaf_count = Len(root.leaves)
  /\ DOMAIN opened # {} /\ DOMAIN opened \subseteq 1..Len(root.leaves)
  /\ \A n \in DOMAIN opened : root.leaves[n] = opened[n]

-----------------------------------------------------------------------------
\* transcript/commit.rs: what the prover commits to.

Kinds == {"Encoding", "Hash"}
commit_with_kind(commits, t, d, idx, kind) ==
  IF end(idx) > Len(t[d]) THEN None ELSE Some(commits \union {[dir |-> d, idx |-> idx, kind |-> kind]})
has_encoding(commits) == \E c \in commits : c.kind = "Encoding"
\* The commits are in a HashSet and come in any order.
iter_encoding(commits) == {c \in commits : c.kind = "Encoding"}

-----------------------------------------------------------------------------
\* transcript/encoding: the encoder, the tree and its openings.

encode_subsequence(secret, d, seq) ==
  [n \in DOMAIN seq.data |-> [secret |-> secret, dir |-> d, pos |-> Positions(seq.idx)[n], byte |-> seq.data[n]]]

\* Provider of the encodings of all bytes.
provide_encoding(encodings, d, idx) ==
  IF end(idx) > Len(encodings[d]) THEN None ELSE Some(index_ranges(encodings[d], idx))

\* commits in the order in which they become leaves.
EncodingTree(alg, commits, encodings, lengths) ==
  LET used == SelectSeq(commits, LAMBDA c : c.idx # {})
      Encoding(n) == provide_encoding(encodings, used[n].dir, used[n].idx)
  IN  IF \/ \E n \in DOMAIN used : end(used[n].idx) > lengths[used[n].dir]
         \/ \E n \in DOMAIN used : Encoding(n) = None
      THEN None
      ELSE Some([alg |-> alg, idxs |-> used,
                 leaves |-> [n \in DOMAIN used |-> hash(alg, Blinded(Encoding(n)[1], n))]])
tree_idx(tree, d) == UNION {tree.idxs[n].idx : n \in {m \in DOMAIN tree.idxs : tree.idxs[m].dir = d}}

tree_proof(tree, t, chosen) ==
  [inclusion |-> merkle_proof(tree.leaves),
   openings |-> [n \in chosen |->
     [dir |-> tree.idxs[n].dir, seq |-> get(t, tree.idxs[n].dir, tree.idxs[n].idx)[1], blinder |-> n]]]

TotalOpened(lens) == FoldLeft(LAMBDA x, y : x + y, 0, lens)
OpeningLens(openings) == LET ids == SetToSeq(DOMAIN openings) IN [n \in DOMAIN ids |-> Len(openings[ids[n]].seq.data)]

encoding_proof_verify(provider, proof, lengths, commitment) ==
  LET o == proof.openings
      Leaf(n) == hash(commitment.root.alg,
                      Blinded(encode_subsequence(commitment.secret, o[n].dir, o[n].seq), o[n].blinder))
  IN  IF /\ commitment.root.alg \in provider.hash
         /\ TotalOpened(OpeningLens(o)) <= MaxCommitted
         /\ \A n \in DOMAIN o : end(o[n].seq.idx) <= lengths[o[n].dir]
         /\ merkle_verify(proof.inclusion, commitment.root, [n \in DOMAIN o |-> Leaf(n)])
      THEN Some(FoldSet(LAMBDA n, p : union_subsequence(p, o[n].dir, o[n].seq), EmptyPartial(lengths), DOMAIN o))
      ELSE None

-----------------------------------------------------------------------------
\* connection.rs, connection/commit.rs and connection/proof.rs.

ServerCertOpening(data, blinder) == Blinded(data, blinder)
cert_commit(alg, opening) == hash_separated(alg, "ServerCertOpening", opening)

\* WebPkiVerifier checks the chain, the name and the time.
verify_server_cert(cert, name, time) == cert.trusted /\ cert.name = name /\ time \in cert.validity

\* The end entity has signed the randoms and the ephemeral key.
verify_tls12_signature(randoms, key, cert, sig) == sig = [by |-> cert.id, randoms |-> randoms, key |-> key]

ServerCertData_verify(data, time, key, name) ==
  /\ data.handshake.key = key
  /\ data.certs # <<>>
  /\ verify_server_cert(data.certs[1], name, time)
  /\ verify_tls12_signature(data.handshake.randoms, key, data.certs[1], data.sig)

\* Mutant: the opening is not compared with the commitment.
identity_verify_Uncommitted(provider, proof, time, key, commitment) ==
  IF /\ commitment.alg \in provider.hash
     /\ ServerCertData_verify(proof.opening.data, time, key, proof.name)
  THEN Some(proof.name) ELSE None

identity_verify(provider, proof, time, key, commitment) ==
  IF /\ commitment.alg \in provider.hash
     /\ commitment = cert_commit(commitment.alg, proof.opening)
     /\ ServerCertData_verify(proof.opening.data, time, key, proof.name)
  THEN Some(proof.name) ELSE None

-----------------------------------------------------------------------------
\* request/builder.rs and request.rs.

\* The root of an empty tree panics; see RequestPanics.
RequestPanics(tree) == tree # None /\ tree[1].leaves = <<>>
Request(config, certData, tree) ==
  [signature_alg |-> config.signature_alg, hash_alg |-> config.hash_alg,
   cert |-> cert_commit(config.hash_alg, ServerCertOpening(certData, 0)),
   root |-> IF tree = None THEN None ELSE Some(merkle_root(tree[1].alg, tree[1].leaves)),
   extensions |-> config.extensions]
Secrets(name, certData, tree, t) ==
  [name |-> name, opening |-> ServerCertOpening(certData, 0), tree |-> tree, transcript |-> t]

validate(request, attestation) ==
  /\ attestation.signature.alg = request.signature_alg
  /\ attestation.header.root.alg = request.hash_alg
  /\ attestation.body.cert = request.cert
  /\ request.root # None => /\ attestation.body.encoding # None
                            /\ attestation.body.encoding[1].root = request.root[1]
  /\ \A n \in DOMAIN request.extensions : \E m \in DOMAIN attestation.body.extensions :
       attestation.body.extensions[m] = request.extensions[n]

-----------------------------------------------------------------------------
\* attestation.rs, attestation/config.rs, attestation/builder.rs and
\* attestation/proof.rs.

\* Without a validator of its own a notary takes no extensions.
default_extension_validator(extensions) == extensions = <<>>
accept_request(config, request) ==
  /\ request.signature_alg \in config.signature_algs
  /\ request.hash_alg \in config.hash_algs
  /\ request.root # None => "EncodingCommitment" \in config.fields
  /\ default_extension_validator(request.extensions)

\* Body.hash_fields: the field with id n is the leaf n + 1 of the root.
hash_fields(alg, body) ==
  LET Field(domain, x) == <<hash_separated(alg, domain, x)>>
      Each(domain, s) == [n \in DOMAIN s |-> hash_separated(alg, domain, s[n])]
  IN  Field("VerifyingKey", body.verifying_key) \o Field("ConnectionInfo", body.connection_info)
      \o Field("ServerEphemKey", body.server_ephemeral_key) \o Field("ServerCertCommitment", body.cert)
      \o Each("EncodingCommitment", body.encoding) \o Each("PlaintextHash", body.plaintext_hashes)
      \o Each("Extension", body.extensions)
Header(alg, body) == [version |-> 0, root |-> merkle_root(alg, hash_fields(alg, body))]

attestation_build(provider, request, info, key, secret) ==
  LET body == [verifying_key |-> verifying_key(request.signature_alg, provider.owner),
               connection_info |-> info, server_ephemeral_key |-> key, cert |-> request.cert,
               encoding |-> IF request.root = None THEN None
                            ELSE Some([root |-> request.root[1], secret |-> secret]),
               plaintext_hashes |-> <<>>, extensions |-> request.extensions]
      header == Header(request.hash_alg, body)
  IN  IF request.hash_alg \in provider.hash /\ request.signature_alg \in provider.signer
      THEN Some([signature |-> sign(request.signature_alg, provider.owner, header), header |-> header, body |-> body])
      ELSE None

\* AttestationProof.verify: the signature is checked with the key in the body.
BodyOpened(alg, body) == hash_fields(alg, body)
attestation_verify(provider, proof) ==
  /\ proof.signature.alg \in provider.signature
  /\ proof.header.root.alg \in provider.hash
  /\ merkle_verify(proof.body_proof, proof.header.root, BodyOpened(proof.header.root.alg, proof.body))
  /\ signature_verify(proof.body.verifying_key, proof.header, proof.signature)

-----------------------------------------------------------------------------
\* transcript/proof.rs: TranscriptProofBuilder.

committed_idx(secrets, d) == IF secrets.tree = None THEN {} ELSE tree_idx(secrets.tree[1], d)

\* reveal is called for the two directions of the query.
reveal(secrets, query) ==
  \A d \in Directions : /\ end(query[d]) <= Len(secrets.transcript[d])
                        /\ query[d] \subseteq committed_idx(secrets, d)

\* Mutant: a leaf is taken for any byte of it that is in the query.
Contained_Overlapping(tree, query) ==
  {n \in DOMAIN tree.idxs : tree.idxs[n].idx \intersect query[tree.idxs[n].dir] # {}}

\* cover_by of rangeset: leaves that lie in the query, none of them in vain.
Contained(tree, query) == {n \in DOMAIN tree.idxs : tree.idxs[n].idx \subseteq query[tree.idxs[n].dir]}
Covered(tree, chosen, d) == UNION {tree.idxs[n].idx : n \in {m \in chosen : tree.idxs[m].dir = d}}
Covers(tree, query) ==
  LET usable == Contained(tree, query)
      Same(A, B) == \A d \in Directions : Covered(tree, A, d) = Covered(tree, B, d)
  IN  {C \in SUBSET usable : Same(C, usable) /\ \A n \in C : ~Same(C \ {n}, usable)}

\* build with the kinds of commitment in the order of preference; chosen is
\* the cover of the query by leaves of the tree.
EmptyQuery(query) == \A d \in Directions : query[d] = {}
transcript_build(secrets, query, kinds, chosen) ==
  LET tree == secrets.tree
      Uncovered == [d \in Directions |-> query[d] \ Covered(tree[1], chosen, d)]
      proof == [encoding |-> IF chosen = {} THEN None ELSE Some(tree_proof(tree[1], secrets.transcript, chosen)),
                hashes |-> <<>>]
  IN  CASE EmptyQuery(query) -> Some([encoding |-> None, hashes |-> <<>>])
        [] ~EmptyQuery(query) /\ (kinds[1] = "Hash" \/ tree = None) -> None
        [] ~EmptyQuery(query) /\ kinds[1] = "Encoding" /\ tree # None ->
             IF EmptyQuery(Uncovered) THEN Some(proof) ELSE None

-----------------------------------------------------------------------------
\* transcript/hash.rs and TranscriptProof.verify_with_provider.

hash_proof_verify(provider, proof, commitment) ==
  IF /\ commitment.hash.alg \in provider.hash
     /\ commitment.hash = hash(commitment.hash.alg, proof.data)
  THEN Subsequence(commitment.idx, proof.data.data) ELSE None

\* The first encodings, then the hashes, which are found by field id: those of
\* the body come after the encoding commitment.
FirstHashId(body) == 4 + Len(body.encoding)
transcript_verify(provider, proof, body) ==
  LET lengths == body.connection_info.lengths
      encoded == IF proof.encoding = None THEN Some(EmptyPartial(lengths))
                 ELSE IF body.encoding = None THEN None
                 ELSE encoding_proof_verify(provider, proof.encoding[1], lengths, body.encoding[1])
      Found(h) == h.id >= FirstHashId(body) /\ h.id < FirstHashId(body) + Len(body.plaintext_hashes)
      Committed(h) == body.plaintext_hashes[h.id - FirstHashId(body) + 1]
      Opened(h) == hash_proof_verify(provider, h, Committed(h))
      Add(p, h) == IF p = None \/ ~Found(h) THEN None
                   ELSE IF Opened(h) = None THEN None
                   ELSE Some(union_subsequence(p[1], Committed(h).dir, Opened(h)[1]))
      total == TotalOpened([n \in DOMAIN proof.hashes |->
                              IF Found(proof.hashes[n]) THEN Cardinality(Committed(proof.hashes[n]).idx) ELSE 0])
  IN  IF encoded = None \/ total > MaxCommitted THEN None
      ELSE FoldLeft(Add, Some(union_transcript(EmptyPartial(lengths), encoded[1])), proof.hashes)

-----------------------------------------------------------------------------
\* presentation.rs.

Presentation(attestation, identity, proof) ==
  [signature |-> attestation.signature, header |-> attestation.header, body |-> attestation.body,
   body_proof |-> merkle_proof(hash_fields(attestation.header.root.alg, attestation.body)),
   identity |-> identity, transcript |-> proof]

presentation_verify(provider, p) ==
  LET info == p.body.connection_info
      name == IF p.identity = None THEN None
              ELSE identity_verify(provider, p.identity[1], info.time, p.body.server_ephemeral_key, p.body.cert)
      transcript == IF p.transcript = None THEN None ELSE transcript_verify(provider, p.transcript[1], p.body)
  IN  IF /\ attestation_verify(provider, p)
         /\ p.identity # None => name # None
         /\ p.transcript # None => transcript # None
      THEN Some([key |-> p.body.verifying_key, name |-> name, info |-> info, transcript |-> transcript,
                 extensions |-> p.body.extensions])
      ELSE None
===============================================================================
