------------------------------- MODULE TlsPrf -------------------------------
(***************************************************************************)
(* The circuits of components/hmac-sha256-circuits: HMAC from partial      *)
(* states, the PRF of TLS 1.2, the session keys and the verify data.  The  *)
(* unit of length is a word of four bytes, so a hash has 8 of them, the    *)
(* master secret 12, the key material 10 and the verify data 3.            *)
(***************************************************************************)
EXTENDS Algebra

LABEL_MS == <<1, 2>>
LABEL_KE == <<3, 4>>
LABEL_CF == <<5, 6>>
LABEL_SF == <<7, 8>>

SHA256_INITIAL_STATE == 77

PAD_WORDS == 16

(* The outer and the inner state of HMAC with this key.                    *)
hmac_sha256_partial(key) ==
    LET pad(c) == [i \in 1 .. PAD_WORDS |->
                      IF i <= Len(key) THEN Xor(c, key[i]) ELSE c]
    IN  [outer |-> Compress(SHA256_INITIAL_STATE, pad(23)),
         inner |-> Compress(SHA256_INITIAL_STATE, pad(13))]

hmac_sha256_finalize(state, msg) == Sha(state.outer, Sha(state.inner, msg))

(* A(0) = seed, A(i) = HMAC(A(i-1)); the output is HMAC(A(i) || seed) for  *)
(* i from 1.                                                               *)
p_hash(state, seed, iterations) ==
    LET a[i \in 0 .. iterations] ==
            IF i = 0 THEN seed ELSE hmac_sha256_finalize(state, a[i - 1])
    IN  FlattenSeq([i \in 1 .. iterations |->
                       hmac_sha256_finalize(state, a[i] \o seed)])

prf(state, seed, label, words) ==
    LET iterations ==
            words \div HASH_WORDS + (IF words % HASH_WORDS # 0 THEN 1 ELSE 0)
    IN  SubSeq(p_hash(state, label \o seed, iterations), 1, words)

(* The master secret is seeded with the client's random first, the key     *)
(* material with the server's.                                             *)
session_keys(pms, client_random, server_random) ==
    LET master_secret ==
            prf(hmac_sha256_partial(pms), client_random \o server_random,
                LABEL_MS, 12)
        ms_state == hmac_sha256_partial(master_secret)
        key_material ==
            prf(ms_state, server_random \o client_random, LABEL_KE, 10)
    IN  [cwk |-> SubSeq(key_material, 1, 4), swk |-> SubSeq(key_material, 5, 8),
         civ |-> key_material[9], siv |-> key_material[10], ms |-> ms_state]

verify_data(ms_state, label, hs_hash) == prf(ms_state, hs_hash, label, 3)

-----------------------------------------------------------------------------
(***************************************************************************)
(* What the server computes, from RFC 5246 sections 5, 6.3, 8.1 and 7.4.9. *)
(***************************************************************************)
HMAC(secret, msg) ==
    LET keyed(c) == [i \in 1 .. PAD_WORDS |->
                        Xor(c, IF i \in DOMAIN secret THEN secret[i] ELSE 0)]
    IN  Sha(Compress(SHA256_INITIAL_STATE, keyed(23)),
            Sha(Compress(SHA256_INITIAL_STATE, keyed(13)), msg))

P_hash(secret, seed) ==
    LET A1 == HMAC(secret, seed)
        A2 == HMAC(secret, A1)
    IN  HMAC(secret, A1 \o seed) \o HMAC(secret, A2 \o seed)

PRF(secret, label, seed, words) == SubSeq(P_hash(secret, label \o seed), 1, words)

ServerSecrets(pms, client_random, server_random, cf_hash, sf_hash) ==
    LET master   == PRF(pms, LABEL_MS, client_random \o server_random, 12)
        material == PRF(master, LABEL_KE, server_random \o client_random, 10)
    IN  [cwk |-> SubSeq(material, 1, 4), swk |-> SubSeq(material, 5, 8),
         civ |-> material[9], siv |-> material[10],
         cf  |-> PRF(master, LABEL_CF, cf_hash, 3),
         sf  |-> PRF(master, LABEL_SF, sf_hash, 3)]
=============================================================================
