------------------------------ MODULE Algebra ------------------------------
(***************************************************************************)
(* Small stand-ins for the algebra the two-party protocols compute with:   *)
(* the field and the curve of the key exchange, the field of GHASH, the    *)
(* AES block cipher and SHA-256.  All of it is library code (p256,         *)
(* mpz-fields, mpz-circuits); what the models need of it is kept, that the *)
(* fields are fields, the curve a group of prime order, and that the       *)
(* cipher and the hash mix everything they are given.                      *)
(*                                                                         *)
(* A byte is one bit here, a cipher block BLOCK of them, and a word of the *)
(* hash four bytes of the real one.                                        *)
(***************************************************************************)
EXTENDS Integers, Sequences, SequencesExt

(* The prime field: P256 of mpz-fields, here the integers modulo 7.        *)
P == 7

Fp == 0 .. P - 1

Minus(a) == (P - a) % P

FpInverse(a) == CHOOSE b \in Fp : (a * b) % P = 1

(* The curve y^2 = x^3 + 3 over Fp: 13 points with the identity, a prime,  *)
(* so that every scalar of 1..12 is a key and no product is the identity.  *)
Order == 13

Identity == <<>>

Generator == <<1, 2>>

Add(p, q) ==
    IF p = Identity THEN q ELSE
    IF q = Identity THEN p ELSE
    IF p[1] = q[1] /\ p[2] = Minus(q[2]) THEN Identity ELSE
    LET slope == IF p = q
                 THEN (3 * p[1] * p[1] * FpInverse((2 * p[2]) % P)) % P
                 ELSE ((q[2] - p[2]) * FpInverse((q[1] - p[1]) % P)) % P
        x     == (slope * slope - p[1] - q[1]) % P
    IN  <<x, (slope * (p[1] - x) - p[2]) % P>>

Times(k, p) ==
    LET sum[i \in 0 .. Order - 1] ==
            IF i = 0 THEN Identity ELSE Add(sum[i - 1], p)
    IN  sum[k]

(* The field of GHASH: 2^6 elements, polynomials over the bits modulo      *)
(* x^6 + x + 1, written as integers with the coefficient of x^i at 2^i.    *)
BLOCK == 6

Gf == 0 .. 2 ^ BLOCK - 1

XorTable ==
    LET xor[a \in Gf, b \in Gf] ==
            IF a = 0 THEN b ELSE IF b = 0 THEN a
            ELSE 2 * xor[a \div 2, b \div 2] + ((a + b) % 2)
    IN  xor

Xor(a, b) == XorTable[a, b]

Double(a) == IF a >= 2 ^ (BLOCK - 1) THEN Xor((2 * a) % 2 ^ BLOCK, 3) ELSE 2 * a

GfTimes(a, b) ==
    LET product[c \in Gf] ==
            IF c = 0 THEN 0
            ELSE Xor(Double(product[c \div 2]), IF c % 2 = 1 THEN a ELSE 0)
    IN  product[b]

GfInverse(a) == CHOOSE b \in Gf : GfTimes(a, b) = 1

(* Bit strings.  A block is an element of the field with the first bit as  *)
(* the coefficient of 1, which is the bit order of GCM.                    *)
Bits(value, width) == [i \in 1 .. width |-> (value \div 2 ^ (width - i)) % 2]

Block(e) == [i \in 1 .. BLOCK |-> (e \div 2 ^ (i - 1)) % 2]

Element(block) ==
    LET sum[i \in 0 .. BLOCK] ==
            IF i = 0 THEN 0 ELSE sum[i - 1] + block[i] * 2 ^ (i - 1)
    IN  sum[BLOCK]

(* The bytes of one string changed by those of another, as iter().zip().   *)
XorBits(s, t) ==
    [i \in 1 .. Len(s) |-> IF i <= Len(t) THEN (s[i] + t[i]) % 2 ELSE s[i]]

BlockCount(len) == len \div BLOCK + (IF len % BLOCK # 0 THEN 1 ELSE 0)

(* resize(block_count * 16, 0) *)
Padded(s) == s \o [i \in 1 .. BlockCount(Len(s)) * BLOCK - Len(s) |-> 0]

(* chunks_exact(16) *)
Chunks(s) ==
    [i \in 1 .. Len(s) \div BLOCK |-> SubSeq(s, (i - 1) * BLOCK + 1, i * BLOCK)]

Mix(h, m) == (h * 31 + m * 7 + 11) % 127

(* SHA-256 from a given state: eight words that depend on all of the       *)
(* message.                                                                *)
HASH_WORDS == 8

Compress(state, words) == FoldLeft(Mix, state, words)

Sha(state, words) ==
    LET h == Compress(state, words)
    IN  [i \in 1 .. HASH_WORDS |-> (h * (2 * i + 1) + i) % 32]

(* AES of the block iv || nonce || counter; the all-zero block is 0,0,0.   *)
Aes(key, iv, nonce, counter) ==
    Block((Compress(1, key \o <<iv, nonce, counter>>)
           + 13 * nonce + 23 * counter) % 61)
=============================================================================
