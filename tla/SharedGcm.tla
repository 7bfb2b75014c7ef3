----------------------------- MODULE SharedGcm -----------------------------
(***************************************************************************)
(* AES-GCM computed by two parties: MpcAesGcm with the keystream it takes  *)
(* from the virtual machine, GHASH from shares of the powers of its key    *)
(* (ghash.rs), the shares of a tag, and the leader's own AES-CTR           *)
(* (aes_ctr.rs).                                                           *)
(*                                                                         *)
(* An aead record is one MpcAesGcm of both parties: the memories of the    *)
(* two virtual machines are laid out alike because both allocate and take  *)
(* in the same order (MpcTls, ReplicasAgree).  in, ks and out count the    *)
(* blocks left of the input, the keystream and the output vector, inp and  *)
(* asg are what has been assigned to blocks of input and of keystream.     *)
(***************************************************************************)
EXTENDS Algebra, TLC

CONSTANTS MAX_POWER,      \* powers of the GHASH key that are shared (1026)
          AllocBlocks,    \* blocks of keystream of an MpcAesGcm
          AllocRecords    \* J0 blocks of an MpcAesGcm

Party == {"leader", "follower"}

START_CTR == 2

(* MpcAesGcm::alloc, with the conversions that ghash.alloc reserves.       *)
aead_alloc ==
    [st |-> "Setup", in |-> AllocBlocks, ks |-> AllocBlocks,
     out |-> AllocBlocks, j0 |-> AllocRecords,
     a2m |-> 1, m2a |-> MAX_POWER \div 2 - 1,
     inp |-> <<>>, asg |-> <<>>, shares |-> [p \in Party |-> <<>>]]

(***************************************************************************)
(* Shares.                                                                 *)
(***************************************************************************)
(* Both parties mask the value, the follower decodes it and takes its own  *)
(* mask off again.                                                         *)
OneTimePadShared(value, leader_otp, follower_otp) ==
    LET masked == Xor(Xor(value, leader_otp), follower_otp)
    IN  [leader |-> leader_otp, follower |-> Xor(masked, follower_otp)]

(* The ideal share conversions, with the sender's random share.            *)
to_multiplicative(additive, r) ==
    [leader   |-> r,
     follower |-> GfTimes(Xor(additive.leader, additive.follower), GfInverse(r))]

to_additive(factor, r) ==
    [leader   |-> r,
     follower |-> Xor(GfTimes(factor.leader, factor.follower), r)]

(* The powers 3, 5, ... up to MAX_POWER of a multiplicative share.         *)
odd_powers(mult_key) ==
    LET power[n \in 1 .. MAX_POWER] ==
            IF n = 1 THEN mult_key ELSE GfTimes(power[n - 1], mult_key)
    IN  [i \in 1 .. (MAX_POWER - 1) \div 2 |-> power[2 * i + 1]]

(* The additive shares of all powers: squaring is linear in this field, so *)
(* a share of an even power is the square of the share of its half.        *)
compute_shares(key, odd) ==
    LET share[n \in 1 .. MAX_POWER] ==
            IF n = 1 THEN key
            ELSE IF n % 2 = 0 THEN GfTimes(share[n \div 2], share[n \div 2])
            ELSE odd[(n - 1) \div 2]
    IN  [n \in 1 .. MAX_POWER |-> share[n]]

(* MpcAesGcm::setup: the key of GHASH is shared, and from it the powers.   *)
(* It fails when more conversions are queued than were reserved.           *)
aead_setup(aead, key, draw) ==
    LET ghash_key == OneTimePadShared(Element(Aes(key, 0, 0, 0)),
                                      draw[1] % 64, draw[2] % 64)
        mult_key  == to_multiplicative(ghash_key, 1 + (draw[3] % 63))
        powers    == [p \in Party |-> odd_powers(mult_key[p])]
        count     == Len(powers.leader)
        odd       == [i \in 1 .. count |->
                         to_additive([p \in Party |-> powers[p][i]],
                                     draw[3 + i] % 64)]
    IN  IF aead.a2m < 1 \/ aead.m2a < count
        THEN [aead EXCEPT !.st = "Error"]
        ELSE [aead EXCEPT !.st = "Ready", !.a2m = @ - 1, !.m2a = @ - count,
                  !.shares = [p \in Party |->
                      compute_shares(ghash_key[p],
                                     [i \in 1 .. count |-> odd[i][p]])]]

(***************************************************************************)
(* Tags.                                                                   *)
(***************************************************************************)
build_ghash_data(aad, ciphertext) ==
    Padded(aad) \o Padded(ciphertext)
        \o Bits(Len(aad), BLOCK \div 2) \o Bits(Len(ciphertext), BLOCK \div 2)

(* GHASH with the powers in the order they are stored.                     *)
ghash_compute_Forward(shares, input) ==
    LET blocks == Chunks(Padded(input))
        sum[i \in 0 .. Len(blocks)] ==
            IF i = 0 THEN 0
            ELSE Xor(sum[i - 1], GfTimes(Element(blocks[i]), shares[i]))
    IN  Block(sum[Len(blocks)])

(* The first block is multiplied by the highest power.                     *)
ghash_compute(shares, input) ==
    LET blocks == Chunks(Padded(input))
        offset == MAX_POWER - Len(blocks)
        sum[i \in 0 .. Len(blocks)] ==
            IF i = 0 THEN 0
            ELSE Xor(sum[i - 1],
                     GfTimes(Element(blocks[i]),
                             shares[MAX_POWER - offset - i + 1]))
    IN  Block(sum[Len(blocks)])

FitsGhash(aad, ciphertext) ==
    BlockCount(Len(build_ghash_data(aad, ciphertext))) <= MAX_POWER

(* The J0 block with counter 1, shared, and each party's share of the tag. *)
assign_j0(key, iv, nonce) == Aes(key, iv, nonce, 1)

TagShares(aead, key, iv, nonce, aad, ciphertext, otp) ==
    LET j0 == OneTimePadShared(Element(assign_j0(key, iv, nonce)),
                                 otp, (3 * otp) % 64)
    IN  [p \in Party |->
            XorBits(Block(j0[p]),
                    ghash_compute(aead.shares[p],
                                  build_ghash_data(aad, ciphertext)))]

(* The leader adds the follower's share to its own (compute_tags), or both *)
(* add the other's (verify_tags).                                          *)
SumTag(shares) == XorBits(shares.leader, shares.follower)

(***************************************************************************)
(* Keystream.                                                              *)
(***************************************************************************)
(* Keystream::consume and Keystream::assign: the last blocks, with the     *)
(* nonce of the record and counters from START_CTR.                        *)
consume(aead, nonce, n) ==
    [b \in aead.ks - n + 1 .. aead.ks |->
        [nonce |-> nonce, ctr |-> START_CTR + (b - (aead.ks - n + 1))]]

KeystreamBlock(aead, key, iv, b) ==
    Aes(key, iv, aead.asg[b].nonce, aead.asg[b].ctr)

(* The last blocks of input, keystream and output belong to the record;    *)
(* the padding of the input is zero.                                       *)
apply_keystream(aead, nonce, data) ==
    LET n      == BlockCount(Len(data))
        blocks == Chunks(Padded(data))
    IN  IF n > aead.in \/ n > aead.ks
        THEN [aead EXCEPT !.st = "Error"]
        ELSE [aead EXCEPT !.in = @ - n, !.ks = @ - n, !.out = @ - n,
                  !.asg = consume(aead, nonce, n) @@ @,
                  !.inp = [b \in aead.in - n + 1 .. aead.in |->
                              blocks[b - (aead.in - n)]] @@ @]

(* Without its input dropped a taken record leaves the vectors apart.      *)
take_keystream_KeepInput(aead, nonce, len) ==
    [aead EXCEPT !.ks = @ - BlockCount(len),
         !.asg = consume(aead, nonce, BlockCount(len)) @@ @]

(* The input and the output of the record are dropped, so that they stay   *)
(* aligned with the keystream.                                             *)
take_keystream(aead, nonce, len) ==
    LET n == BlockCount(len)
    IN  IF n > aead.in \/ n > aead.ks \/ len = 0
        THEN [aead EXCEPT !.st = "Error"]
        ELSE [aead EXCEPT !.in = @ - n, !.ks = @ - n, !.out = @ - n,
                  !.asg = consume(aead, nonce, n) @@ @]

(* What the virtual machine decodes of the first len bytes of output, or   *)
(* of keystream, after the operation took them.  Output has a value once   *)
(* both its input and its keystream are assigned.                          *)
OutputReady(aead, len) ==
    (aead.out + 1 .. aead.out + BlockCount(len)) \subseteq
        (DOMAIN aead.inp \cap DOMAIN aead.asg)

Output(aead, key, iv, len) ==
    SubSeq(FlattenSeq([i \in 1 .. BlockCount(len) |->
               XorBits(aead.inp[aead.out + i],
                       KeystreamBlock(aead, key, iv, aead.out + i))]), 1, len)

to_vector(aead, key, iv, len) ==
    SubSeq(FlattenSeq([i \in 1 .. BlockCount(len) |->
               KeystreamBlock(aead, key, iv, aead.ks + i)]), 1, len)

(***************************************************************************)
(* AesCtr: the leader unmasks key and iv and decrypts by itself, from the  *)
(* keystream of a counter that starts at 0, past its first two blocks.     *)
(***************************************************************************)
finish_decode(key, iv, otp) ==
    LET masked == [i \in 1 .. 5 |-> Xor(IF i = 5 THEN iv ELSE key[i], otp + i)]
        clear  == [i \in 1 .. 5 |-> Xor(masked[i], otp + i)]
    IN  [key |-> SubSeq(clear, 1, 4), iv |-> clear[5]]

SEEK == 2 * BLOCK

decrypt_local(local, nonce, ciphertext) ==
    XorBits(ciphertext,
            FlattenSeq([i \in 1 .. BlockCount(Len(ciphertext)) |->
                Aes(local.key, local.iv, nonce, SEEK \div BLOCK + i - 1)]))

-----------------------------------------------------------------------------
(***************************************************************************)
(* AES-GCM as NIST SP 800-38D has it, which is what the server computes.   *)
(***************************************************************************)
GcmText(key, iv, nonce, text) ==
    [i \in 1 .. Len(text) |->
        (text[i] + Aes(key, iv, nonce, 2 + (i - 1) \div BLOCK)
                      [((i - 1) % BLOCK) + 1]) % 2]

GcmTag(key, iv, nonce, aad, ciphertext) ==
    LET h      == Element(Aes(key, 0, 0, 0))
        blocks == Chunks(Padded(aad)) \o Chunks(Padded(ciphertext))
                    \o <<Bits(Len(aad) * 2 ^ (BLOCK \div 2) + Len(ciphertext),
                              BLOCK)>>
        y[i \in 0 .. Len(blocks)] ==
            IF i = 0 THEN 0 ELSE GfTimes(Xor(y[i - 1], Element(blocks[i])), h)
    IN  XorBits(Aes(key, iv, nonce, 1), Block(y[Len(blocks)]))
=============================================================================
