-------------------------------- MODULE Aes --------------------------------
(***************************************************************************)
(* The decryption of kernels (ocl/aes.cc): the key schedule of AES, its    *)
(* conversion for decryption, and the decryption of whole blocks in CBC    *)
(* mode.  A word of 32 bits is the sequence of its four bytes, the highest *)
(* first, which is the order of a message: ntohl and htonl only reverse    *)
(* the bytes of the machine.  Exclusive or of bytes is a table for half    *)
(* bytes.                                                                  *)
(*                                                                         *)
(* The variable byte enumerates the bytes, each of which is pushed through *)
(* the pieces the algorithm is made of; byte 0 is the start of a client    *)
(* that decrypts a message in any pieces.                                  *)
(***************************************************************************)
EXTENDS Integers, Sequences, SequencesExt

CONSTANTS
  Key,        \* of each mode (the build's G_CRYPTO_KEY for 128 bits)
  Iv,         \* the initial vector (the build's G_CRYPTO_IV)
  Plain,      \* a message of whole blocks
  Encrypted,  \* what it is under the key of each mode
  Lengths     \* the lengths clients pass

VARIABLES
  byte,       \* one of all bytes
  ctx,        \* AES_CTX
  fed,        \* how many bytes of Encrypted were decrypted
  out         \* and what they became

vars == <<byte, ctx, fed, out>>

AES_BLOCKSIZE == 16
Byte == 0..255
Word == [1..4 -> Byte]
NoKey == [mode |-> 0]

-----------------------------------------------------------------------------
Bit(x, i) == (x \div 2 ^ i) % 2
XorOfNibbles == [x, y \in 0..15 |->
  LET b(i) == IF Bit(x, i) = Bit(y, i) THEN 0 ELSE 2 ^ i IN b(0) + b(1) + b(2) + b(3)]
Xor(x, y) == 16 * XorOfNibbles[x \div 16, y \div 16] + XorOfNibbles[x % 16, y % 16]

(* The four bytes of a word, or words of a block *)
Four(Op(_)) == <<Op(1), Op(2), Op(3), Op(4)>>
XorWords(v, w) == Four(LAMBDA i : Xor(v[i], w[i]))

(* Op(x), for which TLC computes x first: operators are lazy, and 14 rounds *)
(* inside each other deep.                                                 *)
Strictly(Op(_), x) == CHOOSE y \in {Op(v) : v \in {x}} : TRUE

(* The words of a sequence of bytes, and back *)
WordAt(bytes, i) == SubSeq(bytes, 4 * i + 1, 4 * i + 4)
BlockAt(bytes, k) == Four(LAMBDA i : WordAt(bytes, 4 * (k - 1) + i - 1))

aes_sbox == <<
  99, 124, 119, 123, 242, 107, 111, 197, 48, 1, 103, 43, 254, 215, 171, 118,
  202, 130, 201, 125, 250, 89, 71, 240, 173, 212, 162, 175, 156, 164, 114,
  192, 183, 253, 147, 38, 54, 63, 247, 204, 52, 165, 229, 241, 113, 216, 49,
  21, 4, 199, 35, 195, 24, 150, 5, 154, 7, 18, 128, 226, 235, 39, 178, 117,
  9, 131, 44, 26, 27, 110, 90, 160, 82, 59, 214, 179, 41, 227, 47, 132, 83,
  209, 0, 237, 32, 252, 177, 91, 106, 203, 190, 57, 74, 76, 88, 207, 208,
  239, 170, 251, 67, 77, 51, 133, 69, 249, 2, 127, 80, 60, 159, 168, 81, 163,
  64, 143, 146, 157, 56, 245, 188, 182, 218, 33, 16, 255, 243, 210, 205, 12,
  19, 236, 95, 151, 68, 23, 196, 167, 126, 61, 100, 93, 25, 115, 96, 129, 79,
  220, 34, 42, 144, 136, 70, 238, 184, 20, 222, 94, 11, 219, 224, 50, 58, 10,
  73, 6, 36, 92, 194, 211, 172, 98, 145, 149, 228, 121, 231, 200, 55, 109,
  141, 213, 78, 169, 108, 86, 244, 234, 101, 122, 174, 8, 186, 120, 37, 46,
  28, 166, 180, 198, 232, 221, 116, 31, 75, 189, 139, 138, 112, 62, 181, 102,
  72, 3, 246, 14, 97, 53, 87, 185, 134, 193, 29, 158, 225, 248, 152, 17, 105,
  217, 142, 148, 155, 30, 135, 233, 206, 85, 40, 223, 140, 161, 137, 13, 191,
  230, 66, 104, 65, 153, 45, 15, 176, 84, 187, 22>>

aes_isbox == <<
  82, 9, 106, 213, 48, 54, 165, 56, 191, 64, 163, 158, 129, 243, 215, 251,
  124, 227, 57, 130, 155, 47, 255, 135, 52, 142, 67, 68, 196, 222, 233, 203,
  84, 123, 148, 50, 166, 194, 35, 61, 238, 76, 149, 11, 66, 250, 195, 78, 8,
  46, 161, 102, 40, 217, 36, 178, 118, 91, 162, 73, 109, 139, 209, 37, 114,
  248, 246, 100, 134, 104, 152, 22, 212, 164, 92, 204, 93, 101, 182, 146,
  108, 112, 72, 80, 253, 237, 185, 218, 94, 21, 70, 87, 167, 141, 157, 132,
  144, 216, 171, 0, 140, 188, 211, 10, 247, 228, 88, 5, 184, 179, 69, 6, 208,
  44, 30, 143, 202, 63, 15, 2, 193, 175, 189, 3, 1, 19, 138, 107, 58, 145,
  17, 65, 79, 103, 220, 234, 151, 242, 207, 206, 240, 180, 230, 115, 150,
  172, 116, 34, 231, 173, 53, 133, 226, 249, 55, 232, 28, 117, 223, 110, 71,
  241, 26, 113, 29, 41, 197, 137, 111, 183, 98, 14, 170, 24, 190, 27, 252,
  86, 62, 75, 198, 210, 121, 32, 154, 219, 192, 254, 120, 205, 90, 244, 31,
  221, 168, 51, 136, 7, 199, 49, 177, 18, 16, 89, 39, 128, 236, 95, 96, 81,
  127, 169, 25, 181, 74, 13, 45, 229, 122, 159, 147, 201, 156, 239, 160, 224,
  59, 77, 174, 42, 245, 176, 200, 235, 187, 60, 131, 83, 153, 97, 23, 43, 4,
  126, 186, 119, 214, 38, 225, 105, 20, 99, 85, 33, 12, 125>>

Rcon == <<
  1, 2, 4, 8, 16, 32, 64, 128, 27, 54, 108, 216, 171, 77, 154, 47, 94, 188,
  99, 198, 151, 53, 106, 212, 179, 125, 250, 239, 197, 145>>

-----------------------------------------------------------------------------
AES_xtime(x) == Xor((2 * x) % 256, IF x >= 128 THEN 27 ELSE 0)

\* A mutant of Doubled: the carries into the next byte are not masked.
DoubledWithCarry(x) ==
  Four(LAMBDA i : (2 * x[i] + (IF i < 4 /\ x[(i % 4) + 1] >= 128 THEN 1 ELSE 0)) % 256)

(* ((x + x) & mh): the sum of the words, where bytes carry into the next *)
Doubled(x) ==
  Four(LAMBDA i :
    LET sum == 2 * x[i] + (IF i < 4 /\ x[(i % 4) + 1] >= 128 THEN 1 ELSE 0)
    IN  (sum % 256) - (sum % 2))

(* mul2: four bytes are doubled at once. *)
mul2(x) == XorWords(Doubled(x), Four(LAMBDA i : IF x[i] >= 128 THEN 27 ELSE 0))

rot1(x) == <<x[4], x[1], x[2], x[3]>>
rot2(x) == <<x[3], x[4], x[1], x[2]>>
rot3(x) == <<x[2], x[3], x[4], x[1]>>

inv_mix_col(x) ==
  LET f2 == mul2(x)
      f4 == mul2(f2)
      f8 == mul2(f4)
      f9 == XorWords(x, f8)
      sum == XorWords(XorWords(f2, f4), f8)
  IN  XorWords(XorWords(sum, rot3(XorWords(f2, f9))),
               XorWords(rot2(XorWords(f4, f9)), rot1(f9)))

-----------------------------------------------------------------------------
Rounds(mode) == IF mode = 128 THEN 10 ELSE 14
KeyWords(mode) == IF mode = 128 THEN 4 ELSE 8

SubWord(w) == Four(LAMBDA i : aes_sbox[w[i] + 1])

\* A mutant of NextWord: the constant of the round is not taken.
NextWordPlain(W, words) ==
  LET i == Len(W)
      tmp == IF i % words = 0 THEN SubWord(rot3(W[i])) ELSE W[i]
  IN  Append(W, XorWords(W[i - words + 1], tmp))

(* The schedule W and its next word *)
NextWord(W, words) ==
  LET i == Len(W)
      r == SubWord(rot3(W[i]))
      tmp == IF i % words = 0 THEN [r EXCEPT ![1] = Xor(@, Rcon[i \div words])]
             ELSE IF words = 8 /\ i % words = 4 THEN SubWord(W[i])
             ELSE W[i]
  IN  Append(W, XorWords(W[i - words + 1], tmp))

Schedule(mode, key) ==
  LET words == KeyWords(mode)
      W[i \in words..(4 * (Rounds(mode) + 1))] ==
        IF i = words THEN [j \in 1..words |-> WordAt(key, j - 1)]
        ELSE Strictly(LAMBDA before : NextWord(before, words), W[i - 1])
  IN  W[4 * (Rounds(mode) + 1)]

(* AES_set_key *)
WithKey(mode, key) ==
  [mode |-> mode, rounds |-> Rounds(mode), ks |-> Schedule(mode, key), iv |-> Iv]

(* AES_convert_key: all words but those of the first and the last round *)
Converted(c) ==
  [c EXCEPT !.ks = [i \in DOMAIN @ |->
     IF 4 < i /\ i <= 4 * c.rounds THEN inv_mix_col(@[i]) ELSE @[i]]]

-----------------------------------------------------------------------------
(* The column of AES_decrypt's rounds: <<a0, a1, a2, a3>> times the matrix *)
InvMixColumn(a) ==
  LET xt0 == AES_xtime(Xor(a[1], a[2]))
      xt1 == AES_xtime(Xor(a[2], a[3]))
      xt2 == AES_xtime(Xor(a[3], a[4]))
      xt3 == AES_xtime(Xor(a[4], a[1]))
      xt4 == AES_xtime(Xor(xt0, xt1))
      xt5 == AES_xtime(Xor(xt1, xt2))
      xt6 == AES_xtime(Xor(xt4, xt5))
      but(i) == FoldLeft(Xor, 0, [j \in 1..4 |-> IF j = i THEN 0 ELSE a[j]])
  IN  << Xor(Xor(xt0, but(1)), Xor(xt4, xt6)), Xor(Xor(xt1, but(2)), Xor(xt5, xt6)),
         Xor(Xor(xt2, but(3)), Xor(xt4, xt6)), Xor(Xor(xt3, but(4)), Xor(xt5, xt6)) >>

(* The rows of a round after ByteSub and ShiftRow *)
ShiftedRow(data, row) ==
  Four(LAMBDA i : aes_isbox[data[((row + 4 - i) % 4) + 1][i] + 1])

(* The words of a block with those of the key of a round added *)
AddKey(c, data, round) == Four(LAMBDA row : XorWords(data[row], c.ks[4 * round + row]))

(* A round of AES_decrypt, the columns mixed or not *)
Round(c, data, n) ==
  AddKey(c, Four(LAMBDA row : IF n < c.rounds THEN InvMixColumn(ShiftedRow(data, row))
                              ELSE ShiftedRow(data, row)), c.rounds - n)

(* AES_decrypt, of the four words of a block *)
AES_decrypt(c, block) ==
  LET data[n \in 0..c.rounds] ==
        IF n = 0 THEN AddKey(c, block, c.rounds)
        ELSE Strictly(LAMBDA before : Round(c, before, n), data[n - 1])
  IN  data[c.rounds]

\* A mutant of Chained: the first block of a call is not chained to the last call.
ChainedInCall(c, msg, k) == IF k = 1 THEN BlockAt(Iv, 1) ELSE BlockAt(msg, k - 1)

(* What the k-th block of a message is combined with (xor_value) *)
Chained(c, msg, k) == IF k = 1 THEN BlockAt(c.iv, 1) ELSE BlockAt(msg, k - 1)

(* AES_cbc_decrypt: as many whole blocks as there are in a length; the     *)
(* last one encrypted becomes the initial vector of the next call.         *)
Blocks(length) == length \div AES_BLOCKSIZE
DecryptedBlock(c, msg, k) ==
  LET data == AES_decrypt(c, BlockAt(msg, k))
  IN  FlattenSeq(Four(LAMBDA i : XorWords(data[i], Chained(c, msg, k)[i])))
Decrypted(c, msg, length) ==
  FlattenSeq([k \in 1..Blocks(length) |-> DecryptedBlock(c, msg, k)])
NextIv(c, msg, length) ==
  IF Blocks(length) = 0 THEN c.iv ELSE FlattenSeq(BlockAt(msg, Blocks(length)))

-----------------------------------------------------------------------------
Modes == {128, 256}

TypeOK ==
  /\ byte \in Byte
  /\ ctx # NoKey => Len(ctx.ks) = 4 * (ctx.rounds + 1) /\ ctx.iv \in [1..16 -> Byte]
  /\ out = <<>> \/ out \in [1..Len(out) -> Byte]

Init == byte \in Byte /\ ctx = NoKey /\ fed = 0 /\ out = <<>>

(* AES_set_key and AES_convert_key *)
SetKey(mode) ==
  /\ byte = 0 /\ ctx = NoKey /\ out = <<>>
  /\ ctx' = Converted(WithKey(mode, Key[mode]))
  /\ UNCHANGED <<byte, fed, out>>

(* AES_cbc_decrypt: a part of the message, of any length *)
CbcDecrypt(length) ==
  LET msg == SubSeq(Encrypted[ctx.mode], fed + 1, Len(Plain))
  IN  /\ ctx # NoKey /\ fed + length <= Len(Plain)
      /\ out' = out \o Decrypted(ctx, msg, length)
      /\ fed' = fed + AES_BLOCKSIZE * Blocks(length)
      /\ ctx' = [ctx EXCEPT !.iv = NextIv(ctx, msg, length)]
      /\ UNCHANGED byte

RoundUp(size) == ((size + AES_BLOCKSIZE - 1) \div AES_BLOCKSIZE) * AES_BLOCKSIZE

(***************************************************************************)
(* DecryptContent of a source of some size: the last block is read beyond  *)
(* its end, where anything may be.                                         *)
(***************************************************************************)
DecryptContent(size) ==
  /\ byte = 0 /\ ctx = NoKey /\ out = <<>>
  /\ \E beyond \in {0, 255} :
       out' = Decrypted(Converted(WithKey(128, Key[128])),
                [i \in 1..RoundUp(size) |-> IF i <= size THEN Encrypted[128][i] ELSE beyond],
                RoundUp(size))
  /\ fed' = size
  /\ UNCHANGED <<byte, ctx>>

Next == (\E mode \in Modes : SetKey(mode))
        \/ \E n \in Lengths : CbcDecrypt(n) \/ DecryptContent(n)

Spec == Init /\ [][Next]_vars

-----------------------------------------------------------------------------
(* The field of 256 elements: sums are exclusive or, x^8 = x^4 + x^3 + x + 1 *)
Twice(x) == IF x < 128 THEN 2 * x ELSE Xor(2 * x - 256, 27)
Times(c, x) ==
  LET power[i \in 0..7] == IF i = 0 THEN x ELSE Twice(power[i - 1])
  IN  FoldLeft(Xor, 0, [i \in 1..8 |-> IF Bit(c, i - 1) = 1 THEN power[i - 1] ELSE 0])

(* The column a times the matrix of InvMixColumns *)
Matrix(a) ==
  Four(LAMBDA i :
    FoldLeft(Xor, 0, Four(LAMBDA j : Times(<<14, 11, 13, 9>>[((j - i) % 4) + 1], a[j]))))

(* The affine map of the S-box *)
Affine(y) ==
  FoldLeft(Xor, 99, [k \in 1..5 |-> ((y * 2 ^ (k - 1)) % 256) + (y * 2 ^ (k - 1)) \div 256])

Columns == {[i \in 1..4 |-> IF i = p THEN byte ELSE rest] : p \in 1..4, rest \in {0, 255}}

(***************************************************************************)
(* The tables are the S-box of the standard and its inverse, the doubling  *)
(* of a byte and of four at once are that of the field, and the shortcuts  *)
(* of both uses of the matrix multiply by it.  And a message comes out as  *)
(* it was encrypted, with both lengths of keys, in whatever pieces it is   *)
(* decrypted; of the last block of a content of another size than whole    *)
(* blocks nothing is promised (aes.cc:23-301).                             *)
(***************************************************************************)
ContentDecrypted ==
  /\ aes_isbox[aes_sbox[byte + 1] + 1] = byte
  /\ aes_sbox[byte + 1] =
       Affine(IF byte = 0 THEN 0 ELSE CHOOSE y \in Byte : Times(byte, y) = 1)
  /\ AES_xtime(byte) = Twice(byte)
  /\ \A a \in Columns : InvMixColumn(a) = Matrix(a) /\ inv_mix_col(a) = Matrix(a)
  /\ LET whole == AES_BLOCKSIZE * Blocks(fed) IN SubSeq(out, 1, whole) = SubSeq(Plain, 1, whole)
=============================================================================
