---------------------------- MODULE MCUtilities ----------------------------
(***************************************************************************)
(* The Utilities over a few addresses, pages, slabs, objects, dimensions   *)
(* and threads; and beside them (part = "none") all halves, and all bytes  *)
(* and two messages through the cipher.                                    *)
(***************************************************************************)
EXTENDS Utilities, TLC

CONSTANTS Key, Iv, Plain, Encrypted, Lengths

VARIABLES half, byte, ctx, fed, out

H == INSTANCE Half
A == INSTANCE Aes

cipherVars == <<byte, ctx, fed, out>>

MCInit ==
  /\ UtilitiesInit /\ H!Init /\ A!Init
  /\ part # "none" \/ half # 0 => byte = 0
  /\ part # "none" => half = 0

MCNext ==
  \/ UtilitiesNext /\ UNCHANGED <<half, cipherVars>>
  \/ part = "none" /\ half = 0 /\ A!Next /\ UNCHANGED <<half, utilityVars>>

MCSpec == MCInit /\ [][MCNext]_<<half, cipherVars, utilityVars>>

SignedDims == {-1, 0, 3, 8}

(* The example messages of NIST SP 800-38A, F.2.1 and F.2.5: CBC mode with *)
(* keys of 128 and 256 bits, three blocks of each.                         *)
AesPlain ==
  <<107, 193, 190, 226, 46, 64, 159, 150, 233, 61, 126, 17, 115, 147, 23,
  42, 174, 45, 138, 87, 30, 3, 172, 156, 158, 183, 111, 172, 69, 175, 142,
  81, 48, 200, 28, 70, 163, 92, 228, 17, 229, 251, 193, 25, 26, 10, 82,
  239>>
AesKey128 ==
  <<43, 126, 21, 22, 40, 174, 210, 166, 171, 247, 21, 136, 9, 207, 79, 60>>
AesEncrypted128 ==
  <<118, 73, 171, 172, 129, 25, 178, 70, 206, 233, 142, 155, 18, 233, 25,
  125, 80, 134, 203, 155, 80, 114, 25, 238, 149, 219, 17, 58, 145, 118, 120,
  178, 115, 190, 214, 184, 227, 193, 116, 59, 113, 22, 230, 158, 34, 34,
  149, 22>>
AesKey256 ==
  <<96, 61, 235, 16, 21, 202, 113, 190, 43, 115, 174, 240, 133, 125, 119,
  129, 31, 53, 44, 7, 59, 97, 8, 215, 45, 152, 16, 163, 9, 20, 223, 244>>
AesEncrypted256 ==
  <<245, 140, 76, 4, 214, 229, 241, 186, 119, 158, 171, 251, 95, 123, 251,
  214, 156, 252, 78, 150, 126, 219, 128, 141, 103, 159, 119, 123, 198, 112,
  44, 125, 57, 242, 51, 105, 169, 217, 186, 207, 165, 48, 226, 99, 4, 35,
  20, 97>>
AesKey == (128 :> AesKey128) @@ (256 :> AesKey256)
AesEncrypted == (128 :> AesEncrypted128) @@ (256 :> AesEncrypted256)
AesIv == [i \in 1..16 |-> i - 1]

(* What is computed: numbers converted to halves and back                  *)
(* (half_soft.cc:51-86), and the plain text of messages (ocl/aes.cc).      *)
ConvertedRight ==
  part = "none" =>
    /\ byte = 0 => H!HalvesRight
    /\ half = 0 => A!TypeOK /\ A!ContentDecrypted
=============================================================================
