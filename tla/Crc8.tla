-------------------------------- MODULE Crc8 --------------------------------
(***************************************************************************)
(* The CRC of owb.c (_calc_crc, _calc_crc_block): a table of 256 bytes.    *)
(***************************************************************************)
EXTENDS Integers, Sequences

Byte == 0 .. 255

\* A byte and its bits, numbered from 1. The library's bitwise operators are recursive, and what
\* is said of them could not be proved.
Power == <<1, 2, 4, 8, 16, 32, 64, 128>>
BitOf(v, k) == (v \div Power[k]) % 2
ByteOf(bits) == bits[1] + 2 * bits[2] + 4 * bits[3] + 8 * bits[4]
                    + 16 * bits[5] + 32 * bits[6] + 64 * bits[7] + 128 * bits[8]

\* ^ of C
Xor(a, b) == ByteOf([k \in 1 .. 8 |-> (BitOf(a, k) + BitOf(b, k)) % 2])

table ==
    << 0, 94, 188, 226, 97, 63, 221, 131, 194, 156, 126, 32, 163, 253, 31, 65,
       157, 195, 33, 127, 252, 162, 64, 30, 95, 1, 227, 189, 62, 96, 130, 220,
       35, 125, 159, 193, 66, 28, 254, 160, 225, 191, 93, 3, 128, 222, 60, 98,
       190, 224, 2, 92, 223, 129, 99, 61, 124, 34, 192, 158, 29, 67, 161, 255,
       70, 24, 250, 164, 39, 121, 155, 197, 132, 218, 56, 102, 229, 187, 89, 7,
       219, 133, 103, 57, 186, 228, 6, 88, 25, 71, 165, 251, 120, 38, 196, 154,
       101, 59, 217, 135, 4, 90, 184, 230, 167, 249, 27, 69, 198, 152, 122, 36,
       248, 166, 68, 26, 153, 199, 37, 123, 58, 100, 134, 216, 91, 5, 231, 185,
       140, 210, 48, 110, 237, 179, 81, 15, 78, 16, 242, 172, 47, 113, 147, 205,
       17, 79, 173, 243, 112, 46, 204, 146, 211, 141, 111, 49, 178, 236, 14, 80,
       175, 241, 19, 77, 206, 144, 114, 44, 109, 51, 209, 143, 12, 82, 176, 238,
       50, 108, 142, 208, 83, 13, 239, 177, 240, 174, 76, 18, 145, 207, 45, 115,
       202, 148, 118, 40, 171, 245, 23, 73, 8, 86, 180, 234, 105, 55, 213, 139,
       87, 9, 235, 181, 54, 104, 138, 212, 149, 203, 41, 119, 244, 170, 72, 22,
       233, 183, 85, 11, 136, 214, 52, 106, 43, 117, 151, 201, 74, 20, 246, 168,
       116, 42, 200, 150, 21, 75, 169, 247, 182, 232, 10, 84, 215, 137, 107, 53 >>

\* _calc_crc
CalcCrc(crc, data) == table[Xor(crc, data) + 1]

\* _calc_crc_block, from 0: owb_crc8_bytes as the firmware calls it.
Crc(bytes) ==
    LET crc[i \in 0 .. Len(bytes)] == IF i = 0 THEN 0 ELSE CalcCrc(crc[i - 1], bytes[i])
    IN crc[Len(bytes)]

\* What a sensor computes: a register shifted once a bit, with x^8 + x^5 + x^4 + 1 fed back.
ShiftedOut(data) ==
    LET register[i \in 0 .. 8] ==
            IF i = 0 THEN data
            ELSE Xor(register[i - 1] \div 2, IF register[i - 1] % 2 = 1 THEN 140 ELSE 0)
    IN register[8]

\* The table is the sensors' polynomial.
ASSUME TableIsPolynomial ==
    /\ Len(table) = 256
    /\ \A b \in Byte : table[b + 1] = ShiftedOut(b)
\* And looked up in it, no two bytes give the same.
ASSUME TableIsPermutation ==
    /\ table[1] = 0
    /\ \A a \in Byte : table[a + 1] \in Byte /\ \A b \in Byte \ {a} : table[a + 1] # table[b + 1]
=============================================================================
