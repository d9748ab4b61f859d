--------------------------- MODULE MCShortInputs ----------------------------
(***************************************************************************)
(* ShortInputs with bytes of one bit and words of eight: the lengths, the  *)
(* offsets and the number of bytes in a word are those of the source, and  *)
(* shifts are by an eighth, rounded up, of the bits the source shifts by.  *)
(***************************************************************************)
EXTENDS ShortInputs, FiniteSetsExt

Bits == 0 .. 255

Eighth(n) == (n + 7) \div 8

MCPack(f) == f[0] + 2 * f[1] + 4 * f[2] + 8 * f[3] + 16 * f[4] + 32 * f[5]
               + 64 * f[6] + 128 * f[7]
MCNum(n)  == n

Bit(v, i) == (v \div (2 ^ i)) % 2

(* Evaluated once and looked up.                                           *)
XorTable ==
  [v \in Bits |->
    [w \in Bits |->
      MapThenSumSet(LAMBDA i : (2 ^ i) * ((Bit(v, i) + Bit(w, i)) % 2), 0 .. 7)]]

MCXor(v, w)   == XorTable[v][w]
MCPlus(v, w)  == (v + w) % 256
MCTimes(v, w) == (v * w) % 256
MCShr(v, n)   == v \div (2 ^ Eighth(n))
MCRotl(v, n)  == ((v * 2 ^ Eighth(n)) % 256) + (v \div 2 ^ (8 - Eighth(n)))

(* Inputs of every length with one byte set, or two up to 8 bytes: a pair *)
(* of them differs in up to two bytes, or four, so that a byte that is not *)
(* read, or that falls on another, shows.                                  *)
FewSet ==
  UNION {{[i \in 1 .. l |-> IF i \in S THEN 1 ELSE 0] :
            S \in UNION {kSubset(k, 1 .. l) : k \in 0 .. IF l <= 8 THEN 2 ELSE 1}}
         : l \in 0 .. MaxShort}
=============================================================================
