------------------------------ MODULE NipAddr -------------------------------
(***************************************************************************)
(* The variable-length addresses of NewIP: src/common/nip_addr.c.  The     *)
(* first byte of an address determines its length; each length covers its  *)
(* own range of values.                                                    *)
(*                                                                         *)
(* struct nip_addr is a record of its length in bits and its eight bytes.  *)
(***************************************************************************)
EXTENDS Integers, Sequences

Byte == 0 .. 255
NIP_8BIT_ADDR_INDEX_MAX == 8
nip_addr == [bitlen : 0 .. 255, field8 : [1 .. NIP_8BIT_ADDR_INDEX_MAX -> Byte]]

is_1byte_addr_flag(b)  == b <= 220
is_2byte_addr_flag(b)  == b > 220 /\ b <= 240
is_3byte_addr_flag(b)  == b = 241
is_5byte_addr_flag(b)  == b = 242
is_7byte_addr_flag(b)  == b = 243
is_8byte_addr_flag(b)  == b = 254
is_public_addr_flag(b) == b = 255

\* The length of an address with this first byte, 0 when it is unknown.
get_nip_addr_len(b) ==
  CASE is_1byte_addr_flag(b) -> 1
    [] is_2byte_addr_flag(b) \/ is_public_addr_flag(b) -> 2
    [] is_3byte_addr_flag(b) -> 3
    [] is_5byte_addr_flag(b) -> 5
    [] is_7byte_addr_flag(b) -> 7
    [] is_8byte_addr_flag(b) -> 8
    [] OTHER -> 0

\* bitlen / NIP_ADDR_BIT_LEN_8
AddrLen(addr) == addr.bitlen \div 8

\* Mutant: the range of three-byte addresses begins one too early.
nip_addr_valid_early(addr) ==
  LET f == addr.field8
      n == AddrLen(addr)
  IN  /\ \A i \in 1 .. NIP_8BIT_ADDR_INDEX_MAX : i > n => f[i] = 0
      /\ \/ is_2byte_addr_flag(f[1]) /\ n = 2 /\ (f[1] > 221 \/ f[2] >= 221)
         \/ is_3byte_addr_flag(f[1]) /\ n = 3 /\ f[2] >= 19

\* nip_addr_invalid, negated: the bytes after the length are zero, and the check
\* function that recognises the first byte and the length accepts the second and
\* third byte.
nip_addr_valid(addr) ==
  LET f == addr.field8
      n == AddrLen(addr)
  IN  /\ \A i \in 1 .. NIP_8BIT_ADDR_INDEX_MAX : i > n => f[i] = 0
      /\ \/ is_1byte_addr_flag(f[1]) /\ n = 1
         \/ is_2byte_addr_flag(f[1]) /\ n = 2 /\ (f[1] > 221 \/ f[2] >= 221)
         \/ is_3byte_addr_flag(f[1]) /\ n = 3 /\ f[2] >= 20
         \/ is_5byte_addr_flag(f[1]) /\ n = 5 /\ (f[2] > 0 \/ f[3] >= 1)
         \/ is_7byte_addr_flag(f[1]) /\ n = 7 /\ (f[2] > 0 \/ f[3] >= 1)
         \/ is_8byte_addr_flag(f[1]) /\ n = 8
         \/ is_public_addr_flag(f[1]) /\ n = 2

\* build_nip_addr: the bytes it writes.
build_nip_addr(addr) == SubSeq(addr.field8, 1, get_nip_addr_len(addr.field8[1]))

\* decode_nip_addr from position p of buf into a zeroed structure.
DecodedAddr(buf, p) ==
  LET n == get_nip_addr_len(buf[p])
  IN  [bitlen |-> 8 * n,
       field8 |-> [i \in 1 .. NIP_8BIT_ADDR_INDEX_MAX |->
                     IF i <= n THEN buf[p + i - 1] ELSE 0]]

\* decode_nip_addr returns NULL.
DecodeFails(buf, p) ==
  get_nip_addr_len(buf[p]) = 0 \/ ~nip_addr_valid(DecodedAddr(buf, p))

-----------------------------------------------------------------------------
\* The value a short address stands for, as six bytes: the ranges in the comments
\* of nip_addr.c.
AddrValue(addr) ==
  LET f == addr.field8 IN
  CASE AddrLen(addr) = 1 -> <<0, 0, 0, 0, 0, f[1]>>
    [] AddrLen(addr) = 2 -> <<0, 0, 0, 0, f[1] - 221, f[2]>>
    [] AddrLen(addr) = 3 -> <<0, 0, 0, 0, f[2], f[3]>>
    [] AddrLen(addr) = 5 -> <<0, 0, f[2], f[3], f[4], f[5]>>
    [] AddrLen(addr) = 7 -> <<f[2], f[3], f[4], f[5], f[6], f[7]>>

ShortAddr(addr) == nip_addr_valid(addr) /\ addr.field8[1] < 254
=============================================================================
