---------------------------- MODULE NipHdr_proofs ----------------------------
(***************************************************************************)
(* Theorems about NipAddr and NipHdr, for every set of valid addresses and *)
(* every payload length.                                                   *)
(***************************************************************************)
EXTENDS NipHdr, SequenceTheorems, TLAPS

-----------------------------------------------------------------------------
(* Addresses.                                                              *)

\* The first byte of an address that nip_addr_invalid accepts determines its length:
\* build_nip_addr writes as many bytes as bitlen says.
LEMMA ValidLength ==
  ASSUME NEW a \in nip_addr, nip_addr_valid(a)
  PROVE  /\ get_nip_addr_len(a.field8[1]) = AddrLen(a)
         /\ AddrLen(a) \in {1, 2, 3, 5, 7, 8}
<1>1. a.field8[1] \in 0 .. 255
  BY DEF nip_addr, Byte, NIP_8BIT_ADDR_INDEX_MAX
<1> QED
  BY <1>1 DEF nip_addr_valid, get_nip_addr_len, is_1byte_addr_flag, is_2byte_addr_flag,
     is_3byte_addr_flag, is_5byte_addr_flag, is_7byte_addr_flag, is_8byte_addr_flag,
     is_public_addr_flag

\* What build_nip_addr writes is that long.
LEMMA BuildLength ==
  ASSUME NEW a \in nip_addr, nip_addr_valid(a)
  PROVE  /\ build_nip_addr(a) \in Seq(Byte)
         /\ Len(build_nip_addr(a)) = AddrLen(a)
<1> DEFINE n == get_nip_addr_len(a.field8[1])
<1>1. n \in 1 .. 8 /\ n = AddrLen(a)
  BY ValidLength
<1>2. \A i \in 1 .. 8 : a.field8[i] \in Byte
  BY DEF nip_addr, NIP_8BIT_ADDR_INDEX_MAX
<1> HIDE DEF n
<1>3. /\ SubSeq(a.field8, 1, n) \in Seq(Byte)
      /\ Len(SubSeq(a.field8, 1, n)) = n
  BY <1>1, <1>2, SubSeqProperties
<1> QED
  BY <1>1, <1>3 DEF build_nip_addr, n

\* The six bytes v of the value of a short address f of length n.
ValueBytes(f, n, v) ==
  \/ /\ n = 1 /\ f[1] <= 220
     /\ v[1] = 0 /\ v[2] = 0 /\ v[3] = 0 /\ v[4] = 0 /\ v[5] = 0 /\ v[6] = f[1]
  \/ /\ n = 2 /\ f[1] > 220 /\ f[1] <= 240 /\ (f[1] > 221 \/ f[2] >= 221)
     /\ v[1] = 0 /\ v[2] = 0 /\ v[3] = 0 /\ v[4] = 0 /\ v[5] = f[1] - 221 /\ v[6] = f[2]
  \/ /\ n = 3 /\ f[1] = 241 /\ f[2] >= 20
     /\ v[1] = 0 /\ v[2] = 0 /\ v[3] = 0 /\ v[4] = 0 /\ v[5] = f[2] /\ v[6] = f[3]
  \/ /\ n = 5 /\ f[1] = 242 /\ (f[2] > 0 \/ f[3] >= 1)
     /\ v[1] = 0 /\ v[2] = 0 /\ v[3] = f[2] /\ v[4] = f[3] /\ v[5] = f[4] /\ v[6] = f[5]
  \/ /\ n = 7 /\ f[1] = 243 /\ (f[2] > 0 \/ f[3] >= 1)
     /\ v[1] = f[2] /\ v[2] = f[3] /\ v[3] = f[4] /\ v[4] = f[5] /\ v[5] = f[6]
     /\ v[6] = f[7]

\* The check functions of nip_addr.c give each length its own range of values.
LEMMA ValueRange ==
  ASSUME NEW a \in nip_addr, ShortAddr(a)
  PROVE  ValueBytes(a.field8, AddrLen(a), AddrValue(a))
<1> DEFINE f == a.field8
           n == AddrLen(a)
<1>1. f[1] \in 0 .. 255
  BY DEF nip_addr, Byte, NIP_8BIT_ADDR_INDEX_MAX
<1>2. \/ n = 1 /\ f[1] <= 220
      \/ n = 2 /\ f[1] > 220 /\ f[1] <= 240 /\ (f[1] > 221 \/ f[2] >= 221)
      \/ n = 3 /\ f[1] = 241 /\ f[2] >= 20
      \/ n = 5 /\ f[1] = 242 /\ (f[2] > 0 \/ f[3] >= 1)
      \/ n = 7 /\ f[1] = 243 /\ (f[2] > 0 \/ f[3] >= 1)
  BY <1>1 DEF ShortAddr, nip_addr_valid, is_1byte_addr_flag, is_2byte_addr_flag,
     is_3byte_addr_flag, is_5byte_addr_flag, is_7byte_addr_flag, is_8byte_addr_flag,
     is_public_addr_flag
<1>3. CASE n = 1
  <2>1. AddrValue(a) = <<0, 0, 0, 0, 0, f[1]>>
    BY <1>3 DEF AddrValue
  <2> QED
    BY <1>2, <1>3, <2>1 DEF ValueBytes
<1>4. CASE n = 2
  <2>1. AddrValue(a) = <<0, 0, 0, 0, f[1] - 221, f[2]>>
    BY <1>4 DEF AddrValue
  <2> QED
    BY <1>2, <1>4, <2>1 DEF ValueBytes
<1>5. CASE n = 3
  <2>1. AddrValue(a) = <<0, 0, 0, 0, f[2], f[3]>>
    BY <1>5 DEF AddrValue
  <2> QED
    BY <1>2, <1>5, <2>1 DEF ValueBytes
<1>6. CASE n = 5
  <2>1. AddrValue(a) = <<0, 0, f[2], f[3], f[4], f[5]>>
    BY <1>6 DEF AddrValue
  <2> QED
    BY <1>2, <1>6, <2>1 DEF ValueBytes
<1>7. CASE n = 7
  <2>1. AddrValue(a) = <<f[2], f[3], f[4], f[5], f[6], f[7]>>
    BY <1>7 DEF AddrValue
  <2> QED
    BY <1>2, <1>7, <2>1 DEF ValueBytes
<1> QED
  BY <1>2, <1>3, <1>4, <1>5, <1>6, <1>7

\* Two different addresses that nip_addr_invalid accepts never stand for the same
\* value: every value has one representation, its shortest.
THEOREM ValueIsAddress ==
  ASSUME NEW a \in nip_addr, NEW b \in nip_addr, ShortAddr(a), ShortAddr(b),
         AddrValue(a) = AddrValue(b)
  PROVE  a.field8 = b.field8 /\ AddrLen(a) = AddrLen(b)
<1> DEFINE f == a.field8
           g == b.field8
           m == AddrLen(a)
           n == AddrLen(b)
           v == AddrValue(a)
<1>1. f \in [1 .. 8 -> 0 .. 255] /\ g \in [1 .. 8 -> 0 .. 255]
  BY DEF nip_addr, Byte, NIP_8BIT_ADDR_INDEX_MAX
<1>2. ValueBytes(f, m, v) /\ ValueBytes(g, n, v)
  BY ValueRange
<1>3. /\ \A i \in 1 .. 8 : i > m => f[i] = 0
      /\ \A i \in 1 .. 8 : i > n => g[i] = 0
  BY DEF ShortAddr, nip_addr_valid, NIP_8BIT_ADDR_INDEX_MAX
<1> HIDE DEF f, g, m, n, v
<1>4. m = n
  BY <1>1, <1>2 DEF ValueBytes
<1>5. /\ f[1] = g[1] /\ f[2] = g[2] /\ f[3] = g[3] /\ f[4] = g[4]
      /\ f[5] = g[5] /\ f[6] = g[6] /\ f[7] = g[7] /\ f[8] = g[8]
  BY <1>1, <1>2, <1>3, <1>4 DEF ValueBytes
<1>6. f = g
  BY <1>1, <1>5
<1> QED
  BY <1>4, <1>6 DEF f, g, m, n

-----------------------------------------------------------------------------
(* Headers.                                                                *)

\* The header that encap builds has the length it reports.
LEMMA EncapLength ==
  ASSUME NEW type \in {"udp", "comm"}, NEW s \in Addrs, NEW d \in Addrs,
         NEW n \in Payloads
  PROVE  Len(nip_hdr_encap(type, s, d, n)) = EncapLen(type, s, d)
<1>1. /\ s \in nip_addr /\ nip_addr_valid(s)
      /\ d \in nip_addr /\ nip_addr_valid(d)
  BY HdrAssumption DEF HdrAssumption
<1> DEFINE B == build_nip_addr(d)
           C == build_nip_addr(s)
           T == IF type = "udp" THEN <<>> ELSE TwoBytes(EncapLen(type, s, d) + n)
           M == Bitmap(type, s, d)
<1>2. /\ B \in Seq(Byte) /\ Len(B) = AddrLen(d)
      /\ C \in Seq(Byte) /\ Len(C) = AddrLen(s)
  BY <1>1, BuildLength
<1>3. AddrLen(s) \in Nat /\ AddrLen(d) \in Nat /\ n \in Nat
  BY <1>1, ValidLength, HdrAssumption DEF HdrAssumption
<1>4. EncapLen(type, s, d) \in Nat
  BY <1>3 DEF EncapLen
<1>5. T \in Seq(Int) /\ Len(T) = IF type = "udp" THEN 0 ELSE 2
  BY <1>3, <1>4 DEF TwoBytes
<1>6. M \in Seq(Int) /\ Len(M) = IF OddAddrs(s, d) THEN 1 ELSE 2
  BY DEF Bitmap
<1>7. B \in Seq(Int) /\ C \in Seq(Int)
  <2>1. Byte \subseteq Int
    BY DEF Byte
  <2> QED
    BY <1>2, <2>1, SeqMonotonic
<1>8. nip_hdr_encap(type, s, d, n) = M \o <<TTL>> \o T \o <<NextHdr>> \o B \o C
  BY DEF nip_hdr_encap
<1> HIDE DEF B, C, T, M
<1>9. <<TTL>> \in Seq(Int) /\ <<NextHdr>> \in Seq(Int)
  BY DEF TTL, NextHdr
<1>10. Len(M \o <<TTL>> \o T \o <<NextHdr>> \o B \o C)
         = Len(M) + 1 + Len(T) + 1 + Len(B) + Len(C)
  <2>1. M \o <<TTL>> \in Seq(Int) /\ Len(M \o <<TTL>>) = Len(M) + 1
    <3>1. M \in Seq(Int) /\ Len(<<TTL>>) = 1
      BY <1>6
    <3> QED
      BY <1>9, <3>1, ConcatProperties
  <2> DEFINE P == M \o <<TTL>>
  <2> HIDE DEF P
  <2>2. P \o T \in Seq(Int) /\ Len(P \o T) = Len(P) + Len(T)
    BY <1>5, <2>1, ConcatProperties DEF P
  <2> DEFINE Q == P \o T
  <2> HIDE DEF Q
  <2>3. Q \o <<NextHdr>> \in Seq(Int) /\ Len(Q \o <<NextHdr>>) = Len(Q) + 1
    BY <1>9, <2>2 DEF Q
  <2> DEFINE R == Q \o <<NextHdr>>
  <2> HIDE DEF R
  <2>4. R \o B \in Seq(Int) /\ Len(R \o B) = Len(R) + Len(B)
    BY <1>7, <2>3, ConcatProperties DEF R
  <2>5. Len(R \o B \o C) = Len(R \o B) + Len(C)
    BY <1>7, <2>4, ConcatProperties
  <2> QED
    BY <2>1, <2>2, <2>3, <2>4, <2>5 DEF P, Q, R
<1>11. EncapLen(type, s, d) = Len(M) + 1 + Len(T) + 1 + Len(B) + Len(C)
  <2>1. CASE OddAddrs(s, d)
    BY <1>2, <1>3, <1>5, <1>6, <2>1 DEF EncapLen
  <2>2. CASE ~OddAddrs(s, d)
    BY <1>2, <1>3, <1>5, <1>6, <2>2 DEF EncapLen
  <2> QED
    BY <2>1, <2>2
<1> QED
  BY <1>8, <1>10, <1>11

\* For addresses that nip_addr_invalid accepts, the header is even, fits the room
\* that get_nip_hdr_len makes callers reserve, and never exceeds NIP_HDR_MAX.
LEMMA EncapFits ==
  ASSUME NEW type \in {"udp", "comm"}, NEW s \in Addrs, NEW d \in Addrs
  PROVE  /\ EncapLen(type, s, d) <= get_nip_hdr_len(type, s, d)
         /\ EncapLen(type, s, d) <= NIP_HDR_MAX
         /\ EncapLen(type, s, d) % 2 = 0
<1>1. /\ AddrLen(s) \in {1, 2, 3, 5, 7, 8} /\ get_nip_addr_len(s.field8[1]) = AddrLen(s)
      /\ AddrLen(d) \in {1, 2, 3, 5, 7, 8} /\ get_nip_addr_len(d.field8[1]) = AddrLen(d)
  BY ValidLength, HdrAssumption DEF HdrAssumption
<1> QED
  BY <1>1 DEF EncapLen, get_nip_hdr_len, OddAddrs, NIP_HDR_MAX

\* What Send and SendExt record of the packet in flight.
SentOK ==
  stage # "idle" =>
    /\ sent = [type |-> sent.type, saddr |-> sent.saddr, daddr |-> sent.daddr,
               payload |-> sent.payload, hdr |-> sent.hdr, cut |-> sent.cut]
    /\ sent.saddr \in Addrs /\ sent.daddr \in Addrs
    /\ Native => sent.hdr = EncapLen(sent.type, sent.saddr, sent.daddr)

\* Sending records the addresses and the length of the header; nothing changes them.
LEMMA SentInvariant == Spec => []SentOK
<1>1. Init => SentOK
  BY DEF Init, SentOK
<1>2. SentOK /\ [Next]_vars => SentOK'
  <2> SUFFICES ASSUME SentOK, [Next]_vars PROVE SentOK'
    OBVIOUS
  <2>1. ASSUME NEW type \in {"udp", "comm"}, NEW s \in Addrs, NEW d \in Addrs,
               NEW n \in Payloads, Send(type, s, d, n)
        PROVE  SentOK'
    BY <2>1, EncapLength DEF Send, SentOK, Native
  <2>2. ASSUME NEW s \in Addrs, NEW d \in Addrs, NEW n \in Payloads,
               NEW more \in BOOLEAN, NEW ext \in 0 .. MaxExt,
               SendExt(s, d, n, more, ext)
        PROVE  SentOK'
    BY <2>2 DEF SendExt, SentOK, Native
  <2>3. ASSUME NEW n \in 1 .. MaxPad, Pad(n)
        PROVE  SentOK'
    BY <2>3 DEF Pad, SentOK, Native
  <2>4. ASSUME NEW n \in 1 .. Len(wire) - 1, Truncate(n)
        PROVE  SentOK'
    BY <2>4 DEF Truncate, SentOK, Native
  <2>5. ASSUME NEW fill \in Garbage, Receive(fill)
        PROVE  SentOK'
    BY <2>5 DEF Receive, SentOK, Native
  <2>6. CASE UNCHANGED vars
    BY <2>6 DEF vars, SentOK, Native
  <2> QED
    BY <2>1, <2>2, <2>3, <2>4, <2>5, <2>6 DEF Next
<1> QED
  BY <1>1, <1>2, PTL DEF Spec

\* nip_hdr_udp_encap and nip_hdr_comm_encap never write past the room reserved by
\* get_nip_hdr_len or past NIP_HDR_MAX, and leave the transport header aligned.
THEOREM HeaderFits == Spec => []HdrFits
<1>1. SentOK => HdrFits
  BY EncapFits DEF SentOK, HdrFits, Native
<1> QED
  BY SentInvariant, <1>1, PTL

\* For every set of valid addresses, addresses that stand for one value have the same
\* bytes and length: nip_addr_eq, which compares bitlen and bytes, tells apart only what
\* is different, or has a bitlen that is no multiple of eight.
THEOREM AddressesCanonical == Spec => []CanonicalAddr
<1>1. SentOK => CanonicalAddr
  BY ValueIsAddress, HdrAssumption DEF HdrAssumption, SentOK, CanonicalAddr
<1> QED
  BY SentInvariant, <1>1, PTL

-----------------------------------------------------------------------------
(* The receiver: where nip_hdr_parse finds the fields.                     *)

PNext(buf) == BitmapNum(buf) + 2 + (IF Bit(buf[1], 32) THEN 2 ELSE 0)
PDst(buf)  == PNext(buf) + 1
PSrc(buf)  == PDst(buf) + AddrLen(DecodedAddr(buf, PDst(buf)))
Real0(buf) == PSrc(buf) - 1
                + (IF Bit(buf[1], 2) THEN AddrLen(DecodedAddr(buf, PSrc(buf))) ELSE 0)
HasLen(buf) == BitmapNum(buf) >= 2 /\ Bit(buf[2], 128)

\* A header is refused when an address does not decode or the fields reach the end of the
\* packet.
LEMMA ParseFails ==
  ASSUME NEW buf, NEW len,
         \/ BitmapNum(buf) = 0
         \/ DecodeFails(buf, PDst(buf))
         \/ Bit(buf[1], 2) /\ DecodeFails(buf, PSrc(buf))
         \/ Real0(buf) >= len
         \/ HasLen(buf) /\ Bit(buf[1], 32) /\ buf[Real0(buf) + 1] >= len
  PROVE  ~nip_hdr_parse(buf, len).ok
  BY DEF nip_hdr_parse, PNext, PDst, PSrc, Real0, HasLen, Error

\* A header that is accepted.
LEMMA ParseSucceeds ==
  ASSUME NEW buf, NEW len, BitmapNum(buf) # 0,
         Bit(buf[1], 64), Bit(buf[1], 16), Bit(buf[1], 4), Bit(buf[1], 2),
         ~DecodeFails(buf, PDst(buf)), ~DecodeFails(buf, PSrc(buf)), ~(Real0(buf) >= len),
         NEW l, l = (IF HasLen(buf) THEN buf[Real0(buf) + 1] ELSE 0),
         NEW r, r = Real0(buf) + (IF HasLen(buf) THEN 1 ELSE 0),
         ~(r >= len), HasLen(buf) => ~(l >= len) /\ l # 0 /\ ~(l < r),
         ~HasLen(buf) => ~(BitmapNum(buf) >= 3) /\ (BitmapNum(buf) >= 2 => buf[2] % 128 = 0)
  PROVE  nip_hdr_parse(buf, len) =
           [ok |-> TRUE, offset |-> IF l > r THEN l ELSE r,
            daddr |-> DecodedAddr(buf, PDst(buf)), saddr |-> DecodedAddr(buf, PSrc(buf)),
            nexthdr |-> buf[PNext(buf)], hasTotal |-> Bit(buf[1], 32),
            total |-> IF Bit(buf[1], 32)
                        THEN 256 * buf[BitmapNum(buf) + 2] + buf[BitmapNum(buf) + 3] ELSE 0]
  BY DEF nip_hdr_parse, PNext, PDst, PSrc, Real0, HasLen, Error

\* decode_nip_addr finds a length whatever the first byte is.
LEMMA DecodedLength ==
  ASSUME NEW buf, NEW p
  PROVE  /\ AddrLen(DecodedAddr(buf, p)) = get_nip_addr_len(buf[p])
         /\ get_nip_addr_len(buf[p]) \in {0, 1, 2, 3, 5, 7, 8}
<1>1. PICK n : n = get_nip_addr_len(buf[p])
  OBVIOUS
<1>2. n \in {0, 1, 2, 3, 5, 7, 8}
  BY <1>1 DEF get_nip_addr_len
<1>3. AddrLen(DecodedAddr(buf, p)) = (8 * n) \div 8
  BY <1>1 DEF AddrLen, DecodedAddr
<1> QED
  BY <1>1, <1>2, <1>3

\* An address that build_nip_addr wrote at p is decoded to the same address.
LEMMA DecodedIsBuilt ==
  ASSUME NEW a \in nip_addr, nip_addr_valid(a), NEW buf, NEW p \in Int,
         \A i \in 1 .. AddrLen(a) : buf[p + i - 1] = a.field8[i]
  PROVE  /\ SameAddr(DecodedAddr(buf, p), a) /\ ~DecodeFails(buf, p)
         /\ AddrLen(DecodedAddr(buf, p)) = AddrLen(a)
<1>1. PICK n : n = AddrLen(a)
  OBVIOUS
<1>2. n \in {1, 2, 3, 5, 7, 8} /\ get_nip_addr_len(a.field8[1]) = n
  BY <1>1, ValidLength
<1>3. a.field8 \in [1 .. 8 -> Byte]
  BY DEF nip_addr, NIP_8BIT_ADDR_INDEX_MAX
<1>4. buf[p] = a.field8[1]
  <2>1. p + 1 - 1 = p /\ 1 \in 1 .. AddrLen(a)
    BY <1>1, <1>2
  <2> QED
    BY <2>1
<1>5. get_nip_addr_len(buf[p]) = n /\ AddrLen(DecodedAddr(buf, p)) = n
  BY <1>2, <1>4, DecodedLength
<1>6. \A i \in 1 .. 8 : i > n => a.field8[i] = 0
  BY <1>1 DEF nip_addr_valid, NIP_8BIT_ADDR_INDEX_MAX
<1>7. DecodedAddr(buf, p).field8 = [i \in 1 .. 8 |-> IF i <= n THEN buf[p + i - 1] ELSE 0]
  BY <1>5 DEF DecodedAddr, NIP_8BIT_ADDR_INDEX_MAX
<1>8. ASSUME NEW i \in 1 .. 8
      PROVE  (IF i <= n THEN buf[p + i - 1] ELSE 0) = a.field8[i]
  <2>1. CASE i <= n
    <3>1. i \in 1 .. AddrLen(a)
      BY <1>1, <1>2, <2>1
    <3> QED
      BY <2>1, <3>1
  <2>2. CASE ~(i <= n)
    <3>1. i > n
      BY <1>2, <2>2
    <3> QED
      BY <1>6, <2>2, <3>1
  <2> QED
    BY <2>1, <2>2
<1>9. DecodedAddr(buf, p).field8 = a.field8
  BY <1>3, <1>7, <1>8
<1>10. nip_addr_valid(DecodedAddr(buf, p))
  BY <1>1, <1>5, <1>9 DEF nip_addr_valid
<1>11. ~DecodeFails(buf, p)
  BY <1>2, <1>5, <1>10 DEF DecodeFails
<1> QED
  BY <1>1, <1>5, <1>9, <1>11 DEF SameAddr

-----------------------------------------------------------------------------
(* The bitmap bytes m that the stack and later versions send, with t bytes *)
(* of total length and e bytes of header length and unknown fields.        *)

Kind(m, t, e) ==
  \/ t = 0 /\ e = 0 /\ (m = <<86>> \/ m = <<87, 0>>)
  \/ t = 2 /\ e = 0 /\ (m = <<118>> \/ m = <<119, 0>>)
  \/ t = 2 /\ e \in Nat /\ e > 0 /\ (m = <<119, 192>> \/ m = <<119, 129, 64>>)

\* The bits of the bitmap bytes.
LEMMA Bits ==
  /\ Bit(87, 1) /\ Bit(119, 1) /\ Bit(129, 1)
  /\ ~Bit(86, 1) /\ ~Bit(118, 1) /\ ~Bit(0, 1) /\ ~Bit(192, 1) /\ ~Bit(64, 1)
  /\ \A b \in {86, 87, 118, 119} : ~Bit(b, 128) /\ Bit(b, 64) /\ Bit(b, 16) /\ Bit(b, 4)
                                    /\ Bit(b, 2)
  /\ Bit(118, 32) /\ Bit(119, 32) /\ ~Bit(86, 32) /\ ~Bit(87, 32)
  /\ Bit(192, 128) /\ Bit(129, 128) /\ ~Bit(0, 128)
  BY DEF Bit

\* The number of bitmap bytes is found when one of the first eight ends the bitmap.
LEMMA BitmapIs ==
  ASSUME NEW buf, ~Bit(buf[1], 128), NEW n \in 1 .. 8, ~Bit(buf[n], 1),
         \A k \in 1 .. n - 1 : Bit(buf[k], 1)
  PROVE  BitmapNum(buf) = n
<1>1. PICK S : S = {k \in 1 .. 8 : /\ ~Bit(buf[k], 1)
                                   /\ \A j \in 1 .. k - 1 : Bit(buf[j], 1)}
  OBVIOUS
<1>2. n \in S
  BY <1>1
<1>3. ASSUME NEW k \in S
      PROVE  k = n
  <2>1. k \in 1 .. 8 /\ ~Bit(buf[k], 1) /\ \A j \in 1 .. k - 1 : Bit(buf[j], 1)
    BY <1>1
  <2>2. ~(k < n) /\ ~(n < k)
    <3>1. k < n => k \in 1 .. n - 1
      BY <2>1
    <3>2. n < k => n \in 1 .. k - 1
      BY <2>1
    <3> QED
      BY <2>1, <3>1, <3>2
  <2> QED
    BY <2>1, <2>2
<1>4. (CHOOSE k \in S : TRUE) = n
  BY <1>2, <1>3
<1> QED
  BY <1>1, <1>2, <1>4 DEF BitmapNum

\* When the first bytes do not end it, it is longer, or there is none.
LEMMA BitmapLonger ==
  ASSUME NEW buf, NEW n \in Nat, \A k \in 1 .. n : Bit(buf[k], 1)
  PROVE  BitmapNum(buf) \in 0 .. 8 /\ (BitmapNum(buf) = 0 \/ BitmapNum(buf) > n)
<1>1. PICK S : S = {k \in 1 .. 8 : /\ ~Bit(buf[k], 1)
                                   /\ \A j \in 1 .. k - 1 : Bit(buf[j], 1)}
  OBVIOUS
<1>2. BitmapNum(buf) = IF Bit(buf[1], 128) \/ S = {} THEN 0 ELSE CHOOSE k \in S : TRUE
  BY <1>1 DEF BitmapNum
<1>3. ASSUME NEW k \in S
      PROVE  k \in 1 .. 8 /\ k > n
  <2>1. k \in 1 .. 8 /\ ~Bit(buf[k], 1)
    BY <1>1
  <2>2. k \notin 1 .. n
    BY <2>1
  <2> QED
    BY <2>1, <2>2
<1>4. S # {} => (CHOOSE k \in S : TRUE) \in S
  OBVIOUS
<1> QED
  BY <1>2, <1>3, <1>4

\* The bitmap of a packet whose bytes are those of m.
LEMMA BitmapRead ==
  ASSUME NEW m, NEW t, NEW e, Kind(m, t, e), NEW buf,
         \A i \in 1 .. Len(m) : buf[i] = m[i]
  PROVE  /\ BitmapNum(buf) = Len(m) /\ Len(m) \in 1 .. 3
         /\ Bit(buf[1], 64) /\ Bit(buf[1], 16) /\ Bit(buf[1], 4) /\ Bit(buf[1], 2)
         /\ Bit(buf[1], 32) <=> t = 2
         /\ HasLen(buf) <=> e > 0
         /\ e = 0 => Len(m) < 3 /\ (Len(m) = 2 => buf[2] = 0)
         /\ t \in {0, 2} /\ e \in Nat /\ (e > 0 => t = 2)
<1>1. CASE m = <<86>> \/ m = <<118>>
  <2>1. Len(m) = 1 /\ buf[1] = m[1] /\ m[1] \in {86, 118}
    BY <1>1
  <2>2. ~Bit(buf[1], 1) /\ ~Bit(buf[1], 128)
    BY <2>1, Bits
  <2>3. BitmapNum(buf) = 1
    <3>1. PICK n \in 1 .. 8 : n = 1
      OBVIOUS
    <3>2. ~Bit(buf[n], 1) /\ \A k \in 1 .. n - 1 : Bit(buf[k], 1)
      BY <2>2, <3>1
    <3>3. BitmapNum(buf) = n
      BY <2>2, <3>2, BitmapIs
    <3> QED
      BY <3>1, <3>3
  <2>4. ~HasLen(buf)
    BY <2>3 DEF HasLen
  <2>5. e = 0 /\ ((t = 0 /\ m[1] = 86) \/ (t = 2 /\ m[1] = 118))
    BY <1>1 DEF Kind
  <2> QED
    BY <2>1, <2>3, <2>4, <2>5, Bits
<1>2. CASE m = <<87, 0>> \/ m = <<119, 0>> \/ m = <<119, 192>>
  <2>1. /\ Len(m) = 2 /\ buf[1] = m[1] /\ buf[2] = m[2]
        /\ m[1] \in {87, 119} /\ m[2] \in {0, 192}
    BY <1>2
  <2>2. Bit(buf[1], 1) /\ ~Bit(buf[1], 128) /\ ~Bit(buf[2], 1)
    BY <2>1, Bits
  <2>3. BitmapNum(buf) = 2
    <3>1. PICK n \in 1 .. 8 : n = 2
      OBVIOUS
    <3>2. ~Bit(buf[n], 1) /\ \A k \in 1 .. n - 1 : Bit(buf[k], 1)
      BY <2>2, <3>1
    <3>3. BitmapNum(buf) = n
      BY <2>2, <3>2, BitmapIs
    <3> QED
      BY <3>1, <3>3
  <2>4. \/ e = 0 /\ t = 0 /\ m[1] = 87 /\ m[2] = 0
        \/ e = 0 /\ t = 2 /\ m[1] = 119 /\ m[2] = 0
        \/ e \in Nat /\ e > 0 /\ t = 2 /\ m[1] = 119 /\ m[2] = 192
    BY <1>2 DEF Kind
  <2>5. HasLen(buf) <=> e > 0
    BY <2>1, <2>3, <2>4, Bits DEF HasLen
  <2> QED
    BY <2>1, <2>3, <2>4, <2>5, Bits
<1>3. CASE m = <<119, 129, 64>>
  <2>1. Len(m) = 3 /\ buf[1] = 119 /\ buf[2] = 129 /\ buf[3] = 64
    BY <1>3
  <2>2. Bit(buf[1], 1) /\ ~Bit(buf[1], 128) /\ Bit(buf[2], 1) /\ ~Bit(buf[3], 1)
    BY <2>1, Bits
  <2>3. BitmapNum(buf) = 3
    <3>1. PICK n \in 1 .. 8 : n = 3
      OBVIOUS
    <3>2. ~Bit(buf[n], 1) /\ \A k \in 1 .. n - 1 : Bit(buf[k], 1)
      BY <2>2, <3>1
    <3>3. BitmapNum(buf) = n
      BY <2>2, <3>2, BitmapIs
    <3> QED
      BY <3>1, <3>3
  <2>4. e \in Nat /\ e > 0 /\ t = 2
    BY <1>3 DEF Kind
  <2>5. HasLen(buf)
    BY <2>1, <2>3, Bits DEF HasLen
  <2> QED
    BY <2>1, <2>3, <2>4, <2>5, Bits
<1> QED
  BY <1>1, <1>2, <1>3 DEF Kind

\* The bitmap of a packet that ends inside it: the first bytes all continue it.
LEMMA BitmapCut ==
  ASSUME NEW m, NEW t, NEW e, Kind(m, t, e), NEW buf, NEW len \in Nat, len < Len(m),
         \A i \in 1 .. len : buf[i] = m[i]
  PROVE  BitmapNum(buf) \in 0 .. 8 /\ (BitmapNum(buf) = 0 \/ BitmapNum(buf) > len)
<1>1. ASSUME NEW k \in 1 .. len
      PROVE  Bit(buf[k], 1)
  <2>1. \/ Len(m) = 1
        \/ Len(m) = 2 /\ m[1] \in {87, 119}
        \/ Len(m) = 3 /\ m[1] = 119 /\ m[2] = 129
    BY DEF Kind
  <2>2. buf[k] = m[k] /\ k \in Nat /\ k >= 1 /\ k < Len(m)
    <3>1. k <= len /\ k \in Nat /\ k >= 1
      OBVIOUS
    <3>2. Len(m) \in Nat
      BY <2>1
    <3> QED
      BY <3>1, <3>2
  <2>3. CASE Len(m) = 1
    BY <2>2, <2>3
  <2>4. CASE Len(m) = 2 /\ m[1] \in {87, 119}
    <3>1. k = 1
      BY <2>2, <2>4
    <3> QED
      BY <2>2, <2>4, <3>1, Bits
  <2>5. CASE Len(m) = 3 /\ m[1] = 119 /\ m[2] = 129
    <3>1. k = 1 \/ k = 2
      BY <2>2, <2>5
    <3> QED
      BY <2>2, <2>5, <3>1, Bits
  <2> QED
    BY <2>1, <2>3, <2>4, <2>5
<1> QED
  BY <1>1, BitmapLonger

-----------------------------------------------------------------------------
(* A packet of that kind, from s to d with a payload of n bytes.           *)

DstPos(m, t)          == Len(m) + t + 3
SrcPos(m, t, d)       == DstPos(m, t) + AddrLen(d)
EndPos(m, t, d, s)    == SrcPos(m, t, d) + AddrLen(s)
HdrLen(m, t, e, d, s) == EndPos(m, t, d, s) - 1 + e

\* The first len bytes of W are those of the packet.
Begins(W, len, m, t, e, d, s, n) ==
  /\ \A i \in 1 .. Len(m) : i <= len => W[i] = m[i]
  /\ t = 2 /\ Len(m) + 3 <= len =>
       256 * W[Len(m) + 2] + W[Len(m) + 3] = HdrLen(m, t, e, d, s) + n
  /\ DstPos(m, t) - 1 <= len => W[DstPos(m, t) - 1] = NextHdr
  /\ \A i \in 1 .. AddrLen(d) :
       DstPos(m, t) + i - 1 <= len => W[DstPos(m, t) + i - 1] = d.field8[i]
  /\ \A i \in 1 .. AddrLen(s) :
       SrcPos(m, t, d) + i - 1 <= len => W[SrcPos(m, t, d) + i - 1] = s.field8[i]
  /\ e > 0 /\ EndPos(m, t, d, s) <= len => W[EndPos(m, t, d, s)] = HdrLen(m, t, e, d, s)
  /\ \A i \in 1 .. n :
       HdrLen(m, t, e, d, s) + i <= len => W[HdrLen(m, t, e, d, s) + i] = 170

Valid(a) == a \in nip_addr /\ nip_addr_valid(a)

\* The positions are numbers.
LEMMA Positions ==
  ASSUME NEW m, NEW t, NEW e, Kind(m, t, e), NEW d, Valid(d), NEW s, Valid(s)
  PROVE  /\ Len(m) \in 1 .. 3 /\ t \in {0, 2} /\ e \in Nat /\ (e > 0 => t = 2)
         /\ AddrLen(d) \in 1 .. 8 /\ AddrLen(s) \in 1 .. 8
         /\ DstPos(m, t) \in Nat /\ SrcPos(m, t, d) \in Nat /\ EndPos(m, t, d, s) \in Nat
         /\ HdrLen(m, t, e, d, s) \in Nat
         /\ HdrLen(m, t, e, d, s) >= EndPos(m, t, d, s) - 1
         /\ EndPos(m, t, d, s) > SrcPos(m, t, d) /\ SrcPos(m, t, d) > DstPos(m, t)
         /\ DstPos(m, t) > Len(m) + 2 /\ (t = 2 => DstPos(m, t) > Len(m) + 4)
<1>1. Len(m) \in 1 .. 3 /\ t \in {0, 2} /\ e \in Nat /\ (e > 0 => t = 2)
  BY DEF Kind
<1>2. AddrLen(d) \in 1 .. 8 /\ AddrLen(s) \in 1 .. 8
  BY ValidLength DEF Valid
<1>3. /\ DstPos(m, t) \in Nat /\ DstPos(m, t) > Len(m) + 2
      /\ t = 2 => DstPos(m, t) > Len(m) + 4
  BY <1>1 DEF DstPos
<1>4. SrcPos(m, t, d) \in Nat /\ SrcPos(m, t, d) > DstPos(m, t)
  BY <1>2, <1>3 DEF SrcPos
<1>5. EndPos(m, t, d, s) \in Nat /\ EndPos(m, t, d, s) > SrcPos(m, t, d)
  BY <1>2, <1>4 DEF EndPos
<1>6. HdrLen(m, t, e, d, s) \in Nat /\ HdrLen(m, t, e, d, s) >= EndPos(m, t, d, s) - 1
  BY <1>1, <1>4, <1>5 DEF HdrLen
<1> QED
  BY <1>1, <1>2, <1>3, <1>4, <1>5, <1>6

\* What nip_hdr_parse has read is right, as far as the packet goes.
LEMMA FieldsRead ==
  ASSUME NEW m, NEW t, NEW e, Kind(m, t, e), NEW d, Valid(d), NEW s, Valid(s),
         NEW buf, NEW len \in Nat, NEW n \in Nat, Begins(buf, len, m, t, e, d, s, n)
  PROVE  /\ Len(m) <= len =>
              /\ BitmapNum(buf) = Len(m) /\ PNext(buf) = DstPos(m, t) - 1
              /\ PDst(buf) = DstPos(m, t)
              /\ Bit(buf[1], 64) /\ Bit(buf[1], 16) /\ Bit(buf[1], 4) /\ Bit(buf[1], 2)
              /\ Bit(buf[1], 32) <=> t = 2
              /\ HasLen(buf) <=> e > 0
              /\ e = 0 => Len(m) < 3 /\ (Len(m) = 2 => buf[2] = 0)
         /\ DstPos(m, t) <= len => PSrc(buf) = SrcPos(m, t, d)
         /\ SrcPos(m, t, d) <= len => Real0(buf) = EndPos(m, t, d, s) - 1
<1>1. /\ Len(m) \in 1 .. 3 /\ t \in {0, 2}
      /\ AddrLen(d) \in 1 .. 8 /\ AddrLen(s) \in 1 .. 8
      /\ DstPos(m, t) \in Nat /\ SrcPos(m, t, d) \in Nat
      /\ SrcPos(m, t, d) > DstPos(m, t) /\ DstPos(m, t) > Len(m) + 2
  BY Positions
<1>2. ASSUME Len(m) <= len
      PROVE  /\ BitmapNum(buf) = Len(m)
             /\ Bit(buf[1], 64) /\ Bit(buf[1], 16) /\ Bit(buf[1], 4) /\ Bit(buf[1], 2)
             /\ Bit(buf[1], 32) <=> t = 2
             /\ HasLen(buf) <=> e > 0
             /\ e = 0 => Len(m) < 3 /\ (Len(m) = 2 => buf[2] = 0)
  <2>1. \A i \in 1 .. Len(m) : buf[i] = m[i]
    BY <1>1, <1>2 DEF Begins
  <2> QED
    BY <2>1, BitmapRead
<1>3. ASSUME Len(m) <= len
      PROVE  PNext(buf) = DstPos(m, t) - 1 /\ PDst(buf) = DstPos(m, t)
  <2>1. PNext(buf) = Len(m) + 2 + t
    BY <1>1, <1>2, <1>3 DEF PNext
  <2> QED
    BY <1>1, <2>1 DEF PDst, DstPos
<1>4. ASSUME DstPos(m, t) <= len
      PROVE  PSrc(buf) = SrcPos(m, t, d)
  <2>1. PDst(buf) = DstPos(m, t)
    BY <1>1, <1>3, <1>4
  <2>2. buf[DstPos(m, t)] = d.field8[1]
    <3>1. 1 \in 1 .. AddrLen(d) /\ DstPos(m, t) + 1 - 1 = DstPos(m, t)
      BY <1>1
    <3> QED
      BY <1>4, <3>1 DEF Begins
  <2>3. AddrLen(DecodedAddr(buf, DstPos(m, t))) = AddrLen(d)
    BY <2>2, DecodedLength, ValidLength DEF Valid
  <2> QED
    BY <2>1, <2>3 DEF PSrc, SrcPos
<1>5. ASSUME SrcPos(m, t, d) <= len
      PROVE  Real0(buf) = EndPos(m, t, d, s) - 1
  <2>1. PSrc(buf) = SrcPos(m, t, d) /\ Bit(buf[1], 2)
    BY <1>1, <1>2, <1>4, <1>5
  <2>2. buf[SrcPos(m, t, d)] = s.field8[1]
    <3>1. 1 \in 1 .. AddrLen(s) /\ SrcPos(m, t, d) + 1 - 1 = SrcPos(m, t, d)
      BY <1>1
    <3> QED
      BY <1>5, <3>1 DEF Begins
  <2>3. AddrLen(DecodedAddr(buf, SrcPos(m, t, d))) = AddrLen(s)
    BY <2>2, DecodedLength, ValidLength DEF Valid
  <2>4. Real0(buf) = SrcPos(m, t, d) - 1 + AddrLen(s)
    BY <2>1, <2>3 DEF Real0
  <2> QED
    BY <1>1, <2>4 DEF EndPos
<1> QED
  BY <1>1, <1>2, <1>3, <1>4, <1>5

\* A packet that ends inside its header is refused, whatever follows it in memory: the
\* fields that are read right lead at least to the end of the packet.
LEMMA CutRefused ==
  ASSUME NEW m, NEW t, NEW e, Kind(m, t, e), NEW d, Valid(d), NEW s, Valid(s),
         NEW buf, NEW len \in Nat, NEW n \in Nat, Begins(buf, len, m, t, e, d, s, n),
         len <= HdrLen(m, t, e, d, s)
  PROVE  ~nip_hdr_parse(buf, len).ok
<1>1. /\ Len(m) \in 1 .. 3 /\ t \in {0, 2} /\ e \in Nat /\ (e > 0 => t = 2)
      /\ DstPos(m, t) \in Nat /\ SrcPos(m, t, d) \in Nat /\ EndPos(m, t, d, s) \in Nat
      /\ EndPos(m, t, d, s) > SrcPos(m, t, d)
      /\ SrcPos(m, t, d) > DstPos(m, t) /\ DstPos(m, t) > Len(m) + 2
  BY Positions
<1>2. PICK x, y : /\ x = get_nip_addr_len(buf[PDst(buf)]) /\ y = get_nip_addr_len(buf[PSrc(buf)])
                  /\ x \in 0 .. 8 /\ y \in 0 .. 8
                  /\ AddrLen(DecodedAddr(buf, PDst(buf))) = x
                  /\ AddrLen(DecodedAddr(buf, PSrc(buf))) = y
  <2>1. \A p : /\ get_nip_addr_len(buf[p]) \in 0 .. 8
               /\ AddrLen(DecodedAddr(buf, p)) = get_nip_addr_len(buf[p])
    BY DecodedLength
  <2> QED
    BY <2>1
<1>3. BitmapNum(buf) \in 0 .. 8
  <2>1. \A k \in 1 .. 0 : Bit(buf[k], 1)
    OBVIOUS
  <2> QED
    BY <2>1, BitmapLonger
<1>4. /\ PNext(buf) \in Nat /\ PNext(buf) >= BitmapNum(buf) + 2 /\ PDst(buf) = PNext(buf) + 1
      /\ PSrc(buf) = PDst(buf) + x
      /\ Real0(buf) \in Int /\ Real0(buf) >= PSrc(buf) - 1
  BY <1>2, <1>3 DEF PNext, PDst, PSrc, Real0
<1>5. /\ Len(m) <= len => PDst(buf) = DstPos(m, t)
      /\ Len(m) <= len => (Bit(buf[1], 32) <=> t = 2) /\ (HasLen(buf) <=> e > 0)
      /\ DstPos(m, t) <= len => PSrc(buf) = SrcPos(m, t, d)
      /\ SrcPos(m, t, d) <= len => Real0(buf) = EndPos(m, t, d, s) - 1
  <2>1. ASSUME Len(m) <= len
        PROVE  /\ BitmapNum(buf) = Len(m) /\ PNext(buf) = DstPos(m, t) - 1
               /\ PDst(buf) = DstPos(m, t)
               /\ Bit(buf[1], 64) /\ Bit(buf[1], 16) /\ Bit(buf[1], 4) /\ Bit(buf[1], 2)
               /\ Bit(buf[1], 32) <=> t = 2
               /\ HasLen(buf) <=> e > 0
               /\ e = 0 => Len(m) < 3 /\ (Len(m) = 2 => buf[2] = 0)
    BY <2>1, FieldsRead
  <2>2. DstPos(m, t) <= len => PSrc(buf) = SrcPos(m, t, d)
    BY FieldsRead
  <2>3. ASSUME SrcPos(m, t, d) <= len
        PROVE  Real0(buf) = EndPos(m, t, d, s) - 1
    BY <1>1, <1>4, <2>3, FieldsRead
  <2> QED
    BY <2>1, <2>2, <2>3
<1>6. CASE len < Len(m)
  <2>1. \A i \in 1 .. len : buf[i] = m[i]
    BY <1>1, <1>6 DEF Begins
  <2>2. BitmapNum(buf) = 0 \/ BitmapNum(buf) > len
    BY <1>6, <2>1, BitmapCut
  <2>3. BitmapNum(buf) > len => Real0(buf) >= len
    BY <1>2, <1>3, <1>4
  <2> QED
    BY <2>2, <2>3, ParseFails
<1>7. CASE Len(m) <= len /\ len < DstPos(m, t)
  <2>1. PDst(buf) = DstPos(m, t)
    BY <1>7, <1>5
  <2>2. PSrc(buf) = DstPos(m, t) + x /\ x \in Nat
    BY <1>2, <1>4, <2>1
  <2>3. PICK u \in Nat, w \in Int : u = DstPos(m, t) /\ w = Real0(buf) /\ w >= u + x - 1
    BY <1>1, <1>4, <2>2
  <2>4. w >= len
    BY <1>7, <2>2, <2>3
  <2> QED
    BY <2>3, <2>4, ParseFails
<1>8. CASE DstPos(m, t) <= len /\ len < SrcPos(m, t, d)
  <2>1. PSrc(buf) = SrcPos(m, t, d)
    BY <1>8, <1>5
  <2>2. Real0(buf) >= len
    BY <1>1, <1>4, <1>8, <2>1
  <2> QED
    BY <2>2, ParseFails
<1>9. CASE SrcPos(m, t, d) <= len /\ len < EndPos(m, t, d, s)
  <2>1. Real0(buf) = EndPos(m, t, d, s) - 1
    BY <1>9, <1>5
  <2>2. Real0(buf) >= len
    BY <1>1, <1>9, <2>1
  <2> QED
    BY <2>2, ParseFails
<1>10. CASE EndPos(m, t, d, s) <= len
  <2>1. Len(m) <= len /\ SrcPos(m, t, d) <= len
    BY <1>1, <1>10
  <2>2. e > 0 /\ t = 2
    BY <1>1, <1>10 DEF HdrLen
  <2>3. Real0(buf) + 1 = EndPos(m, t, d, s) /\ HasLen(buf) /\ Bit(buf[1], 32)
    <3>1. Real0(buf) = EndPos(m, t, d, s) - 1
      BY <2>1, <1>5
    <3> QED
      BY <1>1, <2>1, <2>2, <3>1, <1>5
  <2>4. buf[Real0(buf) + 1] = HdrLen(m, t, e, d, s)
    BY <1>10, <2>2, <2>3 DEF Begins
  <2> QED
    BY <2>3, <2>4, ParseFails
<1> QED
  BY <1>1, <1>6, <1>7, <1>8, <1>9, <1>10

\* A packet with its header and at least one byte more is parsed to what was sent.
LEMMA WholeParsed ==
  ASSUME NEW m, NEW t, NEW e, Kind(m, t, e), NEW d, Valid(d), NEW s, Valid(s),
         NEW buf, NEW len \in Nat, NEW n \in Nat, Begins(buf, len, m, t, e, d, s, n),
         HdrLen(m, t, e, d, s) < len
  PROVE  LET h == nip_hdr_parse(buf, len)
         IN  /\ h.ok /\ h.offset = HdrLen(m, t, e, d, s)
             /\ SameAddr(h.daddr, d) /\ SameAddr(h.saddr, s) /\ h.nexthdr = NextHdr
             /\ h.hasTotal <=> t = 2
             /\ t = 2 => h.total = HdrLen(m, t, e, d, s) + n
<1>1. /\ Len(m) \in 1 .. 3 /\ t \in {0, 2} /\ e \in Nat
      /\ AddrLen(d) \in 1 .. 8 /\ AddrLen(s) \in 1 .. 8
      /\ DstPos(m, t) \in Nat /\ SrcPos(m, t, d) \in Nat /\ EndPos(m, t, d, s) \in Nat
      /\ HdrLen(m, t, e, d, s) \in Nat
      /\ HdrLen(m, t, e, d, s) >= EndPos(m, t, d, s) - 1
      /\ EndPos(m, t, d, s) > SrcPos(m, t, d)
      /\ SrcPos(m, t, d) > DstPos(m, t) /\ DstPos(m, t) > Len(m) + 2
      /\ t = 2 => DstPos(m, t) > Len(m) + 4
  BY Positions
<1>2. Len(m) <= len /\ DstPos(m, t) <= len /\ SrcPos(m, t, d) <= len /\ EndPos(m, t, d, s) <= len
  BY <1>1
<1>3. /\ BitmapNum(buf) = Len(m) /\ PNext(buf) = DstPos(m, t) - 1
      /\ PDst(buf) = DstPos(m, t)
      /\ Bit(buf[1], 64) /\ Bit(buf[1], 16) /\ Bit(buf[1], 4) /\ Bit(buf[1], 2)
      /\ Bit(buf[1], 32) <=> t = 2
      /\ HasLen(buf) <=> e > 0
      /\ e = 0 => Len(m) < 3 /\ (Len(m) = 2 => buf[2] = 0)
      /\ PSrc(buf) = SrcPos(m, t, d) /\ Real0(buf) = EndPos(m, t, d, s) - 1
  BY <1>2, FieldsRead
<1>4. /\ SameAddr(DecodedAddr(buf, PDst(buf)), d) /\ ~DecodeFails(buf, PDst(buf))
  <2>1. SrcPos(m, t, d) = DstPos(m, t) + AddrLen(d)
    BY DEF SrcPos
  <2>2. ASSUME NEW i \in 1 .. AddrLen(d)
        PROVE  buf[DstPos(m, t) + i - 1] = d.field8[i]
    <3>1. i \in Nat /\ i <= AddrLen(d) /\ AddrLen(d) \in Nat
      BY <1>1
    <3>2. PICK x \in Nat, y \in Nat, z \in Nat :
            x = DstPos(m, t) /\ y = AddrLen(d) /\ z = i /\ x + y <= len
      BY <1>1, <1>2, <2>1, <3>1
    <3>3. x + z - 1 <= len
      BY <3>1, <3>2
    <3> QED
      BY <3>2, <3>3 DEF Begins
  <2>3. PICK p \in Nat : p = DstPos(m, t)
    BY <1>1
  <2>4. \A i \in 1 .. AddrLen(d) : buf[p + i - 1] = d.field8[i]
    BY <2>2, <2>3
  <2>5. SameAddr(DecodedAddr(buf, p), d) /\ ~DecodeFails(buf, p)
    BY <2>4, DecodedIsBuilt DEF Valid
  <2> QED
    BY <1>3, <2>3, <2>5
<1>5. /\ SameAddr(DecodedAddr(buf, PSrc(buf)), s) /\ ~DecodeFails(buf, PSrc(buf))
  <2>1. EndPos(m, t, d, s) = SrcPos(m, t, d) + AddrLen(s)
    BY DEF EndPos
  <2>2. ASSUME NEW i \in 1 .. AddrLen(s)
        PROVE  buf[SrcPos(m, t, d) + i - 1] = s.field8[i]
    <3>1. i \in Nat /\ i <= AddrLen(s) /\ AddrLen(s) \in Nat
      BY <1>1
    <3>2. PICK x \in Nat, y \in Nat, z \in Nat :
            x = SrcPos(m, t, d) /\ y = AddrLen(s) /\ z = i /\ x + y <= len
      BY <1>1, <1>2, <2>1, <3>1
    <3>3. x + z - 1 <= len
      BY <3>1, <3>2
    <3> QED
      BY <3>2, <3>3 DEF Begins
  <2>3. PICK p \in Nat : p = SrcPos(m, t, d)
    BY <1>1
  <2>4. \A i \in 1 .. AddrLen(s) : buf[p + i - 1] = s.field8[i]
    BY <2>2, <2>3
  <2>5. SameAddr(DecodedAddr(buf, p), s) /\ ~DecodeFails(buf, p)
    BY <2>4, DecodedIsBuilt DEF Valid
  <2> QED
    BY <1>3, <2>3, <2>5
<1>6. buf[PNext(buf)] = NextHdr
  <2>1. DstPos(m, t) - 1 <= len
    BY <1>1, <1>2
  <2> QED
    BY <1>3, <2>1 DEF Begins
<1>7. t = 2 => 256 * buf[BitmapNum(buf) + 2] + buf[BitmapNum(buf) + 3] = HdrLen(m, t, e, d, s) + n
  <2>1. t = 2 => Len(m) + 3 <= len
    BY <1>1, <1>2
  <2> QED
    BY <1>3, <2>1 DEF Begins
<1>8. PICK l, r : /\ l = (IF HasLen(buf) THEN buf[Real0(buf) + 1] ELSE 0)
                  /\ r = Real0(buf) + (IF HasLen(buf) THEN 1 ELSE 0)
  OBVIOUS
<1>9. /\ e > 0 => l = HdrLen(m, t, e, d, s) /\ r = EndPos(m, t, d, s)
      /\ e = 0 => l = 0 /\ r = HdrLen(m, t, e, d, s)
  <2>1. Real0(buf) + 1 = EndPos(m, t, d, s)
    BY <1>1, <1>3
  <2>2. e > 0 => buf[EndPos(m, t, d, s)] = HdrLen(m, t, e, d, s)
    BY <1>2 DEF Begins
  <2>3. e = 0 => HdrLen(m, t, e, d, s) = EndPos(m, t, d, s) - 1
    BY <1>1 DEF HdrLen
  <2> QED
    BY <1>1, <1>3, <1>8, <2>1, <2>2, <2>3
<1>10. e > 0 => HdrLen(m, t, e, d, s) >= EndPos(m, t, d, s)
  BY <1>1 DEF HdrLen
<1>11. e = 0 \/ e > 0
  BY <1>1
<1>12. /\ ~(Real0(buf) >= len) /\ ~(r >= len)
       /\ HasLen(buf) => ~(l >= len) /\ l # 0 /\ ~(l < r)
       /\ ~HasLen(buf) => ~(BitmapNum(buf) >= 3) /\ (BitmapNum(buf) >= 2 => buf[2] % 128 = 0)
       /\ (IF l > r THEN l ELSE r) = HdrLen(m, t, e, d, s) /\ BitmapNum(buf) # 0
  <2>1. CASE e > 0
    BY <1>1, <1>3, <1>9, <1>10, <2>1
  <2>2. CASE e = 0
    <3>1. BitmapNum(buf) >= 2 => buf[2] = 0
      BY <1>1, <1>3, <2>2
    <3> QED
      BY <1>1, <1>3, <1>9, <2>2, <3>1
  <2> QED
    BY <1>11, <2>1, <2>2
<1>13. nip_hdr_parse(buf, len) =
           [ok |-> TRUE, offset |-> IF l > r THEN l ELSE r,
            daddr |-> DecodedAddr(buf, PDst(buf)), saddr |-> DecodedAddr(buf, PSrc(buf)),
            nexthdr |-> buf[PNext(buf)], hasTotal |-> Bit(buf[1], 32),
            total |-> IF Bit(buf[1], 32)
                        THEN 256 * buf[BitmapNum(buf) + 2] + buf[BitmapNum(buf) + 3] ELSE 0]
  BY <1>3, <1>4, <1>5, <1>8, <1>12, ParseSucceeds
<1> QED
  BY <1>3, <1>4, <1>5, <1>6, <1>7, <1>12, <1>13

-----------------------------------------------------------------------------
(* What nip_rcv makes of a packet.                                         *)

\* A run of equal bytes.
LEMMA RunOf ==
  ASSUME NEW n \in Nat, NEW b \in Int
  PROVE  /\ [i \in 1 .. n |-> b] \in Seq(Int) /\ Len([i \in 1 .. n |-> b]) = n
         /\ \A i \in 1 .. n : [j \in 1 .. n |-> b][i] = b
  OBVIOUS

\* Two of them in a row.
LEMMA Cat ==
  ASSUME NEW a \in Seq(Int), NEW b \in Seq(Int), NEW c, c = a \o b
  PROVE  /\ c \in Seq(Int) /\ Len(c) = Len(a) + Len(b) /\ Len(a) \in Nat /\ Len(b) \in Nat
         /\ \A i \in 1 .. Len(a) : c[i] = a[i]
         /\ \A i \in 1 .. Len(b) : c[Len(a) + i] = b[i]
<1>1. /\ c \in Seq(Int) /\ Len(c) = Len(a) + Len(b) /\ Len(a) \in Nat /\ Len(b) \in Nat
      /\ \A i \in 1 .. Len(a) + Len(b) : c[i] = IF i <= Len(a) THEN a[i] ELSE b[i - Len(a)]
  BY ConcatProperties, LenProperties
<1>2. ASSUME NEW i \in 1 .. Len(a)
      PROVE  c[i] = a[i]
  BY <1>1
<1>3. ASSUME NEW i \in 1 .. Len(b)
      PROVE  c[Len(a) + i] = b[i]
  <2>1. Len(a) + i \in 1 .. Len(a) + Len(b) /\ ~(Len(a) + i <= Len(a)) /\ Len(a) + i - Len(a) = i
    BY <1>1
  <2> QED
    BY <1>1, <2>1
<1> QED
  BY <1>1, <1>2, <1>3

\* A part of one.
LEMMA Slice ==
  ASSUME NEW W \in Seq(Int), NEW a \in Nat, NEW b \in Nat, a >= 1, a <= b + 1, b <= Len(W),
         NEW V, V = SubSeq(W, a, b)
  PROVE  /\ V \in Seq(Int) /\ Len(V) = b - a + 1
         /\ \A i \in 1 .. b - a + 1 : V[i] = W[a + i - 1]
<1>1. Len(W) \in Nat
  BY LenProperties
<1>2. \A i \in a .. b : W[i] \in Int
  <2>1. \A i \in a .. b : i \in 1 .. Len(W)
    BY <1>1
  <2> QED
    BY <2>1, ElementOfSeq
<1>3. /\ V \in Seq(Int) /\ Len(V) = IF a <= b THEN b - a + 1 ELSE 0
      /\ \A i \in 1 .. b - a + 1 : V[i] = W[a + i - 1]
  BY <1>2, SubSeqProperties
<1>4. a > b => b - a + 1 = 0
  OBVIOUS
<1> QED
  BY <1>3, <1>4

\* Only the first len bytes matter.
LEMMA BeginsSame ==
  ASSUME NEW m, NEW t, NEW e, Kind(m, t, e), NEW d, Valid(d), NEW s, Valid(s),
         NEW W, NEW V, NEW len \in Nat, NEW n \in Nat, Begins(W, len, m, t, e, d, s, n),
         \A i \in 1 .. len : V[i] = W[i]
  PROVE  Begins(V, len, m, t, e, d, s, n)
<1>1. /\ Len(m) \in 1 .. 3 /\ t \in {0, 2} /\ e \in Nat
      /\ AddrLen(d) \in 1 .. 8 /\ AddrLen(s) \in 1 .. 8
      /\ DstPos(m, t) \in Nat /\ SrcPos(m, t, d) \in Nat /\ EndPos(m, t, d, s) \in Nat
      /\ HdrLen(m, t, e, d, s) \in Nat
      /\ EndPos(m, t, d, s) > SrcPos(m, t, d)
      /\ SrcPos(m, t, d) > DstPos(m, t) /\ DstPos(m, t) > Len(m) + 2
  BY Positions
<1>2. \A i \in 1 .. Len(m) : i <= len => V[i] = m[i]
  BY <1>1 DEF Begins
<1>3. t = 2 /\ Len(m) + 3 <= len =>
        256 * V[Len(m) + 2] + V[Len(m) + 3] = HdrLen(m, t, e, d, s) + n
  <2>1. Len(m) + 3 <= len => Len(m) + 2 \in 1 .. len /\ Len(m) + 3 \in 1 .. len
    BY <1>1
  <2>2. Len(m) + 3 <= len => V[Len(m) + 2] = W[Len(m) + 2] /\ V[Len(m) + 3] = W[Len(m) + 3]
    BY <2>1
  <2> QED
    BY <2>2 DEF Begins
<1>4. DstPos(m, t) - 1 <= len => V[DstPos(m, t) - 1] = NextHdr
  <2>1. DstPos(m, t) - 1 <= len => DstPos(m, t) - 1 \in 1 .. len
    BY <1>1
  <2> QED
    BY <2>1 DEF Begins
<1>5. ASSUME NEW i \in 1 .. AddrLen(d), DstPos(m, t) + i - 1 <= len
      PROVE  V[DstPos(m, t) + i - 1] = d.field8[i]
  <2>1. DstPos(m, t) + i - 1 \in 1 .. len
    BY <1>1, <1>5
  <2> QED
    BY <1>5, <2>1 DEF Begins
<1>6. ASSUME NEW i \in 1 .. AddrLen(s), SrcPos(m, t, d) + i - 1 <= len
      PROVE  V[SrcPos(m, t, d) + i - 1] = s.field8[i]
  <2>1. SrcPos(m, t, d) + i - 1 \in 1 .. len
    BY <1>1, <1>6
  <2> QED
    BY <1>6, <2>1 DEF Begins
<1>7. e > 0 /\ EndPos(m, t, d, s) <= len => V[EndPos(m, t, d, s)] = HdrLen(m, t, e, d, s)
  <2>1. EndPos(m, t, d, s) <= len => EndPos(m, t, d, s) \in 1 .. len
    BY <1>1
  <2> QED
    BY <2>1 DEF Begins
<1>8. ASSUME NEW i \in 1 .. n, HdrLen(m, t, e, d, s) + i <= len
      PROVE  V[HdrLen(m, t, e, d, s) + i] = 170
  <2>1. HdrLen(m, t, e, d, s) + i \in 1 .. len
    BY <1>1, <1>8
  <2> QED
    BY <1>8, <2>1 DEF Begins
<1> QED
  BY <1>2, <1>3, <1>4, <1>5, <1>6, <1>7, <1>8 DEF Begins

\* The packet in the buffer that nip_hdr_parse gets.
LEMMA InBuffer ==
  ASSUME NEW m, NEW t, NEW e, Kind(m, t, e), NEW d, Valid(d), NEW s, Valid(s),
         NEW W \in Seq(Int), NEW n \in Nat, Begins(W, Len(W), m, t, e, d, s, n),
         NEW fill \in Byte, NEW buf, buf = W \o [i \in 1 .. 2 * NIP_HDR_MAX |-> fill]
  PROVE  Len(W) \in Nat /\ Begins(buf, Len(W), m, t, e, d, s, n)
<1>1. PICK F : F = [i \in 1 .. 2 * NIP_HDR_MAX |-> fill]
  OBVIOUS
<1>2. F \in Seq(Int)
  <2>1. 2 * NIP_HDR_MAX \in Nat /\ fill \in Int
    BY DEF NIP_HDR_MAX, Byte
  <2> QED
    BY <1>1, <2>1, RunOf
<1>3. buf = W \o F
  BY <1>1
<1>4. Len(W) \in Nat /\ \A i \in 1 .. Len(W) : buf[i] = W[i]
  BY <1>2, <1>3, Cat
<1> QED
  BY <1>4, BeginsSame

\* A packet cut inside its header is dropped.
LEMMA RcvCut ==
  ASSUME NEW m, NEW t, NEW e, Kind(m, t, e), NEW d, Valid(d), NEW s, Valid(s),
         NEW W \in Seq(Int), NEW n \in Nat, Begins(W, Len(W), m, t, e, d, s, n),
         NEW fill \in Byte, Len(W) <= HdrLen(m, t, e, d, s)
  PROVE  ~nip_rcv(W, fill).ok
<1>1. PICK buf, h : /\ buf = W \o [i \in 1 .. 2 * NIP_HDR_MAX |-> fill]
                    /\ h = nip_hdr_parse(buf, Len(W))
  OBVIOUS
<1>2. Len(W) \in Nat /\ Begins(buf, Len(W), m, t, e, d, s, n)
  BY <1>1, InBuffer
<1>3. PICK len \in Nat : len = Len(W)
  BY <1>2
<1>4. ~nip_hdr_parse(buf, len).ok
  <2>1. Begins(buf, len, m, t, e, d, s, n) /\ len <= HdrLen(m, t, e, d, s)
    BY <1>2, <1>3
  <2> QED
    BY <2>1, CutRefused
<1>5. ~h.ok
  BY <1>1, <1>3, <1>4
<1> QED
  BY <1>1, <1>5 DEF nip_rcv, Drop

\* The packet that nip_rcv_finish gets: trimmed to the total length k, if it has one.
Trimmed(W, t, k) == IF t = 2 THEN SubSeq(W, 1, k) ELSE W

\* What is left when the header is pulled.
Rest(V, H) == SubSeq(V, H + 1, Len(V))

LEMMA TrimmedIs ==
  ASSUME NEW W \in Seq(Int), NEW t, NEW k \in Nat, t = 2 => k <= Len(W),
         NEW V, V = Trimmed(W, t, k)
  PROVE  /\ V \in Seq(Int) /\ Len(V) = IF t = 2 THEN k ELSE Len(W)
         /\ \A i \in 1 .. Len(V) : V[i] = W[i]
<1>1. CASE t = 2
  <2>1. V = SubSeq(W, 1, k) /\ k <= Len(W)
    BY <1>1 DEF Trimmed
  <2>2. 1 <= k + 1
    OBVIOUS
  <2>3. /\ V \in Seq(Int) /\ Len(V) = k - 1 + 1
        /\ \A i \in 1 .. k - 1 + 1 : V[i] = W[1 + i - 1]
    BY <2>1, <2>2, Slice
  <2>4. k - 1 + 1 = k /\ \A i \in 1 .. k : 1 + i - 1 = i
    OBVIOUS
  <2>5. Len(V) = k
    BY <2>3, <2>4
  <2>6. \A i \in 1 .. k : V[i] = W[i]
    <3>1. PICK j \in Nat : j = k - 1 + 1
      BY <2>4
    <3>2. j = k /\ \A i \in 1 .. j : V[i] = W[1 + i - 1]
      BY <2>3, <2>4, <3>1
    <3>3. ASSUME NEW i \in 1 .. k
          PROVE  V[i] = W[i]
      BY <2>4, <3>2
    <3> QED
      BY <3>3
  <2> QED
    BY <1>1, <2>3, <2>5, <2>6
<1>2. CASE t # 2
  BY <1>2 DEF Trimmed
<1> QED
  BY <1>1, <1>2

\* A packet with its header and at least one byte more: one without a total length is
\* delivered as it is, another one trimmed to the total length, if it is all there.
LEMMA RcvWhole ==
  ASSUME NEW m, NEW t, NEW e, Kind(m, t, e), NEW d, Valid(d), NEW s, Valid(s),
         NEW W \in Seq(Int), NEW n \in Nat, Begins(W, Len(W), m, t, e, d, s, n),
         NEW fill \in Byte, HdrLen(m, t, e, d, s) < Len(W),
         NEW H, H = HdrLen(m, t, e, d, s), NEW r, r = nip_rcv(W, fill),
         NEW V, V = Trimmed(W, t, H + n)
  PROVE  /\ t = 2 /\ H + n > Len(W) => ~r.ok
         /\ ~(t = 2 /\ H + n > Len(W)) =>
              /\ r.ok /\ SameAddr(r.daddr, d) /\ SameAddr(r.saddr, s)
              /\ r.nexthdr = NextHdr
              /\ r.payload = Rest(V, H)
              /\ V \in Seq(Int) /\ Len(V) = IF t = 2 THEN H + n ELSE Len(W)
              /\ \A i \in 1 .. Len(V) : V[i] = W[i]
<1>1. PICK buf, h : /\ buf = W \o [i \in 1 .. 2 * NIP_HDR_MAX |-> fill]
                    /\ h = nip_hdr_parse(buf, Len(W))
  OBVIOUS
<1>2. Len(W) \in Nat /\ Begins(buf, Len(W), m, t, e, d, s, n)
  BY <1>1, InBuffer
<1>3. PICK len \in Nat : len = Len(W)
  BY <1>2
<1>4. /\ h.ok /\ h.offset = H
      /\ SameAddr(h.daddr, d) /\ SameAddr(h.saddr, s) /\ h.nexthdr = NextHdr
      /\ h.hasTotal <=> t = 2
      /\ t = 2 => h.total = H + n
  <2>1. Begins(buf, len, m, t, e, d, s, n) /\ HdrLen(m, t, e, d, s) < len
    BY <1>2, <1>3
  <2>2. h = nip_hdr_parse(buf, len)
    BY <1>1, <1>3
  <2> QED
    BY <2>1, <2>2, WholeParsed
<1>5. H \in Nat
  BY Positions
<1>6. nip_rcv(W, fill) =
        IF h.hasTotal /\ h.total > Len(W) THEN Drop
        ELSE Deliver(h, IF h.hasTotal THEN SubSeq(W, 1, h.total) ELSE W)
  BY <1>1, <1>4 DEF nip_rcv, NextHdr
<1>7. ASSUME t = 2 /\ H + n > Len(W)
      PROVE  ~r.ok
  BY <1>4, <1>6, <1>7 DEF Drop
<1>8. ASSUME ~(t = 2 /\ H + n > Len(W))
      PROVE  /\ r.ok /\ SameAddr(r.daddr, d) /\ SameAddr(r.saddr, s)
             /\ r.nexthdr = NextHdr
             /\ r.payload = Rest(V, H)
             /\ V \in Seq(Int) /\ Len(V) = IF t = 2 THEN H + n ELSE Len(W)
             /\ \A i \in 1 .. Len(V) : V[i] = W[i]
  <2>1. r = Deliver(h, V)
    BY <1>4, <1>6, <1>8 DEF Trimmed
  <2>2. /\ V \in Seq(Int) /\ Len(V) = IF t = 2 THEN H + n ELSE Len(W)
        /\ \A i \in 1 .. Len(V) : V[i] = W[i]
    <3>1. t = 2 => H + n <= Len(W)
      BY <1>2, <1>5, <1>8
    <3>2. PICK k \in Nat : k = H + n
      BY <1>5
    <3> QED
      BY <3>1, <3>2, TrimmedIs
  <2>3. ~(h.offset > Len(V))
    BY <1>2, <1>4, <1>5, <2>2
  <2>4. r = [ok |-> TRUE, daddr |-> h.daddr, saddr |-> h.saddr, nexthdr |-> h.nexthdr,
             payload |-> SubSeq(V, h.offset + 1, Len(V))]
    BY <2>1, <2>3 DEF Deliver
  <2>5. /\ r.ok /\ r.daddr = h.daddr /\ r.saddr = h.saddr /\ r.nexthdr = h.nexthdr
        /\ r.payload = SubSeq(V, h.offset + 1, Len(V))
    <3>1. PICK Q : Q = SubSeq(V, h.offset + 1, Len(V))
      OBVIOUS
    <3>2. r = [ok |-> TRUE, daddr |-> h.daddr, saddr |-> h.saddr, nexthdr |-> h.nexthdr,
               payload |-> Q]
      BY <2>4, <3>1
    <3>3. /\ r.ok /\ r.daddr = h.daddr /\ r.saddr = h.saddr /\ r.nexthdr = h.nexthdr
          /\ r.payload = Q
      BY <3>2
    <3> QED
      BY <3>1, <3>3
  <2>6. r.payload = Rest(V, H)
    BY <1>4, <2>5 DEF Rest
  <2> QED
    BY <1>4, <2>2, <2>5, <2>6
<1> QED
  BY <1>7, <1>8

-----------------------------------------------------------------------------
(* The packets that are sent.                                              *)

\* c begins with the bytes of a.
Before(a, c) == Len(a) <= Len(c) /\ \A i \in 1 .. Len(a) : c[i] = a[i]

Joined(a, b, c) == c = a \o b

\* W has the bytes of b after the first k.
At(W, k, b) == \A i \in 1 .. Len(b) : W[k + i] = b[i]

LEMMA Join ==
  ASSUME NEW a \in Seq(Int), NEW b \in Seq(Int), NEW c, Joined(a, b, c)
  PROVE  /\ c \in Seq(Int) /\ Len(c) = Len(a) + Len(b) /\ Len(a) \in Nat /\ Len(b) \in Nat
         /\ \A i \in 1 .. Len(a) : c[i] = a[i]
         /\ \A i \in 1 .. Len(b) : c[Len(a) + i] = b[i]
  BY Cat DEF Joined

\* The second of two pieces of the front of a packet W is where the first one ends.
LEMMA Piece ==
  ASSUME NEW a \in Seq(Int), NEW b \in Seq(Int), NEW c, Joined(a, b, c),
         NEW W \in Seq(Int), Before(c, W)
  PROVE  Before(a, W) /\ At(W, Len(a), b)
<1>1. /\ c \in Seq(Int) /\ Len(c) = Len(a) + Len(b) /\ Len(a) \in Nat /\ Len(b) \in Nat
      /\ \A i \in 1 .. Len(a) : c[i] = a[i]
      /\ \A i \in 1 .. Len(b) : c[Len(a) + i] = b[i]
  BY Join
<1>2. Len(W) \in Nat /\ Len(c) \in Nat
  BY <1>1, LenProperties
<1>3. Len(a) <= Len(W)
  BY <1>1, <1>2 DEF Before
<1>4. ASSUME NEW i \in 1 .. Len(a)
      PROVE  W[i] = a[i]
  <2>1. i \in 1 .. Len(c)
    BY <1>1
  <2> QED
    BY <1>1, <2>1 DEF Before
<1>5. ASSUME NEW i \in 1 .. Len(b)
      PROVE  W[Len(a) + i] = b[i]
  <2>1. Len(a) + i \in 1 .. Len(c)
    BY <1>1
  <2> QED
    BY <1>1, <2>1 DEF Before
<1> QED
  BY <1>3, <1>4, <1>5 DEF Before, At

\* build_nip_addr writes the bytes of the address.
LEMMA BuildBytes ==
  ASSUME NEW a \in nip_addr, nip_addr_valid(a)
  PROVE  \A i \in 1 .. AddrLen(a) : build_nip_addr(a)[i] = a.field8[i]
<1>1. PICK k : k = get_nip_addr_len(a.field8[1])
  OBVIOUS
<1>2. k \in 1 .. 8 /\ k = AddrLen(a)
  BY <1>1, ValidLength
<1>3. \A i \in 1 .. 8 : a.field8[i] \in Byte
  BY DEF nip_addr, NIP_8BIT_ADDR_INDEX_MAX
<1>4. PICK f, S : f = a.field8 /\ S = SubSeq(f, 1, k)
  OBVIOUS
<1>5. \A i \in 1 .. k - 1 + 1 : S[i] = f[1 + i - 1]
  <2>1. \A i \in 1 .. k : f[i] \in Byte
    BY <1>2, <1>3, <1>4
  <2> QED
    BY <1>2, <1>4, <2>1, SubSeqProperties
<1>6. S = build_nip_addr(a)
  BY <1>1, <1>4 DEF build_nip_addr
<1>7. k - 1 + 1 = k /\ \A i \in 1 .. k : 1 + i - 1 = i
  BY <1>2
<1>8. ASSUME NEW i \in 1 .. k
      PROVE  S[i] = f[i]
  BY <1>5, <1>7
<1> QED
  BY <1>2, <1>4, <1>6, <1>8

\* The bytes T of the total length.
IsTotal(T, t, total) ==
  /\ T \in Seq(Int) /\ Len(T) = t
  /\ t = 2 => 256 * T[1] + T[2] = total

\* The bytes L of the header length and Y of unknown fields.
IsExt(L, Y, e, len) ==
  /\ L \in Seq(Int) /\ Y \in Seq(Int) /\ Len(L) + Len(Y) = e
  /\ e > 0 => Len(L) = 1 /\ L[1] = len

\* The bytes between the bitmap, the total length and the addresses.
TtlByte  == <<TTL>>
NextByte == <<NextHdr>>

\* A packet is put together from its fields.
LEMMA Assembled ==
  ASSUME NEW m, NEW t, NEW e, Kind(m, t, e), NEW d, Valid(d), NEW s, Valid(s), NEW n \in Nat,
         NEW T, IsTotal(T, t, HdrLen(m, t, e, d, s) + n),
         NEW L, NEW Y, IsExt(L, Y, e, HdrLen(m, t, e, d, s)),
         NEW P1, Joined(m, TtlByte, P1), NEW P2, Joined(P1, T, P2),
         NEW P3, Joined(P2, NextByte, P3), NEW P4, Joined(P3, build_nip_addr(d), P4),
         NEW P5, Joined(P4, build_nip_addr(s), P5), NEW P6, Joined(P5, L, P6),
         NEW P7, Joined(P6, Y, P7), NEW W, Joined(P7, PayloadBytes(n), W)
  PROVE  /\ P5 \in Seq(Int) /\ P7 \in Seq(Int) /\ Len(P7) = HdrLen(m, t, e, d, s)
         /\ W \in Seq(Int) /\ Len(W) = HdrLen(m, t, e, d, s) + n
         /\ Begins(W, Len(W), m, t, e, d, s, n)
<1>1. /\ Len(m) \in 1 .. 3 /\ t \in {0, 2} /\ e \in Nat
      /\ AddrLen(d) \in 1 .. 8 /\ AddrLen(s) \in 1 .. 8
      /\ DstPos(m, t) \in Nat /\ SrcPos(m, t, d) \in Nat /\ EndPos(m, t, d, s) \in Nat
      /\ HdrLen(m, t, e, d, s) \in Nat
  BY Positions
<1>2. PICK B, C, Q : B = build_nip_addr(d) /\ C = build_nip_addr(s) /\ Q = PayloadBytes(n)
  OBVIOUS
<1>3. /\ B \in Seq(Int) /\ Len(B) = AddrLen(d)
      /\ C \in Seq(Int) /\ Len(C) = AddrLen(s)
  <2>1. Byte \subseteq Int
    BY DEF Byte
  <2>2. /\ B \in Seq(Byte) /\ Len(B) = AddrLen(d)
        /\ C \in Seq(Byte) /\ Len(C) = AddrLen(s)
    BY <1>2, BuildLength DEF Valid
  <2> QED
    BY <2>1, <2>2, SeqMonotonic
<1>4. /\ \A i \in 1 .. AddrLen(d) : B[i] = d.field8[i]
      /\ \A i \in 1 .. AddrLen(s) : C[i] = s.field8[i]
  BY <1>2, BuildBytes DEF Valid
<1>5. Q \in Seq(Int) /\ Len(Q) = n /\ \A i \in 1 .. n : Q[i] = 170
  BY <1>2, RunOf DEF PayloadBytes
<1>6. m \in Seq(Int)
  <2>1. \/ m = <<86>> \/ m = <<87, 0>> \/ m = <<118>> \/ m = <<119, 0>>
        \/ m = <<119, 192>> \/ m = <<119, 129, 64>>
    BY DEF Kind
  <2>2. /\ <<86>> \in Seq(Int) /\ <<87, 0>> \in Seq(Int) /\ <<118>> \in Seq(Int)
        /\ <<119, 0>> \in Seq(Int) /\ <<119, 192>> \in Seq(Int)
        /\ <<119, 129, 64>> \in Seq(Int)
    OBVIOUS
  <2> QED
    BY <2>1, <2>2
<1>7. /\ TtlByte \in Seq(Int) /\ NextByte \in Seq(Int)
      /\ Len(TtlByte) = 1 /\ Len(NextByte) = 1 /\ NextByte[1] = NextHdr
  BY DEF TtlByte, NextByte, TTL, NextHdr
<1>8. /\ T \in Seq(Int) /\ Len(T) = t /\ L \in Seq(Int) /\ Y \in Seq(Int)
      /\ Len(L) \in Nat /\ Len(Y) \in Nat
  BY LenProperties DEF IsTotal, IsExt
<1>9. P1 \in Seq(Int) /\ Len(P1) = Len(m) + 1
  <2>1. P1 \in Seq(Int) /\ Len(P1) = Len(m) + Len(TtlByte)
    <3>1. TtlByte \in Seq(Int)
      BY <1>7
    <3> QED
      BY <1>6, <3>1, Join
  <2> QED
    BY <1>7, <2>1
<1>10. P2 \in Seq(Int) /\ Len(P2) = Len(m) + 1 + t
  BY <1>8, <1>9, Join
<1>11. P3 \in Seq(Int) /\ Len(P3) = DstPos(m, t) - 1
  <2>1. P3 \in Seq(Int) /\ Len(P3) = Len(P2) + Len(NextByte)
    <3>1. NextByte \in Seq(Int) /\ P2 \in Seq(Int)
      BY <1>7, <1>10
    <3> QED
      BY <3>1, Join
  <2> QED
    BY <1>1, <1>7, <1>10, <2>1 DEF DstPos
<1>12. P4 \in Seq(Int) /\ Len(P4) = SrcPos(m, t, d) - 1
  <2>1. P4 \in Seq(Int) /\ Len(P4) = Len(P3) + Len(B)
    BY <1>2, <1>3, <1>11, Join
  <2> QED
    BY <1>1, <1>3, <1>11, <2>1 DEF SrcPos
<1>13. P5 \in Seq(Int) /\ Len(P5) = EndPos(m, t, d, s) - 1
  <2>1. P5 \in Seq(Int) /\ Len(P5) = Len(P4) + Len(C)
    BY <1>2, <1>3, <1>12, Join
  <2> QED
    BY <1>1, <1>3, <1>12, <2>1 DEF EndPos
<1>14. P6 \in Seq(Int) /\ Len(P6) = Len(P5) + Len(L)
  BY <1>8, <1>13, Join
<1>15. P7 \in Seq(Int) /\ Len(P7) = HdrLen(m, t, e, d, s)
  <2>1. P7 \in Seq(Int) /\ Len(P7) = Len(P6) + Len(Y)
    BY <1>8, <1>14, Join
  <2> QED
    BY <1>1, <1>8, <1>13, <1>14, <2>1 DEF HdrLen, IsExt
<1>16. W \in Seq(Int) /\ Len(W) = HdrLen(m, t, e, d, s) + n
  <2>1. W \in Seq(Int) /\ Len(W) = Len(P7) + Len(Q)
    BY <1>2, <1>5, <1>15, Join
  <2> QED
    BY <1>5, <1>15, <2>1
<1>17. Before(W, W)
  BY <1>1, <1>16 DEF Before
<1>18. Before(P7, W) /\ \A i \in 1 .. n : W[HdrLen(m, t, e, d, s) + i] = 170
  <2>1. Before(P7, W) /\ At(W, Len(P7), Q)
    BY <1>2, <1>5, <1>15, <1>16, <1>17, Piece
  <2> QED
    BY <1>5, <1>15, <2>1 DEF At
<1>19. Before(P6, W)
  BY <1>8, <1>14, <1>16, <1>18, Piece
<1>20. Before(P5, W) /\ (e > 0 => W[EndPos(m, t, d, s)] = HdrLen(m, t, e, d, s))
  <2>1. Before(P5, W) /\ At(W, Len(P5), L)
    BY <1>8, <1>13, <1>16, <1>19, Piece
  <2>2. e > 0 => W[Len(P5) + 1] = HdrLen(m, t, e, d, s)
    <3>1. ASSUME e > 0
          PROVE  1 \in 1 .. Len(L) /\ L[1] = HdrLen(m, t, e, d, s)
      <4>1. Len(L) = 1 /\ L[1] = HdrLen(m, t, e, d, s)
        BY <3>1 DEF IsExt
      <4> QED
        BY <4>1
    <3>2. ASSUME e > 0
          PROVE  W[Len(P5) + 1] = L[1]
      BY <2>1, <3>1, <3>2 DEF At
    <3> QED
      BY <3>1, <3>2
  <2>3. Len(P5) + 1 = EndPos(m, t, d, s)
    BY <1>1, <1>13
  <2> QED
    BY <2>1, <2>2, <2>3
<1>21. /\ Before(P4, W)
       /\ \A i \in 1 .. AddrLen(s) : W[SrcPos(m, t, d) + i - 1] = s.field8[i]
  <2>1. Before(P4, W) /\ At(W, Len(P4), C)
    BY <1>2, <1>3, <1>12, <1>16, <1>20, Piece
  <2>2. ASSUME NEW i \in 1 .. AddrLen(s)
        PROVE  W[SrcPos(m, t, d) + i - 1] = s.field8[i]
    <3>1. Len(P4) + i = SrcPos(m, t, d) + i - 1
      BY <1>1, <1>12
    <3>2. W[Len(P4) + i] = s.field8[i]
      BY <1>3, <1>4, <2>1 DEF At
    <3> QED
      BY <3>1, <3>2
  <2> QED
    BY <2>1, <2>2
<1>22. /\ Before(P3, W)
       /\ \A i \in 1 .. AddrLen(d) : W[DstPos(m, t) + i - 1] = d.field8[i]
  <2>1. Before(P3, W) /\ At(W, Len(P3), B)
    BY <1>2, <1>3, <1>11, <1>16, <1>21, Piece
  <2>2. ASSUME NEW i \in 1 .. AddrLen(d)
        PROVE  W[DstPos(m, t) + i - 1] = d.field8[i]
    <3>1. Len(P3) + i = DstPos(m, t) + i - 1
      BY <1>1, <1>11
    <3>2. W[Len(P3) + i] = d.field8[i]
      BY <1>3, <1>4, <2>1 DEF At
    <3> QED
      BY <3>1, <3>2
  <2> QED
    BY <2>1, <2>2
<1>23. Before(P2, W) /\ W[DstPos(m, t) - 1] = NextHdr
  <2>1. Before(P2, W) /\ At(W, Len(P2), NextByte)
    BY <1>6, <1>7, <1>10, <1>16, <1>22, Piece
  <2>2. W[Len(P2) + 1] = NextHdr
    BY <1>7, <2>1 DEF At
  <2>3. Len(P2) + 1 = DstPos(m, t) - 1
    BY <1>1, <1>10 DEF DstPos
  <2> QED
    BY <2>1, <2>2, <2>3
<1>24. /\ Before(P1, W)
       /\ t = 2 => 256 * W[Len(m) + 2] + W[Len(m) + 3] = HdrLen(m, t, e, d, s) + n
  <2>1. Before(P1, W) /\ At(W, Len(P1), T)
    BY <1>8, <1>9, <1>16, <1>23, Piece
  <2>2. ASSUME t = 2
        PROVE  256 * W[Len(m) + 2] + W[Len(m) + 3] = HdrLen(m, t, e, d, s) + n
    <3>1. W[Len(P1) + 1] = T[1] /\ W[Len(P1) + 2] = T[2]
      BY <1>8, <2>1, <2>2 DEF At
    <3>2. Len(P1) + 1 = Len(m) + 2 /\ Len(P1) + 2 = Len(m) + 3
      BY <1>1, <1>9
    <3>3. 256 * T[1] + T[2] = HdrLen(m, t, e, d, s) + n
      BY <2>2 DEF IsTotal
    <3> QED
      BY <3>1, <3>2, <3>3
  <2> QED
    BY <2>1, <2>2
<1>25. Before(m, W)
  BY <1>6, <1>7, <1>16, <1>24, Piece
<1>26. Begins(W, Len(W), m, t, e, d, s, n)
  BY <1>18, <1>20, <1>21, <1>22, <1>23, <1>24, <1>25 DEF Begins, Before
<1> QED
  BY <1>13, <1>15, <1>16, <1>26

\* nip_update_total_len.
LEMMA TotalBytes ==
  ASSUME NEW x \in Nat
  PROVE  IsTotal(TwoBytes(x), 2, x)
<1>1. x \div 256 \in Int /\ x % 256 \in Int /\ 256 * (x \div 256) + (x % 256) = x
  <2>1. x \in Int /\ x >= 0
    OBVIOUS
  <2>2. x \div 256 \in Int
    BY <2>1
  <2>3. x % 256 \in Int
    BY <2>1
  <2>4. 256 * (x \div 256) + (x % 256) = x
    BY <2>1
  <2> QED
    BY <2>2, <2>3, <2>4
<1>2. PICK p \in Int, q \in Int : p = x \div 256 /\ q = x % 256 /\ 256 * p + q = x
  BY <1>1
<1>3. TwoBytes(x) = <<p, q>>
  BY <1>2 DEF TwoBytes
<1>4. <<p, q>> \in Seq(Int) /\ Len(<<p, q>>) = 2
  OBVIOUS
<1>5. <<p, q>>[1] = p /\ <<p, q>>[2] = q
  OBVIOUS
<1> QED
  BY <1>2, <1>3, <1>4, <1>5 DEF IsTotal

\* W is a packet with a header of hdr bytes, as far as it goes.
Packet(W, hdr, type, m, t, e, d, s, n) ==
  /\ Kind(m, t, e) /\ W \in Seq(Int) /\ Begins(W, Len(W), m, t, e, d, s, n)
  /\ hdr = HdrLen(m, t, e, d, s)
  /\ type = "udp" <=> t = 0

IsPacket(W, hdr, type, d, s, n) == \E m, t, e : Packet(W, hdr, type, m, t, e, d, s, n)

LEMMA HdrLenIs ==
  ASSUME NEW m, NEW t \in Nat, NEW e \in Nat, NEW d, NEW s,
         Len(m) \in Nat, AddrLen(d) \in Nat, AddrLen(s) \in Nat
  PROVE  HdrLen(m, t, e, d, s) = Len(m) + t + 2 + AddrLen(d) + AddrLen(s) + e
<1>1. PICK x \in Nat, y \in Nat, z \in Nat : x = Len(m) /\ y = AddrLen(d) /\ z = AddrLen(s)
  OBVIOUS
<1>2. HdrLen(m, t, e, d, s) = x + t + 3 + y + z - 1 + e
  BY <1>1 DEF HdrLen, EndPos, SrcPos, DstPos
<1>3. x + t + 3 + y + z - 1 + e = x + t + 2 + y + z + e
  OBVIOUS
<1> QED
  BY <1>1, <1>2, <1>3

\* What this stack sends.
LEMMA NativeIsPacket ==
  ASSUME NEW type \in {"udp", "comm"}, NEW s, Valid(s), NEW d, Valid(d), NEW n \in Nat,
         NEW hdr, hdr = nip_hdr_encap(type, s, d, n), NEW W, Joined(hdr, PayloadBytes(n), W)
  PROVE  IsPacket(W, Len(hdr), type, d, s, n) /\ Len(hdr) \in Nat /\ Len(W) = Len(hdr) + n
<1>1. PICK m, t : m = Bitmap(type, s, d) /\ t = IF type = "udp" THEN 0 ELSE 2
  OBVIOUS
<1>2. Kind(m, t, 0) /\ Len(m) = IF OddAddrs(s, d) THEN 1 ELSE 2
  BY <1>1 DEF Kind, Bitmap
<1>3. /\ AddrLen(d) \in 1 .. 8 /\ AddrLen(s) \in 1 .. 8 /\ HdrLen(m, t, 0, d, s) \in Nat
  BY <1>2, Positions
<1>4. HdrLen(m, t, 0, d, s) = EncapLen(type, s, d)
  <2>1. HdrLen(m, t, 0, d, s) = Len(m) + t + 2 + AddrLen(d) + AddrLen(s) + 0
    <3>1. Len(m) \in Nat /\ t \in Nat
      BY <1>1, <1>2
    <3> QED
      BY <1>3, <3>1, HdrLenIs
  <2>2. CASE OddAddrs(s, d)
    BY <1>1, <1>2, <1>3, <2>1, <2>2 DEF EncapLen
  <2>3. CASE ~OddAddrs(s, d)
    BY <1>1, <1>2, <1>3, <2>1, <2>3 DEF EncapLen
  <2> QED
    BY <2>2, <2>3
<1>5. PICK T : T = IF type = "udp" THEN <<>> ELSE TwoBytes(EncapLen(type, s, d) + n)
  OBVIOUS
<1>6. IsTotal(T, t, HdrLen(m, t, 0, d, s) + n)
  <2>1. CASE type = "udp"
    <3>1. T = <<>> /\ t = 0
      BY <1>1, <1>5, <2>1
    <3>2. T \in Seq(Int) /\ Len(T) = 0
      BY <3>1
    <3> QED
      BY <3>1, <3>2 DEF IsTotal
  <2>2. CASE type # "udp"
    <3>1. PICK x \in Nat : x = HdrLen(m, t, 0, d, s) + n
      BY <1>3
    <3>2. T = TwoBytes(x) /\ t = 2
      BY <1>1, <1>4, <1>5, <2>2, <3>1
    <3> QED
      BY <3>1, <3>2, TotalBytes
  <2> QED
    BY <2>1, <2>2
<1>7. PICK L : L = <<>>
  OBVIOUS
<1>8. IsExt(L, L, 0, HdrLen(m, t, 0, d, s))
  BY <1>7 DEF IsExt
<1>9. PICK P1, P2, P3, P4, P5, P6, P7, V :
        /\ Joined(m, TtlByte, P1) /\ Joined(P1, T, P2) /\ Joined(P2, NextByte, P3)
        /\ Joined(P3, build_nip_addr(d), P4) /\ Joined(P4, build_nip_addr(s), P5)
        /\ Joined(P5, L, P6) /\ Joined(P6, L, P7) /\ Joined(P7, PayloadBytes(n), V)
  BY DEF Joined
<1>10. /\ P5 \in Seq(Int) /\ Len(P7) = HdrLen(m, t, 0, d, s)
       /\ V \in Seq(Int) /\ Len(V) = HdrLen(m, t, 0, d, s) + n
       /\ Begins(V, Len(V), m, t, 0, d, s, n)
  BY <1>2, <1>6, <1>8, <1>9, Assembled
<1>11. P7 = P5
  <2>1. P6 = P5
    BY <1>7, <1>9, <1>10, ConcatEmptySeq DEF Joined
  <2> QED
    BY <1>7, <1>9, <1>10, <2>1, ConcatEmptySeq DEF Joined
<1>12. hdr = P5
  BY <1>1, <1>5, <1>9 DEF nip_hdr_encap, Joined, TtlByte, NextByte
<1>13. W = V
  BY <1>9, <1>11, <1>12 DEF Joined
<1>14. type = "udp" <=> t = 0
  BY <1>1
<1>15. Packet(W, Len(hdr), type, m, t, 0, d, s, n)
  BY <1>2, <1>10, <1>11, <1>12, <1>13, <1>14 DEF Packet
<1> QED
  BY <1>3, <1>10, <1>11, <1>12, <1>13, <1>15 DEF IsPacket

\* What a later version sends.
LEMMA ExtIsPacket ==
  ASSUME NEW more \in BOOLEAN, NEW ext \in Nat, NEW s, Valid(s), NEW d, Valid(d),
         NEW n \in Nat, NEW hdr, hdr = ExtHdr(s, d, n, more, ext),
         NEW W, Joined(hdr, PayloadBytes(n), W)
  PROVE  IsPacket(W, Len(hdr), "ext", d, s, n) /\ Len(hdr) \in Nat /\ Len(W) = Len(hdr) + n
<1>1. PICK m : m = IF more THEN <<119, 129, 64>> ELSE <<119, 192>>
  OBVIOUS
<1>2. PICK e \in Nat : e = 1 + ext
  OBVIOUS
<1>3. Kind(m, 2, e)
  <2>1. e > 0 /\ (m = <<119, 192>> \/ m = <<119, 129, 64>>)
    BY <1>1, <1>2
  <2> QED
    BY <2>1 DEF Kind
<1>4. /\ Len(m) \in 1 .. 3
      /\ AddrLen(d) \in 1 .. 8 /\ AddrLen(s) \in 1 .. 8 /\ HdrLen(m, 2, e, d, s) \in Nat
  BY <1>3, Positions
<1>5. PICK len \in Nat : len = HdrLen(m, 2, e, d, s)
  BY <1>4
<1>6. len = Len(m) + 5 + AddrLen(d) + AddrLen(s) + ext
  <2>0. Len(m) \in Nat /\ AddrLen(d) \in Nat /\ AddrLen(s) \in Nat
    BY <1>4
  <2>1. HdrLen(m, 2, e, d, s) = Len(m) + 2 + 2 + AddrLen(d) + AddrLen(s) + e
    <3>1. PICK t \in Nat : t = 2
      OBVIOUS
    <3>2. HdrLen(m, t, e, d, s) = Len(m) + t + 2 + AddrLen(d) + AddrLen(s) + e
      BY <2>0, HdrLenIs
    <3> QED
      BY <3>1, <3>2
  <2>2. PICK x \in Nat, y \in Nat, z \in Nat : x = Len(m) /\ y = AddrLen(d) /\ z = AddrLen(s)
    BY <2>0
  <2>3. x + 2 + 2 + y + z + (1 + ext) = x + 5 + y + z + ext
    BY <2>2
  <2> QED
    BY <1>2, <1>5, <2>1, <2>2, <2>3
<1>7. PICK T : T = TwoBytes(len + n)
  OBVIOUS
<1>8. IsTotal(T, 2, HdrLen(m, 2, e, d, s) + n)
  BY <1>5, <1>7, TotalBytes
<1>9. PICK L, Y : L = <<len>> /\ Y = [i \in 1 .. ext |-> 255]
  OBVIOUS
<1>10. IsExt(L, Y, e, HdrLen(m, 2, e, d, s))
  <2>1. Y \in Seq(Int) /\ Len(Y) = ext
    BY <1>9, RunOf
  <2>2. L \in Seq(Int) /\ Len(L) = 1 /\ L[1] = len
    BY <1>9
  <2> QED
    BY <1>2, <1>5, <2>1, <2>2 DEF IsExt
<1>11. PICK P1, P2, P3, P4, P5, P6, P7, V :
        /\ Joined(m, TtlByte, P1) /\ Joined(P1, T, P2) /\ Joined(P2, NextByte, P3)
        /\ Joined(P3, build_nip_addr(d), P4) /\ Joined(P4, build_nip_addr(s), P5)
        /\ Joined(P5, L, P6) /\ Joined(P6, Y, P7) /\ Joined(P7, PayloadBytes(n), V)
  BY DEF Joined
<1>12. /\ Len(P7) = HdrLen(m, 2, e, d, s)
       /\ V \in Seq(Int) /\ Len(V) = HdrLen(m, 2, e, d, s) + n
       /\ Begins(V, Len(V), m, 2, e, d, s, n)
  BY <1>3, <1>8, <1>10, <1>11, Assembled
<1>13. hdr = P7
  <2>1. hdr = m \o <<TTL>> \o T \o <<NextHdr>> \o build_nip_addr(d) \o build_nip_addr(s)
                \o L \o Y
    BY <1>1, <1>6, <1>7, <1>9 DEF ExtHdr
  <2> QED
    BY <1>11, <2>1 DEF Joined, TtlByte, NextByte
<1>14. W = V
  BY <1>11, <1>13 DEF Joined
<1>15. Packet(W, Len(hdr), "ext", m, 2, e, d, s, n)
  BY <1>3, <1>12, <1>13, <1>14 DEF Packet
<1> QED
  BY <1>4, <1>12, <1>13, <1>14, <1>15 DEF IsPacket

-----------------------------------------------------------------------------
(* Padding and truncation.                                                 *)

\* A packet that is complete may be followed by anything.
LEMMA BeginsLonger ==
  ASSUME NEW m, NEW t, NEW e, Kind(m, t, e), NEW d, Valid(d), NEW s, Valid(s),
         NEW W, NEW len \in Nat, NEW n \in Nat, Begins(W, len, m, t, e, d, s, n),
         HdrLen(m, t, e, d, s) + n <= len, NEW k \in Nat
  PROVE  Begins(W, k, m, t, e, d, s, n)
<1>1. /\ Len(m) \in 1 .. 3 /\ t \in {0, 2} /\ e \in Nat
      /\ AddrLen(d) \in 1 .. 8 /\ AddrLen(s) \in 1 .. 8
      /\ DstPos(m, t) \in Nat /\ SrcPos(m, t, d) \in Nat /\ EndPos(m, t, d, s) \in Nat
      /\ HdrLen(m, t, e, d, s) \in Nat
      /\ HdrLen(m, t, e, d, s) >= EndPos(m, t, d, s) - 1
      /\ EndPos(m, t, d, s) > SrcPos(m, t, d)
      /\ SrcPos(m, t, d) > DstPos(m, t) /\ DstPos(m, t) > Len(m) + 2
      /\ t = 2 => DstPos(m, t) > Len(m) + 4
  BY Positions
<1>2. /\ Len(m) <= len /\ DstPos(m, t) - 1 <= len /\ (t = 2 => Len(m) + 3 <= len)
      /\ EndPos(m, t, d, s) - 1 <= len /\ HdrLen(m, t, e, d, s) <= len
  BY <1>1
<1>3. \A i \in 1 .. Len(m) : W[i] = m[i]
  BY <1>1, <1>2 DEF Begins
<1>4. t = 2 => 256 * W[Len(m) + 2] + W[Len(m) + 3] = HdrLen(m, t, e, d, s) + n
  BY <1>2 DEF Begins
<1>5. W[DstPos(m, t) - 1] = NextHdr
  BY <1>2 DEF Begins
<1>6. ASSUME NEW i \in 1 .. AddrLen(d)
      PROVE  W[DstPos(m, t) + i - 1] = d.field8[i]
  <2>1. SrcPos(m, t, d) = DstPos(m, t) + AddrLen(d)
    BY DEF SrcPos
  <2>2. PICK x \in Nat, y \in Nat, z \in Nat :
          x = DstPos(m, t) /\ y = AddrLen(d) /\ z = i /\ z <= y /\ x + y <= len
    <3>1. i \in Nat /\ AddrLen(d) \in Nat /\ i <= AddrLen(d)
      BY <1>1
    <3>2. SrcPos(m, t, d) <= len
      BY <1>1, <1>2
    <3> QED
      BY <1>1, <2>1, <3>1, <3>2
  <2>3. x + z - 1 <= len
    BY <2>2
  <2> QED
    BY <2>2, <2>3 DEF Begins
<1>7. ASSUME NEW i \in 1 .. AddrLen(s)
      PROVE  W[SrcPos(m, t, d) + i - 1] = s.field8[i]
  <2>1. EndPos(m, t, d, s) = SrcPos(m, t, d) + AddrLen(s)
    BY DEF EndPos
  <2>2. PICK x \in Nat, y \in Nat, z \in Nat :
          x = SrcPos(m, t, d) /\ y = AddrLen(s) /\ z = i /\ z <= y /\ x + y - 1 <= len
    <3>1. i \in Nat /\ AddrLen(s) \in Nat /\ i <= AddrLen(s)
      BY <1>1
    <3> QED
      BY <1>1, <1>2, <2>1, <3>1
  <2>3. x + z - 1 <= len
    BY <2>2
  <2> QED
    BY <2>2, <2>3 DEF Begins
<1>8. e > 0 => W[EndPos(m, t, d, s)] = HdrLen(m, t, e, d, s)
  <2>1. e > 0 => HdrLen(m, t, e, d, s) >= EndPos(m, t, d, s)
    BY <1>1 DEF HdrLen
  <2>2. e > 0 => EndPos(m, t, d, s) <= len
    BY <1>1, <1>2, <2>1
  <2> QED
    BY <2>2 DEF Begins
<1>9. ASSUME NEW i \in 1 .. n
      PROVE  W[HdrLen(m, t, e, d, s) + i] = 170
  <2>1. HdrLen(m, t, e, d, s) + i <= len
    BY <1>1
  <2> QED
    BY <2>1 DEF Begins
<1> QED
  BY <1>3, <1>4, <1>5, <1>6, <1>7, <1>8, <1>9 DEF Begins

LEMMA BeginsShorter ==
  ASSUME NEW m, NEW t, NEW e, Kind(m, t, e), NEW d, Valid(d), NEW s, Valid(s),
         NEW W, NEW len \in Nat, NEW n \in Nat, Begins(W, len, m, t, e, d, s, n),
         NEW k \in Nat, k <= len
  PROVE  Begins(W, k, m, t, e, d, s, n)
<1>1. /\ Len(m) \in 1 .. 3 /\ AddrLen(d) \in 1 .. 8 /\ AddrLen(s) \in 1 .. 8
      /\ DstPos(m, t) \in Nat /\ SrcPos(m, t, d) \in Nat /\ EndPos(m, t, d, s) \in Nat
      /\ HdrLen(m, t, e, d, s) \in Nat
  BY Positions
<1>2. \A x \in Int : x <= k => x <= len
  OBVIOUS
<1>3. /\ \A i \in 1 .. Len(m) : i <= k => W[i] = m[i]
      /\ t = 2 /\ Len(m) + 3 <= k =>
           256 * W[Len(m) + 2] + W[Len(m) + 3] = HdrLen(m, t, e, d, s) + n
      /\ DstPos(m, t) - 1 <= k => W[DstPos(m, t) - 1] = NextHdr
      /\ e > 0 /\ EndPos(m, t, d, s) <= k => W[EndPos(m, t, d, s)] = HdrLen(m, t, e, d, s)
  BY <1>1, <1>2 DEF Begins
<1>4. ASSUME NEW i \in 1 .. AddrLen(d), DstPos(m, t) + i - 1 <= k
      PROVE  W[DstPos(m, t) + i - 1] = d.field8[i]
  <2>1. DstPos(m, t) + i - 1 <= len
    BY <1>1, <1>4
  <2> QED
    BY <2>1 DEF Begins
<1>5. ASSUME NEW i \in 1 .. AddrLen(s), SrcPos(m, t, d) + i - 1 <= k
      PROVE  W[SrcPos(m, t, d) + i - 1] = s.field8[i]
  <2>1. SrcPos(m, t, d) + i - 1 <= len
    BY <1>1, <1>5
  <2> QED
    BY <2>1 DEF Begins
<1>6. ASSUME NEW i \in 1 .. n, HdrLen(m, t, e, d, s) + i <= k
      PROVE  W[HdrLen(m, t, e, d, s) + i] = 170
  <2>1. HdrLen(m, t, e, d, s) + i <= len
    BY <1>1, <1>6
  <2> QED
    BY <2>1 DEF Begins
<1> QED
  BY <1>3, <1>4, <1>5, <1>6 DEF Begins

\* A packet padded by the link is the same packet.
LEMMA Padded ==
  ASSUME NEW hdr \in Nat, NEW type, NEW d, Valid(d), NEW s, Valid(s), NEW n \in Nat,
         NEW W, IsPacket(W, hdr, type, d, s, n), hdr + n <= Len(W),
         NEW Z \in Seq(Int), NEW V, Joined(W, Z, V)
  PROVE  IsPacket(V, hdr, type, d, s, n) /\ hdr + n <= Len(V)
<1>1. PICK m, t, e : Packet(W, hdr, type, m, t, e, d, s, n)
  BY DEF IsPacket
<1>2. /\ Kind(m, t, e) /\ W \in Seq(Int) /\ Begins(W, Len(W), m, t, e, d, s, n)
      /\ hdr = HdrLen(m, t, e, d, s)
  BY <1>1 DEF Packet
<1>3. /\ V \in Seq(Int) /\ Len(V) = Len(W) + Len(Z) /\ Len(W) \in Nat /\ Len(Z) \in Nat
      /\ \A i \in 1 .. Len(W) : V[i] = W[i]
  BY <1>2, Join
<1>4. PICK len \in Nat, k \in Nat : len = Len(W) /\ k = Len(V)
  BY <1>3
<1>5. Begins(V, len, m, t, e, d, s, n)
  BY <1>2, <1>3, <1>4, BeginsSame
<1>6. Begins(V, k, m, t, e, d, s, n)
  <2>1. HdrLen(m, t, e, d, s) + n <= len
    BY <1>2, <1>4
  <2> QED
    BY <1>2, <1>5, <2>1, BeginsLonger
<1>7. Packet(V, hdr, type, m, t, e, d, s, n)
  BY <1>1, <1>3, <1>4, <1>6 DEF Packet
<1> QED
  BY <1>3, <1>7 DEF IsPacket

\* A packet cut short still begins as it was sent.
LEMMA Shortened ==
  ASSUME NEW hdr \in Nat, NEW type, NEW d, Valid(d), NEW s, Valid(s), NEW n \in Nat,
         NEW W, IsPacket(W, hdr, type, d, s, n), NEW k \in Nat, k <= Len(W),
         NEW V, V = SubSeq(W, 1, k)
  PROVE  IsPacket(V, hdr, type, d, s, n)
<1>1. PICK m, t, e : Packet(W, hdr, type, m, t, e, d, s, n)
  BY DEF IsPacket
<1>2. /\ Kind(m, t, e) /\ W \in Seq(Int) /\ Begins(W, Len(W), m, t, e, d, s, n)
      /\ hdr = HdrLen(m, t, e, d, s)
  BY <1>1 DEF Packet
<1>3. V = Trimmed(W, 2, k)
  BY DEF Trimmed
<1>4. V \in Seq(Int) /\ Len(V) = k /\ \A i \in 1 .. Len(V) : V[i] = W[i]
  BY <1>2, <1>3, TrimmedIs
<1>5. PICK len \in Nat : len = Len(W)
  BY <1>2, LenProperties
<1>6. Begins(W, k, m, t, e, d, s, n)
  BY <1>2, <1>5, BeginsShorter
<1>7. Begins(V, k, m, t, e, d, s, n)
  BY <1>2, <1>4, <1>6, BeginsSame
<1>8. Packet(V, hdr, type, m, t, e, d, s, n)
  BY <1>1, <1>4, <1>7 DEF Packet
<1> QED
  BY <1>8 DEF IsPacket

-----------------------------------------------------------------------------
(* The packet in flight and what is received.                              *)

\* The bytes in flight are those that were sent, as far as they go; a packet that was not
\* cut is all there.
FlightOf(n) ==
  /\ IsPacket(wire, sent.hdr, sent.type, sent.daddr, sent.saddr, n)
  /\ sent.hdr \in Nat /\ sent.payload = PayloadBytes(n)
  /\ sent.cut \/ sent.hdr + n <= Len(wire)

InFlight ==
  /\ stage # "idle" => \E n \in Payloads : FlightOf(n)
  /\ stage = "received" => \E fill \in Garbage : rcvd = nip_rcv(wire, fill)

\* The addresses and payload lengths in use.
LEMMA Inputs ==
  /\ \A a \in Addrs : Valid(a)
  /\ \A n \in Payloads : n \in Nat /\ n >= 1
  /\ \A f \in Garbage : f \in Byte
<1>1. \A a \in Addrs : Valid(a)
  BY HdrAssumption DEF HdrAssumption, Valid
<1>2. \A n \in Payloads : n \in Nat /\ n >= 1
  BY HdrAssumption DEF HdrAssumption
<1>3. \A f \in Garbage : f \in Byte
  BY HdrAssumption DEF HdrAssumption
<1> QED
  BY <1>1, <1>2, <1>3

LEMMA FlightInvariant == Spec => []InFlight
<1>1. Init => InFlight
  BY DEF Init, InFlight
<1>2. SentOK /\ InFlight /\ [Next]_vars => InFlight'
  <2> SUFFICES ASSUME SentOK, InFlight, [Next]_vars PROVE InFlight'
    OBVIOUS
  <2>1. ASSUME NEW type \in {"udp", "comm"}, NEW s \in Addrs, NEW d \in Addrs,
               NEW n \in Payloads, Send(type, s, d, n)
        PROVE  InFlight'
    <3>1. PICK hdr, W : hdr = nip_hdr_encap(type, s, d, n) /\ W = hdr \o PayloadBytes(n)
      OBVIOUS
    <3>2. /\ stage' = "sent" /\ wire' = W
          /\ sent' = [type |-> type, saddr |-> s, daddr |-> d, payload |-> PayloadBytes(n),
                      hdr |-> Len(hdr), cut |-> FALSE]
      BY <2>1, <3>1 DEF Send
    <3>3. Valid(s) /\ Valid(d) /\ n \in Nat /\ Joined(hdr, PayloadBytes(n), W)
      BY <3>1, Inputs DEF Joined
    <3>4. /\ IsPacket(W, Len(hdr), type, d, s, n) /\ Len(hdr) \in Nat
          /\ Len(W) = Len(hdr) + n
      <4>1. hdr = nip_hdr_encap(type, s, d, n)
        BY <3>1
      <4> QED
        BY <3>3, <4>1, NativeIsPacket
    <3>5. PICK x \in Nat : x = Len(hdr)
      BY <3>4
    <3>6. /\ sent'.type = type /\ sent'.saddr = s /\ sent'.daddr = d
          /\ sent'.payload = PayloadBytes(n) /\ sent'.hdr = x
      BY <3>2, <3>5
    <3>7. x + n <= Len(W) /\ IsPacket(W, x, type, d, s, n)
      <4>1. Len(W) = x + n /\ x + n \in Nat
        BY <3>3, <3>4, <3>5
      <4> QED
        BY <3>4, <3>5, <4>1
    <3>8. FlightOf(n)'
      BY <3>2, <3>6, <3>7 DEF FlightOf
    <3> QED
      BY <3>2, <3>8 DEF InFlight
  <2>2. ASSUME NEW s \in Addrs, NEW d \in Addrs, NEW n \in Payloads,
               NEW more \in BOOLEAN, NEW ext \in 0 .. MaxExt,
               SendExt(s, d, n, more, ext)
        PROVE  InFlight'
    <3>1. PICK hdr, W : hdr = ExtHdr(s, d, n, more, ext) /\ W = hdr \o PayloadBytes(n)
      OBVIOUS
    <3>2. /\ stage' = "sent" /\ wire' = W
          /\ sent' = [type |-> "ext", saddr |-> s, daddr |-> d, payload |-> PayloadBytes(n),
                      hdr |-> Len(hdr), cut |-> FALSE]
      BY <2>2, <3>1 DEF SendExt
    <3>3. Valid(s) /\ Valid(d) /\ n \in Nat /\ Joined(hdr, PayloadBytes(n), W)
      BY <3>1, Inputs DEF Joined
    <3>4. ext \in Nat
      BY HdrAssumption DEF HdrAssumption
    <3>5. /\ IsPacket(W, Len(hdr), "ext", d, s, n) /\ Len(hdr) \in Nat
          /\ Len(W) = Len(hdr) + n
      <4>1. hdr = ExtHdr(s, d, n, more, ext)
        BY <3>1
      <4> QED
        BY <3>3, <3>4, <4>1, ExtIsPacket
    <3>6. PICK x \in Nat : x = Len(hdr)
      BY <3>5
    <3>7. /\ sent'.type = "ext" /\ sent'.saddr = s /\ sent'.daddr = d
          /\ sent'.payload = PayloadBytes(n) /\ sent'.hdr = x
      BY <3>2, <3>6
    <3>8. x + n <= Len(W) /\ IsPacket(W, x, "ext", d, s, n)
      <4>1. Len(W) = x + n /\ x + n \in Nat
        BY <3>3, <3>5, <3>6
      <4> QED
        BY <3>5, <3>6, <4>1
    <3>9. FlightOf(n)'
      BY <3>2, <3>7, <3>8 DEF FlightOf
    <3> QED
      BY <3>2, <3>9 DEF InFlight
  <2>3. ASSUME NEW k \in 1 .. MaxPad, Pad(k)
        PROVE  InFlight'
    <3>1. PICK n \in Payloads : FlightOf(n)
      BY <2>3 DEF Pad, InFlight
    <3>2. PICK hdr, W, Z : /\ hdr \in Nat /\ hdr = sent.hdr /\ W = wire
                          /\ Z = [i \in 1 .. k |-> 0]
      BY <3>1 DEF FlightOf
    <3>3. PICK V : V = W \o Z
      OBVIOUS
    <3>4. wire' = V /\ sent' = sent /\ stage' = stage /\ stage = "sent" /\ ~sent.cut
      BY <2>3, <3>2, <3>3 DEF Pad
    <3>5. /\ Valid(sent.daddr) /\ Valid(sent.saddr) /\ n \in Nat /\ Joined(W, Z, V)
          /\ IsPacket(W, hdr, sent.type, sent.daddr, sent.saddr, n) /\ hdr + n <= Len(W)
      BY <3>1, <3>2, <3>3, <3>4, Inputs DEF FlightOf, SentOK, Joined
    <3>6. Z \in Seq(Int)
      <4>1. k \in Nat /\ 0 \in Int
        BY HdrAssumption DEF HdrAssumption
      <4> QED
        BY <3>2, <4>1, RunOf
    <3>7. IsPacket(V, hdr, sent.type, sent.daddr, sent.saddr, n) /\ hdr + n <= Len(V)
      BY <3>2, <3>5, <3>6, Padded
    <3>8. FlightOf(n)'
      BY <3>1, <3>2, <3>4, <3>7 DEF FlightOf
    <3> QED
      BY <3>4, <3>8 DEF InFlight
  <2>4. ASSUME NEW k \in 1 .. Len(wire) - 1, Truncate(k)
        PROVE  InFlight'
    <3>1. PICK n \in Payloads : FlightOf(n)
      BY <2>4 DEF Truncate, InFlight
    <3>2. PICK hdr, W : hdr \in Nat /\ hdr = sent.hdr /\ W = wire
      BY <3>1 DEF FlightOf
    <3>3. PICK V : V = SubSeq(W, 1, k)
      OBVIOUS
    <3>4. /\ wire' = V /\ stage' = stage /\ stage = "sent" /\ k < Len(W)
          /\ sent' = [sent EXCEPT !.cut = TRUE]
      BY <2>4, <3>2, <3>3 DEF Truncate
    <3>5. /\ sent'.cut /\ sent'.hdr = hdr /\ sent'.type = sent.type
          /\ sent'.daddr = sent.daddr /\ sent'.saddr = sent.saddr
          /\ sent'.payload = sent.payload
      BY <3>2, <3>4 DEF SentOK
    <3>6. /\ Valid(sent.daddr) /\ Valid(sent.saddr) /\ n \in Nat
          /\ IsPacket(W, hdr, sent.type, sent.daddr, sent.saddr, n)
      BY <3>1, <3>2, <3>4, Inputs DEF FlightOf, SentOK
    <3>7. W \in Seq(Int)
      BY <3>6 DEF IsPacket, Packet
    <3>8. k \in Nat /\ k <= Len(W)
      BY <3>2, <3>7, LenProperties
    <3>9. IsPacket(V, hdr, sent.type, sent.daddr, sent.saddr, n)
      BY <3>2, <3>3, <3>6, <3>8, Shortened
    <3>10. FlightOf(n)'
      BY <3>1, <3>4, <3>5, <3>9 DEF FlightOf
    <3> QED
      BY <3>4, <3>10 DEF InFlight
  <2>5. ASSUME NEW fill \in Garbage, Receive(fill)
        PROVE  InFlight'
    <3>1. stage = "sent" /\ UNCHANGED <<sent, wire>> /\ rcvd' = nip_rcv(wire, fill)
      BY <2>5 DEF Receive
    <3>2. PICK n \in Payloads : FlightOf(n)
      BY <3>1 DEF InFlight
    <3>3. FlightOf(n)'
      BY <3>1, <3>2 DEF FlightOf
    <3>4. rcvd' = nip_rcv(wire, fill)'
      BY <3>1
    <3> QED
      BY <3>3, <3>4 DEF InFlight
  <2>6. CASE UNCHANGED vars
    <3>1. UNCHANGED <<stage, sent, wire, rcvd>>
      BY <2>6 DEF vars
    <3> QED
      BY <3>1 DEF InFlight, FlightOf
  <2> QED
    BY <2>1, <2>2, <2>3, <2>4, <2>5, <2>6 DEF Next
<1> QED
  BY <1>1, <1>2, SentInvariant, PTL DEF Spec

-----------------------------------------------------------------------------
(* What is delivered.                                                      *)

\* A received packet, as the lemmas about nip_rcv take it.
Seen(n, m, t, e, fill) ==
  /\ n \in Nat /\ n >= 1 /\ fill \in Byte
  /\ Kind(m, t, e) /\ Valid(sent.daddr) /\ Valid(sent.saddr)
  /\ wire \in Seq(Int) /\ Len(wire) \in Nat
  /\ Begins(wire, Len(wire), m, t, e, sent.daddr, sent.saddr, n)
  /\ sent.hdr = HdrLen(m, t, e, sent.daddr, sent.saddr) /\ sent.hdr \in Nat
  /\ sent.type = "udp" <=> t = 0
  /\ sent.payload = PayloadBytes(n)
  /\ sent.cut \/ sent.hdr + n <= Len(wire)
  /\ rcvd = nip_rcv(wire, fill)

LEMMA Received ==
  ASSUME SentOK, InFlight, stage = "received"
  PROVE  \E n, m, t, e, fill : Seen(n, m, t, e, fill)
<1>1. PICK n \in Payloads : FlightOf(n)
  BY DEF InFlight
<1>2. PICK fill \in Garbage : rcvd = nip_rcv(wire, fill)
  BY DEF InFlight
<1>3. n \in Nat /\ n >= 1 /\ fill \in Byte
  BY Inputs
<1>4. Valid(sent.daddr) /\ Valid(sent.saddr)
  BY Inputs DEF SentOK
<1>5. PICK m, t, e : Packet(wire, sent.hdr, sent.type, m, t, e, sent.daddr, sent.saddr, n)
  BY <1>1 DEF FlightOf, IsPacket
<1>6. /\ Kind(m, t, e) /\ wire \in Seq(Int)
      /\ Begins(wire, Len(wire), m, t, e, sent.daddr, sent.saddr, n)
      /\ sent.hdr = HdrLen(m, t, e, sent.daddr, sent.saddr)
      /\ sent.type = "udp" <=> t = 0
  BY <1>5 DEF Packet
<1>7. Len(wire) \in Nat
  BY <1>6, LenProperties
<1>8. /\ sent.hdr \in Nat /\ sent.payload = PayloadBytes(n)
      /\ sent.cut \/ sent.hdr + n <= Len(wire)
  BY <1>1 DEF FlightOf
<1>9. Seen(n, m, t, e, fill)
  BY <1>2, <1>3, <1>4, <1>6, <1>7, <1>8 DEF Seen
<1> QED
  BY <1>9

\* A sequence that has the bytes of another and maybe more.
LEMMA PrefixOf ==
  ASSUME NEW a \in Seq(Int), NEW b \in Seq(Int), Len(a) <= Len(b),
         \A i \in 1 .. Len(a) : a[i] = b[i]
  PROVE  IsPrefix(a, b)
<1>1. PICK k \in Nat : k = Len(a)
  BY LenProperties
<1>2. PICK x, y : x = Trimmed(a, 2, k) /\ y = Trimmed(b, 2, k)
  OBVIOUS
<1>3. k <= Len(a) /\ k <= Len(b)
  BY <1>1
<1>4. x \in Seq(Int) /\ Len(x) = k /\ \A i \in 1 .. Len(x) : x[i] = a[i]
  BY <1>2, <1>3, TrimmedIs
<1>5. y \in Seq(Int) /\ Len(y) = k /\ \A i \in 1 .. Len(y) : y[i] = b[i]
  BY <1>2, <1>3, TrimmedIs
<1>6. x = y
  <2>1. Len(x) = Len(y) /\ \A i \in 1 .. Len(x) : x[i] = y[i]
    BY <1>1, <1>4, <1>5
  <2> QED
    BY <1>4, <1>5, <2>1, SeqEqual
<1>7. SubSeq(a, 1, Len(a)) = SubSeq(b, 1, Len(a))
  BY <1>1, <1>2, <1>6 DEF Trimmed
<1> QED
  BY <1>7 DEF IsPrefix

\* What is after the header of a packet.
LEMMA AfterHeader ==
  ASSUME NEW V \in Seq(Int), NEW H \in Nat, H <= Len(V), NEW P, P = SubSeq(V, H + 1, Len(V))
  PROVE  /\ P \in Seq(Int) /\ Len(P) = Len(V) - H
         /\ \A i \in 1 .. Len(V) - H : P[i] = V[H + i]
<1>1. PICK a \in Nat, b \in Nat : a = H + 1 /\ b = Len(V)
  BY LenProperties
<1>2. P = SubSeq(V, a, b) /\ a >= 1 /\ a <= b + 1 /\ b <= Len(V)
  BY <1>1
<1>3. P \in Seq(Int) /\ Len(P) = b - a + 1 /\ \A i \in 1 .. b - a + 1 : P[i] = V[a + i - 1]
  BY <1>2, Slice
<1>4. b - a + 1 = b - H /\ \A i \in 1 .. b - H : a + i - 1 = H + i
  BY <1>1
<1>5. \A i \in 1 .. b - H : P[i] = V[H + i]
  <2>1. ASSUME NEW i \in 1 .. b - H
        PROVE  P[i] = V[H + i]
    <3>1. i \in 1 .. b - a + 1 /\ a + i - 1 = H + i
      BY <1>4
    <3> QED
      BY <1>3, <3>1
  <2> QED
    BY <2>1
<1> QED
  BY <1>1, <1>3, <1>4, <1>5

\* nip_rcv accepts a packet that is all there.
LEMMA WholeAccepted ==
  ASSUME NEW m, NEW t, NEW e, Kind(m, t, e), NEW d, Valid(d), NEW s, Valid(s),
         NEW W \in Seq(Int), NEW n \in Nat, Begins(W, Len(W), m, t, e, d, s, n),
         NEW fill \in Byte, n >= 1, HdrLen(m, t, e, d, s) + n <= Len(W)
  PROVE  nip_rcv(W, fill).ok
<1>1. Len(W) \in Nat /\ HdrLen(m, t, e, d, s) \in Nat
  BY Positions, LenProperties
<1>0. PICK H \in Nat : H = HdrLen(m, t, e, d, s)
  BY <1>1
<1>2. PICK V, r : /\ H = HdrLen(m, t, e, d, s) /\ V = Trimmed(W, t, H + n)
                  /\ r = nip_rcv(W, fill)
  BY <1>0
<1>3. HdrLen(m, t, e, d, s) < Len(W) /\ ~(t = 2 /\ H + n > Len(W))
  BY <1>1, <1>2
<1>4. r.ok
  BY <1>2, <1>3, RcvWhole
<1> QED
  BY <1>2, <1>4

\* What nip_rcv delivers of a packet.
LEMMA PayloadDelivered ==
  ASSUME NEW m, NEW t, NEW e, Kind(m, t, e), NEW d, Valid(d), NEW s, Valid(s),
         NEW W \in Seq(Int), NEW n \in Nat, Begins(W, Len(W), m, t, e, d, s, n),
         NEW fill \in Byte, NEW r, r = nip_rcv(W, fill), r.ok
  PROVE  /\ SameAddr(r.saddr, s) /\ SameAddr(r.daddr, d) /\ r.nexthdr = NextHdr
         /\ t = 2 => r.payload = PayloadBytes(n)
         /\ IsPrefix(r.payload, PayloadBytes(n)) \/ IsPrefix(PayloadBytes(n), r.payload)
<1>1. Len(W) \in Nat /\ HdrLen(m, t, e, d, s) \in Nat /\ (t = 0 \/ t = 2)
  BY Positions, LenProperties
<1>0. PICK H \in Nat : H = HdrLen(m, t, e, d, s)
  BY <1>1
<1>2. PICK V, P, Q : /\ H = HdrLen(m, t, e, d, s) /\ V = Trimmed(W, t, H + n)
                     /\ P = r.payload /\ Q = PayloadBytes(n)
  BY <1>0
<1>3. HdrLen(m, t, e, d, s) < Len(W)
  <2>1. ~(Len(W) <= HdrLen(m, t, e, d, s))
    BY RcvCut
  <2> QED
    BY <1>1, <2>1
<1>4. H = HdrLen(m, t, e, d, s) /\ V = Trimmed(W, t, H + n)
  BY <1>2
<1>5. ~(t = 2 /\ H + n > Len(W))
  BY <1>3, <1>4, RcvWhole
<1>6. SameAddr(r.saddr, s) /\ SameAddr(r.daddr, d) /\ r.nexthdr = NextHdr
  BY <1>3, <1>4, <1>5, RcvWhole
<1>7. r.payload = Rest(V, H)
  BY <1>3, <1>4, <1>5, RcvWhole
<1>8. V \in Seq(Int) /\ Len(V) = IF t = 2 THEN H + n ELSE Len(W)
  BY <1>3, <1>4, <1>5, RcvWhole
<1>9. \A i \in 1 .. Len(V) : V[i] = W[i]
  BY <1>3, <1>4, <1>5, RcvWhole
<1>10. H <= Len(V) /\ Len(V) \in Nat /\ Len(V) <= Len(W)
  <2>1. CASE t = 2
    BY <1>1, <1>5, <1>8, <2>1
  <2>2. CASE t # 2
    BY <1>1, <1>3, <1>4, <1>8, <2>2
  <2> QED
    BY <2>1, <2>2
<1>11. /\ P \in Seq(Int) /\ Len(P) = Len(V) - H
       /\ \A i \in 1 .. Len(V) - H : P[i] = V[H + i]
  <2>1. P = SubSeq(V, H + 1, Len(V)) /\ V \in Seq(Int) /\ H <= Len(V)
    BY <1>2, <1>7, <1>8, <1>10 DEF Rest
  <2> QED
    BY <2>1, AfterHeader
<1>12. Q \in Seq(Int) /\ Len(Q) = n /\ \A i \in 1 .. n : Q[i] = 170
  BY <1>2, RunOf DEF PayloadBytes
<1>13. ASSUME NEW i \in Nat, i >= 1, i <= n, i <= Len(V) - H
       PROVE  P[i] = Q[i]
  <2>1. H + i \in 1 .. Len(V) /\ i \in 1 .. Len(V) - H /\ H + i <= Len(W) /\ i \in 1 .. n
    BY <1>1, <1>10, <1>13
  <2>2. P[i] = V[H + i]
    BY <1>11, <2>1
  <2>3. V[H + i] = W[H + i]
    BY <1>9, <2>1
  <2>4. W[H + i] = 170
    <3>1. HdrLen(m, t, e, d, s) + i <= Len(W)
      BY <1>4, <2>1
    <3>2. W[HdrLen(m, t, e, d, s) + i] = 170
      BY <2>1, <3>1 DEF Begins
    <3> QED
      BY <1>4, <3>2
  <2> QED
    BY <1>12, <2>1, <2>2, <2>3, <2>4
<1>14. ASSUME t = 2
       PROVE  P = Q
  <2>1. Len(V) - H = n
    BY <1>8, <1>14
  <2>2. \A i \in 1 .. Len(P) : P[i] = Q[i]
    BY <1>11, <1>13, <2>1
  <2>3. Len(P) = Len(Q)
    BY <1>11, <1>12, <2>1
  <2> QED
    BY <1>11, <1>12, <2>2, <2>3, SeqEqual
<1>15. IsPrefix(P, Q) \/ IsPrefix(Q, P)
  <2>1. PICK k \in Nat : k = Len(V) - H
    <3>1. Len(V) - H \in Nat
      BY <1>10
    <3> QED
      BY <3>1
  <2>2. CASE k <= n
    <3>1. Len(P) <= Len(Q) /\ \A i \in 1 .. Len(P) : P[i] = Q[i]
      BY <1>11, <1>12, <1>13, <2>1, <2>2
    <3> QED
      BY <1>11, <1>12, <3>1, PrefixOf
  <2>3. CASE n <= k
    <3>1. Len(Q) <= Len(P) /\ \A i \in 1 .. Len(Q) : Q[i] = P[i]
      BY <1>11, <1>12, <1>13, <2>1, <2>3
    <3> QED
      BY <1>11, <1>12, <3>1, PrefixOf
  <2> QED
    BY <2>2, <2>3
<1> QED
  BY <1>2, <1>6, <1>14, <1>15

\* Every packet that arrives whole is delivered: nip_hdr_parse refuses no header that
\* encap builds and none of a later version, and nip_rcv finds its total length there,
\* whatever the addresses, the payload, the unknown fields and the padding.
THEOREM WholeAlwaysDelivered == Spec => []WholeIsDelivered
<1>1. SentOK /\ InFlight => WholeIsDelivered
  <2> SUFFICES ASSUME SentOK, InFlight, stage = "received", ~sent.cut
               PROVE  rcvd.ok
    BY DEF WholeIsDelivered
  <2>1. PICK n, m, t, e, fill : Seen(n, m, t, e, fill)
    BY Received
  <2>2. PICK W, d, s : W = wire /\ d = sent.daddr /\ s = sent.saddr
    OBVIOUS
  <2>3. /\ Kind(m, t, e) /\ Valid(d) /\ Valid(s) /\ W \in Seq(Int)
        /\ Begins(W, Len(W), m, t, e, d, s, n) /\ n \in Nat /\ n >= 1 /\ fill \in Byte
        /\ HdrLen(m, t, e, d, s) + n <= Len(W) /\ rcvd = nip_rcv(W, fill)
    BY <2>1, <2>2 DEF Seen
  <2>4. nip_rcv(W, fill).ok
    BY <2>3, WholeAccepted
  <2> QED
    BY <2>3, <2>4
<1> QED
  BY SentInvariant, FlightInvariant, <1>1, PTL

\* A packet cut inside its header is dropped, whatever nip_hdr_parse reads in the memory
\* after it: a bitmap, an address or a header length that is not the packet's never makes
\* it acceptable.
THEOREM CutAlwaysDropped == Spec => []CutHeaderDropped
<1>1. SentOK /\ InFlight => CutHeaderDropped
  <2> SUFFICES ASSUME SentOK, InFlight, stage = "received", Len(wire) <= sent.hdr
               PROVE  ~rcvd.ok
    BY DEF CutHeaderDropped
  <2>1. PICK n, m, t, e, fill : Seen(n, m, t, e, fill)
    BY Received
  <2>2. PICK W, d, s : W = wire /\ d = sent.daddr /\ s = sent.saddr
    OBVIOUS
  <2>3. /\ Kind(m, t, e) /\ Valid(d) /\ Valid(s) /\ W \in Seq(Int)
        /\ Begins(W, Len(W), m, t, e, d, s, n) /\ Len(W) <= HdrLen(m, t, e, d, s)
        /\ n \in Nat /\ fill \in Byte /\ rcvd = nip_rcv(W, fill)
    BY <2>1, <2>2 DEF Seen
  <2>4. ~nip_rcv(W, fill).ok
    BY <2>3, RcvCut
  <2> QED
    BY <2>3, <2>4
<1> QED
  BY SentInvariant, FlightInvariant, <1>1, PTL

\* Whatever nip_rcv delivers has the addresses and the protocol that were sent, and the
\* payload from its first byte; with a total length it is the payload and nothing else,
\* the padding of the link is gone and a packet without its tail is dropped.
THEOREM DeliveredAsSent == Spec => []DeliveredIsSent
<1>1. SentOK /\ InFlight => DeliveredIsSent
  <2> SUFFICES ASSUME SentOK, InFlight, stage = "received", rcvd.ok
               PROVE  /\ SameAddr(rcvd.saddr, sent.saddr) /\ SameAddr(rcvd.daddr, sent.daddr)
                      /\ rcvd.nexthdr = NextHdr
                      /\ sent.type = "udp" => \/ IsPrefix(rcvd.payload, sent.payload)
                                              \/ IsPrefix(sent.payload, rcvd.payload)
                      /\ sent.type # "udp" => rcvd.payload = sent.payload
    BY DEF DeliveredIsSent
  <2>1. PICK n, m, t, e, fill : Seen(n, m, t, e, fill)
    BY Received
  <2>2. PICK W, d, s, r : W = wire /\ d = sent.daddr /\ s = sent.saddr /\ r = rcvd
    OBVIOUS
  <2>3. /\ Kind(m, t, e) /\ Valid(d) /\ Valid(s) /\ W \in Seq(Int)
        /\ Begins(W, Len(W), m, t, e, d, s, n) /\ r.ok /\ r = nip_rcv(W, fill)
        /\ n \in Nat /\ fill \in Byte
    BY <2>1, <2>2 DEF Seen
  <2>4. /\ SameAddr(r.saddr, s) /\ SameAddr(r.daddr, d) /\ r.nexthdr = NextHdr
        /\ t = 2 => r.payload = PayloadBytes(n)
        /\ IsPrefix(r.payload, PayloadBytes(n)) \/ IsPrefix(PayloadBytes(n), r.payload)
    BY <2>3, PayloadDelivered
  <2>5. sent.type # "udp" => t = 2
    <3>1. t = 0 \/ t = 2
      BY <2>3 DEF Kind
    <3> QED
      BY <2>1, <3>1 DEF Seen
  <2>6. sent.payload = PayloadBytes(n)
    BY <2>1 DEF Seen
  <2> QED
    BY <2>2, <2>4, <2>5, <2>6
<1> QED
  BY SentInvariant, FlightInvariant, <1>1, PTL
=============================================================================
