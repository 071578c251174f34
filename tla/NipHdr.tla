------------------------------- MODULE NipHdr -------------------------------
(***************************************************************************)
(* The NewIP header on the wire: nip_hdr_encap.c builds it, nip_hdr_decap.c *)
(* parses it, nip_rcv (nip_input.c) delivers the packet.  A packet is sent, *)
(* may be padded or cut short below NewIP, and is received.                *)
(*                                                                         *)
(* "udp" and "comm" headers are those this stack sends; an "ext" header is *)
(* that of a later version, with bits this one does not know, announced by *)
(* the header length field as nip_hdr_decap.c requires.                    *)
(***************************************************************************)
EXTENDS NipAddr, SequencesExt

CONSTANTS
  Addrs,       \* the addresses in use
  Payloads,    \* payload lengths
  MaxPad,      \* bound on the padding added below NewIP
  MaxExt,      \* bound on the bytes of unknown fields in an "ext" header, whose length
               \* field is one byte
  Garbage      \* what memory after the end of a packet may hold

ASSUME HdrAssumption ==
  /\ Addrs \subseteq nip_addr
  /\ \A a \in Addrs : nip_addr_valid(a)
  /\ Payloads \subseteq 1 .. 255
  /\ MaxPad \in Nat /\ MaxExt \in 0 .. 231
  /\ Garbage \subseteq Byte

VARIABLES
  stage,   \* "idle", "sent", "received"
  sent,    \* what the sender asked for
  wire,    \* the bytes in flight
  rcvd     \* what nip_rcv made of them

vars == <<stage, sent, wire, rcvd>>

NIP_HDR_MAX == 24
TTL     == 128
NextHdr == 17

Bit(b, m) == (b \div m) % 2 = 1

-----------------------------------------------------------------------------
(* Sender.                                                                 *)

\* Mutant: the alignment test is inverted.
EvenAddrs(s, d) == (AddrLen(s) + AddrLen(d)) % 2 = 0

\* The sum of the address lengths is odd: one bitmap byte gives an even header.
OddAddrs(s, d) == (AddrLen(s) + AddrLen(d)) % 2 # 0

Bitmap(type, s, d) ==
  CASE type = "udp"  -> IF OddAddrs(s, d) THEN <<86>> ELSE <<87, 0>>
    [] type = "comm" -> IF OddAddrs(s, d) THEN <<118>> ELSE <<119, 0>>

\* hdr_buf_pos after nip_hdr_udp_encap or nip_hdr_comm_encap.
EncapLen(type, s, d) ==
  (IF OddAddrs(s, d) THEN 1 ELSE 2) + (IF type = "udp" THEN 2 ELSE 4)
    + AddrLen(s) + AddrLen(d)

\* get_nip_hdr_len: the length callers reserve.
get_nip_hdr_len(type, s, d) ==
  (IF type = "udp" THEN 4 ELSE 6)
    + get_nip_addr_len(s.field8[1]) + get_nip_addr_len(d.field8[1])

TwoBytes(n) == <<n \div 256, n % 256>>

\* nip_hdr_udp_encap, nip_hdr_comm_encap and nip_update_total_len.
nip_hdr_encap(type, s, d, payload) ==
  Bitmap(type, s, d) \o <<TTL>>
    \o (IF type = "udp" THEN <<>> ELSE TwoBytes(EncapLen(type, s, d) + payload))
    \o <<NextHdr>> \o build_nip_addr(d) \o build_nip_addr(s)

\* A header with unknown bits in the second bitmap byte (more = FALSE) or a third
\* bitmap byte (more = TRUE), the header length, and ext bytes of unknown fields.
ExtHdr(s, d, payload, more, ext) ==
  LET maps == IF more THEN <<119, 129, 64>> ELSE <<119, 192>>
      len  == Len(maps) + 5 + AddrLen(d) + AddrLen(s) + ext
  IN  maps \o <<TTL>> \o TwoBytes(len + payload) \o <<NextHdr>>
        \o build_nip_addr(d) \o build_nip_addr(s) \o <<len>>
        \o [i \in 1 .. ext |-> 255]

\* The payload is a run of bytes that no header field or padding has.
PayloadBytes(n) == [i \in 1 .. n |-> 170]

-----------------------------------------------------------------------------
(* Receiver.                                                               *)

\* _get_nip_hdr_bitmap: number of bitmap bytes, or 0 for an error.
BitmapNum(buf) ==
  LET last == {n \in 1 .. 8 : /\ ~Bit(buf[n], 1)
                              /\ \A m \in 1 .. n - 1 : Bit(buf[m], 1)}
  IN  IF Bit(buf[1], 128) \/ last = {} THEN 0 ELSE CHOOSE n \in last : TRUE

Error == [ok |-> FALSE]

\* nip_hdr_parse on a buffer of len bytes; bytes of buf after those are whatever
\* follows in memory.
nip_hdr_parse(buf, len) ==
  LET num   == BitmapNum(buf)
      b0    == buf[1]
      total == Bit(b0, 32)
      pNext == num + 2 + (IF total THEN 2 ELSE 0)
      pDst  == pNext + 1
      dst   == DecodedAddr(buf, pDst)
      pSrc  == pDst + AddrLen(dst)
      hasSrc == Bit(b0, 2)
      src   == DecodedAddr(buf, pSrc)
      \* real0: bytes consumed after the fields of the first bitmap byte
      real0 == pSrc - 1 + (IF hasSrc THEN AddrLen(src) ELSE 0)
      hasLen  == num >= 2 /\ Bit(buf[2], 128)
      unknown == (num >= 2 /\ buf[2] % 128 # 0) \/ num >= 3
      hdrLen  == IF hasLen THEN buf[real0 + 1] ELSE 0
      real    == real0 + (IF hasLen THEN 1 ELSE 0)
      totalLen == IF total THEN 256 * buf[num + 2] + buf[num + 3] ELSE 0
  IN  IF num = 0 \/ ~Bit(b0, 64) \/ ~Bit(b0, 16) \/ ~Bit(b0, 4) THEN Error
      ELSE IF DecodeFails(buf, pDst) THEN Error
      ELSE IF hasSrc /\ DecodeFails(buf, pSrc) THEN Error
      ELSE IF real0 >= len THEN Error
      ELSE IF hasLen /\ total /\ hdrLen >= len THEN Error
      ELSE IF real >= len THEN Error
      ELSE IF unknown /\ ~hasLen THEN Error
      ELSE IF hasLen /\ (hdrLen = 0 \/ hdrLen < real) THEN Error
      ELSE [ok |-> TRUE, offset |-> IF hdrLen > real THEN hdrLen ELSE real,
            daddr |-> dst,
            saddr |-> IF hasSrc THEN src
                      ELSE [bitlen |-> 0, field8 |-> [i \in 1 .. 8 |-> 0]],
            nexthdr |-> buf[pNext], hasTotal |-> total, total |-> totalLen]

Drop == [ok |-> FALSE]

\* nip_rcv_finish and nip_protocol_deliver_rcu: pskb_pull of the header from the skb,
\* which fails when the header is longer than the data.
Deliver(h, skb) ==
  IF h.offset > Len(skb) THEN Drop
  ELSE [ok |-> TRUE, daddr |-> h.daddr, saddr |-> h.saddr, nexthdr |-> h.nexthdr,
        payload |-> SubSeq(skb, h.offset + 1, Len(skb))]

\* Mutants: the packet is not trimmed to its total length; a packet of exactly that
\* length is dropped; the header is parsed up to the end of the buffer.
nip_rcv_no_trim(pkt, fill) ==
  LET h == nip_hdr_parse(pkt \o [i \in 1 .. 2 * NIP_HDR_MAX |-> fill], Len(pkt))
  IN  IF ~h.ok \/ (h.hasTotal /\ h.total > Len(pkt)) THEN Drop ELSE Deliver(h, pkt)
nip_rcv_total_off(pkt, fill) ==
  LET h == nip_hdr_parse(pkt \o [i \in 1 .. 2 * NIP_HDR_MAX |-> fill], Len(pkt))
  IN  IF ~h.ok \/ (h.hasTotal /\ h.total >= Len(pkt)) THEN Drop
      ELSE Deliver(h, IF h.hasTotal THEN SubSeq(pkt, 1, h.total) ELSE pkt)
nip_rcv_no_len(pkt, fill) ==
  LET buf == pkt \o [i \in 1 .. 2 * NIP_HDR_MAX |-> fill]
      h   == nip_hdr_parse(buf, Len(buf))
  IN  IF ~h.ok \/ (h.hasTotal /\ h.total > Len(pkt)) THEN Drop ELSE Deliver(h, pkt)

\* nip_rcv and _nip_update_recv_skb_len: the payload handed to the transport
\* protocol, or a drop.  fill is what follows the packet in memory.
nip_rcv(pkt, fill) ==
  LET buf == pkt \o [i \in 1 .. 2 * NIP_HDR_MAX |-> fill]
      h   == nip_hdr_parse(buf, Len(pkt))
  IN  IF ~h.ok THEN Drop
      ELSE IF h.nexthdr \notin {17, 6, 177} THEN Drop
      ELSE IF h.hasTotal /\ h.total > Len(pkt) THEN Drop
      ELSE LET skb == IF h.hasTotal THEN SubSeq(pkt, 1, h.total) ELSE pkt
           IN  Deliver(h, skb)

-----------------------------------------------------------------------------
Init ==
  /\ stage = "idle"
  /\ sent = [type |-> "none"]
  /\ wire = <<>>
  /\ rcvd = Drop

Send(type, s, d, n) ==
  LET hdr == nip_hdr_encap(type, s, d, n) IN
  /\ stage = "idle"
  /\ stage' = "sent"
  /\ sent' = [type |-> type, saddr |-> s, daddr |-> d, payload |-> PayloadBytes(n),
              hdr |-> Len(hdr), cut |-> FALSE]
  /\ wire' = hdr \o PayloadBytes(n)
  /\ UNCHANGED rcvd

SendExt(s, d, n, more, ext) ==
  LET hdr == ExtHdr(s, d, n, more, ext) IN
  /\ stage = "idle"
  /\ stage' = "sent"
  /\ sent' = [type |-> "ext", saddr |-> s, daddr |-> d, payload |-> PayloadBytes(n),
              hdr |-> Len(hdr), cut |-> FALSE]
  /\ wire' = hdr \o PayloadBytes(n)
  /\ UNCHANGED rcvd

\* The link pads a short frame.
Pad(n) ==
  /\ stage = "sent"
  /\ ~sent.cut /\ Len(wire) = sent.hdr + Len(sent.payload)
  /\ wire' = wire \o [i \in 1 .. n |-> 0]
  /\ UNCHANGED <<stage, sent, rcvd>>

\* The packet arrives without its tail.
Truncate(n) ==
  /\ stage = "sent"
  /\ ~sent.cut /\ Len(wire) = sent.hdr + Len(sent.payload)
  /\ n < Len(wire)
  /\ wire' = SubSeq(wire, 1, n)
  /\ sent' = [sent EXCEPT !.cut = TRUE]
  /\ UNCHANGED <<stage, rcvd>>

Receive(fill) ==
  /\ stage = "sent"
  /\ stage' = "received"
  /\ rcvd' = nip_rcv(wire, fill)
  /\ UNCHANGED <<sent, wire>>

Next ==
  \/ \E type \in {"udp", "comm"}, s, d \in Addrs, n \in Payloads : Send(type, s, d, n)
  \/ \E s, d \in Addrs, n \in Payloads, more \in BOOLEAN, ext \in 0 .. MaxExt :
       SendExt(s, d, n, more, ext)
  \/ \E n \in 1 .. MaxPad : Pad(n)
  \/ \E n \in 1 .. Len(wire) - 1 : Truncate(n)
  \/ \E fill \in Garbage : Receive(fill)

Spec == Init /\ [][Next]_vars

-----------------------------------------------------------------------------
(* Properties.                                                             *)

Native == sent.type \in {"udp", "comm"}

\* The header fits the room that get_nip_hdr_len and NIP_HDR_MAX reserve, and the
\* transport header after it is aligned to two bytes.
HdrFits ==
  stage # "idle" /\ Native =>
    /\ sent.hdr = EncapLen(sent.type, sent.saddr, sent.daddr)
    /\ sent.hdr <= get_nip_hdr_len(sent.type, sent.saddr, sent.daddr)
    /\ sent.hdr <= NIP_HDR_MAX
    /\ sent.hdr % 2 = 0

\* nip_addr_invalid accepts any bitlen that gives the right number of bytes; decoding
\* returns the multiple of eight.
SameAddr(a, b) == a.field8 = b.field8 /\ AddrLen(a) = AddrLen(b)

\* Whatever is delivered has the addresses and the protocol of the packet that was
\* sent, and its payload from the first byte; a packet with a total length also
\* loses the padding of the link and is delivered whole or not at all.
DeliveredIsSent ==
  stage = "received" /\ rcvd.ok =>
    /\ SameAddr(rcvd.saddr, sent.saddr) /\ SameAddr(rcvd.daddr, sent.daddr)
    /\ rcvd.nexthdr = NextHdr
    /\ IF sent.type = "udp"
         THEN IsPrefix(rcvd.payload, sent.payload) \/ IsPrefix(sent.payload, rcvd.payload)
         ELSE rcvd.payload = sent.payload

\* Every packet that arrives whole is delivered: nothing encap builds, and no later
\* version's header that gives its length, is refused by nip_hdr_parse.
WholeIsDelivered == stage = "received" /\ ~sent.cut => rcvd.ok

\* A packet cut inside its header is dropped, whatever the memory after it holds.
CutHeaderDropped ==
  stage = "received" /\ sent.cut /\ Len(wire) <= sent.hdr => ~rcvd.ok

\* Two short addresses that nip_addr_invalid accepts never stand for the same value
\* unless their bytes are the same: the code may compare addresses by their bytes.
CanonicalAddr ==
  stage = "sent" /\ ~sent.cut /\ ShortAddr(sent.daddr) =>
    \A a \in Addrs : ShortAddr(a) /\ AddrValue(a) = AddrValue(sent.daddr)
                       => /\ a.field8 = sent.daddr.field8
                          /\ AddrLen(a) = AddrLen(sent.daddr)
=============================================================================
