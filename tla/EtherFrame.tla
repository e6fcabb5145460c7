----------------------------- MODULE EtherFrame -----------------------------
(* The tap's receive of Ethernet frames in the lwIP build               *)
(* (SDK_EthernetTap.cpp): put calls NetconEthernetTap::lwIP_rx, which     *)
(* builds the Ethernet header, allocates a PBUF_POOL chain for header     *)
(* plus payload, and copies the header and the payload into it pbuf by    *)
(* pbuf before feeding it to the netif.                                    *)
(* Bytes are abstracted to distinct tokens, so a byte copied to the wrong *)
(* place shows; a chain is the sequence of its pbufs' payloads, and the   *)
(* pool's layout is any split of the frame into pbufs of at most a pool   *)
(* buffer each (lwIP's pbuf_alloc chooses one of these).                  *)
(* The state is _enabled and the last frame put; put runs on the ZeroTier *)
(* node's thread and takes no lock or Connection.                         *)
EXTENDS Naturals, Sequences, SequencesExt

CONSTANTS
  EthHdrLen,     \* sizeof(struct eth_hdr) (14), in tokens
  PayloadLens,   \* the payload lengths (len) the node passes to put
  PoolBufLen     \* the payload of one PBUF_POOL buffer, in tokens

ASSUME EthHdrLen \in Nat \ {0} /\ PoolBufLen \in Nat \ {0} /\ PayloadLens \subseteq Nat

VARIABLES
  enabled,   \* NetconEthernetTap::_enabled
  rxFrame    \* the last frame put: its payload length, chain and outcome

frameVars == <<enabled, rxFrame>>

NoFrame == [none |-> TRUE]

\* Distinct tokens for the header built from from, to and etherType, and
\* for the payload bytes.
EthHdr == [i \in 1..EthHdrLen |-> <<"hdr", i>>]
Payload(n) == [i \in 1..n |-> <<"data", i>>]

\* The pbuf chains pbuf_alloc(PBUF_RAW, total, PBUF_POOL) may return: the
\* payload lengths, each positive and at most a pool buffer, summing to total.
RECURSIVE PbufChains(_, _)
PbufChains(total, poolBuf) ==
  IF total = 0 THEN {<<>>}
  ELSE UNION {{<<k>> \o c : c \in PbufChains(total - k, poolBuf)} :
                k \in 1..(IF total < poolBuf THEN total ELSE poolBuf)}

\* memcpy of the bytes from..to of data; a byte past the end of data is an
\* out-of-bounds read, whose value is arbitrary (an "overread" token).
CopyBytes(data, from, to) ==
  [i \in 1..(to - from + 1) |->
     IF from + i - 1 <= Len(data) THEN data[from + i - 1] ELSE <<"overread", from + i - 1>>]

\* The `while ((q = q->next))` loop: each further pbuf gets the next q->len
\* bytes at dataptr, and dataptr advances by q->len.
RECURSIVE FillRest(_, _, _, _)
FillRest(lens, i, data, dataptr) ==
  IF i > Len(lens) THEN <<>>
  ELSE <<CopyBytes(data, dataptr + 1, dataptr + lens[i])>>
         \o FillRest(lens, i + 1, data, dataptr + lens[i])

FillFirst(lens, hdr, data) ==
  LET room == lens[1] - Len(hdr)
  IN  <<hdr \o CopyBytes(data, 1, room)>> \o FillRest(lens, 2, data, room)

\* lwIP_rx for one frame, given _enabled, the chain pbuf_alloc returned
\* (<<>> for NULL), the header and the payload: what happens to the frame,
\* and the chain fed to the netif's input.
LwipRx(en, lens, hdr, data) ==
  CASE ~en                  -> [status |-> "disabled", chain |-> <<>>]
    [] lens = <<>>          -> [status |-> "nobufs",   chain |-> <<>>]
    [] lens[1] < Len(hdr)   -> [status |-> "short",    chain |-> <<>>]
    [] OTHER                -> [status |-> "input",
                                chain  |-> FillFirst(lens, hdr, data)]

\* The reference: a frame cut into consecutive pieces of the given lengths.
RECURSIVE Cut(_, _)
Cut(s, lens) ==
  IF lens = <<>> THEN <<>>
  ELSE <<SubSeq(s, 1, Head(lens))>>
         \o Cut(SubSeq(s, Head(lens) + 1, Len(s)), Tail(lens))

\* The constructor sets _enabled(true); no frame has crossed yet.
FrameInit ==
  /\ enabled = TRUE
  /\ rxFrame = NoFrame

\* setEnabled(en).
SetEnabled(en) ==
  /\ enabled' = en
  /\ UNCHANGED rxFrame

\* put -> lwIP_rx (the SDK_LWIP build) for a payload of n bytes, with the
\* chain pbuf_alloc returns (<<>> for NULL).
Put(n, lens) ==
  /\ rxFrame' = [n |-> n, lens |-> lens,
                  rx |-> LwipRx(enabled, lens, EthHdr, Payload(n))]
  /\ UNCHANGED enabled

FrameNext ==
  \/ \E en \in BOOLEAN : SetEnabled(en)
  \/ \E n \in PayloadLens :
       \E lens \in PbufChains(EthHdrLen + n, PoolBufLen) \cup {<<>>} : Put(n, lens)

-----------------------------------------------------------------------------
(* Properties.                                                             *)

=============================================================================
