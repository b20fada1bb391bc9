------------------------------ MODULE Buffers ------------------------------
(***************************************************************************)
(* Buffers of bytes, and packets in them.  A pointer into a buffer is its  *)
(* offset from the start; a packet is the std::pair of a pointer and a     *)
(* length that the composer's prepend methods return.                      *)
(***************************************************************************)
EXTENDS Integers, Sequences

\* A copy of bytes into buf from the given offset on.  What would lie outside
\* buf is not shown: it is the memory of somebody else.
Copied(buf, offset, bytes) ==
  [i \in DOMAIN buf |->
     IF i - offset \in DOMAIN bytes THEN bytes[i - offset] ELSE buf[i]]

\* The bytes a packet points to.
Contents(buf, pkt) == [i \in 1 .. pkt.second |-> buf[pkt.first + i]]

\* A packet of the given length whose envelope ends where the payload begins.
PacketBefore(payload, envelopeLen, payloadLen) ==
  [first |-> payload - envelopeLen, second |-> envelopeLen + payloadLen]
=============================================================================
