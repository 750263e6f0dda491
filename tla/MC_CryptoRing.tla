---------------------------- MODULE MC_CryptoRing ----------------------------
EXTENDS CryptoRing

\* Bound on the unread bytes once writes may overrun the ring.
MaxUnread == 2 * N

RingBound == count <= MaxUnread /\ Len(expect) <= MaxUnread
=============================================================================
