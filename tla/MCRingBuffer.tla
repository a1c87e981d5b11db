---------------------------- MODULE MCRingBuffer ----------------------------
(* Instances of RingBuffer.  The payloads contain zero words and words that *)
(* look like the sizes of other messages.                                  *)
EXTENDS RingBuffer

SmallMessages == {<<3>>, <<0, 1>>, <<2, 0, 1>>}
=============================================================================
