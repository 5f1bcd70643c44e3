----------------------------- MODULE MCDelivery -----------------------------
(* Instances of Delivery for TLC. *)
EXTENDS Delivery

CONSTANTS w1, w2, a, b, c, x, y   \* works, keys, backends

OneOrBoth == {{x}, {x, y}}
OneEventMuted == {<<w1, a>>}
NothingMuted == {}
=============================================================================
