--------------------------- MODULE LogShippingMC ---------------------------
(* Small instances of LogShipping for TLC. *)
EXTENDS LogShipping
RejectedLines == {2}
NoLines == {}
OneLine == {1}
=============================================================================
