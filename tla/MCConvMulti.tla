---------------------------- MODULE MCConvMulti -----------------------------
(* Instances of ConvMulti for TLC. *)
EXTENDS ConvMulti, TLC

\* Threads and pool as in conf.json, and neither of them.
ShippedAndPlain == {<<TRUE, TRUE>>, <<FALSE, FALSE>>}
=============================================================================
