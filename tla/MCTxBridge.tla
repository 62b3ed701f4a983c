---------------------------- MODULE MCTxBridge ------------------------------
(***************************************************************************)
(* TxBridge for TLC: two ports with rings of four bytes, so that one       *)
(* three-byte event fills a ring and the next one stalls behind it.        *)
(***************************************************************************)
EXTENDS TxBridge

\* Events of three, two and one bytes, for a cable beyond the ports, and
\* with a reserved CIN.
MCShapes == {<<0, 3>>, <<1, 2>>, <<0, 1>>, <<15, 3>>, <<1, 0>>}
\* Fewer, where requests are added.
MCFewShapes == {<<0, 3>>, <<0, 2>>, <<1, 1>>}
MCAlways == Stages
=============================================================================
