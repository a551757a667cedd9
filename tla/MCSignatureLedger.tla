------------------------- MODULE MCSignatureLedger -------------------------
(***************************************************************************)
(* Instance of SignatureLedger for TLC: two requests and two Paddle events *)
(* are enough for a settlement to be paid out of another reservation, and  *)
(* two sessions for every race on the row.                                 *)
(***************************************************************************)
EXTENDS SignatureLedger

\* Packs of two credits put the threshold of one inside a pack; one grant of
\* one credit leaves both odd and even balances reachable.
MCPackSize == 2
MCGrantSize == 1
MCMaxGrants == 1
MCLowThreshold == 2
=============================================================================
