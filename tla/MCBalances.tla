----------------------------- MODULE MCBalances -----------------------------
(***************************************************************************)
(* Model-checking instance of Balances: a grouped and an ungrouped asset, *)
(* a BIP-86 key and a burn key, two anchors and two output slots, so that *)
(* every filter both keeps and drops an output.                            *)
(***************************************************************************)
EXTENDS Balances, TLC

CONSTANTS a1, a2, g1, s1, s2, o1, o2

MCGroupOf == (a1 :> g1) @@ (a2 :> NoGroup)

MCKeyTypeOf == (s1 :> "bip86") @@ (s2 :> "burn")

=============================================================================
