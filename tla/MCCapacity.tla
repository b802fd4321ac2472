----------------------------- MODULE MCCapacity ------------------------------
(***************************************************************************)
(* Three requests of one destination: two managed ones and one on an       *)
(* existing target, two of them under a grant that allows one at a time.   *)
(***************************************************************************)
EXTENDS Capacity, TLC

CONSTANTS h1, h2, x1, capped, open

MCReplicas == {h1, h2, x1}
MCHelm == {h1, h2}
MCGrants == {capped, open}
MCGrantOf == (h1 :> open) @@ (h2 :> capped) @@ (x1 :> capped)
MCCap == (capped :> 1) @@ (open :> 0)
=============================================================================
