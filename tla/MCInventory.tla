----------------------------- MODULE MCInventory -----------------------------
(***************************************************************************)
(* For TLC: a namespace with a claim, a custom resource, and a controller  *)
(* that may put its own finalizer on both.  The second plan changes the    *)
(* controller and drops the resource.                                      *)
(***************************************************************************)
EXTENDS Inventory, TLC

CONSTANTS space, pvc, ctl, res, none

TreeObjects == {space, ctl, pvc, res}
TreeOrder == <<space, ctl, pvc, res>>
TreeDesired ==
  << [id \in TreeObjects |-> 1],
     (space :> 1) @@ (ctl :> 2) @@ (pvc :> 1) @@ (res :> 0) >>
TreeNamespaceOf == (space :> none) @@ (ctl :> none) @@ (pvc :> space) @@ (res :> none)
TreeControllerOf ==
  (space :> none) @@ (ctl :> none) @@ (pvc :> ctl) @@ (res :> ctl)
=============================================================================
