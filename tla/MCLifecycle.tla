----------------------------- MODULE MCLifecycle -----------------------------
(* One request with a managed or an existing target, under TLC.             *)
EXTENDS Lifecycle
=============================================================================
