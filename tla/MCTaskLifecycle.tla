-------------------------- MODULE MCTaskLifecycle --------------------------
(***************************************************************************)
(* TLC instances of TaskLifecycle.  The instances differ in the feature    *)
(* flags and bounds of their configuration files.                          *)
(***************************************************************************)
EXTENDS TaskLifecycle
=============================================================================
