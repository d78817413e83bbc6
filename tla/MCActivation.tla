---------------------------- MODULE MCActivation ----------------------------
(* Activation with up to three PIN attempts and two recovery key attempts. *)
(* Two failures lock the TPM out, so a call can reach the lockout itself.  *)
EXTENDS Activation
=============================================================================
