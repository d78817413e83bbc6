------------------------------ MODULE MCKeyPipe ------------------------------
(* One call of activate or addKeyToLUKS2Container, with a child that       *)
(* writes up to MaxLines lines.                                            *)
EXTENDS KeyPipe
=============================================================================
