----------------------------- MODULE MCIngress ------------------------------
(* The instance TLC explores.                                              *)
EXTENDS Ingress

MCOffset == 3
=============================================================================
