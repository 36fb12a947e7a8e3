----------------------------- MODULE MCIngress -----------------------------
(* Ingress for TLC.                                                        *)
EXTENDS Ingress
============================================================================
