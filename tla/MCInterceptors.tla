---------------------------- MODULE MCInterceptors ----------------------------
(* An instance of Interceptors: two replicas.                              *)
EXTENDS Interceptors

CONSTANTS a, b
=============================================================================
