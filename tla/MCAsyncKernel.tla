---------------------------- MODULE MCAsyncKernel ----------------------------
(* Two timers, of which one may lose its owner. *)
EXTENDS AsyncKernel
CONSTANTS t1, t2
=============================================================================
