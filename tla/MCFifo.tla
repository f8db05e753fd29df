------------------------------- MODULE MCFifo -------------------------------
(* The ring at a depth that is not a power of two. *)
EXTENDS FifoSync
CONSTANTS v1, v2, v3
=============================================================================
