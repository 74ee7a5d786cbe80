------------------------------ MODULE MCVmctx ------------------------------
(* Small instances of Vmctx, and through it of Lifecycle, seen through the  *)
(* C API.                                                                  *)
EXTENDS CApi
=============================================================================
