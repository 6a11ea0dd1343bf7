------------------------------ MODULE Optional ------------------------------
(***************************************************************************)
(* Python's None: what stands in the document, in a local variable or in a *)
(* request where there is no value.  Modules that are extended together    *)
(* share it.                                                               *)
(***************************************************************************)
CONSTANT None
=============================================================================
