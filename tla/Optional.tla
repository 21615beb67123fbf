------------------------------- MODULE Optional -------------------------------
(***************************************************************************)
(* Python's None, for the components that can be put together in one model.*)
(***************************************************************************)
CONSTANT None

=============================================================================
