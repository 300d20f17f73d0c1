-------------------------------- MODULE MCApp --------------------------------
(***************************************************************************)
(* Instances of App.                                                       *)
(***************************************************************************)
EXTENDS App

=============================================================================
