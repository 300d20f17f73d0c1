------------------------- MODULE MCHomeAssistantCore -------------------------
(***************************************************************************)
(* Instances of HomeAssistantCore.                                         *)
(***************************************************************************)
EXTENDS HomeAssistantCore

=============================================================================
