---------------------------- MODULE MCTemplateSync ----------------------------
(* Instances of TemplateSync for TLC.                                      *)
EXTENDS TemplateSync, TLC

CONSTANTS sa, sb

MCFileOf == sa :> 1 @@ sb :> 2
=============================================================================
