---------------------------- MODULE MCKboxInstall ----------------------------
(* Instance of KboxInstall for TLC.                                        *)
EXTENDS KboxInstall
=============================================================================
