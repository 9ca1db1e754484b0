---------------------------- MODULE MCExtlogWatch ----------------------------
(***************************************************************************)
(* TLC instance of ExtlogWatch: one subject with two artifacts, of which   *)
(* one comes without a Content-Length, and one log.                        *)
(***************************************************************************)
EXTENDS ExtlogWatch

CONSTANTS jar, index, btlog, v1, v2

TwoAndALog    == <<jar, index, btlog>>
TwoArtifacts  == {jar, index}
OneLengthless == {index}
=============================================================================
