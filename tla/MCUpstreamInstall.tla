--------------------------- MODULE MCUpstreamInstall ---------------------------
(***************************************************************************)
(* An instance of UpstreamInstall for TLC: two versions of a line, of      *)
(* which the second has no rule, and a major version.                      *)
(***************************************************************************)
EXTENDS UpstreamInstall, TLC

CONSTANTS skill, rule

Majors == <<1, 1, 2>>

Packages ==
  << (skill :> 1) @@ (rule :> 1),
     (skill :> 2) @@ (rule :> Absent),
     (skill :> 2) @@ (rule :> 3) >>
=============================================================================
