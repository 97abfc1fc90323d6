-------------------------- MODULE MCEngineInstall --------------------------
(***************************************************************************)
(* A small instance of EngineInstall: two revisions, the three targets the *)
(* registry has, one file for each of their configurations and one host    *)
(* tool.                                                                   *)
(***************************************************************************)
EXTENDS EngineInstall

CONSTANTS r1, r2, arm64, arm, ios, a, b, i, host

ConfigFile == [t \in Targets |-> CASE t = arm64 -> a [] t = arm -> b [] OTHER -> i]

OwnOf == [t \in Targets |-> {ConfigFile[t]}]
ZipOf == [t \in Targets |-> {ConfigFile[t], host}]
AndroidOf == [t \in Targets |-> IF t = arm THEN arm ELSE arm64]

\* Nothing, one target, or two targets of the first revision.
StartsOf == {[v \in Versions |-> IF v = r1 THEN ts ELSE {}] :
               ts \in {{}, {arm64}, {arm64, ios}}}
=============================================================================
