-------------------------- MODULE MCTemplateStore --------------------------
(***************************************************************************)
(* A small instance of TemplateStore: one cache path, published in the     *)
(* official catalog as one signed bundle and in a development catalog as   *)
(* another, unsigned one.                                                  *)
(***************************************************************************)
EXTENDS TemplateStore

CONSTANTS chat, s1, s2, screen, manifest

BundleFiles == [s \in Shas |-> IF s = s1 THEN {manifest, screen} ELSE {manifest}]
BothCatalogs == {[id |-> chat, sha |-> s1, signed |-> TRUE],
                 [id |-> chat, sha |-> s2, signed |-> FALSE]}
OneCatalog == {[id |-> chat, sha |-> s1, signed |-> TRUE]}
=============================================================================
