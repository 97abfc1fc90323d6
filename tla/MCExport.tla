----------------------------- MODULE MCExport ------------------------------
(***************************************************************************)
(* Small instances of ExportApply for TLC.                                 *)
(***************************************************************************)
EXTENDS ExportProps

CONSTANTS lib, test, a, b, main, v1, v2, d1, docA, docB

Zip(doc, roots, libFiles, testFiles, v) ==
  [doc |-> doc, roots |-> roots,
   gen |-> [r \in Roots |->
              [n \in Names |-> IF (r = lib /\ n \in libFiles) \/ (r = test /\ n \in testFiles)
                               THEN v ELSE NoFile]],
   own |-> [p \in Owned |-> v]]

\* Two versions of a one-root design; the second drops a screen.
OneRoot == {Zip(docA, <<lib>>, {a, b}, {}, v1), Zip(docA, <<lib>>, {a}, {}, v2)}
\* Two versions of a two-root design, and a zip of another document.
TwoRoots == {Zip(docA, <<lib, test>>, {a}, {a}, v1), Zip(docA, <<lib, test>>, {a, b}, {a}, v2)}
OtherDoc == {Zip(docB, <<lib>>, {a}, {}, v1)}
\* A design that gains a root, and one whose second root became empty.
GainsRoot == {Zip(docA, <<lib>>, {a}, {}, v1), Zip(docA, <<lib, test>>, {a}, {a}, v2)}
EmptiesRoot == {Zip(docA, <<lib, test>>, {a}, {a}, v1), Zip(docA, <<lib, test>>, {b}, {}, v2)}
All == OneRoot \cup TwoRoots \cup GainsRoot \cup OtherDoc \cup EmptiesRoot

Env(zips, faults, concurrent) ==
  [zips |-> zips, faults |-> faults, concurrent |-> concurrent]

\* Each design meets the faults that are interesting for it.
Faulty ==
  { Env(OneRoot \cup OtherDoc, {"write", "rename", "rollback", "crash"}, FALSE),
    Env(TwoRoots, {"write", "rename"}, FALSE),
    Env(EmptiesRoot, {"write"}, FALSE),
    Env(GainsRoot, {"crash"}, FALSE),
    Env(OneRoot, {"write", "remove"}, FALSE),
    Env(OneRoot, {"write"}, TRUE) }

\* Nothing fails, and the developer waits for the command to end.
Gains == {Env(GainsRoot, {}, FALSE)}
Empties == {Env(EmptiesRoot, {}, FALSE)}
=============================================================================
