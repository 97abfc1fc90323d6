-------------------------- MODULE ExportContract --------------------------
(***************************************************************************)
(* What `koolbase export apply` promises about the generated tree, with    *)
(* the staging directories hidden.  The first apply writes the tree file   *)
(* by file; every later one changes a root as a whole, once, and advances  *)
(* the manifest to a zip only when every root of that zip is in place.     *)
(* Between applies the developer edits single files.                       *)
(***************************************************************************)
EXTENDS Naturals, Sequences

CONSTANTS Roots, Names, KBytes, DevBytes, Torn, NoFile, NoDir, NoManifest, Exports

VARIABLES
  tree, manifest,
  phase    \* "idle", "first": the first apply runs, "again": a later one runs

cvars == <<tree, manifest, phase>>
Nothing == [n \in Names |-> NoFile]
WithFile(d, n, b) == [(IF d = NoDir THEN Nothing ELSE d) EXCEPT ![n] = b]
Lists(z, r) == \E i \in 1..Len(z.roots) : z.roots[i] = r
InPlace(z) == \A r \in Roots : z.gen[r] # Nothing => tree[r] = z.gen[r]

Init ==
  /\ tree = [r \in Roots |-> NoDir]
  /\ manifest = NoManifest
  /\ phase = "idle"

Start ==
  /\ phase = "idle" /\ phase' = (IF manifest = NoManifest THEN "first" ELSE "again")
  /\ UNCHANGED <<tree, manifest>>

End == phase # "idle" /\ phase' = "idle" /\ UNCHANGED <<tree, manifest>>

\* The first apply records the manifest before any file it lists.
First ==
  /\ phase = "first" /\ manifest = NoManifest /\ manifest' \in Exports
  /\ UNCHANGED <<tree, phase>>

\* It then writes the files of that zip; a write that fails ends it.
WriteFirst(r, n) ==
  /\ phase = "first" /\ manifest \in Exports /\ manifest.gen[r][n] # NoFile
  /\ \/ tree' = [tree EXCEPT ![r] = WithFile(@, n, manifest.gen[r][n])] /\ UNCHANGED phase
     \/ tree' = [tree EXCEPT ![r] = WithFile(@, n, Torn)] /\ phase' = "idle"
  /\ UNCHANGED manifest

\* The developer writes or deletes a file while no apply runs.
EditFile(r, n, b) ==
  /\ phase = "idle"
  /\ tree' = [tree EXCEPT ![r] = WithFile(@, n, b)]
  /\ UNCHANGED <<manifest, phase>>

\* A re-apply replaces a whole root by that root of one zip.
Swap(z, r) ==
  /\ phase = "again" /\ manifest \in Exports /\ manifest.doc = z.doc
  /\ Lists(z, r) /\ z.gen[r] # Nothing
  /\ tree' = [tree EXCEPT ![r] = z.gen[r]]
  /\ UNCHANGED <<manifest, phase>>

\* ... and ends by recording the zip when all its roots are in place.
Record(z) ==
  /\ phase = "again" /\ manifest \in Exports /\ manifest.doc = z.doc /\ InPlace(z)
  /\ manifest' = z /\ phase' = "idle" /\ UNCHANGED tree

\* The write of the manifest is the last of a re-apply, the first of a first
\* apply: when it fails part-way, nothing else is written.
TearManifest ==
  /\ phase # "idle" /\ (phase = "first" => manifest = NoManifest)
  /\ manifest' = Torn /\ phase' = "idle" /\ UNCHANGED tree

Next ==
  \/ Start \/ End \/ First \/ TearManifest
  \/ \E r \in Roots, n \in Names :
       WriteFirst(r, n) \/ \E b \in DevBytes \cup {NoFile} : EditFile(r, n, b)
  \/ \E z \in Exports : Record(z) \/ \E r \in Roots : Swap(z, r)

Spec == Init /\ [][Next]_cvars
=============================================================================
