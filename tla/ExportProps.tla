---------------------------- MODULE ExportProps ----------------------------
(***************************************************************************)
(* What should hold of an export apply, stated over ExportApply.           *)
(***************************************************************************)
EXTENDS ExportApply

DevFile(r, n) == HasFile(r, n) /\ live[r][n] \in DevBytes
Taken(r, n) == DevFile(r, n) /\ ~(HasFile(r, n)' /\ live'[r][n] = live[r][n])
ByTheApply == edits' = edits
Undisturbed == ~env.concurrent /\ ~May("remove")
OnDisk(r) == live[r] # NoDir \/ backup[r] # NoDir

-----------------------------------------------------------------------------
(* detectUnexpected and detectEdits are read once, and the roots are       *)
(* swapped long after.  An apply that was not forced takes a file the      *)
(* developer wrote out of a generated root only in the first apply (which  *)
(* has no manifest to compare with) or in a root the previous manifest did *)
(* not name: provided nobody edits while the apply runs, and whatever      *)
(* earlier applies left behind when they failed.                           *)
NoSilentLoss ==
  [][\A r \in Roots, n \in Names :
       Taken(r, n) /\ ByTheApply /\ ~env.concurrent =>
         \/ force \/ prev = NoManifest
         \/ prev \in Exports /\ r \notin RangeOf(prev.roots)]_vars

(* When a re-apply reports success, every root it carried files for holds  *)
(* exactly those files and the manifest is the zip's: nothing a failed or  *)
(* killed apply left in the staging directory reaches the live tree.  Only *)
(* a failing os.RemoveAll, whose error is ignored, can break it.           *)
AppliedExactly ==
  [][pc # "idle" /\ result' = "ok" /\ prev # NoManifest /\ Undisturbed =>
       /\ manifest' = next
       /\ \A r \in Roots :
            FilesIn(next, r) # {} /\ r \in RangeOf(next.roots) => live'[r] = next.gen[r]]_vars

(* "developer files are never touched" after the first apply: Koolbase     *)
(* writes a developer-owned file at most once; from then on only the       *)
(* developer changes it, whatever fails and however often the command is   *)
(* run again.  It rests on the order of applyFresh: the manifest goes      *)
(* first, so a first apply that failed is never taken up again.            *)
OwnedWrittenOnce ==
  [][\A p \in written : owned'[p] # owned[p] => edits' # edits]_vars

(* A generated root that is on disk, live or moved aside, stays on disk.   *)
(* The exception is the code's: the apply after one that failed or was     *)
(* killed between the two renames removes the directory moved aside, the   *)
(* only copy, before it has written anything (os.RemoveAll(backupDir)).    *)
LastCopySurvives ==
  [][\A r \in Roots :
       OnDisk(r) /\ ~OnDisk(r)' => pc = "clean" /\ failed /\ r = Root]_vars

(* A file an apply stops for as "edited by hand" is one the developer      *)
(* wrote, as long as no apply has failed: the manifest and the roots are   *)
(* then of the same zip, whatever was removed, forced or edited.           *)
EditedByHand ==
  [][result' = "edited" /\ result # "edited" /\ ~failed =>
       \A f \in named' : DevFile(f[1], f[2])]_vars

(* "swap only after every file is written": the directory that appears     *)
(* under a live name in a re-apply is the whole tree of the zip for that   *)
(* root, whatever failed before, was left behind, or is edited meanwhile.  *)
WholeTreeGoesLive ==
  [][\A r \in Roots :
       pc = "swapin" /\ live'[r] # live[r] /\ ByTheApply /\ ~May("remove") =>
         live'[r] = next.gen[r]]_vars

\* A root is read from its live directory, or from the one it was moved to.
Visible == [r \in Roots |-> IF live[r] # NoDir THEN live[r] ELSE backup[r]]

\* The environments the contract is promised in: errors are reported to the
\* command, it is not killed, what it moved aside can be moved back, and the
\* developer waits for it to end.
Tame == env.faults \subseteq {"write", "rename"} /\ ~env.concurrent

Phase == IF pc = "idle" THEN "idle"
         ELSE IF pc \in {"freshmanifest", "fresh"} THEN "first" ELSE "again"

Contract == INSTANCE ExportContract WITH
  tree <- IF Tame THEN Visible ELSE [r \in Roots |-> NoDir],
  manifest <- IF Tame THEN manifest ELSE NoManifest,
  phase <- IF Tame THEN Phase ELSE "idle"

(* In a tame environment an apply implements ExportContract: once there is *)
(* a manifest no apply writes, tears or removes a single file of a root    *)
(* that can be seen, it exchanges whole roots; and the manifest never runs *)
(* ahead of the roots.                                                     *)
ImplementsContract == Contract!Spec

-----------------------------------------------------------------------------
(* What the properties rest on: the inductive invariant, in named parts.   *)

\* The manifest exists before any developer-owned file has been written.
FreshInv ==
  /\ pc \in {"freshmanifest", "fresh"} => prev = NoManifest
  /\ pc = "freshmanifest" => manifest = NoManifest
  /\ pc = "fresh" => manifest = next /\ pending \cap written = {}
  /\ pc \in {"freshmanifest", "fresh"} => pending \subseteq Files(next) \cup Owned
  /\ manifest = NoManifest => written = {}

\* What the staging directory of the current root holds.
Staging(n) == IF stage[Root] = NoDir THEN NoFile ELSE stage[Root][n]

StageInv ==
  /\ \A r \in Roots, n \in Names : stage[r] # NoDir => stage[r][n] \notin DevBytes
  /\ pc = "stage" => /\ pending \subseteq FilesIn(next, Root)
                     /\ pending = FilesIn(next, Root) \/ stage[Root] # NoDir
  /\ pc = "stage" /\ ~May("remove") =>
       \A n \in Names :
         Staging(n) = IF <<Root, n>> \in pending THEN NoFile ELSE next.gen[Root][n]
  /\ pc \in {"aside", "swapin"} => stage[Root] # NoDir
  /\ pc \in {"aside", "swapin"} /\ ~May("remove") => stage[Root] = next.gen[Root]

\* What the two checks established still holds in the swaps.
CheckedInv ==
  pc \in Swapping /\ ~force /\ ~env.concurrent =>
    \A r \in RangeOf(prev.roots), n \in Names : ~DevFile(r, n)

\* Unless an apply has failed, a directory that was moved aside has a live
\* one beside it, except for the root that is being swapped.
CopyInv ==
  /\ pc = "drop" => live[Root] # NoDir
  /\ ~failed =>
       \A r \in Roots : backup[r] # NoDir /\ live[r] = NoDir =>
                        pc \in {"swapin", "rollback"} /\ r = Root

\* The roots that have been dealt with are the zip's.
DoneInv ==
  /\ pc = "check" => at = 1
  /\ pc = "manifest" => at = Len(next.roots) + 1
  /\ Undisturbed /\ pc = "drop" => live[Root] = next.gen[Root]
  /\ Undisturbed /\ pc \in Swapping =>
       \A i \in 1..Len(next.roots) :
         i < at /\ FilesIn(next, next.roots[i]) # {} =>
           \/ live[next.roots[i]] = next.gen[next.roots[i]]
           \/ pc \in {"swapin", "rollback"} /\ next.roots[i] = Root

\* A re-apply compares with the manifest on disk and swaps only roots the zip
\* has files for; in a tame environment it moves back what it moved aside.
SwapInv ==
  /\ pc \in Swapping \cup {"check"} => manifest = prev
  /\ pc \in {"aside", "swapin", "rollback", "drop"} => FilesIn(next, Root) # {}
  /\ Tame => \A r \in Roots : backup[r] # NoDir /\ live[r] = NoDir =>
                              pc \in {"swapin", "rollback"} /\ r = Root

\* A file the zip lists is the zip's, or the developer's.
Agrees(z, r, n) ==
  HasFile(r, n) /\ z.gen[r][n] # NoFile => live[r][n] \in DevBytes \cup {z.gen[r][n]}

\* Every file staged is the next zip's.
StagedInv ==
  /\ pc \in {"aside", "swapin"} => pending = {}
  /\ pc \in {"stage", "aside", "swapin"} =>
       \A n \in Names : next.gen[Root][n] # NoFile /\ <<Root, n>> \notin pending =>
                         Staging(n) = next.gen[Root][n]

\* Unless an apply has failed, the roots agree with the manifest, or, during
\* the swaps, those dealt with agree with the next one.
SameZipInv ==
  ~failed =>
    /\ manifest = NoManifest => \A r \in Roots, n \in Names : HasFile(r, n) => DevFile(r, n)
    /\ manifest \in Exports /\ pc \notin Swapping =>
         \A r \in Roots, n \in Names : Agrees(manifest, r, n)
    /\ pc = "drop" => \A n \in Names : Agrees(next, Root, n)
    /\ pc \in Swapping =>
         \A i \in 1..Len(next.roots), n \in Names :
           i < at => Agrees(next, next.roots[i], n)

IndInv == /\ TypeOK /\ FreshInv /\ StageInv /\ CheckedInv /\ CopyInv /\ DoneInv
          /\ SwapInv /\ StagedInv /\ SameZipInv

-----------------------------------------------------------------------------
(* Statements of the comments and of the help text, as formulas.           *)

(* "a developer who put a file there and lost it without being told would  *)
(* be right to be angry": a re-apply that is not forced never takes a      *)
(* developer's file out of a generated root.                               *)
NeverLostUntold ==
  [][\A r \in Roots, n \in Names :
       Taken(r, n) /\ ByTheApply => force \/ prev = NoManifest]_vars

(* "The swap above already dropped them": a file reported as removed is    *)
(* not on disk.                                                            *)
RemovedAreGone ==
  [][removed' # removed => \A f \in removed' : ~HasFile(f[1], f[2])']_vars
=============================================================================
