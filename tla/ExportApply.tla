---------------------------- MODULE ExportApply ----------------------------
(***************************************************************************)
(* `koolbase export apply` (cmd/export.go): a Designer zip is applied to a *)
(* project directory.  One apply runs at a time; between its file-system   *)
(* calls it may fail or be killed, and the developer edits the same        *)
(* directory.                                                              *)
(*                                                                         *)
(* A generated root is a directory: Names -> bytes.  The three siblings    *)
(* live, live.koolbase-next and live.koolbase-prev are the variables live, *)
(* stage and backup.  Equality of bytes stands for equality of SHA-256.    *)
(***************************************************************************)
EXTENDS Naturals, Sequences

CONSTANTS
  Roots,            \* generated roots a zip may name
  Names,            \* file names inside a root
  Owned,            \* developer-owned files a zip carries (main.dart, ...)
  KBytes, DevBytes, \* contents the Designer ships, contents a developer writes
  Torn,             \* what a write that failed part-way leaves
  NoFile, NoDir, NoManifest,
  Docs,             \* document ids
  Exports,          \* the zips a Designer may produce
  Environments,     \* what a behaviour may meet: see EnvType
  MaxApplies, MaxEdits   \* bounds on the behaviours explored

Bytes == KBytes \cup DevBytes \cup {Torn}
Dir == [Names -> Bytes \cup {NoFile}]
EmptyDir == [n \in Names |-> NoFile]
RangeOf(s) == {s[i] : i \in 1..Len(s)}

(* A zip names at least one root and its generated files lie under the     *)
(* roots it names.  generated_files is exactly the files of gen: that is   *)
(* the Designer's contract, outside this repository.                       *)
ExportType ==
  [doc : Docs, roots : Seq(Roots),
   gen : [Roots -> [Names -> KBytes \cup {NoFile}]], own : [Owned -> KBytes]]

(* An environment: the zips of the design being exported, the calls that   *)
(* may fail ("rollback" is the rename back after a failed swap, "remove"   *)
(* an os.RemoveAll, "crash" a killed process), and whether the developer   *)
(* edits while an apply runs.                                              *)
EnvType ==
  [zips : SUBSET Exports, concurrent : BOOLEAN,
   faults : SUBSET {"write", "rename", "rollback", "remove", "crash"}]

ASSUME ExportsAssumption ==
  /\ \A z \in Exports :
       /\ z \in ExportType
       /\ z.roots # <<>>
       /\ \A r \in Roots \ RangeOf(z.roots) : z.gen[r] = EmptyDir
  /\ Environments \subseteq EnvType
  /\ MaxApplies \in Nat /\ MaxEdits \in Nat

ASSUME ValuesDistinct ==
  /\ NoDir \notin Dir
  /\ KBytes \cap DevBytes = {}
  /\ Torn \notin KBytes \cup DevBytes
  /\ NoFile \notin Bytes
  /\ Owned \cap (Roots \X Names) = {}
  /\ NoManifest \notin Exports /\ Torn \notin Exports /\ NoManifest # Torn

VARIABLES
  env,                   \* the environment, chosen once
  live, stage, backup,   \* [Roots -> Dir \cup {NoDir}]
  owned,                 \* [Owned -> bytes or NoFile]
  manifest,              \* .koolbase/export.json
  pc, next, prev, force, \* the running apply: its zip and the previous manifest
  at,                    \* index into next.roots
  pending,               \* files still to be written
  named,                 \* files printed by name before the apply went on or stopped
  removed,               \* files reported as removed
  result,                \* how the last apply ended
  written,               \* history: owned files Koolbase has written
  failed,                \* history: some apply ended in an error or was killed
  applies, edits         \* counters for the bounds

disk == <<live, stage, backup, owned, manifest>>
task == <<next, prev, force>>
history == <<env, written, applies, edits>>
vars == <<disk, task, history, pc, at, pending, named, removed, result, failed>>

Swapping == {"clean", "stage", "aside", "swapin", "rollback", "drop", "manifest"}
Paths == (Roots \X Names) \cup Owned

TypeOK ==
  /\ env \in Environments
  /\ live \in [Roots -> Dir \cup {NoDir}]
  /\ stage \in [Roots -> Dir \cup {NoDir}]
  /\ backup \in [Roots -> Dir \cup {NoDir}]
  /\ owned \in [Owned -> Bytes \cup {NoFile}]
  /\ manifest \in Exports \cup {NoManifest, Torn}
  /\ pc \in {"idle", "freshmanifest", "fresh", "check"} \cup Swapping
  /\ next \in Exports \cup {NoManifest}
  /\ prev \in Exports \cup {NoManifest, Torn}
  /\ force \in BOOLEAN
  /\ at \in Nat \ {0}
  /\ pending \in SUBSET Paths
  /\ named \in SUBSET (Roots \X Names)
  /\ removed \in SUBSET (Roots \X Names)
  /\ result \in {"none", "ok", "refused", "unexpected", "edited", "error", "crashed"}
  /\ written \in SUBSET Owned
  /\ failed \in BOOLEAN
  /\ applies \in Nat /\ edits \in Nat
  /\ pc # "idle" => next \in Exports
  /\ pc \in Swapping \cup {"check"} => prev \in Exports /\ prev.doc = next.doc
  /\ pc \in {"check"} \cup (Swapping \ {"manifest"}) => at \in 1..Len(next.roots)

Init ==
  /\ env \in Environments
  /\ live = [r \in Roots |-> NoDir]
  /\ stage = [r \in Roots |-> NoDir]
  /\ backup = [r \in Roots |-> NoDir]
  /\ owned = [p \in Owned |-> NoFile]
  /\ manifest = NoManifest
  /\ pc = "idle" /\ next = NoManifest /\ prev = NoManifest /\ force = FALSE
  /\ at = 1 /\ pending = {} /\ named = {} /\ removed = {}
  /\ result = "none" /\ written = {} /\ failed = FALSE /\ applies = 0 /\ edits = 0

-----------------------------------------------------------------------------
(* Helpers *)

Files(z) == {f \in Roots \X Names : z.gen[f[1]][f[2]] # NoFile}
FilesIn(z, r) == {f \in Files(z) : f[1] = r}
Root == next.roots[at]
HasFile(r, n) == live[r] # NoDir /\ live[r][n] # NoFile
May(fault) == fault \in env.faults

\* writeFile: creates the parent directory, then the file.
Put(d, n, b) == [(IF d = NoDir THEN EmptyDir ELSE d) EXCEPT ![n] = b]

\* The outcomes of `_ = os.RemoveAll(dir)`: its error is ignored.
Cleared(dirs, r) ==
  {[dirs EXCEPT ![r] = NoDir]} \cup (IF May("remove") THEN {dirs} ELSE {})

\* A bug: a missing file counts as an edit.
EditedCountsMissing ==
  {f \in Files(prev) : ~(HasFile(f[1], f[2]) /\ live[f[1]][f[2]] = prev.gen[f[1]][f[2]])}

\* detectEdits: files of the previous manifest whose bytes changed.
Edited ==
  {f \in Files(prev) : HasFile(f[1], f[2]) /\ live[f[1]][f[2]] # prev.gen[f[1]][f[2]]}

\* A bug: only the first root of the manifest is walked.
UnexpectedInFirstRoot ==
  {f \in ({prev.roots[1]} \X Names) \ Files(prev) : HasFile(f[1], f[2])}

\* detectUnexpected: files in the PREVIOUS roots the manifest never listed.
Unexpected ==
  {f \in (RangeOf(prev.roots) \X Names) \ Files(prev) : HasFile(f[1], f[2])}

\* The command returns, or is killed.
End(res) ==
  /\ pc' = "idle" /\ result' = res
  /\ failed' = (failed \/ res \in {"error", "crashed"})

Goes(to) == pc' = to /\ result' = "none" /\ UNCHANGED failed

-----------------------------------------------------------------------------
(* applyExport: read the zip and the previous manifest. *)

Begin(z, f) ==
  /\ pc = "idle" /\ applies < MaxApplies /\ z \in env.zips
  /\ applies' = applies + 1
  /\ next' = z /\ force' = f /\ prev' = manifest
  /\ at' = 1 /\ named' = {} /\ removed' = {}
  /\ UNCHANGED <<disk, env, written, edits>>

BeginFresh(z, f) ==
  /\ Begin(z, f)
  /\ manifest = NoManifest
  /\ Goes("freshmanifest")
  /\ pending' = Files(z) \cup Owned

\* The previous manifest does not parse, or is from another document.
BeginRefused(z, f) ==
  /\ Begin(z, f)
  /\ \/ manifest = Torn
     \/ manifest \in Exports /\ manifest.doc # z.doc
  /\ End("refused") /\ pending' = {}

BeginReapply(z, f) ==
  /\ Begin(z, f)
  /\ manifest \in Exports /\ manifest.doc = z.doc
  /\ Goes("check") /\ pending' = {}

Stop(files, res) ==
  /\ ~force
  /\ named' = files /\ End(res)
  /\ UNCHANGED <<disk, task, history, at, pending, removed>>

StopUnexpected ==
  pc = "check" /\ Unexpected # {} /\ Stop(Unexpected, "unexpected")

StopEdited ==
  pc = "check" /\ Unexpected = {} /\ Edited # {} /\ Stop(Edited, "edited")

Proceed ==
  /\ pc = "check" /\ (force \/ Unexpected \cup Edited = {})
  /\ Goes("clean")
  /\ UNCHANGED <<disk, task, history, at, pending, named, removed>>

-----------------------------------------------------------------------------
(* applyFresh: every entry in sorted order; ".koolbase/export.json" sorts  *)
(* before the generated roots and the developer files.  The order of the   *)
(* others is left open.  A write that fails may leave a torn file.         *)

\* A bug: a first apply does not write the manifest, so the next one is a
\* first apply again.
FreshManifestLater ==
  /\ pc = "freshmanifest"
  /\ Goes("fresh")
  /\ UNCHANGED <<disk, task, history, at, pending, named, removed>>

FreshManifest ==
  /\ pc = "freshmanifest"
  /\ \/ manifest' = next /\ Goes("fresh")
     \/ May("write") /\ manifest' \in {manifest, Torn} /\ End("error")
  /\ UNCHANGED <<live, stage, backup, owned, task, history, at, pending, named, removed>>

FreshGenerated(r, n) ==
  /\ pc = "fresh" /\ <<r, n>> \in pending
  /\ \/ /\ live' = [live EXCEPT ![r] = Put(@, n, next.gen[r][n])]
        /\ pending' = pending \ {<<r, n>>} /\ Goes("fresh")
     \/ /\ May("write") /\ End("error") /\ UNCHANGED pending
        /\ live' \in {live, [live EXCEPT ![r] = Put(@, n, Torn)]}
  /\ UNCHANGED <<stage, backup, owned, manifest, task, history, at, named, removed>>

FreshOwned(p) ==
  /\ pc = "fresh" /\ p \in pending /\ p \in Owned
  /\ \/ /\ owned' = [owned EXCEPT ![p] = next.own[p]] /\ written' = written \cup {p}
        /\ pending' = pending \ {p} /\ Goes("fresh")
     \/ /\ May("write") /\ End("error") /\ UNCHANGED pending
        /\ \/ owned' = [owned EXCEPT ![p] = Torn] /\ written' = written \cup {p}
           \/ UNCHANGED <<owned, written>>
  /\ UNCHANGED <<live, stage, backup, manifest, task, env, applies, edits, at, named,
                 removed>>

FreshDone ==
  /\ pc = "fresh" /\ pending = {}
  /\ End("ok")
  /\ UNCHANGED <<disk, task, history, at, pending, named, removed>>

-----------------------------------------------------------------------------
(* applyReplace and replaceRoot: stage, move aside, swap in, drop. *)

RestOfSwap == <<owned, manifest, task, history, named, removed>>

\* Leaves replaceRoot without an error: on to the next root, or the manifest.
RootDone ==
  /\ at' = at + 1
  /\ Goes(IF at < Len(next.roots) THEN "clean" ELSE "manifest")

\* A bug: what an earlier apply left in the staging directory stays there.
CleanBackupOnly ==
  /\ pc = "clean"
  /\ backup' \in Cleared(backup, Root)
  /\ pending' = FilesIn(next, Root) /\ Goes("stage")
  /\ UNCHANGED <<live, stage, at, RestOfSwap>>

Clean ==
  /\ pc = "clean"
  /\ stage' \in Cleared(stage, Root) /\ backup' \in Cleared(backup, Root)
  /\ pending' = FilesIn(next, Root) /\ Goes("stage")
  /\ UNCHANGED <<live, at, RestOfSwap>>

\* A bug: the files of a root are written where they are live.
StageInPlace(n) ==
  /\ pc = "stage" /\ <<Root, n>> \in pending
  /\ live' = [live EXCEPT ![Root] = Put(@, n, next.gen[Root][n])]
  /\ stage' = [stage EXCEPT ![Root] = Put(@, n, next.gen[Root][n])]
  /\ pending' = pending \ {<<Root, n>>} /\ Goes("stage")
  /\ UNCHANGED <<backup, at, RestOfSwap>>

StageFile(n) ==
  /\ pc = "stage" /\ <<Root, n>> \in pending
  /\ stage' = [stage EXCEPT ![Root] = Put(@, n, next.gen[Root][n])]
  /\ pending' = pending \ {<<Root, n>>} /\ Goes("stage")
  /\ UNCHANGED <<live, backup, at, RestOfSwap>>

StageFails ==
  /\ pc = "stage" /\ pending # {} /\ May("write")
  /\ stage' \in Cleared(stage, Root) /\ End("error")
  /\ UNCHANGED <<live, backup, at, pending, RestOfSwap>>

\* A root for which the zip carries no file is left as it is.
SkipEmptyRoot ==
  /\ pc = "stage" /\ FilesIn(next, Root) = {}
  /\ stage' \in Cleared(stage, Root) /\ RootDone
  /\ UNCHANGED <<live, backup, pending, RestOfSwap>>

\* A bug: a write error does not end the loop over the files.
StagedInPart ==
  /\ pc = "stage" /\ stage[Root] # NoDir /\ FilesIn(next, Root) # {}
  /\ Goes("aside")
  /\ UNCHANGED <<live, stage, backup, at, pending, RestOfSwap>>

Staged ==
  /\ pc = "stage" /\ pending = {} /\ FilesIn(next, Root) # {}
  /\ Goes("aside")
  /\ UNCHANGED <<live, stage, backup, at, pending, RestOfSwap>>

\* A bug: the old tree is removed before the new one is in place.
MoveAsideDeletes ==
  /\ pc = "aside"
  /\ live' = [live EXCEPT ![Root] = NoDir]
  /\ Goes("swapin")
  /\ UNCHANGED <<stage, backup, at, pending, RestOfSwap>>

\* os.Rename(live, backup): a missing live is tolerated, an existing
\* backup directory is an error.
MoveAside ==
  /\ pc = "aside" /\ (live[Root] = NoDir \/ backup[Root] = NoDir)
  /\ IF live[Root] = NoDir THEN UNCHANGED <<live, backup>>
     ELSE /\ backup' = [backup EXCEPT ![Root] = live[Root]]
          /\ live' = [live EXCEPT ![Root] = NoDir]
  /\ Goes("swapin")
  /\ UNCHANGED <<stage, at, pending, RestOfSwap>>

MoveAsideFails ==
  /\ pc = "aside" /\ live[Root] # NoDir
  /\ May("rename") \/ backup[Root] # NoDir
  /\ stage' \in Cleared(stage, Root) /\ End("error")
  /\ UNCHANGED <<live, backup, at, pending, RestOfSwap>>

SwapIn ==
  /\ pc = "swapin" /\ live[Root] = NoDir
  /\ live' = [live EXCEPT ![Root] = stage[Root]]
  /\ stage' = [stage EXCEPT ![Root] = NoDir]
  /\ Goes("drop")
  /\ UNCHANGED <<backup, at, pending, RestOfSwap>>

SwapInFails ==
  /\ pc = "swapin" /\ (May("rename") \/ live[Root] # NoDir)
  /\ Goes("rollback")
  /\ UNCHANGED <<live, stage, backup, at, pending, RestOfSwap>>

\* `_ = os.Rename(backup, live)`: its error is ignored too.
RollBack ==
  /\ pc = "rollback"
  /\ IF backup[Root] # NoDir /\ live[Root] = NoDir
     THEN \/ /\ live' = [live EXCEPT ![Root] = backup[Root]]
             /\ backup' = [backup EXCEPT ![Root] = NoDir]
          \/ May("rollback") /\ UNCHANGED <<live, backup>>
     ELSE UNCHANGED <<live, backup>>
  /\ End("error")
  /\ UNCHANGED <<stage, at, pending, RestOfSwap>>

DropBackup ==
  /\ pc = "drop"
  /\ backup' \in Cleared(backup, Root) /\ RootDone
  /\ UNCHANGED <<live, stage, pending, RestOfSwap>>

\* os.WriteFile truncates first: a failure can leave a manifest that does
\* not parse.  On success the files of prev that next does not list are
\* reported as removed.
WriteManifest ==
  /\ pc = "manifest"
  /\ \/ manifest' = next /\ removed' = Files(prev) \ Files(next) /\ End("ok")
     \/ /\ May("write") /\ manifest' \in {manifest, Torn}
        /\ End("error") /\ UNCHANGED removed
  /\ UNCHANGED <<live, stage, backup, owned, task, history, at, pending, named>>

Crash ==
  /\ pc # "idle" /\ May("crash")
  /\ End("crashed")
  /\ UNCHANGED <<disk, task, history, at, pending, named, removed>>

-----------------------------------------------------------------------------
(* The developer, in the same directory.  Not in the repository: the       *)
(* environment the command is written for.                                 *)

Developer ==
  /\ (pc = "idle" \/ env.concurrent) /\ edits < MaxEdits
  /\ edits' = edits + 1
  /\ UNCHANGED <<stage, backup, manifest, task, env, written, applies, pc, at, pending,
                 named, removed, result, failed>>

DevWrite(r, n, b) ==
  /\ Developer
  /\ live' = [live EXCEPT ![r] = Put(@, n, b)] /\ UNCHANGED owned

DevDelete(r, n) ==
  /\ Developer /\ HasFile(r, n)
  /\ live' = [live EXCEPT ![r][n] = NoFile] /\ UNCHANGED owned

DevWriteOwned(p, b) ==
  /\ Developer
  /\ owned' = [owned EXCEPT ![p] = b] /\ UNCHANGED live

DevDeleteOwned(p) ==
  /\ Developer /\ owned[p] # NoFile
  /\ owned' = [owned EXCEPT ![p] = NoFile] /\ UNCHANGED live

Apply ==
  \/ \E z \in Exports, f \in BOOLEAN :
       BeginFresh(z, f) \/ BeginRefused(z, f) \/ BeginReapply(z, f)
  \/ StopUnexpected \/ StopEdited \/ Proceed
  \/ FreshManifest \/ FreshDone
  \/ \E r \in Roots, n \in Names : FreshGenerated(r, n)
  \/ \E p \in Owned : FreshOwned(p)
  \/ \E n \in Names : StageFile(n)
  \/ Clean \/ StageFails \/ SkipEmptyRoot \/ Staged
  \/ MoveAside \/ MoveAsideFails \/ SwapIn \/ SwapInFails \/ RollBack \/ DropBackup
  \/ WriteManifest \/ Crash

Edit ==
  \/ \E r \in Roots, n \in Names :
       DevDelete(r, n) \/ \E b \in DevBytes : DevWrite(r, n, b)
  \/ \E p \in Owned : DevDeleteOwned(p) \/ \E b \in DevBytes : DevWriteOwned(p, b)

Next == Apply \/ Edit
Spec == Init /\ [][Next]_vars
=============================================================================
