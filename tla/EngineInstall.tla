--------------------------- MODULE EngineInstall ---------------------------
(***************************************************************************)
(* The Flutter engines under ~/.koolbase/engines (internal/engine,         *)
(* cmd/engine.go, the engine checks of cmd/build.go).  One directory per   *)
(* version holds a configuration per target and the host tools all targets *)
(* share.  `engine install`, `engine remove` and `build` run side by side  *)
(* without a lock; calls fail and runs are killed anywhere.                *)
(*                                                                         *)
(* One Flutter version is followed through its Koolbase revisions, the     *)
(* members of Versions.  What a file holds is the revision it came from.   *)
(***************************************************************************)
CONSTANTS
  Runs, Versions,
  First,          \* the revision 1: `<flutter>-koolbase.1`
  Targets, IOS,   \* platform and ABI; IOS are the targets built for iOS
  Parts,          \* the files of an engine
  Zip,            \* [Targets -> SUBSET Parts]: a target's artifact
  Own,            \* [Targets -> SUBSET Parts]: out/<config> of the target
  Android,        \* [Targets -> Targets]: the Android target of the same ABI
  Starts,         \* the targets installed per version when a behaviour starts
  Bad, Torn, None

ASSUME EngineAssumption ==
  /\ First \in Versions
  /\ IOS \subseteq Targets
  /\ Zip \in [Targets -> SUBSET Parts]
  /\ Own \in [Targets -> SUBSET Parts]
  /\ Android \in [Targets -> Targets \ IOS]
  /\ \A t \in Targets : Own[t] \subseteq Zip[t] /\ Zip[t] # {}
  /\ \A t, u \in Targets : t # u => Own[t] \cap Zip[u] = {}
  /\ Starts \subseteq [Versions -> SUBSET Targets]
  /\ {Bad, Torn, None} \cap Versions = {} /\ Runs \cap Versions = {} /\ None \notin Parts
  /\ Bad # Torn /\ Bad # None /\ Torn # None

VARIABLES
  published,   \* the revision the server answers with
  exists,      \* the version directories
  tree,        \* [Versions -> [Parts -> a revision, Torn or None]]
  pc, kind, target, version,
  content,     \* per run: the archive it downloads
  temp,        \* per run: its .part file and its staging directory
  staged,      \* per run: the files in its staging directory
  todo, opened,    \* per run: what a merge has to copy, the file it has open
  disturbed,   \* history, per run: another run wrote where it was writing
  hurt,        \* history: versions a merge or a removal left as they should not be
  spilled      \* history: runs that left a staging directory behind

disk == <<exists, tree>>
args == <<kind, target, version>>
own == <<temp, staged, todo, opened>>
hist == <<disturbed, hurt, spilled>>
vars == <<published, disk, pc, args, content, own, hist>>

Writing == {"merge", "removing"}
Staging == {"extract", "stat", "rename", "merge", "tidy", "abort"}
Running == Staging \cup Writing \cup
             {"resolve", "list", "check", "recheck", "download", "verify", "choose", "layout"}
Ended == {"installed", "already", "removed", "flutter", "refused", "failed", "killed"}

TypeOK ==
  /\ published \in Versions
  /\ exists \subseteq Versions
  /\ tree \in [Versions -> [Parts -> Versions \cup {Bad, Torn, None}]]
  /\ pc \in [Runs -> {"new"} \cup Running \cup Ended]
  /\ kind \in [Runs -> {"install", "remove", "build"}]
  /\ target \in [Runs -> Targets]
  /\ version \in [Runs -> Versions \cup {None}]
  /\ content \in [Runs -> Versions \cup {Bad}]
  /\ temp \in [Runs -> SUBSET {"part", "stage"}]
  /\ staged \in [Runs -> SUBSET Parts]
  /\ todo \in [Runs -> SUBSET Parts]
  /\ opened \in [Runs -> Parts \cup {None}]
  /\ disturbed \in [Runs -> BOOLEAN]
  /\ hurt \subseteq Versions /\ spilled \subseteq Runs
  /\ \A r \in Runs : pc[r] \in Writing \cup {"check", "recheck", "download", "verify",
       "extract", "stat", "rename", "layout"} => version[r] \in Versions
  /\ \A r \in Runs : pc[r] \in {"stat", "rename", "merge"} => "stage" \in temp[r]
  /\ \A r \in Runs : pc[r] = "removing" => kind[r] = "remove"
  /\ \A v \in Versions : v \notin exists => \A x \in Parts : tree[v][x] = None

Files(had, v) == UNION {Zip[t] : t \in had[v]}

Init ==
  /\ published \in Versions
  /\ \E had \in Starts :
       /\ exists = {v \in Versions : had[v] # {}}
       /\ tree = [v \in Versions |-> [x \in Parts |-> IF x \in Files(had, v) THEN v ELSE None]]
  /\ pc = [r \in Runs |-> "new"]
  /\ kind = [r \in Runs |-> "install"]
  /\ target \in [Runs -> Targets]
  /\ version = [r \in Runs |-> None]
  /\ content = [r \in Runs |-> Bad]
  /\ temp = [r \in Runs |-> {}]
  /\ staged = [r \in Runs |-> {}]
  /\ todo = [r \in Runs |-> {}]
  /\ opened = [r \in Runs |-> None]
  /\ disturbed = [r \in Runs |-> FALSE]
  /\ hurt = {} /\ spilled = {}

-----------------------------------------------------------------------------
Goes(r, from, to) == pc[r] = from /\ pc' = [pc EXCEPT ![r] = to]

Present(v, parts) == \E x \in parts : tree[v][x] # None
Whole(v, t, rev) == \A x \in Zip[t] : tree[v][x] = rev

\* IsInstalled; IsInstalledArch.
IsInstalled(v) == v \in exists
IsInstalledArch(v, parts) == Present(v, parts)

Writers(v) == {r \in Runs : pc[r] \in Writing /\ version[r] = v}

\* r begins to write to v: whoever is writing there already is in its way, and
\* the other way round.
Overlaps(r, v) == disturbed' = [q \in Runs |->
  IF q = r THEN Writers(v) # {} ELSE disturbed[q] \/ q \in Writers(v)]

-----------------------------------------------------------------------------
(* The server, and the developer who starts a command. *)

Publish ==
  /\ published' \in Versions \ {published}
  /\ UNCHANGED <<disk, pc, args, content, own, hist>>

Install(r) ==
  /\ Goes(r, "new", "resolve")
  /\ kind' = [kind EXCEPT ![r] = "install"]
  /\ UNCHANGED <<published, disk, target, version, content, own, hist>>

Remove(r) ==
  /\ \E v \in Versions :
       /\ version' = [version EXCEPT ![r] = v]
       /\ \/ v \in exists /\ Goes(r, "new", "removing") /\ Overlaps(r, v)
          \/ v \notin exists /\ Goes(r, "new", "failed") /\ UNCHANGED disturbed
  /\ kind' = [kind EXCEPT ![r] = "remove"]
  /\ UNCHANGED <<published, disk, target, content, own, hurt, spilled>>

\* With --engine the version is given, without it is looked up.
Build(r) ==
  /\ kind' = [kind EXCEPT ![r] = "build"]
  /\ \/ \E v \in Versions : version' = [version EXCEPT ![r] = v] /\ Goes(r, "new", "layout")
     \/ UNCHANGED version /\ Goes(r, "new", "choose")
  /\ UNCHANGED <<published, disk, target, content, own, hist>>

-----------------------------------------------------------------------------
(* engine install *)

\* GetEngineDownload.
Resolve(r) ==
  /\ \/ Goes(r, "resolve", "list") /\ content' = [content EXCEPT ![r] = published]
     \/ Goes(r, "resolve", "failed") /\ UNCHANGED content
  /\ UNCHANGED <<published, disk, args, own, hist>>

\* ListEngines gives the version's name; a list without this Flutter version
\* makes it the first revision.
List(r) ==
  /\ \/ \E v \in {published, First} :
          Goes(r, "list", "check") /\ version' = [version EXCEPT ![r] = v]
     \/ Goes(r, "list", "failed") /\ UNCHANGED version
  /\ UNCHANGED <<published, disk, kind, target, content, own, hist>>

\* The configuration directory `engine install` asks for: the platform plays no part.
AndroidConfig(r) == Own[Android[target[r]]]

\* The command looks whether the target is there, then Install does.
Check(r) ==
  /\ \/ Goes(r, "check", IF IsInstalledArch(version[r], AndroidConfig(r))
                         THEN "already" ELSE "recheck")
     \/ Goes(r, "recheck", IF IsInstalledArch(version[r], AndroidConfig(r))
                           THEN "installed" ELSE "download")
  /\ UNCHANGED <<published, disk, args, content, own, hist>>

\* The archive arrives as published, damaged or cut short, or not at all.
Download(r) ==
  /\ pc[r] = "download"
  /\ temp' = [temp EXCEPT ![r] = {"part"}]
  /\ \/ Goes(r, "download", "verify")
        /\ content' \in {content, [content EXCEPT ![r] = Bad]}
     \/ Goes(r, "download", "abort") /\ UNCHANGED content
  /\ UNCHANGED <<published, disk, args, staged, todo, opened, hist>>

\* A bug: the digest is not compared.
Unverified(r) == TRUE

Verified(r) == content[r] # Bad

\* Checksum and signature; either may be missing or wrong in the answer.
Verify(r) ==
  /\ \/ Verified(r) /\ Goes(r, "verify", "extract")
     \/ Goes(r, "verify", "abort")
  /\ UNCHANGED <<published, disk, args, content, own, hist>>

\* A bug: an extraction that failed goes on.
ExtractSome(r) ==
  /\ Goes(r, "extract", "stat")
  /\ temp' = [temp EXCEPT ![r] = @ \cup {"stage"}]
  /\ \E some \in SUBSET Zip[target[r]] : staged' = [staged EXCEPT ![r] = some]
  /\ UNCHANGED <<published, disk, args, content, todo, opened, hist>>

Extract(r) ==
  /\ temp' = [temp EXCEPT ![r] = @ \cup {"stage"}]
  /\ \/ /\ Goes(r, "extract", "stat")
        /\ staged' = [staged EXCEPT ![r] = Zip[target[r]]]
     \/ /\ Goes(r, "extract", "abort")
        /\ \E some \in SUBSET Zip[target[r]] : staged' = [staged EXCEPT ![r] = some]
  /\ UNCHANGED <<published, disk, args, content, todo, opened, hist>>

\* The first target of a version is renamed into place, another is merged in.
Stat(r) ==
  /\ \/ /\ version[r] \notin exists /\ Goes(r, "stat", "rename")
        /\ UNCHANGED <<todo, disturbed>>
     \/ /\ version[r] \in exists /\ Goes(r, "stat", "merge")
        /\ todo' = [todo EXCEPT ![r] = staged[r]]
        /\ Overlaps(r, version[r])
  /\ UNCHANGED <<published, disk, args, content, temp, staged, opened, hurt, spilled>>

\* A bug: what is in the way is removed.
Replace(r) ==
  /\ Goes(r, "rename", "tidy")
  /\ exists' = exists \cup {version[r]}
  /\ tree' = [tree EXCEPT ![version[r]] =
                [x \in Parts |-> IF x \in staged[r] THEN content[r] ELSE None]]
  /\ hurt' = IF content[r] = version[r] THEN hurt ELSE hurt \cup {version[r]}
  /\ Overlaps(r, version[r])
  /\ UNCHANGED <<published, args, content, own, spilled>>

\* os.Rename does not replace a directory with files in it.
Rename(r) ==
  /\ Goes(r, "rename", "tidy")
  /\ version[r] \notin exists
  /\ exists' = exists \cup {version[r]}
  /\ tree' = [tree EXCEPT ![version[r]] =
                [x \in Parts |-> IF x \in staged[r] THEN content[r] ELSE None]]
  /\ hurt' = IF content[r] = version[r] THEN hurt ELSE hurt \cup {version[r]}
  /\ Overlaps(r, version[r])
  /\ UNCHANGED <<published, args, content, own, spilled>>

RenameFails(r) ==
  /\ Goes(r, "rename", "abort")
  /\ UNCHANGED <<published, disk, args, content, own, hist>>

\* mergeTree, copyFileMode: a file is opened with O_TRUNC, then copied.
MergeOpen(r) ==
  /\ pc[r] = "merge" /\ opened[r] = None
  /\ \E x \in todo[r] :
       /\ opened' = [opened EXCEPT ![r] = x]
       /\ tree' = [tree EXCEPT ![version[r]][x] = Torn]
  /\ exists' = exists \cup {version[r]}
  /\ UNCHANGED <<published, pc, args, content, temp, staged, todo, hist>>

\* A file that was removed meanwhile is written and gone; two runs that write
\* the same file may spoil it.
Copied(r, x) ==
  IF tree[version[r]][x] = None THEN {None}
  ELSE {content[r]} \cup
         {Torn : q \in {q \in Runs \ {r} : opened[q] = x /\ q \in Writers(version[r])}}

\* A bug: an error of the copy is not returned.
CopyQuietly(r) ==
  /\ pc[r] = "merge" /\ opened[r] # None
  /\ \E c \in Copied(r, opened[r]) \cup {Torn} :
       tree' = [tree EXCEPT ![version[r]][opened[r]] = c]
  /\ todo' = [todo EXCEPT ![r] = @ \ {opened[r]}]
  /\ opened' = [opened EXCEPT ![r] = None]
  /\ UNCHANGED <<published, exists, pc, args, content, temp, staged, hist>>

MergeCopy(r) ==
  /\ pc[r] = "merge" /\ opened[r] # None
  /\ \E c \in Copied(r, opened[r]) :
       tree' = [tree EXCEPT ![version[r]][opened[r]] = c]
  /\ todo' = [todo EXCEPT ![r] = @ \ {opened[r]}]
  /\ opened' = [opened EXCEPT ![r] = None]
  /\ UNCHANGED <<published, exists, pc, args, content, temp, staged, hist>>

MergeDone(r) ==
  /\ todo[r] = {} /\ Goes(r, "merge", "tidy")
  /\ hurt' = IF ~disturbed[r] /\ content[r] = version[r] THEN hurt
             ELSE hurt \cup {version[r]}
  /\ UNCHANGED <<published, disk, args, content, own, disturbed, spilled>>

MergeFails(r) ==
  /\ Goes(r, "merge", "abort")
  /\ hurt' = hurt \cup {version[r]}
  /\ opened' = [opened EXCEPT ![r] = None]
  /\ UNCHANGED <<published, disk, args, content, temp, staged, todo, disturbed, spilled>>

\* A bug: only an install that succeeds removes its staging directory.
TidySuccess(r) ==
  /\ \/ /\ Goes(r, "tidy", "installed")
        /\ temp' = [temp EXCEPT ![r] = {}] /\ UNCHANGED spilled
     \/ Goes(r, "abort", "failed") /\ UNCHANGED <<temp, spilled>>
  /\ UNCHANGED <<published, disk, args, content, staged, todo, opened, disturbed, hurt>>

\* The deferred removals, whose errors are ignored.
Tidy(r) ==
  /\ Goes(r, "tidy", "installed") \/ Goes(r, "abort", "failed")
  /\ \/ temp' = [temp EXCEPT ![r] = {}] /\ UNCHANGED spilled
     \/ spilled' = spilled \cup {r} /\ UNCHANGED temp
  /\ UNCHANGED <<published, disk, args, content, staged, todo, opened, disturbed, hurt>>

-----------------------------------------------------------------------------
(* engine remove *)

RemoveFile(r) ==
  /\ pc[r] = "removing"
  /\ \E x \in Parts : /\ tree[version[r]][x] # None
                      /\ tree' = [tree EXCEPT ![version[r]][x] = None]
  /\ UNCHANGED <<published, exists, pc, args, content, own, hist>>

RemoveDone(r) ==
  /\ Goes(r, "removing", "removed")
  /\ ~Present(version[r], Parts)
  /\ exists' = exists \ {version[r]}
  /\ hurt' = hurt \ {version[r]}
  /\ UNCHANGED <<published, tree, args, content, own, disturbed, spilled>>

RemoveFails(r) ==
  /\ Goes(r, "removing", "failed")
  /\ hurt' = hurt \cup {version[r]}
  /\ UNCHANGED <<published, disk, args, content, own, disturbed, spilled>>

-----------------------------------------------------------------------------
(* build *)

\* ListInstalled: every directory, staging directories included.
ListInstalled == exists \cup {r \in Runs : "stage" \in temp[r]}

\* resolveProjectEngine: the only directory there is.  A staging directory is
\* not laid out as an engine and is refused by the checks that follow.
Choose(r) ==
  /\ \/ \E v \in exists :
          /\ ListInstalled = {v}
          /\ version' = [version EXCEPT ![r] = v] /\ Goes(r, "choose", "layout")
     \/ /\ \A v \in exists : ListInstalled # {v}
        /\ Goes(r, "choose", "refused") /\ UNCHANGED version
  /\ UNCHANGED <<published, disk, kind, target, content, own, hist>>

\* A bug: any target will do.
AnyTarget(r) == IsInstalled(version[r])

Accepts(r) ==
  IF target[r] \in IOS THEN IsInstalled(version[r])
  ELSE IsInstalledArch(version[r], Own[target[r]])

\* The engine is checked and handed to flutter.
Layout(r) ==
  /\ Goes(r, "layout", IF Accepts(r) THEN "flutter" ELSE "refused")
  /\ UNCHANGED <<published, disk, args, content, own, hist>>

-----------------------------------------------------------------------------
Kill(r) ==
  /\ pc[r] \in Running /\ pc' = [pc EXCEPT ![r] = "killed"]
  /\ hurt' = IF pc[r] \in Writing THEN hurt \cup {version[r]} ELSE hurt
  /\ spilled' = IF temp[r] = {} THEN spilled ELSE spilled \cup {r}
  /\ opened' = [opened EXCEPT ![r] = None]
  /\ UNCHANGED <<published, disk, args, content, temp, staged, todo, disturbed>>

InstallStep(r) ==
  \/ Resolve(r) \/ List(r) \/ Check(r) \/ Download(r) \/ Verify(r) \/ Extract(r)
  \/ Stat(r) \/ Rename(r) \/ RenameFails(r)
  \/ MergeOpen(r) \/ MergeCopy(r) \/ MergeDone(r) \/ MergeFails(r) \/ Tidy(r)

Step(r) ==
  \/ Install(r) \/ Remove(r) \/ Build(r)
  \/ InstallStep(r)
  \/ RemoveFile(r) \/ RemoveDone(r) \/ RemoveFails(r)
  \/ Choose(r) \/ Layout(r)
  \/ Kill(r)

Next == Publish \/ \E r \in Runs : Step(r)

Spec == Init /\ [][Next]_vars

-----------------------------------------------------------------------------
(* Properties *)

AtRest(v) == v \notin hurt /\ Writers(v) = {}

\* What is installed is complete (manager.go:85-102, "installed for a version"):
\* a version nobody is writing to has, for each target of which it has a file,
\* every file of that target and of the host tools, all of that revision.  Except
\* where a merge or a removal was cut short or met another, and where the name
\* was listed after another revision was published.
InstalledIsWhole ==
  \A v \in Versions : AtRest(v) =>
    \A t \in Targets : Present(v, Own[t]) => Whole(v, t, v)

\* An install writes only files of its target's archive, and only `engine remove`
\* takes a file away (manager.go:249-251, "it merges into an existing dst ...
\* without removing others"): the directories of other targets are safe, whatever
\* fails, overlaps or is killed; what a target has to fear is for the host tools.
Puts(r, x)  == pc[r] \in {"rename", "merge"} /\ x \in Zip[target[r]]
Takes(r)    == pc[r] = "removing"
InstallsKeepTheRest ==
  [][\A v \in Versions, x \in Parts : tree'[v][x] # tree[v][x] =>
       \E r \in Runs :
         version[r] = v /\ IF tree'[v][x] = None THEN Takes(r) ELSE Puts(r, x)]_vars

\* A file cut short is being written, or somebody was told (manager.go:241): a
\* merge or a removal of that version has failed or been killed, or met another.
CutShortIsKnown ==
  \A v \in Versions, x \in Parts : tree[v][x] = Torn =>
    v \in hurt \/ \E r \in Writers(v) : opened[r] = x

\* An install that went through has put every file of the verified archive there
\* (engine.go:203, "Installed"), unless another run wrote there meanwhile.
InstalledAsVerified ==
  [][\A r \in Runs : (pc[r] \in {"rename", "merge"} /\ pc'[r] = "tidy") =>
       \/ disturbed'[r]
       \/ content[r] \in Versions /\ \A x \in Zip[target[r]] : tree'[version[r]][x] = content[r]]_vars

\* A build for Android is given a complete engine (build.go:88-108), if nobody is
\* writing to that version and nothing hurt it before.
BuildsOnWholeEngine ==
  [][\A r \in Runs :
       (pc[r] = "layout" /\ pc'[r] = "flutter" /\ target[r] \notin IOS /\ AtRest(version[r]))
         => Whole(version[r], target[r], version[r])]_vars

\* A project with one engine installed builds without --engine (build.go:552-553),
\* unless an install is under way or has left a staging directory behind.
OnlyEngineIsUsed ==
  [][\A r \in Runs : (pc[r] = "choose" /\ pc'[r] = "refused" /\ \E v \in Versions : exists = {v}) =>
       spilled # {} \/ \E q \in Runs : pc[q] \in Staging]_vars

\* What engine.go:181 says, "already installed", of the target that was asked for.
AlreadyIsThere ==
  [][\A r \in Runs : (pc[r] = "check" /\ pc'[r] = "already") =>
       Present(version[r], Own[target[r]])]_vars

\* What manager.go:234-235 says of installing another target, "without disturbing
\* other arches already installed": while nobody writes, a target that no run
\* installed and that nothing was removed from is complete.
OthersUndisturbed ==
  \A v \in Versions, t \in Targets :
    /\ Writers(v) = {} /\ Present(v, Own[t])
    /\ \A r \in Runs : kind[r] = "install" /\ target[r] # t
    => Whole(v, t, v)

-----------------------------------------------------------------------------
(* The inductive invariant behind these properties. *)

\* What is about to be promoted is the whole verified archive.
StagedInv ==
  \A r \in Runs :
    /\ pc[r] \in {"extract", "stat", "rename", "merge"} => content[r] \in Versions
    /\ pc[r] \in {"stat", "rename", "merge"} => staged[r] = Zip[target[r]]
    /\ "stage" \in temp[r] => r \in spilled \/ pc[r] \in Staging

\* A merge nobody disturbed has copied what it does not have to copy any more.
MergeInv ==
  \A r \in Runs :
    /\ opened[r] # None => pc[r] = "merge" /\ opened[r] \in todo[r]
    /\ pc[r] = "merge" => todo[r] \subseteq Zip[target[r]]
    /\ pc[r] = "merge" /\ ~disturbed[r] =>
         /\ version[r] \in exists
         /\ \A x \in Zip[target[r]] \ todo[r] : tree[version[r]][x] = content[r]
         /\ opened[r] # None => tree[version[r]][opened[r]] # None

\* Two that write to one version know of each other.
OverlapInv ==
  \A q, r \in Runs :
    (q # r /\ pc[q] \in Writing /\ pc[r] \in Writing /\ version[q] = version[r])
      => disturbed[q]

\* Where only undisturbed merges of the right revision are at work, all that a
\* target misses is yet to be copied.
Orderly(q) == pc[q] = "merge" /\ ~disturbed[q] /\ content[q] = version[q]

WholeInv ==
  \A v \in Versions \ hurt : (\A q \in Writers(v) : Orderly(q)) =>
    \A t \in Targets : Present(v, Own[t]) =>
      \A x \in Zip[t] : tree[v][x] = v \/ \E q \in Writers(v) : x \in todo[q]

EngineInv == StagedInv /\ MergeInv /\ OverlapInv /\ WholeInv
=============================================================================
