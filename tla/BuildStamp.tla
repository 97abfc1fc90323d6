----------------------------- MODULE BuildStamp -----------------------------
(***************************************************************************)
(* `koolbase build` and the local half of `koolbase release`               *)
(* (src/cmd/build.go, build_stamp.go, release.go): compile, stamp the      *)
(* Flutter version and, for Android, the build_id into two asset files     *)
(* declared in pubspec.yaml, compile once more when a file changed; a      *)
(* release does that for every architecture and assembles the bundle from  *)
(* what each left behind.  The phone reports the stamped build_id, and the *)
(* server serves it the patches made for that build.                       *)
(*                                                                         *)
(* One project directory, one command at a time.  flutter is external: it  *)
(* may fail, it fails when a declared asset is missing, and it bundles the *)
(* declared assets with the library compiled from the sources as they are. *)
(***************************************************************************)
EXTENDS Naturals, Sequences

CONSTANTS MaxSourceEdits,  \* bound on the edits of the sources
          MaxBuilds        \* bound on the commands run

ASSUME BuildStampAssumption == MaxSourceEdits \in Nat /\ MaxBuilds \in Nat

VARIABLES source,      \* version of the source files
          declared,    \* the assets pubspec.yaml declares
          file,        \* the two asset files
          artifact,    \* what the last compilation left in build/
          build,       \* the command running
          kept,        \* per architecture, what a release put aside
          bundle,      \* the app bundle assembled
          undeclared,  \* history: the build found an asset file that was
                       \* there and not declared, or pubspec.yaml named it
                       \* where it declares nothing
          builds       \* how many commands were started

stVars == <<source, declared, file, artifact, build, kept, bundle, undeclared,
            builds>>

Assets   == {"build_id", "flutter_version"}
Abis     == {"arm64-v8a", "armeabi-v7a"}
Targets  == Abis \cup {"ios"}          \* what is compiled for; macOS is as iOS
Sources  == 1..(MaxSourceEdits + 1)
Missing  == <<"missing", 0>>
Empty    == <<"empty", 0>>
Library(abi, s) == <<abi, s>>          \* its hash is its build_id
Flutter  == <<"flutter", 1>>
Values   == {Missing, Empty, Flutter} \cup (Targets \X Sources)
NoArtifact == [library |-> Missing, assets |-> [a \in Assets |-> Missing]]

BuildEnded == {"idle", "ok", "failed"}
Quiet == [pc |-> "idle", release |-> FALSE, abis |-> <<>>, i |-> 1,
          changed |-> FALSE]

BuildStates ==
  [pc: BuildEnded \cup {"clean", "compile", "version", "id", "recompile", "keep",
                        "shell"},
   release: BOOLEAN, abis: Seq(Targets), i: Nat, changed: BOOLEAN]

BuildStampTypeOK ==
  /\ source \in Sources
  /\ declared \subseteq Assets
  /\ file \in [Assets -> Values]
  /\ artifact \in [library: Values, assets: [Assets -> Values]]
  /\ build \in BuildStates
  /\ kept \in [Abis -> [id: Values, library: Values]]
  /\ bundle \in [ids: [Abis -> Values], libraries: [Abis -> Values]]
  /\ undeclared \in BOOLEAN /\ builds \in 0..MaxBuilds

Nothing == [b \in Abis |-> Missing]
NoBundle == [ids |-> Nothing, libraries |-> Nothing]   \* or one cut short

BuildStampInit ==
  /\ source = 1 /\ builds = 0 /\ undeclared = FALSE
  /\ declared = {} /\ file = [a \in Assets |-> Missing]
  /\ artifact = NoArtifact /\ build = Quiet
  /\ kept = [b \in Abis |-> [id |-> Missing, library |-> Missing]]
  /\ bundle = NoBundle

-----------------------------------------------------------------------------
AbiNow == build.abis[build.i]
BuildTo(pc) == build' = [build EXCEPT !.pc = pc]

\* flutter build: what it leaves in build/ when it succeeds.
Compiled == [library |-> Library(AbiNow, source),
             assets |-> [a \in Assets |-> IF a \in declared THEN file[a]
                                          ELSE Missing]]
Compiles == \A a \in declared : file[a] # Missing
\* After the last compilation a build is over; a release keeps the result.
BuiltNext == IF build.release THEN "keep" ELSE "ok"

\* The engine, the Flutter SDK of its version and the arguments are resolved,
\* or the command fails before anything is written.
Started(release, abis, pc) ==
  /\ build.pc \in BuildEnded /\ builds < MaxBuilds
  /\ builds' = builds + 1
  /\ build' = [Quiet EXCEPT !.pc = pc, !.release = release, !.abis = abis]
  /\ UNCHANGED <<source, declared, file, artifact, kept, bundle, undeclared>>

StartBuild(target) ==
  \E pc \in {"compile", "failed"} : Started(FALSE, <<target>>, pc)
StartRelease(abis) ==
  \E pc \in {"clean", "failed"} : Started(TRUE, abis, pc)

\* `flutter clean` before each architecture, whose failure is ignored, and the
\* placeholders that keep a missing declared asset from failing the build; one
\* that cannot be written ends the release.
CleanForAbi ==
  /\ build.pc = "clean"
  /\ artifact' \in {artifact, NoArtifact}
  /\ \E wiped \in SUBSET Assets, placed \in {{}, {"build_id"}, Assets} :
       /\ file' = [a \in Assets |->
                     IF a \notin wiped /\ file[a] # Missing THEN file[a]
                     ELSE IF a \notin placed THEN Missing
                     ELSE IF a = "build_id" THEN Empty ELSE Flutter]
       /\ BuildTo(IF placed = Assets THEN "compile" ELSE "failed")
  /\ UNCHANGED <<source, declared, kept, bundle, undeclared, builds>>

Compile ==
  /\ build.pc = "compile"
  /\ \/ BuildTo("failed") /\ UNCHANGED <<artifact, undeclared>>
     \/ /\ Compiles
        /\ artifact' = Compiled
        /\ undeclared' = \E a \in Assets \ declared : file[a] # Missing
        /\ build' = [build EXCEPT !.pc = "version", !.changed = FALSE]
  /\ UNCHANGED <<source, declared, file, kept, bundle, builds>>

\* The file is written only when its content differs, then the asset is
\* declared; only a change of the content asks for another compilation.  What
\* fails before the write leaves the file, a write that fails may cut it.
\* pubspec.yaml may then be unreadable, have no flutter: section to add to, or
\* be cut by its own write.  An asset that it names anywhere, as in a comment or
\* within a longer name, is taken to be declared.
Stamp(asset, value, next) ==
  LET changed == build.changed \/ file[asset] # value IN
  /\ \/ /\ file' \in {file} \cup IF file[asset] = value THEN {}
                                ELSE {[file EXCEPT ![asset] = Empty]}
        /\ BuildTo("failed") /\ UNCHANGED <<declared, undeclared>>
     \/ /\ file' = [file EXCEPT ![asset] = value]
        /\ BuildTo("failed")
        /\ declared' \in IF asset \in declared THEN {declared} ELSE SUBSET declared
        /\ UNCHANGED undeclared
     \/ /\ file' = [file EXCEPT ![asset] = value]
        /\ build' = [build EXCEPT !.pc = next[changed], !.changed = changed]
        /\ \/ declared' = declared \cup {asset} /\ UNCHANGED undeclared
           \/ asset \notin declared /\ UNCHANGED declared /\ undeclared' = TRUE
  /\ UNCHANGED <<source, artifact, kept, bundle, builds>>

\* The Flutter version is stamped on every platform, the build_id on Android.
StampVersion ==
  /\ build.pc = "version"
  /\ Stamp("flutter_version", Flutter,
       [c \in BOOLEAN |-> IF AbiNow \in Abis THEN "id"
                         ELSE IF c THEN "recompile" ELSE BuiltNext])

\* The build_id is computed from the library inside the artifact.
StampId == /\ build.pc = "id"
           /\ Stamp("build_id", artifact.library,
                    [c \in BOOLEAN |-> IF c THEN "recompile" ELSE BuiltNext])

\* A bug: the artifact is taken as it is after the stamp.
NoRecompile ==
  /\ build.pc = "recompile" /\ BuildTo(BuiltNext)
  /\ UNCHANGED <<source, declared, file, artifact, kept, bundle, undeclared, builds>>

Recompile ==
  /\ build.pc = "recompile"
  /\ \/ BuildTo("failed") /\ UNCHANGED artifact
     \/ /\ Compiles
        /\ artifact' = Compiled
        /\ BuildTo(BuiltNext)
  /\ UNCHANGED <<source, declared, file, kept, bundle, undeclared, builds>>

KeepUnder(abi) ==
  /\ build.pc = "keep"
  /\ \/ BuildTo("failed") /\ UNCHANGED kept
     \/ /\ kept' = [kept EXCEPT ![abi] =
                      [id |-> file["build_id"], library |-> artifact.library]]
        /\ build' = [build EXCEPT
             !.pc = IF build.i = Len(build.abis) THEN "shell" ELSE "clean",
             !.i = IF build.i = Len(build.abis) THEN @ ELSE @ + 1]
  /\ UNCHANGED <<source, declared, file, artifact, bundle, undeclared, builds>>

\* A bug: every architecture is kept under the name of the first.
KeepUnderFirst == KeepUnder(build.abis[1])

\* A release reads the build_id back from the asset file and the libraries
\* from the artifact, and goes on with the next architecture.
KeepAbi == KeepUnder(AbiNow)

\* The bundle is a stock one with the kept libraries swapped in and the
\* build_id asset, which must be declared, replaced by the map per architecture.
Assembled ==
  LET In(b) == \E k \in DOMAIN build.abis : build.abis[k] = b IN
  [ids |-> [b \in Abis |-> IF In(b) THEN kept[b].id ELSE Missing],
   libraries |-> [b \in Abis |-> IF In(b) THEN kept[b].library ELSE Missing]]

\* Creating it truncates the one of a release before.  It is closed in deferred
\* calls whose errors nobody reads: what goes on to be signed may be cut, and
\* signing, when there is a key, may fail.
AssembleAab ==
  /\ build.pc = "shell"
  /\ \/ BuildTo("failed") /\ bundle' \in {bundle, NoBundle}
     \/ /\ Compiles /\ "build_id" \in declared
        /\ bundle' \in {Assembled, NoBundle}
        /\ \E pc \in {"ok", "failed"} : BuildTo(pc)
  /\ UNCHANGED <<source, declared, file, artifact, kept, undeclared, builds>>

\* The user, or git: between two commands the sources change, or pubspec.yaml
\* is put back and the untracked asset files stay.
EditSource ==
  /\ source <= MaxSourceEdits /\ build.pc \in BuildEnded
  /\ source' = source + 1
  /\ UNCHANGED <<declared, file, artifact, build, kept, bundle, undeclared, builds>>

LoseDeclaration ==
  /\ build.pc \in BuildEnded /\ declared # {}
  /\ declared' = {}
  /\ UNCHANGED <<source, file, artifact, build, kept, bundle, undeclared, builds>>

BuildStep ==
  CleanForAbi \/ Compile \/ StampVersion \/ StampId \/ Recompile \/ KeepAbi
  \/ AssembleAab

BuildStampNext ==
  \/ \E t \in Targets : StartBuild(t)
  \/ \E abis \in {<<b>> : b \in Abis} \cup {<<"arm64-v8a", "armeabi-v7a">>} :
       StartRelease(abis)
  \/ BuildStep \/ EditSource \/ LoseDeclaration

BuildStampSpec == BuildStampInit /\ [][BuildStampNext]_stVars

-----------------------------------------------------------------------------
\* "Build complete. This binary supports Koolbase Code Push" (build.go:309):
\* the app that a build leaves reports the build_id of its own library, and
\* the Flutter version it was compiled with, whatever builds, releases and
\* edits came before.  Not so when it found an asset file in place that was
\* not declared, left by a `release` that failed or by a pubspec.yaml put back:
\* a file that is right asks for no second compilation, and the app without it
\* is taken as it is.  Nor when pubspec.yaml only mentions the asset
\* (build_stamp.go:171).
CompleteBuildSupportsCodePush ==
  build.pc = "ok" /\ ~build.release /\ ~undeclared =>
    /\ AbiNow \in Abis => artifact.assets["build_id"] = artifact.library
    /\ artifact.assets["flutter_version"] = Flutter

\* The map in an assembled bundle gives each architecture the build_id of the
\* library it ships: patches made for that build reach it, and no other.
\* Across several builds, sources edited between them and files wiped or not
\* by `flutter clean`.  A bundle that a dropped Close error cut holds no map.
BundleMapsItsLibraries ==
  /\ bundle.ids = bundle.libraries
  /\ build.pc = "ok" /\ build.release /\ bundle # NoBundle =>
       \A k \in DOMAIN build.abis :
         bundle.libraries[build.abis[k]][1] = build.abis[k]

-----------------------------------------------------------------------------
\* Why: from the first compilation of an architecture on, the library in the
\* artifact is that of the sources as they are, and what is stamped is in the
\* artifact or asks for another compilation.

TargetInv ==
  build.pc \notin BuildEnded =>
    /\ build.i \in DOMAIN build.abis
    /\ build.release => \A k \in DOMAIN build.abis : build.abis[k] \in Abis
    /\ build.pc \in {"clean", "keep", "shell"} => build.release

LibraryInv ==
  /\ build.pc \in {"version", "id", "recompile", "keep"} =>
       artifact.library = Library(AbiNow, source)
  /\ build.pc \in {"recompile", "keep"} /\ AbiNow \in Abis =>
       file["build_id"] = Library(AbiNow, source)

\* The assets of the artifact, before and after each stamp.
AssetInv ==
  /\ build.pc = "version" =>
       /\ ~build.changed
       /\ ~undeclared => artifact.assets = file
  /\ build.pc = "id" =>
       /\ file["flutter_version"] = Flutter
       /\ ~undeclared => "flutter_version" \in declared
       /\ ~undeclared => artifact.assets["build_id"] = file["build_id"]
       /\ ~undeclared /\ ~build.changed =>
            artifact.assets["flutter_version"] = Flutter
  /\ build.pc = "recompile" =>
       /\ file["flutter_version"] = Flutter
       /\ ~undeclared =>
            /\ "flutter_version" \in declared
            /\ AbiNow \in Abis => "build_id" \in declared

\* What a release put aside for the architectures it has done.
KeptRight(abi) == kept[abi].id = kept[abi].library /\ kept[abi].library[1] = abi
KeptInv ==
  build.pc \notin BuildEnded /\ build.release =>
    \A k \in DOMAIN build.abis :
      k < build.i \/ build.pc = "shell" => KeptRight(build.abis[k])

BuildStampInv ==
  /\ BuildStampTypeOK /\ TargetInv /\ LibraryInv /\ AssetInv /\ KeptInv
  /\ CompleteBuildSupportsCodePush /\ BundleMapsItsLibraries
=============================================================================
