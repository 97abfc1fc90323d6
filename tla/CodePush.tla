------------------------------ MODULE CodePush ------------------------------
(***************************************************************************)
(* Releases and patches: the commands `koolbase release`, `patch push`,    *)
(* `patch android` and `patch push-ios`, which are sequences of API calls  *)
(* that may each fail or lose their answer, run by several people or CI    *)
(* jobs against one server, and `patch publish` and `patch recall`, which  *)
(* are one call.                                                           *)
(*                                                                         *)
(* A build is identified by the architecture and the version of the source *)
(* it was compiled from: that is what the build_id, a hash of the compiled *)
(* instructions, tells apart.  Channel and platform are single values.     *)
(* The server is external: creating a release twice gives the same release *)
(* (the comment at src/cmd/release.go:308), drafts are numbered in order.  *)
(***************************************************************************)
EXTENDS Naturals, Sequences, Remote

CONSTANTS Jobs,       \* the processes that run commands
          Commands,   \* the command lines each may run, see CommandSet
          MaxStarts   \* bound on the number of commands run

VARIABLES releases,   \* server: sequence of [build, base]
          patches,    \* server: sequence of [release, made, artifact, status]
          aab,        \* the app bundle file of each job
          job,        \* the command each job runs
          starts      \* how many commands were started

cpVars == <<releases, patches, aab, job, starts>>

Engined  == {"arm64", "arm"}                 \* what an engine exists for
Archs    == Engined \cup {"x64", "ios"}
Versions == {1, 2}
Builds   == Archs \X Versions
NoBuild  == <<"none", 0>>
PatchKinds == {"identity", "full", "diff", "bytecode"}

\* cmd: the command; archs: --target-archs, or the one architecture pushed;
\* ver: the source version compiled, or that of the base a patch is made for;
\* login: a project and an API key are known; noRegister, publish: the flags;
\* release: the --release given, 0 without; stored: --binary was left out, so
\* the base stored with the release is used; kind: what the patch ships, asked
\* for with --identity or --diff, the whole new snapshot without, bytecode on
\* iOS.
CommandSet ==
  [cmd: {"release", "push", "android", "ios"}, archs: Seq(Archs),
   ver: Versions, login: BOOLEAN, noRegister: BOOLEAN, publish: BOOLEAN,
   release: Nat, stored: BOOLEAN, kind: PatchKinds]

Lines == UNION {Commands[j] : j \in Jobs}

ASSUME CommandsAssumption ==
  /\ Commands \in [Jobs -> SUBSET CommandSet]
  /\ MaxStarts \in Nat
  /\ Lines # {}
  /\ \A c \in Lines :
       /\ c.stored => c.cmd = "push" /\ c.release > 0
       /\ c.cmd \in {"push", "ios"} => Len(c.archs) = 1
       /\ c.release > 0 => c.cmd \in {"push", "ios"}

\* A patch container: a signed header with the kind and the build_id of the
\* base, bound to its payload by a hash.
IdentityPatch(base)      == [kind |-> "identity", base |-> base, new |-> NoBuild]
ReplacePatch(base, new)  == [kind |-> "full",     base |-> base, new |-> new]
DiffPatch(base, new)     == [kind |-> "diff",     base |-> base, new |-> new]
BytecodePatch(base, new) == [kind |-> "bytecode", base |-> base, new |-> new]
NoPatch == IdentityPatch(NoBuild)

Edited     == 3                     \* the source version the patches ship
Snapshots  == Archs \X {Edited}
Containers == [kind: PatchKinds, base: Builds \cup {NoBuild},
               new: Snapshots \cup {NoBuild}]

Idle == [pc |-> "idle", line |-> CHOOSE c \in Lines : TRUE, i |-> 1,
         release |-> 0, patch |-> 0, made |-> NoPatch, done |-> {}]
Ended == {"idle", "ok", "failed"}
Steps == {"build", "shell", "sign", "register", "base", "abi", "pack", "prepare",
          "match", "create", "draft", "upload", "publish"}

ReleaseRecords == [build: Builds, base: Builds \cup {NoBuild}]
PatchRecords   == [release: Nat \ {0}, made: Containers, artifact: BOOLEAN,
                   status: {"draft", "live", "published", "recalled"}]
JobRecords     == [pc: Ended \cup Steps, line: Lines, i: Nat \ {0},
                   release: Nat, patch: Nat, made: Containers,
                   done: SUBSET (Nat \X Nat)]

CodePushTypeOK ==
  /\ releases \in Seq(ReleaseRecords)
  /\ patches \in Seq(PatchRecords)
  /\ aab \in [Jobs -> {"none", "cut", "lost", "unsigned", "signed"}]
  /\ job \in [Jobs -> JobRecords]
  /\ starts \in 0..MaxStarts

CodePushInit ==
  /\ releases = <<>> /\ patches = <<>> /\ starts = 0
  /\ aab = [j \in Jobs |-> "none"]
  /\ job = [j \in Jobs |-> Idle]

-----------------------------------------------------------------------------
At(j, pc)  == job[j].pc = pc
Line(j)    == job[j].line
ArchOf(j)  == Line(j).archs[job[j].i]
BuildOf(j) == <<ArchOf(j), Line(j).ver>>
LastArch(j) == job[j].i = Len(Line(j).archs)

To(j, pc)  == job' = [job EXCEPT ![j].pc = pc]
\* The next architecture of the loop, at step pc.
NextArch(j, pc) ==
  job' = [job EXCEPT ![j].pc = pc, ![j].i = @ + 1]
\* An error ends the command where it is; nothing is undone.
Fail(j) == To(j, "failed")

-----------------------------------------------------------------------------
\* The calls of the API client, and what each leaves on the server.

Registered(b) == \E r \in DOMAIN releases : releases[r].build = b
\* The first release listed with this build_id.
ReleaseIn(rs, b) == CHOOSE r \in DOMAIN rs : rs[r].build = b
\* Idempotent on the server: a call that is repeated or whose answer is lost
\* does not make a second release of the same build.
WithRelease(o, b) ==
  IF ~CarriedOut(o) \/ Registered(b) THEN releases
  ELSE Append(releases, [build |-> b, base |-> NoBuild])
\* Three calls, for a URL, of the bytes, and to confirm, of which only the
\* last changes the release.
WithBase(o, r, b) ==
  IF CarriedOut(o) THEN [releases EXCEPT ![r].base = b] ELSE releases
\* A new draft each time: a repeated push makes another.
WithDraft(o, r, made) ==
  IF ~CarriedOut(o) THEN patches
  ELSE Append(patches, [release |-> r, made |-> made,
                        artifact |-> FALSE, status |-> "draft"])
WithArtifact(o, p) ==
  IF CarriedOut(o) THEN [patches EXCEPT ![p].artifact = TRUE] ELSE patches
WithStatus(o, p, status) ==
  IF CarriedOut(o) THEN [patches EXCEPT ![p].status = status] ELSE patches
\* The base stored with a release is fetched with a URL; there may be none.
StoredBase(r) == releases[r].base

-----------------------------------------------------------------------------

\* A command line is accepted: the required flags are there.
Start(j, c) ==
  /\ job[j].pc \in Ended /\ starts < MaxStarts
  /\ c.archs # <<>>
  /\ c.release <= Len(releases)
  /\ starts' = starts + 1
  /\ job' = [job EXCEPT ![j] =
       [Idle EXCEPT !.pc = CASE c.cmd = "release" -> "build"
                             [] c.cmd = "android" -> "abi"
                             [] c.cmd = "ios"     -> "pack"
                             [] OTHER             -> "prepare",
                    !.line = c, !.release = c.release]]
  /\ UNCHANGED <<releases, patches, aab>>

-----------------------------------------------------------------------------
\* koolbase release

\* Each architecture is compiled in turn, after `flutter clean`; its build_id
\* and its libraries are kept outside build/.  An error ends the command.
BuildArch(j) ==
  /\ At(j, "build")
  /\ \/ Fail(j)
     \/ IF LastArch(j) THEN To(j, "shell") ELSE NextArch(j, "build")
  /\ UNCHANGED <<releases, patches, aab, starts>>

\* The app bundle is built as a shell, then copied to its place with the
\* libraries and the build_id map put in; a failure on the way leaves the
\* bundle that was being written, over the one of the run before.  The errors
\* of closing the zip, which writes its directory, are dropped: a bundle that
\* is "lost" then is gone on with.
AssembleBundle(j) ==
  /\ At(j, "shell")
  /\ \/ Fail(j) /\ UNCHANGED aab
     \/ Fail(j) /\ aab' = [aab EXCEPT ![j] = "cut"]
     \/ To(j, "sign") /\ \E s \in {"unsigned", "lost"} : aab' = [aab EXCEPT ![j] = s]
  /\ UNCHANGED <<releases, patches, starts>>

\* jarsigner takes a bundle that can be opened, and may then fail to verify it.
\* Without android/key.properties the bundle stays as it is, with a warning.
\* Then, with a project and a key, every build is registered, whatever
\* --no-register says; without, --no-register decides whether that is an error.
SignBundle(j) ==
  /\ At(j, "sign")
  /\ \/ UNCHANGED aab
     \/ aab[j] = "unsigned" /\ aab' = [aab EXCEPT ![j] = "signed"]
  /\ \/ Fail(j)
     \/ IF Line(j).login
        THEN job' = [job EXCEPT ![j].pc = "register", ![j].i = 1]
        ELSE To(j, IF Line(j).noRegister THEN "ok" ELSE "failed")
  /\ UNCHANGED <<releases, patches, starts>>

\* A bug: a build that cannot be registered is skipped, as a base is.
RegisterOrSkip(j, o) ==
  /\ At(j, "register")
  /\ releases' = WithRelease(o, BuildOf(j))
  /\ IF Reported(o)
     THEN job' = [job EXCEPT ![j].pc = "base",
                             ![j].release = ReleaseIn(releases', BuildOf(j))]
     ELSE IF LastArch(j) THEN To(j, "ok") ELSE NextArch(j, "register")
  /\ UNCHANGED <<patches, aab, starts>>

\* One release per architecture: a failure leaves the ones before registered.
RegisterBuild(j, o) ==
  /\ At(j, "register")
  /\ releases' = WithRelease(o, BuildOf(j))
  /\ IF Reported(o)
     THEN job' = [job EXCEPT ![j].pc = "base",
                             ![j].release = ReleaseIn(releases', BuildOf(j))]
     ELSE Fail(j)
  /\ UNCHANGED <<patches, aab, starts>>

\* The base library is stored with the release; a failure to is no error.
StoreBase(j, o) ==
  /\ At(j, "base")
  /\ releases' = WithBase(o, job[j].release, BuildOf(j))
  /\ IF LastArch(j) THEN To(j, "ok") ELSE NextArch(j, "register")
  /\ UNCHANGED <<patches, aab, starts>>

-----------------------------------------------------------------------------
\* patch push, patch android (a push per architecture), patch push-ios

\* patch android: the next architecture there is an engine for is built and
\* its libraries taken out of the base bundle and of the new build; the ones
\* without an engine are skipped, and the end of the list ends the command.
AndroidArch(j) ==
  /\ At(j, "abi")
  /\ IF job[j].i > Len(Line(j).archs) THEN To(j, "ok")
     ELSE IF ArchOf(j) \notin Engined THEN NextArch(j, "abi")
     ELSE Fail(j) \/ To(j, "prepare")
  /\ UNCHANGED <<releases, patches, aab, starts>>

\* The base is analysed, given with --binary or fetched as the base stored
\* with the release; what the patch ships is taken out of the new binary and
\* the container is built, signed and written to a file.
PreparePush(j) ==
  LET base == IF Line(j).stored THEN StoredBase(Line(j).release)
              ELSE BuildOf(j)
      new  == <<ArchOf(j), Edited>>
      made == CASE Line(j).kind = "identity" -> IdentityPatch(base)
                [] Line(j).kind = "diff"     -> DiffPatch(base, new)
                [] OTHER                     -> ReplacePatch(base, new)
  IN /\ At(j, "prepare") /\ Line(j).cmd # "ios"
     /\ \/ Fail(j)
        \/ /\ base # NoBuild
           /\ job' = [job EXCEPT ![j].made = made, ![j].pc =
                        IF Line(j).release # 0 THEN "draft" ELSE "match"]
     /\ UNCHANGED <<releases, patches, aab, starts>>

\* patch ios: bytecode that the device could not load is refused; the rest is
\* packed into a file, which may be the container, signed for the base binary,
\* or not yet.
PackIos(j) ==
  /\ At(j, "pack")
  /\ \/ Fail(j)
     \/ To(j, "prepare")
     \/ job' = [job EXCEPT ![j].pc = "prepare", ![j].made =
                  BytecodePatch(BuildOf(j), <<ArchOf(j), Edited>>)]
  /\ UNCHANGED <<releases, patches, aab, starts>>

\* patch push-ios: a container is taken as it is, with the build_id that the
\* user types and that is taken to be right; a file that is none yet is signed
\* here for the base binary, whose build_id is the one used.
PrepareIos(j) ==
  /\ At(j, "prepare") /\ Line(j).cmd = "ios"
  /\ \/ Fail(j)
     \/ job' = [job EXCEPT
          ![j].made = IF @ # NoPatch THEN @
                      ELSE BytecodePatch(BuildOf(j), <<ArchOf(j), Edited>>),
          ![j].pc = IF Line(j).release # 0 THEN "draft" ELSE "create"]
  /\ UNCHANGED <<releases, patches, aab, starts>>

\* A bug: the first release of the channel is taken, whatever its build_id.
MatchAnyRelease(j, o) ==
  /\ At(j, "match")
  /\ IF ~Reported(o) THEN Fail(j)
     ELSE IF releases # <<>>
     THEN job' = [job EXCEPT ![j].pc = "draft", ![j].release = 1]
     ELSE To(j, "create")
  /\ UNCHANGED <<releases, patches, aab, starts>>

\* The first release listed with the build_id of the base, or a new one.
MatchRelease(j, o) ==
  /\ At(j, "match")
  /\ IF ~Reported(o) THEN Fail(j)
     ELSE IF Registered(job[j].made.base)
     THEN job' = [job EXCEPT ![j].pc = "draft",
                    ![j].release = ReleaseIn(releases, job[j].made.base)]
     ELSE To(j, "create")
  /\ UNCHANGED <<releases, patches, aab, starts>>

CreateRelease(j, o) ==
  /\ At(j, "create")
  /\ releases' = WithRelease(o, job[j].made.base)
  /\ IF Reported(o)
     THEN job' = [job EXCEPT ![j].pc = "draft",
                    ![j].release = ReleaseIn(releases', job[j].made.base)]
     ELSE Fail(j)
  /\ UNCHANGED <<patches, aab, starts>>

DraftPatch(j, o) ==
  /\ At(j, "draft")
  /\ patches' = WithDraft(o, job[j].release, job[j].made)
  /\ IF Reported(o)
     THEN job' = [job EXCEPT ![j].pc = "upload", ![j].patch = Len(patches')]
     ELSE Fail(j)
  /\ UNCHANGED <<releases, aab, starts>>

\* The architecture is done: its patch joins the ones of this run.
PatchDone(j) ==
  job' = [job EXCEPT ![j].pc = IF Line(j).cmd = "android" THEN "abi" ELSE "ok",
                     ![j].i = @ + 1, ![j].release = 0,
                     ![j].patch = 0, ![j].made = NoPatch,
                     ![j].done = @ \cup {<<job[j].i, job[j].patch>>}]

UploadPatch(j, o) ==
  /\ At(j, "upload")
  /\ patches' = WithArtifact(o, job[j].patch)
  /\ IF ~Reported(o) THEN Fail(j)
     ELSE IF Line(j).publish THEN To(j, "publish") ELSE PatchDone(j)
  /\ UNCHANGED <<releases, aab, starts>>

\* A bug: `patch android` goes on to the next architecture after a failure.
PublishOrSkip(j, o) ==
  /\ At(j, "publish")
  /\ patches' = WithStatus(o, job[j].patch, "live")
  /\ PatchDone(j)
  /\ UNCHANGED <<releases, aab, starts>>

PublishPatch(j, o) ==
  /\ At(j, "publish")
  /\ patches' = WithStatus(o, job[j].patch, "live")
  /\ IF Reported(o) THEN PatchDone(j) ELSE Fail(j)
  /\ UNCHANGED <<releases, aab, starts>>

-----------------------------------------------------------------------------
\* patch publish and patch recall: one call on a patch named by the user,
\* who may take any listed one.  "live" is a patch its own push published,
\* "published" one published by this command.
UserCall(p, from, to) ==
  /\ patches[p].status \in from
  /\ \E o \in Outcomes : patches' = WithStatus(o, p, to)
  /\ UNCHANGED <<releases, aab, job, starts>>

CommandStep(j) ==
  \/ BuildArch(j) \/ AssembleBundle(j) \/ SignBundle(j)
  \/ AndroidArch(j) \/ PreparePush(j) \/ PackIos(j) \/ PrepareIos(j)
  \/ \E o \in Outcomes :
       \/ RegisterBuild(j, o) \/ StoreBase(j, o) \/ MatchRelease(j, o)
       \/ CreateRelease(j, o) \/ DraftPatch(j, o) \/ UploadPatch(j, o)
       \/ PublishPatch(j, o)

CodePushNext ==
  \/ \E j \in Jobs : (\E c \in Commands[j] : Start(j, c)) \/ CommandStep(j)
  \/ \E p \in DOMAIN patches :
       \/ UserCall(p, {"draft"}, "published")
       \/ UserCall(p, {"live", "published"}, "recalled")

CodePushFairness == \A j \in Jobs : WF_cpVars(CommandStep(j))
CodePushSpec == CodePushInit /\ [][CodePushNext]_cpVars /\ CodePushFairness

-----------------------------------------------------------------------------
\* A `release` that ends well leaves no bundle it saw fail, its own or one of a
\* run before, and every build in it is registered, unless the user asked for
\* an unregistered one without a login (the error at release.go:317 calls such a
\* bundle unpatchable).  That the bundle could be closed is not promised: the
\* code does not look (release.go:471-473).
ShippedIsPatchable ==
  \A j \in Jobs :
    At(j, "ok") /\ Line(j).cmd = "release" =>
      /\ aab[j] \in {"signed", "unsigned", "lost"}
      /\ \/ ~Line(j).login /\ Line(j).noRegister
         \/ \A k \in DOMAIN Line(j).archs :
              Registered(<<Line(j).archs[k], Line(j).ver>>)

\* A patch is drafted on the release of the very build it was made from: the
\* release matched, created or registered by any of the commands, or the one
\* whose stored base was fetched.  Only a user who names both a release and a
\* binary, or types a build_id, can pair them wrongly.  What a push made live was uploaded before.
PatchesAreSound ==
  /\ \A j \in Jobs : \A p \in DOMAIN patches :
       (/\ p = job[j].patch \/ \E d \in job[j].done : d[2] = p
        /\ Line(j).release = 0 \/ Line(j).stored)
       => patches[p].made.base = releases[patches[p].release].build
  /\ \A p \in DOMAIN patches : patches[p].status = "live" => patches[p].artifact

\* The pushes of `patch android` (patchandroid.go:151) are one after the other
\* and stop at the first failure: the architectures before the current one
\* that have an engine are exactly those with a patch of this run, uploaded
\* and, if asked, published; when the run ends well that is all of them.
PatchedInOrder ==
  \A j \in Jobs :
    Line(j).cmd # "release" =>
      /\ {d[1] : d \in job[j].done} =
           {k \in DOMAIN Line(j).archs :
              /\ k < job[j].i
              /\ Line(j).cmd = "android" => Line(j).archs[k] \in Engined}
      /\ \A d \in job[j].done :
           LET p == patches[d[2]] IN
           /\ p.artifact
           /\ Line(j).stored \/ p.made.base = <<Line(j).archs[d[1]], Line(j).ver>>
           /\ Line(j).publish => p.status # "draft"
      /\ At(j, "ok") => job[j].i > Len(Line(j).archs)
-----------------------------------------------------------------------------
\* The inductive invariant: what is known of a command at each of its steps,
\* while others run, and of what it leaves when it ends.

StepsOf(cmd) ==
  CASE cmd = "release" -> {"build", "shell", "sign", "register", "base"}
    [] cmd = "android" -> {"abi", "prepare", "match", "create", "draft",
                           "upload", "publish"}
    [] cmd = "push"    -> {"prepare", "match", "create", "draft", "upload",
                           "publish"}
    [] cmd = "ios"     -> {"pack", "prepare", "create", "draft", "upload",
                           "publish"}

\* A command is at a step of its own, about one of its architectures, and the
\* release given on its line exists.
ControlInv(j) ==
  /\ job[j].pc \in Ended \cup StepsOf(Line(j).cmd)
  /\ job[j].pc \notin Ended =>
       /\ Line(j).release <= Len(releases)
       /\ job[j].i <= Len(Line(j).archs) + IF At(j, "abi") THEN 1 ELSE 0
       /\ Line(j).cmd = "android" /\ ~At(j, "abi") => ArchOf(j) \in Engined

BuildsRegistered(j, K) ==
  \A k \in K : Registered(<<Line(j).archs[k], Line(j).ver>>)

\* The builds are registered one after the other, once the bundle is written.
ReleaseInv(j) ==
  Line(j).cmd = "release" =>
    /\ At(j, "ok") =>
         \/ ~Line(j).login /\ Line(j).noRegister
         \/ BuildsRegistered(j, DOMAIN Line(j).archs)
    /\ job[j].pc \in {"ok", "sign", "register", "base"} =>
         aab[j] \in {"signed", "unsigned", "lost"}
    /\ job[j].pc \in {"register", "base"} =>
         BuildsRegistered(j, 1..(job[j].i - 1))
    /\ At(j, "base") =>
         /\ job[j].release \in DOMAIN releases
         /\ releases[job[j].release].build = BuildOf(j)

\* Did the command find the release and the base itself?
Pairs(j) == Line(j).release = 0 \/ Line(j).stored

\* Patch p was drafted by the command for architecture k.
DraftedFor(j, k, p) ==
  /\ p \in DOMAIN patches
  /\ patches[p].release \in DOMAIN releases
  /\ Pairs(j) => patches[p].made.base = releases[patches[p].release].build
  /\ Line(j).stored \/ patches[p].made.base = <<Line(j).archs[k], Line(j).ver>>

\* From its preparation on, a patch is for the base of this architecture, and
\* is drafted on the release of that base.
PushInv(j) ==
  Line(j).cmd # "release" =>
    /\ job[j].pc \in {"pack", "prepare"} /\ Line(j).release > 0 =>
         job[j].release = Line(j).release
    /\ /\ job[j].pc \in {"pack", "prepare"} /\ Line(j).cmd = "ios"
       /\ job[j].made # NoPatch
       => job[j].made.base = BuildOf(j)
    /\ job[j].pc \in {"match", "create"} =>
         Line(j).release = 0 /\ job[j].made.base = BuildOf(j)
    /\ At(j, "draft") =>
         /\ job[j].release \in DOMAIN releases
         /\ Pairs(j) => job[j].made.base = releases[job[j].release].build
         /\ Line(j).stored \/ job[j].made.base = BuildOf(j)
    /\ At(j, "abi") => job[j].patch = 0
    /\ job[j].pc \in {"upload", "publish"} => job[j].patch # 0
    /\ At(j, "publish") => patches[job[j].patch].artifact
    /\ At(j, "ok") => job[j].i > Len(Line(j).archs)

\* The patches of the run so far.
DoneInv(j) ==
  /\ job[j].patch # 0 =>
       Line(j).cmd # "release" /\ DraftedFor(j, job[j].i, job[j].patch)
  /\ \A d \in job[j].done :
       /\ DraftedFor(j, d[1], d[2])
       /\ patches[d[2]].artifact
       /\ Line(j).publish => patches[d[2]].status # "draft"
  /\ Line(j).cmd # "release" =>
       {d[1] : d \in job[j].done} =
         {k \in DOMAIN Line(j).archs :
            /\ k < job[j].i
            /\ Line(j).cmd = "android" => Line(j).archs[k] \in Engined}

\* The base stored with a release is the one of its build; a live patch was
\* uploaded.
ServerInv ==
  /\ \A r \in DOMAIN releases :
       releases[r].base \in {NoBuild, releases[r].build}
  /\ \A p \in DOMAIN patches :
       patches[p].status = "live" => patches[p].artifact

JobInv(j) == ControlInv(j) /\ ReleaseInv(j) /\ PushInv(j) /\ DoneInv(j)

CodePushInv == CodePushTypeOK /\ ServerInv /\ \A j \in Jobs : JobInv(j)
=============================================================================
