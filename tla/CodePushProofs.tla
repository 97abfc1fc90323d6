--------------------------- MODULE CodePushProofs ---------------------------
(***************************************************************************)
(* Proofs about CodePush, for any number of commands on any command lines: *)
(* what each step of a command knows of the server's releases and patches  *)
(* is inductive, and with it every patch that is published was built       *)
(* against its release and every release that is shipped can be patched.   *)
(* And about KbDiff, the difference a patch is made of, for any two blobs: *)
(* the streams rebuild the new one.                                        *)
(***************************************************************************)
EXTENDS CodePush, KbDiff, FiniteSetTheorems, WellFoundedInduction, TLAPS

(* Releases and patches                                                      *)

(* What the types say of the job of a command.                               *)
LEMMA JobFacts ==
  ASSUME CodePushTypeOK, NEW j \in Jobs
  PROVE  /\ job[j] \in JobRecords
         /\ Line(j) \in Lines /\ Line(j) \in CommandSet
         /\ job[j].i \in Nat \ {0} /\ Len(Line(j).archs) \in Nat
         /\ DOMAIN Line(j).archs = 1..Len(Line(j).archs)
         /\ Line(j).archs \in Seq(Archs)
         /\ Line(j).stored => Line(j).cmd = "push" /\ Line(j).release > 0
         /\ Line(j).cmd \in {"push", "ios"} => Len(Line(j).archs) = 1
         /\ Line(j).release > 0 => Line(j).cmd \in {"push", "ios"}
         /\ Line(j).release \in Nat
  <1>1. job[j] \in JobRecords /\ Line(j) \in Lines
    BY DEF CodePushTypeOK, JobRecords, Line
  <1>2. Line(j) \in CommandSet
    BY <1>1, CommandsAssumption DEF Lines
  <1>3. Line(j).archs \in Seq(Archs) /\ Line(j).release \in Nat
    BY <1>2 DEF CommandSet
  <1> QED BY <1>1, <1>2, <1>3, CommandsAssumption DEF JobRecords

(* The build of the current architecture.                                    *)
LEMMA BuildFacts ==
  ASSUME CodePushTypeOK, NEW j \in Jobs, job[j].i <= Len(Line(j).archs)
  PROVE  /\ job[j].i \in DOMAIN Line(j).archs
         /\ ArchOf(j) \in Archs /\ BuildOf(j) \in Builds /\ BuildOf(j) # NoBuild
  <1>1. job[j].i \in DOMAIN Line(j).archs /\ ArchOf(j) \in Archs
    BY JobFacts DEF ArchOf
  <1>2. Line(j).ver \in Versions
    BY JobFacts DEF CommandSet
  <1>3. BuildOf(j) \in Builds
    BY <1>1, <1>2 DEF BuildOf, Builds
  <1>4. BuildOf(j)[2] # 0
    BY <1>2 DEF BuildOf, Versions
  <1> QED BY <1>1, <1>3, <1>4 DEF NoBuild

-----------------------------------------------------------------------------
(* What every step leaves of what is on the server: releases keep their      *)
(* build, patches their release and container, an upload and a publication   *)
(* are not undone.                                                           *)
Grows ==
  /\ DOMAIN releases \subseteq DOMAIN releases'
  /\ Len(releases) <= Len(releases')
  /\ \A r \in DOMAIN releases : releases'[r].build = releases[r].build
  /\ DOMAIN patches \subseteq DOMAIN patches'
  /\ \A p \in DOMAIN patches :
       /\ patches'[p].release = patches[p].release
       /\ patches'[p].made = patches[p].made
       /\ patches[p].artifact => patches'[p].artifact
       /\ patches[p].status # "draft" => patches'[p].status # "draft"

LEMMA StillRegistered ==
  ASSUME Grows, NEW b, Registered(b)
  PROVE  Registered(b)'
  BY DEF Grows, Registered

LEMMA StillDrafted ==
  ASSUME Grows, NEW j, NEW k, NEW p, DraftedFor(j, k, p), job'[j].line = job[j].line
  PROVE  DraftedFor(j, k, p)'
  BY DEF Grows, DraftedFor, Pairs, Line

(* The patches of a run stay what they were for it.                          *)
LEMMA DonePatches ==
  ASSUME NEW j \in Jobs, DoneInv(j), Grows, job'[j].line = job[j].line
  PROVE  \A d \in job[j].done :
           /\ DraftedFor(j, d[1], d[2])'
           /\ patches'[d[2]].artifact
           /\ Line(j)'.publish => patches'[d[2]].status # "draft"
  <1>1. Line(j)' = Line(j)
    BY DEF Line
  <1> SUFFICES ASSUME NEW d \in job[j].done
               PROVE  /\ DraftedFor(j, d[1], d[2])'
                      /\ patches'[d[2]].artifact
                      /\ Line(j)'.publish => patches'[d[2]].status # "draft"
    OBVIOUS
  <1>2. /\ DraftedFor(j, d[1], d[2]) /\ patches[d[2]].artifact
        /\ Line(j).publish => patches[d[2]].status # "draft"
    BY DEF DoneInv
  <1>3. d[2] \in DOMAIN patches
    BY <1>2 DEF DraftedFor
  <1>4. DraftedFor(j, d[1], d[2])'
    BY <1>2, StillDrafted
  <1> QED BY <1>1, <1>2, <1>3, <1>4 DEF Grows

LEMMA DoneKeeps ==
  ASSUME NEW j \in Jobs, DoneInv(j), Grows,
         job'[j].line = job[j].line,
         job'[j].i = job[j].i \/ Line(j).cmd = "release",
         job'[j].patch = job[j].patch, job'[j].done = job[j].done
  PROVE  DoneInv(j)'
  <1>1. Line(j)' = Line(j)
    BY DEF Line
  <1>2. job'[j].patch # 0 =>
          Line(j)'.cmd # "release" /\ DraftedFor(j, job[j].i, job[j].patch)'
    <2>1. job[j].patch # 0 =>
            Line(j).cmd # "release" /\ DraftedFor(j, job[j].i, job[j].patch)
      BY DEF DoneInv
    <2> QED BY <1>1, <2>1, StillDrafted
  <1>3. \A d \in job[j].done :
          /\ DraftedFor(j, d[1], d[2])'
          /\ patches'[d[2]].artifact
          /\ Line(j)'.publish => patches'[d[2]].status # "draft"
    BY DonePatches
  <1> QED BY <1>1, <1>2, <1>3 DEF DoneInv

(* A step of one job disturbs nothing that is known of another.              *)
LEMMA OthersKeep ==
  ASSUME CodePushTypeOK, CodePushTypeOK', NEW j \in Jobs, JobInv(j), Grows,
         job'[j] = job[j], aab'[j] = aab[j]
  PROVE  JobInv(j)'
  <1>1. Line(j)' = Line(j) /\ BuildOf(j)' = BuildOf(j) /\ ArchOf(j)' = ArchOf(j)
    BY DEF Line, BuildOf, ArchOf
  <1>2. ControlInv(j)'
    <2>1. ControlInv(j)
      BY DEF JobInv
    <2>2. Len(releases) \in Nat /\ Len(releases') \in Nat /\ Len(releases) <= Len(releases')
      BY DEF CodePushTypeOK, Grows
    <2>3. Line(j).release \in Nat
      BY JobFacts
    <2>4. Line(j).release <= Len(releases) => Line(j).release <= Len(releases')
      BY <2>2, <2>3
    <2> QED BY <1>1, <2>1, <2>4 DEF ControlInv, At
  <1>3. ReleaseInv(j)'
    <2>1. ReleaseInv(j)
      BY DEF JobInv
    <2>2. ASSUME NEW K, BuildsRegistered(j, K) PROVE BuildsRegistered(j, K)'
      BY <1>1, <2>2, StillRegistered DEF BuildsRegistered
    <2>3. At(j, "base") /\ Line(j).cmd = "release" =>
            /\ job'[j].release \in DOMAIN releases'
            /\ releases'[job'[j].release].build = BuildOf(j)'
      BY <1>1, <2>1 DEF ReleaseInv, Grows
    <2> QED BY <1>1, <2>1, <2>2, <2>3 DEF ReleaseInv, At
  <1>4. PushInv(j)'
    <2>1. PushInv(j) /\ DoneInv(j)
      BY DEF JobInv
    <2>2. At(j, "publish") /\ Line(j).cmd # "release" => patches'[job'[j].patch].artifact
      <3>1. SUFFICES ASSUME At(j, "publish"), Line(j).cmd # "release"
                    PROVE patches'[job'[j].patch].artifact
        OBVIOUS
      <3>2. job[j].patch # 0 /\ patches[job[j].patch].artifact
        BY <2>1, <3>1 DEF PushInv, At
      <3>3. job[j].patch \in DOMAIN patches
        BY <2>1, <3>2 DEF DoneInv, DraftedFor
      <3> QED BY <3>2, <3>3 DEF Grows
    <2>3. At(j, "draft") /\ Line(j).cmd # "release" =>
            /\ job'[j].release \in DOMAIN releases'
            /\ Pairs(j)' => job'[j].made.base = releases'[job'[j].release].build
      BY <1>1, <2>1 DEF PushInv, Grows, Pairs
    <2> QED BY <1>1, <2>1, <2>2, <2>3 DEF PushInv, At
  <1>5. DoneInv(j)'
    BY DoneKeeps DEF JobInv
  <1> QED BY <1>2, <1>3, <1>4, <1>5 DEF JobInv

-----------------------------------------------------------------------------
(* What each call of a command leaves on the server.                         *)

LEMMA NoCallSent ==
  ASSUME ServerInv, UNCHANGED <<releases, patches>>
  PROVE  Grows /\ ServerInv'
  <1>1. \A p \in DOMAIN patches : patches'[p] = patches[p]
    OBVIOUS
  <1>2. Grows
    BY <1>1, SMT DEF Grows
  <1> QED BY <1>2 DEF ServerInv

LEMMA RegisterCall ==
  ASSUME CodePushTypeOK, ServerInv, NEW b \in Builds, NEW o \in Outcomes,
         releases' = WithRelease(o, b), patches' = patches
  PROVE  /\ releases' \in Seq(ReleaseRecords) /\ Grows /\ ServerInv'
         /\ Reported(o) =>
              /\ Registered(b)'
              /\ ReleaseIn(releases', b) \in DOMAIN releases'
              /\ releases'[ReleaseIn(releases', b)].build = b
  <1>1. CASE releases' = releases
    <2>1. Reported(o) => Registered(b)
      <3>1. SUFFICES ASSUME Reported(o), ~Registered(b) PROVE FALSE
        OBVIOUS
      <3>2. releases' = Append(releases, [build |-> b, base |-> NoBuild])
        BY <3>1 DEF WithRelease, Reported, CarriedOut
      <3> QED BY <1>1, <3>2 DEF CodePushTypeOK
    <2>2. Registered(b) => /\ ReleaseIn(releases, b) \in DOMAIN releases
                          /\ releases[ReleaseIn(releases, b)].build = b
      BY DEF Registered, ReleaseIn
    <2> QED BY <1>1, <2>1, <2>2, NoCallSent DEF CodePushTypeOK, Registered
  <1>2. CASE releases' # releases
    <2> DEFINE x == [build |-> b, base |-> NoBuild]
    <2>1. releases' = Append(releases, x)
      BY <1>2 DEF WithRelease
    <2>2. x \in ReleaseRecords /\ x.build = b /\ x.base = NoBuild
      BY DEF ReleaseRecords
    <2> HIDE DEF x
    <2>3. /\ releases \in Seq(ReleaseRecords)
          /\ releases' \in Seq(ReleaseRecords)
          /\ Len(releases') = Len(releases) + 1
          /\ Len(releases) + 1 \in DOMAIN releases'
          /\ DOMAIN releases \subseteq DOMAIN releases'
          /\ \A r \in DOMAIN releases : releases'[r] = releases[r]
          /\ releases'[Len(releases) + 1] = x
          /\ \A r \in DOMAIN releases' :
               r \in DOMAIN releases \/ r = Len(releases) + 1
      BY <2>1, <2>2 DEF CodePushTypeOK
    <2>4. Grows
      BY <2>3 DEF Grows
    <2>5. ServerInv'
      BY <2>2, <2>3 DEF ServerInv
    <2>6. Registered(b)'
      BY <2>2, <2>3 DEF Registered
    <2>7. /\ ReleaseIn(releases', b) \in DOMAIN releases'
          /\ releases'[ReleaseIn(releases', b)].build = b
      BY <2>6 DEF Registered, ReleaseIn
    <2> QED BY <2>3, <2>4, <2>5, <2>6, <2>7
  <1> QED BY <1>1, <1>2

LEMMA BaseCall ==
  ASSUME CodePushTypeOK, ServerInv, NEW r \in DOMAIN releases,
         NEW o \in Outcomes,
         releases' = WithBase(o, r, releases[r].build), patches' = patches
  PROVE  releases' \in Seq(ReleaseRecords) /\ Grows /\ ServerInv'
  <1>1. CASE releases' = releases
    BY <1>1, NoCallSent DEF CodePushTypeOK
  <1>2. CASE releases' = [releases EXCEPT ![r].base = releases[r].build]
    <2> DEFINE x == [releases[r] EXCEPT !.base = releases[r].build]
    <2>1. releases \in Seq(ReleaseRecords) /\ releases[r] \in ReleaseRecords
      BY DEF CodePushTypeOK
    <2>2. /\ x \in ReleaseRecords /\ x.build = releases[r].build
          /\ x.base = releases[r].build
      BY <2>1 DEF ReleaseRecords
    <2>3. releases' = [releases EXCEPT ![r] = x]
      BY <1>2
    <2> HIDE DEF x
    <2>4. /\ releases' \in Seq(ReleaseRecords)
          /\ DOMAIN releases' = DOMAIN releases
          /\ Len(releases') = Len(releases)
          /\ releases'[r] = x
          /\ \A q \in DOMAIN releases : q # r => releases'[q] = releases[q]
      BY <2>1, <2>2, <2>3
    <2>5. Len(releases) \in Nat
      BY <2>1
    <2>6. Grows
      BY <2>2, <2>4, <2>5 DEF Grows
    <2>7. ServerInv'
      BY <2>2, <2>4 DEF ServerInv
    <2> QED BY <2>4, <2>6, <2>7
  <1> QED BY <1>1, <1>2 DEF WithBase

LEMMA DraftCall ==
  ASSUME CodePushTypeOK, ServerInv, NEW r \in Nat \ {0},
         NEW made \in Containers, NEW o \in Outcomes,
         patches' = WithDraft(o, r, made), releases' = releases
  PROVE  /\ patches' \in Seq(PatchRecords) /\ Grows /\ ServerInv'
         /\ Reported(o) =>
              /\ Len(patches') \in DOMAIN patches' /\ Len(patches') \in Nat \ {0}
              /\ patches'[Len(patches')].release = r
              /\ patches'[Len(patches')].made = made
  <1>1. CASE o = "refused"
    BY <1>1, NoCallSent DEF CodePushTypeOK, WithDraft, CarriedOut, Reported
  <1>2. CASE o # "refused"
    <2> DEFINE x == [release |-> r, made |-> made,
                     artifact |-> FALSE, status |-> "draft"]
    <2>1. patches' = Append(patches, x)
      BY <1>2 DEF WithDraft, CarriedOut
    <2>2. /\ x \in PatchRecords /\ x.status = "draft"
          /\ x.release = r /\ x.made = made
      BY DEF PatchRecords
    <2> HIDE DEF x
    <2>3. /\ patches' \in Seq(PatchRecords)
          /\ Len(patches') = Len(patches) + 1 /\ Len(patches) \in Nat
          /\ Len(patches) + 1 \in DOMAIN patches'
          /\ DOMAIN patches \subseteq DOMAIN patches'
          /\ \A p \in DOMAIN patches : patches'[p] = patches[p]
          /\ patches'[Len(patches) + 1] = x
          /\ \A p \in DOMAIN patches' :
               p \in DOMAIN patches \/ p = Len(patches) + 1
      BY <2>1, <2>2 DEF CodePushTypeOK
    <2>4. Len(releases) \in Nat
      BY DEF CodePushTypeOK
    <2>5. Grows
      BY <2>3, <2>4 DEF Grows
    <2>6. ServerInv'
      BY <2>2, <2>3 DEF ServerInv
    <2> QED BY <2>2, <2>3, <2>5, <2>6
  <1> QED BY <1>1, <1>2

(* A patch is uploaded, published or recalled.                               *)
LEMMA PatchCall ==
  ASSUME CodePushTypeOK, ServerInv, NEW p \in DOMAIN patches, NEW x \in PatchRecords,
         patches' = [patches EXCEPT ![p] = x], releases' = releases,
         x.release = patches[p].release, x.made = patches[p].made,
         patches[p].artifact => x.artifact,
         patches[p].status # "draft" => x.status # "draft",
         x.status = "live" => x.artifact
  PROVE  /\ patches' \in Seq(PatchRecords) /\ Grows /\ ServerInv'
         /\ patches'[p] = x
  <1>1. /\ patches' \in Seq(PatchRecords)
        /\ DOMAIN patches' = DOMAIN patches
        /\ patches'[p] = x
        /\ \A q \in DOMAIN patches : q # p => patches'[q] = patches[q]
        /\ Len(releases) \in Nat
    BY DEF CodePushTypeOK
  <1>2. Grows
    BY <1>1 DEF Grows
  <1>3. ServerInv'
    BY <1>1 DEF ServerInv
  <1> QED BY <1>1, <1>2, <1>3

LEMMA UploadCall ==
  ASSUME CodePushTypeOK, ServerInv, NEW p \in DOMAIN patches, NEW o \in Outcomes,
         patches' = WithArtifact(o, p), releases' = releases
  PROVE  /\ patches' \in Seq(PatchRecords) /\ Grows /\ ServerInv'
         /\ Reported(o) => patches'[p].artifact
  <1>1. CASE o = "refused"
    BY <1>1, NoCallSent DEF CodePushTypeOK, WithArtifact, CarriedOut, Reported
  <1>2. CASE o # "refused"
    <2> DEFINE x == [patches[p] EXCEPT !.artifact = TRUE]
    <2>1. patches \in Seq(PatchRecords) /\ patches[p] \in PatchRecords
      BY DEF CodePushTypeOK
    <2>2. /\ x \in PatchRecords /\ x.release = patches[p].release
          /\ x.made = patches[p].made /\ x.artifact = TRUE
          /\ x.status = patches[p].status
      BY <2>1 DEF PatchRecords
    <2>3. patches' = [patches EXCEPT ![p] = x]
      BY <1>2 DEF WithArtifact, CarriedOut
    <2> HIDE DEF x
    <2> QED BY <2>2, <2>3, PatchCall
  <1> QED BY <1>1, <1>2

LEMMA StatusCall ==
  ASSUME CodePushTypeOK, ServerInv, NEW p \in DOMAIN patches, NEW o \in Outcomes,
         NEW status \in {"live", "published", "recalled"},
         status = "live" => patches[p].artifact,
         patches' = WithStatus(o, p, status), releases' = releases
  PROVE  /\ patches' \in Seq(PatchRecords) /\ Grows /\ ServerInv'
         /\ Reported(o) => patches'[p].status # "draft"
  <1>1. CASE o = "refused"
    BY <1>1, NoCallSent DEF CodePushTypeOK, WithStatus, CarriedOut, Reported
  <1>2. CASE o # "refused"
    <2> DEFINE x == [patches[p] EXCEPT !.status = status]
    <2>1. patches \in Seq(PatchRecords) /\ patches[p] \in PatchRecords
      BY DEF CodePushTypeOK
    <2>2. /\ x \in PatchRecords /\ x.release = patches[p].release
          /\ x.made = patches[p].made /\ x.artifact = patches[p].artifact
          /\ x.status = status
      BY <2>1 DEF PatchRecords
    <2>3. patches' = [patches EXCEPT ![p] = x]
      BY <1>2 DEF WithStatus, CarriedOut
    <2> HIDE DEF x
    <2> QED BY <2>2, <2>3, PatchCall
  <1> QED BY <1>1, <1>2

-----------------------------------------------------------------------------
(* A step of a command is its own: it is enough to look at its job.          *)
Moves(j) ==
  /\ job' \in [Jobs -> JobRecords]
  /\ \A e \in Jobs : e # j => job'[e] = job[e]
  /\ job'[j].line = job[j].line
  /\ starts' = starts

LEMMA OwnJobStep ==
  ASSUME CodePushInv, NEW j \in Jobs, Moves(j), Grows, ServerInv',
         releases' \in Seq(ReleaseRecords), patches' \in Seq(PatchRecords),
         aab' \in [Jobs -> {"none", "cut", "lost", "unsigned", "signed"}],
         \A e \in Jobs : e # j => aab'[e] = aab[e],
         JobInv(j)'
  PROVE  CodePushInv'
  <1>1. CodePushTypeOK'
    BY DEF CodePushInv, CodePushTypeOK, Moves
  <1>2. ASSUME NEW e \in Jobs, e # j PROVE JobInv(e)'
    BY <1>1, <1>2, OthersKeep DEF CodePushInv, Moves
  <1> QED BY <1>1, <1>2 DEF CodePushInv

LEMMA GoesTo ==
  ASSUME CodePushTypeOK, NEW j \in Jobs, NEW pc \in Ended \cup Steps, To(j, pc),
         starts' = starts
  PROVE  /\ Moves(j) /\ job'[j].pc = pc /\ job'[j].line = job[j].line
         /\ job'[j].i = job[j].i /\ job'[j].release = job[j].release
         /\ job'[j].patch = job[j].patch /\ job'[j].made = job[j].made
         /\ job'[j].done = job[j].done
  BY DEF To, CodePushTypeOK, JobRecords, Moves

LEMMA GoesToNext ==
  ASSUME CodePushTypeOK, NEW j \in Jobs, NEW pc \in Ended \cup Steps, NextArch(j, pc),
         starts' = starts
  PROVE  /\ Moves(j) /\ job'[j].pc = pc /\ job'[j].line = job[j].line
         /\ job'[j].i = job[j].i + 1 /\ job'[j].release = job[j].release
         /\ job'[j].patch = job[j].patch /\ job'[j].made = job[j].made
         /\ job'[j].done = job[j].done
  <1> DEFINE x == [job[j] EXCEPT !.pc = pc, !.i = @ + 1]
  <1>1. job \in [Jobs -> JobRecords] /\ job[j] \in JobRecords
    BY DEF CodePushTypeOK
  <1>2. job[j].i + 1 \in Nat \ {0}
    BY <1>1 DEF JobRecords
  <1>3. /\ x \in JobRecords /\ x.pc = pc /\ x.i = job[j].i + 1
        /\ x.line = job[j].line /\ x.release = job[j].release
        /\ x.patch = job[j].patch /\ x.made = job[j].made
        /\ x.done = job[j].done
    BY <1>1, <1>2 DEF JobRecords
  <1>4. job' = [job EXCEPT ![j] = x]
    BY DEF NextArch
  <1> HIDE DEF x
  <1> QED BY <1>1, <1>3, <1>4 DEF Moves

(* An error ends the command; what it has done so far stays.                 *)
LEMMA FailKeeps ==
  ASSUME CodePushInv, NEW j \in Jobs, Fail(j), starts' = starts, Grows, ServerInv',
         releases' \in Seq(ReleaseRecords), patches' \in Seq(PatchRecords),
         aab' \in [Jobs -> {"none", "cut", "lost", "unsigned", "signed"}],
         \A e \in Jobs : e # j => aab'[e] = aab[e]
  PROVE  CodePushInv'
  <1>1. CodePushTypeOK /\ JobInv(j) /\ ServerInv
    BY DEF CodePushInv
  <1>2. /\ Moves(j) /\ job'[j].pc = "failed"
        /\ job'[j].i = job[j].i /\ job'[j].line = job[j].line
        /\ job'[j].patch = job[j].patch /\ job'[j].done = job[j].done
    BY <1>1 DEF Fail, To, CodePushTypeOK, JobRecords, Moves, Ended
  <1>3. Line(j)' = Line(j)
    BY <1>2 DEF Line
  <1>4. ControlInv(j)' /\ ReleaseInv(j)' /\ PushInv(j)'
    BY <1>2 DEF ControlInv, ReleaseInv, PushInv, At, Ended
  <1>5. DoneInv(j)'
    BY <1>1, <1>2, DoneKeeps DEF JobInv
  <1> QED BY <1>2, <1>4, <1>5, OwnJobStep DEF JobInv

LEMMA JobAgain ==
  ASSUME CodePushInv, NEW j \in Jobs
  PROVE  /\ CodePushTypeOK /\ ServerInv /\ JobInv(j)
         /\ ControlInv(j) /\ ReleaseInv(j) /\ PushInv(j) /\ DoneInv(j)
  BY DEF CodePushInv, JobInv

(* The steps of `release` before a build is registered.                      *)
LEMMA BuildKeeps ==
  ASSUME CodePushInv, NEW j \in Jobs,
         BuildArch(j) \/ AssembleBundle(j)
  PROVE  CodePushInv'
  <1>1. /\ CodePushTypeOK /\ ServerInv /\ ControlInv(j) /\ ReleaseInv(j)
        /\ PushInv(j) /\ DoneInv(j)
    BY JobAgain
  <1>2. /\ Grows /\ ServerInv' /\ releases' = releases /\ patches' = patches
        /\ starts' = starts
        /\ releases' \in Seq(ReleaseRecords) /\ patches' \in Seq(PatchRecords)
    BY <1>1, NoCallSent DEF BuildArch, AssembleBundle, CodePushTypeOK
  <1>3. Line(j).cmd = "release"
    BY <1>1, JobFacts
       DEF BuildArch, AssembleBundle, At, ControlInv, StepsOf, CommandSet, Ended
  <1>4. /\ aab' \in [Jobs -> {"none", "cut", "lost", "unsigned", "signed"}]
        /\ \A e \in Jobs : e # j => aab'[e] = aab[e]
    BY <1>1 DEF BuildArch, AssembleBundle, CodePushTypeOK
  <1>5. CASE Fail(j)
    BY <1>2, <1>4, <1>5, FailKeeps
  <1>6. CASE ~Fail(j)
    <2>1. /\ job[j].pc \in {"build", "shell"} /\ job[j].i <= Len(Line(j).archs)
          /\ job[j].i \in Nat /\ Len(Line(j).archs) \in Nat
          /\ Line(j).release <= Len(releases)
      <3>1. job[j].pc \in {"build", "shell"}
        BY DEF BuildArch, AssembleBundle, At
      <3>2. job[j].i <= Len(Line(j).archs) + 0 /\ Line(j).release <= Len(releases)
        BY <1>1, <3>1 DEF ControlInv, At, Ended
      <3> QED BY <1>1, <3>1, <3>2, JobFacts
    <2>2. /\ Moves(j) /\ job'[j].line = job[j].line
          /\ job'[j].patch = job[j].patch /\ job'[j].done = job[j].done
          /\ job'[j].pc \in {"build", "shell", "sign"}
          /\ job'[j].pc = "sign" => aab'[j] \in {"unsigned", "lost"}
          /\ job'[j].i <= Len(Line(j).archs)
      <3>1. CASE BuildArch(j) /\ LastArch(j)
        <4>1. To(j, "shell")
          BY <1>6, <3>1 DEF BuildArch
        <4> QED BY <1>1, <1>2, <2>1, <4>1, GoesTo DEF Steps
      <3>2. CASE BuildArch(j) /\ ~LastArch(j)
        <4>1. NextArch(j, "build") /\ job[j].i + 1 <= Len(Line(j).archs)
          BY <1>6, <2>1, <3>2 DEF BuildArch, LastArch
        <4> QED BY <1>1, <1>2, <4>1, GoesToNext DEF Steps
      <3>3. CASE AssembleBundle(j)
        <4>1. To(j, "sign") /\ \E s \in {"unsigned", "lost"} : aab' = [aab EXCEPT ![j] = s]
          BY <1>6, <3>3 DEF AssembleBundle
        <4>2. aab'[j] \in {"unsigned", "lost"}
          BY <1>1, <4>1 DEF CodePushTypeOK
        <4> QED BY <1>1, <1>2, <2>1, <4>1, <4>2, GoesTo DEF Steps
      <3> QED BY <3>1, <3>2, <3>3
    <2>3. Line(j)' = Line(j)
      BY <2>2 DEF Line
    <2>4. ControlInv(j)'
      <3>1. job'[j].i <= Len(Line(j).archs) + 0
        BY <2>1, <2>2
      <3> QED BY <1>2, <1>3, <2>1, <2>2, <2>3, <3>1 DEF ControlInv, At, Ended, StepsOf
    <2>6. ReleaseInv(j)' /\ PushInv(j)'
      BY <1>3, <2>2, <2>3 DEF ReleaseInv, PushInv, At
    <2>5. DoneInv(j)'
      BY <1>1, <1>2, <1>3, <2>2, DoneKeeps
    <2> QED BY <1>2, <1>4, <2>2, <2>4, <2>5, <2>6, OwnJobStep DEF JobInv
  <1> QED BY <1>5, <1>6

(* What is known of a command that is going on.                              *)
LEMMA InLoop ==
  ASSUME CodePushInv, NEW j \in Jobs, NEW pc \in Steps \ {"abi"}, At(j, pc)
  PROVE  /\ pc \in StepsOf(Line(j).cmd)
         /\ job[j].i \in Nat /\ job[j].i >= 1 /\ job[j].i <= Len(Line(j).archs)
         /\ Len(Line(j).archs) \in Nat /\ Line(j).release <= Len(releases)
         /\ job[j].i \in DOMAIN Line(j).archs
         /\ BuildOf(j) \in Builds /\ BuildOf(j) # NoBuild
         /\ Line(j).cmd = "android" => ArchOf(j) \in Engined
         /\ Line(j).cmd \in {"release", "push", "android", "ios"}
  <1>1. CodePushTypeOK /\ ControlInv(j)
    BY JobAgain
  <1>2. job[j].pc = pc /\ pc \notin Ended /\ pc # "abi"
    BY DEF At, Steps, Ended
  <1>3. job[j].i <= Len(Line(j).archs) + 0 /\ Line(j).release <= Len(releases)
        /\ pc \in StepsOf(Line(j).cmd)
        /\ (Line(j).cmd = "android" => ArchOf(j) \in Engined)
    BY <1>1, <1>2 DEF ControlInv, At
  <1>4. /\ job[j].i \in Nat /\ job[j].i >= 1 /\ Len(Line(j).archs) \in Nat
        /\ Line(j).cmd \in {"release", "push", "android", "ios"}
    BY <1>1, JobFacts DEF CommandSet
  <1>5. job[j].i <= Len(Line(j).archs)
    BY <1>3, <1>4
  <1> QED BY <1>1, <1>3, <1>4, <1>5, BuildFacts

(* A step that goes on in the loop, or ends well.                            *)
LEMMA ControlKeeps ==
  ASSUME NEW j \in Jobs, NEW pc \in {"ok"} \cup Steps,
         job'[j].pc = pc, job'[j].line = job[j].line,
         pc \in {"ok"} \cup StepsOf(Line(j).cmd),
         pc \in Steps => Line(j).release <= Len(releases'),
         pc \in Steps => job'[j].i \in Nat /\ Len(Line(j).archs) \in Nat,
         pc \in Steps \ {"abi"} => job'[j].i <= Len(Line(j).archs),
         pc = "abi" => job'[j].i <= Len(Line(j).archs) + 1,
         pc \in Steps \ {"abi"} /\ Line(j).cmd = "android" =>
           Line(j).archs[job'[j].i] \in Engined
  PROVE  ControlInv(j)'
  <1>1. Line(j)' = Line(j) /\ ArchOf(j)' = Line(j).archs[job'[j].i]
    BY DEF Line, ArchOf
  <1>2. CASE pc = "ok"
    BY <1>1, <1>2 DEF ControlInv, Ended
  <1>3. CASE pc = "abi"
    BY <1>1, <1>3 DEF ControlInv, At, Ended, Steps
  <1>4. CASE pc \in Steps \ {"abi"}
    <2>1. job'[j].i <= Len(Line(j).archs) + 0
      BY <1>4
    <2> QED BY <1>1, <1>4, <2>1 DEF ControlInv, At, Ended
  <1> QED BY <1>2, <1>3, <1>4

LEMMA SignKeeps ==
  ASSUME CodePushInv, NEW j \in Jobs, SignBundle(j)
  PROVE  CodePushInv'
  <1>1. /\ CodePushTypeOK /\ ServerInv /\ ReleaseInv(j) /\ DoneInv(j) /\ At(j, "sign")
    BY JobAgain DEF SignBundle
  <1>2. /\ Line(j).cmd = "release" /\ Line(j).release <= Len(releases)
        /\ Len(Line(j).archs) \in Nat /\ 1 <= Len(Line(j).archs)
    BY <1>1, InLoop DEF Steps, StepsOf
  <1>3. /\ Grows /\ ServerInv' /\ releases' = releases /\ patches' = patches
        /\ starts' = starts
        /\ releases' \in Seq(ReleaseRecords) /\ patches' \in Seq(PatchRecords)
    BY <1>1, NoCallSent DEF SignBundle, CodePushTypeOK
  <1>4. /\ aab' \in [Jobs -> {"none", "cut", "lost", "unsigned", "signed"}]
        /\ \A e \in Jobs : e # j => aab'[e] = aab[e]
        /\ aab'[j] \in {"signed", "unsigned", "lost"}
    <2>1. aab \in [Jobs -> {"none", "cut", "lost", "unsigned", "signed"}]
          /\ aab[j] \in {"signed", "unsigned", "lost"}
      BY <1>1, <1>2 DEF ReleaseInv, At, CodePushTypeOK
    <2> QED BY <2>1 DEF SignBundle
  <1>5. CASE Fail(j)
    BY <1>3, <1>4, <1>5, FailKeeps
  <1>6. CASE ~Fail(j) /\ Line(j).login
    <2>1. job' = [job EXCEPT ![j].pc = "register", ![j].i = 1]
      BY <1>6 DEF SignBundle
    <2> DEFINE x == [job[j] EXCEPT !.pc = "register", !.i = 1]
    <2>2. job \in [Jobs -> JobRecords] /\ job[j] \in JobRecords
      BY <1>1 DEF CodePushTypeOK
    <2>3. /\ x \in JobRecords /\ x.pc = "register" /\ x.i = 1
          /\ x.line = job[j].line /\ x.patch = job[j].patch /\ x.done = job[j].done
      <3>1. "register" \in Ended \cup Steps /\ 1 \in Nat \ {0}
        BY DEF Steps
      <3> QED BY <2>2, <3>1 DEF JobRecords
    <2>4. job' = [job EXCEPT ![j] = x]
      BY <2>1
    <2> HIDE DEF x
    <2>5. /\ Moves(j) /\ job'[j].pc = "register" /\ job'[j].i = 1
          /\ job'[j].line = job[j].line /\ job'[j].patch = job[j].patch
          /\ job'[j].done = job[j].done
      BY <1>3, <2>2, <2>3, <2>4 DEF Moves
    <2>6. Line(j)' = Line(j)
      BY <2>5 DEF Line
    <2>7. ControlInv(j)'
      BY <1>2, <1>3, <2>5, ControlKeeps DEF Steps, StepsOf
    <2>8. ReleaseInv(j)' /\ PushInv(j)'
      BY <1>2, <1>4, <1>6, <2>5, <2>6 DEF ReleaseInv, PushInv, At, BuildsRegistered
    <2>9. DoneInv(j)'
      BY <1>1, <1>2, <1>3, <2>5, DoneKeeps
    <2> QED BY <1>3, <1>4, <2>5, <2>7, <2>8, <2>9, OwnJobStep DEF JobInv
  <1>7. CASE ~Fail(j) /\ ~Line(j).login
    <2>1. Line(j).noRegister /\ To(j, "ok")
      BY <1>7 DEF SignBundle, Fail
    <2>2. /\ Moves(j) /\ job'[j].pc = "ok" /\ job'[j].line = job[j].line
          /\ job'[j].patch = job[j].patch /\ job'[j].done = job[j].done
      BY <1>1, <1>3, <2>1, GoesTo DEF Ended
    <2>3. Line(j)' = Line(j)
      BY <2>2 DEF Line
    <2>4. ControlInv(j)'
      BY <2>2, ControlKeeps DEF Steps
    <2>5. ReleaseInv(j)' /\ PushInv(j)'
      BY <1>2, <1>4, <1>7, <2>1, <2>2, <2>3 DEF ReleaseInv, PushInv, At
    <2>6. DoneInv(j)'
      BY <1>1, <1>2, <1>3, <2>2, DoneKeeps
    <2> QED BY <1>3, <1>4, <2>2, <2>4, <2>5, <2>6, OwnJobStep DEF JobInv
  <1> QED BY <1>5, <1>6, <1>7

(* A build is registered; the ones before it stay so.                        *)
LEMMA RegisterKeeps ==
  ASSUME CodePushInv, NEW j \in Jobs, NEW o \in Outcomes, RegisterBuild(j, o)
  PROVE  CodePushInv'
  <1>1. /\ CodePushTypeOK /\ ServerInv /\ ReleaseInv(j) /\ DoneInv(j)
        /\ At(j, "register")
    BY JobAgain DEF RegisterBuild
  <1>2. /\ Line(j).cmd = "release" /\ Line(j).release <= Len(releases)
        /\ Len(Line(j).archs) \in Nat /\ job[j].i <= Len(Line(j).archs)
        /\ job[j].i \in Nat /\ BuildOf(j) \in Builds
    BY <1>1, InLoop DEF Steps, StepsOf
  <1>3. /\ releases' = WithRelease(o, BuildOf(j)) /\ patches' = patches
        /\ aab' = aab /\ starts' = starts
    BY DEF RegisterBuild
  <1>4. /\ Grows /\ ServerInv'
        /\ releases' \in Seq(ReleaseRecords) /\ patches' \in Seq(PatchRecords)
        /\ aab' \in [Jobs -> {"none", "cut", "lost", "unsigned", "signed"}]
    BY <1>1, <1>2, <1>3, RegisterCall DEF CodePushTypeOK
  <1>5. CASE ~Reported(o)
    BY <1>3, <1>4, <1>5, FailKeeps DEF RegisterBuild
  <1>6. CASE Reported(o)
    <2> DEFINE r == ReleaseIn(releases', BuildOf(j))
    <2>1. r \in DOMAIN releases' /\ releases'[r].build = BuildOf(j)
      BY <1>1, <1>2, <1>3, <1>6, RegisterCall
    <2>2. job' = [job EXCEPT ![j].pc = "base", ![j].release = r]
      BY <1>6 DEF RegisterBuild
    <2> HIDE DEF r
    <2>3. r \in Nat
      BY <1>4, <2>1
    <2> DEFINE x == [job[j] EXCEPT !.pc = "base", !.release = r]
    <2>4. job \in [Jobs -> JobRecords] /\ job[j] \in JobRecords
      BY <1>1 DEF CodePushTypeOK
    <2>5. /\ x \in JobRecords /\ x.pc = "base" /\ x.i = job[j].i /\ x.release = r
          /\ x.line = job[j].line /\ x.patch = job[j].patch /\ x.done = job[j].done
      BY <2>3, <2>4 DEF JobRecords, Steps
    <2>6. job' = [job EXCEPT ![j] = x]
      BY <2>2
    <2> HIDE DEF x
    <2>7. /\ Moves(j) /\ job'[j].pc = "base" /\ job'[j].i = job[j].i
          /\ job'[j].release = r
          /\ job'[j].line = job[j].line /\ job'[j].patch = job[j].patch
          /\ job'[j].done = job[j].done
      BY <1>3, <2>4, <2>5, <2>6 DEF Moves
    <2>8. Line(j)' = Line(j) /\ BuildOf(j)' = BuildOf(j)
      BY <2>7 DEF Line, BuildOf, ArchOf
    <2>9. ControlInv(j)'
      <3>1. Line(j).release <= Len(releases')
        BY <1>1, <1>2, <1>4, JobFacts DEF Grows, CodePushTypeOK
      <3> QED BY <1>2, <2>7, <3>1, ControlKeeps DEF Steps, StepsOf
    <2>10. BuildsRegistered(j, 1..(job[j].i - 1))'
      <3>1. BuildsRegistered(j, 1..(job[j].i - 1))
        BY <1>1, <1>2 DEF ReleaseInv, At
      <3> QED BY <1>4, <2>7, <2>8, <3>1, StillRegistered DEF BuildsRegistered
    <2>11. ReleaseInv(j)' /\ PushInv(j)'
      BY <1>1, <1>2, <1>3, <2>1, <2>7, <2>8, <2>10 DEF ReleaseInv, PushInv, At
    <2>12. DoneInv(j)'
      BY <1>1, <1>2, <1>4, <2>7, DoneKeeps
    <2> QED BY <1>3, <1>4, <2>7, <2>9, <2>11, <2>12, OwnJobStep DEF JobInv
  <1> QED BY <1>5, <1>6

(* The last base stored ends the command with every build registered.        *)
LEMMA StoreKeeps ==
  ASSUME CodePushInv, NEW j \in Jobs, NEW o \in Outcomes, StoreBase(j, o)
  PROVE  CodePushInv'
  <1>1. /\ CodePushTypeOK /\ ServerInv /\ ReleaseInv(j) /\ DoneInv(j)
        /\ At(j, "base")
    BY JobAgain DEF StoreBase
  <1>2. /\ Line(j).cmd = "release" /\ Line(j).release <= Len(releases)
        /\ Len(Line(j).archs) \in Nat /\ job[j].i <= Len(Line(j).archs)
        /\ job[j].i \in Nat
    BY <1>1, InLoop DEF Steps, StepsOf
  <1>3. /\ job[j].release \in DOMAIN releases
        /\ releases[job[j].release].build = BuildOf(j)
        /\ BuildsRegistered(j, 1..(job[j].i - 1))
        /\ aab[j] \in {"signed", "unsigned", "lost"}
    BY <1>1, <1>2 DEF ReleaseInv, At
  <1>4. /\ releases' = WithBase(o, job[j].release, BuildOf(j)) /\ patches' = patches
        /\ aab' = aab /\ starts' = starts
    BY DEF StoreBase
  <1>5. /\ Grows /\ ServerInv'
        /\ releases' \in Seq(ReleaseRecords) /\ patches' \in Seq(PatchRecords)
        /\ aab' \in [Jobs -> {"none", "cut", "lost", "unsigned", "signed"}]
    BY <1>1, <1>3, <1>4, BaseCall DEF CodePushTypeOK
  <1>6. BuildsRegistered(j, 1..job[j].i)
    <2>1. Registered(BuildOf(j))
      BY <1>3 DEF Registered
    <2>2. \A k \in 1..job[j].i : k \in 1..(job[j].i - 1) \/ k = job[j].i
      BY <1>2
    <2> QED BY <1>3, <2>1, <2>2 DEF BuildsRegistered, BuildOf, ArchOf
  <1>7. /\ Moves(j) /\ job'[j].line = job[j].line
        /\ job'[j].patch = job[j].patch /\ job'[j].done = job[j].done
        /\ job'[j].pc \in {"ok", "register"}
        /\ job'[j].pc = "register" =>
             job'[j].i = job[j].i + 1 /\ job'[j].i <= Len(Line(j).archs)
        /\ job'[j].pc = "ok" => job[j].i = Len(Line(j).archs)
    <2>1. CASE LastArch(j)
      <3>1. To(j, "ok")
        BY <2>1 DEF StoreBase
      <3> QED BY <1>1, <1>4, <2>1, <3>1, GoesTo DEF Ended, LastArch
    <2>2. CASE ~LastArch(j)
      <3>1. NextArch(j, "register") /\ job[j].i + 1 <= Len(Line(j).archs)
        BY <1>2, <2>2 DEF StoreBase, LastArch
      <3> QED BY <1>1, <1>4, <3>1, GoesToNext DEF Steps
    <2> QED BY <2>1, <2>2
  <1>8. Line(j)' = Line(j)
    BY <1>7 DEF Line
  <1>9. \A k \in 1..job[j].i : Registered(<<Line(j).archs[k], Line(j).ver>>)'
    <2>1. SUFFICES ASSUME NEW k \in 1..job[j].i
                  PROVE Registered(<<Line(j).archs[k], Line(j).ver>>)'
      OBVIOUS
    <2>2. PICK b : b = <<Line(j).archs[k], Line(j).ver>>
      OBVIOUS
    <2>3. Registered(b)'
      BY <1>5, <1>6, <2>2, StillRegistered DEF BuildsRegistered
    <2> QED BY <1>8, <2>2, <2>3
  <1>10. ControlInv(j)'
    <2>1. Line(j).release <= Len(releases')
      BY <1>1, <1>2, <1>5, JobFacts DEF Grows, CodePushTypeOK
    <2> QED BY <1>2, <1>7, <2>1, ControlKeeps DEF Steps, StepsOf
  <1>11. ReleaseInv(j)' /\ PushInv(j)'
    <2>1. DOMAIN Line(j).archs = 1..Len(Line(j).archs)
      BY <1>1, JobFacts
    <2>2. job'[j].pc = "ok" => BuildsRegistered(j, DOMAIN Line(j).archs)'
      BY <1>7, <1>8, <1>9, <2>1 DEF BuildsRegistered
    <2>3. job'[j].pc = "register" => BuildsRegistered(j, 1..(job[j].i - 1))'
      BY <1>2, <1>7, <1>9 DEF BuildsRegistered
    <2> QED BY <1>2, <1>3, <1>4, <1>7, <1>8, <2>2, <2>3 DEF ReleaseInv, PushInv, At
  <1>12. DoneInv(j)'
    BY <1>1, <1>2, <1>5, <1>7, DoneKeeps
  <1> QED BY <1>4, <1>5, <1>7, <1>10, <1>11, <1>12, OwnJobStep DEF JobInv

-----------------------------------------------------------------------------
(* The steps of a push.  None of them writes the bundle file.                *)
PushStep(j) ==
  /\ Moves(j) /\ Grows /\ ServerInv' /\ aab' = aab
  /\ releases' \in Seq(ReleaseRecords) /\ patches' \in Seq(PatchRecords)

LEMMA PushStepKeeps ==
  ASSUME CodePushInv, NEW j \in Jobs, PushStep(j), Line(j).cmd # "release",
         ControlInv(j)', PushInv(j)', DoneInv(j)'
  PROVE  CodePushInv'
  <1>1. ReleaseInv(j)'
    BY DEF ReleaseInv, PushStep, Moves, Line
  <1>2. aab' \in [Jobs -> {"none", "cut", "lost", "unsigned", "signed"}]
    BY DEF CodePushInv, CodePushTypeOK, PushStep
  <1> QED BY <1>1, <1>2, OwnJobStep DEF PushStep, JobInv

(* Looking at the command line and the binaries changes nothing outside.     *)
LEMMA LocalStep ==
  ASSUME CodePushInv, NEW j \in Jobs, Moves(j),
         UNCHANGED <<releases, patches, aab>>
  PROVE  PushStep(j)
  BY NoCallSent DEF CodePushInv, CodePushTypeOK, PushStep

LEMMA LocalFail ==
  ASSUME CodePushInv, NEW j \in Jobs, Fail(j),
         UNCHANGED <<releases, patches, aab, starts>>
  PROVE  CodePushInv'
  BY NoCallSent, FailKeeps DEF CodePushInv, CodePushTypeOK

LEMMA AndroidKeeps ==
  ASSUME CodePushInv, NEW j \in Jobs, AndroidArch(j)
  PROVE  CodePushInv'
  <1>1. /\ CodePushTypeOK /\ ControlInv(j) /\ PushInv(j) /\ DoneInv(j)
        /\ job[j].pc = "abi"
    BY JobAgain DEF AndroidArch, At
  <1>2. /\ UNCHANGED <<releases, patches, aab, starts>>
    BY DEF AndroidArch
  <1>3. /\ Line(j).cmd = "android" /\ Line(j).release <= Len(releases)
        /\ job[j].i <= Len(Line(j).archs) + 1
    <2>1. Line(j).cmd \in {"release", "push", "android", "ios"}
      BY <1>1, JobFacts DEF CommandSet
    <2> QED BY <1>1, <2>1 DEF ControlInv, StepsOf, At, Ended
  <1>4. /\ job[j].i \in Nat /\ job[j].i >= 1 /\ Len(Line(j).archs) \in Nat
        /\ DOMAIN Line(j).archs = 1..Len(Line(j).archs)
        /\ Line(j).release = 0
    BY <1>1, <1>3, JobFacts
  <1>5. job[j].patch = 0
    BY <1>1, <1>3 DEF PushInv, At
  <1>6. CASE job[j].i > Len(Line(j).archs)
    <2>1. To(j, "ok")
      BY <1>6 DEF AndroidArch
    <2>2. /\ Moves(j) /\ job'[j].pc = "ok" /\ job'[j].line = job[j].line
          /\ job'[j].i = job[j].i
          /\ job'[j].patch = job[j].patch /\ job'[j].done = job[j].done
      BY <1>1, <1>2, <2>1, GoesTo DEF Ended
    <2>3. PushStep(j) /\ Line(j)' = Line(j)
      BY <1>2, <2>2, LocalStep DEF Line
    <2>4. ControlInv(j)'
      BY <2>2, ControlKeeps DEF Steps
    <2>5. PushInv(j)'
      BY <1>6, <2>2, <2>3 DEF PushInv, At
    <2>6. DoneInv(j)'
      BY <1>1, <2>2, <2>3, DoneKeeps DEF PushStep
    <2> QED BY <1>3, <2>3, <2>4, <2>5, <2>6, PushStepKeeps
  <1>7. CASE job[j].i <= Len(Line(j).archs) /\ ArchOf(j) \notin Engined
    <2>1. NextArch(j, "abi")
      BY <1>4, <1>7 DEF AndroidArch
    <2>2. /\ Moves(j) /\ job'[j].pc = "abi" /\ job'[j].line = job[j].line
          /\ job'[j].i = job[j].i + 1
          /\ job'[j].patch = job[j].patch /\ job'[j].done = job[j].done
      BY <1>1, <1>2, <2>1, GoesToNext DEF Steps
    <2>3. PushStep(j) /\ Line(j)' = Line(j)
      BY <1>2, <2>2, LocalStep DEF Line
    <2>4. ControlInv(j)'
      BY <1>2, <1>3, <1>4, <1>7, <2>2, ControlKeeps DEF Steps, StepsOf
    <2>5. PushInv(j)'
      BY <1>5, <2>2, <2>3 DEF PushInv, At
    <2>6. DoneInv(j)'
      <3>1. {k \in DOMAIN Line(j).archs :
               /\ k < job[j].i + 1
               /\ Line(j).cmd = "android" => Line(j).archs[k] \in Engined} =
            {k \in DOMAIN Line(j).archs :
               /\ k < job[j].i
               /\ Line(j).cmd = "android" => Line(j).archs[k] \in Engined}
        BY <1>3, <1>4, <1>7 DEF ArchOf
      <3>2. \A d \in job[j].done :
              /\ DraftedFor(j, d[1], d[2])'
              /\ patches'[d[2]].artifact
              /\ Line(j)'.publish => patches'[d[2]].status # "draft"
        BY <1>1, <2>2, <2>3, DonePatches DEF PushStep
      <3> QED BY <1>1, <1>3, <1>5, <2>2, <2>3, <3>1, <3>2 DEF DoneInv
    <2> QED BY <1>3, <2>3, <2>4, <2>5, <2>6, PushStepKeeps
  <1>8. CASE job[j].i <= Len(Line(j).archs) /\ ArchOf(j) \in Engined
    <2>1. Fail(j) \/ To(j, "prepare")
      BY <1>4, <1>8 DEF AndroidArch
    <2>2. CASE Fail(j)
      BY <1>2, <2>2, LocalFail
    <2>3. CASE To(j, "prepare")
      <3>1. /\ Moves(j) /\ job'[j].pc = "prepare" /\ job'[j].line = job[j].line
            /\ job'[j].i = job[j].i
            /\ job'[j].patch = job[j].patch /\ job'[j].done = job[j].done
        BY <1>1, <1>2, <2>3, GoesTo DEF Steps
      <3>2. PushStep(j) /\ Line(j)' = Line(j)
        BY <1>2, <3>1, LocalStep DEF Line
      <3>3. ControlInv(j)'
        BY <1>2, <1>3, <1>4, <1>8, <3>1, ControlKeeps DEF Steps, StepsOf, ArchOf
      <3>4. PushInv(j)'
        BY <1>3, <1>4, <3>1, <3>2 DEF PushInv, At
      <3>5. DoneInv(j)'
        BY <1>1, <3>1, <3>2, DoneKeeps DEF PushStep
      <3> QED BY <1>3, <3>2, <3>3, <3>4, <3>5, PushStepKeeps
    <2> QED BY <2>1, <2>2, <2>3
  <1> QED BY <1>4, <1>6, <1>7, <1>8

(* A container for a known base is made, and the push goes on.               *)
LEMMA MadeKeeps ==
  ASSUME CodePushInv, NEW j \in Jobs, NEW made \in Containers,
         NEW pc \in {"prepare", "match", "create", "draft"},
         NEW at \in {"pack", "prepare"}, At(j, at),
         job' = [job EXCEPT ![j].made = made, ![j].pc = pc],
         UNCHANGED <<releases, patches, aab, starts>>,
         pc \in StepsOf(Line(j).cmd),
         pc \in {"match", "create"} => Line(j).release = 0,
         pc = "draft" => Line(j).release > 0,
         Line(j).cmd # "release",
         ~Line(j).stored => made.base = BuildOf(j),
         Line(j).stored => made.base = releases[Line(j).release].build
  PROVE  CodePushInv'
  <1>1. /\ CodePushTypeOK /\ PushInv(j) /\ DoneInv(j)
    BY JobAgain
  <1>2. at \in Steps \ {"abi"}
    BY DEF Steps
  <1>3. /\ job[j].i \in Nat /\ job[j].i <= Len(Line(j).archs)
        /\ Len(Line(j).archs) \in Nat /\ Line(j).release <= Len(releases)
        /\ Line(j).cmd = "android" => ArchOf(j) \in Engined
    BY <1>2, InLoop
  <1>4. Line(j).release > 0 =>
          job[j].release = Line(j).release /\ Line(j).release \in DOMAIN releases
    BY <1>1, <1>3, JobFacts DEF PushInv, CodePushTypeOK, At
  <1> DEFINE x == [job[j] EXCEPT !.made = made, !.pc = pc]
  <1>5. job \in [Jobs -> JobRecords] /\ job[j] \in JobRecords
    BY <1>1 DEF CodePushTypeOK
  <1>6. /\ x \in JobRecords /\ x.pc = pc /\ x.i = job[j].i /\ x.made = made
        /\ x.release = job[j].release
        /\ x.line = job[j].line /\ x.patch = job[j].patch /\ x.done = job[j].done
    BY <1>5 DEF JobRecords, Steps
  <1>7. job' = [job EXCEPT ![j] = x]
    OBVIOUS
  <1> HIDE DEF x
  <1>8. /\ Moves(j) /\ job'[j].pc = pc /\ job'[j].i = job[j].i
        /\ job'[j].made = made /\ job'[j].release = job[j].release
        /\ job'[j].line = job[j].line /\ job'[j].patch = job[j].patch
        /\ job'[j].done = job[j].done
    BY <1>5, <1>6, <1>7 DEF Moves
  <1>9. PushStep(j) /\ Line(j)' = Line(j) /\ BuildOf(j)' = BuildOf(j)
    BY <1>8, LocalStep DEF Line, BuildOf, ArchOf
  <1>10. ControlInv(j)'
    BY <1>3, <1>8, ControlKeeps DEF Steps, ArchOf
  <1>11. PushInv(j)'
    <2>1. Line(j).release = 0 => ~Line(j).stored
      BY <1>1, JobFacts
    <2>2. pc = "draft" =>
            /\ job[j].release \in DOMAIN releases
            /\ Pairs(j) => made.base = releases[job[j].release].build
            /\ Line(j).stored \/ made.base = BuildOf(j)
      BY <1>4 DEF Pairs
    <2>3. Pairs(j)' = Pairs(j)
      BY <1>9 DEF Pairs
    <2>4. Line(j).release > 0 => job[j].release = Line(j).release
      BY <1>4
    <2>5. pc \in {"match", "create"} => Line(j).release = 0 /\ made.base = BuildOf(j)
      BY <2>1
    <2>6. pc = "prepare" /\ Line(j).cmd = "ios" => made.base = BuildOf(j)
      BY <1>1, JobFacts
    <2> QED BY <1>8, <1>9, <2>2, <2>3, <2>4, <2>5, <2>6 DEF PushInv, At
  <1>12. DoneInv(j)'
    BY <1>1, <1>8, <1>9, DoneKeeps DEF PushStep
  <1> QED BY <1>9, <1>10, <1>11, <1>12, PushStepKeeps

(* What the commands put in a container.                                     *)
LEMMA ContainerFacts ==
  ASSUME NEW base \in Builds \cup {NoBuild}, NEW arch \in Archs
  PROVE  /\ IdentityPatch(base) \in Containers /\ IdentityPatch(base).base = base
         /\ DiffPatch(base, <<arch, Edited>>) \in Containers
         /\ DiffPatch(base, <<arch, Edited>>).base = base
         /\ ReplacePatch(base, <<arch, Edited>>) \in Containers
         /\ ReplacePatch(base, <<arch, Edited>>).base = base
         /\ BytecodePatch(base, <<arch, Edited>>) \in Containers
         /\ BytecodePatch(base, <<arch, Edited>>).base = base
  <1>1. <<arch, Edited>> \in Snapshots
    BY DEF Snapshots
  <1> QED BY <1>1 DEF Containers, PatchKinds, IdentityPatch, DiffPatch, ReplacePatch,
             BytecodePatch

LEMMA PackKeeps ==
  ASSUME CodePushInv, NEW j \in Jobs, PackIos(j)
  PROVE  CodePushInv'
  <1>1. /\ CodePushTypeOK /\ PushInv(j) /\ DoneInv(j) /\ At(j, "pack")
        /\ "pack" \in Steps \ {"abi"}
    BY JobAgain DEF PackIos, Steps
  <1>2. /\ job[j].i \in Nat /\ job[j].i <= Len(Line(j).archs)
        /\ Len(Line(j).archs) \in Nat /\ Line(j).release <= Len(releases)
        /\ job[j].i \in DOMAIN Line(j).archs
        /\ BuildOf(j) \in Builds /\ "pack" \in StepsOf(Line(j).cmd)
        /\ Line(j).cmd \in {"release", "push", "android", "ios"}
    BY <1>1, InLoop
  <1>3. Line(j).cmd = "ios" /\ ~Line(j).stored /\ ArchOf(j) \in Archs
    BY <1>1, <1>2, JobFacts DEF StepsOf, ArchOf
  <1>4. UNCHANGED <<releases, patches, aab, starts>>
    BY DEF PackIos
  <1>5. CASE Fail(j)
    BY <1>4, <1>5, LocalFail
  <1>6. CASE To(j, "prepare")
    <2>1. /\ Moves(j) /\ job'[j].pc = "prepare" /\ job'[j].i = job[j].i
          /\ job'[j].made = job[j].made /\ job'[j].release = job[j].release
          /\ job'[j].line = job[j].line /\ job'[j].patch = job[j].patch
          /\ job'[j].done = job[j].done
      BY <1>1, <1>4, <1>6, GoesTo DEF Steps
    <2>2. PushStep(j) /\ Line(j)' = Line(j) /\ BuildOf(j)' = BuildOf(j)
      BY <1>4, <2>1, LocalStep DEF Line, BuildOf, ArchOf
    <2>3. ControlInv(j)'
      BY <1>2, <1>3, <1>4, <2>1, ControlKeeps DEF Steps, StepsOf
    <2>4. PushInv(j)'
      BY <1>1, <1>3, <2>1, <2>2 DEF PushInv, At
    <2>5. DoneInv(j)'
      BY <1>1, <2>1, <2>2, DoneKeeps DEF PushStep
    <2> QED BY <1>3, <2>2, <2>3, <2>4, <2>5, PushStepKeeps
  <1>7. CASE job' = [job EXCEPT ![j].pc = "prepare", ![j].made =
                       BytecodePatch(BuildOf(j), <<ArchOf(j), Edited>>)]
    <2> DEFINE made == BytecodePatch(BuildOf(j), <<ArchOf(j), Edited>>)
    <2>1. made \in Containers /\ made.base = BuildOf(j)
      BY <1>2, <1>3, ContainerFacts
    <2>2. job' = [job EXCEPT ![j].made = made, ![j].pc = "prepare"]
      BY <1>7
    <2> HIDE DEF made
    <2> QED BY <1>1, <1>3, <1>4, <2>1, <2>2, MadeKeeps DEF StepsOf
  <1> QED BY <1>5, <1>6, <1>7 DEF PackIos

LEMMA PreparePushKeeps ==
  ASSUME CodePushInv, NEW j \in Jobs, PreparePush(j)
  PROVE  CodePushInv'
  <1>1. /\ CodePushTypeOK /\ ServerInv /\ At(j, "prepare")
        /\ "prepare" \in Steps \ {"abi"} /\ Line(j).cmd # "ios"
    BY JobAgain DEF PreparePush, Steps
  <1>2. /\ Line(j).release <= Len(releases)
        /\ job[j].i \in DOMAIN Line(j).archs
        /\ BuildOf(j) \in Builds /\ "prepare" \in StepsOf(Line(j).cmd)
        /\ Line(j).cmd \in {"release", "push", "android", "ios"}
    BY <1>1, InLoop
  <1>3. /\ Line(j).cmd \in {"push", "android"} /\ ArchOf(j) \in Archs
    BY <1>1, <1>2, JobFacts DEF StepsOf, ArchOf
  <1>4. /\ Line(j).release \in Nat
        /\ Line(j).release > 0 => Line(j).release \in DOMAIN releases
    BY <1>1, <1>2, JobFacts DEF CodePushTypeOK
  <1>5. UNCHANGED <<releases, patches, aab, starts>>
    BY DEF PreparePush
  <1>6. CASE Fail(j)
    BY <1>5, <1>6, LocalFail
  <1>7. CASE ~Fail(j)
    <2> DEFINE base   == IF Line(j).stored THEN StoredBase(Line(j).release)
                         ELSE BuildOf(j)
               edited == <<ArchOf(j), Edited>>
               made   == CASE Line(j).kind = "identity" -> IdentityPatch(base)
                           [] Line(j).kind = "diff"     -> DiffPatch(base, edited)
                           [] OTHER                     -> ReplacePatch(base, edited)
               pc     == IF Line(j).release # 0 THEN "draft" ELSE "match"
    <2>1. base # NoBuild /\ job' = [job EXCEPT ![j].made = made, ![j].pc = pc]
      BY <1>7 DEF PreparePush
    <2>2. Line(j).stored =>
            Line(j).release > 0 /\ base = releases[Line(j).release].build
      BY <1>1, <1>4, <2>1, JobFacts DEF ServerInv, StoredBase
    <2>3. base \in Builds
      <3>1. Line(j).stored => releases[Line(j).release] \in ReleaseRecords
        <4>1. releases \in Seq(ReleaseRecords)
          BY <1>1 DEF CodePushTypeOK
        <4> QED BY <1>4, <2>2, <4>1
      <3> QED BY <1>2, <2>2, <3>1 DEF ReleaseRecords
    <2>4. ~Line(j).stored => base = BuildOf(j)
      OBVIOUS
    <2> HIDE DEF base
    <2>5. made \in Containers /\ made.base = base
      BY <1>3, <2>3, ContainerFacts
    <2>6. /\ pc \in {"draft", "match"} /\ pc \in StepsOf(Line(j).cmd)
          /\ pc = "match" => Line(j).release = 0
          /\ pc = "draft" => Line(j).release > 0
      <3>1. {"draft", "match"} \subseteq StepsOf(Line(j).cmd)
        BY <1>3 DEF StepsOf
      <3> QED BY <1>4, <3>1
    <2> HIDE DEF made, pc
    <2> QED BY <1>1, <1>3, <1>5, <2>1, <2>2, <2>4, <2>5, <2>6, MadeKeeps
  <1> QED BY <1>6, <1>7

LEMMA PrepareIosKeeps ==
  ASSUME CodePushInv, NEW j \in Jobs, PrepareIos(j)
  PROVE  CodePushInv'
  <1>1. /\ CodePushTypeOK /\ PushInv(j) /\ At(j, "prepare")
        /\ "prepare" \in Steps \ {"abi"} /\ Line(j).cmd = "ios"
    BY JobAgain DEF PrepareIos, Steps
  <1>2. /\ job[j].i \in DOMAIN Line(j).archs /\ BuildOf(j) \in Builds
    BY <1>1, InLoop
  <1>3. /\ ~Line(j).stored /\ ArchOf(j) \in Archs /\ Line(j).release \in Nat
        /\ job[j].made \in Containers
    BY <1>1, <1>2, JobFacts DEF ArchOf, JobRecords
  <1>4. UNCHANGED <<releases, patches, aab, starts>>
    BY DEF PrepareIos
  <1>5. CASE Fail(j)
    BY <1>4, <1>5, LocalFail
  <1>6. CASE ~Fail(j)
    <2> DEFINE made == IF job[j].made # NoPatch THEN job[j].made
                       ELSE BytecodePatch(BuildOf(j), <<ArchOf(j), Edited>>)
               pc   == IF Line(j).release # 0 THEN "draft" ELSE "create"
    <2>1. job' = [job EXCEPT ![j].made = made, ![j].pc = pc]
      <3>1. job' = [job EXCEPT
              ![j].made = IF @ # NoPatch THEN @
                          ELSE BytecodePatch(BuildOf(j), <<ArchOf(j), Edited>>),
              ![j].pc = IF Line(j).release # 0 THEN "draft" ELSE "create"]
        BY <1>6 DEF PrepareIos
      <3> QED BY <3>1
    <2>2. made \in Containers /\ made.base = BuildOf(j)
      BY <1>1, <1>2, <1>3, ContainerFacts DEF PushInv, At
    <2>3. /\ pc \in {"draft", "create"} /\ pc \in StepsOf(Line(j).cmd)
          /\ pc = "create" => Line(j).release = 0
          /\ pc = "draft" => Line(j).release > 0
      BY <1>1, <1>3 DEF StepsOf
    <2> HIDE DEF made, pc
    <2> QED BY <1>1, <1>3, <1>4, <2>1, <2>2, <2>3, MadeKeeps
  <1> QED BY <1>5, <1>6

(* The first release listed with a build_id, when there is one.              *)
LEMMA ReleaseFound ==
  ASSUME NEW b, Registered(b)
  PROVE  /\ ReleaseIn(releases, b) \in DOMAIN releases
         /\ releases[ReleaseIn(releases, b)].build = b
  BY DEF Registered, ReleaseIn

(* A release of the build is at hand, and the patch is drafted on it next.   *)
LEMMA PairedKeeps ==
  ASSUME CodePushInv, NEW j \in Jobs, NEW at \in {"match", "create"}, At(j, at),
         Grows, ServerInv', aab' = aab, starts' = starts,
         releases' \in Seq(ReleaseRecords), patches' \in Seq(PatchRecords),
         NEW r \in DOMAIN releases', releases'[r].build = job[j].made.base,
         job' = [job EXCEPT ![j].pc = "draft", ![j].release = r]
  PROVE  CodePushInv'
  <1>1. /\ CodePushTypeOK /\ PushInv(j) /\ DoneInv(j)
        /\ at \in Steps \ {"abi"}
    BY JobAgain DEF Steps
  <1>2. /\ job[j].i \in Nat /\ job[j].i <= Len(Line(j).archs)
        /\ Len(Line(j).archs) \in Nat /\ Line(j).release <= Len(releases)
        /\ Line(j).cmd = "android" => ArchOf(j) \in Engined
        /\ at \in StepsOf(Line(j).cmd)
        /\ Line(j).cmd \in {"release", "push", "android", "ios"}
    BY <1>1, InLoop
  <1>3. Line(j).cmd # "release" /\ "draft" \in StepsOf(Line(j).cmd)
    BY <1>2 DEF StepsOf
  <1>4. Line(j).release = 0 /\ job[j].made.base = BuildOf(j)
    BY <1>1, <1>3 DEF PushInv, At
  <1>5. r \in Nat
    OBVIOUS
  <1> DEFINE x == [job[j] EXCEPT !.pc = "draft", !.release = r]
  <1>6. job \in [Jobs -> JobRecords] /\ job[j] \in JobRecords
    BY <1>1 DEF CodePushTypeOK
  <1>7. /\ x \in JobRecords /\ x.pc = "draft" /\ x.i = job[j].i /\ x.release = r
        /\ x.made = job[j].made
        /\ x.line = job[j].line /\ x.patch = job[j].patch /\ x.done = job[j].done
    BY <1>5, <1>6 DEF JobRecords, Steps
  <1>8. job' = [job EXCEPT ![j] = x]
    OBVIOUS
  <1> HIDE DEF x
  <1>9. /\ Moves(j) /\ job'[j].pc = "draft" /\ job'[j].i = job[j].i
        /\ job'[j].release = r /\ job'[j].made = job[j].made
        /\ job'[j].line = job[j].line /\ job'[j].patch = job[j].patch
        /\ job'[j].done = job[j].done
    BY <1>6, <1>7, <1>8 DEF Moves
  <1>10. PushStep(j) /\ Line(j)' = Line(j) /\ BuildOf(j)' = BuildOf(j)
    BY <1>9 DEF PushStep, Line, BuildOf, ArchOf
  <1>11. ControlInv(j)'
    <2>1. Line(j).release <= Len(releases')
      BY <1>1, <1>4, JobFacts
    <2> QED BY <1>2, <1>3, <1>9, <2>1, ControlKeeps DEF Steps, ArchOf
  <1>12. PushInv(j)'
    BY <1>4, <1>9, <1>10 DEF PushInv, At
  <1>13. DoneInv(j)'
    BY <1>1, <1>9, DoneKeeps
  <1> QED BY <1>3, <1>10, <1>11, <1>12, <1>13, PushStepKeeps

LEMMA MatchKeeps ==
  ASSUME CodePushInv, NEW j \in Jobs, NEW o \in Outcomes, MatchRelease(j, o)
  PROVE  CodePushInv'
  <1>1. /\ CodePushTypeOK /\ ServerInv /\ PushInv(j) /\ DoneInv(j) /\ At(j, "match")
        /\ "match" \in Steps \ {"abi"}
    BY JobAgain DEF MatchRelease, Steps
  <1>2. UNCHANGED <<releases, patches, aab, starts>>
    BY DEF MatchRelease
  <1>3. CASE ~Reported(o)
    BY <1>2, <1>3, LocalFail DEF MatchRelease
  <1>4. CASE Reported(o) /\ Registered(job[j].made.base)
    <2> DEFINE r == ReleaseIn(releases, job[j].made.base)
    <2>1. r \in DOMAIN releases' /\ releases'[r].build = job[j].made.base
      BY <1>2, <1>4, ReleaseFound
    <2>2. job' = [job EXCEPT ![j].pc = "draft", ![j].release = r]
      BY <1>4 DEF MatchRelease
    <2> HIDE DEF r
    <2>3. /\ Grows /\ ServerInv'
          /\ releases' \in Seq(ReleaseRecords) /\ patches' \in Seq(PatchRecords)
      BY <1>1, <1>2, NoCallSent DEF CodePushTypeOK
    <2> QED BY <1>1, <1>2, <2>1, <2>2, <2>3, PairedKeeps
  <1>5. CASE Reported(o) /\ ~Registered(job[j].made.base)
    <2>1. To(j, "create")
      BY <1>5 DEF MatchRelease
    <2>2. /\ job[j].i \in Nat /\ job[j].i <= Len(Line(j).archs)
          /\ Len(Line(j).archs) \in Nat /\ Line(j).release <= Len(releases)
          /\ Line(j).cmd = "android" => ArchOf(j) \in Engined
          /\ "match" \in StepsOf(Line(j).cmd)
          /\ Line(j).cmd \in {"release", "push", "android", "ios"}
      BY <1>1, InLoop
    <2>3. Line(j).cmd # "release" /\ "create" \in StepsOf(Line(j).cmd)
      BY <2>2 DEF StepsOf
    <2>4. /\ Moves(j) /\ job'[j].pc = "create" /\ job'[j].i = job[j].i
          /\ job'[j].made = job[j].made /\ job'[j].release = job[j].release
          /\ job'[j].line = job[j].line /\ job'[j].patch = job[j].patch
          /\ job'[j].done = job[j].done
      BY <1>1, <1>2, <2>1, GoesTo DEF Steps
    <2>5. PushStep(j) /\ Line(j)' = Line(j) /\ BuildOf(j)' = BuildOf(j)
      BY <1>2, <2>4, LocalStep DEF Line, BuildOf, ArchOf
    <2>6. ControlInv(j)'
      BY <1>2, <2>2, <2>3, <2>4, ControlKeeps DEF Steps, ArchOf
    <2>7. PushInv(j)'
      BY <1>1, <2>3, <2>4, <2>5 DEF PushInv, At
    <2>8. DoneInv(j)'
      BY <1>1, <2>4, <2>5, DoneKeeps DEF PushStep
    <2> QED BY <2>3, <2>5, <2>6, <2>7, <2>8, PushStepKeeps
  <1> QED BY <1>3, <1>4, <1>5

LEMMA CreateReleaseKeeps ==
  ASSUME CodePushInv, NEW j \in Jobs, NEW o \in Outcomes, CreateRelease(j, o)
  PROVE  CodePushInv'
  <1>1. /\ CodePushTypeOK /\ ServerInv /\ PushInv(j) /\ At(j, "create")
        /\ "create" \in Steps \ {"abi"}
    BY JobAgain DEF CreateRelease, Steps
  <1>2. BuildOf(j) \in Builds /\ Line(j).cmd # "release"
    BY <1>1, InLoop DEF StepsOf
  <1>3. job[j].made.base = BuildOf(j)
    BY <1>1, <1>2 DEF PushInv, At
  <1>4. /\ releases' = WithRelease(o, job[j].made.base)
        /\ patches' = patches /\ aab' = aab /\ starts' = starts
    BY DEF CreateRelease
  <1>5. /\ releases' \in Seq(ReleaseRecords) /\ Grows /\ ServerInv'
        /\ Reported(o) =>
             /\ ReleaseIn(releases', job[j].made.base) \in DOMAIN releases'
             /\ releases'[ReleaseIn(releases', job[j].made.base)].build
                  = job[j].made.base
    BY <1>1, <1>2, <1>3, <1>4, RegisterCall
  <1>6. /\ patches' \in Seq(PatchRecords)
        /\ aab' \in [Jobs -> {"none", "cut", "lost", "unsigned", "signed"}]
    BY <1>1, <1>4 DEF CodePushTypeOK
  <1>7. CASE ~Reported(o)
    BY <1>4, <1>5, <1>6, <1>7, FailKeeps DEF CreateRelease
  <1>8. CASE Reported(o)
    <2>1. PICK r \in DOMAIN releases' :
            /\ releases'[r].build = job[j].made.base
            /\ job' = [job EXCEPT ![j].pc = "draft", ![j].release = r]
      BY <1>5, <1>8 DEF CreateRelease
    <2> QED BY <1>1, <1>4, <1>5, <1>6, <2>1, PairedKeeps
  <1> QED BY <1>7, <1>8

(* The patch is drafted on the release of its base.                          *)
LEMMA DraftKeeps ==
  ASSUME CodePushInv, NEW j \in Jobs, NEW o \in Outcomes, DraftPatch(j, o)
  PROVE  CodePushInv'
  <1>1. /\ CodePushTypeOK /\ ServerInv /\ PushInv(j) /\ DoneInv(j) /\ At(j, "draft")
        /\ "draft" \in Steps \ {"abi"}
    BY JobAgain DEF DraftPatch, Steps
  <1>2. /\ job[j].i \in Nat /\ job[j].i <= Len(Line(j).archs)
        /\ Len(Line(j).archs) \in Nat /\ Line(j).release <= Len(releases)
        /\ Line(j).cmd = "android" => ArchOf(j) \in Engined
        /\ "draft" \in StepsOf(Line(j).cmd)
        /\ Line(j).cmd \in {"release", "push", "android", "ios"}
    BY <1>1, InLoop
  <1>3. Line(j).cmd # "release" /\ "upload" \in StepsOf(Line(j).cmd)
    BY <1>2 DEF StepsOf
  <1>4. /\ job[j].release \in DOMAIN releases
        /\ Pairs(j) => job[j].made.base = releases[job[j].release].build
        /\ Line(j).stored \/ job[j].made.base = BuildOf(j)
    BY <1>1, <1>3 DEF PushInv, At
  <1>5. job[j].release \in Nat \ {0} /\ job[j].made \in Containers
    BY <1>1, <1>4, JobFacts DEF CodePushTypeOK, JobRecords
  <1>6. /\ patches' = WithDraft(o, job[j].release, job[j].made)
        /\ releases' = releases /\ aab' = aab /\ starts' = starts
    BY DEF DraftPatch
  <1>7. /\ patches' \in Seq(PatchRecords) /\ Grows /\ ServerInv'
        /\ Reported(o) =>
             /\ Len(patches') \in DOMAIN patches' /\ Len(patches') \in Nat \ {0}
             /\ patches'[Len(patches')].release = job[j].release
             /\ patches'[Len(patches')].made = job[j].made
    BY <1>1, <1>5, <1>6, DraftCall
  <1>8. /\ releases' \in Seq(ReleaseRecords)
        /\ aab' \in [Jobs -> {"none", "cut", "lost", "unsigned", "signed"}]
    BY <1>1, <1>6 DEF CodePushTypeOK
  <1>9. CASE ~Reported(o)
    BY <1>6, <1>7, <1>8, <1>9, FailKeeps DEF DraftPatch
  <1>10. CASE Reported(o)
    <2>1. PICK p \in DOMAIN patches' :
            /\ p \in Nat \ {0} /\ patches'[p].release = job[j].release
            /\ patches'[p].made = job[j].made
            /\ job' = [job EXCEPT ![j].pc = "upload", ![j].patch = p]
      BY <1>7, <1>10 DEF DraftPatch
    <2> DEFINE x == [job[j] EXCEPT !.pc = "upload", !.patch = p]
    <2>2. job \in [Jobs -> JobRecords] /\ job[j] \in JobRecords
      BY <1>1 DEF CodePushTypeOK
    <2>3. /\ x \in JobRecords /\ x.pc = "upload" /\ x.i = job[j].i /\ x.patch = p
          /\ x.line = job[j].line /\ x.done = job[j].done
      BY <2>1, <2>2 DEF JobRecords, Steps
    <2>4. job' = [job EXCEPT ![j] = x]
      BY <2>1
    <2> HIDE DEF x
    <2>5. /\ Moves(j) /\ job'[j].pc = "upload" /\ job'[j].i = job[j].i
          /\ job'[j].patch = p /\ job'[j].line = job[j].line
          /\ job'[j].done = job[j].done
      BY <1>6, <2>2, <2>3, <2>4 DEF Moves
    <2>6. PushStep(j) /\ Line(j)' = Line(j)
      BY <1>6, <1>7, <1>8, <2>5 DEF PushStep, Line
    <2>7. ControlInv(j)'
      BY <1>2, <1>3, <1>6, <2>5, ControlKeeps DEF Steps, ArchOf
    <2>8. PushInv(j)'
      BY <2>1, <2>5, <2>6 DEF PushInv, At
    <2>9. DoneInv(j)'
      <3>1. Pairs(j)' = Pairs(j)
        BY <2>6 DEF Pairs
      <3>2. DraftedFor(j, job[j].i, p)'
        BY <1>4, <1>6, <2>1, <2>5, <2>6, <3>1 DEF DraftedFor, BuildOf, ArchOf
      <3>3. DoneInv(j) => \A d \in job[j].done :
              /\ DraftedFor(j, d[1], d[2])'
              /\ patches'[d[2]].artifact
              /\ Line(j)'.publish => patches'[d[2]].status # "draft"
        BY <1>7, <2>5, DonePatches
      <3> QED BY <1>1, <1>3, <2>5, <2>6, <3>2, <3>3 DEF DoneInv
    <2> QED BY <1>3, <2>6, <2>7, <2>8, <2>9, PushStepKeeps
  <1> QED BY <1>9, <1>10

(* What a push knows between its draft and its end.                          *)
LEMMA PushedFacts ==
  ASSUME CodePushInv, NEW j \in Jobs, NEW at \in {"upload", "publish"}, At(j, at)
  PROVE  /\ CodePushTypeOK /\ ServerInv /\ DoneInv(j)
         /\ job[j].i \in Nat \ {0} /\ job[j].i <= Len(Line(j).archs)
         /\ Len(Line(j).archs) \in Nat
         /\ job[j].i \in DOMAIN Line(j).archs /\ Line(j).release <= Len(releases)
         /\ Line(j).cmd \in {"push", "android", "ios"}
         /\ Line(j).cmd = "android" => ArchOf(j) \in Engined
         /\ job[j].patch \in DOMAIN patches /\ job[j].patch \in Nat \ {0}
         /\ DraftedFor(j, job[j].i, job[j].patch)
         /\ at = "publish" => patches[job[j].patch].artifact
  <1>1. /\ CodePushTypeOK /\ ServerInv /\ PushInv(j) /\ DoneInv(j)
        /\ at \in Steps \ {"abi"}
    BY JobAgain DEF Steps
  <1>2. /\ job[j].i \in Nat \ {0} /\ job[j].i <= Len(Line(j).archs)
        /\ Len(Line(j).archs) \in Nat
        /\ job[j].i \in DOMAIN Line(j).archs /\ Line(j).release <= Len(releases)
        /\ Line(j).cmd = "android" => ArchOf(j) \in Engined
        /\ at \in StepsOf(Line(j).cmd)
        /\ Line(j).cmd \in {"release", "push", "android", "ios"}
    BY <1>1, InLoop
  <1>3. Line(j).cmd \in {"push", "android", "ios"}
    BY <1>2 DEF StepsOf
  <1>4. job[j].patch # 0 /\ (at = "publish" => patches[job[j].patch].artifact)
    BY <1>1, <1>3 DEF PushInv, At
  <1>5. DraftedFor(j, job[j].i, job[j].patch)
    BY <1>1, <1>4 DEF DoneInv
  <1>6. job[j].patch \in DOMAIN patches
    BY <1>5 DEF DraftedFor
  <1>7. job[j].patch \in Nat \ {0}
    BY <1>1, <1>4, JobFacts DEF JobRecords
  <1> QED BY <1>1, <1>2, <1>3, <1>4, <1>5, <1>6, <1>7

(* The architecture is done, with a patch that is uploaded and, if asked,    *)
(* published.                                                                *)
LEMMA PatchDoneKeeps ==
  ASSUME CodePushInv, NEW j \in Jobs, NEW at \in {"upload", "publish"}, At(j, at),
         PatchDone(j), Grows, ServerInv', starts' = starts, aab' = aab,
         releases' \in Seq(ReleaseRecords), patches' \in Seq(PatchRecords),
         patches'[job[j].patch].artifact,
         Line(j).publish => patches'[job[j].patch].status # "draft"
  PROVE  CodePushInv'
  <1>1. /\ CodePushTypeOK /\ DoneInv(j)
        /\ job[j].i \in Nat \ {0} /\ job[j].i <= Len(Line(j).archs)
        /\ Len(Line(j).archs) \in Nat
        /\ job[j].i \in DOMAIN Line(j).archs /\ Line(j).release <= Len(releases)
        /\ Line(j).cmd \in {"push", "android", "ios"}
        /\ Line(j).cmd = "android" => ArchOf(j) \in Engined
        /\ job[j].patch \in DOMAIN patches /\ job[j].patch \in Nat \ {0}
        /\ DraftedFor(j, job[j].i, job[j].patch)
    BY PushedFacts
  <1>2. PICK pc : pc = IF Line(j).cmd = "android" THEN "abi" ELSE "ok"
    OBVIOUS
  <1>3. PICK d : d = <<job[j].i, job[j].patch>>
    OBVIOUS
  <1> DEFINE x == [job[j] EXCEPT !.pc = pc, !.i = @ + 1, !.release = 0, !.patch = 0,
                                 !.made = NoPatch, !.done = @ \cup {d}]
  <1>4. job \in [Jobs -> JobRecords] /\ job[j] \in JobRecords
    BY <1>1 DEF CodePushTypeOK
  <1>5. /\ d \in Nat \X Nat /\ d[1] = job[j].i /\ d[2] = job[j].patch
        /\ job[j].i + 1 \in Nat \ {0}
        /\ NoPatch \in Containers /\ pc \in Ended \cup Steps
    BY <1>1, <1>2, <1>3 DEF Containers, NoPatch, IdentityPatch, PatchKinds, Ended, Steps
  <1>6. job' = [job EXCEPT ![j] = x]
    BY <1>2, <1>3 DEF PatchDone
  <1>7. /\ x \in JobRecords /\ x.pc = pc /\ x.i = job[j].i + 1 /\ x.patch = 0
        /\ x.line = job[j].line /\ x.done = job[j].done \cup {d}
    BY <1>4, <1>5 DEF JobRecords
  <1> HIDE DEF x
  <1>8. /\ Moves(j) /\ job'[j].pc = pc /\ job'[j].i = job[j].i + 1
        /\ job'[j].patch = 0 /\ job'[j].line = job[j].line
        /\ job'[j].done = job[j].done \cup {d}
    BY <1>4, <1>6, <1>7 DEF Moves
  <1>9. PushStep(j) /\ Line(j)' = Line(j)
    BY <1>8 DEF PushStep, Line
  <1>10. ControlInv(j)'
    <2>1. Line(j).release <= Len(releases')
      BY <1>1, JobFacts DEF Grows, CodePushTypeOK
    <2>2. job[j].i + 1 <= Len(Line(j).archs) + 1
      BY <1>1
    <2>3. pc \in {"ok"} \cup Steps /\ pc \in {"ok"} \cup StepsOf(Line(j).cmd)
          /\ pc \in {"ok", "abi"}
      BY <1>2 DEF Steps, StepsOf
    <2> QED BY <1>1, <1>5, <1>8, <2>1, <2>2, <2>3, ControlKeeps DEF Steps
  <1>11. PushInv(j)'
    <2>1. pc = "ok" => Len(Line(j).archs) = 1
      BY <1>1, <1>2, JobFacts
    <2>2. pc = "ok" => job[j].i + 1 > Len(Line(j).archs)
      <3>1. job[j].i \in Nat /\ job[j].i >= 1
        BY <1>1
      <3>2. job[j].i + 1 > 1
        BY <3>1
      <3> QED BY <2>1, <3>2
    <2> QED BY <1>8, <1>9, <1>2, <2>2 DEF PushInv, At
  <1>12. DoneInv(j)'
    <2>1. \A e \in job[j].done :
            /\ DraftedFor(j, e[1], e[2])'
            /\ patches'[e[2]].artifact
            /\ Line(j)'.publish => patches'[e[2]].status # "draft"
      BY <1>1, <1>8, DonePatches
    <2>2. DraftedFor(j, d[1], d[2])'
      <3>1. DraftedFor(j, d[1], d[2])
        BY <1>1, <1>5
      <3> QED BY <1>8, <3>1, StillDrafted
    <2>3. /\ patches'[d[2]].artifact
          /\ Line(j)'.publish => patches'[d[2]].status # "draft"
      BY <1>5, <1>9
    <2>4. {k \in DOMAIN Line(j).archs :
             /\ k < job[j].i + 1
             /\ Line(j).cmd = "android" => Line(j).archs[k] \in Engined} =
          {k \in DOMAIN Line(j).archs :
             /\ k < job[j].i
             /\ Line(j).cmd = "android" => Line(j).archs[k] \in Engined}
          \cup {job[j].i}
      <3>1. \A k \in DOMAIN Line(j).archs :
              k < job[j].i + 1 <=> k < job[j].i \/ k = job[j].i
        BY <1>1, JobFacts
      <3> QED BY <1>1, <3>1 DEF ArchOf
    <2>5. {e[1] : e \in job[j].done \cup {d}} = {e[1] : e \in job[j].done} \cup {d[1]}
      OBVIOUS
    <2>6. {e[1] : e \in job[j].done} =
            {k \in DOMAIN Line(j).archs :
               /\ k < job[j].i
               /\ Line(j).cmd = "android" => Line(j).archs[k] \in Engined}
      BY <1>1 DEF DoneInv
    <2>7. {e[1] : e \in job'[j].done} =
            {k \in DOMAIN Line(j).archs :
               /\ k < job'[j].i
               /\ Line(j).cmd = "android" => Line(j).archs[k] \in Engined}
      BY <1>5, <1>8, <2>4, <2>5, <2>6
    <2>8. \A e \in job'[j].done :
            /\ DraftedFor(j, e[1], e[2])'
            /\ patches'[e[2]].artifact
            /\ Line(j)'.publish => patches'[e[2]].status # "draft"
      BY <1>8, <2>1, <2>2, <2>3
    <2> QED BY <1>8, <1>9, <2>7, <2>8 DEF DoneInv
  <1> QED BY <1>1, <1>9, <1>10, <1>11, <1>12, PushStepKeeps

LEMMA UploadKeeps ==
  ASSUME CodePushInv, NEW j \in Jobs, NEW o \in Outcomes, UploadPatch(j, o)
  PROVE  CodePushInv'
  <1>1. /\ At(j, "upload") /\ releases' = releases /\ aab' = aab /\ starts' = starts
        /\ patches' = WithArtifact(o, job[j].patch)
    BY DEF UploadPatch
  <1>2. /\ CodePushTypeOK /\ ServerInv /\ DoneInv(j)
        /\ job[j].i \in Nat \ {0} /\ job[j].i <= Len(Line(j).archs)
        /\ Len(Line(j).archs) \in Nat
        /\ Line(j).release <= Len(releases)
        /\ Line(j).cmd \in {"push", "android", "ios"}
        /\ Line(j).cmd = "android" => ArchOf(j) \in Engined
        /\ job[j].patch \in DOMAIN patches /\ job[j].patch \in Nat \ {0}
    BY <1>1, PushedFacts
  <1>3. /\ patches' \in Seq(PatchRecords) /\ Grows /\ ServerInv'
        /\ Reported(o) => patches'[job[j].patch].artifact
    BY <1>1, <1>2, UploadCall
  <1>4. /\ releases' \in Seq(ReleaseRecords)
        /\ aab' \in [Jobs -> {"none", "cut", "lost", "unsigned", "signed"}]
    BY <1>1, <1>2 DEF CodePushTypeOK
  <1>5. CASE ~Reported(o)
    BY <1>1, <1>3, <1>4, <1>5, FailKeeps DEF UploadPatch
  <1>6. CASE Reported(o) /\ ~Line(j).publish
    BY <1>1, <1>3, <1>4, <1>6, PatchDoneKeeps DEF UploadPatch
  <1>7. CASE Reported(o) /\ Line(j).publish
    <2>1. To(j, "publish")
      BY <1>7 DEF UploadPatch
    <2>2. /\ Moves(j) /\ job'[j].pc = "publish" /\ job'[j].i = job[j].i
          /\ job'[j].made = job[j].made /\ job'[j].release = job[j].release
          /\ job'[j].line = job[j].line /\ job'[j].patch = job[j].patch
          /\ job'[j].done = job[j].done
      BY <1>1, <1>2, <2>1, GoesTo DEF Steps
    <2>3. PushStep(j) /\ Line(j)' = Line(j)
      BY <1>1, <1>3, <1>4, <2>2 DEF PushStep, Line
    <2>4. "publish" \in StepsOf(Line(j).cmd)
      BY <1>2 DEF StepsOf
    <2>5. ControlInv(j)'
      BY <1>1, <1>2, <2>2, <2>4, ControlKeeps DEF Steps, ArchOf
    <2>6. PushInv(j)'
      BY <1>2, <1>3, <1>7, <2>2, <2>3 DEF PushInv, At
    <2>7. DoneInv(j)'
      BY <1>2, <1>3, <2>2, DoneKeeps
    <2> QED BY <1>2, <2>3, <2>5, <2>6, <2>7, PushStepKeeps
  <1> QED BY <1>5, <1>6, <1>7

LEMMA PublishKeeps ==
  ASSUME CodePushInv, NEW j \in Jobs, NEW o \in Outcomes, PublishPatch(j, o)
  PROVE  CodePushInv'
  <1>1. /\ At(j, "publish") /\ releases' = releases /\ aab' = aab /\ starts' = starts
        /\ patches' = WithStatus(o, job[j].patch, "live")
    BY DEF PublishPatch
  <1>2. /\ CodePushTypeOK /\ ServerInv
        /\ job[j].patch \in DOMAIN patches
        /\ patches[job[j].patch].artifact
    BY <1>1, PushedFacts
  <1>3. /\ patches' \in Seq(PatchRecords) /\ Grows /\ ServerInv'
        /\ Reported(o) => patches'[job[j].patch].status # "draft"
    BY <1>1, <1>2, StatusCall
  <1>4. /\ releases' \in Seq(ReleaseRecords)
        /\ aab' \in [Jobs -> {"none", "cut", "lost", "unsigned", "signed"}]
    BY <1>1, <1>2 DEF CodePushTypeOK
  <1>5. CASE ~Reported(o)
    BY <1>1, <1>3, <1>4, <1>5, FailKeeps DEF PublishPatch
  <1>6. CASE Reported(o)
    <2>1. patches'[job[j].patch].artifact
      BY <1>2, <1>3 DEF Grows
    <2> QED BY <1>1, <1>3, <1>4, <1>6, <2>1, PatchDoneKeeps DEF PublishPatch
  <1> QED BY <1>5, <1>6

-----------------------------------------------------------------------------
(* `patch publish` and `patch recall` on a patch a user names.               *)
LEMMA UserCallKeeps ==
  ASSUME CodePushInv, NEW p \in DOMAIN patches,
         \/ UserCall(p, {"draft"}, "published")
         \/ UserCall(p, {"live", "published"}, "recalled")
  PROVE  CodePushInv'
  <1>1. CodePushTypeOK /\ ServerInv
    BY DEF CodePushInv
  <1>2. UNCHANGED <<releases, aab, job, starts>>
    BY DEF UserCall
  <1>3. PICK o \in Outcomes, status \in {"published", "recalled"} :
          patches' = WithStatus(o, p, status)
    BY DEF UserCall
  <1>4. patches' \in Seq(PatchRecords) /\ Grows /\ ServerInv'
    BY <1>1, <1>2, <1>3, StatusCall
  <1>5. CodePushTypeOK'
    BY <1>1, <1>2, <1>4 DEF CodePushTypeOK
  <1>6. ASSUME NEW j \in Jobs PROVE JobInv(j)'
    BY <1>1, <1>2, <1>4, <1>5, OthersKeep DEF CodePushInv
  <1> QED BY <1>4, <1>5, <1>6 DEF CodePushInv

LEMMA IdleFacts ==
  /\ Idle \in JobRecords /\ Idle.i = 1 /\ Idle.patch = 0 /\ Idle.done = {}
  /\ Idle.made = NoPatch /\ Idle.pc = "idle"
  <1>1. (CHOOSE c \in Lines : TRUE) \in Lines
    BY CommandsAssumption
  <1>2. NoPatch \in Containers
    BY DEF Containers, NoPatch, IdentityPatch, PatchKinds
  <1> QED BY <1>1, <1>2 DEF Idle, JobRecords, Ended

LEMMA StartKeeps ==
  ASSUME CodePushInv, NEW j \in Jobs, NEW c \in Commands[j], Start(j, c)
  PROVE  CodePushInv'
  <1>1. CodePushTypeOK /\ ServerInv
    BY DEF CodePushInv
  <1>2. c \in Lines /\ c \in CommandSet
    BY CommandsAssumption DEF Lines
  <1>3. /\ c.archs \in Seq(Archs) /\ c.release \in Nat
        /\ c.cmd \in {"release", "push", "android", "ios"}
        /\ c.release > 0 => c.cmd \in {"push", "ios"}
    BY <1>2, CommandsAssumption DEF CommandSet
  <1>4. /\ c.archs # <<>> /\ c.release <= Len(releases) /\ starts < MaxStarts
        /\ starts' = starts + 1 /\ UNCHANGED <<releases, patches, aab>>
    BY DEF Start
  <1>5. Len(c.archs) \in Nat /\ 1 <= Len(c.archs)
    BY <1>3, <1>4
  <1> DEFINE pc == CASE c.cmd = "release" -> "build"
                     [] c.cmd = "android" -> "abi"
                     [] c.cmd = "ios"     -> "pack"
                     [] OTHER             -> "prepare"
             x  == [Idle EXCEPT !.pc = pc, !.line = c, !.release = c.release]
  <1>6. pc \in StepsOf(c.cmd) /\ pc \in Steps /\ pc \in {"build", "abi", "pack", "prepare"}
        /\ (pc = "prepare" \/ pc = "pack" => c.cmd \in {"push", "ios"})
        /\ (pc = "abi" => c.cmd = "android")
        /\ (pc = "prepare" => c.cmd = "push")
        /\ (pc = "build" => c.cmd = "release")
    BY <1>3 DEF StepsOf, Steps
  <1>7. job' = [job EXCEPT ![j] = x]
    BY DEF Start
  <1> HIDE DEF pc
  <1>8. /\ x \in JobRecords /\ x.pc = pc /\ x.line = c /\ x.i = 1
        /\ x.release = c.release /\ x.patch = 0 /\ x.done = {} /\ x.made = NoPatch
    <2>1. /\ Idle \in JobRecords /\ Idle.i = 1 /\ Idle.patch = 0 /\ Idle.done = {}
          /\ Idle.made = NoPatch
      BY IdleFacts
    <2> HIDE DEF Idle
    <2>2. pc \in Ended \cup Steps
      BY <1>6
    <2> QED BY <1>2, <1>3, <2>1, <2>2 DEF JobRecords
  <1> HIDE DEF x
  <1>9. /\ job' \in [Jobs -> JobRecords]
        /\ \A e \in Jobs : e # j => job'[e] = job[e]
        /\ job'[j] = x
    BY <1>1, <1>7, <1>8 DEF CodePushTypeOK
  <1>10. CodePushTypeOK'
    BY <1>1, <1>4, <1>9, CommandsAssumption DEF CodePushTypeOK
  <1>11. Grows /\ ServerInv'
    BY <1>1, <1>4, NoCallSent
  <1>12. ASSUME NEW e \in Jobs, e # j PROVE JobInv(e)'
    BY <1>1, <1>4, <1>9, <1>10, <1>11, <1>12, OthersKeep DEF CodePushInv
  <1>13. JobInv(j)'
    <2>1. Line(j)' = c /\ job'[j].pc = pc /\ job'[j].i = 1 /\ job'[j].patch = 0
          /\ job'[j].done = {} /\ job'[j].release = c.release
          /\ job'[j].made = NoPatch /\ At(j, pc)'
      BY <1>8, <1>9 DEF Line, At
    <2>2. ControlInv(j)'
      <3>1. CASE pc = "abi"
        BY <1>4, <1>5, <1>6, <2>1, <3>1 DEF ControlInv, Ended, At
      <3>2. CASE pc # "abi"
        <4>1. c.cmd # "android"
          BY <1>6, <3>2
        <4>2. 1 <= Len(c.archs) + 0
          BY <1>5
        <4> QED BY <1>4, <1>6, <2>1, <3>2, <4>1, <4>2 DEF ControlInv, Ended, At
      <3> QED BY <3>1, <3>2
    <2>3. ReleaseInv(j)' /\ PushInv(j)'
      BY <1>6, <2>1 DEF ReleaseInv, PushInv, At
    <2>4. DoneInv(j)'
      <3>1. \A k \in DOMAIN c.archs : ~(k < 1)
        BY <1>3
      <3> QED BY <2>1, <3>1 DEF DoneInv
    <2> QED BY <2>2, <2>3, <2>4 DEF JobInv
  <1> QED BY <1>10, <1>11, <1>12, <1>13 DEF CodePushInv

LEMMA CodePushInitInv == CodePushInit => CodePushInv
  <1> SUFFICES ASSUME CodePushInit PROVE CodePushInv
    OBVIOUS
  <1>3. CodePushTypeOK
    BY IdleFacts, CommandsAssumption DEF CodePushInit, CodePushTypeOK
  <1>4. ServerInv
    BY DEF CodePushInit, ServerInv
  <1>5. ASSUME NEW j \in Jobs PROVE JobInv(j)
    <2>1. /\ job[j].pc = "idle" /\ job[j].i = 1 /\ job[j].patch = 0 /\ job[j].done = {}
      BY DEF CodePushInit, Idle
    <2>2. ControlInv(j) /\ ReleaseInv(j) /\ PushInv(j)
      BY <2>1 DEF ControlInv, ReleaseInv, PushInv, At, Ended
    <2>3. DoneInv(j)
      <3>1. \A k \in DOMAIN Line(j).archs : ~(k < 1)
        BY <1>3, JobFacts
      <3> QED BY <2>1, <3>1 DEF DoneInv
    <2> QED BY <2>2, <2>3 DEF JobInv
  <1> QED BY <1>3, <1>4, <1>5 DEF CodePushInv

LEMMA CodePushStep == CodePushInv /\ [CodePushNext]_cpVars => CodePushInv'
  <1> SUFFICES ASSUME CodePushInv, [CodePushNext]_cpVars PROVE CodePushInv'
    OBVIOUS
  <1>1. CASE UNCHANGED cpVars
    <2>1. UNCHANGED <<releases, patches, aab, job, starts>>
      BY <1>1 DEF cpVars
    <2>2. CodePushTypeOK' /\ Grows /\ ServerInv'
      BY <2>1, NoCallSent DEF CodePushInv, CodePushTypeOK
    <2>3. ASSUME NEW j \in Jobs PROVE JobInv(j)'
      BY <2>1, <2>2, OthersKeep DEF CodePushInv
    <2> QED BY <2>2, <2>3 DEF CodePushInv
  <1>2. ASSUME NEW j \in Jobs, NEW c \in Commands[j], Start(j, c) PROVE CodePushInv'
    BY <1>2, StartKeeps
  <1>3. ASSUME NEW j \in Jobs, CommandStep(j) PROVE CodePushInv'
    BY <1>3, BuildKeeps, SignKeeps, AndroidKeeps, PreparePushKeeps, PackKeeps,
       PrepareIosKeeps, RegisterKeeps, StoreKeeps, MatchKeeps, CreateReleaseKeeps,
       DraftKeeps, UploadKeeps, PublishKeeps
       DEF CommandStep
  <1>4. ASSUME NEW p \in DOMAIN patches,
               \/ UserCall(p, {"draft"}, "published")
               \/ UserCall(p, {"live", "published"}, "recalled")
        PROVE  CodePushInv'
    BY <1>4, UserCallKeeps
  <1> QED BY <1>1, <1>2, <1>3, <1>4 DEF CodePushNext

(* What each command knows at each step, while others run, answers are lost  *)
(* and users publish and recall, is so (release.go, patch.go).               *)
THEOREM CodePushInvariant == CodePushSpec => []CodePushInv
  BY CodePushInitInv, CodePushStep, PTL DEF CodePushSpec

(* For any number of jobs, command lines and architectures, a `release` that *)
(* ends well has registered every build it assembled, unless the user asked  *)
(* for one that cannot be patched (release.go:317), and has what it printed  *)
(* as the app bundle: whole, signed or not, or cut short by a Close whose    *)
(* error it dropped (release.go:471-473).                                    *)
THEOREM ReleasesArePatchable == CodePushSpec => []ShippedIsPatchable
  <1>1. CodePushInv => ShippedIsPatchable
    <2> SUFFICES ASSUME CodePushInv, NEW j \in Jobs, At(j, "ok"), Line(j).cmd = "release"
                 PROVE  /\ aab[j] \in {"signed", "unsigned", "lost"}
                        /\ \/ ~Line(j).login /\ Line(j).noRegister
                           \/ \A k \in DOMAIN Line(j).archs :
                                Registered(<<Line(j).archs[k], Line(j).ver>>)
      BY DEF ShippedIsPatchable
    <2>1. ReleaseInv(j)
      BY JobAgain
    <2> QED BY <2>1 DEF ReleaseInv, BuildsRegistered, At
  <1> QED BY <1>1, CodePushInvariant, PTL

(* A patch is drafted on the release of the build it was made from, whoever  *)
(* registered that release, and what a push made live was uploaded           *)
(* (patch.go:262, release.go:308).                                           *)
THEOREM PatchesArePaired == CodePushSpec => []PatchesAreSound
  <1>1. CodePushInv => PatchesAreSound
    <2> SUFFICES ASSUME CodePushInv PROVE PatchesAreSound
      OBVIOUS
    <2>1. ASSUME NEW j \in Jobs, NEW p \in DOMAIN patches,
                 p = job[j].patch \/ \E d \in job[j].done : d[2] = p,
                 Line(j).release = 0 \/ Line(j).stored
          PROVE  patches[p].made.base = releases[patches[p].release].build
      <3>1. CodePushTypeOK /\ DoneInv(j)
        BY JobAgain
      <3>2. p # 0
        BY <3>1 DEF CodePushTypeOK
      <3>3. \E k : DraftedFor(j, k, p)
        BY <2>1, <3>1, <3>2 DEF DoneInv
      <3> QED BY <2>1, <3>3 DEF DraftedFor, Pairs
    <2> QED BY <2>1 DEF PatchesAreSound, CodePushInv, ServerInv
  <1> QED BY <1>1, CodePushInvariant, PTL

(* `patch android` makes its patches one after the other and stops at the    *)
(* first failure: what it reports done is uploaded, for its own base, and    *)
(* published if asked, and it ends well only when every architecture with an *)
(* engine is done (patchandroid.go:151).                                     *)
THEOREM PatchesComeInOrder == CodePushSpec => []PatchedInOrder
  <1>1. CodePushInv => PatchedInOrder
    <2> SUFFICES ASSUME CodePushInv, NEW j \in Jobs, Line(j).cmd # "release"
                 PROVE  /\ {d[1] : d \in job[j].done} =
                             {k \in DOMAIN Line(j).archs :
                                /\ k < job[j].i
                                /\ Line(j).cmd = "android" =>
                                     Line(j).archs[k] \in Engined}
                        /\ \A d \in job[j].done :
                             LET p == patches[d[2]] IN
                             /\ p.artifact
                             /\ \/ Line(j).stored
                                \/ p.made.base = <<Line(j).archs[d[1]], Line(j).ver>>
                             /\ Line(j).publish => p.status # "draft"
                        /\ At(j, "ok") => job[j].i > Len(Line(j).archs)
      BY DEF PatchedInOrder
    <2>1. PushInv(j) /\ DoneInv(j)
      BY JobAgain
    <2>2. ASSUME NEW d \in job[j].done
          PROVE  /\ patches[d[2]].artifact
                 /\ \/ Line(j).stored
                    \/ patches[d[2]].made.base = <<Line(j).archs[d[1]], Line(j).ver>>
                 /\ Line(j).publish => patches[d[2]].status # "draft"
      BY <2>1 DEF DoneInv, DraftedFor
    <2> QED BY <2>1, <2>2 DEF PushInv, DoneInv
  <1> QED BY <1>1, CodePushInvariant, PTL

-----------------------------------------------------------------------------
(* The binary difference of two blobs                                        *)

(* A set of naturals that is not empty has a least element.                  *)
LEMMA Smallest ==
  ASSUME NEW T \in SUBSET Nat, T # {}
  PROVE  \E r \in T : \A q \in T : r <= q
  <1> DEFINE R == {ss \in Nat \X Nat : ss[1] < ss[2]}
  <1>1. R = OpToRel(<, Nat)
    BY DEF OpToRel
  <1>2. IsWellFoundedOn(R, Nat)
    BY <1>1, NatLessThanWellFounded
  <1>3. PICK r \in T : \A q \in T : <<q, r>> \notin R
    <2> HIDE DEF R
    <2> QED BY <1>2, WFMin
  <1>4. \A q \in T : ~(q < r)
    BY <1>3
  <1> QED BY <1>4

(* A value that is bounded is highest somewhere, and there is a first such   *)
(* place.                                                                    *)
LEMMA BestFacts ==
  ASSUME NEW n \in Nat, NEW value, NEW bound \in Nat,
         \A i \in 0..n : value[i] \in Int /\ value[i] <= bound
  PROVE  Best(n, value) \in 0..n
  <1> DEFINE Below == {bound - value[i] : i \in 0..n}
  <1>1. Below \in SUBSET Nat
    OBVIOUS
  <1>2. Below # {}
    <2>1. bound - value[0] \in Below
      OBVIOUS
    <2> QED BY <2>1
  <1>3. PICK d \in Below : \A e \in Below : d <= e
    <2> HIDE DEF Below
    <2> QED BY <1>1, <1>2, Smallest
  <1>4. PICK top \in 0..n : d = bound - value[top]
    BY <1>3
  <1>5. \A j \in 0..n : value[j] <= value[top]
    <2> TAKE j \in 0..n
    <2>1. bound - value[j] \in Below
      OBVIOUS
    <2>2. bound - value[top] <= bound - value[j]
      BY <1>3, <1>4, <2>1
    <2> QED BY <2>2
  <1> DEFINE Tops == {i \in 0..n : value[i] = value[top]}
  <1>6. Tops \in SUBSET Nat /\ top \in Tops
    OBVIOUS
  <1>7. PICK first \in Tops : \A j \in Tops : first <= j
    <2> HIDE DEF Tops
    <2> QED BY <1>6, Smallest
  <1>8. first \in 0..n /\ value[first] = value[top]
    BY <1>7
  <1>9. \A j \in 0..n : value[j] < value[first] \/ (value[j] = value[first] /\ j >= first)
    <2> TAKE j \in 0..n
    <2>1. CASE value[j] = value[top]
      <3>1. j \in Tops
        BY <2>1
      <3> QED BY <1>7, <1>8, <2>1, <3>1
    <2>2. CASE value[j] # value[top]
      BY <1>5, <1>8, <2>2
    <2> QED BY <2>1, <2>2
  <1> QED BY <1>8, <1>9 DEF Best

(* How many there can be of a range.                                         *)
LEMMA CountFacts ==
  ASSUME NEW a \in Int, NEW b \in Int, NEW T \in SUBSET (a..b)
  PROVE  /\ Cardinality(T) \in Nat
         /\ a <= b => Cardinality(T) <= b - a + 1
         /\ b < a => Cardinality(T) = 0
  <1>1. /\ IsFiniteSet(a..b)
        /\ Cardinality(a..b) = IF a > b THEN 0 ELSE b - a + 1
    BY FS_Interval
  <1>2. IsFiniteSet(T) /\ Cardinality(T) <= Cardinality(a..b)
    BY <1>1, FS_Subset
  <1>3. Cardinality(T) \in Nat
    BY <1>2, FS_CardinalityType
  <1> QED BY <1>1, <1>2, <1>3

(* A difference of bytes, added back.                                        *)
LEMMA ByteFacts ==
  ASSUME NEW x \in 0..(ByteSize - 1), NEW y \in 0..(ByteSize - 1),
         NEW rest, rest = (x - y) % ByteSize
  PROVE  rest \in 0..(ByteSize - 1) /\ (y + rest) % ByteSize = x
  <1>1. CASE x >= y
    <2>1. rest = x - y
      BY <1>1, DiffAssumption
    <2>2. x % ByteSize = x
      BY DiffAssumption
    <2>3. y + rest = x /\ rest \in 0..(ByteSize - 1)
      BY <1>1, <2>1, DiffAssumption
    <2> QED BY <2>2, <2>3
  <1>2. CASE x < y
    <2>1. rest = x - y + ByteSize
      BY <1>2, DiffAssumption
    <2>2. (x + ByteSize) % ByteSize = x
      BY DiffAssumption
    <2>3. y + rest = x + ByteSize /\ rest \in 0..(ByteSize - 1)
      BY <1>2, <2>1, DiffAssumption
    <2> QED BY <2>2, <2>3
  <1> QED BY <1>1, <1>2, DiffAssumption

(* The blobs are sequences of bytes.                                         *)
LEMMA BlobFacts ==
  ASSUME DiffTypeOK
  PROVE  /\ OldSize \in Nat /\ NewSize \in Nat
         /\ \A i \in 0..(OldSize - 1) : O(i) \in 0..(ByteSize - 1)
         /\ \A i \in 0..(NewSize - 1) : N(i) \in 0..(ByteSize - 1)
  <1>1. PICK k \in 0..MaxOld : old \in [1..k -> 0..(ByteSize - 1)]
    BY DEF DiffTypeOK, Blobs
  <1>2. PICK l \in 0..MaxNew : new \in [1..l -> 0..(ByteSize - 1)]
    BY DEF DiffTypeOK, Blobs
  <1>3. k \in Nat /\ l \in Nat
    BY DiffAssumption
  <1>4. OldSize = k /\ NewSize = l
    BY <1>1, <1>2, <1>3 DEF OldSize, NewSize
  <1> QED BY <1>1, <1>2, <1>3, <1>4 DEF O, N

(* A match ends within both blobs.                                           *)
LEMMA MatchLenFacts ==
  ASSUME DiffTypeOK, NEW p \in 0..OldSize, NEW s \in 0..NewSize
  PROVE  MatchLen(p, s) \in 0..(NewSize - s)
  <1> DEFINE n == Smaller(OldSize - p, NewSize - s)
             Ends == {k \in 0..n : k = n \/ O(p + k) # N(s + k)}
  <1>1. n \in Nat /\ n <= NewSize - s
    BY BlobFacts DEF Smaller
  <1>2. Ends \in SUBSET Nat /\ n \in Ends
    BY <1>1
  <1>3. PICK k \in Ends : \A j \in Ends : k <= j
    <2> HIDE DEF Ends
    <2> QED BY <1>2, Smallest
  <1>4. k \in 0..n /\ (k = n \/ O(p + k) # N(s + k))
    BY <1>3
  <1>5. \A i \in 0..(k - 1) : O(p + i) = N(s + i)
    <2> TAKE i \in 0..(k - 1)
    <2>1. i \in 0..n /\ i < k
      BY <1>1, <1>4
    <2>2. i \notin Ends
      BY <1>3, <1>4, <2>1
    <2> QED BY <2>1, <2>2
  <1> HIDE DEF n
  <1>6. MatchLen(p, s) \in 0..n
    BY <1>4, <1>5 DEF MatchLen, n
  <1> QED BY <1>1, <1>6, BlobFacts

-----------------------------------------------------------------------------
(* The stretches that are emitted *)

LEMMA ScanTypes ==
  ASSUME DiffTypeOK
  PROVE  /\ scan.pc \in {"sort", "outer", "inner", "search", "emit", "done"}
         /\ scan.st \in 0..OldSize /\ scan.en \in 0..OldSize
         /\ scan.at \in 0..NewSize /\ scan.len \in 0..NewSize /\ scan.pos \in 0..OldSize
         /\ scan.score \in Int /\ scan.scored \in Nat /\ scan.lastscan \in 0..NewSize
         /\ scan.lastpos \in 0..OldSize /\ scan.lastoffset \in Int
  BY DEF DiffTypeOK

(* What follows the last match is copied up to the new one and the end of    *)
(* the base.                                                                 *)
LEMMA ForwardFacts ==
  ASSUME DiffTypeOK, scan.lastscan <= scan.at
  PROVE  Forward \in Nat /\ scan.lastscan + Forward <= scan.at
         /\ scan.lastpos + Forward <= OldSize
  <1> DEFINE Right(i) == Cardinality({k \in 0..(i - 1) :
                           O(scan.lastpos + k) = N(scan.lastscan + k)})
             upto == Smaller(scan.at - scan.lastscan, OldSize - scan.lastpos)
             value == [i \in 0..upto |-> 2 * Right(i) - i]
  <1>1. /\ upto \in Nat /\ scan.lastscan + upto <= scan.at /\ scan.lastpos + upto <= OldSize
    BY BlobFacts, ScanTypes DEF Smaller
  <1>2. \A i \in 0..upto : value[i] \in Int /\ value[i] <= upto
    <2> TAKE i \in 0..upto
    <2>1. i \in Nat /\ i <= upto
      BY <1>1
    <2>2. Right(i) \in Nat /\ Right(i) <= i
      BY <2>1, CountFacts
    <2>3. value[i] = 2 * Right(i) - i
      OBVIOUS
    <2> HIDE DEF Right, value
    <2> QED BY <1>1, <2>1, <2>2, <2>3
  <1>3. Forward = Best(upto, value)
    BY DEF Forward
  <1>4. Best(upto, value) \in 0..upto
    <2> HIDE DEF upto, value
    <2> QED BY <1>1, <1>2, BestFacts
  <1>5. /\ scan.at \in Nat /\ scan.lastscan \in Nat /\ scan.lastpos \in Nat /\ OldSize \in Nat
    BY BlobFacts, ScanTypes
  <1> HIDE DEF Right, upto, value
  <1>6. Forward \in Nat /\ Forward <= upto
    BY <1>1, <1>3, <1>4
  <1> QED BY <1>1, <1>5, <1>6

(* What precedes the new match is copied from there back to the last one     *)
(* and to the start of the base; nothing at the end of the new blob.         *)
LEMMA BackwardFacts ==
  ASSUME DiffTypeOK, scan.lastscan <= scan.at
  PROVE  Backward \in Nat /\ scan.lastscan <= scan.at - Backward
         /\ Backward <= scan.pos /\ (scan.at = NewSize => Backward = 0)
  <1> DEFINE Right(i) == Cardinality({k \in 1..i : O(scan.pos - k) = N(scan.at - k)})
             upto == Smaller(scan.at - scan.lastscan, scan.pos)
             value == [i \in 0..upto |-> 2 * Right(i) - i]
  <1>1. /\ upto \in Nat /\ scan.lastscan <= scan.at - upto /\ upto <= scan.pos
    BY BlobFacts, ScanTypes DEF Smaller
  <1>2. \A i \in 0..upto : value[i] \in Int /\ value[i] <= upto
    <2> TAKE i \in 0..upto
    <2>1. i \in Nat /\ i <= upto
      BY <1>1
    <2>2. Right(i) \in Nat /\ Right(i) <= i
      BY <2>1, CountFacts
    <2>3. value[i] = 2 * Right(i) - i
      OBVIOUS
    <2> HIDE DEF Right, value
    <2> QED BY <1>1, <2>1, <2>2, <2>3
  <1>3. Backward = IF scan.at < NewSize THEN Best(upto, value) ELSE 0
    BY DEF Backward
  <1>4. Best(upto, value) \in 0..upto
    <2> HIDE DEF upto, value
    <2> QED BY <1>1, <1>2, BestFacts
  <1> QED BY <1>1, <1>3, <1>4, BlobFacts, ScanTypes

(* However they overlap, the two stretches meet or leave a gap.              *)
LEMMA SplitFacts ==
  ASSUME DiffTypeOK, scan.lastscan <= scan.at,
         NEW f \in Nat, scan.lastscan + f <= scan.at,
         NEW b \in Nat, scan.lastscan <= scan.at - b
  PROVE  \E c \in 0..f, e \in 0..b :
           Split(f, b) = <<c, e>> /\ scan.lastscan + c <= scan.at - e
  <1> DEFINE overlap == (scan.lastscan + f) - (scan.at - b)
             Fwd(i) == N(scan.lastscan + f - overlap + i) = O(scan.lastpos + f - overlap + i)
             Bwd(i) == N(scan.at - b + i) = O(scan.pos - b + i)
             value == [n \in 0..overlap |->
                         Cardinality({i \in 0..(n - 1) : Fwd(i)})
                         - Cardinality({i \in 0..(n - 1) : Bwd(i)})]
             cut == Best(overlap, value)
  <1>1. Split(f, b) = IF overlap > 0 THEN <<f + cut - overlap, b - cut>> ELSE <<f, b>>
    BY DEF Split
  <1>2. overlap \in Int /\ scan.at \in Int /\ scan.lastscan \in Int
    BY BlobFacts, ScanTypes
  <1>3. CASE overlap > 0
    <2>1. \A n \in 0..overlap : value[n] \in Int /\ value[n] <= overlap
      <3> TAKE n \in 0..overlap
      <3>1. n \in Nat /\ n <= overlap
        BY <1>2
      <3> DEFINE fs == Cardinality({i \in 0..(n - 1) : Fwd(i)})
                 bs == Cardinality({i \in 0..(n - 1) : Bwd(i)})
      <3>2. \A T \in SUBSET (0..(n - 1)) : Cardinality(T) \in Nat /\ Cardinality(T) <= n
        <4> TAKE T \in SUBSET (0..(n - 1))
        <4>1. n - 1 \in Int /\ 0 \in Int
          BY <3>1
        <4>2. /\ Cardinality(T) \in Nat
              /\ 0 <= n - 1 => Cardinality(T) <= (n - 1) - 0 + 1
              /\ n - 1 < 0 => Cardinality(T) = 0
          BY <4>1, CountFacts
        <4> QED BY <3>1, <4>2
      <3>4. fs \in Nat /\ fs <= n
        BY <3>2
      <3>5. bs \in Nat
        BY <3>2
      <3>3. value[n] = fs - bs
        OBVIOUS
      <3> HIDE DEF fs, bs, value
      <3> QED BY <1>2, <3>1, <3>3, <3>4, <3>5
    <2>2. cut \in 0..overlap
      <3>1. overlap \in Nat
        BY <1>2, <1>3
      <3> HIDE DEF overlap, value
      <3> QED BY <2>1, <3>1, BestFacts
    <2> HIDE DEF cut
    <2>3. f + cut - overlap \in 0..f /\ b - cut \in 0..b
      BY <1>2, <1>3, <2>2
    <2>4. scan.lastscan + (f + cut - overlap) <= scan.at - (b - cut)
      BY <1>2, <1>3, <2>2
    <2> QED BY <1>1, <1>3, <2>3, <2>4
  <1>4. CASE ~(overlap > 0)
    <2>1. scan.lastscan + f <= scan.at - b
      BY <1>2, <1>4
    <2> QED BY <1>1, <1>4, <2>1
  <1> QED BY <1>3, <1>4

-----------------------------------------------------------------------------
(* Searching and scanning *)

ScanStates ==
  [pc: {"sort", "outer", "inner", "search", "emit", "done"},
   st: 0..OldSize, en: 0..OldSize,
   at: 0..NewSize, len: 0..NewSize, pos: 0..OldSize,
   score: Int, scored: Nat, lastscan: 0..NewSize,
   lastpos: 0..OldSize, lastoffset: Int]

(* A step that emits nothing and replays nothing.                            *)
LEMMA ScanKeeps ==
  ASSUME DiffInv, UNCHANGED <<old, new, delta, replay>>,
         suffixes' \in {<<>>} \cup [0..OldSize -> 0..OldSize], scan' \in ScanStates,
         scan'.lastscan = scan.lastscan, scan'.lastpos = scan.lastpos, ScanInv'
  PROVE  DiffInv'
  <1>1. OldSize' = OldSize /\ NewSize' = NewSize
    BY DEF OldSize, NewSize
  <1>2. DiffTypeOK'
    BY <1>1 DEF DiffInv, DiffTypeOK, ScanStates
  <1>3. DiffRebuilds'
    BY DEF DiffInv, DiffRebuilds
  <1>4. PICK mark \in [0..Len(delta.control) -> Marks] : Marked(mark) /\ Replayed(mark)
    BY DEF DiffInv
  <1>5. Marked(mark)'
    <2>1. ASSUME NEW t \in 1..Len(delta.control)
          PROVE  Encoded(mark[t - 1], t, mark[t])'
      <3>1. Encoded(mark[t - 1], t, mark[t])
        BY <1>4 DEF Marked
      <3>2. Copied(t)' = Copied(t) /\ Added(t)' = Added(t)
        BY DEF Copied, Added, Offtin
      <3> QED BY <1>1, <3>1, <3>2 DEF Encoded, Offtin, O, N
    <2> QED BY <1>4, <2>1 DEF Marked
  <1>7. Replayed(mark)'
    BY <1>4 DEF Replayed
  <1>6. mark \in [0..Len(delta'.control) -> Marks]
    BY <1>4
  <1> QED BY <1>2, <1>3, <1>5, <1>6, <1>7 DEF DiffInv

(* What a step that changes the scan alone must show.                        *)
LEMMA ScanOnlyKeeps ==
  ASSUME DiffInv, UNCHANGED <<old, new, suffixes, delta, replay>>,
         scan.pc \notin {"sort", "done"}, scan' \in ScanStates,
         scan'.lastscan = scan.lastscan, scan'.lastpos = scan.lastpos,
         scan'.pc # "sort", scan'.pc = "search" => scan'.at < NewSize,
         scan'.pc \in {"outer", "emit"} /\ scan'.at < NewSize =>
           scan'.at + scan'.len <= NewSize,
         scan'.pc = "done" \/ (scan'.pc = "outer" /\ scan'.at = NewSize) =>
           scan'.lastscan = NewSize,
         scan'.lastscan <= scan'.at
  PROVE  DiffInv'
  <1>1. OldSize' = OldSize /\ NewSize' = NewSize
    BY DEF OldSize, NewSize
  <1>2. suffixes \in [0..OldSize -> 0..OldSize] /\ replay.pc = "waiting"
    BY DEF DiffInv, ScanInv
  <1>3. ScanInv'
    BY <1>1, <1>2 DEF ScanInv
  <1> QED BY <1>2, <1>3, ScanKeeps

LEMMA SortKeeps == DiffInv /\ Sort => DiffInv'
  <1> SUFFICES ASSUME DiffInv, Sort PROVE DiffInv'
    OBVIOUS
  <1>1. /\ UNCHANGED <<old, new, delta, replay>> /\ scan.pc = "sort"
        /\ scan' = [scan EXCEPT !.pc = "outer"]
        /\ suffixes' \in [0..OldSize -> 0..OldSize]
    BY DEF Sort
  <1>2. OldSize' = OldSize /\ NewSize' = NewSize
    BY <1>1 DEF OldSize, NewSize
  <1>3. /\ scan \in ScanStates /\ ScanInv
        /\ scan.at + scan.len < NewSize /\ replay.pc = "waiting"
    BY <1>1 DEF DiffInv, DiffTypeOK, ScanInv, ScanStates
  <1>4. scan' \in ScanStates /\ scan'.lastscan = scan.lastscan /\ scan'.lastpos = scan.lastpos
    BY <1>1, <1>3 DEF ScanStates
  <1>5. /\ scan'.pc = "outer" /\ scan'.at = scan.at /\ scan'.len = scan.len
        /\ scan'.at < NewSize /\ scan'.at + scan'.len <= NewSize
    <2>1. scan.at < NewSize /\ scan.at + scan.len <= NewSize
      BY <1>3, BlobFacts, ScanTypes DEF DiffInv
    <2> QED BY <1>1, <1>3, <2>1 DEF ScanStates
  <1>6. ScanInv'
    <2>1. scan.lastscan <= scan.at /\ scan'.at # NewSize
      BY <1>3, <1>5, BlobFacts, ScanTypes DEF DiffInv, ScanInv
    <2> QED BY <1>1, <1>2, <1>3, <1>4, <1>5, <2>1 DEF ScanInv
  <1> QED BY <1>1, <1>4, <1>6, ScanKeeps

LEMMA NextMatchKeeps == DiffInv /\ NextMatch => DiffInv'
  <1> SUFFICES ASSUME DiffInv, NextMatch PROVE DiffInv'
    OBVIOUS
  <1>1. /\ UNCHANGED <<old, new, suffixes, delta, replay>> /\ scan.pc = "outer"
        /\ scan' = IF scan.at = NewSize THEN [scan EXCEPT !.pc = "done"]
                   ELSE [scan EXCEPT !.pc = "inner", !.at = scan.at + scan.len,
                                     !.scored = scan.at + scan.len, !.score = 0]
    BY DEF NextMatch
  <1>2. /\ scan \in ScanStates /\ DiffTypeOK
        /\ scan.at = NewSize => scan.lastscan = NewSize
        /\ scan.at < NewSize => scan.at + scan.len <= NewSize
        /\ scan.lastscan <= scan.at
    BY <1>1 DEF DiffInv, DiffTypeOK, ScanInv, ScanStates
  <1>3. CASE scan.at = NewSize
    <2>1. scan' = [scan EXCEPT !.pc = "done"]
      BY <1>1, <1>3
    <2>2. scan' \in ScanStates
      BY <1>2, <2>1 DEF ScanStates
    <2>3. /\ scan'.pc = "done" /\ scan'.lastscan = NewSize /\ scan'.lastscan <= scan'.at
          /\ scan'.lastscan = scan.lastscan /\ scan'.lastpos = scan.lastpos
      BY <1>2, <1>3, <2>1 DEF ScanStates
    <2> QED BY <1>1, <2>2, <2>3, ScanOnlyKeeps
  <1>4. CASE scan.at # NewSize
    <2> DEFINE at == scan.at + scan.len
               zero == 0
    <2>1. zero \in Int /\ at \in 0..NewSize /\ at \in Nat /\ scan.lastscan <= at
      BY <1>2, <1>4, BlobFacts, ScanTypes
    <2>2. scan' = [scan EXCEPT !.pc = "inner", !.at = at, !.scored = at, !.score = zero]
      BY <1>1, <1>4
    <2> HIDE DEF at, zero
    <2>3. scan' \in ScanStates
      BY <1>2, <2>1, <2>2 DEF ScanStates
    <2>4. /\ scan'.pc = "inner" /\ scan'.lastscan <= scan'.at
          /\ scan'.lastscan = scan.lastscan /\ scan'.lastpos = scan.lastpos
      BY <1>2, <2>1, <2>2 DEF ScanStates
    <2> QED BY <1>1, <2>3, <2>4, ScanOnlyKeeps
  <1> QED BY <1>3, <1>4

LEMMA SeekKeeps == DiffInv /\ Seek => DiffInv'
  <1> SUFFICES ASSUME DiffInv, Seek PROVE DiffInv'
    OBVIOUS
  <1> DEFINE zero == 0
  <1>1. /\ UNCHANGED <<old, new, suffixes, delta, replay>>
        /\ scan.pc = "inner" /\ scan.at < NewSize
        /\ scan' = [scan EXCEPT !.pc = "search", !.st = zero, !.en = OldSize]
    BY DEF Seek
  <1>2. /\ scan \in ScanStates /\ scan.lastscan <= scan.at
        /\ zero \in 0..OldSize /\ OldSize \in 0..OldSize
    BY BlobFacts DEF DiffInv, DiffTypeOK, ScanInv, ScanStates
  <1> HIDE DEF zero
  <1>3. scan' \in ScanStates
    BY <1>1, <1>2 DEF ScanStates
  <1>4. /\ scan'.pc = "search" /\ scan'.at < NewSize /\ scan'.lastscan <= scan'.at
        /\ scan'.lastscan = scan.lastscan /\ scan'.lastpos = scan.lastpos
    BY <1>1, <1>2 DEF ScanStates
  <1> QED BY <1>1, <1>3, <1>4, ScanOnlyKeeps

LEMMA BisectKeeps == DiffInv /\ Bisect => DiffInv'
  <1> SUFFICES ASSUME DiffInv, Bisect PROVE DiffInv'
    OBVIOUS
  <1> DEFINE x == scan.st + (scan.en - scan.st) \div 2
  <1>1. /\ UNCHANGED <<old, new, suffixes, delta, replay>>
        /\ scan.pc = "search" /\ scan.en - scan.st >= 2
        /\ scan' = [scan EXCEPT !.st = x] \/ scan' = [scan EXCEPT !.en = x]
    BY DEF Bisect
  <1>2. scan \in ScanStates /\ scan.lastscan <= scan.at /\ scan.at < NewSize /\ OldSize \in Nat
    BY <1>1, BlobFacts DEF DiffInv, DiffTypeOK, ScanInv, ScanStates
  <1>3. x \in 0..OldSize
    BY <1>1, <1>2, ScanTypes DEF DiffInv
  <1> HIDE DEF x
  <1>4. scan' \in ScanStates
    BY <1>1, <1>2, <1>3 DEF ScanStates
  <1>5. /\ scan'.pc = "search" /\ scan'.at < NewSize /\ scan'.lastscan <= scan'.at
        /\ scan'.lastscan = scan.lastscan /\ scan'.lastpos = scan.lastpos
    BY <1>1, <1>2 DEF ScanStates
  <1> QED BY <1>1, <1>4, <1>5, ScanOnlyKeeps

LEMMA ScanEndsKeeps == DiffInv /\ ScanEnds => DiffInv'
  <1> SUFFICES ASSUME DiffInv, ScanEnds PROVE DiffInv'
    OBVIOUS
  <1>1. /\ UNCHANGED <<old, new, suffixes, delta, replay>>
        /\ scan.pc = "inner" /\ scan.at = NewSize
        /\ scan' = [scan EXCEPT !.pc = "emit"]
    BY DEF ScanEnds
  <1>2. scan \in ScanStates /\ scan.lastscan <= scan.at /\ NewSize \in Nat
    BY BlobFacts DEF DiffInv, DiffTypeOK, ScanInv, ScanStates
  <1>3. scan' \in ScanStates
    BY <1>1, <1>2 DEF ScanStates
  <1>4. /\ scan'.pc = "emit" /\ scan'.at = NewSize /\ scan'.lastscan <= scan'.at
        /\ scan'.lastscan = scan.lastscan /\ scan'.lastpos = scan.lastpos
    BY <1>1, <1>2 DEF ScanStates
  <1>5. ~(scan'.at < NewSize)
    BY <1>2, <1>4
  <1> QED BY <1>1, <1>3, <1>4, <1>5, ScanOnlyKeeps

LEMMA LookUpKeeps == DiffInv /\ LookUp => DiffInv'
  <1> SUFFICES ASSUME DiffInv, LookUp PROVE DiffInv'
    OBVIOUS
  <1> DEFINE p == Found
             len == MatchLen(p, scan.at)
             upto == IF scan.at + len > scan.scored THEN scan.at + len ELSE scan.scored
             score == scan.score
                      + Cardinality({s \in scan.scored..(upto - 1) : GoesOn(s)})
             less == IF GoesOn(scan.at) THEN score - 1 ELSE score
             found == [scan EXCEPT !.pos = p, !.len = len, !.scored = upto, !.score = score]
  <1>1. /\ UNCHANGED <<old, new, suffixes, delta, replay>>
        /\ scan.pc = "search"
        /\ \/ scan' = [found EXCEPT !.pc = "emit"]
           \/ scan' = [found EXCEPT !.pc = "inner", !.at = @ + 1, !.score = less]
    BY DEF LookUp
  <1>2. /\ DiffTypeOK /\ scan \in ScanStates /\ scan.lastscan <= scan.at /\ scan.at < NewSize
        /\ suffixes \in [0..OldSize -> 0..OldSize]
    BY <1>1 DEF DiffInv, DiffTypeOK, ScanInv, ScanStates
  <1>3. p \in 0..OldSize
    BY <1>2, ScanTypes DEF Found
  <1>4. len \in 0..(NewSize - scan.at)
    <2> HIDE DEF p
    <2> QED BY <1>2, <1>3, ScanTypes, MatchLenFacts
  <1>5. upto \in Nat /\ len \in 0..NewSize /\ scan.at + len <= NewSize /\ scan.at + 1 \in 0..NewSize
    <2>1. /\ scan.at \in Nat /\ NewSize \in Nat /\ scan.at < NewSize
          /\ scan.scored \in Nat
      BY <1>2, ScanTypes, BlobFacts
    <2>2. len \in Nat /\ scan.at + len <= NewSize
      <3> HIDE DEF len
      <3> QED BY <1>4, <2>1
    <2> HIDE DEF len
    <2> QED BY <2>1, <2>2
  <1>6. score \in Int
    <2> HIDE DEF upto
    <2>1. {s \in scan.scored..(upto - 1) : GoesOn(s)} \in SUBSET (scan.scored..(upto - 1))
          /\ scan.scored \in Int /\ upto - 1 \in Int
      BY <1>2, <1>5, ScanTypes
    <2>2. Cardinality({s \in scan.scored..(upto - 1) : GoesOn(s)}) \in Nat
      BY <2>1, CountFacts
    <2> QED BY <1>2, <2>2, ScanTypes
  <1>7. less \in Int
    <2> HIDE DEF score
    <2> QED BY <1>6
  <1> HIDE DEF p, len, upto, score, less
  <1>8. /\ found \in ScanStates /\ found.at = scan.at /\ found.len = len
        /\ found.lastscan = scan.lastscan /\ found.lastpos = scan.lastpos
    BY <1>2, <1>3, <1>5, <1>6 DEF ScanStates
  <1> HIDE DEF found
  <1>9. CASE scan' = [found EXCEPT !.pc = "emit"]
    <2>1. scan' \in ScanStates
      BY <1>8, <1>9 DEF ScanStates
    <2>2. /\ scan'.pc = "emit" /\ scan'.at = scan.at /\ scan'.len = len
          /\ scan'.lastscan = scan.lastscan /\ scan'.lastpos = scan.lastpos
      BY <1>8, <1>9 DEF ScanStates
    <2> QED BY <1>1, <1>2, <1>5, <2>1, <2>2, ScanOnlyKeeps
  <1>10. CASE scan' = [found EXCEPT !.pc = "inner", !.at = @ + 1, !.score = less]
    <2>1. scan' \in ScanStates
      BY <1>5, <1>7, <1>8, <1>10 DEF ScanStates
    <2>2. /\ scan'.pc = "inner" /\ scan'.at = scan.at + 1
          /\ scan'.lastscan = scan.lastscan /\ scan'.lastpos = scan.lastpos
      BY <1>8, <1>10 DEF ScanStates
    <2>3. scan'.lastscan <= scan'.at
      BY <1>2, <2>2, ScanTypes
    <2> QED BY <1>1, <2>1, <2>2, <2>3, ScanOnlyKeeps
  <1> QED BY <1>1, <1>9, <1>10

-----------------------------------------------------------------------------
(* Emitting *)

Byte == 0..(ByteSize - 1)
CopiedBytes(f) ==
  [i \in 1..f |-> (N(scan.lastscan + i - 1) - O(scan.lastpos + i - 1)) % ByteSize]
AddedBytes(f, gap) == [i \in 1..gap |-> N(scan.lastscan + f + i - 1)]

(* A stretch put at the end of a stream moves nothing that is there.         *)
LEMMA ConcatFacts ==
  ASSUME NEW S, NEW s \in Seq(S), NEW t \in Seq(S)
  PROVE  /\ s \o t \in Seq(S) /\ Len(s \o t) = Len(s) + Len(t)
         /\ \A i \in 1..Len(s) : (s \o t)[i] = s[i]
         /\ \A i \in 1..Len(t) : (s \o t)[Len(s) + i] = t[i]
  OBVIOUS

(* What is written is read back.                                             *)
LEMMA OffsetFacts ==
  ASSUME NEW x \in Int
  PROVE  Offtout(x) \in Offset /\ Offtin(Offtout(x)) = x
  <1>1. CASE x < 0
    BY <1>1 DEF Offtout, Offtin, Offset
  <1>2. CASE ~(x < 0)
    BY <1>2 DEF Offtout, Offtin, Offset
  <1> QED BY <1>1, <1>2

(* What a triple is emitted for: a stretch of the new blob from lastscan on  *)
(* that a stretch of the base is copied for, and a gap after it.             *)
LEMMA EmitFacts ==
  ASSUME DiffInv, Emit, scan.len # scan.score \/ scan.at = NewSize
  PROVE  \E f \in Nat, gap \in Nat, b \in Nat :
           /\ scan.lastscan + f + gap = scan.at - b /\ b <= scan.pos
           /\ scan.lastpos + f <= OldSize
           /\ scan.at = NewSize => b = 0
           /\ scan' = [scan EXCEPT !.pc = "outer", !.lastscan = scan.at - b,
                         !.lastpos = scan.pos - b, !.lastoffset = scan.pos - scan.at]
           /\ delta' = [delta EXCEPT
                !.diff = delta.diff \o CopiedBytes(f),
                !.extra = delta.extra \o AddedBytes(f, gap),
                !.control = Append(delta.control,
                  <<Offtout(f), Offtout(gap),
                    Offtout((scan.pos - b) - (scan.lastpos + f))>>)]
  <1>1. DiffTypeOK /\ scan.lastscan <= scan.at
    BY DEF DiffInv, ScanInv
  <1>2. PICK f \in 0..Forward, b \in 0..Backward :
          Split(Forward, Backward) = <<f, b>> /\ scan.lastscan + f <= scan.at - b
    BY <1>1, ForwardFacts, BackwardFacts, SplitFacts
  <1> DEFINE gap == (scan.at - b) - (scan.lastscan + f)
  <1>3. f \in Nat /\ b \in Nat /\ f <= Forward /\ b <= Backward
    BY <1>1, <1>2, ForwardFacts, BackwardFacts
  <1>4. gap \in Nat /\ scan.lastscan + f + gap = scan.at - b
    BY <1>1, <1>2, <1>3, ScanTypes
  <1>5. b <= scan.pos /\ scan.lastpos + f <= OldSize /\ (scan.at = NewSize => b = 0)
    BY <1>1, <1>3, ForwardFacts, BackwardFacts, ScanTypes, BlobFacts
  <1>6. /\ scan' = [scan EXCEPT !.pc = "outer", !.lastscan = scan.at - b,
                      !.lastpos = scan.pos - b, !.lastoffset = scan.pos - scan.at]
        /\ delta' = [delta EXCEPT
             !.diff = delta.diff \o CopiedBytes(f),
             !.extra = delta.extra \o AddedBytes(f, gap),
             !.control = Append(delta.control,
               <<Offtout(f), Offtout(gap),
                 Offtout((scan.pos - b) - (scan.lastpos + f))>>)]
    BY <1>2 DEF Emit, CopiedBytes, AddedBytes
  <1> HIDE DEF gap
  <1> QED BY <1>3, <1>4, <1>5, <1>6

(* The bytes of a stretch, and the differences from the base, are bytes.     *)
LEMMA StretchFacts ==
  ASSUME DiffTypeOK, NEW f \in Nat, NEW gap \in Nat,
         scan.lastpos + f <= OldSize, scan.lastscan + f + gap <= NewSize
  PROVE  /\ CopiedBytes(f) \in Seq(Byte) /\ Len(CopiedBytes(f)) = f
         /\ AddedBytes(f, gap) \in Seq(Byte) /\ Len(AddedBytes(f, gap)) = gap
  <1>1. \A i \in 1..f : (N(scan.lastscan + i - 1) - O(scan.lastpos + i - 1)) % ByteSize \in Byte
    <2> TAKE i \in 1..f
    <2>1. /\ scan.lastscan + i - 1 \in 0..(NewSize - 1)
          /\ scan.lastpos + i - 1 \in 0..(OldSize - 1)
      BY ScanTypes, BlobFacts
    <2>2. /\ N(scan.lastscan + i - 1) \in 0..(ByteSize - 1)
          /\ O(scan.lastpos + i - 1) \in 0..(ByteSize - 1)
      BY <2>1, BlobFacts
    <2> QED BY <2>2, ByteFacts DEF Byte
  <1>2. \A i \in 1..gap : N(scan.lastscan + f + i - 1) \in Byte
    <2> TAKE i \in 1..gap
    <2>1. scan.lastscan + f + i - 1 \in 0..(NewSize - 1)
      BY ScanTypes, BlobFacts
    <2> QED BY <2>1, BlobFacts DEF Byte
  <1>3. CopiedBytes(f) \in [1..f -> Byte] /\ AddedBytes(f, gap) \in [1..gap -> Byte]
    BY <1>1, <1>2 DEF CopiedBytes, AddedBytes
  <1> QED BY <1>3

(* The emitted triple is one more, and what there was is as it was.          *)
LEMMA DeltaFacts ==
  ASSUME DiffTypeOK, NEW f \in Nat, NEW gap \in Nat, NEW seek \in Int,
         scan.lastpos + f <= OldSize, scan.lastscan + f + gap <= NewSize,
         delta' = [delta EXCEPT
           !.diff = delta.diff \o CopiedBytes(f),
           !.extra = delta.extra \o AddedBytes(f, gap),
           !.control = Append(delta.control, <<Offtout(f), Offtout(gap), Offtout(seek)>>)]
  PROVE  /\ delta' \in [control: Seq(Offset \X Offset \X Offset),
                        diff: Seq(Byte), extra: Seq(Byte)]
         /\ Len(delta.control) \in Nat /\ Len(delta.diff) \in Nat /\ Len(delta.extra) \in Nat
         /\ Len(delta'.control) = Len(delta.control) + 1
         /\ Len(delta'.diff) = Len(delta.diff) + f
         /\ Len(delta'.extra) = Len(delta.extra) + gap
         /\ \A t \in 1..Len(delta.control) : delta'.control[t] = delta.control[t]
         /\ \A i \in 1..Len(delta.diff) : delta'.diff[i] = delta.diff[i]
         /\ \A i \in 1..Len(delta.extra) : delta'.extra[i] = delta.extra[i]
         /\ delta'.control[Len(delta.control) + 1] = <<Offtout(f), Offtout(gap), Offtout(seek)>>
         /\ \A i \in 1..f : delta'.diff[Len(delta.diff) + i] =
              (N(scan.lastscan + i - 1) - O(scan.lastpos + i - 1)) % ByteSize
         /\ \A i \in 1..gap : delta'.extra[Len(delta.extra) + i] = N(scan.lastscan + f + i - 1)
  <1> DEFINE triple == <<Offtout(f), Offtout(gap), Offtout(seek)>>
             Triples == Offset \X Offset \X Offset
  <1>1. /\ delta.control \in Seq(Triples) /\ delta.diff \in Seq(Byte)
        /\ delta.extra \in Seq(Byte)
        /\ delta \in [control: Seq(Triples), diff: Seq(Byte), extra: Seq(Byte)]
    BY DEF DiffTypeOK, Byte
  <1>2. triple \in Triples
    BY OffsetFacts
  <1> HIDE DEF triple, Triples
  <1> DEFINE control == Append(delta.control, triple)
             diff    == delta.diff \o CopiedBytes(f)
             extra   == delta.extra \o AddedBytes(f, gap)
  <1>0. /\ CopiedBytes(f) \in Seq(Byte) /\ Len(CopiedBytes(f)) = f
        /\ AddedBytes(f, gap) \in Seq(Byte) /\ Len(AddedBytes(f, gap)) = gap
    BY StretchFacts
  <1>3. /\ control \in Seq(Triples) /\ Len(control) = Len(delta.control) + 1
        /\ \A t \in 1..Len(delta.control) : control[t] = delta.control[t]
        /\ control[Len(delta.control) + 1] = triple
    BY <1>1, <1>2
  <1>4. /\ diff \in Seq(Byte) /\ Len(diff) = Len(delta.diff) + f
        /\ \A i \in 1..Len(delta.diff) : diff[i] = delta.diff[i]
        /\ \A i \in 1..f : diff[Len(delta.diff) + i] = CopiedBytes(f)[i]
    <2>1. \A t \in Seq(Byte) :
            /\ delta.diff \o t \in Seq(Byte) /\ Len(delta.diff \o t) = Len(delta.diff) + Len(t)
            /\ \A i \in 1..Len(delta.diff) : (delta.diff \o t)[i] = delta.diff[i]
            /\ \A i \in 1..Len(t) : (delta.diff \o t)[Len(delta.diff) + i] = t[i]
      BY <1>1, ConcatFacts
    <2> QED BY <1>0, <2>1
  <1>5. /\ extra \in Seq(Byte) /\ Len(extra) = Len(delta.extra) + gap
        /\ \A i \in 1..Len(delta.extra) : extra[i] = delta.extra[i]
        /\ \A i \in 1..gap : extra[Len(delta.extra) + i] = AddedBytes(f, gap)[i]
    <2>1. \A t \in Seq(Byte) :
            /\ delta.extra \o t \in Seq(Byte) /\ Len(delta.extra \o t) = Len(delta.extra) + Len(t)
            /\ \A i \in 1..Len(delta.extra) : (delta.extra \o t)[i] = delta.extra[i]
            /\ \A i \in 1..Len(t) : (delta.extra \o t)[Len(delta.extra) + i] = t[i]
      BY <1>1, ConcatFacts
    <2> QED BY <1>0, <2>1
  <1>6. \A i \in 1..f : CopiedBytes(f)[i] =
          (N(scan.lastscan + i - 1) - O(scan.lastpos + i - 1)) % ByteSize
    BY DEF CopiedBytes
  <1>7. \A i \in 1..gap : AddedBytes(f, gap)[i] = N(scan.lastscan + f + i - 1)
    BY DEF AddedBytes
  <1>8. delta' = [delta EXCEPT !.diff = diff, !.extra = extra, !.control = control]
    BY DEF triple
  <1> HIDE DEF control, diff, extra
  <1>9. /\ delta'.control = control /\ delta'.diff = diff /\ delta'.extra = extra
        /\ delta' \in [control: Seq(Triples), diff: Seq(Byte), extra: Seq(Byte)]
    BY <1>1, <1>3, <1>4, <1>5, <1>8
  <1>10. /\ Len(delta.control) \in Nat /\ Len(delta.diff) \in Nat /\ Len(delta.extra) \in Nat
    BY <1>1
  <1>11. \A i \in 1..f : delta'.diff[Len(delta.diff) + i] =
           (N(scan.lastscan + i - 1) - O(scan.lastpos + i - 1)) % ByteSize
    BY <1>4, <1>6, <1>9, Zenon
  <1>12. \A i \in 1..gap : delta'.extra[Len(delta.extra) + i] = N(scan.lastscan + f + i - 1)
    BY <1>5, <1>7, <1>9, Zenon
  <1>13. delta'.control[Len(delta.control) + 1] = <<Offtout(f), Offtout(gap), Offtout(seek)>>
    BY <1>3, <1>9 DEF triple
  <1> QED BY <1>3, <1>4, <1>5, <1>9, <1>10, <1>11, <1>12, <1>13, Zenon DEF Triples

LEMMA EmitKeeps == DiffInv /\ Emit => DiffInv'
  <1> SUFFICES ASSUME DiffInv, Emit PROVE DiffInv'
    OBVIOUS
  <1>1. UNCHANGED <<old, new, suffixes, replay>> /\ scan.pc = "emit"
    BY DEF Emit
  <1>2. /\ DiffTypeOK /\ scan \in ScanStates /\ scan.lastscan <= scan.at
        /\ scan.at < NewSize => scan.at + scan.len <= NewSize
        /\ suffixes \in [0..OldSize -> 0..OldSize] /\ replay.pc = "waiting"
    BY <1>1 DEF DiffInv, DiffTypeOK, ScanInv, ScanStates
  <1>3. CASE scan.len = scan.score /\ scan.at # NewSize
    <2>1. scan' = [scan EXCEPT !.pc = "outer"] /\ UNCHANGED delta
      BY <1>3 DEF Emit
    <2>2. scan' \in ScanStates
      BY <1>2, <2>1 DEF ScanStates
    <2>3. /\ scan'.pc = "outer" /\ scan'.at = scan.at /\ scan'.len = scan.len
          /\ scan'.lastscan = scan.lastscan /\ scan'.lastpos = scan.lastpos
      BY <1>2, <2>1 DEF ScanStates
    <2> QED BY <1>1, <1>2, <1>3, <2>1, <2>2, <2>3, ScanOnlyKeeps
  <1>4. CASE scan.len # scan.score \/ scan.at = NewSize
    <2>1. PICK f \in Nat, gap \in Nat, b \in Nat :
            /\ scan.lastscan + f + gap = scan.at - b /\ b <= scan.pos
            /\ scan.lastpos + f <= OldSize
            /\ scan.at = NewSize => b = 0
            /\ scan' = [scan EXCEPT !.pc = "outer", !.lastscan = scan.at - b,
                          !.lastpos = scan.pos - b, !.lastoffset = scan.pos - scan.at]
            /\ delta' = [delta EXCEPT
                 !.diff = delta.diff \o CopiedBytes(f),
                 !.extra = delta.extra \o AddedBytes(f, gap),
                 !.control = Append(delta.control,
                   <<Offtout(f), Offtout(gap),
                     Offtout((scan.pos - b) - (scan.lastpos + f))>>)]
      BY <1>4, EmitFacts
    <2>2. PICK seek, s2, p2, o2 :
            /\ seek = (scan.pos - b) - (scan.lastpos + f)
            /\ s2 = scan.at - b /\ p2 = scan.pos - b /\ o2 = scan.pos - scan.at
      OBVIOUS
    <2>3. /\ seek \in Int /\ s2 \in 0..NewSize /\ p2 \in 0..OldSize /\ o2 \in Int
          /\ s2 <= scan.at /\ (scan.at = NewSize => s2 = NewSize)
          /\ scan.lastscan + f + gap = s2 /\ scan.lastpos + f + seek = p2
          /\ scan.lastscan + f + gap <= NewSize /\ scan.lastpos + f <= OldSize
          /\ scan.lastscan \in Nat /\ scan.lastpos \in Nat
          /\ OldSize \in Nat /\ NewSize \in Nat
      <3>1. /\ scan.lastscan \in Nat /\ scan.lastpos \in Nat /\ scan.pos \in Nat
            /\ scan.at \in Nat /\ scan.at <= NewSize /\ scan.pos <= OldSize
            /\ OldSize \in Nat /\ NewSize \in Nat
        BY <1>2, ScanTypes, BlobFacts
      <3>2. /\ scan.lastscan + f + gap = scan.at - b /\ b <= scan.pos
            /\ (scan.at = NewSize => b = 0) /\ scan.lastpos + f <= OldSize
        BY <2>1
      <3>3. s2 \in 0..NewSize /\ s2 <= scan.at /\ scan.lastscan + f + gap = s2
        BY <2>2, <3>1, <3>2
      <3>4. p2 \in 0..OldSize /\ o2 \in Int /\ seek \in Int /\ scan.lastpos + f + seek = p2
        BY <2>2, <3>1, <3>2
      <3>5. scan.at = NewSize => s2 = NewSize
        BY <2>2, <3>1, <3>2
      <3> QED BY <3>1, <3>2, <3>3, <3>4, <3>5
    <2>4. scan' = [scan EXCEPT !.pc = "outer", !.lastscan = s2, !.lastpos = p2,
                               !.lastoffset = o2]
      BY <2>1, <2>2
    <2>5. PICK T, D, E : T = Len(delta.control) /\ D = Len(delta.diff) /\ E = Len(delta.extra)
      OBVIOUS
    <2>6. /\ delta' \in [control: Seq(Offset \X Offset \X Offset),
                         diff: Seq(Byte), extra: Seq(Byte)]
          /\ T \in Nat /\ D \in Nat /\ E \in Nat
          /\ Len(delta'.control) = T + 1 /\ Len(delta'.diff) = D + f
          /\ Len(delta'.extra) = E + gap
          /\ \A t \in 1..T : delta'.control[t] = delta.control[t]
          /\ \A i \in 1..D : delta'.diff[i] = delta.diff[i]
          /\ \A i \in 1..E : delta'.extra[i] = delta.extra[i]
          /\ delta'.control[T + 1] = <<Offtout(f), Offtout(gap), Offtout(seek)>>
          /\ \A i \in 1..f : delta'.diff[D + i] =
               (N(scan.lastscan + i - 1) - O(scan.lastpos + i - 1)) % ByteSize
          /\ \A i \in 1..gap : delta'.extra[E + i] = N(scan.lastscan + f + i - 1)
      <3>1. delta' = [delta EXCEPT
              !.diff = delta.diff \o CopiedBytes(f),
              !.extra = delta.extra \o AddedBytes(f, gap),
              !.control = Append(delta.control, <<Offtout(f), Offtout(gap), Offtout(seek)>>)]
        BY <2>1, <2>2
      <3>2. scan.lastpos + f <= OldSize /\ scan.lastscan + f + gap <= NewSize /\ seek \in Int
        BY <2>3
      <3>3. /\ delta' \in [control: Seq(Offset \X Offset \X Offset),
                           diff: Seq(Byte), extra: Seq(Byte)]
            /\ Len(delta.control) \in Nat /\ Len(delta.diff) \in Nat /\ Len(delta.extra) \in Nat
            /\ Len(delta'.control) = Len(delta.control) + 1
            /\ Len(delta'.diff) = Len(delta.diff) + f
            /\ Len(delta'.extra) = Len(delta.extra) + gap
            /\ \A t \in 1..Len(delta.control) : delta'.control[t] = delta.control[t]
            /\ \A i \in 1..Len(delta.diff) : delta'.diff[i] = delta.diff[i]
            /\ \A i \in 1..Len(delta.extra) : delta'.extra[i] = delta.extra[i]
            /\ delta'.control[Len(delta.control) + 1]
                 = <<Offtout(f), Offtout(gap), Offtout(seek)>>
            /\ \A i \in 1..f : delta'.diff[Len(delta.diff) + i] =
                 (N(scan.lastscan + i - 1) - O(scan.lastpos + i - 1)) % ByteSize
            /\ \A i \in 1..gap :
                 delta'.extra[Len(delta.extra) + i] = N(scan.lastscan + f + i - 1)
        BY <1>2, <3>1, <3>2, DeltaFacts
      <3> QED BY <2>5, <3>3, Zenon
    <2>7. /\ T \in Nat /\ D \in Nat /\ E \in Nat /\ D + E = scan.lastscan
          /\ Len(delta'.diff) = D + f /\ Len(delta'.extra) = E + gap
      <3>1. D + E = scan.lastscan
        BY <2>5 DEF DiffInv, DiffRebuilds
      <3> QED BY <2>6, <3>1, Zenon
    <2>8. scan' \in ScanStates
      BY <1>2, <2>3, <2>4 DEF ScanStates
    <2>9. /\ scan'.pc = "outer" /\ scan'.lastscan = s2 /\ scan'.lastpos = p2
          /\ scan'.at = scan.at /\ scan'.len = scan.len
      BY <1>2, <2>4 DEF ScanStates
    <2>10. OldSize' = OldSize /\ NewSize' = NewSize
      BY <1>1 DEF OldSize, NewSize
    <2>11. DiffTypeOK'
      BY <1>1, <1>2, <2>6, <2>8, <2>10 DEF DiffTypeOK, ScanStates, Byte
    <2>12. ScanInv'
      BY <1>1, <1>2, <2>3, <2>9, <2>10 DEF ScanInv
    <2>13. DiffRebuilds'
      <3>1. DiffRebuilds
        BY DEF DiffInv
      <3>2. Len(delta'.diff) + Len(delta'.extra) = s2
        BY <2>3, <2>7
      <3> QED BY <1>1, <2>9, <3>1, <3>2 DEF DiffRebuilds
    <2>14. PICK mark \in [0..T -> Marks] : Marked(mark) /\ Replayed(mark)
      BY <2>5 DEF DiffInv
    <2>15. PICK last : last = [new |-> s2, old |-> p2, diff |-> D + f, extra |-> E + gap]
      OBVIOUS
    <2>16. last \in Marks
      BY <2>3, <2>6, <2>15 DEF Marks
    <2>17. PICK marks : marks = [t \in 0..(T + 1) |-> IF t = T + 1 THEN last ELSE mark[t]]
      OBVIOUS
    <2>18. /\ marks \in [0..(T + 1) -> Marks] /\ marks[T + 1] = last
           /\ \A t \in 0..T : marks[t] = mark[t] /\ mark[t] \in Marks
      <3>1. T \in Nat
        BY <2>6
      <3> QED BY <2>14, <2>16, <2>17, <3>1
    <2>19. mark[T] = [new |-> scan.lastscan, old |-> scan.lastpos, diff |-> D, extra |-> E]
      BY <2>5, <2>14 DEF Marked
    <2>20. ASSUME NEW t \in 1..T
           PROVE  Encoded(marks[t - 1], t, marks[t])'
      <3>1. PICK m, n : m = mark[t - 1] /\ n = mark[t]
        OBVIOUS
      <3>2. t - 1 \in 0..T /\ t \in 0..T
        BY <2>6
      <3>3. marks[t - 1] = m /\ marks[t] = n /\ m \in Marks /\ n \in Marks
        BY <2>18, <3>1, <3>2
      <3>4. Encoded(m, t, n)
        BY <2>5, <2>14, <3>1 DEF Marked
      <3>5. delta'.control[t] = delta.control[t]
        BY <2>6
      <3>6. /\ Copied(t)' = Copied(t) /\ Added(t)' = Added(t)
            /\ Offtin(delta'.control[t][3]) = Offtin(delta.control[t][3])
        BY <3>5 DEF Copied, Added, Offtin
      <3>7. /\ m.diff \in Nat /\ m.extra \in Nat /\ n.diff \in Nat /\ n.extra \in Nat
            /\ Copied(t) \in Nat /\ n.diff = m.diff + Copied(t) /\ n.diff <= D
            /\ Added(t) \in Nat /\ n.extra = m.extra + Added(t) /\ n.extra <= E
        BY <2>5, <3>3, <3>4 DEF Encoded, Marks
      <3>8. \A i \in 1..Copied(t) : delta'.diff[m.diff + i] = delta.diff[m.diff + i]
        <4> TAKE i \in 1..Copied(t)
        <4>1. m.diff + i \in 1..D
          <5>1. D \in Nat /\ m.diff \in Nat /\ Copied(t) \in Nat /\ m.diff + Copied(t) <= D
            BY <2>7, <3>7, Zenon
          <5> QED BY <5>1
        <4> QED BY <2>6, <4>1
      <3>9. \A i \in 1..Added(t) : delta'.extra[m.extra + i] = delta.extra[m.extra + i]
        <4> TAKE i \in 1..Added(t)
        <4>1. m.extra + i \in 1..E
          <5>1. E \in Nat /\ m.extra \in Nat /\ Added(t) \in Nat /\ m.extra + Added(t) <= E
            BY <2>7, <3>7, Zenon
          <5> QED BY <5>1
        <4> QED BY <2>6, <4>1
      <3>10. n.diff <= Len(delta'.diff) /\ n.extra <= Len(delta'.extra)
        BY <2>7, <3>7
      <3>11. Encoded(m, t, n)'
        <4>1. /\ Copied(t)' \in Nat /\ Added(t)' \in Nat /\ m.old + Copied(t)' <= OldSize'
              /\ n.new = m.new + Copied(t)' + Added(t)' /\ n.new <= NewSize'
              /\ n.old = m.old + Copied(t)' + Offtin(delta'.control[t][3])
              /\ n.diff = m.diff + Copied(t)' /\ n.extra = m.extra + Added(t)'
              /\ n.diff + n.extra = n.new
          BY <2>10, <3>4, <3>6 DEF Encoded
        <4>2. \A i \in 1..Copied(t) :
                delta'.diff[m.diff + i] = (N(m.new + i - 1) - O(m.old + i - 1)) % ByteSize
          BY <3>4, <3>8 DEF Encoded
        <4>3. \A i \in 1..Added(t) :
                delta'.extra[m.extra + i] = N(m.new + Copied(t) + i - 1)
          BY <3>4, <3>9 DEF Encoded
        <4> QED BY <1>1, <3>6, <3>10, <4>1, <4>2, <4>3 DEF Encoded, Offtin, N, O
      <3> QED BY <3>3, <3>11
    <2>21. Encoded(marks[T], T + 1, marks[T + 1])'
      <3>1. /\ delta'.control[T + 1][1] = Offtout(f) /\ delta'.control[T + 1][2] = Offtout(gap)
            /\ delta'.control[T + 1][3] = Offtout(seek)
        BY <2>6
      <3>2. /\ Offtin(delta'.control[T + 1][1]) = f /\ Offtin(delta'.control[T + 1][2]) = gap
            /\ Offtin(delta'.control[T + 1][3]) = seek
        BY <2>3, <3>1, OffsetFacts
      <3>3. Copied(T + 1)' = f /\ Added(T + 1)' = gap
        BY <3>2 DEF Copied, Added, Offtin
      <3>4. PICK m : m = mark[T]
        OBVIOUS
      <3>5. marks[T] = m /\ marks[T + 1] = last /\ m.new = scan.lastscan /\ m.old = scan.lastpos
            /\ m.diff = D /\ m.extra = E
        BY <2>7, <2>18, <2>19, <3>4
      <3>6. /\ last.new = s2 /\ last.old = p2 /\ last.diff = D + f /\ last.extra = E + gap
        BY <2>15
      <3>7. Encoded(m, T + 1, last)'
        <4>1. /\ m.old + f <= OldSize /\ last.new = m.new + f + gap /\ last.new <= NewSize
              /\ last.old = m.old + f + seek /\ last.diff = m.diff + f
              /\ last.extra = m.extra + gap /\ last.diff + last.extra = last.new
              /\ last.diff <= Len(delta'.diff) /\ last.extra <= Len(delta'.extra)
          <5>1. /\ m.old + f <= OldSize /\ last.old = m.old + f + seek
                /\ last.new = m.new + f + gap /\ last.new <= NewSize
            BY <2>3, <3>5, <3>6
          <5>2. /\ last.diff = m.diff + f /\ last.diff <= Len(delta'.diff)
                /\ last.extra = m.extra + gap /\ last.extra <= Len(delta'.extra)
            BY <2>7, <3>5, <3>6
          <5>3. last.diff + last.extra = last.new
            <6>1. s2 = (D + E) + f + gap
              BY <2>3, <2>7
            <6> QED BY <2>7, <3>6, <6>1
          <5> QED BY <5>1, <5>2, <5>3
        <4>2. \A i \in 1..f :
                delta'.diff[m.diff + i] = (N(m.new + i - 1) - O(m.old + i - 1)) % ByteSize
          BY <2>6, <3>5, Zenon
        <4>3. \A i \in 1..gap : delta'.extra[m.extra + i] = N(m.new + f + i - 1)
          BY <2>6, <3>5, Zenon
        <4>4. new' = new /\ old' = old
          BY <1>1
        <4> QED BY <2>10, <3>2, <3>3, <4>1, <4>2, <4>3, <4>4 DEF Encoded, Offtin, N, O
      <3> QED BY <3>5, <3>7
    <2>22. Marked(marks)'
      <3>1. marks[0] = [new |-> 0, old |-> 0, diff |-> 0, extra |-> 0]
        BY <2>7, <2>14, <2>18 DEF Marked
      <3>2. ASSUME NEW t \in 1..Len(delta'.control)
            PROVE  Encoded(marks[t - 1], t, marks[t])'
        <4>1. t \in 1..T \/ t = T + 1
          BY <2>6, <3>2
        <4>2. CASE t \in 1..T
          BY <2>20, <4>2
        <4>3. CASE t = T + 1
          <5>1. t - 1 = T
            BY <2>7, <4>3
          <5> QED BY <2>21, <4>3, <5>1
        <4> QED BY <4>1, <4>2, <4>3
      <3>3. marks[Len(delta'.control)] =
              [new |-> scan'.lastscan, old |-> scan'.lastpos,
               diff |-> Len(delta'.diff), extra |-> Len(delta'.extra)]
        BY <2>6, <2>7, <2>9, <2>15, <2>18
      <3> QED BY <3>1, <3>2, <3>3 DEF Marked
    <2>23. Replayed(marks)'
      <3>1. replay.triple = 0
        BY <1>2, <2>14 DEF Replayed
      <3>2. marks[0] = mark[0] /\ 0 \in 0..Len(delta'.control)
        BY <2>6, <2>18
      <3> QED BY <1>1, <2>14, <3>1, <3>2 DEF Replayed
    <2>24. marks \in [0..Len(delta'.control) -> Marks]
      BY <2>6, <2>18
    <2> QED BY <2>11, <2>12, <2>13, <2>22, <2>23, <2>24 DEF DiffInv
  <1> QED BY <1>3, <1>4

-----------------------------------------------------------------------------
(* Replaying *)

(* A sequence starts another when it is element by element the same.         *)
LEMMA PrefixFacts ==
  ASSUME NEW S, NEW s \in Seq(S), NEW p \in Seq(S), Len(p) <= Len(s)
  PROVE  (p = SubSeq(s, 1, Len(p))) <=> \A i \in 1..Len(p) : p[i] = s[i]
  <1>1. /\ SubSeq(s, 1, Len(p)) \in Seq(S) /\ Len(SubSeq(s, 1, Len(p))) = Len(p)
        /\ \A i \in 1..Len(p) : SubSeq(s, 1, Len(p))[i] = s[i]
    OBVIOUS
  <1>2. ASSUME \A i \in 1..Len(p) : p[i] = s[i]
        PROVE  p = SubSeq(s, 1, Len(p))
    BY <1>1, <1>2
  <1> QED BY <1>1, <1>2

(* The new blob as a sequence of bytes.                                      *)
LEMMA NewFacts ==
  ASSUME DiffTypeOK
  PROVE  new \in Seq(Byte) /\ Len(new) = NewSize /\ \A i \in 0..(NewSize - 1) : N(i) = new[i + 1]
  <1>1. PICK l \in 0..MaxNew : new \in [1..l -> 0..(ByteSize - 1)]
    BY DEF DiffTypeOK, Blobs
  <1>2. l \in Nat
    BY DiffAssumption
  <1>3. new \in Seq(Byte)
    <2>1. new \in [1..l -> Byte]
      BY <1>1 DEF Byte
    <2> QED BY <1>2, <2>1
  <1> QED BY <1>3 DEF NewSize, N

(* What changes the replay alone keeps the marks.                            *)
LEMMA ReplayOnlyKeeps ==
  ASSUME DiffInv, UNCHANGED <<old, new, suffixes, scan, delta>>, scan.pc = "done",
         DiffTypeOK', DiffRebuilds',
         NEW mark \in [0..Len(delta.control) -> Marks], Marked(mark), Replayed(mark)'
  PROVE  DiffInv'
  <1>1. OldSize' = OldSize /\ NewSize' = NewSize
    BY DEF OldSize, NewSize
  <1>2. ScanInv'
    BY <1>1 DEF DiffInv, ScanInv
  <1>4. Marked(mark)'
    <2>1. ASSUME NEW t \in 1..Len(delta.control)
          PROVE  Encoded(mark[t - 1], t, mark[t])'
      <3>1. Encoded(mark[t - 1], t, mark[t])
        BY DEF Marked
      <3>2. Copied(t)' = Copied(t) /\ Added(t)' = Added(t)
        BY DEF Copied, Added, Offtin
      <3> QED BY <1>1, <3>1, <3>2 DEF Encoded, Offtin, O, N
    <2> QED BY <2>1 DEF Marked
  <1>5. mark \in [0..Len(delta'.control) -> Marks]
    OBVIOUS
  <1> QED BY <1>2, <1>4, <1>5 DEF DiffInv

ReplayStates ==
  [pc: {"waiting", "run", "minted", "refused"}, triple: Nat, oldpos: Int,
   diffpos: Nat, extrapos: Nat, out: Seq(0..(ByteSize - 1))]

LEMMA BeginReplayKeeps == DiffInv /\ BeginReplay => DiffInv'
  <1> SUFFICES ASSUME DiffInv, BeginReplay PROVE DiffInv'
    OBVIOUS
  <1>1. /\ UNCHANGED <<old, new, suffixes, scan, delta>> /\ scan.pc = "done"
        /\ replay' = [replay EXCEPT !.pc = "run"]
    BY DEF BeginReplay
  <1>2. replay \in ReplayStates
    BY DEF DiffInv, DiffTypeOK, ReplayStates
  <1>3. /\ replay' \in ReplayStates /\ replay'.pc = "run" /\ replay'.triple = replay.triple
        /\ replay'.oldpos = replay.oldpos /\ replay'.diffpos = replay.diffpos
        /\ replay'.extrapos = replay.extrapos /\ replay'.out = replay.out
    BY <1>1, <1>2 DEF ReplayStates
  <1>4. DiffTypeOK'
    BY <1>1, <1>3 DEF DiffInv, DiffTypeOK, ReplayStates, OldSize, NewSize
  <1>5. DiffRebuilds'
    BY <1>1, <1>3 DEF DiffInv, DiffRebuilds
  <1>6. \A mark : Replayed(mark) => Replayed(mark)'
    BY <1>1, <1>3 DEF Replayed
  <1>7. PICK mark \in [0..Len(delta.control) -> Marks] : Marked(mark) /\ Replayed(mark)
    BY DEF DiffInv
  <1>8. Replayed(mark)'
    BY <1>6, <1>7
  <1> QED BY <1>1, <1>4, <1>5, <1>7, <1>8, ReplayOnlyKeeps

LEMMA SelfVerifyKeeps == DiffInv /\ SelfVerify => DiffInv'
  <1> SUFFICES ASSUME DiffInv, SelfVerify PROVE DiffInv'
    OBVIOUS
  <1>1. /\ UNCHANGED <<old, new, suffixes, scan, delta>> /\ Len(replay.out) >= NewSize
        /\ replay.pc = "run"
        /\ replay' = [replay EXCEPT !.pc = IF replay.out = new THEN "minted" ELSE "refused"]
    BY DEF SelfVerify
  <1>2. DiffTypeOK /\ replay \in ReplayStates /\ scan.pc = "done" /\ DiffRebuilds
    BY <1>1 DEF DiffInv, DiffTypeOK, ScanInv, ReplayStates
  <1>3. replay.out = new
    <2>1. PICK mark \in [0..Len(delta.control) -> Marks] : Marked(mark) /\ Replayed(mark)
      BY DEF DiffInv
    <2>2. Len(replay.out) <= NewSize
      <3>1. replay.triple \in 0..Len(delta.control) /\ mark[replay.triple].new = Len(replay.out)
        BY <2>1 DEF Replayed
      <3>2. CASE replay.triple = 0
        <4>1. Len(replay.out) = 0
          BY <2>1, <3>1, <3>2 DEF Marked
        <4> QED BY <1>2, <4>1, BlobFacts
      <3>3. CASE replay.triple # 0
        <4>1. replay.triple \in 1..Len(delta.control)
          BY <3>1, <3>3
        <4> QED BY <2>1, <3>1, <4>1 DEF Marked, Encoded
      <3> QED BY <3>2, <3>3
    <2>3. Len(replay.out) = NewSize
      <3>1. Len(replay.out) \in Nat /\ NewSize \in Nat
        BY <1>2, BlobFacts DEF ReplayStates
      <3> QED BY <1>1, <2>2, <3>1
    <2>4. SubSeq(new, 1, NewSize) = new
      BY <1>2, NewFacts
    <2> QED BY <1>2, <2>3, <2>4 DEF DiffRebuilds
  <1>4. /\ replay' \in ReplayStates /\ replay'.pc = "minted" /\ replay'.triple = replay.triple
        /\ replay'.oldpos = replay.oldpos /\ replay'.diffpos = replay.diffpos
        /\ replay'.extrapos = replay.extrapos /\ replay'.out = replay.out
    BY <1>1, <1>2, <1>3 DEF ReplayStates
  <1>5. DiffTypeOK'
    BY <1>1, <1>4 DEF DiffInv, DiffTypeOK, ReplayStates, OldSize, NewSize
  <1>6. DiffRebuilds'
    BY <1>1, <1>2, <1>4 DEF DiffRebuilds
  <1>7. \A mark : Replayed(mark) => Replayed(mark)'
    BY <1>1, <1>4 DEF Replayed
  <1>8. PICK mark \in [0..Len(delta.control) -> Marks] : Marked(mark) /\ Replayed(mark)
    BY DEF DiffInv
  <1>9. Replayed(mark)'
    BY <1>7, <1>8
  <1> QED BY <1>1, <1>2, <1>5, <1>6, <1>8, <1>9, ReplayOnlyKeeps

(* The triple whose turn it is: while bytes are missing there is one.        *)
LEMMA TripleFacts ==
  ASSUME DiffInv, ReplayTriple, NEW mark, Marked(mark), Replayed(mark),
         NEW j, j = replay.triple
  PROVE  /\ j \in Nat /\ j + 1 \in 1..Len(delta.control)
         /\ Encoded(mark[j], j + 1, mark[j + 1])
         /\ mark[j] = [new |-> Len(replay.out), old |-> replay.oldpos,
                       diff |-> replay.diffpos, extra |-> replay.extrapos]
  <1>1. j \in 0..Len(delta.control) /\ Len(delta.control) \in Nat
    BY DEF Replayed, DiffInv, DiffTypeOK
  <1>2. j # Len(delta.control)
    <2>1. scan.lastscan = NewSize /\ Len(replay.out) < NewSize
      BY DEF DiffInv, ScanInv, ReplayTriple
    <2>2. Len(replay.out) \in Nat /\ NewSize \in Nat
      BY BlobFacts DEF DiffInv, DiffTypeOK
    <2>3. mark[Len(delta.control)].new = NewSize
      BY <2>1 DEF Marked
    <2>4. mark[j].new = Len(replay.out)
      BY DEF Replayed
    <2> QED BY <2>1, <2>2, <2>3, <2>4
  <1>3. j \in Nat /\ j + 1 \in 1..Len(delta.control) /\ (j + 1) - 1 = j
    BY <1>1, <1>2
  <1>4. Encoded(mark[(j + 1) - 1], j + 1, mark[j + 1])
    BY <1>3 DEF Marked
  <1> QED BY <1>3, <1>4 DEF Replayed

LEMMA ReplayTripleKeeps == DiffInv /\ ReplayTriple => DiffInv'
  <1> SUFFICES ASSUME DiffInv, ReplayTriple PROVE DiffInv'
    OBVIOUS
  <1>1. /\ UNCHANGED <<old, new, suffixes, scan, delta>> /\ replay.pc = "run"
        /\ Len(replay.out) < NewSize
    BY DEF ReplayTriple
  <1>2. DiffTypeOK /\ replay \in ReplayStates /\ scan.pc = "done" /\ DiffRebuilds
    BY <1>1 DEF DiffInv, DiffTypeOK, ScanInv, ReplayStates
  <1>3. PICK mark \in [0..Len(delta.control) -> Marks] : Marked(mark) /\ Replayed(mark)
    BY DEF DiffInv
  <1>4. PICK j, m, n, L : j = replay.triple /\ m = mark[j] /\ n = mark[j + 1]
                          /\ L = Len(replay.out)
    OBVIOUS
  <1>5. /\ j \in Nat /\ j + 1 \in 1..Len(delta.control) /\ Encoded(m, j + 1, n)
        /\ m = [new |-> L, old |-> replay.oldpos,
                diff |-> replay.diffpos, extra |-> replay.extrapos]
    BY <1>3, <1>4, TripleFacts
  <1>6. PICK f, gap, seek : /\ f = Copied(j + 1) /\ gap = Added(j + 1)
                            /\ seek = Offtin(delta.control[j + 1][3])
    OBVIOUS
  <1>7. /\ f \in Nat /\ gap \in Nat /\ seek \in Int
        /\ m.old + f <= OldSize /\ n.new = m.new + f + gap /\ n.new <= NewSize
        /\ n.old = m.old + f + seek /\ n.diff = m.diff + f /\ n.extra = m.extra + gap
        /\ n.diff <= Len(delta.diff) /\ n.extra <= Len(delta.extra)
        /\ \A i \in 1..f :
             delta.diff[m.diff + i] = (N(m.new + i - 1) - O(m.old + i - 1)) % ByteSize
        /\ \A i \in 1..gap : delta.extra[m.extra + i] = N(m.new + f + i - 1)
    <2>1. delta.control[j + 1] \in Offset \X Offset \X Offset
      <3>1. delta.control \in Seq(Offset \X Offset \X Offset)
        BY <1>2 DEF DiffTypeOK
      <3> QED BY <1>5, <3>1
    <2>2. seek \in Int
      BY <1>6, <2>1 DEF Offtin, Offset
    <2> QED BY <1>5, <1>6, <2>2 DEF Encoded
  <1>8. /\ m.new = L /\ m.old = replay.oldpos /\ m.diff = replay.diffpos
        /\ m.extra = replay.extrapos /\ m \in Marks /\ n \in Marks
        /\ m.new \in Nat /\ m.old \in Nat /\ m.diff \in Nat /\ m.extra \in Nat
        /\ NewSize \in Nat /\ OldSize \in Nat
    <2>1. m \in Marks /\ n \in Marks
      <3>1. j \in 0..Len(delta.control) /\ j + 1 \in 0..Len(delta.control)
        BY <1>5
      <3> QED BY <1>3, <1>4, <3>1
    <2> QED BY <1>2, <1>5, <2>1, BlobFacts DEF Marks
  <1> DEFINE Base(p) == IF p \in 0..(OldSize - 1) THEN O(p) ELSE 0
             A == [i \in 1..f |->
                     (Base(replay.oldpos + i - 1) + delta.diff[replay.diffpos + i]) % ByteSize]
             B == [i \in 1..gap |-> delta.extra[replay.extrapos + i]]
  <1>9. replay' = [replay EXCEPT !.triple = j + 1, !.oldpos = replay.oldpos + f + seek,
                                 !.diffpos = replay.diffpos + f,
                                 !.extrapos = replay.extrapos + gap,
                                 !.out = replay.out \o A \o B]
    <2> DEFINE c == [k \in 1..3 |-> Offtin(delta.control[replay.triple + 1][k])]
    <2>1. c[1] = f /\ c[2] = gap /\ c[3] = seek
      BY <1>4, <1>6 DEF Copied, Added
    <2>2. replay.triple # Len(delta.control)
      <3>1. Len(delta.control) \in Nat
        BY <1>2 DEF DiffTypeOK
      <3>2. j # Len(delta.control)
        BY <1>5, <3>1
      <3> QED BY <1>4, <3>2
    <2>4. ~(Len(replay.out) + c[1] + c[2] > NewSize)
      <3>1. L + f + gap <= NewSize /\ L \in Nat /\ f \in Nat /\ gap \in Nat /\ NewSize \in Nat
        BY <1>7, <1>8
      <3>2. ~(L + f + gap > NewSize)
        BY <3>1
      <3>3. L = Len(replay.out)
        BY <1>4
      <3> HIDE DEF c
      <3> QED BY <2>1, <3>2, <3>3
    <2>3. replay' = [replay EXCEPT
            !.triple = replay.triple + 1, !.oldpos = replay.oldpos + c[1] + c[3],
            !.diffpos = replay.diffpos + c[1], !.extrapos = replay.extrapos + c[2],
            !.out = replay.out \o [i \in 1..c[1] |->
                             (Base(replay.oldpos + i - 1)
                              + delta.diff[replay.diffpos + i]) % ByteSize]
                        \o [i \in 1..c[2] |-> delta.extra[replay.extrapos + i]]]
      BY <2>2, <2>4 DEF ReplayTriple
    <2> HIDE DEF c
    <2> QED BY <1>4, <2>1, <2>3
  <1>8a. /\ L \in Nat /\ f \in Nat /\ gap \in Nat /\ m.old \in Nat
         /\ NewSize \in Nat /\ OldSize \in Nat
         /\ L + f + gap <= NewSize /\ m.old + f <= OldSize
    <2>1. /\ m.new = L /\ m.new \in Nat /\ f \in Nat /\ gap \in Nat /\ m.old \in Nat
          /\ NewSize \in Nat /\ OldSize \in Nat /\ m.old + f <= OldSize
          /\ n.new = m.new + f + gap /\ n.new <= NewSize
      BY <1>7, <1>8
    <2> QED BY <2>1
  <1>10. \A i \in 1..f : A[i] = N(L + i - 1) /\ N(L + i - 1) \in Byte
    <2> TAKE i \in 1..f
    <2>1. L + i - 1 \in 0..(NewSize - 1) /\ m.old + i - 1 \in 0..(OldSize - 1)
      BY <1>8a
    <2>2. N(L + i - 1) \in 0..(ByteSize - 1) /\ O(m.old + i - 1) \in 0..(ByteSize - 1)
      BY <1>2, <2>1, BlobFacts
    <2>3. delta.diff[m.diff + i] = (N(L + i - 1) - O(m.old + i - 1)) % ByteSize
      BY <1>7, <1>8
    <2>4. (O(m.old + i - 1) + delta.diff[m.diff + i]) % ByteSize = N(L + i - 1)
      BY <2>2, <2>3, ByteFacts
    <2>5. Base(m.old + i - 1) = O(m.old + i - 1)
      BY <2>1
    <2>6. A[i] = (Base(m.old + i - 1) + delta.diff[m.diff + i]) % ByteSize
      BY <1>8
    <2> HIDE DEF Base, A
    <2> QED BY <2>2, <2>4, <2>5, <2>6 DEF Byte
  <1>11. \A i \in 1..gap : B[i] = N(L + f + i - 1) /\ N(L + f + i - 1) \in Byte
    <2> TAKE i \in 1..gap
    <2>1. L + f + i - 1 \in 0..(NewSize - 1)
      BY <1>8a
    <2>2. N(L + f + i - 1) \in Byte
      BY <1>2, <2>1, BlobFacts DEF Byte
    <2>3. B[i] = delta.extra[m.extra + i]
      BY <1>8
    <2>4. delta.extra[m.extra + i] = N(L + f + i - 1)
      BY <1>7, <1>8
    <2> HIDE DEF B
    <2> QED BY <2>2, <2>3, <2>4
  <1>12. A \in Seq(Byte) /\ Len(A) = f /\ B \in Seq(Byte) /\ Len(B) = gap
    <2>1. A = [i \in 1..f |-> A[i]] /\ B = [i \in 1..gap |-> B[i]]
      OBVIOUS
    <2> HIDE DEF A, B, Base
    <2>2. A \in [1..f -> Byte] /\ B \in [1..gap -> Byte]
      BY <1>10, <1>11, <2>1
    <2>3. f \in Nat /\ gap \in Nat
      BY <1>8a
    <2> QED BY <2>2, <2>3
  <1> HIDE DEF A, B, Base
  <1>13. PICK out, now : out = replay.out /\ now = out \o A \o B
    OBVIOUS
  <1>14. /\ now \in Seq(Byte) /\ Len(now) = L + f + gap
         /\ \A i \in 1..Len(now) : now[i] = new[i]
    <2>1. out \in Seq(Byte) /\ Len(out) = L /\ L \in Nat
      BY <1>2, <1>4, <1>8, <1>13 DEF ReplayStates, Byte
    <2>2. PICK most : most = out \o A
      OBVIOUS
    <2>3. /\ most \in Seq(Byte) /\ Len(most) = L + f
          /\ \A i \in 1..L : most[i] = out[i]
          /\ \A i \in 1..f : most[L + i] = A[i]
      <3>1. A \in Seq(Byte) /\ Len(A) = f
        BY <1>12
      <3>2. /\ most \in Seq(Byte) /\ Len(most) = Len(out) + Len(A)
            /\ \A i \in 1..Len(out) : most[i] = out[i]
            /\ \A i \in 1..Len(A) : most[Len(out) + i] = A[i]
        <4>1. out \in Seq(Byte) /\ A \in Seq(Byte)
          BY <2>1, <3>1
        <4> QED BY <2>2, <4>1, ConcatFacts
      <3> QED BY <2>1, <3>1, <3>2, Zenon
    <2>4. /\ now \in Seq(Byte) /\ Len(now) = L + f + gap
          /\ \A i \in 1..(L + f) : now[i] = most[i]
          /\ \A i \in 1..gap : now[L + f + i] = B[i]
      <3>1. now = most \o B
        BY <1>13, <2>2
      <3>2. B \in Seq(Byte) /\ Len(B) = gap /\ most \in Seq(Byte) /\ Len(most) = L + f
        BY <1>12, <2>3
      <3> HIDE DEF B
      <3>3. /\ now \in Seq(Byte) /\ Len(now) = Len(most) + Len(B)
            /\ \A i \in 1..Len(most) : now[i] = most[i]
            /\ \A i \in 1..Len(B) : now[Len(most) + i] = B[i]
        <4>1. B \in Seq(Byte) /\ most \in Seq(Byte)
          BY <3>2
        <4> QED BY <3>1, <4>1, ConcatFacts
      <3> QED BY <3>2, <3>3, Zenon
    <2>5. /\ new \in Seq(Byte) /\ Len(new) = NewSize
          /\ \A i \in 0..(NewSize - 1) : N(i) = new[i + 1]
      BY <1>2, NewFacts
    <2>6. ASSUME NEW i \in 1..(L + f + gap)
          PROVE  now[i] = new[i]
      <3>1. i - 1 \in 0..(NewSize - 1) /\ N(i - 1) = new[i]
        <4>1. i - 1 \in 0..(NewSize - 1) /\ (i - 1) + 1 = i
          BY <1>7, <1>8, <2>1
        <4> QED BY <2>5, <4>1
      <3>2. CASE i <= L
        <4>1. i \in 1..L /\ i \in 1..(L + f)
          BY <1>7, <2>1, <3>2
        <4>2. out[i] = new[i]
          <5>1. out = SubSeq(new, 1, Len(out)) /\ Len(out) <= Len(new)
            BY <1>1, <1>2, <1>4, <1>8, <1>13, <2>1, <2>5 DEF DiffRebuilds
          <5> QED BY <2>1, <2>5, <4>1, <5>1, PrefixFacts
        <4> QED BY <2>3, <2>4, <4>1, <4>2
      <3>3. CASE i > L /\ i <= L + f
        <4>1. PICK k \in 1..f : i = L + k
          <5>1. i - L \in 1..f /\ i = L + (i - L)
            BY <1>7, <2>1, <3>3
          <5> QED BY <5>1
        <4>2. i - 1 = L + k - 1 /\ i \in 1..(L + f)
          BY <1>7, <2>1, <3>3, <4>1
        <4>3. now[i] = A[k]
          BY <2>3, <2>4, <4>1, <4>2
        <4> QED BY <1>10, <3>1, <4>2, <4>3
      <3>4. CASE i > L + f
        <4>1. PICK k \in 1..gap : i = L + f + k
          <5>1. i - (L + f) \in 1..gap /\ i = L + f + (i - (L + f))
            BY <1>7, <2>1, <3>4
          <5> QED BY <5>1
        <4>2. i - 1 = L + f + k - 1
          BY <1>7, <2>1, <4>1
        <4>3. now[i] = B[k]
          BY <2>4, <4>1
        <4> QED BY <1>11, <3>1, <4>2, <4>3
      <3>5. i \in Nat /\ L \in Nat /\ f \in Nat
        BY <1>7, <2>1
      <3> QED BY <3>2, <3>3, <3>4, <3>5
    <2> QED BY <2>4, <2>6
  <1>15. /\ replay' \in ReplayStates /\ replay'.pc = "run" /\ replay'.triple = j + 1
         /\ replay'.oldpos = n.old /\ replay'.diffpos = n.diff
         /\ replay'.extrapos = n.extra /\ replay'.out = now
    <2>1. replay' = [replay EXCEPT !.triple = j + 1, !.oldpos = n.old, !.diffpos = n.diff,
                                   !.extrapos = n.extra, !.out = now]
      <3>1. /\ n.old = replay.oldpos + f + seek /\ n.diff = replay.diffpos + f
            /\ n.extra = replay.extrapos + gap
        BY <1>7, <1>8
      <3> QED BY <1>9, <1>13, <3>1
    <2>2. /\ j + 1 \in Nat /\ n.old \in Int /\ n.diff \in Nat /\ n.extra \in Nat
          /\ now \in Seq(0..(ByteSize - 1))
      BY <1>5, <1>8, <1>14 DEF Marks, Byte
    <2> QED BY <1>1, <1>2, <2>1, <2>2 DEF ReplayStates
  <1>16. DiffTypeOK'
    BY <1>1, <1>2, <1>15 DEF DiffTypeOK, ReplayStates, OldSize, NewSize
  <1>17. DiffRebuilds'
    <2>1. now = SubSeq(new, 1, Len(now))
      <3>1. Len(now) <= Len(new) /\ new \in Seq(Byte)
        BY <1>2, <1>7, <1>8, <1>14, NewFacts
      <3> QED BY <1>14, <3>1, PrefixFacts
    <2> QED BY <1>1, <1>2, <1>15, <2>1 DEF DiffRebuilds
  <1>18. Replayed(mark)'
    <2>1. n = [new |-> Len(now), old |-> n.old, diff |-> n.diff, extra |-> n.extra]
      <3>1. n.new = Len(now)
        BY <1>7, <1>8, <1>14
      <3> QED BY <1>8, <3>1 DEF Marks
    <2>2. j + 1 \in 0..Len(delta.control) /\ n = mark[j + 1]
      BY <1>4, <1>5
    <2> QED BY <1>1, <1>15, <2>1, <2>2 DEF Replayed
  <1> QED BY <1>1, <1>2, <1>3, <1>16, <1>17, <1>18, ReplayOnlyKeeps

-----------------------------------------------------------------------------
(* The theorems *)

(* A step that changes nothing.                                              *)
LEMMA StutterKeeps ==
  ASSUME DiffInv, UNCHANGED <<old, new, suffixes, scan, delta, replay>>
  PROVE  DiffInv'
  <1>1. OldSize' = OldSize /\ NewSize' = NewSize
    BY DEF OldSize, NewSize
  <1>2. DiffTypeOK' /\ DiffRebuilds' /\ ScanInv'
    BY <1>1 DEF DiffInv, DiffTypeOK, DiffRebuilds, ScanInv
  <1>3. PICK mark \in [0..Len(delta.control) -> Marks] : Marked(mark) /\ Replayed(mark)
    BY DEF DiffInv
  <1>4. Marked(mark)'
    <2>1. ASSUME NEW t \in 1..Len(delta.control)
          PROVE  Encoded(mark[t - 1], t, mark[t])'
      <3>1. Encoded(mark[t - 1], t, mark[t])
        BY <1>3 DEF Marked
      <3>2. Copied(t)' = Copied(t) /\ Added(t)' = Added(t)
        BY DEF Copied, Added, Offtin
      <3> QED BY <1>1, <3>1, <3>2 DEF Encoded, Offtin, O, N
    <2> QED BY <1>3, <2>1 DEF Marked
  <1>5. Replayed(mark)' /\ mark \in [0..Len(delta'.control) -> Marks]
    BY <1>3 DEF Replayed
  <1> QED BY <1>2, <1>4, <1>5 DEF DiffInv

(* Before the first triple there is one mark, at the beginning.              *)
LEMMA DiffInits == DiffInit => DiffInv
  <1> SUFFICES ASSUME DiffInit PROVE DiffInv
    OBVIOUS
  <1>1. /\ suffixes = <<>> /\ delta = [control |-> <<>>, diff |-> <<>>, extra |-> <<>>]
        /\ scan = [pc |-> "sort", st |-> 0, en |-> 0, at |-> 0, len |-> 0, pos |-> 0,
                   score |-> 0, scored |-> 0, lastscan |-> 0, lastpos |-> 0,
                   lastoffset |-> 0]
        /\ replay = [pc |-> "waiting", triple |-> 0, oldpos |-> 0, diffpos |-> 0,
                     extrapos |-> 0, out |-> <<>>]
        /\ old \in Blobs(MaxOld) /\ new \in Blobs(MaxNew) /\ new # <<>>
    BY DEF DiffInit
  <1>2. OldSize \in Nat /\ NewSize \in Nat /\ NewSize > 0
    <2>1. PICK k \in 0..MaxOld : old \in [1..k -> 0..(ByteSize - 1)]
      BY <1>1 DEF Blobs
    <2>2. PICK l \in 0..MaxNew : new \in [1..l -> 0..(ByteSize - 1)]
      BY <1>1 DEF Blobs
    <2>3. k \in Nat /\ l \in Nat
      BY DiffAssumption
    <2>4. OldSize = k /\ NewSize = l
      BY <2>1, <2>2, <2>3 DEF OldSize, NewSize
    <2>5. l # 0
      <3>1. SUFFICES ASSUME l = 0 PROVE FALSE
        OBVIOUS
      <3>2. new \in Seq(0..(ByteSize - 1)) /\ Len(new) = 0
        BY <2>2, <3>1
      <3> QED BY <1>1, <3>2
    <2> QED BY <2>3, <2>4, <2>5
  <1>3. scan \in ScanStates
    <2>1. 0 \in 0..OldSize /\ 0 \in 0..NewSize
      BY <1>2
    <2> DEFINE zero == 0
    <2>2. zero \in 0..OldSize /\ zero \in 0..NewSize /\ zero \in Nat /\ zero \in Int
      BY <2>1
    <2>3. scan = [pc |-> "sort", st |-> zero, en |-> zero, at |-> zero, len |-> zero,
                  pos |-> zero, score |-> zero, scored |-> zero, lastscan |-> zero,
                  lastpos |-> zero, lastoffset |-> zero]
      BY <1>1
    <2> HIDE DEF zero
    <2> QED BY <2>2, <2>3 DEF ScanStates
  <1>4. DiffTypeOK
    <2>1. delta \in [control: Seq(Offset \X Offset \X Offset), diff: Seq(0..(ByteSize - 1)),
                     extra: Seq(0..(ByteSize - 1))]
      BY <1>1
    <2>2. replay \in ReplayStates
      BY <1>1 DEF ReplayStates
    <2> QED BY <1>1, <1>3, <2>1, <2>2 DEF DiffTypeOK, ScanStates, ReplayStates
  <1>5. ScanInv
    BY <1>1, <1>2 DEF ScanInv
  <1>6. DiffRebuilds
    <2>1. Len(replay.out) = 0 /\ SubSeq(new, 1, 0) = <<>>
      BY <1>1, <1>4, NewFacts
    <2> QED BY <1>1, <2>1 DEF DiffRebuilds
  <1>7. \E mark \in [0..Len(delta.control) -> Marks] : Marked(mark) /\ Replayed(mark)
    <2> DEFINE zeros == [new |-> 0, old |-> 0, diff |-> 0, extra |-> 0]
    <2>1. PICK mark : mark = [t \in 0..0 |-> zeros]
      OBVIOUS
    <2>2. Len(delta.control) = 0 /\ mark[0] = zeros
      BY <1>1, <2>1
    <2>3. mark \in [0..Len(delta.control) -> Marks]
      <3>1. zeros \in Marks
        BY DEF Marks
      <3> HIDE DEF zeros
      <3> QED BY <2>1, <2>2, <3>1
    <2>4. Marked(mark)
      BY <1>1, <2>2 DEF Marked
    <2>5. Replayed(mark)
      BY <1>1, <2>2 DEF Replayed
    <2> QED BY <2>3, <2>4, <2>5
  <1> QED BY <1>4, <1>5, <1>6, <1>7 DEF DiffInv

(* What the walk of kbBsdiff and the walk of kbpatchDecode keep, for every   *)
(* two blobs, whatever the search for matches returned: the bounds of the    *)
(* scan, the marks between the triples, and what was replayed by them.       *)
THEOREM DiffInvariant == DiffSpec => []DiffInv
  <1>1. DiffInv /\ [DiffNext]_diffVars => DiffInv'
    <2> SUFFICES ASSUME DiffInv, [DiffNext]_diffVars PROVE DiffInv'
      OBVIOUS
    <2>1. CASE Sort BY <2>1, SortKeeps
    <2>2. CASE NextMatch BY <2>2, NextMatchKeeps
    <2>3. CASE Seek BY <2>3, SeekKeeps
    <2>4. CASE Bisect BY <2>4, BisectKeeps
    <2>5. CASE LookUp BY <2>5, LookUpKeeps
    <2>6. CASE ScanEnds BY <2>6, ScanEndsKeeps
    <2>7. CASE Emit BY <2>7, EmitKeeps
    <2>8. CASE BeginReplay BY <2>8, BeginReplayKeeps
    <2>9. CASE ReplayTriple BY <2>9, ReplayTripleKeeps
    <2>10. CASE SelfVerify BY <2>10, SelfVerifyKeeps
    <2>11. CASE UNCHANGED diffVars
      <3>1. UNCHANGED <<old, new, suffixes, scan, delta, replay>>
        BY <2>11 DEF diffVars
      <3> QED BY <3>1, StutterKeeps
    <2> QED BY <2>1, <2>2, <2>3, <2>4, <2>5, <2>6, <2>7, <2>8, <2>9, <2>10, <2>11 DEF DiffNext
  <1> QED BY <1>1, DiffInits, PTL DEF DiffSpec

(* "A differ bug" never shows: the self-verification of a patch that         *)
(* kbBsdiff made accepts it, for blobs of every length.                      *)
THEOREM DiffsRebuild == DiffSpec => []DiffRebuilds
  <1>1. DiffInv => DiffRebuilds
    BY DEF DiffInv
  <1> QED BY <1>1, DiffInvariant, PTL

-----------------------------------------------------------------------------
(* The loops end *)

(* Counting the bytes that go on with the last match.                        *)
LEMMA ExplainedFacts ==
  ASSUME NEW a \in Int, NEW b \in Int
  PROVE  /\ Explained(a, b) \in Nat
         /\ b <= a => Explained(a, b) = 0
         /\ b = a + 1 => Explained(a, b) = IF GoesOn(a) THEN 1 ELSE 0
  <1> DEFINE T == {s \in a..(b - 1) : GoesOn(s)}
  <1>1. T \in SUBSET (a..(b - 1)) /\ b - 1 \in Int
    OBVIOUS
  <1>2. Cardinality(T) \in Nat /\ (b - 1 < a => Cardinality(T) = 0)
    <2> HIDE DEF T
    <2> QED BY <1>1, CountFacts
  <1>3. ASSUME b = a + 1 PROVE Cardinality(T) = IF GoesOn(a) THEN 1 ELSE 0
    <2>1. CASE GoesOn(a)
      <3>1. T = {a}
        BY <1>3, <2>1
      <3> QED BY <2>1, <3>1, FS_Singleton
    <2>2. CASE ~GoesOn(a)
      <3>1. T = {}
        BY <1>3, <2>2
      <3> QED BY <2>2, <3>1, FS_EmptySet
    <2> QED BY <2>1, <2>2
  <1> QED BY <1>2, <1>3 DEF Explained

LEMMA ExplainedSum ==
  ASSUME NEW a \in Int, NEW b \in Int, NEW c \in Int, a <= b, b <= c
  PROVE  Explained(a, c) = Explained(a, b) + Explained(b, c)
  <1> DEFINE S == {s \in a..(b - 1) : GoesOn(s)}
             T == {s \in b..(c - 1) : GoesOn(s)}
             U == {s \in a..(c - 1) : GoesOn(s)}
  <1>1. U = S \cup T /\ S \cap T = {}
    OBVIOUS
  <1>2. IsFiniteSet(S) /\ IsFiniteSet(T)
    <2>1. IsFiniteSet(a..(b - 1)) /\ IsFiniteSet(b..(c - 1))
      BY FS_Interval
    <2> QED BY <2>1, FS_Subset
  <1>3. Cardinality(S) \in Nat /\ Cardinality(T) \in Nat
    BY <1>2, FS_CardinalityType
  <1>4. Cardinality(U) = Cardinality(S) + Cardinality(T) - Cardinality(S \cap T)
    <2> HIDE DEF S, T, U
    <2> QED BY <1>1, <1>2, FS_Union
  <1>5. Cardinality(S \cap T) = 0
    BY <1>1, FS_EmptySet
  <1>6. Cardinality(U) = Cardinality(S) + Cardinality(T)
    <2> HIDE DEF S, T, U
    <2> QED BY <1>3, <1>4, <1>5
  <1> QED BY <1>6 DEF Explained

(* Counting on from where the last search left off, one byte too early or    *)
(* not.                                                                      *)
LEMMA ExplainedUpTo ==
  ASSUME NEW a \in Int, NEW k \in Int, NEW u \in Int, a <= u, k <= u
  PROVE  Explained(a, k) - Explained(k, a) + Explained(k, u) = Explained(a, u)
  <1>1. /\ Explained(a, k) \in Nat /\ Explained(k, a) \in Nat
        /\ Explained(k, u) \in Nat /\ Explained(a, u) \in Nat
    BY ExplainedFacts
  <1>2. CASE a <= k
    <2>1. Explained(a, u) = Explained(a, k) + Explained(k, u)
      BY <1>2, ExplainedSum
    <2>2. Explained(k, a) = 0
      BY <1>2, ExplainedFacts
    <2> QED BY <1>1, <2>1, <2>2
  <1>3. CASE k < a
    <2>1. Explained(k, u) = Explained(k, a) + Explained(a, u)
      BY <1>3, ExplainedSum
    <2>2. Explained(a, k) = 0
      BY <1>3, ExplainedFacts
    <2> QED BY <1>1, <2>1, <2>2
  <1> QED BY <1>2, <1>3

(* What a search that ends finds: its score is what the match has in common  *)
(* with the last one.                                                        *)
LEMMA LookUpFacts ==
  ASSUME DiffInv, ScoreInv, LookUp
  PROVE  \E len, upto, score \in Nat :
           /\ scan.at + len <= NewSize /\ scan.at <= upto
           /\ score = Explained(scan.at, upto)
           /\ scan'.len = len /\ scan'.scored = upto
           /\ scan'.lastoffset = scan.lastoffset
           /\ \/ /\ scan'.pc = "emit" /\ scan'.at = scan.at /\ Stops(len, score)
              \/ /\ scan'.pc = "inner" /\ scan'.at = scan.at + 1
                 /\ scan'.score = IF GoesOn(scan.at) THEN score - 1 ELSE score
  <1> DEFINE p == Found
             len == MatchLen(p, scan.at)
             upto == IF scan.at + len > scan.scored THEN scan.at + len ELSE scan.scored
             score == scan.score
                      + Cardinality({s \in scan.scored..(upto - 1) : GoesOn(s)})
             less == IF GoesOn(scan.at) THEN score - 1 ELSE score
             found == [scan EXCEPT !.pos = p, !.len = len, !.scored = upto, !.score = score]
  <1>1. /\ scan.pc = "search"
        /\ \/ /\ scan' = [found EXCEPT !.pc = "emit"] /\ Stops(len, score)
           \/ /\ scan' = [found EXCEPT !.pc = "inner", !.at = @ + 1,
                            !.score = IF GoesOn(scan.at) THEN @ - 1 ELSE @]
    BY DEF LookUp
  <1>2. /\ DiffTypeOK /\ scan \in ScanStates /\ scan.at < NewSize
        /\ suffixes \in [0..OldSize -> 0..OldSize]
    BY <1>1 DEF DiffInv, DiffTypeOK, ScanInv, ScanStates
  <1>3. p \in 0..OldSize
    BY <1>2, ScanTypes DEF Found
  <1>4. len \in 0..(NewSize - scan.at)
    <2> HIDE DEF p
    <2> QED BY <1>2, <1>3, ScanTypes, MatchLenFacts
  <1>5. /\ scan.at \in Nat /\ scan.scored \in Nat /\ scan.score \in Int
        /\ NewSize \in Nat
    BY <1>2, ScanTypes, BlobFacts
  <1>6. /\ len \in Nat /\ scan.at + len <= NewSize
        /\ upto \in Nat /\ scan.at <= upto /\ scan.scored <= upto
    <2>1. len \in Nat /\ scan.at + len <= NewSize
      <3> HIDE DEF len
      <3> QED BY <1>4, <1>5
    <2> HIDE DEF len
    <2> QED BY <1>5, <2>1
  <1>7. score = Explained(scan.at, upto)
    <2> HIDE DEF len, upto
    <2>1. score = scan.score + Explained(scan.scored, upto)
      BY DEF Explained
    <2>2. scan.score = Explained(scan.at, scan.scored) - Explained(scan.scored, scan.at)
      BY <1>1 DEF ScoreInv
    <2>3. scan.at \in Int /\ scan.scored \in Int /\ upto \in Int
      BY <1>5, <1>6
    <2> QED BY <1>6, <2>1, <2>2, <2>3, ExplainedUpTo
  <1>8. score \in Nat
    <2> HIDE DEF score, upto
    <2>1. scan.at \in Int /\ upto \in Int
      BY <1>5, <1>6
    <2> QED BY <1>7, <2>1, ExplainedFacts
  <1> HIDE DEF p, len, upto, score
  <1>9. /\ found \in ScanStates /\ found.at = scan.at /\ found.len = len
        /\ found.scored = upto /\ found.score = score
        /\ found.lastoffset = scan.lastoffset
    <2>1. len \in 0..NewSize /\ score \in Int
      BY <1>5, <1>6, <1>8
    <2> QED BY <1>2, <1>3, <1>6, <2>1 DEF ScanStates
  <1> HIDE DEF found
  <1>10. CASE scan' = [found EXCEPT !.pc = "emit"] /\ Stops(len, score)
    <2>1. /\ scan'.pc = "emit" /\ scan'.at = scan.at /\ scan'.len = len
          /\ scan'.scored = upto /\ scan'.lastoffset = scan.lastoffset
      BY <1>9, <1>10 DEF ScanStates
    <2> QED BY <1>6, <1>7, <1>8, <1>10, <2>1
  <1>11. CASE scan' = [found EXCEPT !.pc = "inner", !.at = @ + 1,
                         !.score = IF GoesOn(scan.at) THEN @ - 1 ELSE @]
    <2>1. /\ scan'.pc = "inner" /\ scan'.at = scan.at + 1 /\ scan'.len = len
          /\ scan'.scored = upto /\ scan'.lastoffset = scan.lastoffset
          /\ scan'.score = less
      BY <1>9, <1>11 DEF ScanStates
    <2> QED BY <1>6, <1>7, <1>8, <2>1
  <1> QED BY <1>1, <1>10, <1>11

(* As long as the blobs and the last match are the same, so is the count.    *)
LEMMA CountKept ==
  ASSUME UNCHANGED <<old, new>>, scan'.lastoffset = scan.lastoffset
  PROVE  /\ \A a, b \in Int : Explained(a, b)' = Explained(a, b)
         /\ OldSize' = OldSize /\ NewSize' = NewSize
  BY DEF Explained, GoesOn, OldSize, O, N, NewSize

LEMMA ScoreStep ==
  ASSUME DiffInv, ScoreInv, [DiffNext]_diffVars
  PROVE  ScoreInv'
  <1>1. CASE scan'.pc \notin {"inner", "search"}
    BY <1>1 DEF ScoreInv
  <1>2. CASE NextMatch /\ scan.at # NewSize
    <2>1. scan \in ScanStates /\ DiffTypeOK /\ UNCHANGED <<old, new>>
      BY <1>2 DEF DiffInv, DiffTypeOK, ScanStates, NextMatch
    <2>2. /\ scan'.pc = "inner" /\ scan'.at = scan.at + scan.len
          /\ scan'.scored = scan.at + scan.len /\ scan'.score = 0
          /\ scan'.lastoffset = scan.lastoffset
      BY <1>2, <2>1 DEF NextMatch, ScanStates
    <2>3. PICK at \in Int : at = scan.at + scan.len
      BY <2>1, ScanTypes, BlobFacts
    <2>4. Explained(at, at) = 0
      BY ExplainedFacts
    <2>5. Explained(at, at)' = 0
      BY <2>1, <2>2, <2>4, CountKept
    <2> QED BY <2>2, <2>3, <2>5 DEF ScoreInv
  <1>3. CASE Seek \/ Bisect
    <2>1. /\ UNCHANGED <<old, new>> /\ scan \in ScanStates /\ DiffTypeOK
          /\ scan.pc \in {"inner", "search"}
      BY <1>3 DEF DiffInv, DiffTypeOK, ScanStates, Seek, Bisect
    <2>2. /\ scan'.at = scan.at /\ scan'.scored = scan.scored
          /\ scan'.score = scan.score /\ scan'.lastoffset = scan.lastoffset
      BY <1>3, <2>1 DEF Seek, Bisect, ScanStates
    <2>3. PICK at, scored \in Int : at = scan.at /\ scored = scan.scored
      BY <2>1, ScanTypes
    <2>4. /\ Explained(at, scored)' = Explained(at, scored)
          /\ Explained(scored, at)' = Explained(scored, at)
      BY <2>1, <2>2, CountKept
    <2>5. /\ scan'.at <= scan'.scored + 1
          /\ scan'.score = Explained(at, scored)' - Explained(scored, at)'
          /\ at = scan'.at /\ scored = scan'.scored
      BY <2>1, <2>2, <2>3, <2>4 DEF ScoreInv
    <2>6. scan'.pc = "search" => scan'.st <= scan'.en
      <3>1. CASE Seek
        <4>1. scan'.st = 0 /\ scan'.en = OldSize /\ OldSize \in Nat
          BY <2>1, <3>1, BlobFacts DEF Seek, ScanStates
        <4> QED BY <4>1
      <3>2. CASE Bisect
        <4>1. PICK st, en, x : /\ st = scan.st /\ en = scan.en
                               /\ x = scan.st + (scan.en - scan.st) \div 2
          OBVIOUS
        <4>2. /\ \/ scan'.st = x /\ scan'.en = en
                 \/ scan'.st = st /\ scan'.en = x
              /\ en - st >= 2
          BY <2>1, <3>2, <4>1 DEF Bisect, ScanStates
        <4>3. st \in Nat /\ en \in Nat /\ x = st + (en - st) \div 2
          BY <2>1, <4>1, ScanTypes
        <4>4. st <= x /\ x <= en
          BY <4>2, <4>3
        <4> QED BY <4>2, <4>4
      <3> QED BY <1>3, <3>1, <3>2
    <2> QED BY <2>5, <2>6 DEF ScoreInv
  <1>4. CASE LookUp
    <2>1. PICK len, upto, score \in Nat :
           /\ scan.at + len <= NewSize /\ scan.at <= upto
           /\ score = Explained(scan.at, upto)
           /\ scan'.len = len /\ scan'.scored = upto
           /\ scan'.lastoffset = scan.lastoffset
           /\ \/ /\ scan'.pc = "emit" /\ scan'.at = scan.at /\ Stops(len, score)
              \/ /\ scan'.pc = "inner" /\ scan'.at = scan.at + 1
                 /\ scan'.score = IF GoesOn(scan.at) THEN score - 1 ELSE score
      BY <1>4, LookUpFacts
    <2>2. PICK at \in Nat : at = scan.at
      BY ScanTypes, BlobFacts DEF DiffInv
    <2>3. PICK one \in {0, 1} : one = IF GoesOn(scan.at) THEN 1 ELSE 0
      OBVIOUS
    <2>4. UNCHANGED <<old, new>>
      BY <1>4 DEF LookUp
    <2>5. CASE scan'.pc = "inner"
      <3>1. scan'.at = at + 1 /\ scan'.score = Explained(at, upto) - one
        BY <2>1, <2>2, <2>3, <2>5
      <3>2. Explained(at, at + 1) = one
        <4>1. PICK next \in Int : next = at + 1
          OBVIOUS
        <4>2. at \in Int /\ next = at + 1
          BY <4>1
        <4>3. Explained(at, next) = IF GoesOn(at) THEN 1 ELSE 0
          BY <4>2, ExplainedFacts, Zenon
        <4> QED BY <2>2, <2>3, <4>2, <4>3
      <3>3. Explained(at + 1, upto) - Explained(upto, at + 1) = Explained(at, upto) - one
        <4>1. /\ Explained(at + 1, upto) \in Nat /\ Explained(upto, at + 1) \in Nat
              /\ Explained(at, upto) \in Nat
          BY ExplainedFacts
        <4>2. CASE at + 1 <= upto
          <5>1. Explained(at, upto) = Explained(at, at + 1) + Explained(at + 1, upto)
            BY <4>2, ExplainedSum
          <5>2. Explained(upto, at + 1) = 0
            BY <4>2, ExplainedFacts
          <5> QED BY <3>2, <4>1, <5>1, <5>2
        <4>3. CASE upto = at
          <5>1. Explained(at, upto) = 0 /\ Explained(at + 1, upto) = 0
            BY <4>3, ExplainedFacts
          <5> QED BY <3>2, <4>1, <4>3, <5>1
        <4> QED BY <2>1, <2>2, <4>2, <4>3
      <3>4. PICK next \in Int : next = at + 1
        OBVIOUS
      <3>5. /\ Explained(next, upto)' = Explained(next, upto)
            /\ Explained(upto, next)' = Explained(upto, next)
        BY <2>1, <2>4, CountKept
      <3>6. scan'.score = Explained(next, upto)' - Explained(upto, next)'
        BY <3>1, <3>3, <3>4, <3>5
      <3>7. next = scan'.at /\ upto = scan'.scored /\ scan'.at <= scan'.scored + 1
        BY <2>1, <2>2, <3>1, <3>4
      <3> QED BY <2>5, <3>6, <3>7 DEF ScoreInv
    <2> QED BY <1>1, <2>1, <2>5
  <1>5. CASE UNCHANGED <<old, new, scan>>
    <2>1. /\ \A a, b \in Int : Explained(a, b)' = Explained(a, b)
      BY <1>5, CountKept
    <2>2. PICK at, scored \in Int : at = scan.at /\ scored = scan.scored
      BY ScanTypes DEF DiffInv
    <2>3. /\ Explained(at, scored)' = Explained(at, scored)
          /\ Explained(scored, at)' = Explained(scored, at)
      BY <2>1
    <2> QED BY <1>5, <2>2, <2>3 DEF ScoreInv
  <1>6. [DiffNext]_diffVars =>
          \/ scan'.pc \notin {"inner", "search"}
          \/ NextMatch /\ scan.at # NewSize
          \/ Seek \/ Bisect \/ LookUp \/ UNCHANGED <<old, new, scan>>
    <2>1. scan \in ScanStates
      BY DEF DiffInv, DiffTypeOK, ScanStates
    <2>2. Sort \/ ScanEnds \/ Emit \/ (NextMatch /\ scan.at = NewSize)
            => scan'.pc \notin {"inner", "search"}
      BY <2>1 DEF Sort, ScanEnds, Emit, NextMatch, ScanStates
    <2>3. BeginReplay \/ ReplayTriple \/ SelfVerify => UNCHANGED <<old, new, scan>>
      BY DEF BeginReplay, ReplayTriple, SelfVerify
    <2>4. UNCHANGED diffVars => UNCHANGED <<old, new, scan>>
      BY DEF diffVars
    <2> QED BY <2>2, <2>3, <2>4 DEF DiffNext
  <1> QED BY <1>1, <1>2, <1>3, <1>4, <1>5, <1>6

(* The measure consists of numbers.                                          *)
LEMMA ToDoTypes ==
  ASSUME DiffInv, ScoreInv
  PROVE  ToDo \in Nat \X Nat \X Nat
  <1>1. /\ OldSize \in Nat /\ NewSize \in Nat /\ scan.at \in Nat /\ scan.at <= NewSize
        /\ scan.len \in Nat /\ scan.st \in Nat /\ scan.en \in Nat
        /\ scan.pc \in {"sort", "outer", "inner", "search", "emit", "done"}
    BY BlobFacts, ScanTypes DEF DiffInv
  <1>2. NewSize - Passed \in Nat
    <2>1. scan.pc \in {"outer", "emit"} /\ scan.at < NewSize =>
            scan.at + scan.len <= NewSize
      BY DEF DiffInv, ScanInv
    <2>2. Passed \in Nat /\ Passed <= NewSize
      BY <1>1, <2>1 DEF Passed
    <2> QED BY <1>1, <2>2
  <1>3. Rank \in Nat
    <2>1. scan.pc = "search" => scan.st <= scan.en
      BY DEF ScoreInv
    <2>2. CASE scan.pc = "search"
      BY <1>1, <2>1, <2>2 DEF Rank
    <2>3. CASE scan.pc # "search"
      BY <1>1, <2>3 DEF Rank
    <2> QED BY <2>2, <2>3
  <1>4. Unreplayed \in Nat
    <2>1. replay.triple \in 0..Len(delta.control)
      BY DEF DiffInv, Replayed
    <2>2. Len(delta.control) \in Nat /\ replay.pc \in {"waiting", "run", "minted", "refused"}
      BY DEF DiffInv, DiffTypeOK
    <2> QED BY <2>1, <2>2 DEF Unreplayed
  <1> QED BY <1>2, <1>3, <1>4 DEF ToDo

(* The measure after a step, and before.                                     *)
LEMMA EarlierIf ==
  ASSUME \/ NewSize' - Passed' < NewSize - Passed
         \/ NewSize' - Passed' = NewSize - Passed /\ Rank' < Rank
         \/ NewSize' - Passed' = NewSize - Passed /\ Rank' = Rank
              /\ Unreplayed' < Unreplayed
  PROVE  Earlier(ToDo', ToDo)
  BY DEF Earlier, ToDo

(* A round of the loops of kbBsdiff: into the search, through it, and to the *)
(* next position, or out of it with a match that has bytes.                  *)
LEMMA ScanEarlier ==
  ASSUME DiffInv, ScoreInv,
         Sort \/ NextMatch \/ Seek \/ Bisect \/ LookUp \/ ScanEnds \/ Emit
  PROVE  Earlier(ToDo', ToDo)
  <1>1. /\ OldSize \in Nat /\ NewSize \in Nat /\ scan.at \in Nat /\ scan.at <= NewSize
        /\ scan.len \in Nat /\ scan.st \in Nat /\ scan.en \in Nat /\ scan \in ScanStates
        /\ scan.pc \in {"outer", "emit"} /\ scan.at < NewSize =>
             scan.at + scan.len <= NewSize
    BY BlobFacts, ScanTypes DEF DiffInv, DiffTypeOK, ScanStates, ScanInv
  <1>2. OldSize' = OldSize /\ NewSize' = NewSize
    BY DEF Sort, NextMatch, Seek, Bisect, LookUp, ScanEnds, Emit, OldSize, NewSize
  <1>3. CASE Sort
    <2>1. /\ scan.pc = "sort" /\ scan'.pc = "outer" /\ scan'.at = scan.at
          /\ scan'.len = scan.len /\ scan.at < NewSize
      BY <1>1, <1>3 DEF Sort, ScanStates, DiffInv, ScanInv
    <2>2. /\ Passed = scan.at /\ Passed' = scan.at + scan.len
          /\ Rank = OldSize + 6 /\ Rank' = OldSize + 4
      BY <1>2, <2>1 DEF Passed, Rank
    <2> QED BY <1>1, <1>2, <2>2, EarlierIf
  <1>4. CASE NextMatch
    <2>1. CASE scan.at = NewSize
      <3>1. scan.pc = "outer" /\ scan'.pc = "done" /\ scan'.at = scan.at
        BY <1>1, <1>4, <2>1 DEF NextMatch, ScanStates
      <3>2. Passed = scan.at /\ Passed' = scan.at /\ Rank = 1 /\ Rank' = 0
        BY <1>1, <1>2, <2>1, <3>1 DEF Passed, Rank
      <3> QED BY <1>1, <1>2, <3>2, EarlierIf
    <2>2. CASE scan.at < NewSize
      <3>1. /\ scan.pc = "outer" /\ scan'.pc = "inner"
            /\ scan'.at = scan.at + scan.len
        BY <1>1, <1>4, <2>2 DEF NextMatch, ScanStates
      <3>2. /\ Passed = scan.at + scan.len /\ Passed' = scan.at + scan.len
            /\ Rank = OldSize + 4 /\ Rank' = OldSize + 3
        BY <1>1, <1>2, <2>2, <3>1 DEF Passed, Rank
      <3> QED BY <1>1, <1>2, <3>2, EarlierIf
    <2> QED BY <1>1, <2>1, <2>2
  <1>5. CASE Seek
    <2>1. /\ scan.pc = "inner" /\ scan'.pc = "search" /\ scan'.at = scan.at
          /\ scan'.st = 0 /\ scan'.en = OldSize
      BY <1>1, <1>5 DEF Seek, ScanStates
    <2>2. /\ Passed = scan.at /\ Passed' = scan.at
          /\ Rank = OldSize + 3 /\ Rank' = OldSize - 0
      BY <1>2, <2>1 DEF Passed, Rank
    <2> QED BY <1>1, <1>2, <2>2, EarlierIf
  <1>6. CASE Bisect
    <2>1. PICK st, en, x : /\ st = scan.st /\ en = scan.en
                           /\ x = scan.st + (scan.en - scan.st) \div 2
      OBVIOUS
    <2>2. /\ \/ scan'.st = x /\ scan'.en = en
             \/ scan'.st = st /\ scan'.en = x
          /\ en - st >= 2
          /\ scan.pc = "search" /\ scan'.pc = "search" /\ scan'.at = scan.at
      BY <1>1, <1>6, <2>1 DEF Bisect, ScanStates
    <2>3. st \in Nat /\ en \in Nat /\ x = st + (en - st) \div 2
      BY <1>1, <2>1
    <2>4. st < x /\ x < en /\ x \in Nat
      BY <2>2, <2>3
    <2>5. /\ Passed = scan.at /\ Passed' = scan.at
          /\ Rank = en - st /\ Rank' = scan'.en - scan'.st
      BY <2>1, <2>2 DEF Passed, Rank
    <2>6. Rank' < Rank
      BY <2>2, <2>3, <2>4, <2>5
    <2> QED BY <1>1, <1>2, <2>5, <2>6, EarlierIf
  <1>7. CASE LookUp
    <2>1. PICK len, upto, score \in Nat :
           /\ scan.at + len <= NewSize /\ scan.at <= upto
           /\ score = Explained(scan.at, upto)
           /\ scan'.len = len /\ scan'.scored = upto
           /\ scan'.lastoffset = scan.lastoffset
           /\ \/ /\ scan'.pc = "emit" /\ scan'.at = scan.at /\ Stops(len, score)
              \/ /\ scan'.pc = "inner" /\ scan'.at = scan.at + 1
                 /\ scan'.score = IF GoesOn(scan.at) THEN score - 1 ELSE score
      BY <1>7, LookUpFacts
    <2>2. scan.pc = "search" /\ scan.at < NewSize /\ Passed = scan.at
      BY <1>7 DEF LookUp, DiffInv, ScanInv, Passed
    <2>3. CASE scan'.pc = "emit"
      <3>1. scan'.at = scan.at /\ scan'.len = len /\ Stops(len, score)
        BY <2>1, <2>3
      <3>2. len > 0
        BY <2>1, <3>1, DiffAssumption DEF Stops
      <3>3. Passed' = scan.at + len
        BY <1>2, <2>2, <2>3, <3>1 DEF Passed
      <3> QED BY <1>1, <1>2, <2>1, <2>2, <3>2, <3>3, EarlierIf
    <2>4. CASE scan'.pc = "inner"
      <3>1. Passed' = scan.at + 1
        BY <2>1, <2>4 DEF Passed
      <3> QED BY <1>1, <1>2, <2>2, <3>1, EarlierIf
    <2> QED BY <2>1, <2>3, <2>4
  <1>8. CASE ScanEnds
    <2>1. /\ scan.pc = "inner" /\ scan'.pc = "emit" /\ scan'.at = scan.at
          /\ scan.at = NewSize
      BY <1>1, <1>8 DEF ScanEnds, ScanStates
    <2>2. /\ Passed = scan.at /\ Passed' = scan.at
          /\ Rank = OldSize + 3 /\ Rank' = 2
      BY <1>1, <1>2, <2>1 DEF Passed, Rank
    <2> QED BY <1>1, <1>2, <2>2, EarlierIf
  <1>9. CASE Emit
    <2>1. /\ scan.pc = "emit" /\ scan'.pc = "outer" /\ scan'.at = scan.at
          /\ scan'.len = scan.len
      BY <1>1, <1>9 DEF Emit, ScanStates
    <2>2. Passed' = Passed
      BY <1>2, <2>1 DEF Passed
    <2>3. CASE scan.at < NewSize
      <3>1. Rank = OldSize + 5 /\ Rank' = OldSize + 4
        BY <1>2, <2>1, <2>3 DEF Rank
      <3> QED BY <1>1, <1>2, <2>2, <3>1, EarlierIf
    <2>4. CASE ~(scan.at < NewSize)
      <3>1. Rank = 2 /\ Rank' = 1
        BY <1>2, <2>1, <2>4 DEF Rank
      <3> QED BY <1>1, <1>2, <2>2, <3>1, EarlierIf
    <2> QED BY <2>3, <2>4
  <1> QED BY <1>3, <1>4, <1>5, <1>6, <1>7, <1>8, <1>9

(* The replay, a triple at a time.                                           *)
LEMMA ReplayEarlier ==
  ASSUME DiffInv, ScoreInv, BeginReplay \/ ReplayTriple \/ SelfVerify
  PROVE  Earlier(ToDo', ToDo)
  <1>1. UNCHANGED <<old, new, scan, delta>>
    BY DEF BeginReplay, ReplayTriple, SelfVerify
  <1>2. NewSize' = NewSize /\ Passed' = Passed /\ Rank' = Rank
    BY <1>1 DEF NewSize, OldSize, Passed, Rank
  <1>3. PICK n \in Nat : n = Len(delta.control) /\ n = Len(delta.control)'
    BY <1>1 DEF DiffInv, DiffTypeOK
  <1>4. replay.triple \in 0..n /\ replay \in ReplayStates
    BY <1>3 DEF DiffInv, Replayed, DiffTypeOK, ReplayStates
  <1>5. CASE BeginReplay
    <2>1. replay.pc = "waiting" /\ replay'.pc = "run" /\ replay'.triple = replay.triple
      BY <1>4, <1>5 DEF BeginReplay, ReplayStates
    <2>2. Unreplayed = n + 2 /\ Unreplayed' = n - replay.triple + 1
      BY <1>3, <2>1 DEF Unreplayed
    <2>3. Unreplayed' < Unreplayed
      BY <1>4, <2>2
    <2> QED BY <1>2, <2>3, EarlierIf
  <1>6. CASE SelfVerify
    <2>1. replay.pc = "run" /\ replay'.pc \in {"minted", "refused"}
      BY <1>4, <1>6 DEF SelfVerify, ReplayStates
    <2>2. Unreplayed = n - replay.triple + 1 /\ Unreplayed' = 0
      BY <1>3, <2>1 DEF Unreplayed
    <2>3. Unreplayed' < Unreplayed
      BY <1>4, <2>2
    <2> QED BY <1>2, <2>3, EarlierIf
  <1>7. CASE ReplayTriple
    <2>1. /\ replay.pc = "run"
          /\ \/ replay'.pc = "refused"
             \/ replay'.pc = "run" /\ replay'.triple = replay.triple + 1
      <3>1. CASE replay' = [replay EXCEPT !.pc = "refused"]
        BY <1>4, <1>7, <3>1 DEF ReplayTriple, ReplayStates
      <3>2. CASE replay' # [replay EXCEPT !.pc = "refused"]
        BY <1>4, <1>7, <3>2 DEF ReplayTriple, ReplayStates
      <3> QED BY <3>1, <3>2
    <2>2. Unreplayed = n - replay.triple + 1
      BY <1>3, <2>1 DEF Unreplayed
    <2>3. Unreplayed' = 0 \/ Unreplayed' = n - (replay.triple + 1) + 1
      BY <1>3, <2>1 DEF Unreplayed
    <2>4. Unreplayed' < Unreplayed
      BY <1>4, <2>2, <2>3
    <2> QED BY <1>2, <2>4, EarlierIf
  <1> QED BY <1>5, <1>6, <1>7

(* Diffing and replaying end: for all blobs, whatever the search finds and   *)
(* wherever the matches are, every step is one of finitely many              *)
(* (kbdiff_internal.go:254, kbpatch_internal.go:54).                        *)
THEOREM DiffsEnd == DiffSpec => DiffEnds
  <1>1. DiffInit => ScoreInv
    BY DEF DiffInit, ScoreInv
  <1>2. DiffInv /\ ScoreInv /\ [DiffNext]_diffVars => ScoreInv'
    BY ScoreStep
  <1>3. DiffInv /\ ScoreInv /\ [DiffNext]_diffVars =>
          [Earlier(ToDo', ToDo) /\ ToDo \in Nat \X Nat \X Nat]_diffVars
    BY ScanEarlier, ReplayEarlier, ToDoTypes DEF DiffNext
  <1> QED BY <1>1, <1>2, <1>3, DiffInvariant, PTL DEF DiffSpec, DiffEnds
=============================================================================
