------------------------ MODULE EngineInstallProofs ------------------------
(***************************************************************************)
(* Proofs about EngineInstall, for any number of runs, revisions, targets  *)
(* and files.                                                              *)
(***************************************************************************)
EXTENDS EngineInstall, TLAPS

(* The files of a target are files, and a revision is no marker. *)
LEMMA EngineFacts ==
  ASSUME TypeOK
  PROVE  /\ First \in Versions /\ None \notin Versions /\ Torn \notin Versions
         /\ Bad \notin Versions /\ Bad # None /\ Torn # None /\ None \notin Parts
         /\ \A r \in Runs : target[r] \in Targets
         /\ \A t \in Targets : Zip[t] \subseteq Parts /\ Own[t] \subseteq Zip[t]
         /\ \A t, u \in Targets : t # u => Own[t] \cap Zip[u] = {}
  BY EngineAssumption DEF TypeOK

-----------------------------------------------------------------------------
(* Types *)

LEMMA EngineTypeStep == ASSUME TypeOK, [Next]_vars PROVE TypeOK'
  <1> USE DEF vars, disk, args, own, hist, Goes, Running, Staging, Writing, Ended
  <1>1. CASE Publish
    BY <1>1 DEF TypeOK, Publish
  <1>2. ASSUME NEW r \in Runs, Install(r) PROVE TypeOK'
    BY <1>2 DEF TypeOK, Install
  <1>3. ASSUME NEW r \in Runs, Remove(r) PROVE TypeOK'
    <2> PICK v \in Versions :
          /\ version' = [version EXCEPT ![r] = v]
          /\ \/ v \in exists /\ Goes(r, "new", "removing") /\ Overlaps(r, v)
             \/ v \notin exists /\ Goes(r, "new", "failed") /\ UNCHANGED disturbed
      BY <1>3 DEF Remove
    <2>1. disturbed' \in [Runs -> BOOLEAN]
      BY DEF TypeOK, Overlaps
    <2>2. /\ version' \in [Runs -> Versions \cup {None}] /\ version'[r] \in Versions
          /\ \A q \in Runs : q # r => version'[q] = version[q]
      BY DEF TypeOK
    <2>3. /\ kind' \in [Runs -> {"install", "remove", "build"}] /\ kind'[r] = "remove"
          /\ \A q \in Runs : q # r => kind'[q] = kind[q]
      BY <1>3 DEF TypeOK, Remove
    <2>4. /\ pc' \in [Runs -> {"new"} \cup Running \cup Ended]
          /\ pc'[r] \in {"removing", "failed"} /\ \A q \in Runs : q # r => pc'[q] = pc[q]
      BY DEF TypeOK
    <2> QED BY <1>3, <2>1, <2>2, <2>3, <2>4 DEF TypeOK, Remove
  <1>4. ASSUME NEW r \in Runs, Build(r) PROVE TypeOK'
    <2>1. /\ kind' \in [Runs -> {"install", "remove", "build"}]
          /\ \A q \in Runs : q # r => kind'[q] = kind[q]
      BY <1>4 DEF TypeOK, Build
    <2>2. ASSUME version' = version, pc' = [pc EXCEPT ![r] = "choose"], pc[r] = "new"
          PROVE  TypeOK'
      BY <1>4, <2>1, <2>2 DEF TypeOK, Build
    <2>3. ASSUME NEW v \in Versions, version' = [version EXCEPT ![r] = v],
                 pc' = [pc EXCEPT ![r] = "layout"], pc[r] = "new"
          PROVE  TypeOK'
      BY <1>4, <2>1, <2>3 DEF TypeOK, Build
    <2> QED BY <1>4, <2>2, <2>3 DEF Build
  <1>5. ASSUME NEW r \in Runs, Resolve(r) PROVE TypeOK'
    <2>1. content' \in [Runs -> Versions \cup {Bad}]
      BY <1>5 DEF TypeOK, Resolve
    <2>2. /\ pc' \in [Runs -> {"new"} \cup Running \cup Ended]
          /\ pc'[r] \in {"list", "failed"} /\ \A q \in Runs : q # r => pc'[q] = pc[q]
      BY <1>5 DEF TypeOK, Resolve
    <2> QED BY <1>5, <2>1, <2>2 DEF TypeOK, Resolve
  <1>6. ASSUME NEW r \in Runs, List(r) PROVE TypeOK'
    <2>1. CASE version' = version
      <3>1. /\ pc' \in [Runs -> {"new"} \cup Running \cup Ended]
            /\ pc'[r] \in {"check", "failed"} /\ \A q \in Runs : q # r => pc'[q] = pc[q]
            /\ pc'[r] = "check" => version'[r] \in Versions
        BY <1>6, <2>1, EngineFacts DEF TypeOK, List
      <3> QED BY <1>6, <2>1, <3>1 DEF TypeOK, List
    <2>2. ASSUME NEW v \in Versions, version' = [version EXCEPT ![r] = v],
                 pc' = [pc EXCEPT ![r] = "check"], pc[r] = "list"
          PROVE  TypeOK'
      BY <1>6, <2>2 DEF TypeOK, List
    <2>3. published \in Versions /\ First \in Versions
      BY EngineFacts DEF TypeOK
    <2> QED BY <1>6, <2>1, <2>2, <2>3 DEF List
  <1>7. ASSUME NEW r \in Runs, Check(r) PROVE TypeOK'
    BY <1>7 DEF TypeOK, Check
  <1>8. ASSUME NEW r \in Runs, Download(r) PROVE TypeOK'
    BY <1>8 DEF TypeOK, Download
  <1>9. ASSUME NEW r \in Runs, Verify(r) PROVE TypeOK'
    BY <1>9 DEF TypeOK, Verify
  <1>10. ASSUME NEW r \in Runs, Extract(r) PROVE TypeOK'
    <2>1. staged' \in [Runs -> SUBSET Parts]
      <3>1. Zip[target[r]] \in SUBSET Parts
        BY EngineFacts
      <3>2. \E some \in SUBSET Zip[target[r]] : staged' = [staged EXCEPT ![r] = some]
        BY <1>10 DEF Extract
      <3> QED BY <3>1, <3>2 DEF TypeOK
    <2>2. temp' \in [Runs -> SUBSET {"part", "stage"}] /\ "stage" \in temp'[r]
          /\ \A q \in Runs : temp[q] \subseteq temp'[q]
      BY <1>10 DEF TypeOK, Extract
    <2>3. /\ pc' \in [Runs -> {"new"} \cup Running \cup Ended]
          /\ pc[r] = "extract" /\ pc'[r] \in {"stat", "abort"}
          /\ \A q \in Runs : q # r => pc'[q] = pc[q]
      BY <1>10 DEF TypeOK, Extract
    <2> QED BY <1>10, <2>1, <2>2, <2>3 DEF TypeOK, Extract
  <1>11. ASSUME NEW r \in Runs, Stat(r) PROVE TypeOK'
    <2>1. todo' \in [Runs -> SUBSET Parts]
      BY <1>11 DEF TypeOK, Stat
    <2>2. disturbed' \in [Runs -> BOOLEAN]
      BY <1>11 DEF TypeOK, Stat, Overlaps
    <2>3. /\ pc' \in [Runs -> {"new"} \cup Running \cup Ended] /\ pc[r] = "stat"
          /\ pc'[r] \in {"rename", "merge"} /\ \A q \in Runs : q # r => pc'[q] = pc[q]
      BY <1>11 DEF TypeOK, Stat
    <2> QED BY <1>11, <2>1, <2>2, <2>3 DEF TypeOK, Stat
  <1>12. ASSUME NEW r \in Runs, Rename(r) PROVE TypeOK'
    <2>1. [x \in Parts |-> IF x \in staged[r] THEN content[r] ELSE None]
            \in [Parts -> Versions \cup {Bad, Torn, None}]
      BY DEF TypeOK
    <2>2. version[r] \in Versions
      BY <1>12 DEF TypeOK, Rename
    <2>3. /\ tree' \in [Versions -> [Parts -> Versions \cup {Bad, Torn, None}]]
          /\ \A v \in Versions : v # version[r] => tree'[v] = tree[v]
      BY <1>12, <2>1, <2>2 DEF TypeOK, Rename
    <2>4. /\ exists' \subseteq Versions /\ exists' = exists \cup {version[r]}
          /\ hurt' \subseteq Versions /\ disturbed' \in [Runs -> BOOLEAN]
      BY <1>12, <2>2 DEF TypeOK, Rename, Overlaps
    <2>5. /\ pc' \in [Runs -> {"new"} \cup Running \cup Ended]
          /\ pc'[r] = "tidy" /\ \A q \in Runs : q # r => pc'[q] = pc[q]
      BY <1>12 DEF TypeOK, Rename
    <2> QED BY <1>12, <2>3, <2>4, <2>5 DEF TypeOK, Rename
  <1>13. ASSUME NEW r \in Runs, RenameFails(r) PROVE TypeOK'
    BY <1>13 DEF TypeOK, RenameFails
  <1>14. ASSUME NEW r \in Runs, MergeOpen(r) PROVE TypeOK'
    <2>1. version[r] \in Versions /\ todo[r] \subseteq Parts
      BY <1>14 DEF TypeOK, MergeOpen
    <2>2. /\ tree' \in [Versions -> [Parts -> Versions \cup {Bad, Torn, None}]]
          /\ \A v \in Versions : v # version[r] => tree'[v] = tree[v]
      BY <1>14, <2>1 DEF TypeOK, MergeOpen
    <2>3. opened' \in [Runs -> Parts \cup {None}]
      BY <1>14, <2>1 DEF TypeOK, MergeOpen
    <2> QED BY <1>14, <2>1, <2>2, <2>3 DEF TypeOK, MergeOpen
  <1>15. ASSUME NEW r \in Runs, MergeCopy(r) PROVE TypeOK'
    <2>1. version[r] \in Versions /\ opened[r] \in Parts
      BY <1>15 DEF TypeOK, MergeCopy
    <2>2. PICK c \in Copied(r, opened[r]) : tree' = [tree EXCEPT ![version[r]][opened[r]] = c]
      BY <1>15 DEF MergeCopy
    <2>3. c \in Versions \cup {Bad, Torn, None}
      BY <2>2 DEF Copied, TypeOK
    <2>4. tree[version[r]][opened[r]] = None => c = None
      BY <2>2 DEF Copied
    <2>5. /\ tree' \in [Versions -> [Parts -> Versions \cup {Bad, Torn, None}]]
          /\ \A v \in Versions, x \in Parts : tree[v][x] = None => tree'[v][x] = None
      BY <2>1, <2>2, <2>3, <2>4 DEF TypeOK
    <2>6. todo' \in [Runs -> SUBSET Parts] /\ opened' \in [Runs -> Parts \cup {None}]
      BY <1>15 DEF TypeOK, MergeCopy
    <2> QED BY <1>15, <2>5, <2>6 DEF TypeOK, MergeCopy
  <1>16. ASSUME NEW r \in Runs, MergeDone(r) \/ MergeFails(r) \/ RemoveFails(r) PROVE TypeOK'
    <2>1. pc[r] \in Writing /\ version[r] \in Versions
      BY <1>16 DEF TypeOK, MergeDone, MergeFails, RemoveFails
    <2>2. CASE MergeDone(r)
      BY <2>1, <2>2 DEF TypeOK, MergeDone
    <2>3. CASE MergeFails(r)
      BY <2>1, <2>3 DEF TypeOK, MergeFails
    <2>4. CASE RemoveFails(r)
      BY <2>1, <2>4 DEF TypeOK, RemoveFails
    <2> QED BY <1>16, <2>2, <2>3, <2>4
  <1>17. ASSUME NEW r \in Runs, Tidy(r) PROVE TypeOK'
    BY <1>17 DEF TypeOK, Tidy
  <1>18. ASSUME NEW r \in Runs, RemoveFile(r) PROVE TypeOK'
    <2>1. version[r] \in Versions
      BY <1>18 DEF TypeOK, RemoveFile
    <2>2. /\ tree' \in [Versions -> [Parts -> Versions \cup {Bad, Torn, None}]]
          /\ \A v \in Versions, x \in Parts : tree[v][x] = None => tree'[v][x] = None
      BY <1>18, <2>1 DEF TypeOK, RemoveFile
    <2> QED BY <1>18, <2>2 DEF TypeOK, RemoveFile
  <1>19. ASSUME NEW r \in Runs, RemoveDone(r) PROVE TypeOK'
    BY <1>19 DEF TypeOK, RemoveDone, Present
  <1>20. ASSUME NEW r \in Runs, Choose(r) \/ Layout(r) PROVE TypeOK'
    <2>1. CASE Layout(r)
      BY <2>1 DEF TypeOK, Layout
    <2>2. ASSUME version' = version, pc' = [pc EXCEPT ![r] = "refused"], pc[r] = "choose",
                 Choose(r)
          PROVE  TypeOK'
      BY <2>2 DEF TypeOK, Choose
    <2>3. ASSUME NEW v \in Versions, version' = [version EXCEPT ![r] = v],
                 pc' = [pc EXCEPT ![r] = "layout"], pc[r] = "choose", Choose(r)
          PROVE  TypeOK'
      BY <2>3 DEF TypeOK, Choose
    <2> QED BY <1>20, <2>1, <2>2, <2>3 DEF Choose, TypeOK
  <1>21. ASSUME NEW r \in Runs, Kill(r) PROVE TypeOK'
    BY <1>21 DEF TypeOK, Kill
  <1>22. CASE UNCHANGED vars
    BY <1>22 DEF TypeOK
  <1> QED
    BY <1>1, <1>2, <1>3, <1>4, <1>5, <1>6, <1>7, <1>8, <1>9, <1>10, <1>11, <1>12, <1>13,
       <1>14, <1>15, <1>16, <1>17, <1>18, <1>19, <1>20, <1>21, <1>22
    DEF Next, Step, InstallStep
-----------------------------------------------------------------------------
(* What a step of one run leaves of the others. *)

LEMMA EngineInit == Init => TypeOK /\ EngineInv
  <1> SUFFICES ASSUME Init PROVE TypeOK /\ EngineInv
    OBVIOUS
  <1> PICK had \in Starts :
        /\ exists = {v \in Versions : had[v] # {}}
        /\ tree = [v \in Versions |-> [x \in Parts |-> IF x \in Files(had, v) THEN v ELSE None]]
    BY DEF Init
  <1>0. had \in [Versions -> SUBSET Targets]
    BY EngineAssumption
  <1>1. TypeOK
    <2>1. tree \in [Versions -> [Parts -> Versions \cup {Bad, Torn, None}]]
      OBVIOUS
    <2>2. \A v \in Versions : v \notin exists => \A x \in Parts : tree[v][x] = None
      BY DEF Files
    <2> QED BY <2>1, <2>2 DEF Init, TypeOK, Writing
  <1>2. StagedInv /\ MergeInv /\ OverlapInv
    BY DEF Init, StagedInv, MergeInv, OverlapInv, Writing
  <1>3. WholeInv
    <2> SUFFICES ASSUME NEW v \in Versions, NEW t \in Targets, NEW y \in Own[t],
                        tree[v][y] # None, NEW x \in Zip[t]
                 PROVE  tree[v][x] = v
      BY DEF WholeInv, Present
    <2>1. y \in Parts /\ x \in Parts
      BY <1>1, EngineFacts
    <2>2. PICK u \in had[v] : y \in Zip[u]
      BY <2>1 DEF Files
    <2>3. u = t
      BY <1>0, <1>1, <2>2, EngineFacts
    <2> QED BY <2>1, <2>2, <2>3 DEF Files
  <1> QED BY <1>1, <1>2, <1>3 DEF EngineInv

\* Steps that neither write to a version nor begin or end writing.
Elsewhere(r) ==
  /\ UNCHANGED <<disk, todo, opened, disturbed, hurt>>
  /\ pc[r] \notin Writing /\ pc'[r] \notin Writing
  /\ \A q \in Runs : q # r => /\ pc'[q] = pc[q] /\ version'[q] = version[q]
                             /\ target'[q] = target[q] /\ content'[q] = content[q]

LEMMA ElsewhereKeeps ==
  ASSUME TypeOK, EngineInv, NEW r \in Runs, Elsewhere(r)
  PROVE  MergeInv' /\ OverlapInv' /\ WholeInv'
  <1> USE DEF Elsewhere, disk
  <1>1. \A q \in Runs : pc'[q] \in Writing => q # r
    OBVIOUS
  <1>2. MergeInv'
    BY <1>1 DEF EngineInv, MergeInv, Writing
  <1>3. OverlapInv'
    BY <1>1 DEF EngineInv, OverlapInv
  <1>4. \A v \in Versions : Writers(v)' = Writers(v)
    BY <1>1 DEF Writers
  <1>5. \A q \in Runs : pc[q] \in Writing => Orderly(q)' = Orderly(q)
    BY <1>1 DEF Orderly
  <1>6. WholeInv'
    <2> SUFFICES ASSUME NEW v \in Versions \ hurt, \A q \in Writers(v)' : Orderly(q)'
                 PROVE  \A t \in Targets : Present(v, Own[t])' =>
                          \A x \in Zip[t] : tree'[v][x] = v \/ \E q \in Writers(v)' : x \in todo'[q]
      BY DEF WholeInv
    <2>1. \A q \in Writers(v) : Orderly(q)
      BY <1>4, <1>5 DEF Writers
    <2> QED BY <1>4, <2>1 DEF EngineInv, WholeInv, Present
  <1> QED BY <1>2, <1>3, <1>6

LEMMA OtherSteps ==
  ASSUME TypeOK, EngineInv, NEW r \in Runs,
         \/ Install(r) \/ Build(r) \/ Resolve(r) \/ List(r) \/ Check(r) \/ Download(r)
         \/ Verify(r) \/ Extract(r) \/ RenameFails(r) \/ Tidy(r) \/ Choose(r) \/ Layout(r)
         \/ Remove(r) /\ pc'[r] = "failed"
         \/ Stat(r) /\ pc'[r] = "rename"
         \/ Kill(r) /\ pc[r] \notin Writing
  PROVE  Elsewhere(r)
  <1> USE DEF Elsewhere, TypeOK, Goes, Writing, disk, args, own, hist
  <1>1. CASE Install(r) \/ Resolve(r) \/ Check(r) \/ Verify(r) \/ RenameFails(r) \/ Tidy(r)
             \/ Layout(r) \/ Extract(r)
    BY <1>1 DEF Install, Resolve, Check, Verify, RenameFails, Tidy, Layout, Extract
  <1>2. CASE Build(r) \/ Choose(r) \/ List(r)
    BY <1>2 DEF Build, Choose, List
  <1>3. CASE Download(r)
    BY <1>3 DEF Download
  <1>4. CASE Remove(r) /\ pc'[r] = "failed"
    BY <1>4 DEF Remove
  <1>5. CASE Stat(r) /\ pc'[r] = "rename"
    BY <1>5 DEF Stat
  <1>6. CASE Kill(r) /\ pc[r] \notin Writing
    <2>1. opened[r] = None
      BY <1>6 DEF EngineInv, MergeInv
    <2> QED BY <1>6, <2>1 DEF Kill
  <1> QED BY <1>1, <1>2, <1>3, <1>4, <1>5, <1>6

-----------------------------------------------------------------------------
(* What is staged *)

LEMMA StagedStep ==
  ASSUME TypeOK, EngineInv, [Next]_vars
  PROVE  StagedInv'
  <1> USE DEF EngineInv, StagedInv, Goes, vars, disk, args, own, hist, Staging, TypeOK
  <1>1. CASE Publish \/ UNCHANGED vars
    BY <1>1 DEF Publish
  <1>2. ASSUME NEW r \in Runs, Install(r) \/ Build(r) \/ Remove(r)
        PROVE  StagedInv'
    BY <1>2 DEF Install, Build, Remove
  <1>3. ASSUME NEW r \in Runs, Resolve(r) \/ List(r) \/ Check(r) PROVE StagedInv'
    BY <1>3 DEF Resolve, List, Check
  <1>4. ASSUME NEW r \in Runs, Download(r) PROVE StagedInv'
    BY <1>4 DEF Download
  <1>5. ASSUME NEW r \in Runs, Verify(r) PROVE StagedInv'
    BY <1>5 DEF Verify, Verified
  <1>6. ASSUME NEW r \in Runs, Extract(r) PROVE StagedInv'
    BY <1>6 DEF Extract
  <1>7. ASSUME NEW r \in Runs, Stat(r) \/ Rename(r) \/ RenameFails(r) PROVE StagedInv'
    BY <1>7 DEF Stat, Rename, RenameFails
  <1>8. ASSUME NEW r \in Runs, MergeOpen(r) \/ MergeCopy(r) \/ MergeDone(r) \/ MergeFails(r)
        PROVE  StagedInv'
    BY <1>8 DEF MergeOpen, MergeCopy, MergeDone, MergeFails
  <1>9. ASSUME NEW r \in Runs, Tidy(r) PROVE StagedInv'
    BY <1>9 DEF Tidy
  <1>10. ASSUME NEW r \in Runs, RemoveFile(r) \/ RemoveDone(r) \/ RemoveFails(r) PROVE StagedInv'
    BY <1>10 DEF RemoveFile, RemoveDone, RemoveFails
  <1>11. ASSUME NEW r \in Runs, Choose(r) \/ Layout(r) PROVE StagedInv'
    BY <1>11 DEF Choose, Layout
  <1>12. ASSUME NEW r \in Runs, Kill(r) PROVE StagedInv'
    BY <1>12 DEF Kill
  <1> QED
    BY <1>1, <1>2, <1>3, <1>4, <1>5, <1>6, <1>7, <1>8, <1>9, <1>10, <1>11, <1>12
    DEF Next, Step, InstallStep

-----------------------------------------------------------------------------
(* Beginning to write *)

LEMMA StatStep ==
  ASSUME TypeOK, EngineInv, NEW r \in Runs, Stat(r), pc'[r] = "merge"
  PROVE  MergeInv' /\ OverlapInv' /\ WholeInv'
  <1> USE DEF EngineInv, TypeOK
  <1>1. /\ pc[r] = "stat" /\ version[r] \in exists /\ version[r] \in Versions
        /\ todo' = [todo EXCEPT ![r] = staged[r]] /\ staged[r] = Zip[target[r]]
        /\ Overlaps(r, version[r])
        /\ \A q \in Runs : q # r => pc'[q] = pc[q]
        /\ UNCHANGED <<disk, args, content, opened, hurt>>
    BY DEF Stat, Goes, StagedInv, Writing, own, hist
  <1>2. opened[r] = None
    BY <1>1 DEF MergeInv
  <1>3. MergeInv'
    BY <1>1, <1>2 DEF MergeInv, Overlaps, disk, args
  <1>4. OverlapInv'
    <2> SUFFICES ASSUME NEW q \in Runs, NEW s \in Runs, q # s, pc'[q] \in Writing,
                        pc'[s] \in Writing, version[q] = version[s]
                 PROVE  disturbed'[q]
      BY <1>1 DEF OverlapInv, args
    <2>1. CASE q = r
      BY <1>1, <2>1 DEF Overlaps, Writers
    <2>2. CASE s = r
      BY <1>1, <2>2 DEF Overlaps, Writers
    <2>3. CASE q # r /\ s # r
      BY <1>1, <2>3 DEF OverlapInv, Overlaps
    <2> QED BY <2>1, <2>2, <2>3
  <1>5. WholeInv'
    <2> SUFFICES ASSUME NEW v \in Versions \ hurt, \A q \in Writers(v)' : Orderly(q)',
                        NEW t \in Targets, Present(v, Own[t]), NEW x \in Zip[t]
                 PROVE  tree[v][x] = v \/ \E q \in Writers(v)' : x \in todo'[q]
      BY <1>1, SMTT(40) DEF WholeInv, Present, disk
    <2>1. \A q \in Writers(v) : q # r /\ q \in Writers(v)'
      BY <1>1 DEF Writers, args, Writing
    <2>2. \A q \in Writers(v) : Orderly(q) /\ todo'[q] = todo[q]
      BY <1>1, <2>1 DEF Orderly, Overlaps, Writers, args
    <2>3. tree[v][x] = v \/ \E q \in Writers(v) : x \in todo[q]
      BY <2>2 DEF WholeInv
    <2> QED BY <2>1, <2>2, <2>3
  <1> QED BY <1>3, <1>4, <1>5

LEMMA RemoveStep ==
  ASSUME TypeOK, EngineInv, NEW r \in Runs, Remove(r), pc'[r] = "removing"
  PROVE  MergeInv' /\ OverlapInv' /\ WholeInv'
  <1> USE DEF EngineInv, TypeOK
  <1> PICK w \in Versions : /\ version' = [version EXCEPT ![r] = w]
                            /\ Overlaps(r, w)
    BY DEF Remove, Goes
  <1>1. /\ pc[r] = "new" /\ \A q \in Runs : q # r => pc'[q] = pc[q]
        /\ UNCHANGED <<disk, target, content, todo, opened, hurt>>
    BY DEF Remove, Goes, own
  <1>2. opened[r] = None
    BY <1>1 DEF MergeInv
  <1>3. MergeInv'
    BY <1>1, <1>2 DEF MergeInv, Overlaps, disk
  <1>4. OverlapInv'
    BY <1>1 DEF OverlapInv, Overlaps, Writers, Writing
  <1>5. WholeInv'
    <2> SUFFICES ASSUME NEW v \in Versions \ hurt, \A q \in Writers(v)' : Orderly(q)',
                        NEW t \in Targets, Present(v, Own[t]), NEW x \in Zip[t]
                 PROVE  tree[v][x] = v \/ \E q \in Writers(v)' : x \in todo'[q]
      <3>1. tree' = tree /\ hurt' = hurt
        BY <1>1 DEF disk
      <3> QED BY <3>1 DEF WholeInv, Present
    <2>1. v # w
      <3>1. v = w => r \in Writers(v)'
        BY DEF Writers, Writing
      <3> QED BY <3>1 DEF Orderly
    <2>2. \A q \in Writers(v) : q # r /\ q \in Writers(v)'
      BY <1>1 DEF Writers, Writing
    <2>3. \A q \in Writers(v) : Orderly(q) /\ todo'[q] = todo[q]
      BY <1>1, <2>2 DEF Orderly, Overlaps, Writers
    <2>4. tree[v][x] = v \/ \E q \in Writers(v) : x \in todo[q]
      BY <2>3 DEF WholeInv
    <2> QED BY <2>2, <2>3, <2>4
  <1> QED BY <1>3, <1>4, <1>5

LEMMA RenameStep ==
  ASSUME TypeOK, EngineInv, NEW r \in Runs, Rename(r)
  PROVE  MergeInv' /\ OverlapInv' /\ WholeInv'
  <1> USE DEF EngineInv, TypeOK
  <1> DEFINE w == version[r]
  <1>1. /\ pc[r] = "rename" /\ pc'[r] = "tidy" /\ \A q \in Runs : q # r => pc'[q] = pc[q]
        /\ w \in Versions /\ w \notin exists /\ exists' = exists \cup {w}
        /\ staged[r] = Zip[target[r]] /\ content[r] \in Versions
        /\ Overlaps(r, w) /\ UNCHANGED <<args, content, todo, opened>>
        /\ hurt' = IF content[r] = w THEN hurt ELSE hurt \cup {w}
    BY DEF Rename, Goes, StagedInv, Writing, own
  <1>2. /\ \A x \in Parts : tree'[w][x] = IF x \in staged[r] THEN content[r] ELSE None
        /\ \A v \in Versions : v # w => tree'[v] = tree[v]
    BY <1>1 DEF Rename
  <1>3. opened[r] = None
    BY <1>1 DEF MergeInv
  <1>4. \A q \in Runs : pc'[q] \in Writing => q # r /\ pc[q] \in Writing
    BY <1>1 DEF Writing
  <1>5. MergeInv'
    <2>1. \A q \in Runs : pc'[q] = "merge" /\ ~disturbed'[q] =>
                            q # r /\ version[q] # w /\ ~disturbed[q]
      BY <1>1 DEF Overlaps, Writers, Writing
    <2> QED BY <1>1, <1>2, <1>3, <2>1 DEF MergeInv, args, Writing
  <1>6. OverlapInv'
    BY <1>1, <1>4 DEF OverlapInv, Overlaps, args
  <1>7. WholeInv'
    <2> SUFFICES ASSUME NEW v \in Versions \ hurt', \A q \in Writers(v)' : Orderly(q)',
                        NEW t \in Targets, Present(v, Own[t])', NEW x \in Zip[t]
                 PROVE  tree'[v][x] = v \/ \E q \in Writers(v)' : x \in todo'[q]
      BY DEF WholeInv
    <2>1. CASE v = w
      <3>1. PICK y \in Own[t] : tree'[v][y] # None
        BY DEF Present
      <3>2. y \in staged[r]
        BY <1>2, <2>1, <3>1, EngineFacts
      <3>3. t = target[r]
        BY <1>1, <3>1, <3>2, EngineFacts
      <3> QED BY <1>1, <1>2, <2>1, <3>3, EngineFacts
    <2>2. CASE v # w
      <3>1. Writers(v)' = Writers(v)
        BY <1>1, <2>2 DEF Writers, args, Writing
      <3>2. \A q \in Writers(v) : Orderly(q)
        BY <1>1, <3>1 DEF Orderly, Overlaps, Writers, args, Writing
      <3> QED BY <1>1, <1>2, <2>2, <3>1, <3>2 DEF WholeInv, Present
    <2> QED BY <2>1, <2>2
  <1> QED BY <1>5, <1>6, <1>7

-----------------------------------------------------------------------------
(* Writing.  Whoever writes beside another is disturbed. *)

LEMMA Alone ==
  ASSUME TypeOK, EngineInv, NEW r \in Runs, NEW q \in Runs, q # r, pc[r] \in Writing,
         pc[q] = "merge", version[q] = version[r]
  PROVE  disturbed[q] /\ disturbed[r]
  BY DEF EngineInv, OverlapInv, Writing

LEMMA MergeOpenStep ==
  ASSUME TypeOK, EngineInv, NEW r \in Runs, MergeOpen(r)
  PROVE  MergeInv' /\ OverlapInv' /\ WholeInv'
  <1> USE DEF EngineInv, TypeOK
  <1> DEFINE w == version[r]
  <1> PICK z \in todo[r] : /\ opened' = [opened EXCEPT ![r] = z]
                           /\ tree' = [tree EXCEPT ![w][z] = Torn]
    BY DEF MergeOpen
  <1>1. /\ pc[r] = "merge" /\ opened[r] = None /\ w \in Versions
        /\ exists' = exists \cup {w}
        /\ UNCHANGED <<pc, args, content, todo, hist>>
    BY DEF MergeOpen, Writing
  <1>2. z \in Zip[target[r]] /\ z \in Parts
    BY <1>1 DEF MergeInv
  <1>3. /\ tree'[w][z] = Torn
        /\ \A v \in Versions, x \in Parts : v # w \/ x # z => tree'[v][x] = tree[v][x]
    BY <1>1, <1>2
  <1>4. MergeInv'
    <2> SUFFICES ASSUME NEW q \in Runs
                 PROVE  /\ opened'[q] # None => pc[q] = "merge" /\ opened'[q] \in todo[q]
                        /\ pc[q] = "merge" /\ ~disturbed[q] =>
                             /\ version[q] \in exists'
                             /\ \A x \in Zip[target[q]] \ todo[q] :
                                  tree'[version[q]][x] = content[q]
                             /\ opened'[q] # None => tree'[version[q]][opened'[q]] # None
      BY <1>1 DEF MergeInv, args, hist
    <2>1. CASE q = r
      BY <1>1, <1>2, <1>3, <2>1, EngineFacts DEF MergeInv
    <2>2. CASE q # r
      <3>1. pc[q] = "merge" /\ ~disturbed[q] => version[q] # w /\ version[q] \in Versions
        BY <1>1, <2>2, Alone DEF Writing
      <3> QED BY <1>1, <1>3, <2>2, <3>1, EngineFacts DEF MergeInv
    <2> QED BY <2>1, <2>2
  <1>5. OverlapInv'
    BY <1>1 DEF OverlapInv, args, hist
  <1>6. WholeInv'
    <2> SUFFICES ASSUME NEW v \in Versions \ hurt, \A q \in Writers(v) : Orderly(q),
                        NEW t \in Targets, Present(v, Own[t])', NEW x \in Zip[t]
                 PROVE  tree'[v][x] = v \/ \E q \in Writers(v) : x \in todo[q]
      BY <1>1 DEF WholeInv, Writers, Orderly, args, hist
    <2>0. x \in Parts /\ Own[t] \subseteq Parts
      BY EngineFacts
    <2>1. CASE v = w /\ x = z
      BY <1>1, <2>1 DEF Writers, Writing
    <2>2. CASE (v # w \/ x # z) /\ Present(v, Own[t])
      BY <1>3, <2>0, <2>2 DEF WholeInv
    <2>3. CASE (v # w \/ x # z) /\ ~Present(v, Own[t])
      <3>1. v = w /\ z \in Own[t]
        BY <1>3, <2>0, <2>3 DEF Present
      <3>2. t = target[r]
        BY <1>2, <3>1, EngineFacts
      <3>3. r \in Writers(v) /\ Orderly(r)
        BY <1>1, <3>1 DEF Writers, Writing
      <3> QED BY <1>3, <2>0, <2>3, <3>1, <3>2, <3>3 DEF MergeInv, Orderly
    <2> QED BY <2>1, <2>2, <2>3
  <1> QED BY <1>4, <1>5, <1>6

LEMMA MergeCopyStep ==
  ASSUME TypeOK, EngineInv, NEW r \in Runs, MergeCopy(r)
  PROVE  MergeInv' /\ OverlapInv' /\ WholeInv'
  <1> USE DEF EngineInv, TypeOK
  <1> DEFINE w == version[r]
             z == opened[r]
  <1> PICK c \in Copied(r, z) : tree' = [tree EXCEPT ![w][z] = c]
    BY DEF MergeCopy
  <1>1. /\ pc[r] = "merge" /\ z # None /\ z \in todo[r] /\ z \in Parts /\ w \in Versions
        /\ z \in Zip[target[r]]
        /\ todo' = [todo EXCEPT ![r] = @ \ {z}] /\ opened' = [opened EXCEPT ![r] = None]
        /\ UNCHANGED <<exists, pc, args, content, hist>>
    BY DEF MergeCopy, Writing, MergeInv
  <1>2. /\ tree'[w][z] = c
        /\ \A v \in Versions, x \in Parts : v # w \/ x # z => tree'[v][x] = tree[v][x]
    BY <1>1
  <1>3. ~disturbed[r] => c = content[r] /\ tree[w][z] # None
    <2>1. ~disturbed[r] => tree[w][z] # None
      BY <1>1 DEF MergeInv
    <2>2. \A q \in Runs \ {r} : opened[q] = z /\ q \in Writers(w) => disturbed[r]
      BY <1>1, Alone DEF MergeInv, Writers, Writing
    <2> QED BY <2>1, <2>2 DEF Copied
  <1>4. MergeInv'
    <2> SUFFICES ASSUME NEW q \in Runs
                 PROVE  /\ opened'[q] # None => pc[q] = "merge" /\ opened'[q] \in todo'[q]
                        /\ pc[q] = "merge" => todo'[q] \subseteq Zip[target[q]]
                        /\ pc[q] = "merge" /\ ~disturbed[q] =>
                             /\ version[q] \in exists
                             /\ \A x \in Zip[target[q]] \ todo'[q] :
                                  tree'[version[q]][x] = content[q]
                             /\ opened'[q] # None => tree'[version[q]][opened'[q]] # None
      BY <1>1 DEF MergeInv, args, hist
    <2>1. CASE q = r
      BY <1>1, <1>2, <1>3, <2>1, EngineFacts DEF MergeInv
    <2>2. CASE q # r
      <3>1. pc[q] = "merge" /\ ~disturbed[q] => version[q] # w /\ version[q] \in Versions
        BY <1>1, <2>2, Alone DEF Writing
      <3> QED BY <1>1, <1>2, <2>2, <3>1, EngineFacts DEF MergeInv
    <2> QED BY <2>1, <2>2
  <1>5. OverlapInv'
    BY <1>1 DEF OverlapInv, args, hist
  <1>6. WholeInv'
    <2> SUFFICES ASSUME NEW v \in Versions \ hurt, \A q \in Writers(v) : Orderly(q),
                        NEW t \in Targets, Present(v, Own[t])', NEW x \in Zip[t]
                 PROVE  tree'[v][x] = v \/ \E q \in Writers(v) : x \in todo'[q]
      BY <1>1 DEF WholeInv, Writers, Orderly, args, hist
    <2>0. x \in Parts /\ Own[t] \subseteq Parts
      BY EngineFacts
    <2>1. v = w => ~disturbed[r] /\ content[r] = w
      BY <1>1 DEF Writers, Writing, Orderly
    <2>2. CASE v = w /\ x = z
      BY <1>2, <1>3, <2>1, <2>2
    <2>3. CASE v # w \/ x # z
      <3>1. Present(v, Own[t])
        BY <1>1, <1>2, <1>3, <2>0, <2>1 DEF Present
      <3>2. tree[v][x] = v \/ \E q \in Writers(v) : x \in todo[q]
        BY <3>1 DEF WholeInv
      <3>3. v # w => r \notin Writers(v)
        BY DEF Writers
      <3> QED BY <1>1, <1>2, <2>0, <2>3, <3>2, <3>3 DEF Writers
    <2> QED BY <2>2, <2>3
  <1> QED BY <1>4, <1>5, <1>6

LEMMA RemoveFileStep ==
  ASSUME TypeOK, EngineInv, NEW r \in Runs, RemoveFile(r) \/ RemoveDone(r)
  PROVE  MergeInv' /\ OverlapInv' /\ WholeInv'
  <1> USE DEF EngineInv, TypeOK
  <1> DEFINE w == version[r]
  <1>1. /\ pc[r] = "removing" /\ w \in Versions
        /\ \A q \in Runs : q # r => pc'[q] = pc[q]
        /\ pc'[r] \notin Writing \/ pc' = pc
        /\ UNCHANGED <<args, content, todo, opened, disturbed>>
        /\ \A v \in Versions : v # w => /\ tree'[v] = tree[v]
                                       /\ (v \in exists' <=> v \in exists)
                                       /\ (v \in hurt' <=> v \in hurt)
        /\ \/ pc' = pc
           \/ \A x \in Parts : tree'[w][x] = None
    <2>0. pc[r] = "removing"
      BY DEF RemoveFile, RemoveDone, Goes
    <2>1. w \in Versions
      BY <2>0 DEF Writing
    <2>2. ASSUME NEW x \in Parts, tree' = [tree EXCEPT ![w][x] = None]
          PROVE  \A v \in Versions : v # w => tree'[v] = tree[v]
      BY <2>1, <2>2
    <2>3. CASE RemoveFile(r)
      BY <2>0, <2>1, <2>2, <2>3 DEF RemoveFile, own, hist
    <2>4. CASE RemoveDone(r)
      <3>1. pc' = [pc EXCEPT ![r] = "removed"] /\ tree' = tree
            /\ exists' = exists \ {w} /\ hurt' = hurt \ {w}
            /\ UNCHANGED <<args, content, todo, opened, disturbed>>
        BY <2>4 DEF RemoveDone, Goes, own
      <3>2. \A x \in Parts : tree'[w][x] = None
        BY <2>4, <3>1 DEF RemoveDone, Present
      <3>3. pc'[r] \notin Writing /\ \A q \in Runs : q # r => pc'[q] = pc[q]
        BY <3>1 DEF Writing
      <3> QED BY <2>0, <2>1, <3>1, <3>2, <3>3
    <2> QED BY <2>3, <2>4
  <1>2. \A q \in Runs : pc'[q] = "merge" => q # r /\ pc[q] = "merge"
    BY <1>1 DEF Writing
  <1>3. \A q \in Runs : pc[q] = "merge" /\ ~disturbed[q] => version[q] # w /\ version[q] \in Versions
    BY <1>1, Alone DEF Writing
  <1>4. MergeInv'
    <2>1. opened[r] = None
      BY <1>1 DEF MergeInv
    <2> SUFFICES ASSUME NEW q \in Runs
                 PROVE  /\ opened[q] # None => pc'[q] = "merge" /\ opened[q] \in todo[q]
                        /\ pc'[q] = "merge" => todo[q] \subseteq Zip[target[q]]
                        /\ pc'[q] = "merge" /\ ~disturbed[q] =>
                             /\ version[q] \in exists'
                             /\ \A x \in Zip[target[q]] \ todo[q] :
                                  tree'[version[q]][x] = content[q]
                             /\ opened[q] # None => tree'[version[q]][opened[q]] # None
      BY <1>1 DEF MergeInv, args
    <2>2. opened[q] # None => pc'[q] = "merge" /\ opened[q] \in todo[q]
      BY <1>1, <2>1 DEF MergeInv
    <2>3. pc'[q] = "merge" => todo[q] \subseteq Zip[target[q]]
      BY <1>2 DEF MergeInv
    <2>4. ASSUME pc'[q] = "merge", ~disturbed[q]
          PROVE  /\ version[q] \in exists /\ version[q] \in exists'
                 /\ tree'[version[q]] = tree[version[q]]
      BY <1>1, <1>2, <1>3, <2>4 DEF MergeInv
    <2> QED BY <1>2, <2>2, <2>3, <2>4 DEF MergeInv
  <1>5. OverlapInv'
    BY <1>1 DEF OverlapInv, args
  <1>6. WholeInv'
    <2> SUFFICES ASSUME NEW v \in Versions \ hurt', \A q \in Writers(v)' : Orderly(q)',
                        NEW t \in Targets, Present(v, Own[t])', NEW x \in Zip[t]
                 PROVE  tree'[v][x] = v \/ \E q \in Writers(v)' : x \in todo'[q]
      BY DEF WholeInv
    <2>1. v # w
      <3>1. v = w /\ pc' = pc => r \in Writers(v)' /\ ~Orderly(r)'
        BY <1>1 DEF Writers, Writing, Orderly, args
      <3> QED BY <1>1, <3>1, EngineFacts DEF Present
    <2>2. Writers(v)' = Writers(v)
      BY <1>1, <2>1 DEF Writers, args
    <2>3. \A q \in Writers(v) : Orderly(q)
      BY <1>1, <1>2, <2>2 DEF Orderly, Writers, args
    <2>4. tree'[v] = tree[v] /\ v \notin hurt
      BY <1>1, <2>1
    <2>5. Present(v, Own[t])
      BY <2>4 DEF Present
    <2>6. tree[v][x] = v \/ \E q \in Writers(v) : x \in todo[q]
      BY <2>3, <2>4, <2>5 DEF WholeInv
    <2> QED BY <1>1, <2>2, <2>4, <2>6
  <1> QED BY <1>4, <1>5, <1>6

\* A writer that ends: either its merge was orderly and is complete, or the version
\* counts as hurt.
LEMMA EndOfWriting ==
  ASSUME TypeOK, EngineInv, NEW r \in Runs,
         MergeDone(r) \/ MergeFails(r) \/ RemoveFails(r) \/ (Kill(r) /\ pc[r] \in Writing)
  PROVE  MergeInv' /\ OverlapInv' /\ WholeInv'
  <1> USE DEF EngineInv, TypeOK
  <1> DEFINE w == version[r]
  <1>1. /\ pc[r] \in Writing /\ pc'[r] \notin Writing /\ w \in Versions
        /\ \A q \in Runs : q # r => pc'[q] = pc[q]
        /\ UNCHANGED <<disk, args, content, todo, disturbed>>
    BY DEF MergeDone, MergeFails, RemoveFails, Kill, Goes, Writing, Running, Staging, own, hist
  <1>2. hurt' = hurt \cup {w} \/ (hurt' = hurt /\ Orderly(r) /\ todo[r] = {})
    <2>1. CASE MergeDone(r)
      BY <2>1 DEF MergeDone, Goes, Orderly
    <2>2. CASE MergeFails(r) \/ RemoveFails(r) \/ (Kill(r) /\ pc[r] \in Writing)
      BY <2>2 DEF MergeFails, RemoveFails, Kill
    <2> QED BY <2>1, <2>2
  <1>3. opened'[r] = None /\ \A q \in Runs : q # r => opened'[q] = opened[q]
    <2>1. pc[r] # "merge" \/ todo[r] = {} => opened[r] = None
      BY DEF MergeInv
    <2> QED BY <2>1 DEF MergeDone, MergeFails, RemoveFails, Kill, Goes, own
  <1>4. \A q \in Runs : pc'[q] \in Writing => q # r /\ pc[q] \in Writing
    BY <1>1
  <1>5. MergeInv'
    BY <1>1, <1>3, <1>4 DEF MergeInv, disk, args, Writing
  <1>6. OverlapInv'
    BY <1>1, <1>4 DEF OverlapInv, args
  <1>7. WholeInv'
    <2> SUFFICES ASSUME NEW v \in Versions \ hurt', \A q \in Writers(v)' : Orderly(q)',
                        NEW t \in Targets, Present(v, Own[t]), NEW x \in Zip[t]
                 PROVE  tree[v][x] = v \/ \E q \in Writers(v)' : x \in todo'[q]
      BY <1>1 DEF WholeInv, Present, disk
    <2>1. v \notin hurt /\ (v = w => Orderly(r) /\ todo[r] = {})
      BY <1>2
    <2>2. \A q \in Writers(v) : q # r => q \in Writers(v)' /\ todo'[q] = todo[q] /\ Orderly(q)
      BY <1>1 DEF Writers, Orderly, args
    <2>3. \A q \in Writers(v) : Orderly(q)
      BY <2>1, <2>2 DEF Writers
    <2>4. tree[v][x] = v \/ \E q \in Writers(v) : x \in todo[q]
      BY <2>1, <2>3 DEF WholeInv
    <2> QED BY <2>1, <2>2, <2>4 DEF Writers
  <1> QED BY <1>5, <1>6, <1>7

LEMMA EngineStep == ASSUME TypeOK, EngineInv, [Next]_vars PROVE EngineInv'
  <1>1. StagedInv'
    BY StagedStep
  <1>2. CASE Publish \/ UNCHANGED vars
    <2>1. UNCHANGED <<disk, pc, args, content, own, hist>>
      BY <1>2 DEF Publish, vars
    <2>2. MergeInv' /\ OverlapInv'
      BY <2>1 DEF EngineInv, MergeInv, OverlapInv, disk, args, own, hist
    <2>3. WholeInv'
      BY <2>1 DEF EngineInv, WholeInv, Writers, Orderly, Present, disk, args, own, hist
    <2> QED BY <1>1, <2>2, <2>3 DEF EngineInv
  <1>3. ASSUME NEW r \in Runs, Step(r) PROVE EngineInv'
    <2>1. CASE Install(r) \/ Build(r) \/ Resolve(r) \/ List(r) \/ Check(r) \/ Download(r)
               \/ Verify(r) \/ Extract(r) \/ RenameFails(r) \/ Tidy(r) \/ Choose(r) \/ Layout(r)
      BY <1>1, <2>1, OtherSteps, ElsewhereKeeps DEF EngineInv
    <2>2. CASE Remove(r)
      <3>1. pc'[r] \in {"removing", "failed"}
        BY <2>2 DEF Remove, Goes, TypeOK
      <3> QED BY <1>1, <2>2, <3>1, OtherSteps, ElsewhereKeeps, RemoveStep DEF EngineInv
    <2>3. CASE Stat(r)
      <3>1. pc'[r] \in {"rename", "merge"}
        BY <2>3 DEF Stat, Goes, TypeOK
      <3> QED BY <1>1, <2>3, <3>1, OtherSteps, ElsewhereKeeps, StatStep DEF EngineInv
    <2>4. CASE Rename(r)
      BY <1>1, <2>4, RenameStep DEF EngineInv
    <2>5. CASE MergeOpen(r) \/ MergeCopy(r)
      BY <1>1, <2>5, MergeOpenStep, MergeCopyStep DEF EngineInv
    <2>6. CASE RemoveFile(r) \/ RemoveDone(r)
      BY <1>1, <2>6, RemoveFileStep DEF EngineInv
    <2>7. CASE MergeDone(r) \/ MergeFails(r) \/ RemoveFails(r)
      <3>1. MergeInv' /\ OverlapInv' /\ WholeInv'
        BY <2>7, EndOfWriting
      <3> QED BY <1>1, <3>1 DEF EngineInv
    <2>8. CASE Kill(r)
      BY <1>1, <2>8, EndOfWriting, OtherSteps, ElsewhereKeeps DEF EngineInv
    <2> QED BY <1>3, <2>1, <2>2, <2>3, <2>4, <2>5, <2>6, <2>7, <2>8 DEF Step, InstallStep
  <1> QED BY <1>2, <1>3 DEF Next

-----------------------------------------------------------------------------
(* Every reachable state is well typed and satisfies the inductive invariant. *)
THEOREM EngineInvariant == Spec => [](TypeOK /\ EngineInv)
  <1>1. Init => TypeOK /\ EngineInv
    BY EngineInit
  <1>2. TypeOK /\ EngineInv /\ [Next]_vars => (TypeOK /\ EngineInv)'
    BY EngineTypeStep, EngineStep
  <1> QED BY <1>1, <1>2, PTL DEF Spec

(* Where nobody writes and nothing was hurt, what is installed is complete. *)
LEMMA InstalledFollows == EngineInv => InstalledIsWhole
  BY DEF EngineInv, WholeInv, InstalledIsWhole, AtRest, Whole

(* manager.go:85-102: for any number of installs, removals, failures and kills. *)
THEOREM InstalledEnginesAreWhole == Spec => []InstalledIsWhole
  BY EngineInvariant, InstalledFollows, PTL

(* manager.go:194-244: what an install puts in place is what was verified. *)
THEOREM InstallsAreVerified == Spec => InstalledAsVerified
  <1> DEFINE Good == \A r \in Runs : (pc[r] \in {"rename", "merge"} /\ pc'[r] = "tidy") =>
       \/ disturbed'[r]
       \/ content[r] \in Versions /\ \A x \in Zip[target[r]] : tree'[version[r]][x] = content[r]
  <1>1. TypeOK /\ EngineInv /\ [Next]_vars => [Good]_vars
    <2> SUFFICES ASSUME TypeOK, EngineInv, Next, NEW r \in Runs,
                        pc[r] \in {"rename", "merge"}, pc'[r] = "tidy", ~disturbed'[r]
                 PROVE  /\ content[r] \in Versions
                        /\ \A x \in Zip[target[r]] : tree'[version[r]][x] = content[r]
      OBVIOUS
    <2>1. PICK q \in Runs : Step(q)
      BY DEF Next, Publish, TypeOK
    <2>2. q = r
      BY <2>1 DEF Step, InstallStep, Install, Remove, Build, Resolve, List, Check, Download,
         Verify, Extract, Stat, Rename, RenameFails, MergeOpen, MergeCopy, MergeDone, MergeFails,
         Tidy, RemoveFile, RemoveDone, RemoveFails, Choose, Layout, Kill, Goes, TypeOK
    <2>3. Rename(r) \/ MergeDone(r)
      BY <2>1, <2>2 DEF Step, InstallStep, Install, Remove, Build, Resolve, List, Check, Download,
         Verify, Extract, Stat, RenameFails, MergeOpen, MergeCopy, MergeFails,
         Tidy, RemoveFile, RemoveDone, RemoveFails, Choose, Layout, Kill, Goes, TypeOK
    <2>4. content[r] \in Versions
      BY DEF EngineInv, StagedInv
    <2>5. CASE Rename(r)
      <3>1. pc[r] = "rename" /\ version[r] \in Versions /\ staged[r] = Zip[target[r]]
        BY <2>5 DEF Rename, Goes, EngineInv, StagedInv, TypeOK
      <3>2. tree'[version[r]] = [x \in Parts |-> IF x \in staged[r] THEN content[r] ELSE None]
        BY <2>5, <3>1 DEF Rename, TypeOK
      <3> QED BY <2>4, <3>1, <3>2, EngineFacts
    <2>6. CASE MergeDone(r)
      BY <2>4, <2>6 DEF MergeDone, Goes, EngineInv, MergeInv, disk
    <2> QED BY <2>3, <2>4, <2>5, <2>6
  <1>2. Spec => [][Good]_vars
    BY <1>1, EngineInvariant, PTL DEF Spec
  <1> QED BY <1>2 DEF InstalledAsVerified

(* manager.go:249-251: installs take no file away, and write only their own.  *)
THEOREM InstallsOnlyAdd == Spec => InstallsKeepTheRest
  <1> DEFINE Good == \A v \in Versions, x \in Parts : tree'[v][x] # tree[v][x] =>
       \E r \in Runs :
         version[r] = v /\ IF tree'[v][x] = None THEN Takes(r) ELSE Puts(r, x)
  <1>1. TypeOK /\ EngineInv /\ [Next]_vars => [Good]_vars
    <2> SUFFICES ASSUME TypeOK, EngineInv, Next, NEW v \in Versions, NEW x \in Parts,
                        tree'[v][x] # tree[v][x]
                 PROVE  \E r \in Runs :
                          version[r] = v /\ IF tree'[v][x] = None THEN Takes(r) ELSE Puts(r, x)
      OBVIOUS
    <2> USE DEF Puts, Takes
    <2>1. PICK r \in Runs : Step(r)
      BY DEF Next, Publish, disk
    <2>2. Rename(r) \/ MergeOpen(r) \/ MergeCopy(r) \/ RemoveFile(r)
      BY <2>1 DEF Step, InstallStep, Install, Remove, Build, Resolve, List, Check, Download,
         Verify, Extract, Stat, RenameFails, MergeDone, MergeFails,
         Tidy, RemoveDone, RemoveFails, Choose, Layout, Kill, disk
    <2>3. CASE Rename(r)
      <3>1. /\ pc[r] = "rename" /\ version[r] \in Versions /\ version[r] \notin exists
            /\ tree' = [tree EXCEPT ![version[r]] =
                          [y \in Parts |-> IF y \in staged[r] THEN content[r] ELSE None]]
        BY <2>3 DEF Rename, Goes, TypeOK
      <3>2. staged[r] = Zip[target[r]] /\ content[r] # None
        BY <3>1, EngineFacts DEF EngineInv, StagedInv, TypeOK
      <3>3. version[r] = v
        BY <3>1 DEF TypeOK
      <3>4. tree[v][x] = None /\ tree'[v][x] = IF x \in staged[r] THEN content[r] ELSE None
        BY <3>1, <3>3 DEF TypeOK
      <3> QED BY <3>1, <3>2, <3>3, <3>4
    <2>4. CASE MergeOpen(r)
      <3>1. PICK z \in todo[r] : tree' = [tree EXCEPT ![version[r]][z] = Torn]
        BY <2>4 DEF MergeOpen
      <3>2. pc[r] = "merge" /\ z \in Zip[target[r]] /\ version[r] \in Versions
        BY <2>4 DEF MergeOpen, EngineInv, MergeInv, TypeOK, Writing
      <3>3. version[r] = v /\ x = z /\ tree'[v][x] = Torn
        BY <3>1, <3>2, EngineFacts DEF TypeOK
      <3> QED BY <3>2, <3>3, EngineFacts
    <2>5. CASE MergeCopy(r)
      <3>1. PICK c \in Copied(r, opened[r]) : tree' = [tree EXCEPT ![version[r]][opened[r]] = c]
        BY <2>5 DEF MergeCopy
      <3>2. /\ pc[r] = "merge" /\ opened[r] \in Zip[target[r]] /\ version[r] \in Versions
            /\ content[r] \in Versions
        BY <2>5 DEF MergeCopy, EngineInv, MergeInv, StagedInv, TypeOK, Writing
      <3>3. version[r] = v /\ x = opened[r] /\ tree'[v][x] = c
        BY <3>1, <3>2, EngineFacts DEF TypeOK
      <3>4. tree[v][x] # None
        BY <3>3 DEF Copied
      <3>5. c # None
        BY <3>2, <3>3, <3>4, EngineFacts DEF Copied
      <3> QED BY <3>2, <3>3, <3>5
    <2>6. CASE RemoveFile(r)
      BY <2>6 DEF RemoveFile, TypeOK
    <2> QED BY <2>2, <2>3, <2>4, <2>5, <2>6
  <1>2. Spec => [][Good]_vars
    BY <1>1, EngineInvariant, PTL DEF Spec
  <1> QED BY <1>2 DEF InstallsKeepTheRest

\* Steps that end writing say so, and those that do not write leave what is
\* open, and what is hurt, as they are.
LEMMA KeepsOpen ==
  ASSUME TypeOK, EngineInv, CutShortIsKnown, NEW r \in Runs, Step(r), ~MergeCopy(r),
         UNCHANGED tree
  PROVE  CutShortIsKnown'
  <1> SUFFICES ASSUME NEW v \in Versions, NEW x \in Parts, tree[v][x] = Torn
               PROVE  (v \in hurt \/ \E q \in Writers(v) : opened[q] = x)'
    BY DEF CutShortIsKnown
  <1>1. v \in hurt \/ \E q \in Writers(v) : opened[q] = x
    BY DEF CutShortIsKnown
  <1>2. CASE v \in hurt
    <2>1. hurt \subseteq hurt' \/ RemoveDone(r)
      BY DEF Step, InstallStep, Install, Remove, Build, Resolve, List, Check, Download,
         Verify, Extract, Stat, Rename, RenameFails, MergeOpen, MergeCopy, MergeDone,
         MergeFails, Tidy, RemoveFile, RemoveFails, Choose, Layout, Kill, hist
    <2>2. CASE RemoveDone(r)
      <3>1. tree[version[r]][x] = None /\ hurt' = hurt \ {version[r]}
        BY <2>2 DEF RemoveDone, Present
      <3> QED BY <1>2, <3>1, EngineFacts
    <2> QED BY <1>2, <2>1, <2>2
  <1>3. ASSUME NEW q \in Writers(v), opened[q] = x
        PROVE  (v \in hurt \/ \E s \in Writers(v) : opened[s] = x)'
    <2>1. pc[q] = "merge" /\ version[q] = v /\ q \in Runs /\ x \in todo[q] /\ x # None
      BY <1>3, EngineFacts DEF Writers, EngineInv, MergeInv
    <2>2. CASE q # r
      BY <2>1, <2>2, <1>3
      DEF Step, InstallStep, Install, Remove, Build, Resolve, List, Check, Download,
         Verify, Extract, Stat, Rename, RenameFails, MergeOpen, MergeCopy, MergeDone,
         MergeFails, Tidy, RemoveFile, RemoveDone, RemoveFails, Choose, Layout, Kill, hist,
         args, own, Goes, Writers, Writing, TypeOK
    <2>3. CASE q = r
      <3>1. MergeOpen(r) \/ MergeFails(r) \/ Kill(r)
        BY <2>1, <2>3 DEF Step, InstallStep, Install, Remove, Build, Resolve, List, Check,
         Download, Verify, Extract, Stat, Rename, RenameFails, MergeDone, Tidy, RemoveFile,
         RemoveDone, RemoveFails, Choose, Layout, Goes
      <3>2. ~MergeOpen(r)
        BY <1>3, <2>1, <2>3 DEF MergeOpen
      <3> QED BY <2>1, <2>3, <3>1, <3>2 DEF MergeFails, Kill, Writing
    <2> QED BY <2>2, <2>3
  <1> QED BY <1>1, <1>2, <1>3

LEMMA RenameCuts ==
  ASSUME TypeOK, EngineInv, CutShortIsKnown, NEW r \in Runs, Rename(r)
  PROVE  CutShortIsKnown'
  <1> SUFFICES ASSUME NEW v \in Versions, NEW x \in Parts, tree'[v][x] = Torn
               PROVE  (v \in hurt \/ \E q \in Writers(v) : opened[q] = x)'
    BY DEF CutShortIsKnown
  <1>1. /\ pc[r] = "rename" /\ hurt \subseteq hurt' /\ version[r] \in Versions
        /\ UNCHANGED <<version, opened>> /\ \A q \in Runs : q # r => pc'[q] = pc[q]
        /\ tree' = [tree EXCEPT ![version[r]] =
                      [y \in Parts |-> IF y \in staged[r] THEN content[r] ELSE None]]
    BY DEF Rename, Goes, args, own, TypeOK
  <1>2. content[r] \in Versions
    BY <1>1 DEF EngineInv, StagedInv
  <1>3. v # version[r]
    BY <1>1, <1>2, EngineFacts DEF TypeOK
  <1>4. tree[v][x] = Torn
    BY <1>1, <1>3 DEF TypeOK
  <1>5. \A q \in Writers(v) : q # r /\ q \in Writers(v)'
    BY <1>1, <1>3 DEF Writers
  <1> QED BY <1>1, <1>4, <1>5 DEF CutShortIsKnown

LEMMA OpenCuts ==
  ASSUME TypeOK, EngineInv, CutShortIsKnown, NEW r \in Runs, MergeOpen(r)
  PROVE  CutShortIsKnown'
  <1> SUFFICES ASSUME NEW v \in Versions, NEW x \in Parts, tree'[v][x] = Torn
               PROVE  (v \in hurt \/ \E q \in Writers(v) : opened[q] = x)'
    BY DEF CutShortIsKnown
  <1> PICK z \in todo[r] : /\ opened' = [opened EXCEPT ![r] = z]
                           /\ tree' = [tree EXCEPT ![version[r]][z] = Torn]
    BY DEF MergeOpen
  <1>1. /\ pc[r] = "merge" /\ opened[r] = None /\ UNCHANGED <<pc, version, hurt>>
        /\ r \in Writers(version[r])
    BY DEF MergeOpen, args, hist, Writers, Writing
  <1>2. Writers(v)' = Writers(v)
    BY <1>1 DEF Writers
  <1>3. CASE v = version[r] /\ x = z
    BY <1>1, <1>2, <1>3 DEF TypeOK
  <1>4. CASE ~(v = version[r] /\ x = z)
    <2>1. tree[v][x] = Torn
      BY <1>4 DEF TypeOK
    <2>2. \A q \in Writers(v) : opened[q] = x => q # r /\ opened'[q] = x
      BY <1>1, EngineFacts DEF TypeOK, Writers
    <2> QED BY <1>1, <1>2, <2>1, <2>2 DEF CutShortIsKnown
  <1> QED BY <1>3, <1>4

\* Who spoils a copy has the file open himself.
LEMMA CopyCuts ==
  ASSUME TypeOK, EngineInv, CutShortIsKnown, NEW r \in Runs, MergeCopy(r)
  PROVE  CutShortIsKnown'
  <1> SUFFICES ASSUME NEW v \in Versions, NEW x \in Parts, tree'[v][x] = Torn
               PROVE  (v \in hurt \/ \E q \in Writers(v) : opened[q] = x)'
    BY DEF CutShortIsKnown
  <1> PICK c \in Copied(r, opened[r]) :
        tree' = [tree EXCEPT ![version[r]][opened[r]] = c]
    BY DEF MergeCopy
  <1>1. /\ pc[r] = "merge" /\ UNCHANGED <<pc, version, hurt>>
        /\ opened' = [opened EXCEPT ![r] = None]
        /\ version[r] \in Versions /\ content[r] \in Versions
    BY DEF MergeCopy, args, hist, EngineInv, StagedInv, TypeOK, Writing
  <1>2. Writers(v)' = Writers(v)
    BY <1>1 DEF Writers
  <1>3. CASE v = version[r] /\ x = opened[r]
    <2>1. c = Torn
      BY <1>3 DEF TypeOK
    <2>2. PICK q \in Runs \ {r} : opened[q] = x /\ q \in Writers(v)
      BY <1>1, <1>3, <2>1, EngineFacts DEF Copied
    <2> QED BY <1>1, <1>2, <2>2 DEF TypeOK
  <1>4. CASE ~(v = version[r] /\ x = opened[r])
    <2>1. tree[v][x] = Torn
      BY <1>4 DEF TypeOK
    <2>2. \A q \in Writers(v) : opened[q] = x => q # r
      BY <1>4 DEF Writers
    <2>3. \A q \in Writers(v) : opened[q] = x => opened'[q] = x
      BY <1>1, <2>2 DEF TypeOK, Writers
    <2> QED BY <1>1, <1>2, <2>1, <2>3 DEF CutShortIsKnown
  <1> QED BY <1>3, <1>4

LEMMA RemoveCuts ==
  ASSUME TypeOK, EngineInv, CutShortIsKnown, NEW r \in Runs, RemoveFile(r)
  PROVE  CutShortIsKnown'
  <1> SUFFICES ASSUME NEW v \in Versions, NEW x \in Parts, tree'[v][x] = Torn
               PROVE  (v \in hurt \/ \E q \in Writers(v) : opened[q] = x)'
    BY DEF CutShortIsKnown
  <1>1. tree[v][x] = Torn /\ UNCHANGED <<pc, version, opened, hurt>>
    BY EngineFacts DEF RemoveFile, args, own, hist, TypeOK
  <1> QED BY <1>1 DEF CutShortIsKnown, Writers

(* manager.go:241: no file of an engine is cut short without an error, or a   *)
(* kill, that tells of it, however installs and removals overlap.             *)
THEOREM NothingIsCutQuietly == Spec => []CutShortIsKnown
  <1>1. Init => CutShortIsKnown
    <2> SUFFICES ASSUME Init, NEW v \in Versions, NEW x \in Parts PROVE tree[v][x] # Torn
      BY DEF CutShortIsKnown
    <2>1. Torn \notin Versions /\ Torn # None
      BY EngineInit, EngineFacts
    <2> QED BY <2>1 DEF Init
  <1>2. ASSUME TypeOK, EngineInv, CutShortIsKnown, Next PROVE CutShortIsKnown'
    <2>1. CASE Publish
      BY <1>2, <2>1 DEF Publish, disk, args, own, hist, CutShortIsKnown, Writers, Writing
    <2>2. ASSUME NEW r \in Runs, Step(r) PROVE CutShortIsKnown'
      <3>1. CASE UNCHANGED tree /\ ~MergeCopy(r)
        BY <1>2, <2>2, <3>1, KeepsOpen
      <3>2. CASE Rename(r)
        BY <1>2, <3>2, RenameCuts
      <3>3. CASE MergeOpen(r)
        BY <1>2, <3>3, OpenCuts
      <3>4. CASE MergeCopy(r)
        BY <1>2, <3>4, CopyCuts
      <3>5. CASE RemoveFile(r)
        BY <1>2, <3>5, RemoveCuts
      <3> QED BY <2>2, <3>1, <3>2, <3>3, <3>4, <3>5
          DEF Step, InstallStep, Install, Remove, Build, Resolve, List, Check, Download,
          Verify, Extract, Stat, RenameFails, MergeDone, MergeFails, Tidy,
          RemoveDone, RemoveFails, Choose, Layout, Kill, disk
    <2> QED BY <1>2, <2>1, <2>2 DEF Next
  <1>3. TypeOK /\ EngineInv /\ CutShortIsKnown /\ [Next]_vars => CutShortIsKnown'
    <2>1. UNCHANGED vars /\ CutShortIsKnown => CutShortIsKnown'
      BY DEF vars, disk, args, own, hist, CutShortIsKnown, Writers, Writing
    <2> QED BY <1>2, <2>1
  <1> QED BY <1>1, <1>3, EngineInvariant, PTL DEF Spec

(* build.go:88-108: what a build for Android is given is complete. *)
THEOREM BuildsUseWholeEngines == Spec => BuildsOnWholeEngine
  <1> DEFINE Good == \A r \in Runs :
       (pc[r] = "layout" /\ pc'[r] = "flutter" /\ target[r] \notin IOS /\ AtRest(version[r]))
         => Whole(version[r], target[r], version[r])
  <1>1. TypeOK /\ EngineInv /\ [Next]_vars => [Good]_vars
    <2> SUFFICES ASSUME TypeOK, EngineInv, Next, NEW r \in Runs, pc[r] = "layout",
                        pc'[r] = "flutter", target[r] \notin IOS, AtRest(version[r])
                 PROVE  Whole(version[r], target[r], version[r])
      OBVIOUS
    <2>1. PICK q \in Runs : Step(q)
      BY DEF Next, Publish, TypeOK
    <2>2. q = r
      BY <2>1 DEF Step, InstallStep, Install, Remove, Build, Resolve, List, Check, Download,
         Verify, Extract, Stat, Rename, RenameFails, MergeOpen, MergeCopy, MergeDone, MergeFails,
         Tidy, RemoveFile, RemoveDone, RemoveFails, Choose, Layout, Kill, Goes, TypeOK
    <2>3. Layout(r)
      BY <2>1, <2>2 DEF Step, InstallStep, Install, Remove, Build, Resolve, List, Check, Download,
         Verify, Extract, Stat, Rename, RenameFails, MergeOpen, MergeCopy, MergeDone, MergeFails,
         Tidy, RemoveFile, RemoveDone, RemoveFails, Choose, Kill, Goes, TypeOK
    <2>4. Present(version[r], Own[target[r]])
      BY <2>3 DEF Layout, Goes, Accepts, IsInstalledArch, TypeOK
    <2>5. version[r] \in Versions /\ target[r] \in Targets
      BY DEF TypeOK
    <2> QED BY <2>4, <2>5, InstalledFollows DEF InstalledIsWhole
  <1>2. Spec => [][Good]_vars
    BY <1>1, EngineInvariant, PTL DEF Spec
  <1> QED BY <1>2 DEF BuildsOnWholeEngine

(* build.go:552-553: the only engine is used, but for staging directories. *)
THEOREM OnlyEnginesAreUsed == Spec => OnlyEngineIsUsed
  <1> DEFINE Good == \A r \in Runs :
       (pc[r] = "choose" /\ pc'[r] = "refused" /\ \E v \in Versions : exists = {v}) =>
         spilled # {} \/ \E q \in Runs : pc[q] \in Staging
  <1>1. TypeOK /\ EngineInv /\ [Next]_vars => [Good]_vars
    <2> SUFFICES ASSUME TypeOK, EngineInv, Next, NEW r \in Runs, pc[r] = "choose",
                        pc'[r] = "refused", NEW v \in Versions, exists = {v}
                 PROVE  spilled # {} \/ \E q \in Runs : pc[q] \in Staging
      OBVIOUS
    <2>1. PICK q \in Runs : Step(q)
      BY DEF Next, Publish, TypeOK
    <2>2. q = r
      BY <2>1 DEF Step, InstallStep, Install, Remove, Build, Resolve, List, Check, Download,
         Verify, Extract, Stat, Rename, RenameFails, MergeOpen, MergeCopy, MergeDone, MergeFails,
         Tidy, RemoveFile, RemoveDone, RemoveFails, Choose, Layout, Kill, Goes, TypeOK
    <2>3. Choose(r)
      BY <2>1, <2>2 DEF Step, InstallStep, Install, Remove, Build, Resolve, List, Check, Download,
         Verify, Extract, Stat, Rename, RenameFails, MergeOpen, MergeCopy, MergeDone, MergeFails,
         Tidy, RemoveFile, RemoveDone, RemoveFails, Layout, Kill, Goes, TypeOK
    <2>4. ListInstalled # {v}
      BY <2>3 DEF Choose, Goes, TypeOK
    <2>5. PICK p \in Runs : "stage" \in temp[p]
      BY <2>4 DEF ListInstalled
    <2> QED BY <2>5 DEF EngineInv, StagedInv
  <1>2. Spec => [][Good]_vars
    BY <1>1, EngineInvariant, PTL DEF Spec
  <1> QED BY <1>2 DEF OnlyEngineIsUsed
=============================================================================
