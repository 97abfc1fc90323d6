--------------------------- MODULE ExportProofs ----------------------------
(***************************************************************************)
(* Proofs about ExportApply, for every set of roots, names, zips and       *)
(* environments.                                                           *)
(***************************************************************************)
EXTENDS ExportProps, TLAPS

(* The parts of a zip have their types. *)
LEMMA ZipFacts ==
  ASSUME NEW z \in Exports
  PROVE  /\ Len(z.roots) \in Nat \ {0}
         /\ \A i \in 1..Len(z.roots) : z.roots[i] \in Roots
         /\ z.gen \in [Roots -> Dir]
         /\ \A r \in Roots : \A n \in Names : z.gen[r][n] \in KBytes \cup {NoFile}
         /\ z.own \in [Owned -> KBytes]
  <1>1. z \in ExportType /\ z.roots # <<>>
    BY ExportsAssumption
  <1>2. z.roots \in Seq(Roots) /\ z.gen \in [Roots -> [Names -> KBytes \cup {NoFile}]]
        /\ z.own \in [Owned -> KBytes]
    BY <1>1 DEF ExportType
  <1>3. [Names -> KBytes \cup {NoFile}] \subseteq Dir
    BY DEF Dir, Bytes
  <1> QED BY <1>1, <1>2, <1>3

(* Writing a file into a directory, existing or not, gives a directory. *)
LEMMA PutType ==
  ASSUME NEW d \in Dir \cup {NoDir}, NEW n \in Names, NEW x \in Bytes \cup {NoFile}
  PROVE  Put(d, n, x) \in Dir
  BY DEF Put, Dir, EmptyDir

(* RemoveAll of one sibling leaves the others. *)
LEMMA ClearedType ==
  ASSUME NEW dirs \in [Roots -> Dir \cup {NoDir}], NEW r \in Roots,
         NEW new \in Cleared(dirs, r)
  PROVE  /\ new \in [Roots -> Dir \cup {NoDir}]
         /\ \A q \in Roots : new[q] = dirs[q] \/ (q = r /\ new[q] = NoDir)
         /\ ~May("remove") => new[r] = NoDir
  BY DEF Cleared

(* The swap of a root is of a root of the zip. *)
LEMMA RootType ==
  ASSUME TypeOK, pc \in Swapping \ {"manifest"}
  PROVE  Root \in Roots /\ next \in Exports /\ at \in 1..Len(next.roots)
  <1>1. next \in Exports /\ at \in 1..Len(next.roots)
    BY DEF TypeOK, Swapping
  <1> QED BY <1>1, ZipFacts DEF Root

LEMMA TypeInit == Init => TypeOK
  <1> SUFFICES ASSUME Init PROVE TypeOK
    OBVIOUS
  <1>1. /\ live \in [Roots -> Dir \cup {NoDir}]
        /\ stage \in [Roots -> Dir \cup {NoDir}]
        /\ backup \in [Roots -> Dir \cup {NoDir}]
        /\ owned \in [Owned -> Bytes \cup {NoFile}]
    BY DEF Init
  <1>2. force \in BOOLEAN /\ failed \in BOOLEAN
    BY DEF Init
  <1>3. env \in Environments /\ pending \in SUBSET Paths /\ written \in SUBSET Owned
        /\ named \in SUBSET (Roots \X Names) /\ removed \in SUBSET (Roots \X Names)
    BY DEF Init
  <1> QED BY <1>1, <1>2, <1>3 DEF Init, TypeOK, Swapping

(* Every step preserves the types. *)
LEMMA TypeStep == ASSUME TypeOK, [Next]_vars PROVE TypeOK'
  <1> USE DEF vars, disk, task, history, Swapping
  <1>1. ASSUME NEW z \in Exports, NEW f \in BOOLEAN,
               BeginFresh(z, f) \/ BeginRefused(z, f) \/ BeginReapply(z, f)
        PROVE  TypeOK'
    <2>1. CASE BeginFresh(z, f)
      BY <2>1 DEF TypeOK, BeginFresh, Begin, Goes, Files, Paths
    <2>2. CASE BeginRefused(z, f)
      BY <2>2 DEF TypeOK, BeginRefused, Begin, End
    <2>3. CASE BeginReapply(z, f)
      BY <2>3, ZipFacts DEF TypeOK, BeginReapply, Begin, Goes
    <2> QED BY <1>1, <2>1, <2>2, <2>3
  <1>2. CASE StopUnexpected \/ StopEdited
    BY <1>2, ExportsAssumption, ZipFacts
       DEF TypeOK, StopUnexpected, StopEdited, Stop, End, Unexpected, Edited, Files, RangeOf
  <1>3. CASE Proceed
    BY <1>3 DEF TypeOK, Proceed, Goes
  <1>4. CASE FreshManifest
    BY <1>4 DEF TypeOK, FreshManifest, Goes, End
  <1>5. ASSUME NEW r \in Roots, NEW n \in Names, FreshGenerated(r, n) PROVE TypeOK'
    <2>1. next \in Exports /\ live[r] \in Dir \cup {NoDir}
      BY <1>5 DEF TypeOK, FreshGenerated
    <2>2. next.gen[r][n] \in Bytes \cup {NoFile} /\ Torn \in Bytes
      BY <2>1, ZipFacts DEF Bytes
    <2>3. Put(live[r], n, next.gen[r][n]) \in Dir /\ Put(live[r], n, Torn) \in Dir
      BY <2>1, <2>2, PutType
    <2>4. live' \in [Roots -> Dir \cup {NoDir}]
      BY <1>5, <2>3 DEF TypeOK, FreshGenerated
    <2> QED BY <1>5, <2>4 DEF TypeOK, FreshGenerated, Goes, End
  <1>6. ASSUME NEW p \in Owned, FreshOwned(p) PROVE TypeOK'
    <2>1. next \in Exports
      BY <1>6 DEF TypeOK, FreshOwned
    <2>2. next.own[p] \in Bytes /\ Torn \in Bytes
      BY <2>1, ZipFacts DEF Bytes
    <2>3. owned' \in [Owned -> Bytes \cup {NoFile}]
      BY <1>6, <2>2 DEF TypeOK, FreshOwned
    <2> QED BY <1>6, <2>3 DEF TypeOK, FreshOwned, Goes, End
  <1>7. CASE FreshDone
    BY <1>7 DEF TypeOK, FreshDone, End
  <1>8. CASE Clean
    BY <1>8, ClearedType, RootType DEF TypeOK, Clean, RestOfSwap, Goes, FilesIn, Files, Paths
  <1>9. ASSUME NEW n \in Names, StageFile(n) PROVE TypeOK'
    BY <1>9, PutType, ZipFacts, RootType DEF TypeOK, StageFile, RestOfSwap, Goes, Bytes
  <1>10. CASE StageFails \/ MoveAsideFails
    <2>1. Root \in Roots /\ stage' \in Cleared(stage, Root)
      BY <1>10, RootType DEF StageFails, MoveAsideFails
    <2>2. stage' \in [Roots -> Dir \cup {NoDir}]
      BY <2>1, ClearedType DEF TypeOK
    <2> QED BY <1>10, <2>2 DEF TypeOK, StageFails, MoveAsideFails, RestOfSwap, End
  <1>11. CASE SkipEmptyRoot
    BY <1>11, ClearedType, RootType, ZipFacts DEF TypeOK, SkipEmptyRoot, RootDone, RestOfSwap, Goes
  <1>12. CASE Staged
    BY <1>12 DEF TypeOK, Staged, RestOfSwap, Goes
  <1>13. CASE MoveAside
    BY <1>13, RootType DEF TypeOK, MoveAside, RestOfSwap, Goes
  <1>14. CASE SwapIn
    BY <1>14, RootType DEF TypeOK, SwapIn, RestOfSwap, Goes
  <1>15. CASE SwapInFails
    BY <1>15 DEF TypeOK, SwapInFails, RestOfSwap, Goes
  <1>16. CASE RollBack
    BY <1>16, RootType DEF TypeOK, RollBack, RestOfSwap, End
  <1>17. CASE DropBackup
    BY <1>17, ClearedType, RootType, ZipFacts DEF TypeOK, DropBackup, RootDone, RestOfSwap, Goes
  <1>18. CASE WriteManifest
    BY <1>18 DEF TypeOK, WriteManifest, End, Files
  <1>19. CASE Crash
    BY <1>19 DEF TypeOK, Crash, End
  <1>20. CASE Edit
    <2>1. ASSUME NEW r \in Roots, NEW n \in Names, NEW x \in DevBytes, DevWrite(r, n, x)
          PROVE  TypeOK'
      <3>1. Put(live[r], n, x) \in Dir
        BY <2>1, PutType DEF TypeOK, Bytes
      <3>2. live' \in [Roots -> Dir \cup {NoDir}]
        BY <2>1, <3>1 DEF TypeOK, DevWrite
      <3> QED BY <2>1, <3>2 DEF TypeOK, DevWrite, Developer
    <2>2. ASSUME NEW r \in Roots, NEW n \in Names, DevDelete(r, n)
          PROVE  TypeOK'
      <3>1. live[r] \in Dir
        BY <2>2 DEF TypeOK, DevDelete, HasFile
      <3>2. live' = [live EXCEPT ![r] = [live[r] EXCEPT ![n] = NoFile]]
        BY <2>2 DEF DevDelete
      <3>3. [live[r] EXCEPT ![n] = NoFile] \in Dir
        BY <3>1 DEF Dir
      <3>4. live' \in [Roots -> Dir \cup {NoDir}]
        BY <3>2, <3>3 DEF TypeOK
      <3> QED BY <2>2, <3>4 DEF TypeOK, DevDelete, Developer
    <2>3. ASSUME NEW p \in Owned,
                 DevDeleteOwned(p) \/ \E x \in DevBytes : DevWriteOwned(p, x)
          PROVE  TypeOK'
      BY <2>3 DEF TypeOK, DevDeleteOwned, DevWriteOwned, Developer, Bytes
    <2> QED BY <1>20, <2>1, <2>2, <2>3 DEF Edit
  <1>21. CASE UNCHANGED vars
    BY <1>21 DEF TypeOK
  <1> QED
    BY <1>1, <1>2, <1>3, <1>4, <1>5, <1>6, <1>7, <1>8, <1>9, <1>10, <1>11, <1>12, <1>13,
       <1>14, <1>15, <1>16, <1>17, <1>18, <1>19, <1>20, <1>21 DEF Next, Apply

(* Whatever the zips, the faults and the edits, the state stays typed: in  *)
(* particular a swap always has a previous manifest of the same document.  *)
THEOREM TypeCorrect == Spec => []TypeOK
  BY TypeInit, TypeStep, PTL DEF Spec

-----------------------------------------------------------------------------
(* The parts of the inductive invariant, one step lemma each. *)

(* An edit, and a file written by a first apply, never removes a directory. *)
LEMMA EditKeepsDirs ==
  ASSUME TypeOK, Edit \/ \E r \in Roots, n \in Names : FreshGenerated(r, n)
  PROVE  \A q \in Roots : live[q] # NoDir => live'[q] # NoDir
  <1>1. ASSUME NEW r \in Roots, NEW n \in Names, NEW x \in Bytes \cup {NoFile}
        PROVE  Put(live[r], n, x) # NoDir
    BY PutType, ValuesDistinct DEF TypeOK
  <1>2. ASSUME NEW r \in Roots, NEW n \in Names, NEW x \in DevBytes, DevWrite(r, n, x)
        PROVE  \A q \in Roots : live[q] # NoDir => live'[q] # NoDir
    BY <1>1, <1>2 DEF DevWrite, TypeOK, Bytes
  <1>3. ASSUME NEW r \in Roots, NEW n \in Names, DevDelete(r, n)
        PROVE  \A q \in Roots : live[q] # NoDir => live'[q] # NoDir
    <2>1. live[r] \in Dir
      BY <1>3 DEF TypeOK, DevDelete, HasFile
    <2>2. [live[r] EXCEPT ![n] = NoFile] \in Dir
      BY <2>1 DEF Dir
    <2>3. live' = [live EXCEPT ![r] = [live[r] EXCEPT ![n] = NoFile]]
      BY <1>3 DEF DevDelete
    <2> QED BY <2>2, <2>3, ValuesDistinct DEF TypeOK
  <1>4. ASSUME NEW r \in Roots, NEW n \in Names, FreshGenerated(r, n)
        PROVE  \A q \in Roots : live[q] # NoDir => live'[q] # NoDir
    <2>1. next \in Exports
      BY <1>4 DEF TypeOK, FreshGenerated
    <2>2. next.gen[r][n] \in Bytes \cup {NoFile} /\ Torn \in Bytes
      BY <2>1, ZipFacts DEF Bytes
    <2> QED BY <1>1, <1>4, <2>2 DEF FreshGenerated, TypeOK
  <1>5. ASSUME NEW p \in Owned,
               DevDeleteOwned(p) \/ \E x \in DevBytes : DevWriteOwned(p, x)
        PROVE  \A q \in Roots : live[q] # NoDir => live'[q] # NoDir
    BY <1>5 DEF DevDeleteOwned, DevWriteOwned
  <1> QED BY <1>2, <1>3, <1>4, <1>5 DEF Edit

LEMMA FreshStep == ASSUME TypeOK, FreshInv, [Next]_vars PROVE FreshInv'
  <1> USE DEF FreshInv, vars, disk, task, history, RestOfSwap
  <1>1. ASSUME NEW z \in Exports, NEW f \in BOOLEAN,
               BeginFresh(z, f) \/ BeginRefused(z, f) \/ BeginReapply(z, f)
        PROVE  FreshInv'
    BY <1>1 DEF BeginFresh, BeginRefused, BeginReapply, Begin, Goes, End
  <1>2. CASE StopUnexpected \/ StopEdited \/ Proceed \/ FreshDone \/ Crash
    BY <1>2 DEF StopUnexpected, StopEdited, Proceed, FreshDone, Crash, Stop, Goes, End
  <1>3. CASE FreshManifest
    BY <1>3, ValuesDistinct DEF FreshManifest, Goes, End, TypeOK
  <1>4. ASSUME NEW r \in Roots, NEW n \in Names, FreshGenerated(r, n) PROVE FreshInv'
    BY <1>4 DEF FreshGenerated, Goes, End, Files
  <1>5. ASSUME NEW p \in Owned, FreshOwned(p) PROVE FreshInv'
    <2>1. UNCHANGED <<manifest, task>> /\ pc = "fresh" /\ manifest # NoManifest
      BY <1>5, ValuesDistinct DEF FreshOwned, TypeOK
    <2>2. CASE Goes("fresh")
      <3>1. pending' = pending \ {p} /\ written' = written \cup {p}
        BY <1>5, <2>2 DEF FreshOwned, Goes, End
      <3> QED BY <2>1, <2>2, <3>1 DEF Goes, Files
    <2>3. CASE End("error")
      BY <2>1, <2>3 DEF End
    <2> QED BY <1>5, <2>2, <2>3 DEF FreshOwned
  <1>6. CASE \E n \in Names : StageFile(n)
    BY <1>6 DEF StageFile, Goes
  <1>7. CASE Clean \/ StageFails \/ SkipEmptyRoot \/ Staged
    BY <1>7 DEF Clean, StageFails, SkipEmptyRoot, Staged, RootDone, Goes, End
  <1>8. CASE MoveAside \/ MoveAsideFails \/ SwapIn \/ SwapInFails \/ RollBack \/ DropBackup
    BY <1>8 DEF MoveAside, MoveAsideFails, SwapIn, SwapInFails, RollBack, DropBackup,
                RootDone, Goes, End
  <1>9. CASE WriteManifest
    BY <1>9, ValuesDistinct DEF WriteManifest, End, TypeOK
  <1>10. CASE Edit
    BY <1>10 DEF Edit, DevWrite, DevDelete, DevWriteOwned, DevDeleteOwned, Developer
  <1>11. CASE UNCHANGED vars
    BY <1>11
  <1> QED BY <1>1, <1>2, <1>3, <1>4, <1>5, <1>6, <1>7, <1>8, <1>9, <1>10, <1>11 DEF Next, Apply

LEMMA StageStep == ASSUME TypeOK, StageInv, [Next]_vars PROVE StageInv'
  <1> USE DEF vars, disk, task, history, RestOfSwap
  <1>1. CASE UNCHANGED <<stage, env>> /\ pc' \notin {"stage", "aside", "swapin"}
    BY <1>1 DEF StageInv
  <1>2. ASSUME NEW z \in Exports, NEW f \in BOOLEAN,
               BeginFresh(z, f) \/ BeginRefused(z, f) \/ BeginReapply(z, f)
        PROVE  StageInv'
    BY <1>1, <1>2 DEF BeginFresh, BeginRefused, BeginReapply, Begin, Goes, End
  <1>3. CASE StopUnexpected \/ StopEdited \/ Proceed \/ FreshDone \/ Crash
    BY <1>1, <1>3 DEF StopUnexpected, StopEdited, Proceed, FreshDone, Crash, Stop, Goes, End
  <1>4. CASE FreshManifest \/ \E r \in Roots, n \in Names : FreshGenerated(r, n)
    BY <1>1, <1>4 DEF FreshManifest, FreshGenerated, Goes, End
  <1>5. CASE \E p \in Owned : FreshOwned(p)
    BY <1>1, <1>5 DEF FreshOwned, Goes, End
  <1>6. CASE Clean
    <2>1. Root \in Roots /\ stage' \in Cleared(stage, Root)
          /\ UNCHANGED <<next, at, env>> /\ pc' = "stage" /\ pending' = FilesIn(next, Root)
      BY <1>6, RootType DEF Clean, Swapping, Goes
    <2>2. /\ \A q \in Roots : stage'[q] = stage[q] \/ stage'[q] = NoDir
          /\ ~May("remove") => stage'[Root] = NoDir
      BY <2>1, ClearedType DEF TypeOK
    <2>3. \A r \in Roots, n \in Names : stage'[r] # NoDir => stage'[r][n] \notin DevBytes
      BY <2>2 DEF StageInv
    <2>4. \A n \in Names : <<Root, n>> \notin FilesIn(next, Root) => next.gen[Root][n] = NoFile
      BY <2>1 DEF FilesIn, Files
    <2> QED BY <2>1, <2>2, <2>3, <2>4 DEF StageInv, Staging, Root, FilesIn, Files, May
  <1>7. ASSUME NEW n \in Names, StageFile(n) PROVE StageInv'
    <2>1. Root \in Roots /\ next \in Exports /\ UNCHANGED <<next, at, env>> /\ pc' = "stage"
      BY <1>7, RootType DEF StageFile, Swapping, Goes
    <2>2. /\ stage' = [stage EXCEPT ![Root] = Put(stage[Root], n, next.gen[Root][n])]
          /\ pending' = pending \ {<<Root, n>>} /\ <<Root, n>> \in pending
      BY <1>7 DEF StageFile
    <2>3. next.gen[Root][n] \in (Bytes \cup {NoFile}) \ DevBytes
      BY <2>1, ZipFacts, ValuesDistinct DEF Bytes
    <2>4. Put(stage[Root], n, next.gen[Root][n]) \in Dir
      BY <2>1, <2>3, PutType DEF TypeOK
    <2>5. stage'[Root] = Put(stage[Root], n, next.gen[Root][n]) /\ stage'[Root] # NoDir
      BY <2>1, <2>2, <2>4, ValuesDistinct DEF TypeOK
    <2>6. \A m \in Names : stage'[Root][m] = IF m = n THEN next.gen[Root][n] ELSE Staging(m)
      BY <2>1, <2>5 DEF Put, Staging, EmptyDir, TypeOK, Dir
    <2>7. \A r \in Roots, m \in Names : stage'[r] # NoDir => stage'[r][m] \notin DevBytes
      BY <2>1, <2>2, <2>3, <2>6, ValuesDistinct DEF StageInv, Staging, TypeOK, Bytes
    <2>8. pending' \subseteq FilesIn(next, Root)
      BY <1>7, <2>2 DEF StageInv, StageFile
    <2>9. ~May("remove") =>
            \A m \in Names :
              stage'[Root][m] = IF <<Root, m>> \in pending' THEN NoFile ELSE next.gen[Root][m]
      BY <1>7, <2>2, <2>6 DEF StageInv, StageFile
    <2> QED BY <2>1, <2>5, <2>7, <2>8, <2>9 DEF StageInv, Staging, Root, FilesIn, Files, May
  <1>8. CASE StageFails \/ SkipEmptyRoot \/ MoveAsideFails
    <2>1. Root \in Roots /\ stage' \in Cleared(stage, Root) /\ env' = env
          /\ pc' \notin {"stage", "aside", "swapin"}
      BY <1>8, RootType DEF StageFails, SkipEmptyRoot, MoveAsideFails, RootDone, Swapping, Goes, End
    <2>2. \A q \in Roots : stage'[q] = stage[q] \/ stage'[q] = NoDir
      BY <2>1, ClearedType DEF TypeOK
    <2> QED BY <2>1, <2>2 DEF StageInv
  <1>9. CASE Staged
    <2>1. Root \in Roots /\ next \in Exports /\ pc' = "aside" /\ UNCHANGED <<next, at, env, stage>>
          /\ pending = {} /\ FilesIn(next, Root) # {} /\ pc = "stage"
      BY <1>9, RootType DEF Staged, Swapping, Goes
    <2>2. stage[Root] # NoDir
      BY <2>1 DEF StageInv
    <2>3. ~May("remove") => \A n \in Names : stage[Root][n] = next.gen[Root][n]
      BY <2>1, <2>2 DEF StageInv, Staging
    <2>4. stage[Root] \in Dir /\ next.gen[Root] \in Dir
      BY <2>1, <2>2, ZipFacts DEF TypeOK
    <2>5. ~May("remove") => stage[Root] = next.gen[Root]
      BY <2>3, <2>4 DEF Dir
    <2> QED BY <2>1, <2>2, <2>5 DEF StageInv, Root, May
  <1>10. CASE MoveAside
    BY <1>10 DEF MoveAside, Goes, StageInv, Root, May
  <1>11. CASE SwapIn
    <2>1. Root \in Roots /\ stage' = [stage EXCEPT ![Root] = NoDir] /\ pc' = "drop" /\ env' = env
      BY <1>11, RootType DEF SwapIn, Swapping, Goes
    <2> QED BY <2>1 DEF StageInv, TypeOK
  <1>12. CASE SwapInFails \/ RollBack \/ DropBackup \/ WriteManifest
    BY <1>1, <1>12 DEF SwapInFails, RollBack, DropBackup, WriteManifest, RootDone, Goes, End
  <1>13. CASE Edit
    BY <1>13 DEF Edit, DevWrite, DevDelete, DevWriteOwned, DevDeleteOwned, Developer,
                 StageInv, Staging, Root, FilesIn, Files, May
  <1>14. CASE UNCHANGED vars
    BY <1>14 DEF StageInv, Staging, Root, FilesIn, Files, May
  <1> QED BY <1>2, <1>3, <1>4, <1>5, <1>6, <1>7, <1>8, <1>9, <1>10, <1>11, <1>12, <1>13, <1>14
          DEF Next, Apply

(* What `detectUnexpected` and `detectEdits` rule out when both are empty. *)
LEMMA BothChecksEmpty ==
  ASSUME TypeOK, prev \in Exports, Unexpected \cup Edited = {}
  PROVE  \A r \in RangeOf(prev.roots), n \in Names : ~DevFile(r, n)
  <1> SUFFICES ASSUME NEW r \in RangeOf(prev.roots), NEW n \in Names, HasFile(r, n)
               PROVE  live[r][n] \notin DevBytes
    BY DEF DevFile
  <1>1. r \in Roots
    BY ZipFacts DEF RangeOf
  <1>2. <<r, n>> \in Files(prev)
    BY DEF Unexpected
  <1>3. live[r][n] = prev.gen[r][n]
    BY <1>2 DEF Edited
  <1> QED BY <1>1, <1>3, ZipFacts, ValuesDistinct DEF Bytes

LEMMA CheckedStep ==
  ASSUME TypeOK, StageInv, CheckedInv, [Next]_vars
  PROVE  CheckedInv'
  <1> USE DEF vars, disk, task, history, RestOfSwap
  <1>1. CASE UNCHANGED <<live, task, env>> /\ (pc \in Swapping \/ pc' \notin Swapping)
    BY <1>1 DEF CheckedInv, DevFile, HasFile
  <1>2. ASSUME NEW z \in Exports, NEW f \in BOOLEAN,
               BeginFresh(z, f) \/ BeginRefused(z, f) \/ BeginReapply(z, f)
        PROVE  CheckedInv'
    BY <1>2 DEF BeginFresh, BeginRefused, BeginReapply, Goes, End, CheckedInv, Swapping
  <1>3. CASE StopUnexpected \/ StopEdited \/ FreshDone \/ Crash \/ WriteManifest
    BY <1>1, <1>3 DEF StopUnexpected, StopEdited, FreshDone, Crash, WriteManifest, Stop, End,
                      Swapping
  <1>4. CASE Proceed
    BY <1>4, BothChecksEmpty DEF Proceed, CheckedInv, DevFile, HasFile, TypeOK
  <1>5. CASE FreshManifest \/ \E r \in Roots, n \in Names : FreshGenerated(r, n)
    BY <1>5 DEF FreshManifest, FreshGenerated, Goes, End, CheckedInv, Swapping
  <1>6. CASE \E p \in Owned : FreshOwned(p)
    BY <1>6 DEF FreshOwned, Goes, End, CheckedInv, Swapping
  <1>7. CASE Clean \/ StageFails \/ SkipEmptyRoot \/ Staged \/ \E n \in Names : StageFile(n)
    BY <1>1, <1>7 DEF Clean, StageFails, SkipEmptyRoot, Staged, StageFile, Swapping
  <1>8. CASE MoveAsideFails \/ SwapInFails \/ DropBackup
    BY <1>1, <1>8 DEF MoveAsideFails, SwapInFails, DropBackup, Swapping
  <1>9. CASE MoveAside
    <2>1. Root \in Roots /\ pc \in Swapping /\ UNCHANGED <<task, env>>
      BY <1>9, RootType DEF MoveAside, Swapping
    <2>2. \A q \in Roots : live'[q] = live[q] \/ live'[q] = NoDir
      BY <1>9, <2>1 DEF MoveAside, TypeOK
    <2>3. prev \in Exports
      BY <2>1 DEF TypeOK
    <2> QED BY <2>1, <2>2, <2>3, ZipFacts DEF CheckedInv, DevFile, HasFile, RangeOf
  <1>10. CASE SwapIn
    <2>1. Root \in Roots /\ pc \in Swapping /\ UNCHANGED <<task, env>> /\ prev \in Exports
      BY <1>10, RootType DEF SwapIn, Swapping, TypeOK
    <2>2. \A q \in Roots : live'[q] = live[q] \/ (q = Root /\ live'[q] = stage[Root])
      BY <1>10, <2>1 DEF SwapIn, TypeOK
    <2> QED BY <2>1, <2>2, ZipFacts DEF CheckedInv, DevFile, HasFile, RangeOf, StageInv
  <1>11. CASE RollBack
    BY <1>11 DEF RollBack, End, CheckedInv, Swapping
  <1>12. CASE Edit
    BY <1>12 DEF Edit, DevWrite, DevDelete, DevWriteOwned, DevDeleteOwned, Developer, CheckedInv,
                 Swapping
  <1>13. CASE UNCHANGED vars
    BY <1>1, <1>13
  <1> QED BY <1>2, <1>3, <1>4, <1>5, <1>6, <1>7, <1>8, <1>9, <1>10, <1>11, <1>12, <1>13
          DEF Next, Apply

LEMMA CopyStep ==
  ASSUME TypeOK, StageInv, CopyInv, [Next]_vars
  PROVE  CopyInv'
  <1> USE DEF vars, disk, task, history, RestOfSwap
  <1>1. CASE /\ UNCHANGED <<backup, task, at>> /\ (~failed' => ~failed)
             /\ \A q \in Roots : live[q] # NoDir => live'[q] # NoDir
             /\ pc \in {"swapin", "rollback"} => pc' \in {"swapin", "rollback"} \/ failed'
             /\ pc' = "drop" => pc = "drop" /\ Root \in Roots
    BY <1>1 DEF CopyInv, Root
  <1>2. ASSUME NEW z \in Exports, NEW f \in BOOLEAN,
               BeginFresh(z, f) \/ BeginRefused(z, f) \/ BeginReapply(z, f)
        PROVE  CopyInv'
    BY <1>2 DEF BeginFresh, BeginRefused, BeginReapply, Begin, Goes, End, CopyInv
  <1>3. CASE StopUnexpected \/ StopEdited \/ Proceed \/ FreshDone \/ Crash \/ WriteManifest
    BY <1>1, <1>3 DEF StopUnexpected, StopEdited, Proceed, FreshDone, Crash, WriteManifest, Stop,
                      Goes, End
  <1>4. CASE FreshManifest \/ \E p \in Owned : FreshOwned(p)
    BY <1>1, <1>4 DEF FreshManifest, FreshOwned, Goes, End
  <1>5. CASE \E r \in Roots, n \in Names : FreshGenerated(r, n)
    <2>1. \A q \in Roots : live[q] # NoDir => live'[q] # NoDir
      BY <1>5, EditKeepsDirs
    <2>2. /\ UNCHANGED <<backup, task, at>> /\ (~failed' => ~failed)
          /\ pc = "fresh" /\ pc' \in {"fresh", "idle"}
      <3> PICK r \in Roots, n \in Names : FreshGenerated(r, n)
        BY <1>5
      <3> QED BY DEF FreshGenerated, Goes, End, TypeOK
    <2> QED BY <1>1, <2>1, <2>2
  <1>6. CASE Clean
    <2>1. Root \in Roots /\ backup' \in Cleared(backup, Root)
          /\ UNCHANGED <<live, failed>> /\ pc = "clean" /\ pc' = "stage"
      BY <1>6, RootType DEF Clean, Swapping, Goes
    <2>2. \A q \in Roots : backup'[q] = backup[q] \/ backup'[q] = NoDir
      BY <2>1, ClearedType DEF TypeOK
    <2> QED BY <2>1, <2>2 DEF CopyInv
  <1>7. CASE StageFails \/ Staged \/ MoveAsideFails \/ SwapInFails \/ \E n \in Names : StageFile(n)
    BY <1>1, <1>7 DEF StageFails, Staged, MoveAsideFails, SwapInFails, StageFile, Goes, End
  <1>8. CASE SkipEmptyRoot
    BY <1>8 DEF SkipEmptyRoot, RootDone, Goes, CopyInv
  <1>9. CASE MoveAside
    <2>1. Root \in Roots /\ UNCHANGED <<task, at, failed>> /\ pc' = "swapin" /\ pc = "aside"
      BY <1>9, RootType DEF MoveAside, Swapping, Goes
    <2>2. \A q \in Roots \ {Root} : live'[q] = live[q] /\ backup'[q] = backup[q]
      BY <1>9, <2>1 DEF MoveAside, TypeOK
    <2> QED BY <2>1, <2>2 DEF CopyInv, Root
  <1>10. CASE SwapIn
    <2>1. Root \in Roots /\ UNCHANGED <<task, at, failed, backup>> /\ pc' = "drop" /\ pc = "swapin"
      BY <1>10, RootType DEF SwapIn, Swapping, Goes
    <2>2. live'[Root] = stage[Root] /\ \A q \in Roots \ {Root} : live'[q] = live[q]
      BY <1>10, <2>1 DEF SwapIn, TypeOK
    <2> QED BY <2>1, <2>2 DEF CopyInv, Root, StageInv
  <1>11. CASE RollBack
    BY <1>11 DEF RollBack, End, CopyInv
  <1>12. CASE DropBackup
    <2>1. Root \in Roots /\ backup' \in Cleared(backup, Root)
          /\ UNCHANGED <<live, failed>> /\ pc = "drop" /\ pc' # "drop"
      BY <1>12, RootType DEF DropBackup, RootDone, Swapping, Goes
    <2>2. \A q \in Roots : backup'[q] = backup[q] \/ backup'[q] = NoDir
      BY <2>1, ClearedType DEF TypeOK
    <2> QED BY <2>1, <2>2 DEF CopyInv
  <1>13. CASE Edit
    <2>1. UNCHANGED <<backup, task, at, failed, pc>>
      BY <1>13 DEF Edit, DevWrite, DevDelete, DevWriteOwned, DevDeleteOwned, Developer
    <2>2. \A q \in Roots : live[q] # NoDir => live'[q] # NoDir
      BY <1>13, EditKeepsDirs
    <2> QED BY <1>1, <2>1, <2>2, RootType DEF Swapping
  <1>14. CASE UNCHANGED vars
    BY <1>14 DEF CopyInv, Root
  <1> QED BY <1>2, <1>3, <1>4, <1>5, <1>6, <1>7, <1>8, <1>9, <1>10, <1>11, <1>12, <1>13, <1>14
          DEF Next, Apply

LEMMA DoneStep ==
  ASSUME TypeOK, StageInv, DoneInv, [Next]_vars
  PROVE  DoneInv'
  <1> USE DEF vars, disk, task, history, RestOfSwap
  <1>1. CASE /\ UNCHANGED <<live, task, at, env>> /\ pc' \notin {"check", "manifest", "drop"}
             /\ pc' \in Swapping => /\ pc \in Swapping
                                    /\ pc \in {"swapin", "rollback"} => pc' \in {"swapin", "rollback"}
    BY <1>1 DEF DoneInv, Undisturbed, May, Root, FilesIn, Files
  <1>2. ASSUME NEW z \in Exports, NEW f \in BOOLEAN,
               BeginFresh(z, f) \/ BeginRefused(z, f) \/ BeginReapply(z, f)
        PROVE  DoneInv'
    BY <1>2 DEF BeginFresh, BeginRefused, BeginReapply, Begin, Goes, End, DoneInv, Swapping
  <1>3. CASE StopUnexpected \/ StopEdited \/ FreshDone \/ Crash
    BY <1>1, <1>3 DEF StopUnexpected, StopEdited, FreshDone, Crash, Stop, End, Swapping
  <1>4. CASE Proceed
    BY <1>4 DEF Proceed, Goes, DoneInv, Swapping, TypeOK
  <1>5. CASE \/ FreshManifest \/ \E r \in Roots, n \in Names : FreshGenerated(r, n)
             \/ \E p \in Owned : FreshOwned(p)
    BY <1>5 DEF FreshManifest, FreshGenerated, FreshOwned, Goes, End, DoneInv, Swapping
  <1>6. CASE \/ Clean \/ StageFails \/ Staged \/ MoveAsideFails \/ SwapInFails
             \/ \E n \in Names : StageFile(n)
    BY <1>1, <1>6 DEF Clean, StageFails, Staged, MoveAsideFails, SwapInFails, StageFile, Goes,
                      End, Swapping
  <1>7. CASE SkipEmptyRoot \/ DropBackup
    <2>1. Root \in Roots /\ next \in Exports /\ at \in 1..Len(next.roots)
          /\ Len(next.roots) \in Nat
      BY <1>7, RootType, ZipFacts DEF SkipEmptyRoot, DropBackup, Swapping
    <2>2. /\ UNCHANGED <<live, task, env>> /\ at' = at + 1 /\ pc \in {"stage", "drop"}
          /\ pc' = IF at < Len(next.roots) THEN "clean" ELSE "manifest"
          /\ FilesIn(next, Root) = {} \/ pc = "drop"
      BY <1>7 DEF SkipEmptyRoot, DropBackup, RootDone, Goes
    <2>3. ASSUME Undisturbed, NEW i \in 1..Len(next.roots), i < at + 1,
                 FilesIn(next, next.roots[i]) # {}
          PROVE  live[next.roots[i]] = next.gen[next.roots[i]]
      <3>1. CASE i = at
        BY <2>2, <2>3, <3>1 DEF DoneInv, Root
      <3>2. CASE i < at
        BY <2>2, <2>3, <3>2 DEF DoneInv, Swapping
      <3> QED BY <2>1, <2>3, <3>1, <3>2
    <2>4. pc' = "manifest" => at' = Len(next'.roots) + 1
      BY <2>1, <2>2
    <2>5. pc' \notin {"check", "drop"}
      BY <2>2
    <2> QED BY <2>2, <2>3, <2>4, <2>5 DEF DoneInv, Undisturbed, May, FilesIn, Files
  <1>8. CASE MoveAside
    <2>1. /\ Root \in Roots /\ UNCHANGED <<task, at, env>> /\ pc' = "swapin" /\ pc = "aside"
          /\ next \in Exports
      BY <1>8, RootType DEF MoveAside, Swapping, Goes
    <2>2. \A q \in Roots \ {Root} : live'[q] = live[q]
      BY <1>8, <2>1 DEF MoveAside, TypeOK
    <2>3. \A i \in 1..Len(next.roots) : next.roots[i] \in Roots
      BY <2>1, ZipFacts
    <2> QED BY <2>1, <2>2, <2>3 DEF DoneInv, Undisturbed, May, Root, FilesIn, Files, Swapping
  <1>9. CASE SwapIn
    <2>1. /\ Root \in Roots /\ UNCHANGED <<task, at, env>> /\ pc' = "drop" /\ pc = "swapin"
          /\ next \in Exports
      BY <1>9, RootType DEF SwapIn, Swapping, Goes
    <2>2. live'[Root] = stage[Root] /\ \A q \in Roots \ {Root} : live'[q] = live[q]
      BY <1>9, <2>1 DEF SwapIn, TypeOK
    <2>3. \A i \in 1..Len(next.roots) : next.roots[i] \in Roots
      BY <2>1, ZipFacts
    <2>4. Undisturbed => live'[Root] = next.gen[Root]
      BY <2>1, <2>2 DEF StageInv, Undisturbed
    <2> QED BY <2>1, <2>2, <2>3, <2>4 DEF DoneInv, Undisturbed, May, Root, FilesIn, Files, Swapping
  <1>10. CASE RollBack \/ WriteManifest
    BY <1>10 DEF RollBack, WriteManifest, End, DoneInv, Swapping
  <1>11. CASE Edit
    <2>1. UNCHANGED <<task, at, env, pc>> /\ (Undisturbed => pc = "idle")
      BY <1>11 DEF Edit, DevWrite, DevDelete, DevWriteOwned, DevDeleteOwned, Developer, Undisturbed
    <2> QED BY <2>1 DEF DoneInv, Undisturbed, May, Swapping
  <1>12. CASE UNCHANGED vars
    BY <1>12 DEF DoneInv, Undisturbed, May, Root, FilesIn, Files
  <1> QED BY <1>2, <1>3, <1>4, <1>5, <1>6, <1>7, <1>8, <1>9, <1>10, <1>11, <1>12 DEF Next, Apply

(* What the refinement rests on.                                           *)
LEMMA SwapStep ==
  ASSUME TypeOK, StageInv, CopyInv, SwapInv, [Next]_vars
  PROVE  SwapInv'
  <1> USE DEF vars, disk, task, history, RestOfSwap
  <1>1. CASE /\ UNCHANGED <<manifest, task, at, backup, env>>
             /\ \A q \in Roots : live[q] # NoDir => live'[q] # NoDir
             /\ pc' \in Swapping \cup {"check"} => pc \in Swapping \cup {"check"}
             /\ pc' \in {"aside", "swapin", "rollback", "drop"} =>
                  \/ pc \in {"aside", "swapin", "rollback", "drop"}
                  \/ FilesIn(next, Root) # {}
             /\ pc \in {"swapin", "rollback"} => pc' \in {"swapin", "rollback"} \/ ~Tame
    BY <1>1 DEF SwapInv, Tame, Root, FilesIn, Files
  <1>2. ASSUME NEW z \in Exports, NEW f \in BOOLEAN,
               BeginFresh(z, f) \/ BeginRefused(z, f) \/ BeginReapply(z, f)
        PROVE  SwapInv'
    BY <1>2 DEF BeginFresh, BeginRefused, BeginReapply, Begin, Goes, End, SwapInv, Swapping,
                Tame
  <1>3. CASE StopUnexpected \/ StopEdited \/ Proceed \/ FreshDone \/ Crash
    BY <1>1, <1>3 DEF StopUnexpected, StopEdited, Proceed, FreshDone, Crash, Stop,
                      Goes, End, Swapping, Tame, May
  <1>4. CASE FreshManifest \/ WriteManifest
    BY <1>4 DEF FreshManifest, WriteManifest, Goes, End, SwapInv, Swapping, Tame
  <1>5. CASE \E p \in Owned : FreshOwned(p)
    BY <1>1, <1>5 DEF FreshOwned, Goes, End, Swapping
  <1>6. CASE \E r \in Roots, n \in Names : FreshGenerated(r, n)
    <2>1. \A q \in Roots : live[q] # NoDir => live'[q] # NoDir
      BY <1>6, EditKeepsDirs
    <2>2. /\ UNCHANGED <<manifest, task, at, backup, env>>
          /\ pc = "fresh" /\ pc' \in {"fresh", "idle"}
      BY <1>6 DEF FreshGenerated, Goes, End
    <2> QED BY <1>1, <2>1, <2>2 DEF Swapping
  <1>7. CASE StageFails \/ Staged \/ MoveAsideFails \/ SwapInFails \/ \E n \in Names : StageFile(n)
    BY <1>1, <1>7 DEF StageFails, Staged, MoveAsideFails, SwapInFails, StageFile, Goes, End,
                      Swapping
  <1>8. CASE Clean \/ DropBackup
    <2>1. /\ Root \in Roots /\ backup' \in Cleared(backup, Root)
          /\ UNCHANGED <<live, manifest, task, env>> /\ pc \in {"clean", "drop"}
          /\ pc' \in {"stage", "clean", "manifest"}
      BY <1>8, RootType DEF Clean, DropBackup, RootDone, Swapping, Goes
    <2>2. \A q \in Roots : backup'[q] = backup[q] \/ backup'[q] = NoDir
      BY <2>1, ClearedType DEF TypeOK
    <2> QED BY <2>1, <2>2 DEF SwapInv, Swapping, Tame
  <1>9. CASE SkipEmptyRoot
    BY <1>9 DEF SkipEmptyRoot, RootDone, Goes, SwapInv, Swapping, Tame
  <1>10. CASE MoveAside
    <2>1. /\ Root \in Roots /\ UNCHANGED <<manifest, task, at, env>>
          /\ pc' = "swapin" /\ pc = "aside"
      BY <1>10, RootType DEF MoveAside, Swapping, Goes
    <2>2. \A q \in Roots \ {Root} : live'[q] = live[q] /\ backup'[q] = backup[q]
      BY <1>10, <2>1 DEF MoveAside, TypeOK
    <2> QED BY <2>1, <2>2 DEF SwapInv, Root, Swapping, FilesIn, Files, Tame
  <1>11. CASE SwapIn
    <2>1. /\ Root \in Roots /\ UNCHANGED <<manifest, task, at, env, backup>>
          /\ pc' = "drop" /\ pc = "swapin"
      BY <1>11, RootType DEF SwapIn, Swapping, Goes
    <2>2. /\ live'[Root] # NoDir
          /\ \A q \in Roots \ {Root} : live'[q] = live[q]
      BY <1>11, <2>1 DEF SwapIn, TypeOK, StageInv
    <2> QED BY <2>1, <2>2 DEF SwapInv, Root, Swapping, FilesIn, Files, Tame
  <1>12. CASE RollBack
    <2>1. /\ Root \in Roots /\ UNCHANGED <<manifest, task, at, env>>
          /\ pc' = "idle" /\ pc = "rollback"
      BY <1>12, RootType DEF RollBack, Swapping, End
    <2>2. \A q \in Roots \ {Root} : live'[q] = live[q] /\ backup'[q] = backup[q]
      BY <1>12, <2>1 DEF RollBack, TypeOK
    <2>3. Tame => ~(backup'[Root] # NoDir /\ live'[Root] = NoDir)
      BY <1>12, <2>1 DEF RollBack, TypeOK, Tame, May
    <2> QED BY <2>1, <2>2, <2>3 DEF SwapInv, Swapping, Tame
  <1>13. CASE Edit
    <2>1. UNCHANGED <<manifest, task, at, backup, env, pc>>
      BY <1>13 DEF Edit, DevWrite, DevDelete, DevWriteOwned, DevDeleteOwned, Developer
    <2>2. \A q \in Roots : live[q] # NoDir => live'[q] # NoDir
      BY <1>13, EditKeepsDirs
    <2> QED BY <1>1, <2>1, <2>2
  <1>14. CASE UNCHANGED vars
    BY <1>1, <1>14
  <1> QED BY <1>2, <1>3, <1>4, <1>5, <1>6, <1>7, <1>8, <1>9, <1>10, <1>11, <1>12, <1>13, <1>14
          DEF Next, Apply

(* A file put into a directory, one deleted from it, and all others.       *)
LEMMA PutFiles ==
  ASSUME TypeOK, NEW r \in Roots, NEW n \in Names, NEW x \in Bytes \cup {NoFile},
         \/ live' = [live EXCEPT ![r] = Put(live[r], n, x)]
         \/ live[r] # NoDir /\ x = NoFile /\ live' = [live EXCEPT ![r][n] = NoFile]
  PROVE  \A q \in Roots, m \in Names :
           HasFile(q, m)' => \/ q = r /\ m = n /\ live'[q][m] = x
                             \/ HasFile(q, m) /\ live'[q][m] = live[q][m]
  <1> SUFFICES ASSUME NEW q \in Roots, NEW m \in Names, HasFile(q, m)'
               PROVE  \/ q = r /\ m = n /\ live'[q][m] = x
                      \/ HasFile(q, m) /\ live'[q][m] = live[q][m]
    OBVIOUS
  <1>1. CASE q # r
    BY <1>1 DEF HasFile, TypeOK
  <1>2. CASE q = r /\ live' = [live EXCEPT ![r] = Put(live[r], n, x)]
    <2>1. live'[r] = Put(live[r], n, x)
      BY <1>2 DEF TypeOK
    <2>2. live[r] \in Dir \cup {NoDir}
      BY DEF TypeOK
    <2>3. CASE live[r] = NoDir
      <3>1. live'[r] = [EmptyDir EXCEPT ![n] = x]
        BY <2>1, <2>3 DEF Put
      <3> QED BY <1>2, <3>1 DEF EmptyDir, HasFile
    <2>4. CASE live[r] \in Dir /\ live[r] # NoDir
      <3>1. live'[r] = [live[r] EXCEPT ![n] = x]
        BY <2>1, <2>4 DEF Put
      <3> QED BY <1>2, <2>4, <3>1 DEF Dir, HasFile
    <2> QED BY <2>2, <2>3, <2>4
  <1>3. CASE /\ q = r /\ live[r] # NoDir /\ x = NoFile
             /\ live' = [live EXCEPT ![r][n] = NoFile]
    <2>1. live[r] \in Dir /\ live'[r] = [live[r] EXCEPT ![n] = NoFile]
      BY <1>3 DEF TypeOK
    <2> QED BY <1>3, <2>1 DEF Dir, HasFile
  <1> QED BY <1>1, <1>2, <1>3

LEMMA StagedStep ==
  ASSUME TypeOK, StageInv, StagedInv, [Next]_vars
  PROVE  StagedInv'
  <1> USE DEF vars, disk, task, history, RestOfSwap
  <1>1. CASE pc' \notin {"stage", "aside", "swapin"}
    BY <1>1 DEF StagedInv
  <1>2. CASE Clean
    <2>1. pc' = "stage" /\ UNCHANGED <<next, at>> /\ pending' = FilesIn(next, Root)
      BY <1>2 DEF Clean, Goes
    <2>2. Root \in Roots
      BY <1>2, RootType DEF Clean, Swapping
    <2>3. ASSUME NEW n \in Names, next.gen[Root][n] # NoFile PROVE <<Root, n>> \in pending'
      BY <2>1, <2>2, <2>3 DEF FilesIn, Files
    <2> QED BY <2>1, <2>3 DEF StagedInv, Root
  <1>3. ASSUME NEW n \in Names, StageFile(n) PROVE StagedInv'
    <2>1. /\ Root \in Roots /\ next \in Exports /\ UNCHANGED <<next, at>>
          /\ pc = "stage" /\ pc' = "stage"
      BY <1>3, RootType DEF StageFile, Swapping, Goes
    <2>2. /\ stage' = [stage EXCEPT ![Root] = Put(stage[Root], n, next.gen[Root][n])]
          /\ pending' = pending \ {<<Root, n>>}
      BY <1>3 DEF StageFile
    <2>3. next.gen[Root][n] \in Bytes \cup {NoFile}
      BY <2>1, ZipFacts DEF Bytes
    <2>4. Put(stage[Root], n, next.gen[Root][n]) \in Dir
      BY <2>1, <2>3, PutType DEF TypeOK
    <2>5. stage'[Root] = Put(stage[Root], n, next.gen[Root][n]) /\ stage'[Root] # NoDir
      BY <2>1, <2>2, <2>4, ValuesDistinct DEF TypeOK
    <2>6. \A m \in Names : stage'[Root][m] = IF m = n THEN next.gen[Root][n] ELSE Staging(m)
      BY <2>1, <2>5 DEF Put, Staging, EmptyDir, TypeOK, Dir
    <2>7. ASSUME NEW m \in Names, next.gen[Root][m] # NoFile, <<Root, m>> \notin pending'
          PROVE  stage'[Root][m] = next.gen[Root][m]
      BY <2>1, <2>2, <2>6, <2>7 DEF StagedInv
    <2> QED BY <2>1, <2>5, <2>7 DEF StagedInv, Staging, Root
  <1>4. CASE Staged \/ MoveAside
    BY <1>4 DEF Staged, MoveAside, Goes, StagedInv, Staging, Root
  <1>5. ASSUME NEW z \in Exports, NEW f \in BOOLEAN,
               BeginFresh(z, f) \/ BeginRefused(z, f) \/ BeginReapply(z, f)
        PROVE  StagedInv'
    BY <1>1, <1>5 DEF BeginFresh, BeginRefused, BeginReapply, Goes, End
  <1>6. CASE StopUnexpected \/ StopEdited \/ Proceed \/ FreshManifest \/ FreshDone \/ Crash
    BY <1>1, <1>6 DEF StopUnexpected, StopEdited, Stop, Proceed, FreshManifest, FreshDone,
                      Crash, Goes, End
  <1>7. CASE \/ \E r \in Roots, n \in Names : FreshGenerated(r, n)
             \/ \E p \in Owned : FreshOwned(p)
    BY <1>1, <1>7 DEF FreshGenerated, FreshOwned, Goes, End
  <1>8. CASE StageFails \/ SkipEmptyRoot \/ MoveAsideFails \/ SwapIn \/ SwapInFails
    BY <1>1, <1>8 DEF StageFails, SkipEmptyRoot, MoveAsideFails, SwapIn, SwapInFails,
                      RootDone, Goes, End
  <1>9. CASE RollBack \/ DropBackup \/ WriteManifest
    BY <1>1, <1>9 DEF RollBack, DropBackup, WriteManifest, RootDone, Goes, End
  <1>10. CASE Edit
    BY <1>10 DEF Edit, DevWrite, DevDelete, DevWriteOwned, DevDeleteOwned, Developer,
                 StagedInv, Staging, Root
  <1>11. CASE UNCHANGED vars
    BY <1>11 DEF StagedInv, Staging, Root
  <1> QED BY <1>2, <1>3, <1>4, <1>5, <1>6, <1>7, <1>8, <1>9, <1>10, <1>11 DEF Next, Apply

(* A file that the zip or the developer wrote leaves the others agreeing.  *)
LEMMA PutAgrees ==
  ASSUME TypeOK, NEW z \in Exports, NEW r \in Roots, NEW n \in Names,
         NEW x \in Bytes \cup {NoFile},
         \/ live' = [live EXCEPT ![r] = Put(live[r], n, x)]
         \/ live[r] # NoDir /\ x = NoFile /\ live' = [live EXCEPT ![r][n] = NoFile],
         x \in DevBytes \cup {NoFile, z.gen[r][n]},
         NEW q \in Roots, NEW m \in Names, Agrees(z, q, m)
  PROVE  Agrees(z, q, m)'
  <1> SUFFICES ASSUME HasFile(q, m)', z.gen[q][m] # NoFile
               PROVE  live'[q][m] \in DevBytes \cup {z.gen[q][m]}
    BY DEF Agrees
  <1>1. CASE q = r /\ m = n /\ live'[q][m] = x
    BY <1>1 DEF HasFile
  <1>2. CASE HasFile(q, m) /\ live'[q][m] = live[q][m]
    BY <1>2 DEF Agrees
  <1> QED BY <1>1, <1>2, PutFiles

(* Edits put or delete one file of the developer's, or touch no root.      *)
LEMMA EditIsPut ==
  ASSUME TypeOK, Edit
  PROVE  \/ live' = live
         \/ \E r \in Roots, n \in Names, x \in DevBytes \cup {NoFile} :
              \/ live' = [live EXCEPT ![r] = Put(live[r], n, x)]
              \/ live[r] # NoDir /\ x = NoFile /\ live' = [live EXCEPT ![r][n] = NoFile]
  <1>1. ASSUME NEW r \in Roots, NEW n \in Names, NEW x \in DevBytes, DevWrite(r, n, x)
        PROVE  live' = [live EXCEPT ![r] = Put(live[r], n, x)]
    BY <1>1 DEF DevWrite
  <1>2. ASSUME NEW r \in Roots, NEW n \in Names, DevDelete(r, n)
        PROVE  live[r] # NoDir /\ live' = [live EXCEPT ![r][n] = NoFile]
    BY <1>2 DEF DevDelete, HasFile
  <1>3. ASSUME NEW p \in Owned,
               DevDeleteOwned(p) \/ \E x \in DevBytes : DevWriteOwned(p, x)
        PROVE  live' = live
    BY <1>3 DEF DevDeleteOwned, DevWriteOwned
  <1> QED BY <1>1, <1>2, <1>3 DEF Edit

(* What the stop for edited files rests on.                                *)
LEMMA SameZipStep ==
  ASSUME TypeOK, FreshInv, StageInv, StagedInv, DoneInv, SwapInv, SameZipInv, [Next]_vars
  PROVE  SameZipInv'
  <1> USE DEF vars, disk, task, history, RestOfSwap
  <1>1. CASE /\ UNCHANGED <<live, manifest, next, at>> /\ (~failed' => ~failed)
             /\ pc' = "fresh" => pc = "fresh"
             /\ pc' = "drop" => pc = "drop"
             /\ pc' \in Swapping <=> pc \in Swapping
    BY <1>1 DEF SameZipInv, Agrees, HasFile, DevFile, Root
  <1>2. CASE failed'
    BY <1>2 DEF SameZipInv
  <1>3. ASSUME NEW z \in Exports, NEW f \in BOOLEAN,
               BeginFresh(z, f) \/ BeginRefused(z, f) \/ BeginReapply(z, f)
        PROVE  SameZipInv'
    <2>1. /\ UNCHANGED <<live, manifest>> /\ (~failed' => ~failed)
          /\ pc = "idle" /\ pc' \in {"freshmanifest", "idle", "check"}
      <3>1. UNCHANGED <<live, manifest>> /\ pc = "idle"
        BY <1>3 DEF BeginFresh, BeginRefused, BeginReapply, Begin
      <3>2. (Goes("freshmanifest") \/ Goes("check") \/ End("refused"))
        BY <1>3 DEF BeginFresh, BeginRefused, BeginReapply
      <3>3. failed \in BOOLEAN
        BY DEF TypeOK
      <3> QED BY <3>1, <3>2, <3>3 DEF Goes, End
    <2> QED BY <2>1 DEF SameZipInv, Agrees, HasFile, DevFile, Swapping
  <1>4. CASE StopUnexpected \/ StopEdited \/ FreshDone \/ Crash
    <2>1. CASE Crash
      BY <1>2, <2>1 DEF Crash, End
    <2> QED BY <1>1, <1>4, <2>1 DEF StopUnexpected, StopEdited, FreshDone, Stop, End,
                                    Swapping
  <1>5. CASE Proceed
    <2>1. /\ UNCHANGED <<live, manifest, next, at, failed>> /\ pc = "check"
          /\ pc' = "clean" /\ at = 1
      BY <1>5 DEF Proceed, Goes, DoneInv
    <2>2. next \in Exports /\ Len(next.roots) \in Nat
      BY <2>1, ZipFacts DEF TypeOK
    <2> QED BY <2>1, <2>2 DEF SameZipInv, HasFile, DevFile, Swapping
  <1>6. CASE FreshManifest
    <2>1. CASE manifest' = next /\ Goes("fresh") /\ UNCHANGED <<live, next>>
      <3>1. pc = "freshmanifest" /\ manifest = NoManifest /\ next \in Exports
        BY <1>6 DEF FreshManifest, FreshInv, TypeOK
      <3>2. pc' = "fresh" /\ failed' = failed
        BY <2>1 DEF Goes
      <3>3. ~failed => \A r \in Roots, n \in Names : Agrees(next, r, n)'
        BY <2>1, <3>1 DEF SameZipInv, Agrees, HasFile, DevFile
      <3> QED BY <2>1, <3>1, <3>2, <3>3, ValuesDistinct DEF SameZipInv, Swapping
    <2> QED BY <1>2, <1>6, <2>1 DEF FreshManifest, End
  <1>7. ASSUME NEW r \in Roots, NEW n \in Names, FreshGenerated(r, n) PROVE SameZipInv'
    <2>1. CASE failed' \/ failed
      BY <1>2, <1>7, <2>1 DEF FreshGenerated, Goes, End, TypeOK
    <2>2. CASE ~failed' /\ ~failed
      <3>1. PICK z \in Exports : next = z /\ manifest = z
        BY <1>7 DEF FreshGenerated, FreshInv, TypeOK
      <3>2. /\ live' = [live EXCEPT ![r] = Put(live[r], n, z.gen[r][n])]
            /\ UNCHANGED <<manifest, next>> /\ pc = "fresh" /\ pc' = "fresh"
        BY <1>7, <2>2, <3>1 DEF FreshGenerated, Goes, End
      <3>3. z.gen[r][n] \in Bytes \cup {NoFile}
        BY <3>1, ZipFacts DEF Bytes
      <3>4. \A q \in Roots, m \in Names : Agrees(z, q, m)
        BY <2>2, <3>1, <3>2 DEF SameZipInv, Swapping
      <3>5. \A q \in Roots, m \in Names : Agrees(z, q, m)'
        BY <3>2, <3>3, <3>4, PutAgrees
      <3> QED BY <3>1, <3>2, <3>5, ValuesDistinct DEF SameZipInv, Swapping
    <2> QED BY <2>1, <2>2
  <1>8. ASSUME NEW p \in Owned, FreshOwned(p) PROVE SameZipInv'
    <2>1. CASE Goes("fresh")
      BY <1>1, <1>8, <2>1 DEF FreshOwned, Goes, Swapping
    <2> QED BY <1>2, <1>8, <2>1 DEF FreshOwned, End
  <1>9. CASE Clean \/ Staged \/ SwapInFails \/ \E n \in Names : StageFile(n)
    BY <1>1, <1>9 DEF Clean, Staged, SwapInFails, StageFile, Goes, Swapping
  <1>10. CASE StageFails \/ MoveAsideFails \/ RollBack
    BY <1>2, <1>10 DEF StageFails, MoveAsideFails, RollBack, End
  <1>11. CASE SkipEmptyRoot \/ DropBackup
    <2>1. /\ Root \in Roots /\ next \in Exports /\ at \in 1..Len(next.roots)
          /\ Len(next.roots) \in Nat
      BY <1>11, RootType, ZipFacts DEF SkipEmptyRoot, DropBackup, Swapping
    <2>2. /\ UNCHANGED <<live, manifest, next, failed>> /\ at' = at + 1
          /\ pc \in Swapping /\ pc' \in Swapping \ {"drop"}
          /\ FilesIn(next, Root) = {} \/ pc = "drop"
      BY <1>11 DEF SkipEmptyRoot, DropBackup, RootDone, Goes, Swapping
    <2>3. ASSUME ~failed, NEW n \in Names PROVE Agrees(next, Root, n)
      <3>1. CASE FilesIn(next, Root) = {}
        <4>1. next.gen[Root][n] # NoFile => <<Root, n>> \in FilesIn(next, Root)
          BY <2>1, <2>3 DEF FilesIn, Files
        <4> QED BY <3>1, <4>1 DEF Agrees
      <3> QED BY <2>2, <2>3, <3>1 DEF SameZipInv
    <2>4. ASSUME ~failed, NEW i \in 1..Len(next.roots), NEW n \in Names, i < at + 1
          PROVE  Agrees(next, next.roots[i], n)
      <3>1. CASE i = at
        BY <2>3, <2>4, <3>1 DEF Root
      <3>2. CASE i < at
        BY <2>2, <2>4, <3>2 DEF SameZipInv
      <3> QED BY <2>1, <2>4, <3>1, <3>2
    <2>5. ~failed /\ manifest = NoManifest =>
            \A r \in Roots, n \in Names : HasFile(r, n) => DevFile(r, n)
      BY DEF SameZipInv
    <2> QED BY <2>2, <2>4, <2>5 DEF SameZipInv, Agrees, HasFile, DevFile, Swapping
  <1>12. CASE MoveAside \/ SwapIn
    <2>1. /\ Root \in Roots /\ next \in Exports /\ at \in 1..Len(next.roots)
          /\ Len(next.roots) \in Nat
          /\ \A i \in 1..Len(next.roots) : next.roots[i] \in Roots
      BY <1>12, RootType, ZipFacts DEF MoveAside, SwapIn, Swapping
    <2>2. /\ UNCHANGED <<manifest, next, at, failed>>
          /\ pc \in Swapping /\ pc' \in {"swapin", "drop"}
          /\ pc' = "drop" => SwapIn
      BY <1>12 DEF MoveAside, SwapIn, Goes, Swapping
    <2>3. manifest \in Exports
      BY <2>2 DEF SwapInv, TypeOK
    <2>4. /\ \A q \in Roots \ {Root} : live'[q] = live[q]
          /\ \/ live'[Root] \in {live[Root], NoDir}
             \/ SwapIn /\ live'[Root] = stage[Root]
      BY <1>12, <2>1 DEF MoveAside, SwapIn, TypeOK
    <2>5. ASSUME SwapIn, NEW n \in Names
          PROVE  live'[Root][n] = next.gen[Root][n] \/ next.gen[Root][n] = NoFile
      <3>1. live'[Root] = stage[Root] /\ pc = "swapin"
        BY <2>1, <2>5 DEF SwapIn, TypeOK
      <3>2. stage[Root] # NoDir /\ pending = {}
        BY <3>1 DEF StageInv, StagedInv
      <3> QED BY <3>1, <3>2 DEF StagedInv, Staging
    <2>6. PICK z \in Exports : z = next
      BY <2>1
    <2>7. PICK rt \in Roots : rt = Root
      BY <2>1
    <2>8. ASSUME SwapIn, NEW n \in Names PROVE Agrees(z, rt, n)'
      BY <2>5, <2>6, <2>7, <2>8 DEF Agrees
    <2>9. ASSUME NEW q \in Roots, NEW n \in Names, Agrees(z, q, n) PROVE Agrees(z, q, n)'
      BY <2>4, <2>7, <2>8, <2>9 DEF Agrees, HasFile
    <2>10. ASSUME ~failed, NEW i \in 1..Len(z.roots), NEW n \in Names, i < at
           PROVE  Agrees(z, z.roots[i], n)'
      BY <2>1, <2>2, <2>6, <2>9, <2>10 DEF SameZipInv
    <2>11. Root' = rt
      BY <2>2, <2>7 DEF Root
    <2>12. pc' \in Swapping /\ pc' # "fresh"
      BY <2>2 DEF Swapping
    <2>13. manifest' # NoManifest
      BY <2>2, <2>3, ValuesDistinct
    <2> QED BY <2>2, <2>6, <2>8, <2>10, <2>11, <2>12, <2>13 DEF SameZipInv
  <1>13. CASE WriteManifest
    <2>1. CASE manifest' = next /\ End("ok") /\ UNCHANGED <<live, next>>
      <3>1. /\ pc = "manifest" /\ pc' = "idle" /\ failed' = failed
            /\ next \in Exports /\ at = Len(next.roots) + 1
        BY <1>13, <2>1 DEF WriteManifest, End, DoneInv, TypeOK
      <3>2. Len(next.roots) \in Nat
        BY <3>1, ZipFacts
      <3>3. ASSUME ~failed, NEW r \in Roots, NEW n \in Names PROVE Agrees(next, r, n)
        <4>1. CASE r \in RangeOf(next.roots)
          <5>1. PICK i \in 1..Len(next.roots) : r = next.roots[i]
            BY <4>1 DEF RangeOf
          <5>2. i < at
            BY <3>1, <3>2
          <5> QED BY <3>1, <3>3, <5>1, <5>2 DEF SameZipInv, Swapping
        <4>2. CASE r \notin RangeOf(next.roots)
          <5>1. next.gen[r] = EmptyDir
            BY <3>1, <4>2, ExportsAssumption
          <5> QED BY <5>1 DEF EmptyDir, Agrees
        <4> QED BY <4>1, <4>2
      <3> QED BY <2>1, <3>1, <3>3, ValuesDistinct DEF SameZipInv, Agrees, HasFile, Swapping
    <2> QED BY <1>2, <1>13, <2>1 DEF WriteManifest, End
  <1>14. CASE Edit
    <2>1. UNCHANGED <<manifest, next, at, pc, failed>>
      BY <1>14 DEF Edit, DevWrite, DevDelete, DevWriteOwned, DevDeleteOwned, Developer
    <2>2. CASE live' = live
      BY <1>1, <2>1, <2>2
    <2>3. ASSUME NEW r \in Roots, NEW n \in Names, NEW x \in DevBytes \cup {NoFile},
                 \/ live' = [live EXCEPT ![r] = Put(live[r], n, x)]
                 \/ live[r] # NoDir /\ x = NoFile /\ live' = [live EXCEPT ![r][n] = NoFile]
          PROVE  SameZipInv'
      <3>1. x \in Bytes \cup {NoFile}
        BY DEF Bytes
      <3>2. ASSUME NEW z \in Exports, NEW q \in Roots, NEW m \in Names, Agrees(z, q, m)
            PROVE  Agrees(z, q, m)'
        BY <2>3, <3>1, <3>2, PutAgrees
      <3>3. ASSUME NEW q \in Roots, NEW m \in Names, HasFile(q, m) => DevFile(q, m)
            PROVE  (HasFile(q, m) => DevFile(q, m))'
        <4>1. HasFile(q, m)' => \/ q = r /\ m = n /\ live'[q][m] = x
                                \/ HasFile(q, m) /\ live'[q][m] = live[q][m]
          BY <2>3, <3>1, PutFiles
        <4> QED BY <3>3, <4>1 DEF HasFile, DevFile
      <3>4. ASSUME ~failed, manifest \in Exports, pc \notin Swapping,
                   NEW q \in Roots, NEW m \in Names
            PROVE  Agrees(manifest, q, m)'
        <4>1. PICK z \in Exports : z = manifest
          BY <3>4
        <4>2. Agrees(z, q, m)
          BY <3>4, <4>1 DEF SameZipInv
        <4>3. Agrees(z, q, m)'
          BY <3>2, <4>2
        <4>4. z = manifest'
          BY <2>1, <4>1
        <4> QED BY <4>3, <4>4
      <3>5. ASSUME ~failed, pc \in Swapping
            PROVE  /\ pc = "drop" => \A m \in Names : Agrees(next, Root, m)'
                   /\ \A i \in 1..Len(next.roots), m \in Names :
                        i < at => Agrees(next, next.roots[i], m)'
        <4>1. PICK z \in Exports : z = next
          BY <3>5 DEF TypeOK, Swapping
        <4>2. \A i \in 1..Len(z.roots) : z.roots[i] \in Roots
          BY ZipFacts
        <4>3. z = next'
          BY <2>1, <4>1
        <4>4. ASSUME pc = "drop", NEW m \in Names PROVE Agrees(next, Root, m)'
          <5>1. PICK rt \in Roots : rt = Root
            BY <4>4, RootType DEF Swapping
          <5>2. Agrees(z, rt, m)
            BY <3>5, <4>1, <4>4, <5>1 DEF SameZipInv
          <5>3. Agrees(z, rt, m)'
            BY <3>2, <5>2
          <5>4. rt = Root'
            BY <2>1, <5>1 DEF Root
          <5> QED BY <4>3, <5>3, <5>4
        <4>5. ASSUME NEW i \in 1..Len(z.roots), NEW m \in Names, i < at
              PROVE  Agrees(z, z.roots[i], m)'
          <5>1. Agrees(z, z.roots[i], m)
            BY <3>5, <4>1, <4>5 DEF SameZipInv
          <5> QED BY <3>2, <4>2, <5>1
        <4> QED BY <4>1, <4>3, <4>4, <4>5
      <3>6. ASSUME ~failed, manifest = NoManifest
            PROVE  \A q \in Roots, m \in Names : (HasFile(q, m) => DevFile(q, m))'
        BY <3>3, <3>6 DEF SameZipInv
      <3>8. SUFFICES ASSUME ~failed'
                     PROVE  (/\ manifest = NoManifest =>
                                  \A q \in Roots, m \in Names : HasFile(q, m) => DevFile(q, m)
                             /\ manifest \in Exports /\ pc \notin Swapping =>
                                  \A q \in Roots, m \in Names : Agrees(manifest, q, m)
                             /\ pc = "drop" => \A m \in Names : Agrees(next, Root, m)
                             /\ pc \in Swapping =>
                                  \A i \in 1..Len(next.roots), m \in Names :
                                    i < at => Agrees(next, next.roots[i], m))'
        BY DEF SameZipInv
      <3>9. ~failed
        BY <2>1, <3>8
      <3>10. (pc = "drop" => \A m \in Names : Agrees(next, Root, m))'
        BY <2>1, <3>5, <3>9 DEF Swapping
      <3>11. (pc \in Swapping =>
                \A i \in 1..Len(next.roots), m \in Names :
                  i < at => Agrees(next, next.roots[i], m))'
        BY <2>1, <3>5, <3>9
      <3> QED BY <2>1, <3>4, <3>6, <3>9, <3>10, <3>11
    <2> QED BY <1>14, <2>2, <2>3, EditIsPut
  <1>15. CASE UNCHANGED vars
    BY <1>1, <1>15
  <1> QED BY <1>3, <1>4, <1>5, <1>6, <1>7, <1>8, <1>9, <1>10, <1>11, <1>12, <1>13, <1>14, <1>15
          DEF Next, Apply

-----------------------------------------------------------------------------
(* The inductive invariant, and what follows from it. *)

(* The strengthening behind every property below, for all parameters.      *)
THEOREM IndInvariant == Spec => []IndInv
  <1>1. Init => IndInv
    <2> SUFFICES ASSUME Init PROVE IndInv
      OBVIOUS
    <2>1. TypeOK
      BY TypeInit
    <2>2. FreshInv /\ CheckedInv /\ DoneInv
      BY DEF Init, FreshInv, CheckedInv, DoneInv, Swapping
    <2>3. StageInv /\ CopyInv
      BY DEF Init, StageInv, CopyInv
    <2>4. SwapInv /\ StagedInv
      BY DEF Init, SwapInv, StagedInv, Swapping
    <2>5. SameZipInv
      BY ValuesDistinct DEF Init, SameZipInv, Swapping, HasFile
    <2> QED BY <2>1, <2>2, <2>3, <2>4, <2>5 DEF IndInv
  <1>2. IndInv /\ [Next]_vars => IndInv'
    BY TypeStep, FreshStep, StageStep, CheckedStep, CopyStep, DoneStep, SwapStep,
       StagedStep, SameZipStep DEF IndInv
  <1> QED BY <1>1, <1>2, PTL DEF Spec

(* The steps of a re-apply that change the live tree. *)
LEMMA LiveChanges ==
  ASSUME TypeOK, [Next]_vars, edits' = edits
  PROVE  \/ live' = live
         \/ pc = "fresh"
         \/ pc \in {"aside", "swapin", "rollback"} /\ Root \in Roots
            /\ \A q \in Roots \ {Root} : live'[q] = live[q]
  <1> USE DEF vars, disk, task, history, RestOfSwap
  <1>1. CASE MoveAside \/ SwapIn \/ RollBack
    <2>1. pc \in {"aside", "swapin", "rollback"} /\ Root \in Roots
      BY <1>1, RootType DEF MoveAside, SwapIn, RollBack, Swapping
    <2> QED BY <1>1, <2>1 DEF MoveAside, SwapIn, RollBack, TypeOK
  <1>2. CASE Edit
    BY <1>2 DEF Edit, DevWrite, DevDelete, DevWriteOwned, DevDeleteOwned, Developer, TypeOK
  <1>3. CASE \E z \in Exports, f \in BOOLEAN :
               BeginFresh(z, f) \/ BeginRefused(z, f) \/ BeginReapply(z, f)
    BY <1>3 DEF BeginFresh, BeginRefused, BeginReapply, Begin
  <1>4. CASE \/ StopUnexpected \/ StopEdited \/ Proceed \/ FreshManifest \/ FreshDone
             \/ WriteManifest \/ Crash
    BY <1>4 DEF StopUnexpected, StopEdited, Stop, Proceed, FreshManifest, FreshDone,
                WriteManifest, Crash
  <1>5. CASE \/ \E r \in Roots, n \in Names : FreshGenerated(r, n)
             \/ \E p \in Owned : FreshOwned(p)
    BY <1>5 DEF FreshGenerated, FreshOwned
  <1>6. CASE \/ Clean \/ StageFails \/ SkipEmptyRoot \/ Staged \/ MoveAsideFails \/ SwapInFails
             \/ DropBackup \/ \E n \in Names : StageFile(n)
    BY <1>6 DEF Clean, StageFails, SkipEmptyRoot, Staged, MoveAsideFails, SwapInFails, DropBackup,
                StageFile
  <1> QED BY <1>1, <1>2, <1>3, <1>4, <1>5, <1>6 DEF Next, Apply

(* An apply that was not forced loses no file of the developer's in a root *)
(* the previous manifest names, after any history of failed applies.       *)
THEOREM UnforcedLosesNothing == Spec => NoSilentLoss
  <1>1. ASSUME IndInv, [Next]_vars,
               NEW r \in Roots, NEW n \in Names,
               Taken(r, n), ByTheApply, ~env.concurrent, ~force, prev # NoManifest
        PROVE  prev \in Exports /\ r \notin RangeOf(prev.roots)
    <2>1. TypeOK /\ FreshInv /\ CheckedInv /\ DevFile(r, n) /\ edits' = edits
      BY <1>1 DEF IndInv, Taken, ByTheApply
    <2>2. live'[r] # live[r]
      BY <1>1 DEF Taken, HasFile, DevFile
    <2>3. pc # "fresh"
      BY <1>1, <2>1 DEF FreshInv
    <2>4. pc \in {"aside", "swapin", "rollback"}
      BY <1>1, <2>1, <2>2, <2>3, LiveChanges
    <2>5. prev \in Exports
      BY <2>1, <2>4 DEF TypeOK, Swapping
    <2> QED BY <1>1, <2>1, <2>4, <2>5 DEF CheckedInv, Swapping
  <1>2. IndInv /\ [Next]_vars =>
          [\A r \in Roots, n \in Names :
             Taken(r, n) /\ ByTheApply /\ ~env.concurrent =>
               \/ force \/ prev = NoManifest
               \/ prev \in Exports /\ r \notin RangeOf(prev.roots)]_vars
    BY <1>1
  <1> QED BY <1>2, IndInvariant, PTL DEF Spec, NoSilentLoss

(* The tree a re-apply puts under a live name is the zip's, complete, even *)
(* while the developer edits.                                              *)
THEOREM OnlyWholeTrees == Spec => WholeTreeGoesLive
  <1>1. ASSUME IndInv, [Next]_vars, NEW r \in Roots,
               pc = "swapin", live'[r] # live[r], ByTheApply, ~May("remove")
        PROVE  live'[r] = next.gen[r]
    <2>1. TypeOK /\ StageInv /\ edits' = edits
      BY <1>1 DEF IndInv, ByTheApply
    <2>2. r = Root /\ Root \in Roots
      BY <1>1, <2>1, LiveChanges
    <2>3. stage[Root] = next.gen[Root]
      BY <1>1, <2>1 DEF StageInv
    <2>4. live' = live \/ live' = [live EXCEPT ![Root] = stage[Root]]
      BY <1>1, <2>1 DEF Next, Apply, Edit, vars, disk, task, history, RestOfSwap,
           BeginFresh, BeginRefused, BeginReapply, Begin, StopUnexpected, StopEdited, Proceed,
           FreshManifest, FreshDone, FreshGenerated, FreshOwned, StageFile, Clean, StageFails,
           SkipEmptyRoot, Staged, MoveAside, MoveAsideFails, SwapIn, SwapInFails, RollBack,
           DropBackup, WriteManifest, Crash, Stop, DevWrite, DevDelete, DevWriteOwned,
           DevDeleteOwned, Developer, TypeOK
    <2> QED BY <1>1, <2>1, <2>2, <2>3, <2>4 DEF TypeOK
  <1>2. IndInv /\ [Next]_vars =>
          [\A r \in Roots :
             pc = "swapin" /\ live'[r] # live[r] /\ ByTheApply /\ ~May("remove") =>
               live'[r] = next.gen[r]]_vars
    BY <1>1
  <1> QED BY <1>2, IndInvariant, PTL DEF Spec, WholeTreeGoesLive

(* Koolbase writes a developer-owned file at most once.                    *)
THEOREM OwnedOnlyOnce == Spec => OwnedWrittenOnce
  <1>1. ASSUME IndInv, [Next]_vars, NEW p \in written, owned'[p] # owned[p]
        PROVE  edits' # edits
    <2> USE DEF vars, disk, task, history, RestOfSwap
    <2>1. CASE \E q \in Owned : FreshOwned(q)
      <3>1. PICK q \in Owned : FreshOwned(q)
        BY <2>1
      <3>2. q \notin written
        BY <1>1, <3>1 DEF IndInv, FreshInv, FreshOwned
      <3> QED BY <1>1, <3>1, <3>2 DEF IndInv, TypeOK, FreshOwned
    <2>2. CASE Edit
      BY <1>1, <2>2 DEF Edit, DevWrite, DevDelete, DevWriteOwned, DevDeleteOwned, Developer,
                        IndInv, TypeOK
    <2>3. CASE owned' = owned
      BY <1>1, <2>3
    <2> QED BY <1>1, <2>1, <2>2, <2>3 DEF Next, Apply,
           BeginFresh, BeginRefused, BeginReapply, Begin, StopUnexpected, StopEdited, Proceed,
           FreshManifest, FreshDone, FreshGenerated, StageFile, Clean, StageFails,
           SkipEmptyRoot, Staged, MoveAside, MoveAsideFails, SwapIn, SwapInFails, RollBack,
           DropBackup, WriteManifest, Crash, Stop
  <1>2. IndInv /\ [Next]_vars =>
          [\A p \in written : owned'[p] # owned[p] => edits' # edits]_vars
    BY <1>1
  <1> QED BY <1>2, IndInvariant, PTL DEF Spec, OwnedWrittenOnce

(* Only the clean-up of an apply that follows a failed one can remove the  *)
(* last copy of a generated root.                                          *)
THEOREM LastCopyKept == Spec => LastCopySurvives
  <1>1. ASSUME IndInv, [Next]_vars, NEW r \in Roots, OnDisk(r), ~OnDisk(r)'
        PROVE  pc = "clean" /\ failed /\ r = Root
    <2> USE DEF vars, disk, task, history, RestOfSwap
    <2>1. TypeOK /\ StageInv /\ CopyInv
      BY <1>1 DEF IndInv
    <2>2. CASE UNCHANGED backup /\ \A q \in Roots : live[q] # NoDir => live'[q] # NoDir
      BY <1>1, <2>2 DEF OnDisk
    <2>3. CASE Clean
      <3>1. Root \in Roots /\ backup' \in Cleared(backup, Root) /\ live' = live /\ pc = "clean"
        BY <2>1, <2>3, RootType DEF Clean, Swapping
      <3>2. \A q \in Roots : backup'[q] = backup[q] \/ (q = Root /\ backup'[q] = NoDir)
        BY <2>1, <3>1, ClearedType DEF TypeOK
      <3>3. r = Root /\ backup[r] # NoDir /\ live[r] = NoDir
        BY <1>1, <3>1, <3>2 DEF OnDisk
      <3> QED BY <2>1, <3>1, <3>3 DEF CopyInv
    <2>4. CASE DropBackup
      <3>1. Root \in Roots /\ backup' \in Cleared(backup, Root) /\ live' = live /\ pc = "drop"
        BY <2>1, <2>4, RootType DEF DropBackup, Swapping
      <3>2. \A q \in Roots : backup'[q] = backup[q] \/ (q = Root /\ backup'[q] = NoDir)
        BY <2>1, <3>1, ClearedType DEF TypeOK
      <3> QED BY <1>1, <2>1, <3>1, <3>2 DEF CopyInv, OnDisk
    <2>5. CASE MoveAside \/ SwapIn \/ RollBack
      <3>1. Root \in Roots
        BY <2>1, <2>5, RootType DEF MoveAside, SwapIn, RollBack, Swapping
      <3> QED BY <1>1, <2>1, <2>5, <3>1 DEF MoveAside, SwapIn, RollBack, OnDisk, TypeOK, StageInv
    <2>6. CASE Edit
      <3>1. UNCHANGED backup
        BY <2>6 DEF Edit, DevWrite, DevDelete, DevWriteOwned, DevDeleteOwned, Developer
      <3> QED BY <2>1, <2>2, <2>6, <3>1, EditKeepsDirs
    <2>7. CASE \E q \in Roots, n \in Names : FreshGenerated(q, n)
      <3>1. UNCHANGED backup
        BY <2>7 DEF FreshGenerated
      <3> QED BY <2>1, <2>2, <2>7, <3>1, EditKeepsDirs
    <2>8. CASE UNCHANGED <<live, backup>>
      BY <2>2, <2>8
    <2> QED BY <1>1, <2>3, <2>4, <2>5, <2>6, <2>7, <2>8 DEF Next, Apply,
           BeginFresh, BeginRefused, BeginReapply, Begin, StopUnexpected, StopEdited, Proceed,
           FreshManifest, FreshDone, FreshOwned, StageFile, StageFails, SkipEmptyRoot, Staged,
           MoveAsideFails, SwapInFails, WriteManifest, Crash, Stop
  <1>2. IndInv /\ [Next]_vars =>
          [\A r \in Roots : OnDisk(r) /\ ~OnDisk(r)' => pc = "clean" /\ failed /\ r = Root]_vars
    BY <1>1
  <1> QED BY <1>2, IndInvariant, PTL DEF Spec, LastCopySurvives

(* A re-apply that reports success has put every root of the zip in place. *)
THEOREM SuccessIsComplete == Spec => AppliedExactly
  <1> DEFINE Exactly ==
        /\ manifest' = next
        /\ \A r \in Roots :
             FilesIn(next, r) # {} /\ r \in RangeOf(next.roots) => live'[r] = next.gen[r]
  <1>1. ASSUME IndInv, Next, pc # "idle", result' = "ok", prev # NoManifest, Undisturbed
        PROVE  Exactly
    <2>1. TypeOK /\ FreshInv /\ DoneInv
      BY <1>1 DEF IndInv
    <2>2. CASE WriteManifest
      <3>1. manifest' = next /\ live' = live /\ pc = "manifest"
        BY <1>1, <2>2 DEF WriteManifest, End
      <3>2. Len(next.roots) \in Nat
        BY <2>1, <3>1, ZipFacts DEF TypeOK
      <3>3. ASSUME NEW i \in 1..Len(next.roots), FilesIn(next, next.roots[i]) # {}
            PROVE  live[next.roots[i]] = next.gen[next.roots[i]]
        <4>1. i < at
          BY <2>1, <3>1, <3>2 DEF DoneInv
        <4> QED BY <1>1, <2>1, <3>1, <3>3, <4>1 DEF DoneInv, Swapping
      <3> QED BY <3>1, <3>3 DEF RangeOf
    <2>3. CASE FreshDone
      BY <1>1, <2>1, <2>3 DEF FreshDone, FreshInv
    <2>4. CASE Edit
      BY <1>1, <2>4 DEF Edit, DevWrite, DevDelete, DevWriteOwned, DevDeleteOwned, Developer,
                        Undisturbed
    <2>5. CASE pc = "idle" \/ result' # "ok"
      BY <1>1, <2>5
    <2> QED BY <1>1, <2>2, <2>3, <2>4, <2>5 DEF Next, Apply, Goes, End, RootDone,
           BeginFresh, BeginRefused, BeginReapply, Begin, StopUnexpected, StopEdited, Stop, Proceed,
           FreshManifest, FreshGenerated, FreshOwned, StageFile, Clean, StageFails,
           SkipEmptyRoot, Staged, MoveAside, MoveAsideFails, SwapIn, SwapInFails, RollBack,
           DropBackup, Crash
  <1>2. IndInv /\ [Next]_vars =>
          [pc # "idle" /\ result' = "ok" /\ prev # NoManifest /\ Undisturbed => Exactly]_vars
    BY <1>1
  <1> QED BY <1>2, IndInvariant, PTL DEF Spec, AppliedExactly

(* What an apply stops for as edited by hand is the developer's, as long   *)
(* as no apply has failed.                                                 *)
THEOREM StopsForEditsOnly == Spec => EditedByHand
  <1>1. ASSUME IndInv, [Next]_vars, result' = "edited", result # "edited", ~failed,
               NEW f \in named'
        PROVE  DevFile(f[1], f[2])
    <2> USE DEF vars, disk, task, history, RestOfSwap
    <2>1. StopEdited
      BY <1>1 DEF Next, Apply, Edit, Goes, End, RootDone,
           BeginFresh, BeginRefused, BeginReapply, Begin, StopUnexpected, Stop, Proceed,
           FreshManifest, FreshGenerated, FreshOwned, FreshDone, StageFile, Clean, StageFails,
           SkipEmptyRoot, Staged, MoveAside, MoveAsideFails, SwapIn, SwapInFails, RollBack,
           DropBackup, WriteManifest, Crash, DevWrite, DevDelete, DevWriteOwned,
           DevDeleteOwned, Developer
    <2>2. f \in Edited /\ pc = "check"
      BY <1>1, <2>1 DEF StopEdited, Stop
    <2>3. prev \in Exports /\ manifest = prev
      BY <1>1, <2>2 DEF IndInv, TypeOK, SwapInv
    <2>4. /\ f \in Roots \X Names /\ prev.gen[f[1]][f[2]] # NoFile
          /\ HasFile(f[1], f[2]) /\ live[f[1]][f[2]] # prev.gen[f[1]][f[2]]
      BY <2>2 DEF Edited, Files
    <2>5. Agrees(prev, f[1], f[2])
      BY <1>1, <2>2, <2>3, <2>4 DEF IndInv, SameZipInv, Swapping
    <2> QED BY <2>4, <2>5 DEF Agrees, DevFile
  <1>2. IndInv /\ [Next]_vars =>
          [result' = "edited" /\ result # "edited" /\ ~failed =>
             \A f \in named' : DevFile(f[1], f[2])]_vars
    BY <1>1
  <1> QED BY <1>2, IndInvariant, PTL DEF Spec, EditedByHand

-----------------------------------------------------------------------------
(* The refinement: in a tame environment every step is a step of the       *)
(* contract or leaves what it sees unchanged.                              *)

(* A file put into a root is put into what is seen of it.                  *)
LEMMA OneFileSeen ==
  ASSUME IndInv, Tame, backup' = backup, pc \notin {"swapin", "rollback"},
         NEW r \in Roots, NEW n \in Names, NEW x \in Bytes \cup {NoFile},
         \/ live' = [live EXCEPT ![r] = Put(live[r], n, x)]
         \/ live[r] # NoDir /\ x = NoFile /\ live' = [live EXCEPT ![r][n] = NoFile]
  PROVE  Visible' = [Visible EXCEPT ![r] = Contract!WithFile(Visible[r], n, x)]
  <1>1. TypeOK
    BY DEF IndInv
  <1>2. \A q \in Roots : live[q] = NoDir => backup[q] = NoDir
    BY DEF IndInv, SwapInv
  <1>3. Visible = live
    BY <1>1, <1>2 DEF Visible, TypeOK
  <1>4. live' = [live EXCEPT ![r] = Put(live[r], n, x)]
    <2>1. CASE live[r] # NoDir /\ x = NoFile /\ live' = [live EXCEPT ![r][n] = NoFile]
      BY <2>1 DEF Put
    <2> QED BY <2>1
  <1>5. \A q \in Roots : live'[q] = NoDir => live[q] = NoDir
    <2>1. Put(live[r], n, x) # NoDir
      BY <1>1, PutType, ValuesDistinct DEF TypeOK
    <2> QED BY <1>1, <1>4, <2>1 DEF TypeOK
  <1>6. Visible' = live'
    <2>1. live' = [q \in Roots |-> live'[q]]
      BY <1>1, <1>4 DEF TypeOK
    <2>2. \A q \in Roots : live'[q] = NoDir => backup'[q] = NoDir
      BY <1>2, <1>5
    <2> QED BY <1>1, <1>2, <1>5, <2>1, <2>2 DEF Visible
  <1> QED BY <1>3, <1>4, <1>6 DEF Contract!WithFile, Contract!Nothing, Put, EmptyDir

(* Moving a directory aside or back, or clearing one nobody sees, changes  *)
(* nothing that is seen.                                                   *)
LEMMA SameSeen ==
  ASSUME IndInv, Tame, [Next]_vars,
         MoveAside \/ RollBack \/ Clean \/ DropBackup
  PROVE  Visible' = Visible /\ manifest' = manifest
  <1>1. /\ TypeOK /\ Root \in Roots /\ pc \in {"aside", "rollback", "clean", "drop"}
        /\ manifest' = manifest
    BY RootType DEF IndInv, MoveAside, RollBack, Clean, DropBackup, Swapping, RestOfSwap
  <1>2. /\ pc # "rollback" => \A q \in Roots : live[q] = NoDir => backup[q] = NoDir
        /\ pc = "drop" => live[Root] # NoDir
    BY <1>1 DEF IndInv, SwapInv, CopyInv
  <1>3. \A q \in Roots \ {Root} : live'[q] = live[q] /\ backup'[q] = backup[q]
    <2>1. CASE MoveAside \/ RollBack
      BY <1>1, <2>1 DEF MoveAside, RollBack, TypeOK
    <2>2. CASE Clean \/ DropBackup
      <3>1. live' = live /\ backup' \in Cleared(backup, Root)
        BY <2>2 DEF Clean, DropBackup
      <3> QED BY <1>1, <3>1, ClearedType DEF TypeOK
    <2> QED BY <2>1, <2>2
  <1>4. (IF live'[Root] # NoDir THEN live'[Root] ELSE backup'[Root])
          = (IF live[Root] # NoDir THEN live[Root] ELSE backup[Root])
    <2>1. CASE MoveAside
      BY <1>1, <1>2, <2>1 DEF MoveAside, TypeOK
    <2>2. CASE RollBack
      BY <1>1, <2>2 DEF RollBack, TypeOK
    <2>3. CASE Clean \/ DropBackup
      <3>1. /\ live' = live /\ backup' \in Cleared(backup, Root)
            /\ backup[Root] = NoDir \/ live[Root] # NoDir
        BY <1>1, <1>2, <2>3 DEF Clean, DropBackup
      <3>2. backup'[Root] = backup[Root] \/ backup'[Root] = NoDir
        BY <1>1, <3>1, ClearedType DEF TypeOK
      <3> QED BY <3>1, <3>2
    <2> QED BY <2>1, <2>2, <2>3
  <1> QED BY <1>1, <1>3, <1>4 DEF Visible

(* The second rename is the contract's swap.                               *)
LEMMA SwapSeen ==
  ASSUME IndInv, Tame, SwapIn
  PROVE  \E z \in Exports, r \in Roots : Contract!Swap(z, r)
  <1>1. /\ TypeOK /\ Root \in Roots /\ next \in Exports /\ pc = "swapin"
        /\ at \in 1..Len(next.roots) /\ env' = env /\ manifest' = manifest
        /\ backup' = backup /\ pc' = "drop"
    BY RootType DEF IndInv, SwapIn, Swapping, RestOfSwap, history, Goes
  <1>2. Tame /\ Tame' /\ ~May("remove") /\ Phase = "again" /\ Phase' = "again"
    BY <1>1 DEF Tame, May, Phase
  <1>3. manifest \in Exports /\ manifest.doc = next.doc
    BY <1>1 DEF IndInv, SwapInv, TypeOK, Swapping
  <1>4. Contract!Lists(next, Root)
    BY <1>1 DEF Contract!Lists, Root
  <1>5. next.gen[Root] # Contract!Nothing
    <2>1. PICK f \in FilesIn(next, Root) : TRUE
      BY <1>1 DEF IndInv, SwapInv
    <2>2. f[2] \in Names /\ next.gen[Root][f[2]] # NoFile
      BY <2>1 DEF FilesIn, Files
    <2> QED BY <2>2 DEF Contract!Nothing
  <1>6. live'[Root] = next.gen[Root] /\ \A q \in Roots \ {Root} : live'[q] = live[q]
    BY <1>1, <1>2 DEF SwapIn, TypeOK, IndInv, StageInv
  <1>7. next.gen[Root] # NoDir
    BY <1>1, ZipFacts, ValuesDistinct
  <1>8. Visible' = [Visible EXCEPT ![Root] = next.gen[Root]]
    BY <1>1, <1>6, <1>7 DEF Visible
  <1> QED BY <1>1, <1>2, <1>3, <1>4, <1>5, <1>8 DEF Contract!Swap

(* The manifest advances when every root of the zip is in place.           *)
LEMMA RecordSeen ==
  ASSUME IndInv, Tame, WriteManifest, manifest' = next
  PROVE  \E z \in Exports : Contract!Record(z)
  <1>1. /\ TypeOK /\ next \in Exports /\ pc = "manifest" /\ env' = env
        /\ UNCHANGED <<live, backup>>
    BY DEF IndInv, TypeOK, WriteManifest, history
  <1>5. pc' = "idle"
    BY ValuesDistinct DEF IndInv, SwapInv, TypeOK, WriteManifest, End, Swapping
  <1>2. /\ Tame /\ Tame' /\ Undisturbed /\ Visible' = Visible
        /\ Phase = "again" /\ Phase' = "idle"
    BY <1>1, <1>5 DEF Tame, May, Undisturbed, Visible, Phase
  <1>3. manifest \in Exports /\ manifest.doc = next.doc
    BY <1>1 DEF IndInv, SwapInv, TypeOK, Swapping
  <1>4. ASSUME NEW r \in Roots, next.gen[r] # Contract!Nothing
        PROVE  Visible[r] = next.gen[r]
    <2>1. next.gen[r] # EmptyDir /\ next.gen[r] \in Dir
      BY <1>1, <1>4, ZipFacts DEF Contract!Nothing, EmptyDir
    <2>2. r \in RangeOf(next.roots)
      BY <1>1, <2>1, ExportsAssumption
    <2>3. PICK i \in 1..Len(next.roots) : r = next.roots[i]
      BY <2>2 DEF RangeOf
    <2>4. i < at
      BY <1>1, <2>3, ZipFacts DEF IndInv, DoneInv
    <2>5. PICK n \in Names : next.gen[r][n] # NoFile
      BY <2>1 DEF Dir, EmptyDir
    <2>6. <<r, n>> \in FilesIn(next, r)
      BY <2>5 DEF FilesIn, Files
    <2>7. live[r] = next.gen[r]
      BY <1>1, <1>2, <2>3, <2>4, <2>6 DEF IndInv, DoneInv, Swapping
    <2> QED BY <2>1, <2>7, ValuesDistinct DEF Visible
  <1> QED BY <1>1, <1>2, <1>3, <1>4 DEF Contract!Record, Contract!InPlace

LEMMA ContractInit == Init => Contract!Init
  <1> SUFFICES ASSUME Init PROVE Contract!Init
    OBVIOUS
  <1>1. Visible = [r \in Roots |-> NoDir] /\ Phase = "idle"
    BY DEF Init, Visible, Phase
  <1> QED BY <1>1 DEF Init, Contract!Init

(* An apply begins as a first one or a later one, and ends.                *)
LEMMA PhaseStep ==
  ASSUME TypeOK, [Next]_vars
  PROVE  \/ Phase' = Phase
         \/ Phase # "idle" /\ Phase' = "idle"
         \/ Phase = "idle" /\ Phase' = IF manifest = NoManifest THEN "first" ELSE "again"
  <1> USE DEF Phase
  <1>1. ASSUME NEW z \in Exports, NEW f \in BOOLEAN,
               BeginFresh(z, f) \/ BeginRefused(z, f) \/ BeginReapply(z, f)
        PROVE  Phase' = Phase \/ (Phase = "idle" /\ Phase' = IF manifest = NoManifest
                                                           THEN "first" ELSE "again")
    BY <1>1, ValuesDistinct DEF BeginFresh, BeginRefused, BeginReapply, Begin, Goes, End
  <1>2. CASE StopUnexpected \/ StopEdited \/ Proceed \/ FreshDone \/ Crash
    BY <1>2 DEF StopUnexpected, StopEdited, Proceed, FreshDone, Crash, Stop, Goes, End
  <1>3. CASE FreshManifest \/ WriteManifest
    BY <1>3 DEF FreshManifest, WriteManifest, Goes, End
  <1>4. CASE \/ \E r \in Roots, n \in Names : FreshGenerated(r, n)
             \/ \E p \in Owned : FreshOwned(p)
    BY <1>4 DEF FreshGenerated, FreshOwned, Goes, End
  <1>5. CASE Clean \/ StageFails \/ SkipEmptyRoot \/ Staged \/ \E n \in Names : StageFile(n)
    BY <1>5 DEF Clean, StageFails, SkipEmptyRoot, Staged, StageFile, RootDone, Goes, End
  <1>6. CASE MoveAside \/ MoveAsideFails \/ SwapIn \/ SwapInFails \/ RollBack \/ DropBackup
    BY <1>6 DEF MoveAside, MoveAsideFails, SwapIn, SwapInFails, RollBack, DropBackup,
                RootDone, Goes, End
  <1>7. CASE Edit \/ UNCHANGED vars
    BY <1>7 DEF Edit, DevWrite, DevDelete, DevWriteOwned, DevDeleteOwned, Developer, vars
  <1> QED BY <1>1, <1>2, <1>3, <1>4, <1>5, <1>6, <1>7 DEF Next, Apply

LEMMA ContractStep ==
  IndInv /\ [Next]_vars => [Contract!Next]_(Contract!cvars)
  <1> SUFFICES ASSUME IndInv, [Next]_vars PROVE [Contract!Next]_(Contract!cvars)
    OBVIOUS
  <1>1. TypeOK /\ env' = env
    BY DEF IndInv, vars, disk, task, history, RestOfSwap, Next, Apply, Edit, Begin,
       BeginFresh, BeginRefused, BeginReapply, StopUnexpected, StopEdited, Stop, Proceed,
       FreshManifest, FreshGenerated, FreshOwned, FreshDone, StageFile, Clean, StageFails,
       SkipEmptyRoot, Staged, MoveAside, MoveAsideFails, SwapIn, SwapInFails, RollBack,
       DropBackup, WriteManifest, Crash, DevWrite, DevDelete, DevWriteOwned,
       DevDeleteOwned, Developer
  <1>2. CASE ~Tame
    BY <1>1, <1>2 DEF Tame, Contract!cvars
  <1>3. CASE Tame
    <2>1. Tame'
      BY <1>1, <1>3 DEF Tame
    <2> SUFFICES ASSUME ~UNCHANGED vars PROVE [Contract!Next]_(Contract!cvars)
      BY <1>3, <2>1 DEF vars, disk, Visible, Phase, Contract!cvars
    <2>2. CASE Visible' = Visible /\ manifest' = manifest
      <3>1. CASE Phase' = Phase
        BY <1>3, <2>1, <2>2, <3>1 DEF Contract!cvars
      <3>2. CASE Phase # "idle" /\ Phase' = "idle"
        BY <1>3, <2>1, <2>2, <3>2 DEF Contract!Next, Contract!End
      <3>3. CASE Phase = "idle" /\ Phase' = IF manifest = NoManifest THEN "first" ELSE "again"
        BY <1>3, <2>1, <2>2, <3>3 DEF Contract!Next, Contract!Start
      <3> QED BY <1>1, <3>1, <3>2, <3>3, PhaseStep
    <2>3. CASE UNCHANGED <<live, backup, manifest>>
      BY <2>2, <2>3 DEF Visible
    <2>4. CASE MoveAside \/ RollBack \/ Clean \/ DropBackup
      BY <1>3, <2>2, <2>4, SameSeen
    <2>5. CASE SwapIn
      BY <1>3, <2>5, SwapSeen DEF Contract!Next
    <2>6. CASE WriteManifest
      <3>1. CASE manifest' = next
        BY <1>3, <2>6, <3>1, RecordSeen DEF Contract!Next
      <3>2. UNCHANGED <<live, backup>> /\ pc = "manifest" /\ pc' = "idle"
        BY <2>6 DEF WriteManifest, End
      <3>3. CASE manifest' = manifest
        BY <2>3, <3>2, <3>3
      <3>4. CASE manifest' = Torn
        BY <1>3, <2>1, <3>2, <3>4 DEF Visible, Phase, Contract!Next, Contract!TearManifest
      <3> QED BY <2>6, <3>1, <3>3, <3>4 DEF WriteManifest
    <2>7. CASE FreshManifest
      <3>1. /\ manifest = NoManifest /\ next \in Exports /\ UNCHANGED <<live, backup>>
            /\ pc = "freshmanifest"
        BY <1>1, <2>7 DEF FreshManifest, IndInv, FreshInv, TypeOK
      <3>2. Visible' = Visible
        BY <3>1 DEF Visible
      <3>3. CASE manifest' = next /\ Goes("fresh")
        BY <1>3, <2>1, <3>1, <3>2, <3>3 DEF Contract!Next, Contract!First, Phase, Goes
      <3>4. CASE manifest' = manifest
        BY <2>2, <3>2, <3>4
      <3>5. CASE manifest' = Torn /\ End("error")
        BY <1>3, <2>1, <3>1, <3>2, <3>5 DEF Contract!Next, Contract!TearManifest, Phase, End
      <3> QED BY <2>7, <3>3, <3>4, <3>5 DEF FreshManifest
    <2>8. ASSUME NEW r \in Roots, NEW n \in Names, FreshGenerated(r, n)
          PROVE  [Contract!Next]_(Contract!cvars)
      <3>1. /\ UNCHANGED <<manifest, backup>> /\ pc = "fresh" /\ next \in Exports
            /\ manifest = next
        BY <1>1, <2>8 DEF FreshGenerated, TypeOK, IndInv, FreshInv
      <3>2. next.gen[r][n] # NoFile /\ next.gen[r][n] \in KBytes \cup {NoFile}
        <4>1. <<r, n>> \in Files(next) \cup Owned /\ <<r, n>> \notin Owned
          BY <2>8, ValuesDistinct DEF FreshGenerated, IndInv, FreshInv
        <4> QED BY <3>1, <4>1, ZipFacts DEF Files
      <3>3. CASE live' = live
        BY <2>3, <3>1, <3>3
      <3>4. CASE live' = [live EXCEPT ![r] = Put(live[r], n, next.gen[r][n])] /\ Goes("fresh")
        <4>1. Visible' = [Visible EXCEPT ![r] = Contract!WithFile(Visible[r], n, next.gen[r][n])]
          BY <1>3, <3>1, <3>2, <3>4, OneFileSeen DEF Bytes
        <4>2. Phase = "first" /\ Phase' = "first"
          BY <3>1, <3>4 DEF Phase, Goes
        <4>3. Contract!WriteFirst(r, n)
          BY <1>3, <2>1, <3>1, <3>2, <4>1, <4>2 DEF Contract!WriteFirst
        <4> QED BY <4>3 DEF Contract!Next
      <3>5. CASE live' = [live EXCEPT ![r] = Put(live[r], n, Torn)] /\ End("error")
        <4>1. Visible' = [Visible EXCEPT ![r] = Contract!WithFile(Visible[r], n, Torn)]
          BY <1>3, <3>1, <3>5, OneFileSeen DEF Bytes
        <4>2. Phase = "first" /\ Phase' = "idle"
          BY <3>1, <3>5 DEF Phase, End
        <4>3. Contract!WriteFirst(r, n)
          BY <1>3, <2>1, <3>1, <3>2, <4>1, <4>2 DEF Contract!WriteFirst
        <4> QED BY <4>3 DEF Contract!Next
      <3> QED BY <2>8, <3>3, <3>4, <3>5 DEF FreshGenerated
    <2>9. CASE Edit
      <3>1. UNCHANGED <<manifest, backup, pc>> /\ pc = "idle"
        BY <1>3, <2>9 DEF Edit, DevWrite, DevDelete, DevWriteOwned, DevDeleteOwned,
                          Developer, Tame
      <3>2. CASE live' = live
        BY <2>3, <3>1, <3>2
      <3>3. ASSUME NEW r \in Roots, NEW n \in Names, NEW x \in DevBytes \cup {NoFile},
                   \/ live' = [live EXCEPT ![r] = Put(live[r], n, x)]
                   \/ live[r] # NoDir /\ x = NoFile /\ live' = [live EXCEPT ![r][n] = NoFile]
            PROVE  Contract!EditFile(r, n, x)
        <4>1. Visible' = [Visible EXCEPT ![r] = Contract!WithFile(Visible[r], n, x)]
          BY <1>3, <3>1, <3>3, OneFileSeen DEF Bytes
        <4>2. Phase = "idle" /\ Phase' = "idle"
          BY <3>1 DEF Phase
        <4> QED BY <1>3, <2>1, <3>1, <4>1, <4>2 DEF Contract!EditFile
      <3> QED BY <1>1, <2>9, <3>2, <3>3, EditIsPut DEF Contract!Next
    <2>10. CASE \/ StopUnexpected \/ StopEdited \/ Proceed \/ FreshDone \/ StageFails
                \/ SkipEmptyRoot \/ Staged \/ MoveAsideFails \/ SwapInFails \/ Crash
                \/ \E n \in Names : StageFile(n)
                \/ \E p \in Owned : FreshOwned(p)
      BY <2>3, <2>10 DEF StopUnexpected, StopEdited, Stop, Proceed, FreshDone, StageFails,
           SkipEmptyRoot, Staged, MoveAsideFails, SwapInFails, Crash, StageFile, FreshOwned,
           disk, RestOfSwap
    <2>11. ASSUME NEW z \in Exports, NEW f \in BOOLEAN,
                  BeginFresh(z, f) \/ BeginRefused(z, f) \/ BeginReapply(z, f)
           PROVE  [Contract!Next]_(Contract!cvars)
      BY <2>3, <2>11 DEF BeginFresh, BeginRefused, BeginReapply, Begin, disk
    <2> QED BY <2>4, <2>5, <2>6, <2>7, <2>8, <2>9, <2>10, <2>11 DEF Next, Apply
  <1> QED BY <1>2, <1>3

(* With errors reported, no kill, and a developer who waits, an `export    *)
(* apply` that is not the first changes a root as a whole and in no other  *)
(* way, and records a zip only when all of it is in place: for all zips,   *)
(* roots and failures.                                                     *)
THEOREM AppliesByContract == Spec => ImplementsContract
  <1>1. Init => Contract!Init
    BY ContractInit
  <1>2. IndInv /\ [Next]_vars => [Contract!Next]_(Contract!cvars)
    BY ContractStep
  <1> QED BY <1>1, <1>2, IndInvariant, PTL DEF Spec, ImplementsContract, Contract!Spec
=============================================================================
