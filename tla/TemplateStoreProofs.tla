------------------------ MODULE TemplateStoreProofs ------------------------
(***************************************************************************)
(* Proofs about TemplateStore, for any number of runs, paths and bundles.  *)
(***************************************************************************)
EXTENDS TemplateStore, TLAPS

(* The files of a bundle are files. *)
LEMMA ContentIsFiles == \A s \in Shas : Content(s) \subseteq AllFiles /\ Content(s) # {}
  <1> SUFFICES ASSUME NEW s \in Shas PROVE Content(s) \subseteq AllFiles /\ Content(s) # {}
    OBVIOUS
  <1>1. ({s, Damaged} \X Parts[s]) \subseteq AllFiles
    BY DEF AllFiles
  <1>2. PICK f \in Parts[s] : TRUE
    BY StoreAssumption
  <1>3. <<s, f>> \in Content(s)
    BY <1>2 DEF Content
  <1> QED BY <1>1, <1>3 DEF Content

LEMMA EntryFacts == \A e \in Entries : e.id \in Ids /\ e.sha \in Shas /\ e.signed \in BOOLEAN
  BY StoreAssumption DEF Entry

LEMMA StoreTypeInit == Init => TypeOK
  <1> SUFFICES ASSUME Init PROVE TypeOK
    OBVIOUS
  <1>1. cache \in [Ids -> Tree \cup {NoDir}] /\ stage \in [Runs -> Tree \cup {NoDir}]
    BY DEF Init
  <1>2. pc \in [Runs -> {"new"} \cup Working \cup Ended] /\ ending \in [Runs -> {"ready", "failed"}]
    BY DEF Init
  <1>3. bundle \in [Runs -> Shas \cup {Damaged}] /\ pending \in [Runs -> SUBSET AllFiles]
    BY DEF Init
  <1>4. old \subseteq Runs /\ stalled \in BOOLEAN /\ touched \subseteq Ids /\ hands \in Nat
    BY DEF Init
  <1> QED BY <1>1, <1>2, <1>3, <1>4 DEF Init, TypeOK

(* Every step preserves the types; a staged bundle is the one wanted. *)
LEMMA StoreTypeStep == ASSUME TypeOK, [Next]_vars PROVE TypeOK'
  <1> USE DEF vars, local, hand, Goes, Working, Ended, Tree, Empty
  <1>1. ASSUME NEW p \in Runs, Begin(p) \/ SweepStaging(p) \/ FetchCatalog(p) PROVE TypeOK'
    BY <1>1 DEF TypeOK, Begin, SweepStaging, FetchCatalog
  <1>2. ASSUME NEW p \in Runs, CacheHit(p) \/ CacheMiss(p) \/ Kill(p) \/ PromoteFails(p)
        PROVE  TypeOK'
    BY <1>2 DEF TypeOK, CacheHit, CacheMiss, Kill, PromoteFails
  <1>3. ASSUME NEW p \in Runs, Download(p) PROVE TypeOK'
    BY <1>3 DEF TypeOK, Download
  <1>4. ASSUME NEW p \in Runs, Verify(p) PROVE TypeOK'
    BY <1>4 DEF TypeOK, Verify, Verified
  <1>5. ASSUME NEW p \in Runs, MakeStaging(p) PROVE TypeOK'
    BY <1>5, ContentIsFiles, EntryFacts DEF TypeOK, MakeStaging
  <1>6. ASSUME NEW p \in Runs, NEW f \in pending[p], ExtractFile(p, f) PROVE TypeOK'
    <2>1. f \in AllFiles
      BY <1>6 DEF TypeOK
    <2>2. [files |-> (IF stage[p] = NoDir THEN {} ELSE stage[p].files) \cup {f},
           meta |-> NoMeta] \in Tree
      BY <2>1 DEF TypeOK
    <2> QED BY <1>6, <2>1, <2>2 DEF TypeOK, ExtractFile
  <1>7. ASSUME NEW p \in Runs, ExtractFails(p) \/ RemoveStaging(p) PROVE TypeOK'
    BY <1>7 DEF TypeOK, ExtractFails, RemoveStaging
  <1>8. ASSUME NEW p \in Runs, WriteMeta(p) PROVE TypeOK'
    BY <1>8, EntryFacts DEF TypeOK, WriteMeta
  <1>9. ASSUME NEW p \in Runs, Promote(p) PROVE TypeOK'
    BY <1>9, EntryFacts DEF TypeOK, Promote, Promoted
  <1>10. ASSUME NEW p \in Runs, Recheck(p) PROVE TypeOK'
    BY <1>10 DEF TypeOK, Recheck
  <1>11. ASSUME NEW p \in Runs, Age(p) PROVE TypeOK'
    BY <1>11 DEF TypeOK, Age
  <1>12. CASE Hand
    BY <1>12 DEF TypeOK, Hand, LoseMeta, RemoveEntry, Tamper, ByHand, AllFiles
  <1>13. CASE UNCHANGED vars
    BY <1>13 DEF TypeOK
  <1> QED BY <1>1, <1>2, <1>3, <1>4, <1>5, <1>6, <1>7, <1>8, <1>9, <1>10, <1>11, <1>12, <1>13
          DEF Next, Step

(* The directory put in place is a whole bundle; nothing else touches one. *)
LEMMA EntriesStep ==
  ASSUME TypeOK, EntriesAreWhole, StagingInv, [Next]_vars
  PROVE  EntriesAreWhole'
  <1> USE DEF vars, local, hand, Goes
  <1>1. CASE UNCHANGED <<cache, touched>> /\ (~stalled' => ~stalled)
    BY <1>1 DEF EntriesAreWhole, Exactly
  <1>2. ASSUME NEW p \in Runs, Promote(p) PROVE EntriesAreWhole'
    <2>1. want[p].id \in Ids /\ want[p].sha \in Shas /\ want[p].sha # NoMeta
      BY EntryFacts, StoreAssumption DEF TypeOK
    <2>2. /\ cache' = [cache EXCEPT ![want[p].id] = stage[p]]
          /\ stage[p] # NoDir /\ pc[p] = "promote" /\ UNCHANGED <<touched, stalled>>
      BY <1>2 DEF Promote, Promoted
    <2>3. /\ stage[p].meta = want[p].sha
          /\ stage[p].files \subseteq Content(want[p].sha)
          /\ ~stalled => stage[p].files = Content(want[p].sha)
      BY <2>2 DEF StagingInv
    <2> QED BY <2>1, <2>2, <2>3 DEF EntriesAreWhole, Exactly, TypeOK
  <1>3. CASE Hand
    BY <1>3 DEF Hand, LoseMeta, RemoveEntry, Tamper, ByHand, EntriesAreWhole, Exactly, TypeOK
  <1>4. ASSUME NEW p \in Runs, Age(p) PROVE EntriesAreWhole'
    BY <1>1, <1>4 DEF Age
  <1> QED BY <1>1, <1>2, <1>3, <1>4
          DEF Next, Step, Begin, SweepStaging, FetchCatalog, CacheHit, CacheMiss, Download, Verify,
              MakeStaging, ExtractFile, ExtractFails, WriteMeta, PromoteFails, Recheck,
              RemoveStaging, Kill

(* A run's staging directory is changed by that run, or removed once it is *)
(* old: which, unless a run stalled, is after that run has ended.          *)
LEMMA StagingStep ==
  ASSUME TypeOK, StagingInv, [Next]_vars
  PROVE  StagingInv'
  <1> USE DEF vars, local, hand, Goes
  <1>1. ASSUME NEW p \in Runs, Begin(p) \/ FetchCatalog(p) \/ CacheHit(p) \/ CacheMiss(p)
                               \/ Download(p) \/ Verify(p) \/ Kill(p)
        PROVE  StagingInv'
    BY <1>1 DEF Begin, FetchCatalog, CacheHit, CacheMiss, Download, Verify, Kill, TypeOK,
                StagingInv, Working, Ended
  <1>2. ASSUME NEW p \in Runs, SweepStaging(p) PROVE StagingInv'
    <2>1. /\ UNCHANGED <<old, local, hand>>
          /\ \A q \in Runs : stage'[q] = stage[q] \/ (q \in old /\ stage'[q] = NoDir)
          /\ pc' = [pc EXCEPT ![p] = "catalog"] /\ pc[p] = "sweep"
      BY <1>2 DEF SweepStaging
    <2> QED BY <2>1 DEF StagingInv, TypeOK, Ended
  <1>3. ASSUME NEW p \in Runs, MakeStaging(p) PROVE StagingInv'
    <2>1. CASE pc' = [pc EXCEPT ![p] = "failed"] /\ UNCHANGED <<stage, pending>>
      BY <1>3, <2>1 DEF MakeStaging, TypeOK, StagingInv, Ended
    <2>2. CASE /\ pc' = [pc EXCEPT ![p] = "extract"] /\ stage' = [stage EXCEPT ![p] = Empty]
               /\ pending' = [pending EXCEPT ![p] = Content(want[p].sha)]
      <3>1. Empty # NoDir /\ Empty.files = {}
        BY NoDirIsNoTree DEF Empty, Tree
      <3>2. /\ pc'[p] = "extract" /\ stage'[p] = Empty /\ pending'[p] = Content(want[p].sha)
            /\ \A q \in Runs \ {p} : pc'[q] = pc[q] /\ stage'[q] = stage[q]
                                     /\ pending'[q] = pending[q]
        BY <2>2 DEF TypeOK
      <3>3. UNCHANGED <<want, old, stalled>> /\ pc[p] = "stage"
        BY <1>3 DEF MakeStaging
      <3>4. ~stalled => p \notin old
        BY <3>3 DEF StagingInv, Ended
      <3> QED BY <3>1, <3>2, <3>3, <3>4 DEF StagingInv
    <2> QED BY <1>3, <2>1, <2>2 DEF MakeStaging
  <1>4. ASSUME NEW p \in Runs, NEW f \in pending[p], ExtractFile(p, f) PROVE StagingInv'
    <2>1. /\ UNCHANGED <<old, pc, want, stalled>> /\ pc[p] = "extract"
          /\ stage'[p] = [files |-> (IF stage[p] = NoDir THEN {} ELSE stage[p].files) \cup {f},
                          meta |-> NoMeta]
          /\ pending'[p] = pending[p] \ {f}
          /\ \A q \in Runs \ {p} : stage'[q] = stage[q] /\ pending'[q] = pending[q]
      BY <1>4 DEF ExtractFile, TypeOK
    <2>2. f \in AllFiles
      BY <1>4 DEF TypeOK
    <2>3. stage'[p] \in Tree
      BY <2>1, <2>2 DEF TypeOK, Tree
    <2>4. stage'[p] # NoDir /\ stage'[p].files = (IF stage[p] = NoDir THEN {} ELSE stage[p].files) \cup {f}
      <3>1. stage'[p] # NoDir
        BY <2>3, NoDirIsNoTree
      <3>2. stage'[p].files = (IF stage[p] = NoDir THEN {} ELSE stage[p].files) \cup {f}
        BY <2>1
      <3> QED BY <3>1, <3>2
    <2> QED BY <1>4, <2>1, <2>4 DEF StagingInv
  <1>5. ASSUME NEW p \in Runs, ExtractFails(p) \/ RemoveStaging(p) PROVE StagingInv'
    BY <1>5 DEF ExtractFails, RemoveStaging, TypeOK, StagingInv, Working, Ended
  <1>6. ASSUME NEW p \in Runs, WriteMeta(p) PROVE StagingInv'
    <2>1. /\ UNCHANGED <<old, want, stalled, pending>> /\ pc[p] = "extract" /\ pending[p] = {}
          /\ pc' = [pc EXCEPT ![p] = "promote"]
          /\ stage[p] \in Tree
          /\ stage' = [stage EXCEPT ![p] = [stage[p] EXCEPT !.meta = want[p].sha]]
      BY <1>6 DEF WriteMeta, TypeOK
    <2>2. stage'[p].meta = want[p].sha /\ stage'[p].files = stage[p].files
      BY <2>1 DEF TypeOK, Tree
    <2>3. \A q \in Runs \ {p} : stage'[q] = stage[q] /\ pc'[q] = pc[q]
      BY <2>1 DEF TypeOK
    <2>4. stage[p].files \subseteq Content(want[p].sha)
          /\ (~stalled => stage[p].files = Content(want[p].sha) /\ p \notin old)
      BY <1>6, <2>1 DEF StagingInv, WriteMeta, Ended
    <2>5. pc'[p] = "promote"
      BY <2>1 DEF TypeOK
    <2> QED BY <2>1, <2>2, <2>3, <2>4, <2>5 DEF StagingInv
  <1>7. ASSUME NEW p \in Runs, Promote(p) PROVE StagingInv'
    BY <1>7 DEF Promote, Promoted, TypeOK, StagingInv, Working, Ended
  <1>8. ASSUME NEW p \in Runs, PromoteFails(p) \/ Recheck(p) PROVE StagingInv'
    BY <1>8 DEF PromoteFails, Recheck, TypeOK, StagingInv, Working, Ended
  <1>9. ASSUME NEW p \in Runs, Age(p) PROVE StagingInv'
    BY <1>9 DEF Age, TypeOK, StagingInv
  <1>10. CASE Hand
    BY <1>10 DEF Hand, LoseMeta, RemoveEntry, Tamper, ByHand, StagingInv
  <1>11. CASE UNCHANGED vars
    BY <1>11 DEF StagingInv
  <1> QED BY <1>1, <1>2, <1>3, <1>4, <1>5, <1>6, <1>7, <1>8, <1>9, <1>10, <1>11 DEF Next, Step

(* What made a run ready stays, unless a hand removes it. *)
LEMMA ReadyStep ==
  ASSUME TypeOK, StagingInv, ReadyInv, [Next]_vars
  PROVE  ReadyInv'
  <1> USE DEF vars, local, hand, Goes
  <1>1. ASSUME NEW p \in Runs, CacheHit(p) PROVE ReadyInv'
    BY <1>1 DEF CacheHit, TypeOK, ReadyInv, Valid
  <1>2. ASSUME NEW p \in Runs, Promote(p) PROVE ReadyInv'
    <2>1. /\ cache' = [cache EXCEPT ![want[p].id] = stage[p]] /\ cache[want[p].id] = NoDir
          /\ UNCHANGED <<want, touched>> /\ pc[p] = "promote" /\ stage[p] # NoDir
          /\ \A q \in Runs \ {p} : pc'[q] = pc[q] /\ ending'[q] = ending[q]
      BY <1>2 DEF Promote, Promoted, TypeOK
    <2>2. stage[p].meta = want[p].sha /\ \A q \in Runs : want[q].id \in Ids
      BY <2>1, EntryFacts DEF StagingInv, TypeOK
    <2> QED BY <2>1, <2>2 DEF ReadyInv, Valid, TypeOK
  <1>3. ASSUME NEW p \in Runs, Recheck(p) PROVE ReadyInv'
    BY <1>3 DEF Recheck, TypeOK, ReadyInv, Valid
  <1>4. ASSUME NEW p \in Runs, RemoveStaging(p) PROVE ReadyInv'
    BY <1>4 DEF RemoveStaging, TypeOK, ReadyInv, Valid
  <1>5. CASE Hand
    <2>1. PICK i \in Ids : /\ \A j \in Ids \ {i} : cache'[j] = cache[j]
                           /\ touched' = touched \cup {i} /\ UNCHANGED <<pc, want, ending>>
      BY <1>5 DEF Hand, LoseMeta, RemoveEntry, Tamper, ByHand, TypeOK
    <2> QED BY <2>1, EntryFacts DEF ReadyInv, Valid, TypeOK
  <1>6. ASSUME NEW p \in Runs, UNCHANGED <<cache, want, touched, ending>>,
               \E to \in {"sweep", "catalog", "validate", "download", "verify", "stage", "extract",
                          "promote", "recheck", "failed", "killed"} : pc' = [pc EXCEPT ![p] = to]
        PROVE  ReadyInv'
    BY <1>6 DEF ReadyInv, Valid, TypeOK
  <1>7. ASSUME NEW p \in Runs, Begin(p) \/ SweepStaging(p) \/ FetchCatalog(p) \/ CacheMiss(p)
                               \/ Download(p) \/ Verify(p)
        PROVE  ReadyInv'
    BY <1>6, <1>7 DEF Begin, SweepStaging, FetchCatalog, CacheMiss, Download, Verify
  <1>8. ASSUME NEW p \in Runs, MakeStaging(p) \/ ExtractFails(p) \/ WriteMeta(p)
                               \/ Kill(p)
        PROVE  ReadyInv'
    BY <1>6, <1>8 DEF MakeStaging, ExtractFails, WriteMeta, Kill
  <1>10. ASSUME NEW p \in Runs, PromoteFails(p) PROVE ReadyInv'
    BY <1>10 DEF PromoteFails, TypeOK, ReadyInv, Valid
  <1>9. CASE UNCHANGED <<cache, want, touched, ending, pc>>
    BY <1>9 DEF ReadyInv, Valid
  <1> QED BY <1>1, <1>2, <1>3, <1>4, <1>5, <1>7, <1>8, <1>9, <1>10
          DEF Next, Step, ExtractFile, Age

(* Every entry has a run that verified it.                                 *)
LEMMA SignedStep ==
  ASSUME TypeOK, StagingInv, SignedInv, [Next]_vars
  PROVE  SignedInv'
  <1> USE DEF vars, local, hand, Goes
  <1>1. UNCHANGED <<want, optOut>>
    BY DEF Next, Step, Hand, LoseMeta, RemoveEntry, Tamper, ByHand, Begin, SweepStaging,
           FetchCatalog, CacheHit, CacheMiss, Download, Verify, MakeStaging, ExtractFile,
           ExtractFails, WriteMeta, Promote, Promoted, PromoteFails, Recheck, RemoveStaging,
           Kill, Age
  <1>2. ASSUME NEW q \in Runs, NEW i, NEW sha, StandsFor(q, i, sha)
        PROVE  StandsFor(q, i, sha)'
    BY <1>1, <1>2 DEF StandsFor
  <1>3. ASSUME NEW p \in Runs, UNCHANGED <<cache, touched>>,
               \E to : /\ pc' = [pc EXCEPT ![p] = to]
                       /\ to \in {"stage", "extract", "promote", "recheck", "cleanup"} =>
                            \/ pc[p] \in {"stage", "extract", "promote", "recheck", "cleanup"}
                            \/ StandsFor(p, want[p].id, want[p].sha)
        PROVE  SignedInv'
    <2>1. ASSUME NEW q \in Runs,
                 pc'[q] \in {"stage", "extract", "promote", "recheck", "cleanup"}
          PROVE  StandsFor(q, want[q].id, want[q].sha)
      BY <1>3, <2>1 DEF SignedInv, TypeOK
    <2> QED BY <1>1, <1>3, <2>1 DEF SignedInv, StandsFor
  <1>4. ASSUME NEW p \in Runs, Promote(p) PROVE SignedInv'
    <2>1. want[p].id \in Ids
      BY EntryFacts DEF TypeOK
    <2>2. /\ cache' = [cache EXCEPT ![want[p].id] = stage[p]] /\ stage[p] # NoDir
          /\ pc[p] = "promote" /\ pc' = [pc EXCEPT ![p] = "cleanup"] /\ touched' = touched
      BY <1>4 DEF Promote, Promoted
    <2>3. stage[p].meta = want[p].sha /\ StandsFor(p, want[p].id, want[p].sha)
      BY <2>2 DEF StagingInv, SignedInv
    <2>4. ASSUME NEW q \in Runs,
                 pc'[q] \in {"stage", "extract", "promote", "recheck", "cleanup"}
          PROVE  StandsFor(q, want[q].id, want[q].sha)
      BY <2>2, <2>4 DEF SignedInv, TypeOK
    <2>5. ASSUME NEW i \in Ids \ touched, cache'[i] # NoDir
          PROVE  \E q \in Runs : StandsFor(q, i, cache'[i].meta)
      BY <2>1, <2>2, <2>3, <2>5 DEF SignedInv, TypeOK
    <2> QED BY <1>1, <2>2, <2>4, <2>5 DEF SignedInv, StandsFor
  <1>5. CASE Hand
    <2>1. PICK i \in Ids : /\ \A j \in Ids \ {i} : cache'[j] = cache[j]
                           /\ touched' = touched \cup {i} /\ UNCHANGED pc
      BY <1>5 DEF Hand, LoseMeta, RemoveEntry, Tamper, ByHand, TypeOK
    <2> QED BY <1>1, <2>1 DEF SignedInv, StandsFor
  <1>6. ASSUME NEW p \in Runs, Verify(p) PROVE SignedInv'
    BY <1>3, <1>6 DEF Verify, Verified, StandsFor
  <1>7. ASSUME NEW p \in Runs, Begin(p) \/ SweepStaging(p) \/ FetchCatalog(p) \/ CacheMiss(p)
                               \/ CacheHit(p) \/ Download(p)
        PROVE  SignedInv'
    BY <1>3, <1>7 DEF Begin, SweepStaging, FetchCatalog, CacheMiss, CacheHit, Download
  <1>8. ASSUME NEW p \in Runs, MakeStaging(p) \/ ExtractFails(p) \/ WriteMeta(p)
                               \/ PromoteFails(p) \/ Recheck(p) \/ Kill(p)
        PROVE  SignedInv'
    BY <1>3, <1>8 DEF MakeStaging, ExtractFails, WriteMeta, PromoteFails, Recheck, Kill
  <1>9. ASSUME NEW p \in Runs, RemoveStaging(p) PROVE SignedInv'
    BY <1>3, <1>9 DEF RemoveStaging
  <1>10. CASE UNCHANGED <<cache, touched, pc>>
    BY <1>1, <1>10 DEF SignedInv, StandsFor
  <1> QED BY <1>4, <1>5, <1>6, <1>7, <1>8, <1>9, <1>10 DEF Next, Step, ExtractFile, Age

(* The inductive invariant. *)
THEOREM StoreInvariant == Spec => []StoreInv
  <1>1. Init => StoreInv
    <2> SUFFICES ASSUME Init PROVE StoreInv
      OBVIOUS
    <2>1. TypeOK
      BY StoreTypeInit
    <2>2. EntriesAreWhole /\ StagingInv /\ ReadyInv /\ SignedInv
      BY DEF Init, EntriesAreWhole, StagingInv, ReadyInv, SignedInv
    <2> QED BY <2>1, <2>2 DEF StoreInv
  <1>2. StoreInv /\ [Next]_vars => StoreInv'
    BY StoreTypeStep, EntriesStep, StagingStep, ReadyStep, SignedStep DEF StoreInv
  <1> QED BY <1>1, <1>2, PTL DEF Spec

(* Whatever races, fails or is killed, a cache entry that no hand edited   *)
(* holds only files of the bundle it names, and all of them unless a run   *)
(* was suspended for longer than tempMaxAge.                               *)
THEOREM CacheIsWhole == Spec => []EntriesAreWhole
  BY StoreInvariant, PTL DEF StoreInv

(* A run that ended ready reads exactly the bundle its catalog names.      *)
THEOREM ReadyRunsReadTheirBundle == Spec => []ServedIsWanted
  <1>1. StoreInv => ServedIsWanted
    <2> SUFFICES ASSUME StoreInv, NEW p \in Runs,
                        pc[p] = "ready", want[p].id \notin touched, ~stalled
                 PROVE  Exactly(want[p].id, want[p].sha)
      BY DEF ServedIsWanted
    <2>1. want[p].id \in Ids /\ Valid(cache[want[p].id], want[p])
      BY EntryFacts DEF StoreInv, TypeOK, ReadyInv
    <2> QED BY <2>1 DEF StoreInv, EntriesAreWhole, Exactly, Valid
  <1> QED BY <1>1, StoreInvariant, PTL

(* No run replaces or removes a cache entry.                               *)
THEOREM EntriesAreImmutable == Spec => NeverReplaced
  <1>1. ASSUME StoreInv, [Next]_vars, NEW i \in Ids, cache[i] # NoDir, cache'[i] # cache[i]
        PROVE  hands' # hands
    <2> USE DEF vars, local, hand, Goes
    <2>1. CASE Hand
      <3>1. hands' = hands + 1
        BY <2>1 DEF Hand, LoseMeta, RemoveEntry, Tamper, ByHand
      <3>2. hands \in Nat
        BY <1>1 DEF StoreInv, TypeOK
      <3> QED BY <3>1, <3>2
    <2>2. ASSUME NEW p \in Runs, Promote(p) PROVE FALSE
      BY <1>1, <2>2, EntryFacts DEF Promote, Promoted, StoreInv, TypeOK
    <2>3. CASE UNCHANGED cache
      BY <1>1, <2>3
    <2> QED BY <1>1, <2>1, <2>2, <2>3
            DEF Next, Step, Begin, SweepStaging, FetchCatalog, CacheHit, CacheMiss, Download, Verify,
                MakeStaging, ExtractFile, ExtractFails, WriteMeta, PromoteFails, Recheck,
                RemoveStaging, Kill, Age
  <1>2. StoreInv /\ [Next]_vars =>
          [\A i \in Ids : cache[i] # NoDir /\ cache'[i] # cache[i] => hands' # hands]_vars
    BY <1>1
  <1> QED BY <1>2, StoreInvariant, PTL DEF Spec, NeverReplaced

(* What a run is given was signed, unless a run of this machine opted out  *)
(* of signatures for that very bundle.                                     *)
THEOREM UnsignedIsChosen == Spec => []UnsignedOnlyByOptOut
  <1>1. StoreInv => UnsignedOnlyByOptOut
    <2> SUFFICES ASSUME StoreInv, NEW p \in Runs, pc[p] = "ready", want[p].id \notin touched
                 PROVE  \E q \in Runs : /\ want[q].id = want[p].id /\ want[q].sha = want[p].sha
                                        /\ want[q].signed \/ optOut[q]
      BY DEF UnsignedOnlyByOptOut
    <2>1. want[p].id \in Ids /\ Valid(cache[want[p].id], want[p])
      BY EntryFacts DEF StoreInv, TypeOK, ReadyInv
    <2> QED BY <2>1 DEF StoreInv, SignedInv, StandsFor, Valid
  <1> QED BY <1>1, StoreInvariant, PTL

\* A run that is going to be served, unless a hand edits its entry.
Served(p) ==
  \/ want[p].id \in touched
  \/ /\ Valid(cache[want[p].id], want[p])
     /\ \/ pc[p] \in {"validate", "promote", "recheck", "ready", "killed"}
        \/ pc[p] = "cleanup" /\ ending[p] = "ready"

(* What the others do to the cache takes no entry away, and the run itself *)
(* finds it.                                                               *)
LEMMA ServedStep ==
  ASSUME StoreInv, [Next]_vars, NEW p \in Runs, Served(p)
  PROVE  Served(p)'
  <1> USE DEF Served, vars, local, hand
  <1>1. TypeOK /\ want[p].id \in Ids
    BY EntryFacts DEF StoreInv, TypeOK
  <1>2. CASE UNCHANGED vars
    BY <1>2 DEF Valid
  <1>3. CASE Hand
    <2>1. ASSUME NEW i \in Ids, NEW dir, ByHand(i, dir) PROVE Served(p)'
      BY <1>1, <2>1 DEF ByHand, Valid, TypeOK
    <2> QED BY <1>3, <2>1 DEF Hand, LoseMeta, RemoveEntry, Tamper
  <1>4. ASSUME NEW q \in Runs, Begin(q) \/ Step(q) \/ Kill(q) \/ Age(q) PROVE Served(p)'
    <2>1. want' = want /\ touched' = touched
      BY <1>4 DEF Begin, Step, SweepStaging, FetchCatalog, CacheHit, CacheMiss, Download,
         Verify, MakeStaging, ExtractFile, ExtractFails, WriteMeta, Promote, Promoted,
         PromoteFails, Recheck, RemoveStaging, Kill, Age
    <2>2. CASE want[p].id \in touched
      BY <2>1, <2>2
    <2>3. CASE want[p].id \notin touched
      <3>1. Valid(cache[want[p].id], want[p]) /\ cache[want[p].id] # NoDir
        BY <2>3 DEF Valid
      <3>2. cache'[want[p].id] = cache[want[p].id]
        <4>1. CASE Promote(q)
          BY <1>1, <3>1, <4>1 DEF Promote, Promoted, TypeOK
        <4>2. CASE ~Promote(q)
          BY <1>4, <4>2 DEF Begin, Step, SweepStaging, FetchCatalog, CacheHit, CacheMiss,
             Download, Verify, MakeStaging, ExtractFile, ExtractFails, WriteMeta,
             PromoteFails, Recheck, RemoveStaging, Kill, Age
        <4> QED BY <4>1, <4>2
      <3>3. Valid(cache'[want'[p].id], want'[p])
        BY <2>1, <3>1, <3>2
      <3>4. CASE q # p
        <4>1. pc'[p] = pc[p]
          BY <1>1, <1>4, <3>4 DEF Begin, Step, SweepStaging, FetchCatalog, CacheHit,
             CacheMiss, Download, Verify, MakeStaging, ExtractFile, ExtractFails, WriteMeta,
             Promote, Promoted, PromoteFails, Recheck, RemoveStaging, Kill, Age, Goes, TypeOK
        <4>2. ending'[p] = ending[p]
          BY <1>1, <1>4, <3>4 DEF Begin, Step, SweepStaging, FetchCatalog, CacheHit,
             CacheMiss, Download, Verify, MakeStaging, ExtractFile, ExtractFails, WriteMeta,
             Promote, Promoted, PromoteFails, Recheck, RemoveStaging, Kill, Age, TypeOK
        <4> QED BY <2>3, <3>3, <4>1, <4>2
      <3>5. CASE q = p
        <4>1. \/ pc[p] \in {"validate", "promote", "recheck", "ready", "killed"}
              \/ pc[p] = "cleanup" /\ ending[p] = "ready"
          BY <2>3
        <4>2. CASE CacheHit(p) \/ PromoteFails(p) \/ Recheck(p)
          BY <1>1, <3>1, <3>3, <4>1, <4>2 DEF CacheHit, PromoteFails, Recheck, Goes, TypeOK
        <4>3. CASE RemoveStaging(p) \/ Kill(p) \/ Age(p)
          BY <1>1, <3>3, <4>1, <4>3 DEF RemoveStaging, Kill, Age, Goes, TypeOK
        <4>4. ~CacheMiss(p) /\ ~Promote(p)
          BY <3>1 DEF CacheMiss, Promote
        <4>5. ~(\/ Begin(p) \/ SweepStaging(p) \/ FetchCatalog(p) \/ Download(p) \/ Verify(p)
                \/ MakeStaging(p) \/ ExtractFails(p) \/ WriteMeta(p)
                \/ \E f \in pending[p] : ExtractFile(p, f))
          BY <4>1 DEF Begin, SweepStaging, FetchCatalog, Download, Verify, MakeStaging,
             ExtractFails, WriteMeta, ExtractFile, Goes
        <4> QED BY <1>4, <3>5, <4>2, <4>3, <4>4, <4>5 DEF Step
      <3> QED BY <3>4, <3>5
    <2> QED BY <2>2, <2>3
  <1> QED BY <1>2, <1>3, <1>4 DEF Next

(* A run whose bundle another one has put in place is not going to fail    *)
(* for it: for any number of runs that race, sweep and are killed.         *)
THEOREM LosersAreReady == Spec => LosersAreServed
  <1> SUFFICES ASSUME NEW p \in Runs
               PROVE  Spec => [](Settled(p) => [](pc[p] = "failed" => want[p].id \in touched))
    BY DEF LosersAreServed
  <1>1. Settled(p) => Served(p)
    BY DEF Settled, Served
  <1>2. StoreInv /\ [Next]_vars /\ Served(p) => Served(p)'
    BY ServedStep
  <1>3. Served(p) => (pc[p] = "failed" => want[p].id \in touched)
    BY DEF Served
  <1> QED BY <1>1, <1>2, <1>3, StoreInvariant, PTL DEF Spec

-----------------------------------------------------------------------------
(* TemplateStore implements TemplateContract.                              *)

(* A step of one run, as the commands see it.                              *)
LEMMA PhaseStep ==
  ASSUME TypeOK, NEW p \in Runs, NEW from, NEW to, Goes(p, from, to)
  PROVE  /\ from \in Working => Phases[p] = "working"
         /\ from \notin Working => Phases[p] = from
         /\ to \in Working => Phases' = [Phases EXCEPT ![p] = "working"]
         /\ to \notin Working => Phases' = [Phases EXCEPT ![p] = to]
         /\ from \in Working /\ to \in Working => Phases' = Phases
  BY DEF Phases, Goes, TypeOK

(* Steps that leave the cache alone are not seen, but for their beginning   *)
(* and a run that fails or is killed.                                      *)
LEMMA QuietStep ==
  ASSUME StoreInv, NEW p \in Runs, NEW from, NEW to, Goes(p, from, to),
         UNCHANGED <<cache, want, optOut, touched, stalled>>,
         \/ from = "new" /\ to \in Working
         \/ from \in Working /\ to \in Working \cup {"failed", "killed"}
  PROVE  [Contract!Next]_(Contract!tvars)
  <1>1. TypeOK
    BY DEF StoreInv
  <1>2. DOMAIN Phases = Runs
    BY DEF Phases
  <1>3. CASE from = "new"
    <2>1. from \notin Working /\ to \in Working
      BY <1>3 DEF Working
    <2>2. Contract!Start(p)
      BY <1>1, <1>3, <2>1, PhaseStep DEF Contract!Start, Contract!Becomes
    <2> QED BY <2>2 DEF Contract!Next
  <1>4. CASE from \in Working /\ to \in Working
    <2>1. Phases' = Phases
      BY <1>1, <1>2, <1>4, PhaseStep
    <2> QED BY <2>1 DEF Contract!tvars
  <1>5. CASE from \in Working /\ to \in {"failed", "killed"}
    <2>1. to \notin Working
      BY <1>5 DEF Working
    <2>2. Contract!GiveUp(p)
      BY <1>1, <1>5, <2>1, PhaseStep DEF Contract!GiveUp, Contract!Becomes
    <2> QED BY <2>2 DEF Contract!Next
  <1> QED BY <1>3, <1>4, <1>5 DEF Working

(* What a run may be given: an entry that names its bundle is that bundle.  *)
LEMMA ServeStep ==
  ASSUME StoreInv, NEW p \in Runs, NEW from \in Working, Goes(p, from, "ready"),
         UNCHANGED <<cache, want, optOut, touched, stalled>>,
         want[p].id \in touched \/ Valid(cache[want[p].id], want[p])
  PROVE  [Contract!Next]_(Contract!tvars)
  <1>1. TypeOK /\ EntriesAreWhole /\ want[p].id \in Ids
    BY EntryFacts DEF StoreInv, TypeOK
  <1>2. Contract!Becomes(p, "working", "ready")
    <2>1. "ready" \notin Working
      BY DEF Working
    <2> QED BY <1>1, <2>1, PhaseStep DEF Contract!Becomes
  <1>3. want[p].id \in touched \/ Contract!Holds(cache[want[p].id], want[p])
    <2> SUFFICES ASSUME want[p].id \notin touched
                 PROVE  Contract!Holds(cache[want[p].id], want[p])
      OBVIOUS
    <2>1. Valid(cache[want[p].id], want[p])
      OBVIOUS
    <2> QED BY <1>1, <2>1
            DEF Valid, EntriesAreWhole, Exactly, Content, Contract!Holds
  <1>4. Contract!Serve(p)
    BY <1>2, <1>3 DEF Contract!Serve
  <1> QED BY <1>4 DEF Contract!Next

(* The renaming is the one step of a run that changes the cache.           *)
LEMMA AddStep ==
  ASSUME StoreInv, NEW p \in Runs, Promote(p)
  PROVE  [Contract!Next]_(Contract!tvars)
  <1>1. /\ TypeOK /\ StagingInv /\ SignedInv
        /\ Goes(p, "promote", "cleanup") /\ pc[p] = "promote"
        /\ stage[p] # NoDir /\ cache[want[p].id] = NoDir
        /\ cache' = [cache EXCEPT ![want[p].id] = stage[p]]
        /\ UNCHANGED <<want, optOut, touched, stalled>>
        /\ want[p].id \in Ids
    BY EntryFacts DEF StoreInv, Promote, Promoted, Goes, local, hand, TypeOK
  <1>2. Phases[p] = "working" /\ Phases' = Phases
    <2>1. "promote" \in Working /\ "cleanup" \in Working /\ DOMAIN Phases = Runs
      BY DEF Working, Phases
    <2> QED BY <1>1, <2>1, PhaseStep
  <1>3. cache'[want[p].id] = stage[p]
    BY <1>1 DEF TypeOK
  <1>4. Contract!Holds(stage[p], want[p])
    BY <1>1 DEF StagingInv, Content, Contract!Holds
  <1>5. want[p].signed \/ optOut[p]
    BY <1>1 DEF SignedInv, StandsFor
  <1>6. Contract!Add(p)
    BY <1>1, <1>2, <1>3, <1>4, <1>5 DEF Contract!Add
  <1> QED BY <1>6 DEF Contract!Next

LEMMA ContractStep ==
  ASSUME StoreInv, [Next]_vars PROVE [Contract!Next]_(Contract!tvars)
  <1> USE DEF vars, local, hand
  <1>1. ASSUME NEW p \in Runs, Begin(p) \/ SweepStaging(p) \/ FetchCatalog(p) \/ CacheMiss(p)
                               \/ Download(p) \/ Verify(p)
        PROVE  [Contract!Next]_(Contract!tvars)
    BY <1>1, QuietStep DEF Begin, SweepStaging, FetchCatalog, CacheMiss, Download, Verify,
       Working
  <1>2. ASSUME NEW p \in Runs, MakeStaging(p) \/ ExtractFails(p) \/ WriteMeta(p)
                               \/ PromoteFails(p) \/ Recheck(p)
        PROVE  [Contract!Next]_(Contract!tvars)
    BY <1>2, QuietStep DEF MakeStaging, ExtractFails, WriteMeta, PromoteFails, Recheck,
       Working
  <1>3. ASSUME NEW p \in Runs, Kill(p) PROVE [Contract!Next]_(Contract!tvars)
    <2>1. pc[p] \in Working /\ Goes(p, pc[p], "killed")
      BY <1>3 DEF Kill, Goes
    <2> QED BY <1>3, <2>1, QuietStep DEF Kill
  <1>4. ASSUME NEW p \in Runs, CacheHit(p) PROVE [Contract!Next]_(Contract!tvars)
    BY <1>4, ServeStep DEF CacheHit, Working
  <1>5. ASSUME NEW p \in Runs, RemoveStaging(p) PROVE [Contract!Next]_(Contract!tvars)
    <2>1. /\ Goes(p, "cleanup", ending[p]) /\ pc[p] = "cleanup"
          /\ UNCHANGED <<cache, want, optOut, touched, stalled>>
          /\ "cleanup" \in Working /\ ending[p] \in {"ready", "failed"}
      BY <1>5 DEF RemoveStaging, Goes, Working, StoreInv, TypeOK
    <2>2. CASE ending[p] = "ready"
      <3>1. want[p].id \in touched \/ Valid(cache[want[p].id], want[p])
        BY <2>1, <2>2 DEF StoreInv, ReadyInv
      <3> QED BY <2>1, <2>2, <3>1, ServeStep
    <2>3. CASE ending[p] = "failed"
      BY <2>1, <2>3, QuietStep
    <2> QED BY <2>1, <2>2, <2>3
  <1>6. ASSUME NEW p \in Runs, Promote(p) PROVE [Contract!Next]_(Contract!tvars)
    BY <1>6, AddStep
  <1>7. ASSUME NEW p \in Runs, Age(p) PROVE [Contract!Next]_(Contract!tvars)
    <2>1. UNCHANGED <<cache, pc, want, optOut, touched>> /\ stalled' \in {stalled, TRUE}
      BY <1>7 DEF Age, StoreInv, TypeOK
    <2>2. Phases' = Phases
      BY <2>1 DEF Phases
    <2>3. CASE stalled' = TRUE
      BY <2>1, <2>2, <2>3 DEF Contract!Delay, Contract!Next
    <2>4. CASE stalled' = stalled
      BY <2>1, <2>2, <2>4 DEF Contract!tvars
    <2> QED BY <2>1, <2>3, <2>4
  <1>8. ASSUME NEW i \in Ids, NEW dir, cache[i] # NoDir, ByHand(i, dir)
        PROVE  [Contract!Next]_(Contract!tvars)
    <2>1. /\ UNCHANGED <<pc, want, optOut, stalled>> /\ touched' = touched \cup {i}
          /\ cache' = [cache EXCEPT ![i] = dir] /\ DOMAIN cache = Ids
      BY <1>8 DEF ByHand, StoreInv, TypeOK
    <2>2. Phases' = Phases /\ cache'[i] = dir
      BY <2>1 DEF Phases
    <2>3. Contract!Edit(i)
      BY <1>8, <2>1, <2>2 DEF Contract!Edit
    <2> QED BY <2>1, <2>3 DEF Contract!Next
  <1>9. CASE Hand
    BY <1>8, <1>9 DEF Hand, LoseMeta, RemoveEntry, Tamper, ByHand
  <1>10. CASE UNCHANGED <<cache, pc, want, optOut, touched, stalled>>
    BY <1>10 DEF Contract!tvars, Phases
  <1> QED BY <1>1, <1>2, <1>3, <1>4, <1>5, <1>6, <1>7, <1>9, <1>10
          DEF Next, Step, ExtractFile

(* For the commands that share it, the cache is one where entries appear   *)
(* at once and stay, and where every command gets what its catalog names:  *)
(* for any number of runs, paths, bundles and catalogs.                    *)
THEOREM CacheKeepsContract == Spec => ServesByContract
  <1>1. Init => Contract!Init
    BY DEF Init, Contract!Init, Phases, Working
  <1>2. StoreInv /\ [Next]_vars => [Contract!Next]_(Contract!tvars)
    BY ContractStep
  <1> QED BY <1>1, <1>2, StoreInvariant, PTL DEF Spec, ServesByContract, Contract!Spec
=============================================================================
