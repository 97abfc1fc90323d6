-------------------------- MODULE ProvisionProofs --------------------------
(***************************************************************************)
(* Proofs about Provision, for any number of runs, templates, resources    *)
(* and files.                                                              *)
(***************************************************************************)
EXTENDS Provision, TLAPS

(* What a template needs are resources, what it brings are paths. *)
LEMMA TemplateFacts ==
  ASSUME TypeOK, NEW p \in Runs
  PROVE  /\ tmpl[p] \in Templates /\ tmpl[p] # None /\ tmpl[p] # Base
         /\ Wanted(p) \subseteq Resources /\ Files(p) \subseteq Paths
  BY ProvisionAssumption DEF TypeOK, Wanted, Files

LEMMA ProvisionInit == Init => ProvisionInv
  <1> SUFFICES ASSUME Init PROVE ProvisionInv
    OBVIOUS
  <1>1. TypeOK
    BY DEF Init, TypeOK, Definition
  <1>2. BackendBeforeFiles
    BY ProvisionAssumption DEF Init, BackendBeforeFiles
  <1>3. NeedsInv /\ DocInv /\ RenderInv
    BY DEF Init, NeedsInv, DocInv, RenderInv, Provisioned
  <1> QED BY <1>1, <1>2, <1>3 DEF ProvisionInv

-----------------------------------------------------------------------------
(* Types *)

LEMMA ProvisionTypeStep == ASSUME TypeOK, [Next]_vars PROVE TypeOK'
  <1> USE DEF vars, server, disk, args, Goes, Running, Ended, Definition
  <1>1. ASSUME NEW p \in Runs, Start(p) PROVE TypeOK'
    BY <1>1 DEF TypeOK, Start, AfterProvisioning
  <1>2. ASSUME NEW p \in Runs, Pull(p) PROVE TypeOK'
    <2>1. doc' \in [Runs -> [Resources -> Definition]] /\ stale' \in [Runs -> BOOLEAN]
      <3>1. /\ backend \in [Resources -> Definition]
            /\ doc \in [Runs -> [Resources -> Definition]] /\ stale \in [Runs -> BOOLEAN]
        BY DEF TypeOK
      <3>2. CASE doc' = [doc EXCEPT ![p] = backend] /\ stale' = [stale EXCEPT ![p] = FALSE]
        BY <3>1, <3>2
      <3>3. CASE UNCHANGED <<doc, stale>>
        BY <3>1, <3>3
      <3> QED BY ONLY <1>2, <3>2, <3>3 DEF Pull, Goes
    <2>2. pc' \in [Runs -> {"new"} \cup Running \cup Ended] /\ pc'[p] \in {"merge", "failed"}
          /\ \A q \in Runs : q # p => pc'[q] = pc[q]
      BY <1>2 DEF TypeOK, Pull
    <2> QED BY <1>2, <2>1, <2>2 DEF TypeOK, Pull
  <1>3. ASSUME NEW p \in Runs, Merge(p) PROVE TypeOK'
    <2>1. [n \in Resources |-> IF n \in Wanted(p) THEN tmpl[p] ELSE doc[p][n]]
            \in [Resources -> Definition]
      BY TemplateFacts DEF TypeOK
    <2>2. doc' \in [Runs -> [Resources -> Definition]]
      BY <1>3, <2>1 DEF TypeOK, Merge
    <2>3. pc' \in [Runs -> {"new"} \cup Running \cup Ended] /\ pc'[p] \in {"plan", "conflict"}
          /\ \A q \in Runs : q # p => pc'[q] = pc[q]
      BY <1>3 DEF TypeOK, Merge
    <2> QED BY <1>3, <2>2, <2>3 DEF TypeOK, Merge
  <1>4. ASSUME NEW p \in Runs, Plan(p) \/ Confirm(p) \/ Added(p) \/ Kill(p) PROVE TypeOK'
    BY <1>4 DEF TypeOK, Plan, Confirm, Added, Kill
  <1>5. ASSUME NEW p \in Runs, Apply(p) PROVE TypeOK'
    <2>1. Reconcile(p) => backend' \in [Resources -> Definition] /\ stale' \in [Runs -> BOOLEAN]
      BY DEF TypeOK, Reconcile
    <2> QED BY <1>5, <2>1 DEF TypeOK, Apply, AfterProvisioning
  <1>6. ASSUME NEW p \in Runs, Collide(p) PROVE TypeOK'
    <2>0. Files(p) \subseteq Paths
      BY TemplateFacts
    <2>a. todo' \in [Runs -> SUBSET Paths]
      BY <1>6, <2>0 DEF TypeOK, Collide
    <2>1. todo' \in [Runs -> SUBSET Paths] /\ disturbed' \in [Runs -> SUBSET Paths]
      BY <1>6, <2>a DEF TypeOK, Collide
    <2>2. pc' \in [Runs -> {"new"} \cup Running \cup Ended] /\ pc'[p] \in {"collision", "render"}
          /\ \A q \in Runs : q # p => pc'[q] = pc[q]
      BY <1>6 DEF TypeOK, Collide
    <2> QED BY <1>6, <2>1, <2>2 DEF TypeOK, Collide
  <1>7. ASSUME NEW p \in Runs, Flutter(p) PROVE TypeOK'
    BY <1>7 DEF TypeOK, Flutter
  <1>8. ASSUME NEW p \in Runs, ClearLib(p) PROVE TypeOK'
    <2>a. todo' \in [Runs -> SUBSET Paths]
      BY <1>8, ProvisionAssumption DEF TypeOK, ClearLib
    <2>b. disturbed' \in [Runs -> SUBSET Paths]
      BY <1>8 DEF TypeOK, ClearLib
    <2>c. fs' \in [Paths -> Definition \cup {Base}]
      BY <1>8 DEF TypeOK, ClearLib
    <2>1. /\ todo' \in [Runs -> SUBSET Paths] /\ disturbed' \in [Runs -> SUBSET Paths]
          /\ fs' \in [Paths -> Definition \cup {Base}]
      BY <2>a, <2>b, <2>c
    <2>2. /\ pc' \in [Runs -> {"new"} \cup Running \cup Ended]
          /\ pc[p] = "clear" /\ pc'[p] \in {"skeleton", "failed"}
          /\ \A q \in Runs : q # p => pc'[q] = pc[q]
      BY <1>8 DEF TypeOK, ClearLib
    <2> QED BY <1>8, <2>1, <2>2 DEF TypeOK, ClearLib
  <1>9. ASSUME NEW p \in Runs, SkeletonDone(p) PROVE TypeOK'
    BY <1>9, TemplateFacts DEF TypeOK, SkeletonDone
  <1>10. ASSUME NEW p \in Runs, NEW phase \in {"skeleton", "render"}, NEW f \in todo[p],
                Render(p, phase, f)
         PROVE  TypeOK'
    <2>1. f \in Paths /\ (IF phase = "skeleton" THEN Base ELSE tmpl[p]) \in Definition \cup {Base}
      BY DEF TypeOK
    <2>a. fs' \in [Paths -> Definition \cup {Base}]
      BY <1>10, <2>1 DEF TypeOK, Render
    <2>b. todo' \in [Runs -> SUBSET Paths]
      <3>1. todo[p] \ {f} \in SUBSET Paths
        BY DEF TypeOK
      <3> QED BY <1>10, <3>1 DEF TypeOK, Render
    <2>2. fs' \in [Paths -> Definition \cup {Base}] /\ todo' \in [Runs -> SUBSET Paths]
      BY <2>a, <2>b
    <2>3. disturbed' \in [Runs -> SUBSET Paths]
      BY <1>10, <2>1 DEF TypeOK, Render
    <2>4. /\ pc' \in [Runs -> {"new"} \cup Running \cup Ended]
          /\ pc'[p] \in {pc[p], "failed"} /\ \A q \in Runs : q # p => pc'[q] = pc[q]
      BY <1>10 DEF TypeOK, Render
    <2> QED BY <1>10, <2>2, <2>3, <2>4 DEF TypeOK, Render
  <1>11. ASSUME NEW n \in Resources, NEW d \in Mine \cup {None}, Dashboard(n, d) PROVE TypeOK'
    BY <1>11 DEF TypeOK, Dashboard
  <1>12. ASSUME NEW f \in Paths, NEW d \in Mine \cup {None}, Edit(f, d) PROVE TypeOK'
    BY <1>12 DEF TypeOK, Edit
  <1>13. CASE UNCHANGED vars
    BY <1>13 DEF TypeOK
  <1> QED
    BY <1>1, <1>2, <1>3, <1>4, <1>5, <1>6, <1>7, <1>8, <1>9, <1>10, <1>11, <1>12, <1>13
    DEF Next, Step

-----------------------------------------------------------------------------
(* The backend.  A resource disappears by the hand of the dashboard only.  *)

LEMMA NothingIsPruned ==
  ASSUME TypeOK, [Next]_vars, NEW n \in Resources, backend[n] # None \/ n \in dashed
  PROVE  backend'[n] # None \/ n \in dashed'
  <1> USE DEF vars, server, disk, args
  <1>1. ASSUME NEW p \in Runs, Apply(p) PROVE backend'[n] # None \/ n \in dashed'
    BY <1>1 DEF TypeOK, Apply, Reconcile
  <1>2. ASSUME NEW m \in Resources, NEW d \in Mine \cup {None}, Dashboard(m, d)
        PROVE  backend'[n] # None \/ n \in dashed'
    BY <1>2 DEF TypeOK, Dashboard
  <1>3. ASSUME NEW p \in Runs, Step(p), ~Apply(p) PROVE UNCHANGED <<backend, dashed>>
    BY <1>3 DEF Step, Start, Pull, Merge, Plan, Confirm, Collide, Flutter, ClearLib,
                SkeletonDone, Added, Kill, Render
  <1>4. ASSUME NEW f \in Paths, NEW d \in Mine \cup {None}, Edit(f, d)
        PROVE  UNCHANGED <<backend, dashed>>
    BY <1>4 DEF Edit
  <1> QED BY <1>1, <1>2, <1>3, <1>4 DEF Next

\* The steps that change neither the backend nor a run's document.
Quiet(p) ==
  \/ Plan(p) \/ Confirm(p) \/ Added(p) \/ Kill(p) \/ Collide(p) \/ Flutter(p) \/ ClearLib(p)
  \/ SkeletonDone(p) \/ \E phase \in {"skeleton", "render"}, f \in todo[p] : Render(p, phase, f)

LEMMA QuietFacts ==
  ASSUME TypeOK, NEW p \in Runs, Quiet(p)
  PROVE  /\ UNCHANGED <<backend, dashed, stale, doc, tmpl>>
         /\ \A q \in Runs : q # p => pc'[q] = pc[q]
         /\ pc'[p] \in {"plan", "confirm", "apply"} => pc[p] \in {"plan", "confirm", "apply"}
         /\ pc'[p] # "merge"
         /\ pc'[p] \in Provisioned => pc[p] \in Provisioned
  BY DEF Quiet, TypeOK, server, disk, args, Goes, Running, Provisioned, Plan, Confirm, Added,
         Kill, Collide, Flutter, ClearLib, SkeletonDone, Render

LEMMA NeedsStep == ASSUME ProvisionInv, [Next]_vars PROVE NeedsInv'
  <1> USE DEF vars, server, disk, args, Goes
  <1>0. TypeOK /\ NeedsInv
    BY DEF ProvisionInv
  <1> SUFFICES ASSUME NEW p \in Runs, NEW n \in Wanted(p)'
               PROVE  /\ pc'[p] \in {"plan", "confirm", "apply"} => doc'[p][n] # None
                      /\ pc'[p] \in Provisioned => backend'[n] # None \/ n \in dashed'
    BY DEF NeedsInv
  <1>t. tmpl' = tmpl
    BY DEF Next, Step, Start, Pull, Merge, Plan, Confirm, Apply, Collide, Flutter, ClearLib,
           SkeletonDone, Added, Kill, Render, Dashboard, Edit
  <1>n. n \in Wanted(p) /\ n \in Resources
    BY <1>0, <1>t, TemplateFacts DEF Wanted
  <1>k. backend[n] # None \/ n \in dashed => backend'[n] # None \/ n \in dashed'
    BY <1>0, <1>n, NothingIsPruned
  <1>h. /\ pc[p] \in {"plan", "confirm", "apply"} => doc[p][n] # None
        /\ pc[p] \in Provisioned => backend[n] # None \/ n \in dashed
    BY <1>0, <1>n DEF NeedsInv
  <1>1. ASSUME NEW q \in Runs, Quiet(q) PROVE UNCHANGED doc /\
               (pc'[p] \in {"plan", "confirm", "apply"} => pc[p] \in {"plan", "confirm", "apply"})
               /\ (pc'[p] \in Provisioned => pc[p] \in Provisioned)
    BY <1>0, <1>1, QuietFacts
  <1>2. CASE \E q \in Runs : Quiet(q)
    BY <1>1, <1>2, <1>h, <1>k
  <1>4. CASE \E q \in Runs : Start(q)
    BY <1>0, <1>4, <1>n, <1>h, <1>k DEF TypeOK, Start, AfterProvisioning, Provisioned, Wanted
  <1>5. ASSUME NEW q \in Runs, Pull(q) PROVE /\ pc'[p] \notin Provisioned \/ pc'[p] = pc[p]
                                             /\ q # p => doc'[p] = doc[p] /\ pc'[p] = pc[p]
                                             /\ q = p => pc'[p] \in {"merge", "failed"}
    BY <1>0, <1>5 DEF TypeOK, Pull, Provisioned
  <1>6. CASE \E q \in Runs : Pull(q)
    BY <1>5, <1>6, <1>h, <1>k
  <1>7. ASSUME NEW q \in Runs, Merge(q) PROVE /\ pc'[p] \notin Provisioned \/ pc'[p] = pc[p]
                                              /\ q # p => doc'[p] = doc[p] /\ pc'[p] = pc[p]
    BY <1>0, <1>7 DEF TypeOK, Merge, Provisioned
  <1>8. Merge(p) => pc'[p] = "conflict" \/ doc'[p][n] # None
    BY <1>0, <1>n, TemplateFacts DEF TypeOK, Merge
  <1>9. CASE \E q \in Runs : Merge(q)
    BY <1>7, <1>8, <1>9, <1>h, <1>k
  <1>10. ASSUME NEW q \in Runs, Apply(q) PROVE /\ doc' = doc
                                               /\ q # p => pc'[p] = pc[p]
                                               /\ pc'[p] \notin {"plan", "confirm", "apply"} \/ pc'[p] = pc[p]
    BY <1>0, <1>10 DEF TypeOK, Apply, AfterProvisioning
  <1>11. Apply(p) /\ pc'[p] \in Provisioned => backend'[n] # None
    <2>1. SUFFICES ASSUME Apply(p), pc'[p] \in Provisioned PROVE backend'[n] # None
      OBVIOUS
    <2>2. pc[p] = "apply" /\ Reconcile(p)
      BY <1>0, <2>1 DEF TypeOK, Apply, Provisioned
    <2> QED BY <1>0, <1>n, <1>h, <2>2 DEF TypeOK, Reconcile
  <1>12. CASE \E q \in Runs : Apply(q)
    BY <1>10, <1>11, <1>12, <1>h, <1>k
  <1>13. CASE \E m \in Resources, d \in Mine \cup {None} : Dashboard(m, d)
    BY <1>13, <1>h, <1>k DEF Dashboard
  <1>14. CASE \E f \in Paths, d \in Mine \cup {None} : Edit(f, d)
    BY <1>14, <1>h, <1>k DEF Edit
  <1>15. CASE UNCHANGED vars
    BY <1>15, <1>h, <1>k
  <1> QED BY <1>2, <1>4, <1>6, <1>9, <1>12, <1>13, <1>14, <1>15 DEF Next, Step, Quiet

LEMMA DocStep == ASSUME ProvisionInv, [Next]_vars PROVE DocInv'
  <1> USE DEF vars, server, disk, args, Goes
  <1>0. TypeOK /\ DocInv
    BY DEF ProvisionInv
  <1> DEFINE Pulled == {"merge", "plan", "confirm", "apply"}
  <1> SUFFICES ASSUME NEW p \in Runs, NEW n \in Resources,
                      pc'[p] \in Pulled, ~stale'[p], backend'[n] # None
               PROVE  doc'[p][n] = backend'[n]
    BY DEF DocInv
  <1>h. pc[p] \in Pulled /\ ~stale[p] /\ backend[n] # None => doc[p][n] = backend[n]
    BY <1>0 DEF DocInv
  <1>1. ASSUME NEW q \in Runs, Quiet(q) PROVE doc'[p][n] = backend'[n]
    BY <1>0, <1>1, <1>h, QuietFacts
  <1>2. ASSUME NEW q \in Runs, Start(q) PROVE doc'[p][n] = backend'[n]
    BY <1>0, <1>2, <1>h DEF TypeOK, Start, AfterProvisioning
  <1>3. ASSUME NEW q \in Runs, Pull(q) PROVE doc'[p][n] = backend'[n]
    BY <1>0, <1>3, <1>h DEF TypeOK, Pull
  <1>4. ASSUME NEW q \in Runs, Merge(q) PROVE doc'[p][n] = backend'[n]
    <2>1. CASE q # p
      BY <1>0, <1>4, <1>h, <2>1 DEF TypeOK, Merge
    <2>2. CASE q = p
      <3>1. pc[p] = "merge" /\ ~stale[p] /\ backend[n] # None /\ Conflicts(p) = {}
        BY <1>0, <1>4, <2>2 DEF TypeOK, Merge
      <3>2. doc[p][n] = backend[n]
        BY <1>h, <3>1
      <3>3. n \notin Wanted(p)
        BY <3>1, <3>2 DEF Conflicts
      <3> QED BY <1>0, <1>4, <2>2, <3>1, <3>2, <3>3 DEF TypeOK, Merge
    <2> QED BY <2>1, <2>2
  <1>5. ASSUME NEW q \in Runs, Apply(q) PROVE doc'[p][n] = backend'[n]
    <2>1. q # p
      BY <1>0, <1>5 DEF TypeOK, Apply, AfterProvisioning
    <2>2. ~stale[p] /\ backend' = backend
      BY <1>0, <1>5, <2>1 DEF TypeOK, Apply, Reconcile
    <2> QED BY <1>0, <1>5, <1>h, <2>1, <2>2 DEF TypeOK, Apply
  <1>6. ASSUME NEW m \in Resources, NEW d \in Mine \cup {None}, Dashboard(m, d)
        PROVE  doc'[p][n] = backend'[n]
    BY <1>6 DEF Dashboard
  <1>7. ASSUME NEW f \in Paths, NEW d \in Mine \cup {None}, Edit(f, d)
        PROVE  doc'[p][n] = backend'[n]
    BY <1>7, <1>h DEF Edit
  <1>8. CASE UNCHANGED vars
    BY <1>8, <1>h
  <1> QED BY <1>1, <1>2, <1>3, <1>4, <1>5, <1>6, <1>7, <1>8 DEF Next, Step, Quiet

(* A file has a template's contents only if one of its runs got there.     *)
LEMMA BackendStep == ASSUME ProvisionInv, [Next]_vars PROVE BackendBeforeFiles'
  <1> USE DEF vars, server, disk, args, Goes
  <1>0. TypeOK /\ BackendBeforeFiles /\ NeedsInv
    BY DEF ProvisionInv
  <1> SUFFICES ASSUME NEW t \in Templates, NEW n \in Resources, n \in Needs[t],
                      NEW f \in Paths, fs'[f] = t
               PROVE  backend'[n] # None \/ n \in dashed'
    BY DEF BackendBeforeFiles
  <1>k. backend[n] # None \/ n \in dashed => backend'[n] # None \/ n \in dashed'
    BY <1>0, NothingIsPruned
  <1>1. CASE fs[f] = t
    BY <1>0, <1>1, <1>k DEF BackendBeforeFiles
  <1>2. CASE fs[f] # t
    <2>1. ASSUME NEW p \in Runs, NEW phase \in {"skeleton", "render"}, NEW g \in todo[p],
                 Render(p, phase, g)
          PROVE  backend[n] # None \/ n \in dashed
      <3>1. g = f /\ pc[p] = "render" /\ tmpl[p] = t
        BY <1>0, <1>2, <2>1, ProvisionAssumption DEF TypeOK, Render
      <3> QED BY <1>0, <3>1 DEF NeedsInv, Provisioned, Wanted
    <2>2. ASSUME NEW p \in Runs, ClearLib(p) PROVE FALSE
      BY <1>0, <1>2, <2>2, ProvisionAssumption DEF TypeOK, ClearLib
    <2>3. ASSUME NEW g \in Paths, NEW d \in Mine \cup {None}, Edit(g, d) PROVE FALSE
      BY <1>0, <1>2, <2>3, ProvisionAssumption DEF TypeOK, Edit
    <2>4. CASE fs' = fs
      BY <1>2, <2>4
    <2>5. (\E p \in Runs : \/ Start(p) \/ Pull(p) \/ Merge(p) \/ Plan(p) \/ Confirm(p)
                           \/ Apply(p) \/ Collide(p) \/ Flutter(p) \/ SkeletonDone(p)
                           \/ Added(p) \/ Kill(p))
          \/ (\E m \in Resources, d \in Mine \cup {None} : Dashboard(m, d)) \/ UNCHANGED vars
          => fs' = fs
      BY DEF Start, Pull, Merge, Plan, Confirm, Apply, Collide, Flutter, SkeletonDone, Added,
             Kill, Dashboard
    <2> QED BY <1>k, <2>1, <2>2, <2>3, <2>4, <2>5 DEF Next, Step
  <1> QED BY <1>1, <1>2

-----------------------------------------------------------------------------
(* The files of a run that renders. *)

LEMMA RenderStep == ASSUME ProvisionInv, [Next]_vars PROVE RenderInv'
  <1> USE DEF vars, server, disk, args, Goes
  <1>0. TypeOK /\ RenderInv
    BY DEF ProvisionInv
  <1>t. tmpl' = tmpl /\ kind' = kind /\ force' = force
    BY DEF Next, Step, Start, Pull, Merge, Plan, Confirm, Apply, Collide, Flutter, ClearLib,
           SkeletonDone, Added, Kill, Render, Dashboard, Edit
  <1> SUFFICES ASSUME NEW p \in Runs
               PROVE  /\ todo'[p] \subseteq Paths
                      /\ pc'[p] = "render" =>
                           /\ \A f \in Files(p) \ disturbed'[p] :
                                IF f \in todo'[p]
                                THEN kind[p] = "add" /\ ~force[p] /\ f \in Plain => fs'[f] = None
                                ELSE fs'[f] = tmpl[p]
                           /\ todo'[p] \subseteq Files(p)
    BY <1>t DEF RenderInv, Files
  <1>p. todo'[p] \subseteq Paths
    BY <1>0, ProvisionTypeStep DEF TypeOK
  <1>f. Files(p) \subseteq Paths
    BY <1>0, TemplateFacts
  <1> SUFFICES ASSUME pc'[p] = "render"
               PROVE  /\ \A f \in Files(p) \ disturbed'[p] :
                                IF f \in todo'[p]
                                THEN kind[p] = "add" /\ ~force[p] /\ f \in Plain => fs'[f] = None
                                ELSE fs'[f] = tmpl[p]
                      /\ todo'[p] \subseteq Files(p)
    BY <1>p
  <1> DEFINE Rendering == /\ \A f \in Files(p) \ disturbed[p] :
                               IF f \in todo[p]
                               THEN kind[p] = "add" /\ ~force[p] /\ f \in Plain => fs[f] = None
                               ELSE fs[f] = tmpl[p]
                          /\ todo[p] \subseteq Files(p)
  <1>h. pc[p] = "render" => Rendering
    BY <1>0 DEF RenderInv
  <1> HIDE DEF Rendering
  <1>1. (\E q \in Runs : \/ Start(q) \/ Pull(q) \/ Merge(q) \/ Plan(q) \/ Confirm(q) \/ Apply(q)
                         \/ Flutter(q) \/ Added(q) \/ Kill(q))
        \/ (\E m \in Resources, d \in Mine \cup {None} : Dashboard(m, d)) \/ UNCHANGED vars
        => pc[p] = "render" /\ UNCHANGED <<fs, todo, disturbed>>
    BY <1>0 DEF TypeOK, Start, Pull, Merge, Plan, Confirm, Apply, Flutter, Added, Kill, Dashboard,
            AfterProvisioning
  <1>2. CASE pc[p] = "render" /\ UNCHANGED <<fs, todo, disturbed>>
    BY <1>2, <1>h DEF Rendering
  <1>3. ASSUME NEW q \in Runs, Collide(q), q # p
        PROVE  pc[p] = "render" /\ fs' = fs /\ todo'[p] = todo[p] /\ disturbed'[p] = disturbed[p]
    BY <1>0, <1>3 DEF TypeOK, Collide
  <1>4. ASSUME Collide(p)
        PROVE  /\ todo'[p] = Files(p) /\ fs' = fs
               /\ force[p] \/ \A f \in Files(p) \cap Plain : fs[f] = None
    BY <1>0, <1>4 DEF TypeOK, Collide, Clashes
  <1>5. ASSUME NEW q \in Runs, ClearLib(q)
        PROVE  /\ q # p /\ pc[p] = "render" /\ todo'[p] = todo[p]
               /\ disturbed'[p] = Paths \/ (disturbed'[p] = disturbed[p] /\ fs' = fs)
    BY <1>0, <1>5 DEF TypeOK, ClearLib
  <1>6. ASSUME NEW q \in Runs, SkeletonDone(q), q # p
        PROVE  pc[p] = "render" /\ fs' = fs /\ todo'[p] = todo[p] /\ disturbed'[p] = disturbed[p]
    BY <1>0, <1>6 DEF TypeOK, SkeletonDone
  <1>7. ASSUME SkeletonDone(p)
        PROVE  todo'[p] = Files(p) /\ kind[p] = "create"
    BY <1>0, <1>7 DEF TypeOK, SkeletonDone
  <1>8. ASSUME NEW q \in Runs, NEW phase \in {"skeleton", "render"}, NEW g \in todo[q],
               Render(q, phase, g), q # p
        PROVE  /\ pc[p] = "render" /\ todo'[p] = todo[p]
               /\ \/ fs' = fs /\ disturbed' = disturbed
                  \/ /\ \A f \in Paths \ {g} : fs'[f] = fs[f]
                     /\ disturbed'[p] = disturbed[p] \cup {g}
    BY <1>0, <1>8 DEF TypeOK, Render
  <1>9. ASSUME NEW phase \in {"skeleton", "render"}, NEW g \in todo[p], Render(p, phase, g)
        PROVE  /\ pc[p] = "render" /\ todo'[p] = todo[p] \ {g} /\ fs'[g] = tmpl[p]
               /\ \A f \in Paths \ {g} : fs'[f] = fs[f]
               /\ disturbed'[p] = disturbed[p] \ {g}
    BY <1>0, <1>9 DEF TypeOK, Render
  <1>10. ASSUME NEW g \in Paths, NEW d \in Mine \cup {None}, Edit(g, d)
         PROVE  /\ pc[p] = "render" /\ todo'[p] = todo[p]
                /\ \A f \in Paths \ {g} : fs'[f] = fs[f]
                /\ disturbed'[p] = disturbed[p] \cup {g}
    BY <1>0, <1>10 DEF TypeOK, Edit
  <1>11. CASE \E q \in Runs : Collide(q)
    BY <1>3, <1>4, <1>11, <1>h DEF Rendering
  <1>12. CASE \E q \in Runs : ClearLib(q)
    BY <1>5, <1>12, <1>h, <1>f DEF Rendering
  <1>13. CASE \E q \in Runs : SkeletonDone(q)
    BY <1>6, <1>7, <1>13, <1>h DEF Rendering
  <1>14. CASE \E q \in Runs, phase \in {"skeleton", "render"} : \E g \in todo[q] : Render(q, phase, g)
    BY <1>8, <1>9, <1>14, <1>h, <1>f DEF Rendering
  <1>15. CASE \E g \in Paths, d \in Mine \cup {None} : Edit(g, d)
    BY <1>10, <1>15, <1>h, <1>f DEF Rendering
  <1> QED BY <1>1, <1>2, <1>11, <1>12, <1>13, <1>14, <1>15 DEF Next, Step

LEMMA ProvisionStep == ProvisionInv /\ [Next]_vars => ProvisionInv'
  <1> SUFFICES ASSUME ProvisionInv, [Next]_vars PROVE ProvisionInv'
    OBVIOUS
  <1>1. TypeOK'
    BY ProvisionTypeStep DEF ProvisionInv
  <1> QED BY <1>1, BackendStep, NeedsStep, DocStep, RenderStep DEF ProvisionInv

-----------------------------------------------------------------------------
(* Types and the inductive invariant, for any number of runs of any        *)
(* templates.                                                              *)
THEOREM ProvisionInvariant == Spec => []ProvisionInv
  BY ProvisionInit, ProvisionStep, PTL DEF Spec

(* "Backend before files": whatever fails, is killed or interleaves, a     *)
(* file of a template is not on disk before what the template needs was    *)
(* on the server.                                                          *)
THEOREM FilesComeLast == Spec => []BackendBeforeFiles
  <1>1. ProvisionInv => BackendBeforeFiles
    BY DEF ProvisionInv
  <1> QED BY <1>1, ProvisionInvariant, PTL

(* "Provisioning adds": no run changes a definition that existed when it   *)
(* pulled and that has not changed since.                                  *)
THEOREM ProvisioningAdds == Spec => OnlyAdds
  <1>1. ASSUME ProvisionInv, Next, NEW p \in Runs, NEW n \in Resources,
               pc[p] = "apply", pc'[p] # "apply", backend[n] # None, backend'[n] # backend[n]
        PROVE  stale[p]
    <2>1. TypeOK /\ DocInv
      BY <1>1 DEF ProvisionInv
    <2>3. CASE Apply(p)
      BY <1>1, <2>1, <2>3 DEF TypeOK, DocInv, Apply, Reconcile
    <2>4. ASSUME NEW q \in Runs, Apply(q), q # p PROVE FALSE
      BY <1>1, <2>1, <2>4 DEF TypeOK, Apply, Goes, AfterProvisioning
    <2>5. ASSUME NEW m \in Resources, NEW d \in Mine \cup {None}, Dashboard(m, d) PROVE FALSE
      BY <1>1, <2>5 DEF Dashboard, args
    <2>6. ASSUME NEW q \in Runs, Step(q), ~Apply(q) PROVE backend' = backend
      BY <2>6 DEF Step, Start, Pull, Merge, Plan, Confirm, Collide, Flutter, ClearLib,
                  SkeletonDone, Added, Kill, Render, server
    <2>7. ASSUME NEW f \in Paths, NEW d \in Mine \cup {None}, Edit(f, d) PROVE backend' = backend
      BY <2>7 DEF Edit, server
    <2> QED BY <1>1, <2>3, <2>4, <2>5, <2>6, <2>7 DEF Next
  <1>2. ProvisionInv /\ [Next]_vars =>
          [\A p \in Runs, n \in Resources :
             pc[p] = "apply" /\ pc'[p] # "apply" /\ backend[n] # None
             /\ backend'[n] # backend[n] => stale[p]]_vars
    BY <1>1 DEF vars, server
  <1> QED BY <1>2, ProvisionInvariant, PTL DEF Spec, OnlyAdds

(* "Existing files are never overwritten silently": for the paths a        *)
(* template does not compute, and that nobody touched since the command    *)
(* looked.                                                                 *)
THEOREM FilesAreKept == Spec => UnforcedKeepsFiles
  <1> DEFINE Keeps ==
        \A p \in Runs, f \in Paths :
          /\ kind[p] = "add" /\ ~force[p] /\ pc[p] = "render" /\ todo'[p] # todo[p]
          /\ fs[f] # None /\ fs'[f] # fs[f]
          => f \notin Plain \/ f \in disturbed[p]
  <1>1. ASSUME ProvisionInv, Next, NEW p \in Runs, NEW f \in Paths,
               kind[p] = "add", ~force[p], pc[p] = "render", todo'[p] # todo[p],
               fs[f] # None, fs'[f] # fs[f], f \in Plain
        PROVE  f \in disturbed[p]
    <2>1. TypeOK /\ RenderInv
      BY <1>1 DEF ProvisionInv
    <2>2. ASSUME NEW q \in Runs, q # p, Step(q) PROVE todo'[p] = todo[p]
      BY <2>1, <2>2 DEF TypeOK, Step, Start, Pull, Merge, Plan, Confirm, Apply, Collide, Flutter,
                        ClearLib, SkeletonDone, Added, Kill, Render
    <2>3. ASSUME Step(p), ~\E phase \in {"skeleton", "render"}, g \in todo[p] : Render(p, phase, g)
          PROVE  todo' = todo
      BY <1>1, <2>3 DEF Step, Start, Pull, Merge, Plan, Confirm, Apply, Collide, Flutter,
                        ClearLib, SkeletonDone, Added, Kill, Goes
    <2>4. (\E n \in Resources, d \in Mine \cup {None} : Dashboard(n, d))
          \/ (\E g \in Paths, d \in Mine \cup {None} : Edit(g, d)) => todo' = todo
      BY DEF Dashboard, Edit
    <2>5. PICK phase \in {"skeleton", "render"}, g \in todo[p] : Render(p, phase, g)
      BY <1>1, <2>2, <2>3, <2>4 DEF Next
    <2>6. g = f
      BY <1>1, <2>1, <2>5 DEF TypeOK, Render
    <2>7. f \in todo[p] /\ f \in Files(p)
      BY <1>1, <2>1, <2>6 DEF RenderInv
    <2> QED BY <1>1, <2>1, <2>7 DEF RenderInv
  <1>2. ProvisionInv /\ [Next]_vars => [Keeps]_vars
    BY <1>1
  <1> QED BY <1>2, ProvisionInvariant, PTL DEF Spec, UnforcedKeepsFiles

(* A run that says "Added" has its files on disk and its resources on the  *)
(* server, but for what others changed meanwhile.                          *)
THEOREM AddedRunsAreComplete == Spec => AddedIsComplete
  <1> DEFINE Complete ==
        \A p \in Runs :
          Goes(p, "render", "added") =>
            /\ \A f \in Files(p) \ disturbed[p] : fs[f] = tmpl[p]
            /\ \A n \in Wanted(p) \ dashed : backend[n] # None
  <1>1. ASSUME ProvisionInv, Next, NEW p \in Runs, Goes(p, "render", "added")
        PROVE  /\ \A f \in Files(p) \ disturbed[p] : fs[f] = tmpl[p]
               /\ \A n \in Wanted(p) \ dashed : backend[n] # None
    <2>1. TypeOK /\ RenderInv /\ NeedsInv /\ pc[p] = "render" /\ pc'[p] = "added"
      BY <1>1 DEF ProvisionInv, Goes, TypeOK
    <2>2. \A n \in Wanted(p) : backend[n] # None \/ n \in dashed
      BY <2>1 DEF NeedsInv, Provisioned
    <2>3. todo[p] = {}
      <3>1. ASSUME NEW q \in Runs, Step(q), ~Added(q) \/ q # p PROVE pc'[p] # "added" \/ pc'[p] = pc[p]
        BY <2>1, <3>1 DEF TypeOK, Step, Start, Pull, Merge, Plan, Confirm, Apply, Collide, Flutter,
               ClearLib, SkeletonDone, Added, Kill, Render, Goes, AfterProvisioning
      <3>2. (\E n \in Resources, d \in Mine \cup {None} : Dashboard(n, d))
            \/ (\E g \in Paths, d \in Mine \cup {None} : Edit(g, d)) => pc' = pc
        BY DEF Dashboard, Edit
      <3>3. Added(p)
        BY <1>1, <2>1, <3>1, <3>2 DEF Next
      <3> QED BY <3>3 DEF Added
    <2> QED BY <2>1, <2>2, <2>3 DEF RenderInv
  <1>2. ProvisionInv /\ [Next]_vars => [Complete]_vars
    BY <1>1 DEF vars, Goes
  <1> QED BY <1>2, ProvisionInvariant, PTL DEF Spec, AddedIsComplete
=============================================================================
