----------------------------- MODULE Provision -----------------------------
(***************************************************************************)
(* `koolbase add <template>` and `koolbase create --template` once the     *)
(* template is in hand (cmd/add.go, cmd/create.go, cmd/provision.go,       *)
(* internal/templates/resources.go, internal/scaffold): the backend the    *)
(* template needs is created first, then its files are written.  Several   *)
(* runs, the dashboard and the developer act on the same project; a call   *)
(* to the server may fail, or succeed with its answer lost.                *)
(*                                                                         *)
(* A resource or a file is known by who defined it: a template, or one of  *)
(* the values of Mine.                                                     *)
(***************************************************************************)
EXTENDS Naturals

CONSTANTS
  Runs, Templates,
  Resources,     \* collections and buckets
  Paths,         \* files under lib/
  Plain,         \* the paths no template spells with a {% %} expression
  Needs,         \* [Templates -> SUBSET Resources]
  Brings,        \* [Templates -> SUBSET Paths]
  Skeleton,      \* paths `create` writes itself
  Mine,          \* what the dashboard and the developer define
  Base,          \* the skeleton's contents
  None,
  MaxDash, MaxEdits   \* bounds on the two others

ASSUME ProvisionAssumption ==
  /\ Needs \in [Templates -> SUBSET Resources]
  /\ Brings \in [Templates -> SUBSET Paths]
  /\ Plain \subseteq Paths /\ Skeleton \subseteq Paths
  /\ None \notin Templates \cup Mine \cup {Base}
  /\ Templates \cap (Mine \cup {Base}) = {}
  /\ MaxDash \in Nat /\ MaxEdits \in Nat

Definition == Templates \cup Mine \cup {None}

VARIABLES
  backend,        \* [Resources -> Definition]: the project on the server
  fs,             \* [Paths -> Definition or Base]: the project directory
  project,        \* the project directory exists
  pc, kind, tmpl, force, doc, todo,   \* per run
  stale,          \* history, per run: the backend changed after its pull
  disturbed,      \* history, per run: paths others changed since it looked
  dashed,         \* history: resources the dashboard changed
  dashes, edits   \* counters for the bounds

server == <<backend, stale, dashed, dashes>>
disk == <<fs, project, disturbed, edits>>
args == <<kind, tmpl, force>>
vars == <<server, disk, args, pc, doc, todo>>

Running == {"pull", "merge", "plan", "confirm", "apply", "collide", "flutter", "clear",
            "skeleton", "render"}
Ended == {"refused", "conflict", "cancelled", "collision", "failed", "added"}

TypeOK ==
  /\ backend \in [Resources -> Definition]
  /\ fs \in [Paths -> Definition \cup {Base}]
  /\ project \in BOOLEAN
  /\ pc \in [Runs -> {"new"} \cup Running \cup Ended]
  /\ kind \in [Runs -> {"add", "create"}]
  /\ tmpl \in [Runs -> Templates] /\ force \in [Runs -> BOOLEAN]
  /\ doc \in [Runs -> [Resources -> Definition]]
  /\ todo \in [Runs -> SUBSET Paths]
  /\ stale \in [Runs -> BOOLEAN]
  /\ disturbed \in [Runs -> SUBSET Paths]
  /\ dashed \subseteq Resources /\ dashes \in Nat /\ edits \in Nat
  /\ \A p \in Runs : pc[p] = "collide" => kind[p] = "add"
  /\ \A p \in Runs : pc[p] \in {"flutter", "clear", "skeleton"} => kind[p] = "create"

Init ==
  /\ backend \in [Resources -> Mine \cup {None}]
  /\ fs = [f \in Paths |-> None]
  /\ project \in BOOLEAN
  /\ pc = [p \in Runs |-> "new"]
  /\ kind \in [Runs -> {"add", "create"}]
  /\ tmpl \in [Runs -> Templates]
  /\ force \in [Runs -> BOOLEAN]
  /\ doc = [p \in Runs |-> backend]
  /\ todo = [p \in Runs |-> {}]
  /\ stale = [p \in Runs |-> FALSE]
  /\ disturbed = [p \in Runs |-> {}]
  /\ dashed = {} /\ dashes = 0 /\ edits = 0

-----------------------------------------------------------------------------
Goes(p, from, to) == pc[p] = from /\ pc' = [pc EXCEPT ![p] = to]
Wanted(p) == Needs[tmpl[p]]
Files(p) == Brings[tmpl[p]]

AfterProvisioning(p) == IF kind[p] = "add" THEN "collide" ELSE "flutter"

\* add needs a Flutter project, create a directory that does not exist; the
\* login, the catalog or the template cache may refuse as well.  A template
\* without resources is not provisioned.
Start(p) ==
  /\ \/ /\ project = (kind[p] = "add")
        /\ Goes(p, "new", IF Wanted(p) = {} THEN AfterProvisioning(p) ELSE "pull")
     \/ Goes(p, "new", "refused")
  /\ UNCHANGED <<server, disk, args, doc, todo>>

\* provisionTemplate: SnapshotPull.
Pull(p) ==
  /\ \/ Goes(p, "pull", "merge")
        /\ doc' = [doc EXCEPT ![p] = backend] /\ stale' = [stale EXCEPT ![p] = FALSE]
     \/ Goes(p, "pull", "failed") /\ UNCHANGED <<doc, stale>>
  /\ UNCHANGED <<backend, dashed, dashes, disk, args, todo>>

\* A bug: a resource that exists is reused.
NoConflicts(p) == {}

\* MergeIntoSnapshot: name existence, in the document that was pulled.
Conflicts(p) == {n \in Wanted(p) : doc[p][n] # None}

Merge(p) ==
  /\ IF Conflicts(p) # {}
     THEN Goes(p, "merge", "conflict") /\ UNCHANGED doc
     ELSE /\ Goes(p, "merge", "plan")
          /\ doc' = [doc EXCEPT ![p] =
                       [n \in Resources |-> IF n \in Wanted(p) THEN tmpl[p] ELSE @[n]]]
  /\ UNCHANGED <<server, disk, args, todo>>

\* SnapshotApply with dry_run changes nothing.
Plan(p) ==
  /\ Goes(p, "plan", "confirm") \/ Goes(p, "plan", "failed")
  /\ UNCHANGED <<server, disk, args, doc, todo>>

Confirm(p) ==
  /\ Goes(p, "confirm", "apply") \/ Goes(p, "confirm", "cancelled")
  /\ UNCHANGED <<server, disk, args, doc, todo>>

\* The server, without prune: every resource of the document gets the
\* definition it has there, the others stay.
Reconcile(p) ==
  /\ backend' = [n \in Resources |-> IF doc[p][n] # None THEN doc[p][n] ELSE backend[n]]
  /\ stale' = [q \in Runs |-> stale[q] \/ (q # p /\ backend' # backend)]

\* A bug: an error of the apply is not an error of the command.
ApplyIgnoringErrors(p) ==
  /\ Goes(p, "apply", AfterProvisioning(p))
  /\ Reconcile(p) \/ UNCHANGED <<backend, stale>>
  /\ UNCHANGED <<dashed, dashes, disk, args, doc, todo>>

\* SnapshotApply.  When its answer is lost, what it did stays done.
Apply(p) ==
  /\ \/ Goes(p, "apply", AfterProvisioning(p)) /\ Reconcile(p)
     \/ Goes(p, "apply", "failed") /\ (Reconcile(p) \/ UNCHANGED <<backend, stale>>)
  /\ UNCHANGED <<dashed, dashes, disk, args, doc, todo>>

\* collisions looks for the paths as the template spells them, so it finds
\* a rendered path only if the template does not compute it.
Clashes(p) == {f \in Files(p) \cap Plain : fs[f] # None}

\* A bug: the command goes on after listing the clashes.
CollideAndGoOn(p) ==
  /\ Goes(p, "collide", "render")
  /\ todo' = [todo EXCEPT ![p] = Files(p)] /\ disturbed' = [disturbed EXCEPT ![p] = {}]
  /\ UNCHANGED <<server, fs, project, edits, args, doc>>

Collide(p) ==
  /\ IF Clashes(p) # {} /\ ~force[p]
     THEN Goes(p, "collide", "collision") /\ UNCHANGED <<todo, disturbed>>
     ELSE /\ Goes(p, "collide", "render")
          /\ todo' = [todo EXCEPT ![p] = Files(p)]
          /\ disturbed' = [disturbed EXCEPT ![p] = {}]
  /\ UNCHANGED <<server, fs, project, edits, args, doc>>

\* flutter create: the directory may be there even when it fails.
Flutter(p) ==
  /\ \/ Goes(p, "flutter", "clear") /\ project' = TRUE
     \/ Goes(p, "flutter", "failed") /\ project' \in {project, TRUE}
  /\ UNCHANGED <<server, fs, disturbed, edits, args, doc, todo>>

Others(p, changed) ==
  disturbed' = [q \in Runs |-> IF q = p THEN disturbed[q] ELSE disturbed[q] \cup changed]

\* os.RemoveAll(lib); lib/ exists again with the first file rendered.
ClearLib(p) ==
  /\ \/ /\ Goes(p, "clear", "skeleton")
        /\ fs' = [f \in Paths |-> None] /\ todo' = [todo EXCEPT ![p] = Skeleton]
        /\ disturbed' = [q \in Runs |-> IF q = p THEN {} ELSE Paths]
     \/ Goes(p, "clear", "failed") /\ UNCHANGED <<fs, todo, disturbed>>
  /\ UNCHANGED <<server, project, edits, args, doc>>

\* A bug: Render stops at the first error and reports none.
RenderQuietly(p, phase, f) ==
  /\ pc[p] = phase /\ f \in todo[p]
  /\ \/ /\ fs' = [fs EXCEPT ![f] = IF phase = "skeleton" THEN Base ELSE tmpl[p]]
        /\ todo' = [todo EXCEPT ![p] = @ \ {f}]
        /\ disturbed' = [q \in Runs |-> IF q = p THEN disturbed[q] \ {f}
                                        ELSE disturbed[q] \cup {f}]
        /\ UNCHANGED pc
     \/ todo' = [todo EXCEPT ![p] = {}] /\ UNCHANGED <<fs, pc, disturbed>>
  /\ UNCHANGED <<server, project, edits, args, doc>>

\* scaffold.Render: a file at a time, over whatever is there.
Render(p, phase, f) ==
  /\ pc[p] = phase /\ f \in todo[p]
  /\ \/ /\ fs' = [fs EXCEPT ![f] = IF phase = "skeleton" THEN Base ELSE tmpl[p]]
        /\ todo' = [todo EXCEPT ![p] = @ \ {f}]
        /\ disturbed' = [q \in Runs |-> IF q = p THEN disturbed[q] \ {f}
                                        ELSE disturbed[q] \cup {f}]
        /\ UNCHANGED pc
     \/ Goes(p, phase, "failed") /\ UNCHANGED <<fs, todo, disturbed>>
  /\ UNCHANGED <<server, project, edits, args, doc>>

SkeletonDone(p) ==
  /\ Goes(p, "skeleton", "render") /\ todo[p] = {}
  /\ todo' = [todo EXCEPT ![p] = Files(p)]
  /\ UNCHANGED <<server, disk, args, doc>>

Added(p) ==
  /\ Goes(p, "render", "added") /\ todo[p] = {}
  /\ UNCHANGED <<server, disk, args, doc, todo>>

\* Ctrl-C, or a machine that goes down.
Kill(p) ==
  /\ pc[p] \in Running
  /\ pc' = [pc EXCEPT ![p] = "failed"]
  /\ UNCHANGED <<server, disk, args, doc, todo>>

-----------------------------------------------------------------------------
(* The dashboard, and the developer in the project directory.              *)

Dashboard(n, d) ==
  /\ dashes < MaxDash /\ backend[n] # d
  /\ backend' = [backend EXCEPT ![n] = d]
  /\ dashed' = dashed \cup {n} /\ dashes' = dashes + 1
  /\ stale' = [p \in Runs |-> TRUE]
  /\ UNCHANGED <<disk, args, pc, doc, todo>>

Edit(f, d) ==
  /\ project /\ edits < MaxEdits /\ fs[f] # d
  /\ fs' = [fs EXCEPT ![f] = d] /\ edits' = edits + 1
  /\ disturbed' = [p \in Runs |-> disturbed[p] \cup {f}]
  /\ UNCHANGED <<server, project, args, pc, doc, todo>>

Step(p) ==
  \/ Start(p) \/ Pull(p) \/ Merge(p) \/ Plan(p) \/ Confirm(p) \/ Apply(p)
  \/ Collide(p) \/ Flutter(p) \/ ClearLib(p) \/ SkeletonDone(p) \/ Added(p) \/ Kill(p)
  \/ \E phase \in {"skeleton", "render"}, f \in todo[p] : Render(p, phase, f)

Next ==
  \/ \E p \in Runs : Step(p)
  \/ \E n \in Resources, d \in Mine \cup {None} : Dashboard(n, d)
  \/ \E f \in Paths, d \in Mine \cup {None} : Edit(f, d)

Spec == Init /\ [][Next]_vars

-----------------------------------------------------------------------------
(* "Backend before files": a file of a template is only on disk once every *)
(* resource that template needs exists, or has existed and was changed by  *)
(* the dashboard; whatever fails, is killed or interleaves.                *)
BackendBeforeFiles ==
  \A t \in Templates, n \in Resources :
    (\E f \in Paths : fs[f] = t) /\ n \in Needs[t] => backend[n] # None \/ n \in dashed

(* "Provisioning adds": unless the backend changed between its pull and    *)
(* its apply, a run leaves every definition that exists as it is.          *)
OnlyAdds ==
  [][\A p \in Runs, n \in Resources :
       pc[p] = "apply" /\ pc'[p] # "apply" /\ backend[n] # None /\ backend'[n] # backend[n] =>
         stale[p]]_vars

(* "Existing files are never overwritten silently": an add that was not    *)
(* forced replaces a file only if its path is one the template computes,   *)
(* or if it was written after the command had looked.                      *)
UnforcedKeepsFiles ==
  [][\A p \in Runs, f \in Paths :
       /\ kind[p] = "add" /\ ~force[p] /\ pc[p] = "render" /\ todo'[p] # todo[p]
       /\ fs[f] # None /\ fs'[f] # fs[f]
       => f \notin Plain \/ f \in disturbed[p]]_vars

(* A run that says "Added" has its files on disk and its resources on the  *)
(* server, but for those somebody else has changed meanwhile.              *)
AddedIsComplete ==
  [][\A p \in Runs :
       Goes(p, "render", "added") =>
         /\ \A f \in Files(p) \ disturbed[p] : fs[f] = tmpl[p]
         /\ \A n \in Wanted(p) \ dashed : backend[n] # None]_vars

(* What these rest on: the inductive invariant, in named parts.            *)

\* From the apply on, the resources a run needs exist, or are the dashboard's.
Provisioned == {"collide", "flutter", "clear", "skeleton", "render"}
NeedsInv ==
  \A p \in Runs : \A n \in Wanted(p) :
    /\ pc[p] \in {"plan", "confirm", "apply"} => doc[p][n] # None
    /\ pc[p] \in Provisioned => backend[n] # None \/ n \in dashed

\* A document that is not stale says what the backend says, and adds to it.
DocInv ==
  \A p \in Runs, n \in Resources :
    pc[p] \in {"merge", "plan", "confirm", "apply"} /\ ~stale[p] /\ backend[n] # None =>
      doc[p][n] = backend[n]

\* What a rendering run has written and what it has still to write.
RenderInv ==
  \A p \in Runs :
    /\ todo[p] \subseteq Paths
    /\ pc[p] = "render" =>
         \A f \in Files(p) \ disturbed[p] :
           IF f \in todo[p] THEN kind[p] = "add" /\ ~force[p] /\ f \in Plain => fs[f] = None
           ELSE fs[f] = tmpl[p]
    /\ pc[p] = "render" => todo[p] \subseteq Files(p)

ProvisionInv == TypeOK /\ BackendBeforeFiles /\ NeedsInv /\ DocInv /\ RenderInv

(* "nothing was written - re-run with --force to overwrite": a forced add  *)
(* after one that stopped for existing files is not refused for the        *)
(* resources the first has created.                                        *)
ForceGoesThrough ==
  [][\A p, q \in Runs :
       /\ pc[p] = "collision" /\ tmpl[q] = tmpl[p] /\ kind[q] = "add" /\ force[q]
       /\ Goes(q, "merge", "conflict")
       => \E n \in Conflicts(q) : doc[q][n] # tmpl[q]]_vars
=============================================================================
