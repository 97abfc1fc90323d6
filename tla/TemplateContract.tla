-------------------------- MODULE TemplateContract --------------------------
(***************************************************************************)
(* What the template cache promises the commands that use it, with their   *)
(* downloads, their staging directories and their races hidden: an entry   *)
(* appears at once, and is from then on what the catalog named, unless a   *)
(* hand edits it or a directory was slow to be filled; and a command gets  *)
(* its template from an entry that is what its catalog names.              *)
(***************************************************************************)
CONSTANTS Runs, Parts, NoDir

VARIABLES
  cache,           \* the entry at each path
  phase,           \* per run: new, working, ready, failed or killed
  want, optOut,    \* per run: the catalog entry, and if unsigned ones will do
  edited,          \* the paths that were edited by hand
  late             \* has a run taken longer than a day?

tvars == <<cache, phase, want, optOut, edited, late>>

\* Is this directory the bundle that a catalog entry names?
Holds(dir, e) ==
  /\ dir # NoDir /\ dir.meta = e.sha
  /\ dir.files \subseteq {e.sha} \X Parts[e.sha]
  /\ late \/ dir.files = {e.sha} \X Parts[e.sha]

Init ==
  /\ \A i \in DOMAIN cache : cache[i] = NoDir
  /\ phase = [p \in Runs |-> "new"]
  /\ edited = {} /\ late = FALSE

Becomes(p, from, to) ==
  /\ phase[p] = from /\ phase' = [phase EXCEPT ![p] = to]
  /\ UNCHANGED <<cache, want, optOut, edited, late>>

Start(p) == Becomes(p, "new", "working")
GiveUp(p) == Becomes(p, "working", "failed") \/ Becomes(p, "working", "killed")

\* A run is given its template.
Serve(p) ==
  /\ Becomes(p, "working", "ready")
  /\ want[p].id \in edited \/ Holds(cache[want[p].id], want[p])

\* A run adds the entry it wants, where there is none.
Add(p) ==
  /\ phase[p] = "working"
  /\ want[p].signed \/ optOut[p]
  /\ cache[want[p].id] = NoDir
  /\ Holds(cache'[want[p].id], want[p])
  /\ cache' = [cache EXCEPT ![want[p].id] = cache'[want[p].id]]
  /\ UNCHANGED <<phase, want, optOut, edited, late>>

\* The cache is on a disk the user can write to.
Edit(i) ==
  /\ cache[i] # NoDir /\ edited' = edited \cup {i}
  /\ cache' = [cache EXCEPT ![i] = cache'[i]]
  /\ UNCHANGED <<phase, want, optOut, late>>

Delay == late' = TRUE /\ UNCHANGED <<cache, phase, want, optOut, edited>>

Next ==
  \/ \E p \in Runs : Start(p) \/ Add(p) \/ Serve(p) \/ GiveUp(p)
  \/ (\E i \in DOMAIN cache : Edit(i)) \/ Delay

Spec == Init /\ [][Next]_tvars
=============================================================================
