--------------------------- MODULE MCCommandLine ---------------------------
(***************************************************************************)
(* The components that share no state with each other, checked in one run: *)
(* a behaviour is about one of them, chosen in the initial state, and the  *)
(* variables of the others keep the values they start with.                *)
(***************************************************************************)
EXTENDS CodePush, Bundles, BuildStamp, Login, McpTools, KbDiff, Migrate,
        Backfill, TLC

CONSTANTS Scenes,               \* the components to check
          ci, dev,              \* Jobs
          t1, t2,               \* Shells
          a1, a2,               \* Calls
          enabled, rollout,     \* Fields of a flag
          posts, comments       \* Names of collections

VARIABLE scene

vars == <<scene, cpVars, bVars, stVars, loginVars, mcpVars, diffVars,
          migrateVars, backfillVars>>

-----------------------------------------------------------------------------
\* The command lines.  The build server releases and patches every
\* architecture; a developer pushes single patches, and retries or races with
\* the server.
Release(archs, login, noReg) ==
  [cmd |-> "release", archs |-> archs, ver |-> 1, login |-> login,
   noRegister |-> noReg, publish |-> FALSE, release |-> 0, stored |-> FALSE,
   kind |-> "full"]
Push(cmd, kind, archs, ver, publish, release, stored) ==
  [cmd |-> cmd, archs |-> archs, ver |-> ver, login |-> TRUE,
   noRegister |-> FALSE, publish |-> publish, release |-> release,
   stored |-> stored, kind |-> kind]
MCCommands ==
  ci :> {Release(<<"arm64", "arm">>, TRUE, FALSE),
         Push("android", "diff", <<"arm64", "x64", "arm">>, 1, TRUE, 0, FALSE)}
  @@ dev :> {Release(<<"arm64">>, FALSE, TRUE), Release(<<"arm">>, FALSE, FALSE),
             Push("push", "identity", <<"arm">>, 2, FALSE, 0, FALSE),
             Push("push", "full", <<"arm64">>, 1, TRUE, 1, TRUE),
             Push("push", "diff", <<"arm64">>, 2, TRUE, 1, FALSE),
             Push("ios", "bytecode", <<"ios">>, 1, TRUE, 0, FALSE)}

\* What reaches a listener: the provider's answer and a stray request with
\* another state.  One with an error is refused just as the stray one is.
MCRequests ==
  {[error |-> FALSE, state |-> TRUE,  code |-> TRUE],
   [error |-> FALSE, state |-> FALSE, code |-> TRUE]}

\* --ref: a plain one, one beside the parent's own field, a field twice.
Ref(col, field_, target) == [col |-> col, field |-> field_, target |-> target]
MCRef == <<Ref(comments, "field", posts)>>
MCRefLists ==
  {<<Ref(posts, "field", comments), Ref(comments, posts, posts)>>,
   MCRef,
   <<Ref(comments, "field", posts), Ref(comments, "field", comments)>>}

-----------------------------------------------------------------------------
\* A component that is not on has one initial state.
Init ==
  /\ scene \in Scenes
  /\ IF scene = "bundles"  THEN TRUE ELSE content = [d \in Deployers |-> 1]
  /\ IF scene = "login"    THEN TRUE ELSE saved = Absent
  /\ IF scene = "diff"     THEN TRUE ELSE old = <<0>> /\ new = <<0>>
  /\ IF scene = "migrate"  THEN TRUE ELSE docs = <<>> /\ refs = MCRef
  /\ IF scene = "backfill" THEN TRUE ELSE text = [r \in 1..Records |-> NoText]
  /\ CodePushInit /\ BundlesInit /\ BuildStampInit /\ LoginInit
  /\ McpInit /\ MigrateInit /\ BackfillInit /\ DiffInit
  /\ scene = "backfill" \/ backfill.kind = "embed"

Next ==
  \/ scene = "codepush" /\ CodePushNext /\ UNCHANGED
       <<scene, bVars, stVars, loginVars, mcpVars, diffVars, migrateVars, backfillVars>>
  \/ scene = "bundles" /\ BundlesNext /\ UNCHANGED
       <<scene, cpVars, stVars, loginVars, mcpVars, diffVars, migrateVars, backfillVars>>
  \/ scene = "stamp" /\ BuildStampNext /\ UNCHANGED
       <<scene, cpVars, bVars, loginVars, mcpVars, diffVars, migrateVars, backfillVars>>
  \/ scene = "login" /\ LoginNext /\ UNCHANGED
       <<scene, cpVars, bVars, stVars, mcpVars, diffVars, migrateVars, backfillVars>>
  \/ scene = "mcp" /\ McpNext /\ UNCHANGED
       <<scene, cpVars, bVars, stVars, loginVars, diffVars, migrateVars, backfillVars>>
  \/ scene = "diff" /\ DiffNext /\ UNCHANGED
       <<scene, cpVars, bVars, stVars, loginVars, mcpVars, migrateVars, backfillVars>>
  \/ scene = "migrate" /\ MigrateNext /\ UNCHANGED
       <<scene, cpVars, bVars, stVars, loginVars, mcpVars, diffVars, backfillVars>>
  \/ scene = "backfill" /\ BackfillNext /\ UNCHANGED
       <<scene, cpVars, bVars, stVars, loginVars, mcpVars, diffVars, migrateVars>>

Spec == /\ Init /\ [][Next]_vars
        /\ CodePushFairness /\ LoginFairness /\ McpFairness /\ BackfillFairness

-----------------------------------------------------------------------------
\* The types of all components.
TypeOK ==
  /\ scene \in Scenes
  /\ CodePushTypeOK /\ BundlesTypeOK /\ BuildStampTypeOK /\ LoginTypeOK
  /\ McpTypeOK /\ DiffTypeOK /\ MigrateTypeOK /\ BackfillTypeOK

\* Is a command of the first or second job, shell or agent going on?
Busy(k) ==
  \/ job[<<ci, dev>>[k]].pc \in Steps
  \/ shell[<<t1, t2>>[k]].pc \in LoginSteps
  \/ call[<<a1, a2>>[k]].pc \in ToolSteps
  \/ k = 1 /\ backfill.pc = "page"

\* Every release, push, login, logout, tool call and backfill ends: nobody is
\* busy with one for ever, whatever other commands, callbacks and failing calls
\* come in between.  Calls time out (client.go:48), the browser is waited for
\* three minutes and its listener two seconds (flow.go:59, callback.go:109), and
\* loops are over finite lists; a stray callback whose handler hangs keeps nobody
\* waiting.
EveryCommandEnds == \A k \in {1, 2} : []<>~Busy(k)
=============================================================================
