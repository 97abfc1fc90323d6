-------------------------- MODULE CommandLineProofs --------------------------
(***************************************************************************)
(* Proofs about MCCommandLine, where the components that share no state    *)
(* are put together: it implements each of them, so that what is proved of *)
(* one holds in all of its scenes.                                         *)
(***************************************************************************)
EXTENDS MCCommandLine, CodePushProofs, BuildProofs, AccountProofs

(* A step of one scene is a step of its component, and stutters in the       *)
(* others.                                                                   *)
LEMMA SceneStep ==
  [Next]_vars =>
    /\ [CodePushNext]_cpVars /\ [BundlesNext]_bVars /\ [BuildStampNext]_stVars
    /\ [LoginNext]_loginVars /\ [McpNext]_mcpVars /\ [DiffNext]_diffVars
    /\ [MigrateNext]_migrateVars /\ [BackfillNext]_backfillVars
  BY DEF Next, vars

(* Each component is in the run of the whole command line what it is alone:  *)
(* none of its steps is missing or changes what belongs to another.          *)
THEOREM ScenesAreComponents ==
  Spec => /\ CodePushSpec /\ BundlesSpec /\ BuildStampSpec /\ LoginSpec
          /\ McpSpec /\ DiffSpec /\ MigrateSpec /\ BackfillSpec
  <1>1. Init => /\ CodePushInit /\ BundlesInit /\ BuildStampInit /\ LoginInit
                /\ McpInit /\ DiffInit /\ MigrateInit /\ BackfillInit
    BY DEF Init
  <1> QED BY <1>1, SceneStep, PTL DEF Spec, CodePushSpec, BundlesSpec, BuildStampSpec,
             LoginSpec, McpSpec, DiffSpec, MigrateSpec, BackfillSpec

(* The values of all components have their types, whatever the constants.    *)
THEOREM AllTypesAreRight == Spec => []TypeOK
  <1>1. Init => scene \in Scenes
    BY DEF Init
  <1>2. scene \in Scenes /\ [Next]_vars => (scene \in Scenes)'
    BY DEF Next, vars
  <1>3. /\ CodePushInv => CodePushTypeOK
        /\ BundlesInv => BundlesTypeOK
        /\ BuildStampInv => BuildStampTypeOK
        /\ LoginInv => LoginTypeOK
        /\ McpInv => McpTypeOK
        /\ DiffInv => DiffTypeOK
        /\ MigrateInv => MigrateTypeOK
        /\ BackfillInv => BackfillTypeOK
    BY DEF CodePushInv, BundlesInv, BuildStampInv, LoginInv, McpInv, DiffInv,
           MigrateInv, BackfillInv
  <1>4. scene \in Scenes /\ CodePushTypeOK /\ BundlesTypeOK /\ BuildStampTypeOK
        /\ LoginTypeOK /\ McpTypeOK /\ DiffTypeOK /\ MigrateTypeOK /\ BackfillTypeOK
        => TypeOK
    BY DEF TypeOK
  <1> QED BY <1>1, <1>2, <1>3, <1>4, ScenesAreComponents, CodePushInvariant,
             BundlesInvariant, BuildStampInvariant, LoginInvariant, McpInvariant,
             DiffInvariant, MigrateInvariant, BackfillInvariant, PTL DEF Spec

(* All that the commands promise together, each under the conditions of its  *)
(* property: a release that ends well has its builds registered, patches and *)
(* bundles are of what was built, diffs rebuild, tool answers are true, an   *)
(* archive can be imported, and a backfill that completes leaves no record   *)
(* neither indexed nor queued; a login goes on with one result only, and     *)
(* what is in the configuration, in a flag and on the devices changes only   *)
(* as the commands say, and a diff ends.                                     *)
THEOREM CommandLineIsSafe ==
  Spec =>
    /\ []( /\ ShippedIsPatchable /\ PatchesAreSound /\ PatchedInOrder
          /\ PublishedIsSealed /\ CompleteBuildSupportsCodePush
          /\ BundleMapsItsLibraries /\ FirstResultDecides /\ AnswersAreTrue
          /\ DiffRebuilds /\ ArchiveImports /\ CompleteBackfillMissesNone )
    /\ ConfigHolds /\ OnlyGivenFieldsChange /\ BundlesStayWhole /\ DiffEnds
  BY ScenesAreComponents, ReleasesArePatchable, PatchesArePaired, PatchesComeInOrder,
     PublishedBundlesAreSealed, BuildsReportThemselves, BundlesMapTheirLibraries,
     OnlyTheFirstResultCounts, ToolAnswersAreTrue, DiffsRebuild, ArchivesImport,
     BackfillsMissNone, CommandsKeepConfig, SetsKeepOtherFields, DeploysAreAtomic,
     DiffsEnd, PTL
=============================================================================
