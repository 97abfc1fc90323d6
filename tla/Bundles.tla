------------------------------- MODULE Bundles -------------------------------
(***************************************************************************)
(* Runtime bundles (src/cmd/bundle.go): `koolbase bundle deploy` reads the *)
(* bundle directory, creates a draft to learn its id and version, packages *)
(* the directory with both in the manifest, uploads the archive, records   *)
(* its checksum and publishes; recall, update-mandatory and delete are one *)
(* call.  The directory belongs to the user, who may edit it at any time.  *)
(*                                                                         *)
(* The content of the directory is a version number, 0 when it is not      *)
(* valid.  A bundle's archive is what was packaged: the payload in its     *)
(* manifest, the version of the files beside it and the draft's number; a  *)
(* checksum is the archive it was computed from.                           *)
(***************************************************************************)
EXTENDS Naturals, Sequences, Remote

CONSTANTS Deployers,    \* who runs `bundle deploy`, each in a directory
          MaxEdits,     \* bound on the edits of a directory
          MaxBundles    \* bound on the deploys started

ASSUME BundlesAssumption == MaxEdits \in Nat \ {0} /\ MaxBundles \in Nat

VARIABLES content,   \* the version of each deployer's directory
          bundles,   \* server: sequence of bundle records
          deploy,    \* the deploy each deployer runs
          deploys    \* how many were started

bVars == <<content, bundles, deploy, deploys>>

Content == 0..MaxEdits
NoArchive == [payload |-> 0, files |-> 0, number |-> 0]
Archives == [payload: Content, files: Content, number: Nat]
NotRunning == [pc |-> "idle", payload |-> 0, number |-> 0, archive |-> NoArchive]

BundleRecords ==
  [payload: Content, archive: Archives, checksum: Archives,
   status: {"draft", "published", "recalled", "deleted"}, mandatory: BOOLEAN]
Deploys ==
  [pc: {"idle", "draft", "package", "upload", "checksum", "publish", "ok",
        "failed"},
   payload: Content, number: Nat, archive: Archives]

BundlesTypeOK ==
  /\ content \in [Deployers -> Content]
  /\ bundles \in Seq(BundleRecords)
  /\ deploy \in [Deployers -> Deploys]
  /\ deploys \in 0..MaxBundles

BundlesInit ==
  /\ content \in [Deployers -> {0, 1}]
  /\ bundles = <<>> /\ deploys = 0
  /\ deploy = [d \in Deployers |-> NotRunning]

-----------------------------------------------------------------------------
DeployTo(d, pc) == deploy' = [deploy EXCEPT ![d].pc = pc]
\* The calls of the API client.
WithBundle(o, payload) ==
  IF ~CarriedOut(o) THEN bundles
  ELSE Append(bundles, [payload |-> payload, archive |-> NoArchive,
                        checksum |-> NoArchive, status |-> "draft",
                        mandatory |-> FALSE])
\* A call on the draft; one that was deleted meanwhile is not found.
DraftOf(d) == bundles[deploy[d].number]
OnDraft(d, o, b) ==
  /\ DraftOf(d).status = "deleted" => o = "refused"
  /\ bundles' = IF CarriedOut(o) THEN [bundles EXCEPT ![deploy[d].number] = b]
                ELSE bundles

EditDirectory(d) ==
  /\ content[d] < MaxEdits
  /\ content' = [content EXCEPT ![d] = @ + 1]
  /\ UNCHANGED <<bundles, deploy, deploys>>

\* The directory is checked for its files and its JSON, and the payload of the
\* draft is read from it.  A dry run packages, prints and stops there.
ReadPayload(d) ==
  /\ deploy[d].pc \in {"idle", "ok", "failed"} /\ deploys < MaxBundles
  /\ deploys' = deploys + 1
  /\ \/ content[d] = 0 /\ deploy' = [deploy EXCEPT ![d].pc = "failed"]
     \/ content[d] # 0 /\ deploy' = [deploy EXCEPT ![d].pc = "ok"]
     \/ /\ content[d] # 0
        /\ deploy' = [deploy EXCEPT ![d] =
             [pc |-> "draft", payload |-> content[d], number |-> 0,
              archive |-> NoArchive]]
  /\ UNCHANGED <<content, bundles>>

\* The draft is created with the checksum "pending".
CreateDraft(d, o) ==
  /\ deploy[d].pc = "draft"
  /\ bundles' = WithBundle(o, deploy[d].payload)
  /\ IF Reported(o)
     THEN deploy' = [deploy EXCEPT ![d].pc = "package",
                                   ![d].number = Len(bundles')]
     ELSE DeployTo(d, "failed")
  /\ UNCHANGED <<content, deploys>>

\* The files are read again, into the archive; its checksum is computed as it
\* is written.
Package(d) ==
  /\ deploy[d].pc = "package"
  /\ \/ DeployTo(d, "failed")
     \/ deploy' = [deploy EXCEPT ![d].pc = "upload",
          ![d].archive = [payload |-> deploy[d].payload, files |-> content[d],
                          number |-> deploy[d].number]]
  /\ UNCHANGED <<content, bundles, deploys>>

UploadArchive(d, o) ==
  /\ deploy[d].pc = "upload"
  /\ OnDraft(d, o, [DraftOf(d) EXCEPT !.archive = deploy[d].archive])
  /\ DeployTo(d, IF Reported(o) THEN "checksum" ELSE "failed")
  /\ UNCHANGED <<content, deploys>>

UpdateChecksum(d, o) ==
  /\ deploy[d].pc = "checksum"
  /\ OnDraft(d, o, [DraftOf(d) EXCEPT !.checksum = deploy[d].archive])
  /\ DeployTo(d, IF Reported(o) THEN "publish" ELSE "failed")
  /\ UNCHANGED <<content, deploys>>

\* A bug: a publish that was not answered is sent again.
PublishAgain(d, o) ==
  /\ deploy[d].pc = "publish"
  /\ OnDraft(d, o, [DraftOf(d) EXCEPT !.status = "published"])
  /\ DeployTo(d, IF Reported(o) THEN "ok" ELSE "publish")
  /\ UNCHANGED <<content, deploys>>

PublishBundle(d, o) ==
  /\ deploy[d].pc = "publish"
  /\ OnDraft(d, o, [DraftOf(d) EXCEPT !.status = "published"])
  /\ DeployTo(d, IF Reported(o) THEN "ok" ELSE "failed")
  /\ UNCHANGED <<content, deploys>>

\* Calls on a bundle the user names, each of which may go unanswered.

RecallBundle(b) ==
  /\ bundles[b].status = "published"
  /\ bundles' = [bundles EXCEPT ![b].status = "recalled"]
  /\ UNCHANGED <<content, deploy, deploys>>

UpdateMandatory(b) ==
  /\ bundles[b].status # "deleted"
  /\ bundles' = [bundles EXCEPT ![b].mandatory = ~@]
  /\ UNCHANGED <<content, deploy, deploys>>

\* A published bundle cannot be deleted: the server answers 409 and the
\* command says to recall it first.
DeleteBundle(b) ==
  /\ bundles[b].status \in {"draft", "recalled"}
  /\ bundles' = [bundles EXCEPT ![b].status = "deleted"]
  /\ UNCHANGED <<content, deploy, deploys>>

DeployStep(d) ==
  \/ Package(d)
  \/ \E o \in Outcomes :
       \/ CreateDraft(d, o) \/ UploadArchive(d, o)
       \/ UpdateChecksum(d, o) \/ PublishBundle(d, o)

BundlesNext ==
  \/ \E d \in Deployers : EditDirectory(d) \/ ReadPayload(d) \/ DeployStep(d)
  \/ \E b \in DOMAIN bundles :
       RecallBundle(b) \/ UpdateMandatory(b) \/ DeleteBundle(b)

BundlesSpec == BundlesInit /\ [][BundlesNext]_bVars

-----------------------------------------------------------------------------
\* A published bundle has its archive, packaged for this very draft, with the
\* payload the draft was created with, and the checksum on record is that of
\* the archive on the server.  Six calls and two readings of the directory can
\* each fail on the way, the directory may be edited between them, and another
\* user may delete the draft or flip its mandatory flag meanwhile.
Sealed(b) ==
  /\ bundles[b].archive.number = b
  /\ bundles[b].archive.payload = bundles[b].payload
  /\ bundles[b].checksum = bundles[b].archive
PublishedIsSealed ==
  \A b \in DOMAIN bundles : bundles[b].status = "published" => Sealed(b)

\* Devices are shown a bundle only whole, and never another under its number:
\* what published, recalled and deleted bundles are like at any time is a
\* behaviour of BundleContract, whoever deploys and whatever calls fail.
Shown == {b \in DOMAIN bundles : bundles[b].status \in {"published", "recalled"}}
Shelf == [b \in Shown |-> bundles[b]]
Devices == INSTANCE BundleContract WITH shown <- Shelf
BundlesStayWhole == Devices!Spec

-----------------------------------------------------------------------------
\* Why: what a deploy has done so far is still on the server, in a draft that
\* no other deploy writes to.

HasDraft(d) == deploy[d].pc \in {"package", "upload", "checksum", "publish"}

\* The draft is as the calls of the deploy left it, and was not published.
DraftAsLeft(d) ==
  /\ deploy[d].number \in DOMAIN bundles
  /\ DraftOf(d).payload = deploy[d].payload
  /\ DraftOf(d).status \in {"draft", "deleted"}
  /\ deploy[d].pc # "package" =>
       /\ deploy[d].archive.payload = deploy[d].payload
       /\ deploy[d].archive.number = deploy[d].number
  /\ deploy[d].pc \in {"checksum", "publish"} =>
       DraftOf(d).archive = deploy[d].archive
  /\ deploy[d].pc = "publish" => DraftOf(d).checksum = deploy[d].archive
DraftInv == \A d \in Deployers : HasDraft(d) => DraftAsLeft(d)

OwnDraftInv ==
  \A d, e \in Deployers :
    d # e /\ HasDraft(d) /\ HasDraft(e) => deploy[d].number # deploy[e].number

BundlesInv == BundlesTypeOK /\ DraftInv /\ OwnDraftInv /\ PublishedIsSealed
=============================================================================
