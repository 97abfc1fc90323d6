----------------------------- MODULE BuildProofs ----------------------------
(***************************************************************************)
(* Proofs about Bundles, for any number of deployers, edits and bundles,   *)
(* and about BuildStamp, for any number of edits and commands.             *)
(***************************************************************************)
EXTENDS Bundles, BuildStamp, TLAPS

(* Runtime bundles                                                           *)

LEMMA BundlesInitInv == BundlesInit => BundlesInv
  <1> SUFFICES ASSUME BundlesInit PROVE BundlesInv
    OBVIOUS
  <1>1. BundlesTypeOK
    BY BundlesAssumption DEF BundlesInit, BundlesTypeOK, NotRunning, NoArchive,
       Archives, Content, Deploys
  <1>2. \A d \in Deployers : ~HasDraft(d)
    BY DEF BundlesInit, NotRunning, HasDraft
  <1>3. DOMAIN bundles = {}
    BY DEF BundlesInit
  <1> QED BY <1>1, <1>2, <1>3 DEF BundlesInv, DraftInv, OwnDraftInv,
             PublishedIsSealed

(* Replacing an element of a sequence.                                       *)
LEMMA ReplaceElement ==
  ASSUME NEW S, NEW s \in Seq(S), NEW n \in DOMAIN s, NEW x \in S
  PROVE  /\ [s EXCEPT ![n] = x] \in Seq(S)
         /\ DOMAIN [s EXCEPT ![n] = x] = DOMAIN s
         /\ [s EXCEPT ![n] = x][n] = x
         /\ \A k \in DOMAIN s : k # n => [s EXCEPT ![n] = x][k] = s[k]
  OBVIOUS

(* The draft of a deploy is a bundle, and so is one with another archive,    *)
(* checksum, status or flag.                                                 *)
LEMMA RecordEdits ==
  ASSUME NEW b \in BundleRecords, NEW a \in Archives
  PROVE  /\ [b EXCEPT !.archive = a] \in BundleRecords
         /\ [b EXCEPT !.checksum = a] \in BundleRecords
         /\ [b EXCEPT !.status = "published"] \in BundleRecords
         /\ [b EXCEPT !.status = "recalled"] \in BundleRecords
         /\ [b EXCEPT !.status = "deleted"] \in BundleRecords
         /\ [b EXCEPT !.mandatory = ~@] \in BundleRecords
  BY DEF BundleRecords
(* What a call on the draft of a deploy changes.                             *)
LEMMA BundleCall ==
  ASSUME BundlesTypeOK, NEW d \in Deployers, NEW o \in Outcomes,
         deploy[d].number \in DOMAIN bundles,
         NEW x \in BundleRecords, OnDraft(d, o, x)
  PROVE  /\ bundles' \in Seq(BundleRecords)
         /\ DOMAIN bundles' = DOMAIN bundles
         /\ \A b \in DOMAIN bundles :
              b # deploy[d].number => bundles'[b] = bundles[b]
         /\ bundles'[deploy[d].number] = IF CarriedOut(o) THEN x ELSE DraftOf(d)
         /\ DraftOf(d).status = "deleted" => bundles' = bundles
  BY ReplaceElement DEF OnDraft, DraftOf, BundlesTypeOK, CarriedOut

(* A deploy goes on to another step, or ends.                                *)
LEMMA DeployGoesOn ==
  ASSUME BundlesTypeOK, NEW d \in Deployers,
         NEW pc \in {"checksum", "publish", "ok", "failed"}, DeployTo(d, pc)
  PROVE  /\ deploy' \in [Deployers -> Deploys]
         /\ \A e \in Deployers : e # d => deploy'[e] = deploy[e]
         /\ deploy'[d].pc = pc
         /\ deploy'[d].number = deploy[d].number
         /\ deploy'[d].payload = deploy[d].payload
         /\ deploy'[d].archive = deploy[d].archive
  BY DEF DeployTo, BundlesTypeOK, Deploys

(* The types of what a deploy holds.                                         *)
LEMMA DeployFacts ==
  ASSUME BundlesTypeOK, NEW d \in Deployers
  PROVE  /\ deploy[d].payload \in Content
         /\ deploy[d].number \in Nat
         /\ deploy[d].archive \in Archives
         /\ content[d] \in Content
         /\ deploy[d].number \in DOMAIN bundles => DraftOf(d) \in BundleRecords
  BY DEF BundlesTypeOK, Deploys, DraftOf

(* A step of a deploy on its own draft disturbs no other deploy and no other *)
(* bundle: it is enough to look at what it makes of the two.                 *)
LEMMA OwnStep ==
  ASSUME BundlesInv, NEW d \in Deployers, HasDraft(d),
         UNCHANGED <<content, deploys>>,
         bundles' \in Seq(BundleRecords),
         DOMAIN bundles' = DOMAIN bundles,
         \A b \in DOMAIN bundles : b # deploy[d].number => bundles'[b] = bundles[b],
         deploy' \in [Deployers -> Deploys],
         \A e \in Deployers : e # d => deploy'[e] = deploy[e],
         deploy'[d].number = deploy[d].number,
         HasDraft(d)' => DraftAsLeft(d)',
         bundles'[deploy[d].number].status = "published" =>
           Sealed(deploy[d].number)'
  PROVE  BundlesInv'
  <1> USE DEF BundlesInv
  <1>1. BundlesTypeOK'
    BY DEF BundlesTypeOK
  <1>2. OwnDraftInv'
    BY DEF OwnDraftInv, HasDraft
  <1>3. ASSUME NEW e \in Deployers, e # d, HasDraft(e)' PROVE DraftAsLeft(e)'
    <2>1. deploy'[e] = deploy[e] /\ HasDraft(e) /\ DraftAsLeft(e)
      BY <1>3 DEF HasDraft, DraftInv
    <2>2. deploy[e].number # deploy[d].number
      BY <1>3, <2>1 DEF OwnDraftInv
    <2>3. DraftOf(e)' = DraftOf(e)
      BY <2>1, <2>2 DEF DraftOf, DraftAsLeft
    <2> QED BY <2>1, <2>3 DEF DraftAsLeft
  <1>4. DraftInv'
    BY <1>3 DEF DraftInv
  <1>5. ASSUME NEW b \in DOMAIN bundles, b # deploy[d].number,
               bundles'[b].status = "published"
        PROVE  Sealed(b)'
    BY <1>5 DEF PublishedIsSealed, Sealed
  <1>6. PublishedIsSealed'
    BY <1>5 DEF PublishedIsSealed
  <1> QED BY <1>1, <1>2, <1>4, <1>6

LEMMA PackageKeeps ==
  ASSUME BundlesInv, NEW d \in Deployers, Package(d)
  PROVE  BundlesInv'
  <1> USE DEF BundlesInv
  <1>1. deploy[d].pc = "package" /\ HasDraft(d) /\ DraftAsLeft(d)
    BY DEF Package, HasDraft, DraftInv
  <1>2. bundles' = bundles /\ bundles \in Seq(BundleRecords)
    BY DEF Package, BundlesTypeOK
  <1>3. CASE DeployTo(d, "failed")
    <2>1. ~HasDraft(d)'
      BY <1>3, DeployGoesOn DEF HasDraft
    <2>2. bundles[deploy[d].number].status # "published"
      BY <1>1 DEF DraftAsLeft, DraftOf
    <2> QED BY <1>1, <1>2, <1>3, <2>1, <2>2, DeployGoesOn, OwnStep DEF Package
  <1>4. CASE deploy' = [deploy EXCEPT ![d].pc = "upload",
               ![d].archive = [payload |-> deploy[d].payload, files |-> content[d],
                               number |-> deploy[d].number]]
    <2>1. /\ deploy' \in [Deployers -> Deploys]
          /\ \A e \in Deployers : e # d => deploy'[e] = deploy[e]
          /\ deploy'[d].pc = "upload"
          /\ deploy'[d].number = deploy[d].number
          /\ deploy'[d].payload = deploy[d].payload
          /\ deploy'[d].archive = [payload |-> deploy[d].payload,
                                   files |-> content[d], number |-> deploy[d].number]
      BY <1>4, DeployFacts DEF BundlesTypeOK, Deploys, Archives
    <2>2. DraftAsLeft(d)'
      BY <1>1, <1>2, <2>1 DEF DraftAsLeft, DraftOf
    <2>3. bundles[deploy[d].number].status # "published"
      BY <1>1 DEF DraftAsLeft, DraftOf
    <2> QED BY <1>1, <1>2, <2>1, <2>2, <2>3, OwnStep DEF Package
  <1> QED BY <1>3, <1>4 DEF Package

LEMMA UploadArchiveKeeps ==
  ASSUME BundlesInv, NEW d \in Deployers, NEW o \in Outcomes, UploadArchive(d, o)
  PROVE  BundlesInv'
  <1> USE DEF BundlesInv
  <1>1. deploy[d].pc = "upload" /\ HasDraft(d) /\ DraftAsLeft(d)
    BY DEF UploadArchive, HasDraft, DraftInv
  <1>2. deploy[d].number \in DOMAIN bundles
    BY <1>1 DEF DraftAsLeft
  <1> DEFINE x == [DraftOf(d) EXCEPT !.archive = deploy[d].archive]
  <1>3. DraftOf(d) \in BundleRecords /\ x \in BundleRecords
    BY <1>2, DeployFacts, RecordEdits
  <1>4. /\ x.payload = DraftOf(d).payload
        /\ x.status = DraftOf(d).status
        /\ x.archive = deploy[d].archive
    BY <1>1, <1>3 DEF BundleRecords, DraftAsLeft
  <1>5. OnDraft(d, o, x)
    BY DEF UploadArchive
  <1> HIDE DEF x
  <1>6. /\ bundles' \in Seq(BundleRecords)
        /\ DOMAIN bundles' = DOMAIN bundles
        /\ \A b \in DOMAIN bundles :
             b # deploy[d].number => bundles'[b] = bundles[b]
        /\ bundles'[deploy[d].number] = IF CarriedOut(o) THEN x ELSE DraftOf(d)
    BY <1>2, <1>3, <1>5, BundleCall
  <1>7. /\ deploy' \in [Deployers -> Deploys]
        /\ \A e \in Deployers : e # d => deploy'[e] = deploy[e]
        /\ deploy'[d].pc = IF Reported(o) THEN "checksum" ELSE "failed"
        /\ deploy'[d].number = deploy[d].number
        /\ deploy'[d].payload = deploy[d].payload
        /\ deploy'[d].archive = deploy[d].archive
    BY DeployGoesOn DEF UploadArchive
  <1>8. HasDraft(d)' => DraftAsLeft(d)'
    BY <1>1, <1>2, <1>4, <1>6, <1>7 DEF HasDraft, DraftAsLeft, DraftOf, Reported, CarriedOut
  <1>9. bundles'[deploy[d].number].status # "published"
    BY <1>1, <1>2, <1>4, <1>6 DEF DraftAsLeft, DraftOf
  <1> QED BY <1>1, <1>6, <1>7, <1>8, <1>9, OwnStep DEF UploadArchive

LEMMA ChecksumKeeps ==
  ASSUME BundlesInv, NEW d \in Deployers, NEW o \in Outcomes, UpdateChecksum(d, o)
  PROVE  BundlesInv'
  <1> USE DEF BundlesInv
  <1>1. deploy[d].pc = "checksum" /\ HasDraft(d) /\ DraftAsLeft(d)
    BY DEF UpdateChecksum, HasDraft, DraftInv
  <1>2. deploy[d].number \in DOMAIN bundles
    BY <1>1 DEF DraftAsLeft
  <1> DEFINE x == [DraftOf(d) EXCEPT !.checksum = deploy[d].archive]
  <1>3. DraftOf(d) \in BundleRecords /\ x \in BundleRecords
    BY <1>2, DeployFacts, RecordEdits
  <1>4. /\ x.payload = DraftOf(d).payload
        /\ x.status = DraftOf(d).status
        /\ x.archive = deploy[d].archive
        /\ x.checksum = deploy[d].archive
    BY <1>1, <1>3 DEF BundleRecords, DraftAsLeft
  <1>5. OnDraft(d, o, x)
    BY DEF UpdateChecksum
  <1> HIDE DEF x
  <1>6. /\ bundles' \in Seq(BundleRecords)
        /\ DOMAIN bundles' = DOMAIN bundles
        /\ \A b \in DOMAIN bundles :
             b # deploy[d].number => bundles'[b] = bundles[b]
        /\ bundles'[deploy[d].number] = IF CarriedOut(o) THEN x ELSE DraftOf(d)
    BY <1>2, <1>3, <1>5, BundleCall
  <1>7. /\ deploy' \in [Deployers -> Deploys]
        /\ \A e \in Deployers : e # d => deploy'[e] = deploy[e]
        /\ deploy'[d].pc = IF Reported(o) THEN "publish" ELSE "failed"
        /\ deploy'[d].number = deploy[d].number
        /\ deploy'[d].payload = deploy[d].payload
        /\ deploy'[d].archive = deploy[d].archive
    BY DeployGoesOn DEF UpdateChecksum
  <1>8. HasDraft(d)' => DraftAsLeft(d)'
    BY <1>1, <1>2, <1>4, <1>6, <1>7 DEF HasDraft, DraftAsLeft, DraftOf, Reported, CarriedOut
  <1>9. bundles'[deploy[d].number].status # "published"
    BY <1>1, <1>2, <1>4, <1>6 DEF DraftAsLeft, DraftOf
  <1> QED BY <1>1, <1>6, <1>7, <1>8, <1>9, OwnStep DEF UpdateChecksum

LEMMA PublishBundleKeeps ==
  ASSUME BundlesInv, NEW d \in Deployers, NEW o \in Outcomes, PublishBundle(d, o)
  PROVE  BundlesInv'
  <1> USE DEF BundlesInv
  <1>1. deploy[d].pc = "publish" /\ HasDraft(d) /\ DraftAsLeft(d)
    BY DEF PublishBundle, HasDraft, DraftInv
  <1>2. deploy[d].number \in DOMAIN bundles
    BY <1>1 DEF DraftAsLeft
  <1> DEFINE x == [DraftOf(d) EXCEPT !.status = "published"]
  <1>3. DraftOf(d) \in BundleRecords /\ x \in BundleRecords
    BY <1>2, DeployFacts, RecordEdits
  <1>4. /\ x.payload = DraftOf(d).payload
        /\ x.archive = deploy[d].archive
        /\ x.archive.payload = x.payload
        /\ x.archive.number = deploy[d].number
        /\ x.checksum = x.archive
    BY <1>1, <1>3 DEF BundleRecords, DraftAsLeft
  <1>5. OnDraft(d, o, x)
    BY DEF PublishBundle
  <1> HIDE DEF x
  <1>6. /\ bundles' \in Seq(BundleRecords)
        /\ DOMAIN bundles' = DOMAIN bundles
        /\ \A b \in DOMAIN bundles :
             b # deploy[d].number => bundles'[b] = bundles[b]
        /\ bundles'[deploy[d].number] = IF CarriedOut(o) THEN x ELSE DraftOf(d)
    BY <1>2, <1>3, <1>5, BundleCall
  <1>7. /\ deploy' \in [Deployers -> Deploys]
        /\ \A e \in Deployers : e # d => deploy'[e] = deploy[e]
        /\ deploy'[d].pc = IF Reported(o) THEN "ok" ELSE "failed"
        /\ deploy'[d].number = deploy[d].number
        /\ deploy'[d].payload = deploy[d].payload
        /\ deploy'[d].archive = deploy[d].archive
    BY DeployGoesOn DEF PublishBundle
  <1>8. ~HasDraft(d)'
    BY <1>7 DEF HasDraft
  <1>9. bundles'[deploy[d].number].status = "published" => Sealed(deploy[d].number)'
    BY <1>1, <1>2, <1>4, <1>6, <1>7 DEF DraftAsLeft, DraftOf, Sealed
  <1> QED BY <1>1, <1>6, <1>7, <1>8, <1>9, OwnStep DEF PublishBundle

(* A deploy that starts, and one whose draft is not created, have no draft.  *)
LEMMA NoDraftYet ==
  ASSUME BundlesInv, NEW d \in Deployers, ~HasDraft(d)',
         bundles' = bundles, content' = content, deploys' \in 0..MaxBundles,
         deploy' \in [Deployers -> Deploys],
         \A e \in Deployers : e # d => deploy'[e] = deploy[e]
  PROVE  BundlesInv'
  <1> USE DEF BundlesInv
  <1>1. BundlesTypeOK'
    BY DEF BundlesTypeOK
  <1>2. \A e \in Deployers : HasDraft(e)' => HasDraft(e) /\ deploy'[e] = deploy[e]
    BY DEF HasDraft
  <1>3. OwnDraftInv'
    BY <1>2 DEF OwnDraftInv
  <1>4. DraftInv'
    BY <1>2 DEF DraftInv, DraftAsLeft, DraftOf
  <1>5. PublishedIsSealed'
    BY DEF PublishedIsSealed, Sealed
  <1> QED BY <1>1, <1>3, <1>4, <1>5

LEMMA ReadKeeps ==
  ASSUME BundlesInv, NEW d \in Deployers, ReadPayload(d)
  PROVE  BundlesInv'
  <1> USE DEF BundlesInv
  <1>1. deploys' \in 0..MaxBundles
    BY BundlesAssumption DEF ReadPayload, BundlesTypeOK
  <1>2. /\ deploy' \in [Deployers -> Deploys]
        /\ \A e \in Deployers : e # d => deploy'[e] = deploy[e]
        /\ deploy'[d].pc \in {"failed", "ok", "draft"}
    <2>1. CASE deploy' = [deploy EXCEPT ![d].pc = "failed"]
      BY <2>1, DeployGoesOn DEF DeployTo
    <2>2. CASE deploy' = [deploy EXCEPT ![d].pc = "ok"]
      BY <2>2, DeployGoesOn DEF DeployTo
    <2>3. CASE deploy' = [deploy EXCEPT ![d] =
                 [pc |-> "draft", payload |-> content[d], number |-> 0,
                  archive |-> NoArchive]]
      <3> DEFINE x == [pc |-> "draft", payload |-> content[d], number |-> 0,
                       archive |-> NoArchive]
      <3>1. NoArchive \in Archives
        BY BundlesAssumption DEF NoArchive, Archives, Content
      <3>2. x \in Deploys /\ x.pc = "draft"
        BY <3>1, DeployFacts DEF Deploys
      <3>3. deploy' = [deploy EXCEPT ![d] = x]
        BY <2>3
      <3> HIDE DEF x
      <3> QED BY <3>2, <3>3 DEF BundlesTypeOK
    <2> QED BY <2>1, <2>2, <2>3 DEF ReadPayload
  <1>3. ~HasDraft(d)'
    BY <1>2 DEF HasDraft
  <1> QED BY <1>1, <1>2, <1>3, NoDraftYet DEF ReadPayload

(* A new draft is the last bundle, so that no deploy has it yet.             *)
LEMMA CreateKeeps ==
  ASSUME BundlesInv, NEW d \in Deployers, NEW o \in Outcomes, CreateDraft(d, o)
  PROVE  BundlesInv'
  <1> USE DEF BundlesInv
  <1>1. bundles \in Seq(BundleRecords) /\ deploy[d].pc = "draft"
    BY DEF BundlesTypeOK, CreateDraft
  <1> DEFINE draft == [payload |-> deploy[d].payload, archive |-> NoArchive,
                       checksum |-> NoArchive, status |-> "draft",
                       mandatory |-> FALSE]
  <1>2. draft \in BundleRecords
    BY DeployFacts, BundlesAssumption DEF BundleRecords, Archives, NoArchive, Content
  <1>3. draft.payload = deploy[d].payload /\ draft.status = "draft"
    OBVIOUS
  <1>4. bundles' = IF CarriedOut(o) THEN Append(bundles, draft) ELSE bundles
    BY DEF CreateDraft, WithBundle
  <1> HIDE DEF draft
  <1>5. /\ bundles' \in Seq(BundleRecords)
        /\ \A b \in DOMAIN bundles : b \in DOMAIN bundles' /\ bundles'[b] = bundles[b]
        /\ \A b \in DOMAIN bundles' \ DOMAIN bundles : bundles'[b] = draft
    BY <1>1, <1>2, <1>4
  <1>6. CASE ~Reported(o)
    <2>1. DeployTo(d, "failed")
      BY <1>6 DEF CreateDraft
    <2>2. /\ deploy' \in [Deployers -> Deploys]
          /\ \A e \in Deployers : e # d => deploy'[e] = deploy[e]
          /\ ~HasDraft(d)'
      BY <2>1, DeployGoesOn DEF HasDraft
    <2>3. \A e \in Deployers : HasDraft(e)' => HasDraft(e) /\ deploy'[e] = deploy[e]
      BY <2>2 DEF HasDraft
    <2>4. BundlesTypeOK'
      BY <1>5, <2>2 DEF BundlesTypeOK, CreateDraft
    <2>5. DraftInv'
      BY <1>5, <2>3 DEF DraftInv, DraftAsLeft, DraftOf
    <2>6. OwnDraftInv'
      BY <2>3 DEF OwnDraftInv
    <2>7. PublishedIsSealed'
      BY <1>3, <1>5 DEF PublishedIsSealed, Sealed
    <2> QED BY <2>4, <2>5, <2>6, <2>7
  <1>7. CASE Reported(o)
    <2>1. bundles' = Append(bundles, draft)
      BY <1>4, <1>7 DEF Reported, CarriedOut
    <2>2. /\ Len(bundles') \in DOMAIN bundles' \ DOMAIN bundles
          /\ Len(bundles') \in Nat
          /\ bundles'[Len(bundles')] = draft
      BY <1>1, <1>2, <2>1
    <2>3. deploy' = [deploy EXCEPT ![d].pc = "package", ![d].number = Len(bundles')]
      BY <1>7 DEF CreateDraft
    <2>4. /\ deploy' \in [Deployers -> Deploys]
          /\ \A e \in Deployers : e # d => deploy'[e] = deploy[e]
          /\ deploy'[d].pc = "package"
          /\ deploy'[d].number = Len(bundles')
          /\ deploy'[d].payload = deploy[d].payload
      BY <2>2, <2>3 DEF BundlesTypeOK, Deploys
    <2>5. BundlesTypeOK'
      BY <1>5, <2>4 DEF BundlesTypeOK, CreateDraft
    <2>6. DraftAsLeft(d)'
      BY <1>3, <2>2, <2>4 DEF DraftAsLeft, DraftOf
    <2>7. \A e \in Deployers : e # d /\ HasDraft(e)' =>
            /\ HasDraft(e) /\ deploy'[e] = deploy[e]
            /\ deploy[e].number \in DOMAIN bundles
      BY <2>4 DEF HasDraft, DraftInv, DraftAsLeft
    <2>8. DraftInv'
      BY <1>5, <2>6, <2>7 DEF DraftInv, DraftAsLeft, DraftOf
    <2>9. OwnDraftInv'
      BY <2>2, <2>4, <2>7 DEF OwnDraftInv
    <2>10. PublishedIsSealed'
      BY <1>3, <1>5 DEF PublishedIsSealed, Sealed
    <2> QED BY <2>5, <2>8, <2>9, <2>10
  <1> QED BY <1>6, <1>7

(* The calls on a bundle a user names: a draft may be deleted under its      *)
(* deploy, and only what was published is recalled.                          *)
LEMMA NamedBundleKeeps ==
  ASSUME BundlesInv, NEW b \in DOMAIN bundles,
         RecallBundle(b) \/ UpdateMandatory(b) \/ DeleteBundle(b)
  PROVE  BundlesInv'
  <1> USE DEF BundlesInv
  <1>1. bundles \in Seq(BundleRecords) /\ bundles[b] \in BundleRecords
    BY DEF BundlesTypeOK
  <1>2. PICK x \in BundleRecords :
          /\ bundles' = [bundles EXCEPT ![b] = x]
          /\ x.payload = bundles[b].payload
          /\ x.archive = bundles[b].archive
          /\ x.checksum = bundles[b].checksum
          /\ x.status = "published" => bundles[b].status = "published"
          /\ bundles[b].status \in {"draft", "deleted"} =>
               x.status \in {"draft", "deleted"}
    <2>1. CASE RecallBundle(b)
      <3> DEFINE x == [bundles[b] EXCEPT !.status = "recalled"]
      <3>1. x \in BundleRecords /\ bundles' = [bundles EXCEPT ![b] = x]
        BY <1>1, <2>1, RecordEdits DEF RecallBundle, BundleRecords
      <3>2. /\ x.payload = bundles[b].payload /\ x.archive = bundles[b].archive
            /\ x.checksum = bundles[b].checksum /\ x.status = "recalled"
            /\ bundles[b].status = "published"
        BY <1>1, <2>1 DEF BundleRecords, RecallBundle
      <3> HIDE DEF x
      <3> QED BY <3>1, <3>2
    <2>2. CASE UpdateMandatory(b)
      <3> DEFINE x == [bundles[b] EXCEPT !.mandatory = ~@]
      <3>1. x \in BundleRecords /\ bundles' = [bundles EXCEPT ![b] = x]
        BY <1>1, <2>2, RecordEdits DEF UpdateMandatory, BundleRecords
      <3>2. /\ x.payload = bundles[b].payload /\ x.archive = bundles[b].archive
            /\ x.checksum = bundles[b].checksum /\ x.status = bundles[b].status
        BY <1>1 DEF BundleRecords
      <3> HIDE DEF x
      <3> QED BY <3>1, <3>2
    <2>3. CASE DeleteBundle(b)
      <3> DEFINE x == [bundles[b] EXCEPT !.status = "deleted"]
      <3>1. x \in BundleRecords /\ bundles' = [bundles EXCEPT ![b] = x]
        BY <1>1, <2>3, RecordEdits DEF DeleteBundle, BundleRecords
      <3>2. /\ x.payload = bundles[b].payload /\ x.archive = bundles[b].archive
            /\ x.checksum = bundles[b].checksum /\ x.status = "deleted"
        BY <1>1 DEF BundleRecords
      <3> HIDE DEF x
      <3> QED BY <3>1, <3>2
    <2> QED BY <2>1, <2>2, <2>3
  <1>3. /\ bundles' \in Seq(BundleRecords) /\ DOMAIN bundles' = DOMAIN bundles
        /\ bundles'[b] = x
        /\ \A c \in DOMAIN bundles : c # b => bundles'[c] = bundles[c]
    BY <1>1, <1>2, ReplaceElement
  <1>4. UNCHANGED <<content, deploy, deploys>>
    BY DEF RecallBundle, UpdateMandatory, DeleteBundle
  <1>5. BundlesTypeOK'
    BY <1>3, <1>4 DEF BundlesTypeOK
  <1>6. ASSUME NEW d \in Deployers, HasDraft(d)' PROVE DraftAsLeft(d)'
    <2>1. HasDraft(d) /\ DraftAsLeft(d)
      BY <1>4, <1>6 DEF HasDraft, DraftInv
    <2>2. /\ DraftOf(d)'.payload = DraftOf(d).payload
          /\ DraftOf(d)'.archive = DraftOf(d).archive
          /\ DraftOf(d)'.checksum = DraftOf(d).checksum
          /\ DraftOf(d)'.status \in {"draft", "deleted"}
      BY <1>2, <1>3, <1>4, <2>1 DEF DraftOf, DraftAsLeft
    <2> QED BY <1>3, <1>4, <2>1, <2>2 DEF DraftAsLeft
  <1>7. OwnDraftInv'
    BY <1>4 DEF OwnDraftInv, HasDraft
  <1>8. PublishedIsSealed'
    BY <1>2, <1>3 DEF PublishedIsSealed, Sealed
  <1> QED BY <1>5, <1>6, <1>7, <1>8 DEF DraftInv

LEMMA EditBundleKeeps ==
  ASSUME BundlesInv, NEW d \in Deployers, EditDirectory(d)
  PROVE  BundlesInv'
  <1> USE DEF BundlesInv
  <1>1. BundlesTypeOK'
    BY BundlesAssumption DEF BundlesTypeOK, EditDirectory, Content
  <1> QED BY <1>1 DEF EditDirectory, DraftInv, OwnDraftInv, PublishedIsSealed, HasDraft,
             DraftAsLeft, DraftOf, Sealed

LEMMA BundlesStep == BundlesInv /\ [BundlesNext]_bVars => BundlesInv'
  <1> SUFFICES ASSUME BundlesInv, [BundlesNext]_bVars PROVE BundlesInv'
    OBVIOUS
  <1>1. CASE UNCHANGED bVars
    BY <1>1 DEF bVars, BundlesInv, BundlesTypeOK, DraftInv, OwnDraftInv, PublishedIsSealed,
       HasDraft, DraftAsLeft, DraftOf, Sealed
  <1>2. ASSUME NEW d \in Deployers, EditDirectory(d) \/ ReadPayload(d) PROVE BundlesInv'
    BY <1>2, EditBundleKeeps, ReadKeeps
  <1>3. ASSUME NEW d \in Deployers, DeployStep(d) PROVE BundlesInv'
    BY <1>3, PackageKeeps, CreateKeeps, UploadArchiveKeeps, ChecksumKeeps, PublishBundleKeeps
       DEF DeployStep
  <1>4. ASSUME NEW b \in DOMAIN bundles,
               RecallBundle(b) \/ UpdateMandatory(b) \/ DeleteBundle(b)
        PROVE  BundlesInv'
    BY <1>4, NamedBundleKeeps
  <1> QED BY <1>1, <1>2, <1>3, <1>4 DEF BundlesNext

(* What a deploy has done is on the server, in a draft of its own, however   *)
(* calls fail, directories are edited and drafts are deleted (bundle.go:132).*)
THEOREM BundlesInvariant == BundlesSpec => []BundlesInv
  BY BundlesInitInv, BundlesStep, PTL DEF BundlesSpec

(* For any number of deploys and users, a published bundle has the archive   *)
(* packaged for it, with its payload, and the checksum of that archive       *)
(* (bundle.go:206).                                                          *)
THEOREM PublishedBundlesAreSealed == BundlesSpec => []PublishedIsSealed
  <1>1. BundlesInv => PublishedIsSealed
    BY DEF BundlesInv
  <1> QED BY <1>1, BundlesInvariant, PTL

(* What a call on one bundle changes of what the devices are shown.          *)
LEMMA OneBundleShown ==
  ASSUME BundlesTypeOK, NEW b \in DOMAIN bundles,
         DOMAIN bundles' = DOMAIN bundles,
         \A c \in DOMAIN bundles : c # b => bundles'[c] = bundles[c]
  PROVE  /\ Devices!Others(b)
         /\ b \in Shown => Shelf[b] = bundles[b]
         /\ b \in Shown' => Shelf'[b] = bundles'[b]
         /\ b \notin Shown /\ b \notin Shown' => Shelf' = Shelf
         /\ bundles'[b] = bundles[b] => Shelf' = Shelf
  <1>1. \A c \in DOMAIN bundles \ {b} : c \in Shown' <=> c \in Shown
    BY DEF Shown
  <1>2. Shown \subseteq DOMAIN bundles /\ Shown' \subseteq DOMAIN bundles
    BY DEF Shown
  <1>3. Shown' \cup {b} = Shown \cup {b}
    BY <1>1, <1>2
  <1>4. DOMAIN Shelf = Shown /\ DOMAIN Shelf' = Shown'
    BY DEF Shelf
  <1>5. \A c \in Shown \ {b} : c \in Shown' /\ Shelf'[c] = Shelf[c]
    BY <1>1, <1>2 DEF Shelf
  <1>6. Devices!Others(b)
    BY <1>3, <1>4, <1>5 DEF Devices!Others
  <1>7. /\ b \in Shown => Shelf[b] = bundles[b]
        /\ b \in Shown' => Shelf'[b] = bundles'[b]
    BY DEF Shelf
  <1>8. b \notin Shown /\ b \notin Shown' => Shelf' = Shelf
    <2> SUFFICES ASSUME b \notin Shown, b \notin Shown' PROVE Shelf' = Shelf
      OBVIOUS
    <2>1. Shown' = Shown /\ \A c \in Shown : bundles'[c] = bundles[c]
      BY <1>2, <1>3
    <2> QED BY <2>1 DEF Shelf
  <1>9. bundles'[b] = bundles[b] => Shelf' = Shelf
    <2> SUFFICES ASSUME bundles'[b] = bundles[b] PROVE Shelf' = Shelf
      OBVIOUS
    <2>1. b \in Shown' <=> b \in Shown
      BY DEF Shown
    <2>2. Shown' = Shown /\ \A c \in Shown : bundles'[c] = bundles[c]
      BY <1>2, <1>3, <2>1
    <2> QED BY <2>2 DEF Shelf
  <1> QED BY <1>6, <1>7, <1>8, <1>9

(* A call on a draft that is still one is not seen; the publish is, and then *)
(* the bundle is whole.                                                      *)
LEMMA DraftCallShown ==
  ASSUME BundlesInv, NEW d \in Deployers, NEW o \in Outcomes, HasDraft(d),
         NEW x \in BundleRecords, OnDraft(d, o, x),
         x.status = DraftOf(d).status
           \/ (x.status = "published" /\ Devices!Whole(deploy[d].number, x))
  PROVE  [Devices!Next]_Shelf
  <1> DEFINE n == deploy[d].number
  <1>1. n \in DOMAIN bundles /\ DraftOf(d).status \in {"draft", "deleted"}
    BY DEF BundlesInv, DraftInv, DraftAsLeft
  <1>2. /\ DOMAIN bundles' = DOMAIN bundles
        /\ \A b \in DOMAIN bundles : b # n => bundles'[b] = bundles[b]
        /\ bundles'[n] = x \/ bundles'[n] = bundles[n]
    BY <1>1, BundleCall DEF BundlesInv, DraftOf
  <1>3. n \notin Shown
    BY <1>1 DEF Shown, DraftOf
  <1>4. CASE n \in Shown'
    <2>1. bundles'[n] = x /\ x.status = "published" /\ Devices!Whole(n, x)
      BY <1>1, <1>2, <1>3, <1>4 DEF Shown, DraftOf
    <2>2. Devices!Others(n) /\ Shelf'[n] = x
      BY <1>1, <1>2, <1>4, <2>1, OneBundleShown DEF BundlesInv
    <2>3. n \notin DOMAIN Shelf /\ n \in DOMAIN Shelf'
      BY <1>3, <1>4 DEF Shelf
    <2> HIDE DEF n
    <2>4. Devices!Publish(n)
      BY <2>1, <2>2, <2>3 DEF Devices!Publish
    <2> QED BY <2>3, <2>4 DEF Devices!Next
  <1>5. CASE n \notin Shown'
    BY <1>1, <1>2, <1>3, <1>5, OneBundleShown DEF BundlesInv
  <1> QED BY <1>4, <1>5

LEMMA DeployShown ==
  ASSUME BundlesInv, NEW d \in Deployers, DeployStep(d)
  PROVE  [Devices!Next]_Shelf
  <1>1. CASE Package(d)
    BY <1>1 DEF Package, Shelf, Shown
  <1>2. ASSUME NEW o \in Outcomes, CreateDraft(d, o) PROVE Shelf' = Shelf
    <2> DEFINE draft == [payload |-> deploy[d].payload, archive |-> NoArchive,
                         checksum |-> NoArchive, status |-> "draft",
                         mandatory |-> FALSE]
    <2>1. draft.status = "draft"
      OBVIOUS
    <2>2. bundles' = IF CarriedOut(o) THEN Append(bundles, draft) ELSE bundles
      BY <1>2 DEF CreateDraft, WithBundle
    <2> HIDE DEF draft
    <2>3. bundles \in Seq(BundleRecords)
      BY DEF BundlesInv, BundlesTypeOK
    <2>4. /\ \A b \in DOMAIN bundles : b \in DOMAIN bundles' /\ bundles'[b] = bundles[b]
          /\ \A b \in DOMAIN bundles' \ DOMAIN bundles : bundles'[b] = draft
      BY <2>2, <2>3
    <2>5. Shown' = Shown /\ \A b \in Shown : bundles'[b] = bundles[b]
      BY <2>1, <2>4 DEF Shown
    <2> QED BY <2>5 DEF Shelf
  <1>3. ASSUME HasDraft(d)
        PROVE  /\ DraftOf(d) \in BundleRecords /\ deploy[d].archive \in Archives
               /\ DraftAsLeft(d)
    BY <1>3, DeployFacts DEF BundlesInv, DraftInv, DraftAsLeft
  <1>4. ASSUME NEW o \in Outcomes, UploadArchive(d, o) PROVE [Devices!Next]_Shelf
    <2> DEFINE x == [DraftOf(d) EXCEPT !.archive = deploy[d].archive]
    <2>1. HasDraft(d) /\ OnDraft(d, o, x)
      BY <1>4 DEF UploadArchive, HasDraft
    <2>2. x \in BundleRecords /\ x.status = DraftOf(d).status
      BY <1>3, <2>1, RecordEdits DEF BundleRecords
    <2> HIDE DEF x
    <2> QED BY <2>1, <2>2, DraftCallShown
  <1>5. ASSUME NEW o \in Outcomes, UpdateChecksum(d, o) PROVE [Devices!Next]_Shelf
    <2> DEFINE x == [DraftOf(d) EXCEPT !.checksum = deploy[d].archive]
    <2>1. HasDraft(d) /\ OnDraft(d, o, x)
      BY <1>5 DEF UpdateChecksum, HasDraft
    <2>2. x \in BundleRecords /\ x.status = DraftOf(d).status
      BY <1>3, <2>1, RecordEdits DEF BundleRecords
    <2> HIDE DEF x
    <2> QED BY <2>1, <2>2, DraftCallShown
  <1>6. ASSUME NEW o \in Outcomes, PublishBundle(d, o) PROVE [Devices!Next]_Shelf
    <2> DEFINE x == [DraftOf(d) EXCEPT !.status = "published"]
    <2>1. HasDraft(d) /\ OnDraft(d, o, x) /\ deploy[d].pc = "publish"
      BY <1>6 DEF PublishBundle, HasDraft
    <2>2. /\ x \in BundleRecords /\ x.status = "published"
          /\ x.archive = DraftOf(d).archive /\ x.payload = DraftOf(d).payload
          /\ x.checksum = DraftOf(d).checksum
      BY <1>3, <2>1, RecordEdits DEF BundleRecords
    <2> HIDE DEF x
    <2>3. Devices!Whole(deploy[d].number, x)
      BY <1>3, <2>1, <2>2 DEF Devices!Whole, DraftAsLeft
    <2> QED BY <2>1, <2>2, <2>3, DraftCallShown
  <1> QED BY <1>1, <1>2, <1>4, <1>5, <1>6 DEF DeployStep

LEMMA NamedBundleShown ==
  ASSUME BundlesInv, NEW b \in DOMAIN bundles,
         RecallBundle(b) \/ UpdateMandatory(b) \/ DeleteBundle(b)
  PROVE  [Devices!Next]_Shelf
  <1>1. bundles \in Seq(BundleRecords) /\ bundles[b] \in BundleRecords
    BY DEF BundlesInv, BundlesTypeOK
  <1>2. /\ DOMAIN bundles' = DOMAIN bundles
        /\ \A c \in DOMAIN bundles : c # b => bundles'[c] = bundles[c]
    BY <1>1 DEF RecallBundle, UpdateMandatory, DeleteBundle
  <1>3. /\ Devices!Others(b)
        /\ b \in Shown => Shelf[b] = bundles[b]
        /\ b \in Shown' => Shelf'[b] = bundles'[b]
        /\ b \notin Shown /\ b \notin Shown' => Shelf' = Shelf
    BY <1>2, OneBundleShown DEF BundlesInv
  <1>4. DOMAIN Shelf = Shown /\ DOMAIN Shelf' = Shown'
    BY DEF Shelf
  <1>5. b \in Shown <=> bundles[b].status \in {"published", "recalled"}
    BY DEF Shown
  <1>6. b \in Shown' <=> bundles'[b].status \in {"published", "recalled"}
    BY <1>2 DEF Shown
  <1>7. CASE RecallBundle(b)
    <2>1. /\ bundles[b].status = "published"
          /\ bundles'[b] = [bundles[b] EXCEPT !.status = "recalled"]
      BY <1>1, <1>7 DEF RecallBundle
    <2>2. b \in Shown /\ b \in Shown'
      BY <1>1, <1>5, <1>6, <2>1 DEF BundleRecords
    <2>3. Devices!Recall(b)
      BY <1>3, <1>4, <2>1, <2>2 DEF Devices!Recall, Devices!Becomes
    <2> QED BY <1>4, <2>2, <2>3 DEF Devices!Next
  <1>8. CASE UpdateMandatory(b)
    <2>1. bundles'[b] = [bundles[b] EXCEPT !.mandatory = ~@]
      BY <1>1, <1>8 DEF UpdateMandatory
    <2>2. bundles'[b].status = bundles[b].status
      BY <1>1, <2>1 DEF BundleRecords
    <2>3. CASE b \in Shown
      <3>1. b \in Shown'
        BY <1>5, <1>6, <2>2, <2>3
      <3>2. Devices!Flip(b)
        BY <1>3, <1>4, <2>1, <2>3, <3>1 DEF Devices!Flip, Devices!Becomes
      <3> QED BY <1>4, <2>3, <3>2 DEF Devices!Next
    <2> QED BY <1>3, <1>5, <1>6, <2>2, <2>3
  <1>9. CASE DeleteBundle(b)
    <2>1. /\ bundles[b].status \in {"draft", "recalled"}
          /\ bundles'[b] = [bundles[b] EXCEPT !.status = "deleted"]
      BY <1>1, <1>9 DEF DeleteBundle
    <2>2. b \notin Shown'
      BY <1>1, <1>6, <2>1 DEF BundleRecords
    <2>3. CASE b \in Shown
      <3>1. Devices!Withdraw(b)
        BY <1>3, <1>4, <1>5, <2>1, <2>2, <2>3 DEF Devices!Withdraw
      <3> QED BY <1>4, <2>3, <3>1 DEF Devices!Next
    <2> QED BY <1>3, <2>2, <2>3
  <1> QED BY <1>7, <1>8, <1>9

LEMMA BundlesStepShown ==
  BundlesInv /\ [BundlesNext]_bVars => [Devices!Next]_Shelf
  <1> SUFFICES ASSUME BundlesInv, [BundlesNext]_bVars PROVE [Devices!Next]_Shelf
    OBVIOUS
  <1>1. CASE UNCHANGED bundles
    BY <1>1 DEF Shelf, Shown
  <1>2. UNCHANGED bVars => UNCHANGED bundles
    BY DEF bVars
  <1>3. ASSUME NEW d \in Deployers, EditDirectory(d) \/ ReadPayload(d)
        PROVE  UNCHANGED bundles
    BY <1>3 DEF EditDirectory, ReadPayload
  <1> QED BY <1>1, <1>2, <1>3, DeployShown, NamedBundleShown DEF BundlesNext

(* Deploying is atomic for the devices, for any number of deploys and users: *)
(* bundles come whole and stay what they are (bundle.go:132-229).            *)
THEOREM DeploysAreAtomic == BundlesSpec => BundlesStayWhole
  <1>1. BundlesInit => Devices!Init
    BY DEF BundlesInit, Devices!Init, Shelf, Shown
  <1> QED BY <1>1, BundlesStepShown, BundlesInvariant, PTL
          DEF BundlesSpec, BundlesStayWhole, Devices!Spec

-----------------------------------------------------------------------------
(* The stamp of a build                                                      *)

LEMMA ValueTypes ==
  /\ Missing \in Values /\ Empty \in Values /\ Flutter \in Values
  /\ \A t \in Targets, s \in Sources : Library(t, s) \in Values /\ Library(t, s)[1] = t
  BY DEF Values, Library

LEMMA QuietTypes == Quiet \in BuildStates /\ Quiet.i = 1 /\ Quiet.changed = FALSE
  <1>1. <<>> \in Seq(Targets)
    OBVIOUS
  <1> QED BY <1>1 DEF Quiet, BuildStates, BuildEnded

LEMMA BuildStampInitInv == BuildStampInit => BuildStampInv
  <1> SUFFICES ASSUME BuildStampInit PROVE BuildStampInv
    OBVIOUS
  <1>1. build = Quiet /\ build.pc = "idle"
    BY DEF BuildStampInit, Quiet
  <1>2. BuildStampTypeOK
    <2>1. source \in Sources /\ builds \in 0..MaxBuilds
      BY BuildStampAssumption DEF BuildStampInit, Sources
    <2>2. Nothing \in [Abis -> Values]
      BY ValueTypes DEF Nothing
    <2>3. NoArtifact \in [library: Values, assets: [Assets -> Values]]
      BY ValueTypes DEF NoArtifact
    <2>4. kept \in [Abis -> [id: Values, library: Values]]
      BY ValueTypes DEF BuildStampInit
    <2>5. bundle \in [ids: [Abis -> Values], libraries: [Abis -> Values]]
      BY <2>2 DEF BuildStampInit, NoBundle
    <2>6. file \in [Assets -> Values]
      BY ValueTypes DEF BuildStampInit
    <2> QED BY <2>1, <2>3, <2>4, <2>5, <2>6, QuietTypes DEF BuildStampInit, BuildStampTypeOK
  <1>3. bundle.ids = bundle.libraries
    BY DEF BuildStampInit, NoBundle
  <1> QED BY <1>1, <1>2, <1>3 DEF BuildStampInv, TargetInv, LibraryInv, AssetInv, KeptInv,
             CompleteBuildSupportsCodePush, BundleMapsItsLibraries, BuildEnded

-----------------------------------------------------------------------------
(* A build in progress compiles for a target.                                *)
LEMMA BuilderFacts ==
  ASSUME BuildStampInv
  PROVE  /\ build \in BuildStates /\ source \in Sources /\ source \in Nat
         /\ build.pc \notin BuildEnded =>
              /\ AbiNow \in Targets /\ build.i \in 1..Len(build.abis)
              /\ build.release => AbiNow \in Abis
              /\ Library(AbiNow, source) \in Values
  BY ValueTypes, BuildStampAssumption
     DEF BuildStampInv, BuildStampTypeOK, TargetInv, AbiNow, BuildStates, Sources

LEMMA BuildGoesTo ==
  ASSUME BuildStampInv,
         NEW pc \in BuildEnded \cup {"clean", "compile", "version", "id", "recompile",
                                     "keep", "shell"},
         NEW c \in BOOLEAN,
         build' = [build EXCEPT !.pc = pc, !.changed = c] \/ (BuildTo(pc) /\ c = build.changed)
  PROVE  /\ build' \in BuildStates /\ build'.pc = pc /\ build'.changed = c
         /\ build'.release = build.release /\ build'.abis = build.abis
         /\ build'.i = build.i /\ AbiNow' = AbiNow
  BY BuilderFacts DEF BuildStates, BuildTo, AbiNow

(* The end of a command, and of a failure.                                   *)
LEMMA FailsKeeps ==
  ASSUME BuildStampInv, BuildTo("failed"),
         UNCHANGED <<source, kept, builds>>,
         declared' \subseteq Assets, file' \in [Assets -> Values],
         bundle' \in [ids: [Abis -> Values], libraries: [Abis -> Values]],
         bundle'.ids = bundle'.libraries,
         artifact' \in [library: Values, assets: [Assets -> Values]],
         undeclared' = undeclared
  PROVE  BuildStampInv'
  <1>1. build' \in BuildStates /\ build'.pc = "failed"
    BY BuilderFacts DEF BuildTo, BuildStates, BuildEnded
  <1>2. BuildStampTypeOK'
    BY <1>1 DEF BuildStampInv, BuildStampTypeOK
  <1> QED BY <1>1, <1>2 DEF BuildStampInv, TargetInv, LibraryInv, AssetInv, KeptInv,
             CompleteBuildSupportsCodePush, BundleMapsItsLibraries, BuildEnded

(* What a step that leaves them leaves so.                                   *)
LEMMA LeftAlone ==
  ASSUME BuildStampInv
  PROVE  /\ file \in [Assets -> Values] /\ declared \subseteq Assets
         /\ artifact \in [library: Values, assets: [Assets -> Values]]
         /\ bundle \in [ids: [Abis -> Values], libraries: [Abis -> Values]]
         /\ bundle.ids = bundle.libraries
  BY DEF BuildStampInv, BuildStampTypeOK, BundleMapsItsLibraries

LEMMA StartedKeeps ==
  ASSUME BuildStampInv, NEW r \in BOOLEAN, NEW abis \in Seq(Targets), abis # <<>>,
         r => \A k \in DOMAIN abis : abis[k] \in Abis,
         NEW pc \in {"clean", "compile", "failed"}, pc = "clean" => r,
         Started(r, abis, pc)
  PROVE  BuildStampInv'
  <1>0. PICK x : x = [Quiet EXCEPT !.pc = pc, !.release = r, !.abis = abis]
    OBVIOUS
  <1>1. /\ x \in BuildStates /\ x.pc = pc /\ x.release = r /\ x.abis = abis /\ x.i = 1
        /\ x.changed = FALSE
    BY <1>0, QuietTypes DEF BuildStates, BuildEnded
  <1>2. build' = x /\ UNCHANGED <<source, declared, file, artifact, kept, bundle, undeclared>>
    BY <1>0 DEF Started
  <1>3. builds' \in 0..MaxBuilds
    BY BuildStampAssumption DEF Started, BuildStampInv, BuildStampTypeOK
  <1>4. BuildStampTypeOK'
    BY <1>1, <1>2, <1>3 DEF BuildStampInv, BuildStampTypeOK
  <1>5. 1 \in DOMAIN abis /\ \A k \in DOMAIN abis : ~(k < 1)
    OBVIOUS
  <1>6. TargetInv' /\ KeptInv'
    BY <1>1, <1>2, <1>5 DEF TargetInv, KeptInv, BuildEnded
  <1>7. LibraryInv' /\ AssetInv'
    BY <1>1, <1>2 DEF LibraryInv, AssetInv
  <1>8. CompleteBuildSupportsCodePush' /\ BundleMapsItsLibraries'
    BY <1>1, <1>2 DEF BuildStampInv, CompleteBuildSupportsCodePush, BundleMapsItsLibraries
  <1> QED BY <1>4, <1>6, <1>7, <1>8 DEF BuildStampInv

LEMMA CleanKeeps == ASSUME BuildStampInv, CleanForAbi PROVE BuildStampInv'
  <1>1. PICK wiped \in SUBSET Assets, placed \in {{}, {"build_id"}, Assets} :
          /\ file' = [a \in Assets |->
                        IF a \notin wiped /\ file[a] # Missing THEN file[a]
                        ELSE IF a \notin placed THEN Missing
                        ELSE IF a = "build_id" THEN Empty ELSE Flutter]
          /\ BuildTo(IF placed = Assets THEN "compile" ELSE "failed")
    BY DEF CleanForAbi
  <1>2. UNCHANGED <<source, declared, kept, bundle, undeclared, builds>> /\ build.pc = "clean"
    BY DEF CleanForAbi
  <1>3. file' \in [Assets -> Values]
    BY <1>1, LeftAlone, ValueTypes
  <1>4. artifact' \in [library: Values, assets: [Assets -> Values]]
    BY LeftAlone, ValueTypes DEF CleanForAbi, NoArtifact
  <1>5. CASE placed # Assets
    BY <1>1, <1>2, <1>3, <1>4, <1>5, LeftAlone, FailsKeeps
  <1>6. CASE placed = Assets
    <2>1. /\ build' \in BuildStates /\ build'.pc = "compile"
          /\ build'.release = build.release /\ build'.abis = build.abis
          /\ build'.i = build.i
      BY <1>1, <1>6, BuilderFacts DEF BuildTo, BuildStates
    <2>2. BuildStampTypeOK'
      BY <1>2, <1>3, <1>4, <2>1 DEF BuildStampInv, BuildStampTypeOK
    <2>3. TargetInv' /\ LibraryInv' /\ AssetInv'
      BY <1>2, <2>1 DEF BuildStampInv, TargetInv, LibraryInv, AssetInv, BuildEnded
    <2>4. KeptInv'
      BY <1>2, <2>1 DEF BuildStampInv, KeptInv, KeptRight, BuildEnded
    <2>5. CompleteBuildSupportsCodePush' /\ BundleMapsItsLibraries'
      BY <1>2, <2>1 DEF BuildStampInv, CompleteBuildSupportsCodePush, BundleMapsItsLibraries
    <2> QED BY <2>2, <2>3, <2>4, <2>5 DEF BuildStampInv
  <1> QED BY <1>5, <1>6

(* What a compilation leaves.                                                *)
LEMMA CompiledFacts ==
  ASSUME BuildStampInv, build.pc \notin BuildEnded
  PROVE  /\ Compiled \in [library: Values, assets: [Assets -> Values]]
         /\ Compiled.library = Library(AbiNow, source)
         /\ \A a \in Assets : a \in declared => Compiled.assets[a] = file[a]
         /\ \A a \in Assets : a \notin declared => Compiled.assets[a] = Missing
         /\ (\A a \in Assets : a \in declared \/ file[a] = Missing) => Compiled.assets = file
  <1>1. file \in [Assets -> Values] /\ declared \subseteq Assets
    BY DEF BuildStampInv, BuildStampTypeOK
  <1>2. Library(AbiNow, source) \in Values
    BY BuilderFacts
  <1> QED BY <1>1, <1>2, ValueTypes DEF Compiled

LEMMA CompileKeeps == ASSUME BuildStampInv, Compile PROVE BuildStampInv'
  <1>1. CASE BuildTo("failed") /\ UNCHANGED <<artifact, undeclared>>
    BY <1>1, FailsKeeps, LeftAlone DEF Compile
  <1>2. CASE /\ artifact' = Compiled
             /\ undeclared' = \E a \in Assets \ declared : file[a] # Missing
             /\ build' = [build EXCEPT !.pc = "version", !.changed = FALSE]
    <2>1. build.pc = "compile" /\ build.pc \notin BuildEnded
      BY DEF Compile, BuildEnded
    <2>2. /\ build' \in BuildStates /\ build'.pc = "version" /\ build'.changed = FALSE
          /\ build'.release = build.release /\ build'.abis = build.abis
          /\ build'.i = build.i /\ AbiNow' = AbiNow
      BY <1>2, BuildGoesTo
    <2>3. UNCHANGED <<source, declared, file, kept, bundle, builds>>
      BY DEF Compile
    <2>4. artifact' \in [library: Values, assets: [Assets -> Values]] /\ undeclared' \in BOOLEAN
      BY <1>2, <2>1, CompiledFacts
    <2>5. BuildStampTypeOK'
      BY <2>2, <2>3, <2>4 DEF BuildStampInv, BuildStampTypeOK
    <2>6. TargetInv' /\ KeptInv'
      BY <2>1, <2>2, <2>3 DEF BuildStampInv, TargetInv, KeptInv, KeptRight, BuildEnded
    <2>7. LibraryInv'
      BY <1>2, <2>1, <2>2, <2>3, CompiledFacts DEF LibraryInv
    <2>8. ~undeclared' => artifact'.assets = file'
      BY <1>2, <2>1, <2>3, CompiledFacts
    <2>9. AssetInv'
      BY <2>2, <2>8 DEF AssetInv
    <2>10. CompleteBuildSupportsCodePush' /\ BundleMapsItsLibraries'
      BY <2>2, <2>3 DEF BuildStampInv, CompleteBuildSupportsCodePush, BundleMapsItsLibraries
    <2> QED BY <2>5, <2>6, <2>7, <2>9, <2>10 DEF BuildStampInv
  <1> QED BY <1>1, <1>2 DEF Compile

-----------------------------------------------------------------------------
(* What a stamp that succeeds leaves, whatever it stamps.                    *)
LEMMA StampFacts ==
  ASSUME BuildStampInv, build.pc \notin BuildEnded,
         NEW asset \in Assets, NEW value \in Values,
         NEW next \in [BOOLEAN -> {"id", "recompile", "keep", "ok"}],
         Stamp(asset, value, next), ~BuildTo("failed")
  PROVE  LET changed == build.changed \/ file[asset] # value IN
         /\ file' \in [Assets -> Values] /\ declared' \subseteq Assets
         /\ file'[asset] = value
         /\ \A a \in Assets : a # asset => file'[a] = file[a]
         /\ undeclared' \in BOOLEAN
         /\ ~undeclared' => ~undeclared /\ declared' = declared \cup {asset}
         /\ build' \in BuildStates /\ build'.pc = next[changed]
         /\ build'.changed = changed
         /\ build'.release = build.release /\ build'.abis = build.abis
         /\ build'.i = build.i /\ AbiNow' = AbiNow
         /\ UNCHANGED <<source, artifact, kept, bundle, builds>>
  <1> DEFINE changed == build.changed \/ file[asset] # value
  <1>1. /\ file \in [Assets -> Values] /\ declared \subseteq Assets /\ build \in BuildStates
        /\ undeclared \in BOOLEAN
    BY DEF BuildStampInv, BuildStampTypeOK
  <1>2. changed \in BOOLEAN
    BY <1>1 DEF BuildStates
  <1>3. /\ build' = [build EXCEPT !.pc = next[changed], !.changed = changed]
        /\ file' = [file EXCEPT ![asset] = value]
        /\ \/ declared' = declared \cup {asset} /\ UNCHANGED undeclared
           \/ UNCHANGED declared /\ undeclared' = TRUE
        /\ UNCHANGED <<source, artifact, kept, bundle, builds>>
    BY DEF Stamp
  <1> HIDE DEF changed
  <1>4. next[changed] \in {"id", "recompile", "keep", "ok"}
    BY <1>2
  <1>5. /\ build' \in BuildStates /\ build'.pc = next[changed]
        /\ build'.changed = changed
        /\ build'.release = build.release /\ build'.abis = build.abis
        /\ build'.i = build.i /\ AbiNow' = AbiNow
    BY <1>2, <1>3, <1>4, BuildGoesTo DEF BuildEnded
  <1>6. /\ file' \in [Assets -> Values] /\ declared' \subseteq Assets
        /\ file'[asset] = value
        /\ \A a \in Assets : a # asset => file'[a] = file[a]
    BY <1>1, <1>3
  <1>7. undeclared' \in BOOLEAN /\ (~undeclared' => ~undeclared /\ declared' = declared \cup {asset})
    BY <1>1, <1>3
  <1> QED BY <1>3, <1>5, <1>6, <1>7 DEF changed

(* What every step after the first compilation keeps for the ones to come.   *)
LEMMA SameTarget ==
  ASSUME BuildStampInv, build.pc \notin BuildEnded, build.pc # "shell",
         build' \in BuildStates,
         build'.pc \in {"id", "recompile", "keep", "ok"},
         build'.pc = "keep" => build.release,
         build'.release = build.release, build'.abis = build.abis, build'.i = build.i,
         UNCHANGED <<kept, bundle>>,
         build'.pc = "ok" => ~build.release
  PROVE  TargetInv' /\ KeptInv' /\ BundleMapsItsLibraries'
  <1>1. TargetInv'
    BY DEF BuildStampInv, TargetInv, BuildEnded
  <1>2. KeptInv'
    BY DEF BuildStampInv, KeptInv, KeptRight, BuildEnded
  <1>3. BundleMapsItsLibraries'
    BY DEF BuildStampInv, BundleMapsItsLibraries
  <1> QED BY <1>1, <1>2, <1>3

LEMMA StampFails ==
  ASSUME BuildStampInv, NEW asset \in Assets, NEW value \in Values,
         NEW next \in [BOOLEAN -> {"id", "recompile", "keep", "ok"}],
         Stamp(asset, value, next), build.pc \notin BuildEnded, BuildTo("failed")
  PROVE  BuildStampInv'
  <1> DEFINE changed == build.changed \/ file[asset] # value
  <1>1. UNCHANGED <<source, artifact, kept, bundle, builds>>
    BY DEF Stamp
  <1>2. CASE build' = [build EXCEPT !.pc = next[changed], !.changed = changed]
    <2>1. changed \in BOOLEAN
      BY DEF BuildStampInv, BuildStampTypeOK, BuildStates
    <2> HIDE DEF changed
    <2>2. next[changed] = "failed"
      BY <1>2, BuilderFacts DEF BuildTo, BuildStates
    <2> QED BY <2>1, <2>2
  <1>3. CASE /\ file' \in {file, [file EXCEPT ![asset] = Empty], [file EXCEPT ![asset] = value]}
             /\ declared' \subseteq declared /\ UNCHANGED undeclared
    <2>1. file' \in [Assets -> Values] /\ declared' \subseteq Assets
      BY <1>3, LeftAlone, ValueTypes
    <2> QED BY <1>1, <1>3, <2>1, LeftAlone, FailsKeeps
  <1>4. \/ build' = [build EXCEPT !.pc = next[changed], !.changed = changed]
        \/ /\ file' \in {file, [file EXCEPT ![asset] = Empty], [file EXCEPT ![asset] = value]}
           /\ declared' \subseteq declared /\ UNCHANGED undeclared
    BY DEF Stamp
  <1> QED BY <1>2, <1>3, <1>4

LEMMA VersionKeeps == ASSUME BuildStampInv, StampVersion PROVE BuildStampInv'
  <1> DEFINE next == [c \in BOOLEAN |-> IF AbiNow \in Abis THEN "id"
                                       ELSE IF c THEN "recompile" ELSE BuiltNext]
             changed == build.changed \/ file["flutter_version"] # Flutter
  <1>1. build.pc = "version" /\ build.pc \notin BuildEnded
    BY DEF StampVersion, BuildEnded
  <1>2. Stamp("flutter_version", Flutter, next)
    BY DEF StampVersion
  <1>3. "flutter_version" \in Assets /\ "build_id" \in Assets /\ Flutter \in Values
    BY ValueTypes DEF Assets
  <1>4. CASE BuildTo("failed")
    <2>1. next \in [BOOLEAN -> {"id", "recompile", "keep", "ok"}]
      BY DEF BuiltNext
    <2> HIDE DEF next
    <2> QED BY <1>1, <1>2, <1>3, <1>4, <2>1, StampFails
  <1>5. CASE ~BuildTo("failed")
    <2>1. next \in [BOOLEAN -> {"id", "recompile", "keep", "ok"}]
      BY DEF BuiltNext
    <2>2. changed \in BOOLEAN
      BY DEF BuildStampInv, BuildStampTypeOK, BuildStates
    <2>3. next[changed] = IF AbiNow \in Abis THEN "id"
                          ELSE IF changed THEN "recompile" ELSE BuiltNext
      <3> HIDE DEF changed
      <3> QED BY <2>2
    <2>4. /\ file' \in [Assets -> Values] /\ declared' \subseteq Assets
          /\ file'["flutter_version"] = Flutter
          /\ file'["build_id"] = file["build_id"]
          /\ undeclared' \in BOOLEAN
          /\ ~undeclared' => ~undeclared /\ declared' = declared \cup {"flutter_version"}
          /\ build' \in BuildStates /\ build'.pc = next[changed]
          /\ build'.changed = changed
          /\ build'.release = build.release /\ build'.abis = build.abis
          /\ build'.i = build.i /\ AbiNow' = AbiNow
          /\ UNCHANGED <<source, artifact, kept, bundle, builds>>
      <3> HIDE DEF next
      <3> QED BY <1>1, <1>2, <1>3, <1>5, <2>1, StampFacts DEF Assets
    <2> HIDE DEF next, changed
    <2>5. build.release => AbiNow \in Abis
      BY <1>1, BuilderFacts
    <2>6. /\ build'.pc \in {"id", "recompile", "keep", "ok"}
          /\ build'.pc \in {"keep", "ok"} => ~build.release /\ ~changed /\ build'.pc = "ok"
          /\ build'.pc = "id" <=> AbiNow \in Abis
      BY <2>3, <2>4, <2>5 DEF BuiltNext
    <2>7. BuildStampTypeOK'
      BY <2>4 DEF BuildStampInv, BuildStampTypeOK
    <2>8. TargetInv' /\ KeptInv' /\ BundleMapsItsLibraries'
      BY <1>1, <2>4, <2>6, SameTarget
    <2>9. LibraryInv'
      BY <1>1, <2>4, <2>6 DEF BuildStampInv, LibraryInv
    <2>10. /\ ~undeclared => artifact.assets = file
           /\ ~changed => file["flutter_version"] = Flutter
      BY <1>1 DEF BuildStampInv, AssetInv, changed
    <2>11. AssetInv'
      BY <2>4, <2>6, <2>10 DEF AssetInv
    <2>12. CompleteBuildSupportsCodePush'
      BY <2>4, <2>6, <2>10 DEF CompleteBuildSupportsCodePush
    <2> QED BY <2>7, <2>8, <2>9, <2>11, <2>12 DEF BuildStampInv
  <1> QED BY <1>4, <1>5

LEMMA IdKeeps == ASSUME BuildStampInv, StampId PROVE BuildStampInv'
  <1> DEFINE next == [c \in BOOLEAN |-> IF c THEN "recompile" ELSE BuiltNext]
             changed == build.changed \/ file["build_id"] # artifact.library
  <1>1. build.pc = "id" /\ build.pc \notin BuildEnded
    BY DEF StampId, BuildEnded
  <1>2. Stamp("build_id", artifact.library, next)
    BY DEF StampId
  <1>3. /\ "flutter_version" \in Assets /\ "build_id" \in Assets
        /\ artifact.library \in Values
        /\ artifact.library = Library(AbiNow, source)
    BY <1>1 DEF Assets, BuildStampInv, BuildStampTypeOK, LibraryInv
  <1>4. CASE BuildTo("failed")
    <2>1. next \in [BOOLEAN -> {"id", "recompile", "keep", "ok"}]
      BY DEF BuiltNext
    <2> HIDE DEF next
    <2> QED BY <1>1, <1>2, <1>3, <1>4, <2>1, StampFails
  <1>5. CASE ~BuildTo("failed")
    <2>1. next \in [BOOLEAN -> {"id", "recompile", "keep", "ok"}]
      BY DEF BuiltNext
    <2>2. changed \in BOOLEAN
      BY DEF BuildStampInv, BuildStampTypeOK, BuildStates
    <2>3. next[changed] = IF changed THEN "recompile" ELSE BuiltNext
      <3> HIDE DEF changed
      <3> QED BY <2>2
    <2>4. /\ file' \in [Assets -> Values] /\ declared' \subseteq Assets
          /\ file'["build_id"] = artifact.library
          /\ file'["flutter_version"] = file["flutter_version"]
          /\ undeclared' \in BOOLEAN
          /\ ~undeclared' => ~undeclared /\ declared' = declared \cup {"build_id"}
          /\ build' \in BuildStates /\ build'.pc = next[changed]
          /\ build'.changed = changed
          /\ build'.release = build.release /\ build'.abis = build.abis
          /\ build'.i = build.i /\ AbiNow' = AbiNow
          /\ UNCHANGED <<source, artifact, kept, bundle, builds>>
      <3> HIDE DEF next
      <3> QED BY <1>1, <1>2, <1>3, <1>5, <2>1, StampFacts DEF Assets
    <2>5. ~changed => ~build.changed /\ file["build_id"] = artifact.library
      OBVIOUS
    <2> HIDE DEF next, changed
    <2>6. /\ build'.pc \in {"recompile", "keep", "ok"}
          /\ build'.pc = "keep" => build.release
          /\ build'.pc = "ok" => ~build.release /\ ~changed
      BY <2>3, <2>4 DEF BuiltNext
    <2>7. BuildStampTypeOK'
      BY <2>4 DEF BuildStampInv, BuildStampTypeOK
    <2>8. TargetInv' /\ KeptInv' /\ BundleMapsItsLibraries'
      BY <1>1, <2>4, <2>6, SameTarget
    <2>9. LibraryInv'
      BY <1>3, <2>4, <2>6 DEF LibraryInv
    <2>10. /\ file["flutter_version"] = Flutter
           /\ ~undeclared => "flutter_version" \in declared
           /\ ~undeclared => artifact.assets["build_id"] = file["build_id"]
           /\ ~undeclared /\ ~build.changed =>
                artifact.assets["flutter_version"] = Flutter
      BY <1>1 DEF BuildStampInv, AssetInv
    <2>11. AssetInv'
      BY <2>4, <2>6, <2>10 DEF AssetInv
    <2>12. CompleteBuildSupportsCodePush'
      BY <2>4, <2>5, <2>6, <2>10 DEF CompleteBuildSupportsCodePush
    <2> QED BY <2>7, <2>8, <2>9, <2>11, <2>12 DEF BuildStampInv
  <1> QED BY <1>4, <1>5

(* The second compilation bundles what was stamped.                          *)
LEMMA RecompileKeeps == ASSUME BuildStampInv, Recompile PROVE BuildStampInv'
  <1>1. build.pc = "recompile" /\ build.pc \notin BuildEnded
    BY DEF Recompile, BuildEnded
  <1>2. UNCHANGED <<source, declared, file, kept, bundle, undeclared, builds>>
    BY DEF Recompile
  <1>3. CASE BuildTo("failed") /\ UNCHANGED artifact
    BY <1>2, <1>3, FailsKeeps, LeftAlone
  <1>4. CASE artifact' = Compiled /\ BuildTo(BuiltNext)
    <2>1. /\ BuiltNext \in {"keep", "ok"}
          /\ BuiltNext = "keep" => build.release
          /\ BuiltNext = "ok" => ~build.release
      BY DEF BuiltNext
    <2>2. build.changed \in BOOLEAN
      BY BuilderFacts DEF BuildStates
    <2>3. /\ build' \in BuildStates /\ build'.pc = BuiltNext
          /\ build'.release = build.release /\ build'.abis = build.abis
          /\ build'.i = build.i /\ AbiNow' = AbiNow
      BY <1>4, <2>1, <2>2, BuildGoesTo DEF BuildEnded
    <2>4. BuildStampTypeOK'
      BY <1>1, <1>2, <1>4, <2>3, CompiledFacts DEF BuildStampInv, BuildStampTypeOK
    <2>5. TargetInv' /\ KeptInv' /\ BundleMapsItsLibraries'
      BY <1>1, <1>2, <2>1, <2>3, SameTarget
    <2>6. LibraryInv'
      BY <1>1, <1>2, <1>4, <2>1, <2>3, CompiledFacts DEF BuildStampInv, LibraryInv
    <2>7. AssetInv'
      BY <2>1, <2>3 DEF AssetInv
    <2>8. CompleteBuildSupportsCodePush'
      <3>1. /\ file["flutter_version"] = Flutter
            /\ AbiNow \in Abis => file["build_id"] = Library(AbiNow, source)
            /\ ~undeclared =>
                 /\ "flutter_version" \in declared
                 /\ AbiNow \in Abis => "build_id" \in declared
        BY <1>1 DEF BuildStampInv, AssetInv, LibraryInv
      <3>2. ~undeclared =>
            /\ artifact'.assets["flutter_version"] = Flutter
            /\ AbiNow \in Abis => artifact'.assets["build_id"] = artifact'.library
        BY <1>1, <1>4, <3>1, CompiledFacts DEF Assets
      <3> QED BY <1>2, <2>3, <3>2 DEF CompleteBuildSupportsCodePush
    <2> QED BY <2>4, <2>5, <2>6, <2>7, <2>8 DEF BuildStampInv
  <1> QED BY <1>3, <1>4 DEF Recompile

(* What is put aside is the library and its own build_id.                    *)
LEMMA KeepKeeps == ASSUME BuildStampInv, KeepAbi PROVE BuildStampInv'
  <1> DEFINE last == build.i = Len(build.abis)
             pc1 == IF last THEN "shell" ELSE "clean"
             i1 == IF last THEN build.i ELSE build.i + 1
  <1>1. build.pc = "keep" /\ build.pc \notin BuildEnded /\ build.release
    BY DEF KeepAbi, KeepUnder, BuildEnded, BuildStampInv, TargetInv
  <1>2. /\ build \in BuildStates /\ build.i \in 1..Len(build.abis) /\ AbiNow \in Abis
        /\ build.abis \in Seq(Targets)
        /\ \A k \in DOMAIN build.abis : build.abis[k] \in Abis
    BY <1>1, BuilderFacts DEF BuildStates, BuildStampInv, TargetInv
  <1>a. CASE BuildTo("failed") /\ UNCHANGED kept
    BY <1>a, FailsKeeps, LeftAlone DEF KeepAbi, KeepUnder
  <1> SUFFICES ASSUME ~(BuildTo("failed") /\ UNCHANGED kept) PROVE BuildStampInv'
    BY <1>a
  <1>3. build' = [build EXCEPT !.pc = pc1, !.i = i1]
    BY DEF KeepAbi, KeepUnder
  <1>4. /\ pc1 \in {"shell", "clean"} /\ i1 \in 1..Len(build.abis)
        /\ pc1 = "clean" => i1 = build.i + 1
        /\ pc1 = "shell" => build.i = Len(build.abis)
    BY <1>2
  <1> HIDE DEF pc1, i1, last
  <1>5. /\ build' \in BuildStates /\ build'.pc = pc1 /\ build'.i = i1
        /\ build'.release /\ build'.abis = build.abis
    <2>1. build' = [pc |-> pc1, release |-> build.release, abis |-> build.abis,
                    i |-> i1, changed |-> build.changed]
      BY <1>2, <1>3 DEF BuildStates
    <2>2. i1 \in Nat
      BY <1>2, <1>4
    <2> QED BY <1>1, <1>2, <1>4, <2>1, <2>2 DEF BuildStates
  <1>6. UNCHANGED <<source, declared, file, artifact, bundle, undeclared, builds>>
    BY DEF KeepAbi, KeepUnder
  <1>7. /\ kept' \in [Abis -> [id: Values, library: Values]]
        /\ kept'[AbiNow].id = file["build_id"] /\ kept'[AbiNow].library = artifact.library
        /\ \A b \in Abis : b # AbiNow => kept'[b] = kept[b]
    BY <1>2 DEF KeepAbi, KeepUnder, BuildStampInv, BuildStampTypeOK, Assets
  <1>8. \A b \in Abis : b = AbiNow \/ KeptRight(b) =>
          kept'[b].id = kept'[b].library /\ kept'[b].library[1] = b
    BY <1>1, <1>2, <1>7, ValueTypes, BuilderFacts DEF KeptRight, BuildStampInv, LibraryInv
  <1>9. BuildStampTypeOK'
    BY <1>5, <1>6, <1>7 DEF BuildStampInv, BuildStampTypeOK
  <1>10. TargetInv'
    BY <1>2, <1>4, <1>5 DEF TargetInv, BuildEnded
  <1>11. KeptInv'
    <2> SUFFICES ASSUME NEW k \in DOMAIN build.abis, k < build'.i \/ build'.pc = "shell"
                 PROVE  /\ kept'[build.abis[k]].id = kept'[build.abis[k]].library
                        /\ kept'[build.abis[k]].library[1] = build.abis[k]
      BY <1>5 DEF KeptInv, KeptRight
    <2>1. k = build.i \/ k < build.i
      BY <1>2, <1>4, <1>5
    <2>2. k < build.i => KeptRight(build.abis[k])
      BY <1>1 DEF BuildStampInv, KeptInv
    <2> QED BY <1>2, <1>8, <2>1, <2>2 DEF AbiNow
  <1>12. LibraryInv' /\ AssetInv'
    BY <1>4, <1>5 DEF LibraryInv, AssetInv
  <1>13. CompleteBuildSupportsCodePush' /\ BundleMapsItsLibraries'
    BY <1>4, <1>5, <1>6 DEF BuildStampInv, CompleteBuildSupportsCodePush,
       BundleMapsItsLibraries
  <1> QED BY <1>9, <1>10, <1>11, <1>12, <1>13 DEF BuildStampInv

LEMMA AssembleKeeps == ASSUME BuildStampInv, AssembleAab PROVE BuildStampInv'
  <1>1. /\ build.pc = "shell" /\ build.pc \notin BuildEnded /\ build.release
        /\ UNCHANGED <<source, declared, file, artifact, kept, undeclared, builds>>
    BY DEF AssembleAab, BuildEnded, BuildStampInv, TargetInv
  <1>2. \A k \in DOMAIN build.abis :
          build.abis[k] \in Abis /\ KeptRight(build.abis[k])
    BY <1>1 DEF BuildStampInv, KeptInv, TargetInv
  <1>3. /\ Assembled \in [ids: [Abis -> Values], libraries: [Abis -> Values]]
        /\ Assembled.ids = Assembled.libraries
        /\ \A k \in DOMAIN build.abis :
             Assembled.libraries[build.abis[k]][1] = build.abis[k]
    BY <1>2, ValueTypes DEF Assembled, KeptRight, BuildStampInv, BuildStampTypeOK
  <1>4. /\ NoBundle \in [ids: [Abis -> Values], libraries: [Abis -> Values]]
        /\ NoBundle.ids = NoBundle.libraries
    BY ValueTypes DEF NoBundle, Nothing
  <1>5. bundle' \in {bundle, NoBundle, Assembled}
    BY DEF AssembleAab
  <1>6. CASE BuildTo("failed")
    BY <1>1, <1>3, <1>4, <1>5, <1>6, FailsKeeps, LeftAlone
  <1>7. CASE BuildTo("ok") /\ bundle' \in {NoBundle, Assembled}
    <2>1. build.changed \in BOOLEAN
      BY BuilderFacts DEF BuildStates
    <2>2. /\ build' \in BuildStates /\ build'.pc = "ok"
          /\ build'.release /\ build'.abis = build.abis
      BY <1>1, <1>7, <2>1, BuildGoesTo DEF BuildEnded
    <2>3. BuildStampTypeOK'
      BY <1>1, <1>3, <1>4, <1>7, <2>2 DEF BuildStampInv, BuildStampTypeOK
    <2>4. BundleMapsItsLibraries'
      <3>1. UNCHANGED NoBundle
        BY DEF NoBundle, Nothing
      <3> QED BY <1>3, <1>4, <1>7, <2>2, <3>1 DEF BundleMapsItsLibraries
    <2> QED BY <2>2, <2>3, <2>4 DEF BuildStampInv, TargetInv, LibraryInv, AssetInv, KeptInv,
               CompleteBuildSupportsCodePush, BuildEnded
  <1> QED BY <1>6, <1>7 DEF AssembleAab

(* Between two commands.                                                     *)
LEMMA EditSourceKeeps ==
  ASSUME BuildStampInv, EditSource \/ LoseDeclaration
  PROVE  BuildStampInv'
  <1>1. build.pc \in BuildEnded
        /\ UNCHANGED <<file, artifact, build, kept, bundle, undeclared, builds>>
    BY DEF EditSource, LoseDeclaration
  <1>2. source' \in Sources /\ declared' \subseteq Assets
    BY BuildStampAssumption DEF EditSource, LoseDeclaration, BuildStampInv,
       BuildStampTypeOK, Sources
  <1>3. BuildStampTypeOK'
    BY <1>1, <1>2 DEF BuildStampInv, BuildStampTypeOK
  <1>4. CompleteBuildSupportsCodePush' /\ BundleMapsItsLibraries'
    BY <1>1 DEF BuildStampInv, CompleteBuildSupportsCodePush, BundleMapsItsLibraries, AbiNow
  <1> QED BY <1>1, <1>3, <1>4 DEF BuildStampInv, TargetInv, LibraryInv, AssetInv, KeptInv,
             BuildEnded

LEMMA BuildStampStepInv == BuildStampInv /\ [BuildStampNext]_stVars => BuildStampInv'
  <1> SUFFICES ASSUME BuildStampInv, [BuildStampNext]_stVars PROVE BuildStampInv'
    OBVIOUS
  <1>1. CASE UNCHANGED stVars
    BY <1>1 DEF stVars, BuildStampInv, BuildStampTypeOK, TargetInv, LibraryInv, AssetInv,
       KeptInv, KeptRight, CompleteBuildSupportsCodePush, BundleMapsItsLibraries, AbiNow
  <1>2. ASSUME NEW t \in Targets, StartBuild(t) PROVE BuildStampInv'
    <2>1. <<t>> \in Seq(Targets) /\ <<t>> # <<>>
      OBVIOUS
    <2>2. PICK pc \in {"compile", "failed"} : Started(FALSE, <<t>>, pc)
      BY <1>2 DEF StartBuild
    <2> QED BY <2>1, <2>2, StartedKeeps
  <1>3. ASSUME NEW abis \in {<<b>> : b \in Abis} \cup {<<"arm64-v8a", "armeabi-v7a">>},
               StartRelease(abis)
        PROVE  BuildStampInv'
    <2>1. /\ abis \in Seq(Targets) /\ abis # <<>>
          /\ \A k \in DOMAIN abis : abis[k] \in Abis
      <3>1. CASE \E b \in Abis : abis = <<b>>
        BY <3>1 DEF Targets
      <3>2. CASE abis = <<"arm64-v8a", "armeabi-v7a">>
        <4>1. "arm64-v8a" \in Abis /\ "armeabi-v7a" \in Abis
          BY DEF Abis
        <4>2. DOMAIN abis = {1, 2} /\ abis[1] \in Abis /\ abis[2] \in Abis
          BY <3>2, <4>1
        <4>3. abis \in Seq(Targets)
          BY <3>2, <4>1 DEF Targets
        <4> QED BY <3>2, <4>2, <4>3
      <3> QED BY <3>1, <3>2
    <2>2. PICK pc \in {"clean", "failed"} : Started(TRUE, abis, pc)
      BY <1>3 DEF StartRelease
    <2> QED BY <2>1, <2>2, StartedKeeps
  <1>4. CASE BuildStep
    BY <1>4, CleanKeeps, CompileKeeps, VersionKeeps, IdKeeps, RecompileKeeps, KeepKeeps,
       AssembleKeeps DEF BuildStep
  <1> QED BY <1>1, <1>2, <1>3, <1>4, EditSourceKeeps DEF BuildStampNext

(* The library in the artifact, the stamps and what a release has put aside  *)
(* belong together at every step (build_stamp.go:68, release.go:199).        *)
THEOREM BuildStampInvariant == BuildStampSpec => []BuildStampInv
  BY BuildStampInitInv, BuildStampStepInv, PTL DEF BuildStampSpec

(* A finished build reports the build_id of its own library, for any         *)
(* sequence of builds, releases and edits (build.go:309).                    *)
THEOREM BuildsReportThemselves == BuildStampSpec => []CompleteBuildSupportsCodePush
  <1>1. BuildStampInv => CompleteBuildSupportsCodePush
    BY DEF BuildStampInv
  <1> QED BY <1>1, BuildStampInvariant, PTL

(* The map in an assembled bundle names the libraries it ships.              *)
THEOREM BundlesMapTheirLibraries == BuildStampSpec => []BundleMapsItsLibraries
  <1>1. BuildStampInv => BundleMapsItsLibraries
    BY DEF BuildStampInv
  <1> QED BY <1>1, BuildStampInvariant, PTL
=============================================================================
