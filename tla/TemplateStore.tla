--------------------------- MODULE TemplateStore ---------------------------
(***************************************************************************)
(* The template cache (internal/templates/store.go, verify.go, extract.go) *)
(* shared, without locks, by every `koolbase add` and `koolbase create     *)
(* --template` that runs on a machine.  A run fetches the catalog, and     *)
(* unless the cache holds the entry downloads its bundle, verifies it,     *)
(* extracts it into a staging directory of its own and renames that into   *)
(* place.  Runs interleave, fail and are killed; a hand may edit the cache.*)
(*                                                                         *)
(* A bundle is identified with its SHA-256.  A directory is the set of     *)
(* files in it, each a <<bundle, file>> pair, and its metadata.            *)
(***************************************************************************)
EXTENDS Naturals

CONSTANTS
  Runs,              \* invocations of the CLI
  Ids,               \* cache paths: framework/id/version
  Shas, Damaged,     \* bundles a catalog may declare, and a download gone wrong
  Parts,             \* [Shas -> set of files]: what a bundle extracts to
  Entries,           \* entries of the catalogs a run may be pointed at
  NoDir, NoMeta,
  MaxHands           \* bound: edits of the cache by hand

Entry == [id : Ids, sha : Shas, signed : BOOLEAN]

ASSUME StoreAssumption ==
  /\ Entries \subseteq Entry
  /\ \A s \in Shas : Parts[s] # {}
  /\ Damaged \notin Shas /\ NoMeta \notin Shas
  /\ MaxHands \in Nat

Content(s) == {s} \X Parts[s]
AllFiles == UNION {({s, Damaged} \X Parts[s]) : s \in Shas}
Tree == [files : SUBSET AllFiles, meta : Shas \cup {NoMeta}]

ASSUME NoDirIsNoTree == NoDir \notin Tree

Empty == [files |-> {}, meta |-> NoMeta]

VARIABLES
  cache,      \* [Ids -> Tree or NoDir]: ~/.koolbase/templates/<id>
  stage,      \* [Runs -> Tree or NoDir]: the run's .staging-<random> directory
  old,        \* runs whose staging directory is older than tempMaxAge
  pc, want,   \* per run: where it is, and its catalog entry
  optOut,     \* per run: KOOLBASE_TEMPLATES_ALLOW_UNSIGNED=1
  bundle,     \* per run: what it has downloaded
  pending,    \* per run: files still to be extracted
  ending,     \* per run: how it will end after the clean-up
  stalled,    \* history: a live run's staging directory got old
  touched,    \* history: cache paths edited by hand
  hands       \* counter for the bound

local == <<want, optOut, bundle, pending, ending>>
hand == <<stalled, touched, hands>>
vars == <<cache, stage, old, pc, local, hand>>

Working == {"sweep", "catalog", "validate", "download", "verify", "stage", "extract",
            "promote", "recheck", "cleanup"}
Ended == {"ready", "failed", "killed"}

TypeOK ==
  /\ cache \in [Ids -> Tree \cup {NoDir}]
  /\ stage \in [Runs -> Tree \cup {NoDir}]
  /\ old \subseteq Runs
  /\ pc \in [Runs -> {"new"} \cup Working \cup Ended]
  /\ want \in [Runs -> Entries]
  /\ optOut \in [Runs -> BOOLEAN]
  /\ bundle \in [Runs -> Shas \cup {Damaged}]
  /\ pending \in [Runs -> SUBSET AllFiles]
  /\ ending \in [Runs -> {"ready", "failed"}]
  /\ stalled \in BOOLEAN /\ touched \subseteq Ids /\ hands \in Nat
  /\ \A p \in Runs : pc[p] \in {"stage", "extract", "promote", "recheck", "cleanup"} =>
                       bundle[p] = want[p].sha

Init ==
  /\ cache = [i \in Ids |-> NoDir]
  /\ stage = [p \in Runs |-> NoDir]
  /\ old = {}
  /\ pc = [p \in Runs |-> "new"]
  /\ want \in [Runs -> Entries]
  /\ optOut \in [Runs -> BOOLEAN]
  /\ bundle = [p \in Runs |-> Damaged]
  /\ pending = [p \in Runs |-> {}]
  /\ ending = [p \in Runs |-> "failed"]
  /\ stalled = FALSE /\ touched = {} /\ hands = 0

-----------------------------------------------------------------------------
Goes(p, from, to) == pc[p] = from /\ pc' = [pc EXCEPT ![p] = to]

\* A bug: only the presence of metadata is checked.
ValidIfAnyMeta(dir, e) == dir # NoDir /\ dir.meta # NoMeta

\* validateCacheEntry: the metadata names the wanted digest.  The path already
\* fixes id, framework and version.  The files are not looked at.
Valid(dir, e) == dir # NoDir /\ dir.meta = e.sha

Begin(p) ==
  /\ Goes(p, "new", "sweep")
  /\ UNCHANGED <<cache, stage, old, local, hand>>

\* SweepStaging: best effort, so any of the old directories may survive.
SweepStaging(p) ==
  /\ Goes(p, "sweep", "catalog")
  /\ \E gone \in SUBSET {q \in old : stage[q] # NoDir} :
       stage' = [q \in Runs |-> IF q \in gone THEN NoDir ELSE stage[q]]
  /\ UNCHANGED <<cache, old, local, hand>>

\* The catalog is fetched and the reference resolved, always.
FetchCatalog(p) ==
  /\ Goes(p, "catalog", "validate") \/ Goes(p, "catalog", "failed")
  /\ UNCHANGED <<cache, stage, old, local, hand>>

CacheHit(p) ==
  /\ Goes(p, "validate", "ready")
  /\ Valid(cache[want[p].id], want[p])
  /\ UNCHANGED <<cache, stage, old, local, hand>>

CacheMiss(p) ==
  /\ Goes(p, "validate", "download")
  /\ ~Valid(cache[want[p].id], want[p])
  /\ UNCHANGED <<cache, stage, old, local, hand>>

\* download: what arrives may be anything.
Download(p) ==
  /\ \/ Goes(p, "download", "verify") /\ \E b \in Shas \cup {Damaged} :
                                           bundle' = [bundle EXCEPT ![p] = b]
     \/ Goes(p, "download", "failed") /\ UNCHANGED bundle
  /\ UNCHANGED <<cache, stage, old, want, optOut, pending, ending, hand>>

\* A bug: the digest is taken as proof of the signature.
VerifiedByDigest(p) == bundle[p] = want[p].sha

\* VerifyBundle and verifySignature.
Verified(p) == bundle[p] = want[p].sha /\ (want[p].signed \/ optOut[p])

Verify(p) ==
  /\ IF Verified(p) THEN Goes(p, "verify", "stage") ELSE Goes(p, "verify", "failed")
  /\ UNCHANGED <<cache, stage, old, local, hand>>

\* tempDir and the MkdirAll of its "root".
MakeStaging(p) ==
  /\ \/ /\ Goes(p, "stage", "extract")
        /\ stage' = [stage EXCEPT ![p] = Empty]
        /\ pending' = [pending EXCEPT ![p] = Content(want[p].sha)]
     \/ Goes(p, "stage", "failed") /\ UNCHANGED <<stage, pending>>
  /\ UNCHANGED <<cache, old, want, optOut, bundle, ending, hand>>

\* ExtractBundle, a file at a time.  Its MkdirAll makes the directory again
\* if the staging was swept meanwhile.
ExtractFile(p, f) ==
  /\ pc[p] = "extract" /\ f \in pending[p]
  /\ stage' = [stage EXCEPT ![p] = [files |-> (IF @ = NoDir THEN {} ELSE @.files) \cup {f},
                                    meta |-> NoMeta]]
  /\ pending' = [pending EXCEPT ![p] = @ \ {f}]
  /\ UNCHANGED <<cache, old, pc, want, optOut, bundle, ending, hand>>

\* A limit, an entry type that is not allowed, a full disk, or metadata that
\* cannot be written.
ExtractFails(p) ==
  /\ Goes(p, "extract", "failed")
  /\ stage' = [stage EXCEPT ![p] = NoDir]
  /\ UNCHANGED <<cache, old, local, hand>>

\* A bug: the metadata is written before the files.
WriteMetaEarly(p) ==
  /\ Goes(p, "extract", "promote")
  /\ stage[p] # NoDir
  /\ stage' = [stage EXCEPT ![p].meta = want[p].sha]
  /\ UNCHANGED <<cache, old, local, hand>>

\* writeMeta: os.WriteFile makes no directory.
WriteMeta(p) ==
  /\ Goes(p, "extract", "promote")
  /\ pending[p] = {} /\ stage[p] # NoDir
  /\ stage' = [stage EXCEPT ![p].meta = want[p].sha]
  /\ UNCHANGED <<cache, old, local, hand>>

Promoted(p) ==
  /\ Goes(p, "promote", "cleanup")
  /\ cache' = [cache EXCEPT ![want[p].id] = stage[p]]
  /\ stage' = [stage EXCEPT ![p] = Empty]
  /\ ending' = [ending EXCEPT ![p] = "ready"]
  /\ UNCHANGED <<old, want, optOut, bundle, pending, hand>>

\* A bug: the directory in the way is replaced.
PromoteOver(p) == stage[p] # NoDir /\ Promoted(p)

\* os.Rename(staging, entry) needs the staging and no directory in the way.
Promote(p) ==
  /\ stage[p] # NoDir /\ cache[want[p].id] = NoDir
  /\ Promoted(p)

\* The rename fails, or already the MkdirAll of the entry's parent, which an
\* entry in place has.
PromoteFails(p) ==
  /\ \/ Goes(p, "promote", "recheck") /\ UNCHANGED ending
     \/ /\ Goes(p, "promote", "cleanup") /\ cache[want[p].id] = NoDir
        /\ ending' = [ending EXCEPT ![p] = "failed"]
  /\ UNCHANGED <<cache, stage, old, want, optOut, bundle, pending, hand>>

\* A bug: losing the race is an error.
RecheckLost(p) ==
  /\ Goes(p, "recheck", "cleanup")
  /\ ending' = [ending EXCEPT ![p] = "failed"]
  /\ UNCHANGED <<cache, stage, old, want, optOut, bundle, pending, hand>>

\* A bug: a run that lost the race tries again.
RecheckAgain(p) ==
  /\ Goes(p, "recheck", "promote")
  /\ UNCHANGED <<cache, stage, old, local, hand>>

\* After a failed rename the entry in place decides.
Recheck(p) ==
  /\ Goes(p, "recheck", "cleanup")
  /\ ending' = [ending EXCEPT ![p] =
                  IF Valid(cache[want[p].id], want[p]) THEN "ready" ELSE "failed"]
  /\ UNCHANGED <<cache, stage, old, want, optOut, bundle, pending, hand>>

RemoveStaging(p) ==
  /\ Goes(p, "cleanup", ending[p])
  /\ stage' = [stage EXCEPT ![p] = NoDir]
  /\ UNCHANGED <<cache, old, local, hand>>

-----------------------------------------------------------------------------
(* The machine: a run is killed, a staging directory gets old. *)

Kill(p) ==
  /\ pc[p] \in Working
  /\ pc' = [pc EXCEPT ![p] = "killed"]
  /\ UNCHANGED <<cache, stage, old, local, hand>>

Age(p) ==
  /\ stage[p] # NoDir /\ p \notin old
  /\ old' = old \cup {p}
  /\ stalled' = (stalled \/ pc[p] \notin Ended)
  /\ UNCHANGED <<cache, stage, pc, local, touched, hands>>

(* The cache is ordinary user-writable disk. *)
ByHand(i, dir) ==
  /\ hands < MaxHands /\ cache[i] # NoDir
  /\ cache' = [cache EXCEPT ![i] = dir]
  /\ touched' = touched \cup {i} /\ hands' = hands + 1
  /\ UNCHANGED <<stage, old, pc, local, stalled>>

Tamper(i, f) ==
  /\ cache[i] # NoDir /\ f \in cache[i].files
  /\ ByHand(i, [cache[i] EXCEPT !.files = (@ \ {f}) \cup {<<Damaged, f[2]>>}])

LoseMeta(i) == cache[i] # NoDir /\ ByHand(i, [cache[i] EXCEPT !.meta = NoMeta])

RemoveEntry(i) == ByHand(i, NoDir)

Step(p) ==
  \/ SweepStaging(p) \/ FetchCatalog(p) \/ CacheHit(p) \/ CacheMiss(p) \/ Download(p)
  \/ Verify(p) \/ MakeStaging(p) \/ ExtractFails(p) \/ WriteMeta(p)
  \/ \E f \in pending[p] : ExtractFile(p, f)
  \/ Promote(p) \/ PromoteFails(p) \/ Recheck(p) \/ RemoveStaging(p)

Hand ==
  \E i \in Ids : \/ LoseMeta(i) \/ RemoveEntry(i)
                 \/ \E f \in AllFiles : Tamper(i, f)

Next == (\E p \in Runs : Begin(p) \/ Step(p) \/ Kill(p) \/ Age(p)) \/ Hand

\* The operating system runs a started process, and its network calls time
\* out; that somebody starts one is not assumed.
Spec == Init /\ [][Next]_vars /\ \A p \in Runs : WF_vars(Step(p))

-----------------------------------------------------------------------------
Exactly(i, s) == cache[i] # NoDir /\ cache[i].files = Content(s)

(* "once this directory exists and validates, its contents are correct     *)
(* forever": an entry no hand has edited holds exactly the files of the    *)
(* bundle whose digest its metadata names, in every interleaving of runs   *)
(* that race, fail or are killed; and that bundle was signed or some run   *)
(* opted out.  The condition on stalled is the code's: SweepStaging takes  *)
(* a staging directory older than 24 hours for abandoned.                  *)
EntriesAreWhole ==
  \A i \in Ids \ touched :
    cache[i] # NoDir =>
      /\ cache[i].meta # NoMeta
      /\ cache[i].files \subseteq Content(cache[i].meta)
      /\ ~stalled => Exactly(i, cache[i].meta)

(* A run that ended ready was given the bundle its catalog names, and goes *)
(* on reading that one: nothing replaces it while its files are rendered.  *)
ServedIsWanted ==
  \A p \in Runs :
    pc[p] = "ready" /\ want[p].id \notin touched /\ ~stalled =>
      Exactly(want[p].id, want[p].sha)

(* "Both are required, always": an unsigned template is only served when   *)
(* some run on this machine opted out of signatures for it.                *)
UnsignedOnlyByOptOut ==
  \A p \in Runs :
    pc[p] = "ready" /\ want[p].id \notin touched =>
      \E q \in Runs : /\ want[q].id = want[p].id /\ want[q].sha = want[p].sha
                      /\ want[q].signed \/ optOut[q]

(* The cache entry is immutable: no run replaces or removes one.           *)
NeverReplaced ==
  [][\A i \in Ids : cache[i] # NoDir /\ cache'[i] # cache[i] => hands' # hands]_vars

\* The entry a run wants is in the cache, whoever put it there, and the run
\* has only to look: it begins to, or its own bundle is ready as well.
Settled(p) ==
  pc[p] \in {"validate", "promote", "recheck"} /\ Valid(cache[want[p].id], want[p])

(* "Losing the race is normal, not an error": from there on the run does   *)
(* not fail, in whatever order the others rename, sweep and clean up,      *)
(* though its own rename cannot succeed any more.  Only an edit of that    *)
(* entry by hand changes it.                                               *)
LosersAreServed ==
  \A p \in Runs : [](Settled(p) => [](pc[p] = "failed" => want[p].id \in touched))

(* Every run ends, whatever the others do: nobody waits for a lock.        *)
EveryRunEnds == \A p \in Runs : pc[p] = "sweep" ~> pc[p] \in Ended

(* What they rest on: the inductive invariant.  A staging directory that   *)
(* nobody swept holds what has been extracted; the renamed one all of it.  *)
StagingInv ==
  \A p \in Runs :
    /\ pc[p] = "extract" =>
         /\ pending[p] \subseteq Content(want[p].sha)
         /\ stage[p] # NoDir => stage[p].files \subseteq Content(want[p].sha)
         /\ ~stalled => stage[p] # NoDir /\ stage[p].files \cup pending[p] = Content(want[p].sha)
    /\ pc[p] \in {"promote", "recheck"} /\ stage[p] # NoDir =>
         /\ stage[p].meta = want[p].sha
         /\ stage[p].files \subseteq Content(want[p].sha)
         /\ ~stalled => stage[p].files = Content(want[p].sha)
    /\ ~stalled /\ p \in old => pc[p] \in Ended

ReadyInv ==
  \A p \in Runs :
    /\ pc[p] = "ready" \/ (pc[p] = "cleanup" /\ ending[p] = "ready") =>
         want[p].id \in touched \/ Valid(cache[want[p].id], want[p])

\* A run puts in place what it verified, and verified means signed, unless it
\* opted out; so somebody stands for every entry.
StandsFor(q, i, sha) ==
  want[q].id = i /\ want[q].sha = sha /\ (want[q].signed \/ optOut[q])
SignedInv ==
  /\ \A p \in Runs : pc[p] \in {"stage", "extract", "promote", "recheck", "cleanup"} =>
                       StandsFor(p, want[p].id, want[p].sha)
  /\ \A i \in Ids \ touched :
       cache[i] # NoDir => \E q \in Runs : StandsFor(q, i, cache[i].meta)

StoreInv == TypeOK /\ EntriesAreWhole /\ StagingInv /\ ReadyInv /\ SignedInv

(* Staging and renaming, racing and looking again, a run of the cache is   *)
(* for the commands one where entries appear at once, whole, by a run that *)
(* may add them, and where nobody is given another template than the one   *)
(* the catalog names: TemplateStore implements TemplateContract.           *)
Phases == [p \in Runs |-> IF pc[p] \in Working THEN "working" ELSE pc[p]]
Contract == INSTANCE TemplateContract
              WITH phase <- Phases, edited <- touched, late <- stalled
ServesByContract == Contract!Spec

(* "Cached bundles are verified on every use": the entry a run takes from  *)
(* the cache, instead of downloading, has the contents its catalog names.  *)
VerifiedOnEveryUse ==
  [][\A p \in Runs :
       pc[p] = "validate" /\ pc'[p] = "ready" => Exactly(want[p].id, want[p].sha)]_vars
=============================================================================
