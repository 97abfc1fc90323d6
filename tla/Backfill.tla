------------------------------ MODULE Backfill ------------------------------
(***************************************************************************)
(* Vector fields (src/cmd/vector_fields.go): declare, change the automatic *)
(* embedding, delete, and the two backfills, `embed-all` and               *)
(* `lexical-backfill`, which ask the server for one page after the other   *)
(* until it has no more, while apps go on writing records.                 *)
(*                                                                         *)
(* The server is external: it walks the records in the order of their ids, *)
(* from the cursor it is given, or from the start without one; it needs the *)
(* declared field, and for embed-all an embedding on it.  lexical-backfill  *)
(* brings each record on the page up to date, but for those without source  *)
(* text; embed-all only queues a job for each that is not, and the job runs *)
(* in the background.  The two indexes are apart: a behaviour is about one  *)
(* of them.                                                                *)
(***************************************************************************)
EXTENDS Naturals, FiniteSets, Remote

CONSTANTS Records,      \* how many record ids there are
          PageSize,     \* how many records a page has
          MaxWrites,    \* bound on the writes of apps
          MaxBackfills, \* bound on the backfills run
          MaxLapses     \* bound on the pages answered without a next cursor

ASSUME BackfillAssumption ==
  /\ Records \in Nat \ {0} /\ PageSize \in Nat \ {0}
  /\ MaxWrites \in Nat /\ MaxBackfills \in Nat /\ MaxLapses \in Nat

VARIABLES field,      \* server: "none", "plain" or "embedded"
          text,       \* server: the source text of each record
          indexed,    \* server: the text each record is indexed under
          queued,     \* server: the records with an embedding job not done
          backfill,   \* the command
          writes, backfills, lapses   \* how many there were

backfillVars == <<field, text, indexed, queued, backfill, writes, backfills, lapses>>

NoText   == 0              \* the record has no source text
NoRecord == MaxWrites + 2  \* it does not exist
Texts    == 0..NoRecord
Finished(b) == b.pc \in {"none", "ok", "failed"}
Need(kind) == IF kind = "embed" THEN {"embedded"} ELSE {"plain", "embedded"}

\* cursor: what the next page starts after; job: the job the pages are counted
\* under, 0 before the first answer; odd: whether an odd number of pages was
\* answered; watched: the records that have existed since the command started;
\* whole: the field was not changed meanwhile.
Backfills ==
  [pc: {"none", "page", "ok", "failed"}, kind: {"embed", "lexical"},
   cursor: 0..Records, job: 0..MaxBackfills, odd: BOOLEAN,
   watched: SUBSET (1..Records), whole: BOOLEAN]
BackfillTypeOK ==
  /\ field \in {"none", "plain", "embedded"}
  /\ text \in [1..Records -> Texts] /\ indexed \in [1..Records -> Texts]
  /\ queued \subseteq 1..Records
  /\ backfill \in Backfills
  /\ writes \in 0..MaxWrites /\ backfills \in 0..MaxBackfills
  /\ lapses \in 0..MaxLapses

BackfillInit ==
  /\ field = "embedded"
  /\ text \in [1..Records -> {NoRecord, NoText, 1}]
  /\ indexed = [r \in 1..Records |-> NoText] /\ queued = {}
  /\ \E kind \in {"embed", "lexical"} :
       backfill = [pc |-> "none", kind |-> kind, cursor |-> 0, job |-> 0,
                   odd |-> FALSE, watched |-> {}, whole |-> TRUE]
  /\ writes = 0 /\ backfills = 0 /\ lapses = 0

-----------------------------------------------------------------------------
StartBackfill ==
  /\ Finished(backfill) /\ backfills < MaxBackfills
  /\ backfills' = backfills + 1
  /\ backfill' = [backfill EXCEPT !.pc = "page", !.cursor = 0, !.job = 0,
                  !.odd = FALSE, !.whole = TRUE,
                  !.watched = {r \in 1..Records : text[r] # NoRecord}]
  /\ UNCHANGED <<field, text, indexed, queued, writes, lapses>>

Left == {r \in (backfill.cursor + 1)..Records : text[r] # NoRecord}
Page == {r \in Left : Cardinality({q \in Left : q < r}) < PageSize}
\* A bug: the command ends when it had nothing to do for part of a page.
MoreOrIdle ==
  Page # Left /\ Cardinality({r \in Page : text[r] # NoText}) = PageSize
More == Page # Left

\* What the answer to a page, counted under a job, makes of the command.  An
\* error ends it.  A page that has more and gives no cursor for it sends the
\* command back to the start, where it passes over what is current.
NextPage(o, job) ==
  /\ backfill.pc = "page"
  /\ field \notin Need(backfill.kind) => o = "refused"
  /\ LET answered == [backfill EXCEPT !.odd = ~@, !.job = job] IN
       \/ /\ ~Reported(o)
          /\ backfill' = [backfill EXCEPT !.pc = "failed"] /\ UNCHANGED lapses
       \/ /\ Reported(o) /\ ~More
          /\ backfill' = [answered EXCEPT !.pc = "ok"] /\ UNCHANGED lapses
       \/ /\ Reported(o) /\ More
          /\ backfill' = [answered EXCEPT
                !.cursor = CHOOSE r \in Page : \A q \in Page : q <= r]
          /\ UNCHANGED lapses
       \/ /\ Reported(o) /\ More /\ lapses < MaxLapses
          /\ backfill' = [answered EXCEPT !.cursor = 0] /\ lapses' = lapses + 1
  /\ UNCHANGED <<field, text, writes, backfills>>

\* The records of the page that have source text and another, or none, indexed.
Stale == {r \in Page : text[r] # NoText /\ indexed[r] # text[r]}

EmbedPage(o) ==
  /\ backfill.kind = "embed" /\ NextPage(o, 0)
  /\ queued' = IF CarriedOut(o) THEN queued \cup Stale ELSE queued
  /\ UNCHANGED indexed

\* The pages after the first name the job that the first was answered with.
JobNamed == IF backfill.job = 0 THEN backfills ELSE backfill.job
LexicalPage(o) ==
  /\ backfill.kind = "lexical" /\ NextPage(o, JobNamed)
  /\ indexed' = [r \in 1..Records |->
                   IF CarriedOut(o) /\ r \in Stale THEN text[r] ELSE indexed[r]]
  /\ UNCHANGED queued

\* The provider embeds the text a record has then.  A job that fails is one not
\* done.
RunJob(r) ==
  /\ r \in queued
  /\ queued' = queued \ {r}
  /\ indexed' = [indexed EXCEPT ![r] = text[r]]
  /\ UNCHANGED <<field, text, backfill, writes, backfills, lapses>>

\* Apps.  With an embedding on the field, what is written gets a job; a lexical
\* row is written with it, as long as there is a field.
WriteRecord(r, t) ==
  LET follows == field \in Need(backfill.kind) /\ t # NoRecord IN
  /\ writes < MaxWrites /\ t # text[r]
  /\ writes' = writes + 1
  /\ text' = [text EXCEPT ![r] = t]
  /\ queued' = IF t = NoRecord THEN queued \ {r}
               ELSE IF follows /\ backfill.kind = "embed" /\ t # NoText
               THEN queued \cup {r} ELSE queued
  /\ indexed' = [indexed EXCEPT ![r] =
                   IF t = NoRecord THEN NoText
                   ELSE IF follows /\ backfill.kind = "lexical" THEN t ELSE @]
  /\ backfill' = [backfill EXCEPT !.watched = IF t = NoRecord THEN @ \ {r} ELSE @]
  /\ UNCHANGED <<field, backfills, lapses>>

\* One call each, refused or carried out.
SetField(f) ==
  /\ writes < MaxWrites /\ writes' = writes + 1
  /\ field' = f
  /\ backfill' = [backfill EXCEPT !.whole = FALSE]
  /\ UNCHANGED <<text, backfills, lapses>>

\* The embedding has a provider, a model and a source field, or none of them.
CreateField(f) == field = "none" /\ SetField(f) /\ UNCHANGED <<indexed, queued>>
\* All three are replaced, or cleared with --clear, which keeps what is indexed.
UpdateEmbedding(f) ==
  field \notin {"none", f} /\ SetField(f) /\ UNCHANGED <<indexed, queued>>
DeleteField ==
  /\ field # "none" /\ SetField("none") /\ queued' = {}
  /\ indexed' = [r \in 1..Records |-> NoText]

BackfillStep == \E o \in Outcomes : EmbedPage(o) \/ LexicalPage(o)

BackfillNext ==
  \/ StartBackfill
  \/ BackfillStep
  \/ \E r \in 1..Records : RunJob(r)
  \/ \E r \in 1..Records, t \in {NoRecord, NoText, writes + 1} : WriteRecord(r, t)
  \/ \E f \in {"plain", "embedded"} : CreateField(f) \/ UpdateEmbedding(f)
  \/ DeleteField

BackfillFairness == WF_backfillVars(BackfillStep)
BackfillSpec == BackfillInit /\ [][BackfillNext]_backfillVars /\ BackfillFairness

-----------------------------------------------------------------------------
\* "Backfill complete" (vector_fields.go:328): every record that was there when
\* the command started, and still is, is indexed under its present text or, for
\* embed-all, which does not wait (vector_fields.go:334), has a job for it;
\* however its pages, the jobs and the writes of apps interleaved, whatever
\* earlier runs that failed had done, and from wherever a page sent it back;
\* unless the field itself was changed meanwhile.
Current(r) == text[r] # NoText => indexed[r] = text[r]
Covered(r) == Current(r) \/ (backfill.kind = "embed" /\ r \in queued)
CompleteBackfillMissesNone ==
  backfill.pc = "ok" /\ backfill.whole => \A r \in backfill.watched : Covered(r)

\* Why: what the cursor has passed is covered, and stays so as long as the
\* field is one whose writes are.
WatchedInv == \A r \in backfill.watched : text[r] # NoRecord
PassedInv ==
  backfill.whole =>
    /\ backfill.pc = "page" =>
         /\ backfill.cursor > 0 => field \in Need(backfill.kind)
         /\ \A r \in backfill.watched : r <= backfill.cursor => Covered(r)
    /\ backfill.pc = "ok" =>
         /\ field \in Need(backfill.kind)
         /\ \A r \in backfill.watched : Covered(r)
BackfillInv == BackfillTypeOK /\ WatchedInv /\ PassedInv
=============================================================================
