------------------------------ MODULE Migrate ------------------------------
(***************************************************************************)
(* `koolbase migrate firebase` (src/cmd/migrate.go): a Firestore export is *)
(* flattened, every document is given a UUID remembered by collection name *)
(* and document id, references are rewritten to the new ids and declared,  *)
(* and an archive is written for import.                                   *)
(*                                                                         *)
(* A document has one field that may be a reference and, below another     *)
(* document, the field `<parent>_id`, here named by the parent collection. *)
(* Subcollections are one level deep.  A UUID is the document it was made  *)
(* for.  Time stamps and the conversion of values that are no strings are  *)
(* left out; a value is a string naming an id, or no string.               *)
(***************************************************************************)
EXTENDS Naturals, Sequences

CONSTANTS Names,      \* of collections, each also names the field <name>_id
          Ids,        \* of documents, within a collection
          MaxDocs,    \* bound on the documents of an export
          RefLists    \* what --ref may be given: sequences of RefSpec

VARIABLES docs,      \* the export: value of the field of each document
          refs,      \* --ref
          newID,     \* the UUID of each collection name and id
          applied,   \* how many of --ref have been applied
          records,   \* the rewritten fields of each document
          references,\* references.json
          archive,   \* the archive file
          migrate    \* where the command is

migrateVars == <<docs, refs, newID, applied, records, references, archive, migrate>>

Top == "top"
Documents == [parentCol: {Top}, parentID: {0}, col: Names, id: Ids]
             \cup [parentCol: Names, parentID: Ids, col: Names, id: Ids]
NoDocument == [parentCol |-> Top, parentID |-> 0, col |-> Top, id |-> 0]
FieldNames  == {"field"} \cup Names
RefSpec == [col: Names, field: FieldNames, target: Names]

\* kind: "id", a Firestore id; "uuid"; "other", no string; "null", cleared.
Value(kind, id, doc) == [kind |-> kind, id |-> id, doc |-> doc]
Id(i)   == Value("id", i, NoDocument)
Uuid(d) == Value("uuid", 0, d)
Other   == Value("other", 0, NoDocument)
Null    == Value("null", 0, NoDocument)

Key(d)       == <<d.col, d.id>>
ParentKey(d) == <<d.parentCol, d.parentID>>
IsSub(d)     == d.parentCol # Top
\* A subcollection is found below its parent.
Exports == {T \in {{}} \cup {{s[n] : n \in 1..MaxDocs} : s \in [1..MaxDocs -> Documents]} :
              \A d \in T : IsSub(d) =>
                \E p \in T : ~IsSub(p) /\ Key(p) = ParentKey(d)}

\* The field of a document is none of the parents', and only subcollections
\* have a parent.
ASSUME MigrateAssumption ==
  /\ "field" \notin Names /\ Top \notin Names
  /\ RefLists \subseteq Seq(RefSpec) /\ MaxDocs \in Nat

MigrateTypeOK ==
  /\ DOMAIN docs \subseteq Documents /\ refs \in RefLists
  /\ \A k \in DOMAIN newID : k \in Names \X Ids /\ newID[k] \in DOMAIN docs
  /\ applied \in 0..Len(refs)
  /\ DOMAIN records \subseteq DOMAIN docs
  /\ \A d \in DOMAIN records : DOMAIN records[d] = FieldNames
  /\ references \subseteq RefSpec
  /\ archive \in {"none", "partial", "whole"}
  /\ migrate \in {"flatten", "build", "rewrite", "ok", "failed"}

MigrateInit ==
  /\ \E T \in Exports : docs \in [T -> {Id(i) : i \in Ids} \cup {Other}]
  /\ refs \in RefLists
  /\ newID = <<>> /\ applied = 0 /\ records = <<>> /\ references = {}
  /\ archive = "none" /\ migrate = "flatten"

-----------------------------------------------------------------------------
\* Flattened, the documents of two subcollections with one name are in one
\* collection; the last one walked decides the UUID of their common id.
AssignIds ==
  /\ migrate = "flatten"
  /\ IF docs = <<>> THEN migrate' = "failed" /\ UNCHANGED newID
     ELSE /\ newID' \in [{Key(d) : d \in DOMAIN docs} -> DOMAIN docs]
          /\ \A k \in DOMAIN newID' : Key(newID'[k]) = k
          /\ migrate' = "build"
  /\ UNCHANGED <<docs, refs, applied, records, references, archive>>

\* A string is looked up among the ids of the target, and cleared when it is
\* not there; a UUID never is.
Looked(v, target) ==
  IF v.kind \notin {"id", "uuid"} THEN v
  ELSE IF v.kind = "id" /\ <<target, v.id>> \in DOMAIN newID
  THEN Uuid(newID[<<target, v.id>>]) ELSE Null

\* A bug: what cannot be resolved is left as it is.
ResolveOrLeave(fields, r) ==
  IF <<r.target, fields[r.field].id>> \in DOMAIN newID
  THEN [fields EXCEPT ![r.field] = Looked(@, r.target)] ELSE fields

Resolve(fields, r) == [fields EXCEPT ![r.field] = Looked(@, r.target)]

\* A record starts as the document with the field of its parent, which is
\* declared a reference.
RecordFields(d) ==
  [f \in FieldNames |-> CASE f = "field" -> docs[d]
                          [] f = d.parentCol -> Uuid(newID[ParentKey(d)])
                          [] OTHER -> Other]
BuildRecords ==
  /\ migrate = "build" /\ migrate' = "rewrite"
  /\ records' = [d \in DOMAIN docs |-> RecordFields(d)]
  /\ references' = {[col |-> d.col, field |-> d.parentCol, target |-> d.parentCol] :
                      d \in {e \in DOMAIN docs : IsSub(e)}}
  /\ UNCHANGED <<docs, refs, newID, applied, archive>>

\* addRef: the first to name a field of a collection declares it.
Declare(r) ==
  IF \E s \in references : s.col = r.col /\ s.field = r.field
  THEN references ELSE references \cup {r}

\* The next of --ref, in the documents of its collection.  They do not depend
\* on each other, so all are done in one step.
Rewrite ==
  /\ migrate = "rewrite" /\ applied < Len(refs)
  /\ applied' = applied + 1
  /\ LET r == refs[applied + 1] IN
     /\ records' = [d \in DOMAIN docs |->
                      IF d.col = r.col THEN Resolve(records[d], r) ELSE records[d]]
     /\ references' =
          IF \E d \in DOMAIN docs :
               d.col = r.col /\ records[d][r.field].kind \in {"id", "uuid"}
          THEN Declare(r) ELSE references
  /\ UNCHANGED <<docs, refs, newID, archive, migrate>>

\* The collections first, manifest.json last; an error leaves what there is.
WriteArchive ==
  /\ migrate = "rewrite" /\ applied = Len(refs)
  /\ \/ archive' = "whole" /\ migrate' = "ok"
     \/ archive' = "partial" /\ migrate' = "failed"
     \/ migrate' = "failed" /\ UNCHANGED archive
  /\ UNCHANGED <<docs, refs, newID, applied, records, references>>

MigrateNext == AssignIds \/ BuildRecords \/ Rewrite \/ WriteArchive
MigrateSpec == MigrateInit /\ [][MigrateNext]_migrateVars

-----------------------------------------------------------------------------
\* The id of the record a document became.
RecordID(d) == newID[Key(d)]

\* The archive can be imported and says what the export said: a declared
\* reference holds no old id and no id of a record that is not in its target
\* ("the import would refuse the whole archive", migrate.go:300); a reference
\* to a document of the export is a reference to its record, and so is the one
\* to the parent.  A field that --ref names twice, or that is already the
\* parent's, is excepted: the second lookup clears it.
ArchiveImports ==
  archive = "whole" =>
    /\ \A r \in references, d \in DOMAIN docs :
         d.col = r.col =>
           LET v == records[d][r.field] IN
           /\ v.kind # "id"
           /\ v.kind = "uuid" =>
                \E e \in DOMAIN docs : e.col = r.target /\ RecordID(e) = v.doc
    /\ \A d \in DOMAIN docs :
         LET Of(f) == {k \in DOMAIN refs : refs[k].col = d.col /\ refs[k].field = f} IN
         /\ IsSub(d) /\ Of(d.parentCol) = {} =>
              \E p \in DOMAIN docs : /\ Key(p) = ParentKey(d)
                                     /\ records[d][d.parentCol] = Uuid(RecordID(p))
         /\ \A k \in Of("field"), e \in DOMAIN docs :
              Of("field") = {k} /\ docs[d] = Id(e.id) /\ e.col = refs[k].target
              => records[d]["field"] = Uuid(RecordID(e))

\* Why: a key has the UUID of a document with that key; a field is what it was
\* built as until --ref names it, is then looked up, and never holds an
\* id or a UUID again once it is named twice; and what holds a UUID is declared.
Naming(d, f) == {k \in 1..applied : refs[k].col = d.col /\ refs[k].field = f}
Built == migrate = "rewrite" \/ archive = "whole"

ExportInv ==
  /\ \A d \in DOMAIN docs : IsSub(d) => \E p \in DOMAIN docs : Key(p) = ParentKey(d)
  /\ \A d \in DOMAIN docs : docs[d] \in {Id(i) : i \in Ids} \cup {Other}
  /\ Built \/ migrate = "build" =>
       /\ DOMAIN newID = {Key(d) : d \in DOMAIN docs}
       /\ \A k \in DOMAIN newID : Key(newID[k]) = k
RecordsInv ==
  Built =>
    /\ DOMAIN records = DOMAIN docs
    /\ \A d \in DOMAIN docs, f \in FieldNames :
         /\ Naming(d, f) = {} => records[d][f] = RecordFields(d)[f]
         /\ \A k \in Naming(d, f) :
              /\ Naming(d, f) = {k} => records[d][f] = Looked(RecordFields(d)[f], refs[k].target)
              /\ Naming(d, f) # {k} => records[d][f].kind \notin {"id", "uuid"}
ReferencesInv ==
  Built =>
    /\ \A d \in DOMAIN docs, f \in FieldNames :
         records[d][f].kind = "uuid" => \E r \in references : r.col = d.col /\ r.field = f
    /\ \A r \in references :
         \/ /\ \E e \in DOMAIN docs : IsSub(e) /\ r.field = e.parentCol
            /\ r.target = r.field
         \/ /\ r.field = "field"
            /\ \E k \in 1..applied :
                 /\ r = refs[k]
                 /\ \A m \in 1..(k - 1) : refs[m].col # r.col \/ refs[m].field # r.field
MigrateInv ==
  /\ MigrateTypeOK /\ ExportInv /\ RecordsInv /\ ReferencesInv
  /\ archive = "whole" => applied = Len(refs) /\ migrate = "ok"
  /\ migrate \in {"flatten", "build"} => applied = 0

\* "Every document gets a UUID" (migrate.go:257) of its own.
EveryDocumentItsOwnId ==
  archive = "whole" =>
    \A d, e \in DOMAIN docs : RecordID(d) = RecordID(e) => d = e
=============================================================================
