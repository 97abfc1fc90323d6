------------------------------ MODULE McpTools ------------------------------
(***************************************************************************)
(* The tools of the MCP server (src/internal/mcpserver): an agent may call *)
(* several at once, each is a few API calls, and the dashboard and other   *)
(* keys change the project in between.  set_flag and set_config list,      *)
(* merge and replace; publish_patch and recall_patch change a patch and    *)
(* read it again; describe_project and get_collection read the snapshot,   *)
(* then the unique constraints of one collection after the other;          *)
(* list_projects asks once who the key is.                                 *)
(*                                                                         *)
(* One flag or config, one patch.  The values of a field are 0, its        *)
(* default, and 1; Keep is a field the caller left out.                    *)
(***************************************************************************)
EXTENDS Naturals, Remote

CONSTANTS Calls,        \* tool calls in flight
          Fields,       \* of a flag, or of a config
          Collections,  \* of the project
          Unique,       \* unique constraints a collection may declare
          MaxTools,     \* bound on the calls made
          MaxDash       \* bound on the changes made elsewhere

ASSUME McpAssumption == MaxTools \in Nat /\ MaxDash \in Nat

VARIABLES setting,    \* server: the flag, 2 in every field when deleted
          patch,      \* server: the status of the patch
          rule,       \* server: the kind of each collection's access rule
          uniques,   \* server: the unique constraints of each collection
          org,        \* the organization the key acts in, once resolved
          call,       \* the call of each slot
          tools, dash \* how many calls and changes were made

mcpVars == <<setting, patch, rule, uniques, org, call, tools, dash>>

Keep == 2
Deleted == [f \in Fields |-> 2]
Statuses == {"draft", "published", "recalled"}
\* "shaped" is any kind the answer has a form for; "unbound" is a scoped rule
\* without its binding, "novel" a kind newer than this CLI.
Kinds == {"shaped", "unbound", "novel"}
Answered == {"none", "ok", "error"}
ToolSteps == {"list", "update", "mutate", "reread", "org", "projects",
              "snapshot", "constraints"}
\* given: the fields passed; cur: the flag listed; tries: of the re-read;
\* asked: the collections whose constraints are wanted; left, found: those
\* still to visit and what was found; rules: as in the snapshot.  fresh: nobody
\* changed the flag since it was listed; done: the patch was changed; stable:
\* the constraints that were declared all the time since the call started.
NoCall == [pc |-> "none", tool |-> "list_projects", given |-> Deleted,
           cur |-> Deleted, fresh |-> FALSE, done |-> FALSE, tries |-> 0,
           asked |-> {}, left |-> {}, rules |-> [c \in Collections |-> "shaped"],
           found |-> [c \in Collections |-> {}],
           stable |-> [c \in Collections |-> {}]]

ToolCalls ==
  [pc: Answered \cup ToolSteps,
   tool: {"set", "publish", "recall", "describe", "list_projects"},
   given: [Fields -> 0..2], cur: [Fields -> 0..2],
   fresh: BOOLEAN, done: BOOLEAN, tries: 0..2,
   asked: SUBSET Collections, left: SUBSET Collections,
   rules: [Collections -> Kinds],
   found: [Collections -> SUBSET Unique],
   stable: [Collections -> SUBSET Unique]]

McpTypeOK ==
  /\ setting \in [Fields -> 0..2] /\ patch \in Statuses
  /\ rule \in [Collections -> Kinds]
  /\ uniques \in [Collections -> SUBSET Unique]
  /\ org \in {"unset", "known", "failed"}
  /\ call \in [Calls -> ToolCalls]
  /\ tools \in 0..MaxTools /\ dash \in 0..MaxDash

McpInit ==
  /\ setting = [f \in Fields |-> 1] /\ patch = "draft"
  /\ rule = [c \in Collections |-> "shaped"]
  /\ uniques = [c \in Collections |-> Unique]
  /\ org = "unset" /\ tools = 0 /\ dash = 0
  /\ call = [a \in Calls |-> NoCall]

-----------------------------------------------------------------------------
AtTool(a, pc) == call[a].pc = pc
\* Nothing is kept of a call that failed.
Answer(a, pc) ==
  call' = [call EXCEPT ![a] = IF pc = "error" THEN [NoCall EXCEPT !.pc = pc]
                              ELSE [@ EXCEPT !.pc = pc]]

StartTool(a, tool, given, asked) ==
  /\ call[a].pc \in Answered /\ tools < MaxTools
  /\ tools' = tools + 1
  /\ call' = [call EXCEPT ![a] = [NoCall EXCEPT
       !.tool = tool, !.given = given, !.asked = asked,
       !.stable = uniques,
       !.pc = CASE tool = "set" -> "list"
                [] tool \in {"publish", "recall"} -> "mutate"
                [] tool = "describe" -> "snapshot"
                [] tool = "list_projects" -> "org"]]
  /\ UNCHANGED <<setting, patch, rule, uniques, org, dash>>

-----------------------------------------------------------------------------
\* set_flag, set_config

\* The flag is listed; one that is not there is an error.
ListSettings(a, o) ==
  /\ AtTool(a, "list")
  /\ IF Reported(o) /\ setting # Deleted
     THEN call' = [call EXCEPT ![a].pc = "update", ![a].cur = setting,
                               ![a].fresh = TRUE]
     ELSE Answer(a, "error")
  /\ UNCHANGED <<setting, patch, rule, uniques, org, tools, dash>>

\* A bug: what the caller left out is sent with its default.
OnlyGiven(a) ==
  [f \in Fields |-> IF call[a].given[f] = Keep THEN 0 ELSE call[a].given[f]]
\* The listed flag with what the caller gave laid over it.
Merged(a) ==
  [f \in Fields |-> IF call[a].given[f] = Keep THEN call[a].cur[f]
                    ELSE call[a].given[f]]

\* PUT replaces all fields; what was deleted is not found.
PutSetting(o, values) ==
  /\ setting = Deleted => o = "refused"
  /\ setting' = IF CarriedOut(o) THEN values ELSE setting

UpdateSetting(a, o) ==
  /\ AtTool(a, "update")
  /\ PutSetting(o, Merged(a))
  /\ call' = [b \in Calls |->
       IF b = a THEN [NoCall EXCEPT !.pc = IF Reported(o) THEN "ok" ELSE "error",
                                    !.tool = "set"]
       ELSE [call[b] EXCEPT !.fresh = @ /\ setting' = setting]]
  /\ UNCHANGED <<patch, rule, uniques, org, tools, dash>>

\* set_config: a value that is no JSON is refused before the PUT.
RefuseValue(a) ==
  /\ AtTool(a, "update")
  /\ Answer(a, "error")
  /\ UNCHANGED <<setting, patch, rule, uniques, org, tools, dash>>

-----------------------------------------------------------------------------
\* publish_patch, recall_patch (with --enable-codepush-mutations)

MutatePatch(a, o) ==
  LET from == IF call[a].tool = "publish" THEN "draft" ELSE "published"
      to   == IF call[a].tool = "publish" THEN "published" ELSE "recalled" IN
  /\ AtTool(a, "mutate")
  /\ patch # from => o = "refused"
  /\ patch' = IF CarriedOut(o) THEN to ELSE patch
  /\ call' = [call EXCEPT ![a].done = CarriedOut(o),
       ![a].pc = IF Reported(o) THEN "reread" ELSE "error"]
  /\ UNCHANGED <<setting, rule, uniques, org, tools, dash>>

\* A bug: the readings are counted one too late.
RereadTooOften(a) ==
  /\ AtTool(a, "reread")
  /\ \/ Answer(a, "ok")
     \/ IF call[a].tries = 3 THEN Answer(a, "error")
        ELSE call' = [call EXCEPT ![a].tries = @ + 1]
  /\ UNCHANGED <<setting, patch, rule, uniques, org, tools, dash>>

\* Three readings at most; one that fails or does not list the patch is
\* repeated, and after the third the answer says the patch was changed but
\* not what its state is.
RereadPatch(a) ==
  /\ AtTool(a, "reread")
  /\ \/ Answer(a, "ok")
     \/ IF call[a].tries = 2 THEN Answer(a, "error")
        ELSE call' = [call EXCEPT ![a].tries = @ + 1]
  /\ UNCHANGED <<setting, patch, rule, uniques, org, tools, dash>>

-----------------------------------------------------------------------------
\* describe_project, and get_collection, which wants one collection's
\* constraints but checks the rules of all

Unmappable(kind) == kind \in {"unbound", "novel"}

PullSnapshot(a, o) ==
  /\ AtTool(a, "snapshot")
  /\ IF Reported(o)
     THEN call' = [call EXCEPT ![a].pc = "constraints", ![a].rules = rule,
                               ![a].left = Collections]
     ELSE Answer(a, "error")
  /\ UNCHANGED <<setting, patch, rule, uniques, org, tools, dash>>

\* A bug: constraints that cannot be fetched are left out.
DescribeAnyway(a, c, o) ==
  /\ AtTool(a, "constraints") /\ c \in call[a].left
  /\ call' = [call EXCEPT ![a].left = @ \ {c},
       ![a].found[c] = IF c \in call[a].asked /\ Reported(o) THEN uniques[c] ELSE {}]
  /\ UNCHANGED <<setting, patch, rule, uniques, org, tools, dash>>

\* A rule of a kind that has no shape, or constraints that cannot be had, are
\* an error of the whole answer.
DescribeCollection(a, c, o) ==
  /\ AtTool(a, "constraints") /\ c \in call[a].left
  /\ IF Unmappable(call[a].rules[c]) \/ (c \in call[a].asked /\ ~Reported(o))
     THEN Answer(a, "error")
     ELSE call' = [call EXCEPT ![a].left = @ \ {c},
            ![a].found[c] = IF c \in call[a].asked THEN uniques[c] ELSE {}]
  /\ UNCHANGED <<setting, patch, rule, uniques, org, tools, dash>>

\* get_collection may name one that is not in the snapshot: then nothing was
\* asked for, and the mapped answer is dropped for "collection not found".
Described(a) ==
  /\ AtTool(a, "constraints") /\ call[a].left = {}
  /\ Answer(a, IF call[a].asked = {} /\ Collections # {} THEN "error" ELSE "ok")
  /\ UNCHANGED <<setting, patch, rule, uniques, org, tools, dash>>

-----------------------------------------------------------------------------
\* list_projects: whoami is asked once, and an error of it is kept for good.
ResolveOrg(a) ==
  /\ AtTool(a, "org")
  /\ IF org = "unset" THEN org' \in {"known", "failed"} ELSE UNCHANGED org
  /\ Answer(a, IF org' = "known" THEN "projects" ELSE "error")
  /\ UNCHANGED <<setting, patch, rule, uniques, tools, dash>>

ListProjects(a, o) ==
  /\ AtTool(a, "projects")
  /\ Answer(a, IF Reported(o) THEN "ok" ELSE "error")
  /\ UNCHANGED <<setting, patch, rule, uniques, org, tools, dash>>

\* Somebody else, in the dashboard or with another key.
Elsewhere ==
  /\ dash < MaxDash /\ dash' = dash + 1
  /\ \/ /\ setting # Deleted
        /\ \E f \in Fields, v \in 0..1 :
             setting' \in {Deleted, [setting EXCEPT ![f] = v]}
        /\ call' = [b \in Calls |-> [call[b] EXCEPT !.fresh = @ /\ setting' = setting]]
        /\ UNCHANGED <<patch, rule, uniques>>
     \/ /\ \E c \in Collections, k \in Kinds : rule' = [rule EXCEPT ![c] = k]
        /\ UNCHANGED <<setting, patch, uniques, call>>
     \/ /\ \E c \in Collections, u \in SUBSET Unique :
             /\ uniques' = [uniques EXCEPT ![c] = u]
             /\ call' = [b \in Calls |-> [call[b] EXCEPT !.stable[c] = @ \cap u]]
        /\ UNCHANGED <<setting, patch, rule>>
  /\ UNCHANGED <<org, tools>>

ToolStep(a) ==
  \/ RefuseValue(a) \/ RereadPatch(a) \/ Described(a) \/ ResolveOrg(a)
  \/ \E o \in Outcomes :
       \/ ListSettings(a, o) \/ UpdateSetting(a, o) \/ MutatePatch(a, o)
       \/ PullSnapshot(a, o) \/ ListProjects(a, o)
       \/ \E c \in Collections : DescribeCollection(a, c, o)

McpNext ==
  \/ \E a \in Calls :
       \/ \E given \in [Fields -> 0..2] : StartTool(a, "set", given, {})
       \/ \E tool \in {"publish", "recall", "list_projects"} :
            StartTool(a, tool, Deleted, {})
       \/ \E asked \in {Collections, {}} \cup {{c} : c \in Collections} :
            StartTool(a, "describe", Deleted, asked)
       \/ ToolStep(a)
  \/ Elsewhere

McpFairness == \A a \in Calls : WF_mcpVars(ToolStep(a))
McpSpec == McpInit /\ [][McpNext]_mcpVars /\ McpFairness

-----------------------------------------------------------------------------
\* "Only the fields you provide are changed" (tools.go:236): the replacing PUT
\* of a set leaves every other field as it is on the server, provided that
\* nobody changed the flag since it was listed; the tool cannot see whether
\* somebody did.
OnlyGivenFieldsChange ==
  [][\A a \in Calls :
       AtTool(a, "update") /\ ~AtTool(a, "update")' /\ call[a].fresh =>
         \A f \in Fields : call[a].given[f] = Keep => setting'[f] = setting[f]
    ]_mcpVars

\* An answer without an error says what is so.  A patch reported published or
\* recalled was; a description maps every rule, and leaves out no constraint
\* that was declared while it was made ("absent-but-existing constraints would
\* have an agent generate duplicate writes", tools.go:806), although rules and
\* constraints are read at different moments and change in between.
AnswersAreTrue ==
  \A a \in Calls :
    AtTool(a, "ok") =>
      /\ call[a].tool \in {"publish", "recall"} => call[a].done
      /\ call[a].tool = "describe" =>
           /\ \A c \in Collections : ~Unmappable(call[a].rules[c])
           /\ \A c \in call[a].asked : call[a].stable[c] \subseteq call[a].found[c]

\* Why: each step belongs to a tool, a description has mapped the collections
\* it visited, what was listed is the flag for as long as nobody changed it,
\* and constraints that were never dropped are declared now.
ToolAt(s) ==
  /\ s.pc \in {"list", "update"} => s.tool = "set"
  /\ s.pc \in {"mutate", "reread"} => s.tool \in {"publish", "recall"}
  /\ s.pc \in {"snapshot", "constraints"} => s.tool = "describe"
  /\ s.pc \in {"org", "projects"} => s.tool = "list_projects"
  /\ s.pc = "reread" => s.done
  /\ s.pc = "constraints" =>
       \A c \in Collections \ s.left :
         /\ ~Unmappable(s.rules[c])
         /\ c \in s.asked => s.stable[c] \subseteq s.found[c]
  /\ s.pc = "ok" =>
       /\ s.tool \in {"publish", "recall"} => s.done
       /\ s.tool = "describe" =>
            /\ \A c \in Collections : ~Unmappable(s.rules[c])
            /\ \A c \in s.asked : s.stable[c] \subseteq s.found[c]
SeesServer(s) ==
  /\ s.fresh => s.cur = setting
  /\ \A c \in Collections : s.stable[c] \subseteq uniques[c]
McpInv ==
  McpTypeOK /\ \A a \in Calls : ToolAt(call[a]) /\ SeesServer(call[a])
=============================================================================
