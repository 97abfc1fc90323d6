---------------------------- MODULE MCProvision ----------------------------
(***************************************************************************)
(* A small instance of Provision: a chat and a forum template that both    *)
(* need a `messages` collection and bring a screen of the same name.       *)
(***************************************************************************)
EXTENDS Provision

CONSTANTS chat, forum, messages, uploads, screen, routes

NeedsOf == [t \in Templates |-> IF t = chat THEN {messages, uploads} ELSE {messages}]
BringsOf == [t \in Templates |-> IF t = chat THEN {screen, routes} ELSE {screen}]

\* The developer waits for a run to end before starting the next.
Waits == \A p, q \in Runs : pc[p] \in Running /\ pc[q] \in Running => p = q
OneAtATime == Init /\ [][Next /\ Waits']_vars
=============================================================================
