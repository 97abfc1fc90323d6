---------------------------- MODULE AccountProofs ----------------------------
(***************************************************************************)
(* Proofs about the commands that act for an account: Login, for any       *)
(* number of shells, commands and requests; McpTools, the assistant that   *)
(* acts for the account signed in, for any number of calls and any         *)
(* collections, fields and flags; Backfill, for any number of records, any *)
(* page size and any writes; and Migrate, for any export and any --ref.    *)
(***************************************************************************)
EXTENDS Login, McpTools, Backfill, Migrate, FiniteSetTheorems, WellFoundedInduction,
        TLAPS

(* Signing in and out                                                        *)

LEMMA ConfigTypes ==
  /\ Absent \in Configs /\ TornConfig \in Configs
  /\ \A k \in Keys, s \in BOOLEAN : Config("whole", k, s) \in Configs
  /\ EnvKey \in Keys /\ Sessions \subseteq Keys /\ 0 \in Sessions
  BY DEF Absent, TornConfig, Config, Configs, Keys, Sessions, EnvKey

LEMMA NoShellTypes == NoShell \in ShellStates /\ NoCallback \in Callbacks
  <1>1. NoHandlers \in [Requests -> Nat]
    BY DEF NoHandlers
  <1>2. NoCallback \in Callbacks
    BY DEF NoCallback, Callbacks
  <1> QED BY <1>1, <1>2, ConfigTypes, LoginAssumption DEF NoShell, ShellStates, Over,
             CommandNames

(* A command that is over has forgotten what it read.                        *)
LEMMA OverListens ==
  ASSUME NEW pc \in Over
  PROVE  /\ [NoShell EXCEPT !.pc = pc] \in ShellStates
         /\ ListensFor([NoShell EXCEPT !.pc = pc])
         /\ [NoShell EXCEPT !.pc = pc].pc = pc
         /\ [NoShell EXCEPT !.pc = pc].cfg = Absent
  <1> DEFINE x == [NoShell EXCEPT !.pc = pc]
  <1>1. /\ NoShell.results = <<>> /\ NoShell.code = FALSE /\ NoShell.cmd = "logout"
        /\ NoShell.cfg = Absent /\ NoShell \in ShellStates
    BY NoShellTypes DEF NoShell
  <1> HIDE DEF NoShell
  <1>2. /\ x \in ShellStates /\ x.pc = pc /\ x.results = <<>> /\ x.code = FALSE
        /\ x.cmd = "logout" /\ x.cfg = Absent
    BY <1>1 DEF ShellStates
  <1>3. ListensFor(x)
    <2> HIDE DEF x
    <2> QED BY <1>2 DEF ListensFor, Over
  <1> QED BY <1>2, <1>3

LEMMA UnreadListens ==
  ASSUME NEW pc \in Over
  PROVE  /\ [NoShell EXCEPT !.pc = pc, !.unread = TRUE] \in ShellStates
         /\ ListensFor([NoShell EXCEPT !.pc = pc, !.unread = TRUE])
         /\ [NoShell EXCEPT !.pc = pc, !.unread = TRUE].pc = pc
         /\ [NoShell EXCEPT !.pc = pc, !.unread = TRUE].cfg = Absent
  <1> DEFINE x == [NoShell EXCEPT !.pc = pc, !.unread = TRUE]
  <1>1. /\ NoShell.results = <<>> /\ NoShell.code = FALSE /\ NoShell.cmd = "logout"
        /\ NoShell.cfg = Absent /\ NoShell \in ShellStates
    BY NoShellTypes DEF NoShell
  <1> HIDE DEF NoShell
  <1>2. /\ x \in ShellStates /\ x.pc = pc /\ x.results = <<>> /\ x.code = FALSE
        /\ x.cmd = "logout" /\ x.cfg = Absent
    BY <1>1 DEF ShellStates
  <1>3. ListensFor(x)
    <2> HIDE DEF x
    <2> QED BY <1>2 DEF ListensFor, Over
  <1> QED BY <1>2, <1>3

LEMMA LoginInitInv == LoginInit => LoginInv
  <1> SUFFICES ASSUME LoginInit PROVE LoginInv
    OBVIOUS
  <1>1. shell \in [Shells -> ShellStates]
    BY NoShellTypes DEF LoginInit
  <1>2. ListenInv
    BY DEF LoginInit, ListenInv, ListensFor, NoShell, Over
  <1>3. Config("whole", 1, FALSE) \in Configs
    BY ConfigTypes DEF Sessions
  <1>4. live \subseteq Keys /\ issued \in Sessions /\ commands \in 0..MaxCommands
    BY LoginAssumption DEF LoginInit, Keys, Sessions
  <1>5. LoginTypeOK
    BY <1>1, <1>3, <1>4, ConfigTypes DEF LoginInit, LoginTypeOK
  <1> QED BY <1>2, <1>5 DEF LoginInv

-----------------------------------------------------------------------------
(* A step that puts one shell in a good state.                               *)
LEMMA OneShell ==
  ASSUME LoginInv, NEW p \in Shells, NEW x \in ShellStates, ListensFor(x),
         shell' = [shell EXCEPT ![p] = x]
  PROVE  shell' \in [Shells -> ShellStates] /\ ListenInv'
  BY DEF LoginInv, LoginTypeOK, ListenInv

(* Going on to a step that asks for no more than is known.                   *)
LEMMA GoesKeeps ==
  ASSUME LoginInv, NEW p \in Shells, NEW pc \in Over \cup LoginSteps, Goes(p, pc),
         pc \notin Over => ListensFor([shell[p] EXCEPT !.pc = pc])
  PROVE  shell' \in [Shells -> ShellStates] /\ ListenInv'
  <1>1. CASE pc \in Over
    <2> DEFINE x == [NoShell EXCEPT !.pc = pc]
    <2>1. x \in ShellStates /\ ListensFor(x)
      <3> HIDE DEF NoShell
      <3> QED BY <1>1, OverListens
    <2>2. shell' = [shell EXCEPT ![p] = x]
      BY <1>1 DEF Goes
    <2> HIDE DEF x
    <2> QED BY <2>1, <2>2, OneShell
  <1>2. CASE pc \notin Over
    <2> DEFINE x == [shell[p] EXCEPT !.pc = pc]
    <2>1. x \in ShellStates /\ ListensFor(x)
      BY <1>2 DEF LoginInv, LoginTypeOK, ShellStates
    <2>2. shell' = [shell EXCEPT ![p] = x]
      BY <1>2 DEF Goes
    <2> HIDE DEF x
    <2> QED BY <2>1, <2>2, OneShell
  <1> QED BY <1>1, <1>2

(* The facts about one shell that the steps use.                             *)
LEMMA ShellFacts ==
  ASSUME LoginInv, NEW p \in Shells
  PROVE  shell[p] \in ShellStates /\ ListensFor(shell[p])
  BY DEF LoginInv, LoginTypeOK, ListenInv

-----------------------------------------------------------------------------
(* The shell of a command that starts.                                       *)
FreshShell(pc, cmd, env, file, alone) ==
  [NoShell EXCEPT !.cmd = cmd, !.env = env, !.before = file, !.alone = alone,
                  !.pc = pc]

LEMMA LoginStartKeeps ==
  ASSUME LoginInv, NEW p \in Shells, NEW cmd \in CommandNames, NEW env \in BOOLEAN,
         StartCommand(p, cmd, env)
  PROVE  LoginInv'
  <1> DEFINE pc0 == CASE cmd = "browser"  -> "listen"
                      [] cmd = "password" -> "signin"
                      [] OTHER            -> "load"
             a == Running = {}
             x == FreshShell(pc0, cmd, env, saved, a)
             y(q) == [shell[q] EXCEPT !.alone = @ /\ q \notin Running]
  <1>1. /\ pc0 \in LoginSteps
        /\ pc0 = "load" => cmd \in {"connect", "logout", "save"}
        /\ pc0 = "signin" => cmd = "password"
        /\ pc0 \in {"listen", "load", "signin"}
    BY DEF CommandNames, LoginSteps
  <1>2. saved \in Configs /\ a \in BOOLEAN
    BY DEF LoginInv, LoginTypeOK
  <1>3. shell' = [q \in Shells |-> IF q = p THEN x ELSE y(q)]
    BY Zenon DEF StartCommand, FreshShell
  <1> HIDE DEF pc0, a
  <1>4. /\ x \in ShellStates /\ x.pc = pc0 /\ x.cmd = cmd
        /\ x.results = <<>> /\ x.code = FALSE
    <2>1. NoShell \in ShellStates /\ NoShell.results = <<>> /\ NoShell.code = FALSE
      BY NoShellTypes DEF NoShell
    <2> QED BY <1>1, <1>2, <2>1 DEF ShellStates, FreshShell
  <1>5. ListensFor(x)
    <2> HIDE DEF x
    <2> QED BY <1>1, <1>4 DEF ListensFor, Over
  <1>6. ASSUME NEW q \in Shells PROVE y(q) \in ShellStates /\ ListensFor(y(q))
    BY <1>6, ShellFacts DEF ShellStates, ListensFor
  <1> HIDE DEF x, y
  <1>8. shell' \in [Shells -> ShellStates] /\ ListenInv'
    BY <1>3, <1>4, <1>5, <1>6 DEF ListenInv
  <1>9. commands' \in 0..MaxCommands
    <2>1. commands < MaxCommands /\ commands' = commands + 1
      BY Zenon DEF StartCommand
    <2>2. commands \in 0..MaxCommands
      BY DEF LoginInv, LoginTypeOK
    <2> QED BY <2>1, <2>2, LoginAssumption
  <1>10. UNCHANGED <<saved, live, issued>>
    BY Zenon DEF StartCommand
  <1> QED BY <1>8, <1>9, <1>10 DEF LoginInv, LoginTypeOK

(* A request comes and its handler runs, or a handler sends.                 *)
LEMMA CallbackKeeps ==
  ASSUME LoginInv, NEW p \in Shells, NEW q \in Requests, Callback(p, q)
  PROVE  LoginInv'
  <1> DEFINE s == shell[p]
             h == [s.handling EXCEPT ![q] = @ + 1]
             x == [s EXCEPT !.asked = @ + 1, !.handling = h]
  <1>1. s \in ShellStates /\ ListensFor(s)
    BY ShellFacts
  <1>2. s.asked + 1 \in 0..MaxCallbacks /\ h \in [Requests -> Nat]
    BY <1>1, LoginAssumption DEF Callback, ShellStates
  <1>4. shell' = [shell EXCEPT ![p] = x]
    BY DEF Callback
  <1> HIDE DEF h
  <1>3. /\ x.pc = s.pc /\ x.cmd = s.cmd /\ x.code = s.code
        /\ x.results = s.results /\ x.first = s.first /\ x \in ShellStates
    BY <1>1, <1>2 DEF ShellStates
  <1> HIDE DEF x, s
  <1>5. ListensFor(x)
    BY <1>1, <1>3 DEF ListensFor
  <1> QED BY <1>3, <1>4, <1>5, OneShell DEF Callback, LoginInv, LoginTypeOK

LEMMA SendKeeps ==
  ASSUME LoginInv, NEW p \in Shells, NEW q \in Requests, Send(p, q)
  PROVE  LoginInv'
  <1> DEFINE s == shell[p]
             f == IF In(p, "wait") /\ s.results = <<>> THEN q ELSE s.first
             h == [s.handling EXCEPT ![q] = @ - 1]
             x == [s EXCEPT !.handling = h, !.results = Append(@, q), !.first = f]
  <1>1. s \in ShellStates /\ ListensFor(s) /\ q \in Callbacks
    BY ShellFacts, LoginAssumption
  <1>2. /\ s.pc \in {"wait", "shutdown"} /\ s.handling[q] - 1 \in Nat
        /\ s.results \in Seq(Callbacks) /\ Append(s.results, q) \in Seq(Callbacks)
        /\ f \in Callbacks /\ h \in [Requests -> Nat]
        /\ In(p, "wait") <=> s.pc = "wait"
    BY <1>1 DEF Send, ShellStates, In
  <1>3. shell' = [shell EXCEPT ![p] = x]
    BY DEF Send
  <1> HIDE DEF f, h
  <1>4. /\ x.pc = s.pc /\ x.cmd = s.cmd /\ x.code = s.code
        /\ x.results = Append(s.results, q) /\ x.first = f /\ x \in ShellStates
    BY <1>1, <1>2 DEF ShellStates
  <1> HIDE DEF x
  <1>5. s.results # <<>> => Head(Append(s.results, q)) = Head(s.results)
    BY <1>1, <1>2
  <1>6. s.results = <<>> => Head(Append(s.results, q)) = q
    BY <1>1, <1>2
  <1>7. s.pc = "wait" => ~s.code /\ Head(Append(s.results, q)) = f
    BY <1>1, <1>2, <1>5, <1>6 DEF ListensFor, f
  <1>8. s.pc = "shutdown" => f = s.first
    BY <1>2 DEF f
  <1>9. ListensFor(x)
    BY <1>1, <1>2, <1>4, <1>7, <1>8 DEF ListensFor, Over
  <1> QED BY <1>3, <1>4, <1>9, OneShell DEF Send, LoginInv, LoginTypeOK

LEMMA WaitKeeps ==
  ASSUME LoginInv, NEW p \in Shells, Wait(p)
  PROVE  LoginInv'
  <1> DEFINE s == shell[p]
  <1>1. s \in ShellStates /\ ListensFor(s) /\ s.pc = "wait"
    BY ShellFacts DEF Wait, In
  <1>2. shell' \in [Shells -> ShellStates] /\ ListenInv'
    <2>1. CASE Goes(p, "shutdown")
      <3>1. ListensFor([s EXCEPT !.pc = "shutdown"])
        BY <1>1 DEF ListensFor, ShellStates, Over
      <3> QED BY <2>1, <3>1, GoesKeeps DEF Over, LoginSteps
    <2>2. CASE /\ s.results # <<>>
               /\ shell' = [shell EXCEPT ![p].pc = "shutdown",
                    ![p].code = Accepts(Head(s.results)), ![p].results = Tail(@)]
      <3> DEFINE c == Accepts(Head(s.results))
                 x == [s EXCEPT !.pc = "shutdown", !.code = c, !.results = Tail(@)]
      <3>1. Head(s.results) = s.first
        BY <1>1, <2>2 DEF ListensFor, ShellStates
      <3>2. c \in BOOLEAN /\ (c => Accepts(s.first))
        BY <3>1 DEF Accepts
      <3>3. Tail(s.results) \in Seq(Callbacks)
        BY <1>1, <2>2 DEF ShellStates
      <3>4. shell' = [shell EXCEPT ![p] = x]
        BY <2>2
      <3> HIDE DEF c
      <3>5. /\ x \in ShellStates /\ x.pc = "shutdown" /\ x.code = c
            /\ x.first = s.first /\ x.cmd = s.cmd
        BY <1>1, <3>2, <3>3 DEF ShellStates, LoginSteps
      <3> HIDE DEF x, s
      <3>6. ListensFor(x)
        BY <3>1, <3>2, <3>5 DEF ListensFor, Over
      <3> QED BY <3>4, <3>5, <3>6, OneShell
    <2> QED BY <2>1, <2>2 DEF Wait
  <1> QED BY <1>2 DEF Wait, LoginInv, LoginTypeOK

LEMMA ShutdownKeeps ==
  ASSUME LoginInv, NEW p \in Shells, Shutdown(p)
  PROVE  LoginInv'
  <1> DEFINE s == shell[p]
  <1>1. s \in ShellStates /\ ListensFor(s) /\ s.pc = "shutdown"
    BY ShellFacts DEF Shutdown, In
  <1>2. shell' \in [Shells -> ShellStates] /\ ListenInv'
    <2>1. CASE s.code
      <3> DEFINE h == NoHandlers
                 none == <<>>
                 x == [s EXCEPT !.pc = "exchange", !.results = none,
                                !.handling = h, !.asked = 0]
      <3>1. /\ none \in Seq(Callbacks) /\ h \in [Requests -> Nat]
            /\ 0 \in 0..MaxCallbacks /\ "exchange" \in Over \cup LoginSteps
        BY LoginAssumption DEF NoHandlers, LoginSteps
      <3>2. shell' = [shell EXCEPT ![p] = x]
        BY <2>1 DEF Shutdown
      <3> HIDE DEF h, none, s
      <3>3. /\ x \in ShellStates /\ x.pc = "exchange" /\ x.code = s.code
            /\ x.first = s.first /\ x.cmd = s.cmd
        BY <1>1, <3>1 DEF ShellStates
      <3> HIDE DEF x
      <3>4. ListensFor(x)
        BY <1>1, <2>1, <3>3 DEF ListensFor, Over
      <3> QED BY <3>2, <3>3, <3>4, OneShell
    <2>2. CASE ~s.code
      BY <2>2, GoesKeeps DEF Shutdown, Over
    <2> QED BY <2>1, <2>2
  <1> QED BY <1>2 DEF Shutdown, LoginInv, LoginTypeOK

(* The steps that only go on.                                                *)
LEMMA GoingKeeps ==
  ASSUME LoginInv, NEW p \in Shells,
         \/ Listen(p) \/ ExchangeCode(p) \/ KillShell(p)
         \/ \E o \in Outcomes : Attach(p, o)
  PROVE  LoginInv'
  <1> DEFINE s == shell[p]
  <1>1. s \in ShellStates /\ ListensFor(s)
    BY ShellFacts
  <1>2. PICK pc \in {"wait", "failed", "ok", "attach", "signin"} :
          /\ Goes(p, pc)
          /\ pc = "wait" => s.pc = "listen"
          /\ pc \in {"attach", "signin"} => s.pc = "exchange"
    BY DEF Listen, ExchangeCode, KillShell, Attach, In
  <1>3. pc \notin Over => ListensFor([s EXCEPT !.pc = pc])
    BY <1>1, <1>2 DEF ListensFor, ShellStates, Over
  <1>4. shell' \in [Shells -> ShellStates] /\ ListenInv'
    BY <1>2, <1>3, GoesKeeps DEF Over, LoginSteps
  <1>5. UNCHANGED <<saved, live, issued, commands>>
    BY DEF Listen, ExchangeCode, KillShell, Attach
  <1> QED BY <1>4, <1>5 DEF LoginInv, LoginTypeOK

LEMMA SignInKeeps ==
  ASSUME LoginInv, NEW p \in Shells, NEW o \in Outcomes, SignIn(p, o)
  PROVE  LoginInv'
  <1> DEFINE s == shell[p]
  <1>1. s \in ShellStates /\ ListensFor(s) /\ s.pc = "signin"
    BY ShellFacts DEF SignIn, In
  <1>2. issued' \in Sessions /\ live' \subseteq Keys
    BY DEF SignIn, LoginInv, LoginTypeOK, Keys, Sessions
  <1>3. shell' \in [Shells -> ShellStates] /\ ListenInv'
    <2>1. CASE Reported(o)
      <3> DEFINE c == Config("whole", issued', FALSE)
                 x == [s EXCEPT !.pc = "open", !.cfg = c]
      <3>1. c \in Configs
        BY <1>2, ConfigTypes
      <3>2. shell' = [shell EXCEPT ![p] = x]
        BY <2>1 DEF SignIn
      <3> HIDE DEF c
      <3>3. /\ x \in ShellStates /\ x.pc = "open" /\ x.code = s.code
            /\ x.first = s.first /\ x.cmd = s.cmd
        BY <1>1, <3>1 DEF ShellStates, LoginSteps
      <3> HIDE DEF x
      <3>4. ListensFor(x)
        BY <1>1, <3>3 DEF ListensFor, Over
      <3> QED BY <3>2, <3>3, <3>4, OneShell
    <2>2. CASE ~Reported(o)
      BY <2>2, GoesKeeps DEF SignIn, Over
    <2> QED BY <2>1, <2>2
  <1> QED BY <1>2, <1>3 DEF SignIn, LoginInv, LoginTypeOK

LEMMA LoadKeeps ==
  ASSUME LoginInv, NEW p \in Shells, Load(p)
  PROVE  LoginInv'
  <1> DEFINE s == shell[p]
  <1>1. s \in ShellStates /\ ListensFor(s) /\ s.pc = "load"
    BY ShellFacts DEF Load, In
  <1>2. Loaded(p) \in Configs /\ Loaded(p).key \in Keys
    BY ConfigTypes DEF Loaded, LoginInv, LoginTypeOK, Configs
  <1>3. shell' \in [Shells -> ShellStates] /\ ListenInv'
    <2>1. CASE Goes(p, NotLoaded(p))
      BY <2>1, GoesKeeps DEF NotLoaded, Over
    <2>3. CASE shell' = [shell EXCEPT
                 ![p] = [NoShell EXCEPT !.pc = NotLoaded(p), !.unread = TRUE]]
      <3> DEFINE x == [NoShell EXCEPT !.pc = NotLoaded(p), !.unread = TRUE]
      <3>1. x \in ShellStates /\ ListensFor(x)
        <4>1. NotLoaded(p) \in Over
          BY DEF NotLoaded, Over
        <4> HIDE DEF NoShell
        <4> QED BY <4>1, UnreadListens
      <3> HIDE DEF x
      <3> QED BY <2>3, <3>1, OneShell DEF x
    <2>2. CASE ~Goes(p, NotLoaded(p)) /\ ~(shell' = [shell EXCEPT
                 ![p] = [NoShell EXCEPT !.pc = NotLoaded(p), !.unread = TRUE]])
      <3> DEFINE pc1 == CASE s.cmd = "logout" -> "revoke"
                          [] s.cmd = "connect" -> "listen"
                          [] s.cmd = "save" -> "open"
                 c == IF s.cmd = "save" THEN Config("whole", Loaded(p).key, TRUE)
                      ELSE Loaded(p)
                 x == [s EXCEPT !.pc = pc1, !.cfg = c]
      <3>1. c \in Configs
        BY <1>2, ConfigTypes
      <3>2. /\ pc1 \in {"revoke", "listen", "open"}
            /\ pc1 = "open" => s.cmd = "save"
        BY <1>1 DEF ListensFor
      <3>3. shell' = [shell EXCEPT ![p] = x]
        BY <2>2 DEF Load
      <3> HIDE DEF c, pc1
      <3>4. /\ x \in ShellStates /\ x.pc = pc1 /\ x.code = s.code
            /\ x.first = s.first /\ x.cmd = s.cmd
            /\ x.results = s.results
        BY <1>1, <3>1, <3>2 DEF ShellStates, LoginSteps
      <3> HIDE DEF x
      <3>5. ListensFor(x)
        BY <1>1, <3>2, <3>4 DEF ListensFor, Over
      <3> QED BY <3>3, <3>4, <3>5, OneShell
    <2> QED BY <2>1, <2>2, <2>3
  <1> QED BY <1>3 DEF Load, LoginInv, LoginTypeOK

(* The steps on the file, and the end of a session.                          *)
LEMMA FileKeeps ==
  ASSUME LoginInv, NEW p \in Shells,
         \/ OpenConfig(p) \/ WriteConfig(p) \/ ClearConfig(p)
         \/ \E o \in Outcomes : Revoke(p, o)
  PROVE  LoginInv'
  <1> DEFINE s == shell[p]
  <1>1. s \in ShellStates /\ ListensFor(s)
    BY ShellFacts
  <1>2. PICK pc \in {"ok", "failed", "write", "clear"} :
          /\ Goes(p, pc)
          /\ pc = "write" => s.pc = "open"
    BY DEF OpenConfig, WriteConfig, ClearConfig, Revoke, SaveFails, In
  <1>3. pc \notin Over => ListensFor([s EXCEPT !.pc = pc])
    BY <1>1, <1>2 DEF ListensFor, ShellStates, Over
  <1>4. shell' \in [Shells -> ShellStates] /\ ListenInv'
    BY <1>2, <1>3, GoesKeeps DEF Over, LoginSteps
  <1>5. saved' \in Configs
    BY <1>1, ConfigTypes DEF OpenConfig, WriteConfig, ClearConfig, Revoke, ShellStates,
       LoginInv, LoginTypeOK
  <1>6. live' \subseteq Keys /\ UNCHANGED <<issued, commands>>
    BY DEF OpenConfig, WriteConfig, ClearConfig, Revoke, LoginInv, LoginTypeOK
  <1> QED BY <1>4, <1>5, <1>6 DEF LoginInv, LoginTypeOK

LEMMA LoginStepInv == LoginInv /\ [LoginNext]_loginVars => LoginInv'
  <1> SUFFICES ASSUME LoginInv, [LoginNext]_loginVars PROVE LoginInv'
    OBVIOUS
  <1>1. CASE UNCHANGED loginVars
    BY <1>1 DEF loginVars, LoginInv, LoginTypeOK, ListenInv
  <1>2. ASSUME NEW p \in Shells, NEW cmd \in CommandNames, NEW env \in BOOLEAN,
               StartCommand(p, cmd, env)
        PROVE  LoginInv'
    BY <1>2, LoginStartKeeps
  <1>3. ASSUME NEW p \in Shells, NEW q \in Requests, Callback(p, q) PROVE LoginInv'
    BY <1>3, CallbackKeeps
  <1>5. ASSUME NEW p \in Shells, NEW q \in Requests, Send(p, q) PROVE LoginInv'
    BY <1>5, SendKeeps
  <1>4. ASSUME NEW p \in Shells, ShellStep(p) \/ KillShell(p) PROVE LoginInv'
    BY <1>4, GoingKeeps, WaitKeeps, ShutdownKeeps, SignInKeeps, LoadKeeps, FileKeeps
       DEF ShellStep
  <1> QED BY <1>1, <1>2, <1>3, <1>4, <1>5 DEF LoginNext

(* The types, and what each listener has read so far.                        *)
THEOREM LoginInvariant == LoginSpec => []LoginInv
  BY LoginInitInv, LoginStepInv, PTL DEF LoginSpec

(* No command goes past the browser but with the code and the state of the   *)
(* request whose handler was the first to send, for any requests, handlers   *)
(* that overtake each other in any way, and any other commands               *)
(* (callback.go:114, pkce.go:40).                                            *)
THEOREM OnlyTheFirstResultCounts == LoginSpec => []FirstResultDecides
  <1>1. LoginInv => FirstResultDecides
    BY DEF LoginInv, ListenInv, ListensFor, FirstResultDecides, Accepts
  <1> QED BY <1>1, LoginInvariant, PTL

-----------------------------------------------------------------------------
(* A running command takes a step: a command that runs alone runs no other   *)
(* beside it, so that only its own knowledge of the file is to be looked at. *)
LEMMA RunnerStep ==
  ASSUME ConfigInv, LoginInv', NEW p \in Running, NEW x \in ShellStates,
         shell' = [shell EXCEPT ![p] = x],
         x.pc \notin Over => x.alone = shell[p].alone,
         FileFor(x)', saved'.state = "whole" => saved'.key # 0
  PROVE  ConfigInv'
  <1>1. /\ p \in Shells /\ shell'[p] = x
        /\ \A q \in Shells : q # p => shell'[q] = shell[q]
    BY DEF Running, ConfigInv, LoginInv, LoginTypeOK
  <1>2. Running' \subseteq Running /\ (x.pc \notin Over => Running' = Running)
    BY <1>1 DEF Running
  <1>3. ASSUME NEW q \in Running', shell'[q].alone PROVE Running' = {q}
    <2>1. CASE q = p
      <3>1. x.pc \notin Over /\ shell[p].alone
        BY <1>1, <1>3, <2>1 DEF Running
      <3> QED BY <1>2, <2>1, <3>1 DEF ConfigInv
    <2>2. CASE q # p
      <3>1. q \in Running /\ shell[q].alone
        BY <1>1, <1>2, <1>3, <2>2 DEF Running
      <3> QED BY <2>2, <3>1 DEF ConfigInv
    <2> QED BY <2>1, <2>2
  <1>4. ASSUME NEW q \in Shells PROVE FileFor(shell[q])'
    <2>1. CASE q = p
      BY <1>1, <2>1 DEF FileFor
    <2>2. CASE q # p
      <3>1. shell'[q] = shell[q] /\ FileFor(shell[q])
        BY <1>1, <2>2 DEF ConfigInv
      <3>2. ~(shell[q].alone /\ shell[q].pc \notin Over)
        BY <2>2 DEF Running, ConfigInv
      <3> QED BY <3>1, <3>2 DEF FileFor
    <2> QED BY <2>1, <2>2
  <1> QED BY <1>3, <1>4 DEF ConfigInv

LEMMA RunnerFacts ==
  ASSUME ConfigInv, NEW p \in Shells
  PROVE  /\ shell[p] \in ShellStates /\ ListensFor(shell[p]) /\ FileFor(shell[p])
         /\ saved \in Configs
         /\ saved.state = "whole" => saved.key # 0
         /\ LoginInv
  BY ShellFacts DEF ConfigInv, LoginInv, LoginTypeOK

(* Going on, or ending, with what is known of the file.                      *)
LEMMA GoesFile ==
  ASSUME ConfigInv, LoginInv', NEW p \in Running, NEW pc \in Over \cup LoginSteps,
         Goes(p, pc), NEW s \in ShellStates, s = shell[p],
         pc \notin Over => FileFor([s EXCEPT !.pc = pc])',
         saved'.state = "whole" => saved'.key # 0
  PROVE  ConfigInv'
  <1>1. CASE pc \in Over
    <2> DEFINE x == [NoShell EXCEPT !.pc = pc]
    <2>1. x \in ShellStates /\ x.pc = pc
      BY <1>1, OverListens, NoShellTypes DEF ShellStates
    <2>2. shell' = [shell EXCEPT ![p] = x]
      BY <1>1 DEF Goes
    <2> HIDE DEF x
    <2>3. FileFor(x)'
      BY <1>1, <2>1 DEF FileFor, Over
    <2> QED BY <1>1, <2>1, <2>2, <2>3, RunnerStep
  <1>2. CASE pc \notin Over
    <2> DEFINE x == [s EXCEPT !.pc = pc]
    <2>1. x \in ShellStates /\ x.alone = s.alone
      BY DEF ShellStates
    <2>2. shell' = [shell EXCEPT ![p] = x]
      BY <1>2 DEF Goes
    <2>3. FileFor(x)'
      BY <1>2
    <2> HIDE DEF x
    <2> QED BY <2>1, <2>2, <2>3, RunnerStep
  <1> QED BY <1>1, <1>2

(* The steps that leave the file alone and only go on.                       *)
LEMMA GoingFile ==
  ASSUME ConfigInv, LoginInv', NEW p \in Shells,
         \/ Listen(p) \/ ExchangeCode(p) \/ KillShell(p) \/ Wait(p) \/ Shutdown(p)
         \/ \E o \in Outcomes : Attach(p, o)
         \/ \E q \in Requests : Callback(p, q) \/ Send(p, q)
  PROVE  ConfigInv'
  <1>1. p \in Running /\ saved' = saved
    BY DEF Listen, ExchangeCode, KillShell, Wait, Shutdown, Attach, Callback, Send,
       In, Running, Over
  <1>2. PICK s \in ShellStates : s = shell[p] /\ FileFor(s)
    BY RunnerFacts
  <1>3. saved'.state = "whole" => saved'.key # 0
    BY <1>1, RunnerFacts
  <1>4. CASE \E pc \in {"wait", "shutdown", "failed", "ok", "exchange", "attach", "signin"} :
               /\ Goes(p, pc)
               /\ pc = "wait" => s.pc = "listen"
               /\ pc = "shutdown" => s.pc = "wait"
               /\ pc \in {"attach", "signin"} => s.pc = "exchange"
               /\ pc = "attach" => s.cmd = "connect"
               /\ pc = "signin" => s.cmd # "connect"
               /\ pc # "exchange"
    <2>1. PICK pc \in {"wait", "shutdown", "failed", "ok", "attach", "signin"} :
               /\ Goes(p, pc)
               /\ pc = "wait" => s.pc = "listen"
               /\ pc = "shutdown" => s.pc = "wait"
               /\ pc \in {"attach", "signin"} => s.pc = "exchange"
               /\ pc = "attach" => s.cmd = "connect"
               /\ pc = "signin" => s.cmd # "connect"
      BY <1>4
    <2>2. ASSUME pc \notin Over PROVE FileFor([s EXCEPT !.pc = pc])'
      <3>1. PICK x : x = [s EXCEPT !.pc = pc]
        OBVIOUS
      <3>2. /\ x.pc = pc /\ x.cmd = s.cmd /\ x.alone = s.alone /\ x.before = s.before
            /\ x.cfg = s.cfg /\ x.env = s.env
        BY <3>1 DEF ShellStates
      <3>3. FileFor(x)'
        BY <1>1, <1>2, <2>1, <2>2, <3>2 DEF FileFor, Over, SignsIn
      <3> QED BY <3>1, <3>3
    <2> QED BY <1>1, <1>2, <1>3, <2>1, <2>2, GoesFile DEF Over, LoginSteps
  <1>5. CASE \E x \in ShellStates :
               /\ shell' = [shell EXCEPT ![p] = x]
               /\ \/ x.pc = s.pc
                  \/ s.pc = "wait" /\ x.pc = "shutdown"
                  \/ s.pc = "shutdown" /\ x.pc = "exchange"
               /\ x.cmd = s.cmd /\ x.alone = s.alone /\ x.before = s.before
               /\ x.cfg = s.cfg /\ x.env = s.env
    <2>1. PICK x \in ShellStates :
               /\ shell' = [shell EXCEPT ![p] = x]
               /\ \/ x.pc = s.pc
                  \/ s.pc = "wait" /\ x.pc = "shutdown"
                  \/ s.pc = "shutdown" /\ x.pc = "exchange"
               /\ x.cmd = s.cmd /\ x.alone = s.alone /\ x.before = s.before
               /\ x.cfg = s.cfg /\ x.env = s.env
      BY <1>5
    <2>2. FileFor(x)'
      BY <1>1, <1>2, <2>1 DEF FileFor, Over
    <2> QED BY <1>1, <1>2, <1>3, <2>1, <2>2, RunnerStep
  <1>6. CASE Listen(p) \/ ExchangeCode(p) \/ KillShell(p) \/ \E o \in Outcomes : Attach(p, o)
    BY <1>2, <1>4, <1>6 DEF Listen, ExchangeCode, KillShell, Attach, In
  <1>7. CASE \/ Wait(p) \/ Shutdown(p)
             \/ \E q \in Requests : Callback(p, q) \/ Send(p, q)
    <2>1. shell'[p] \in ShellStates
      BY DEF LoginInv, LoginTypeOK
    <2>2. shell \in [Shells -> ShellStates] /\ shell[p] \in ShellStates
      BY RunnerFacts DEF LoginInv, LoginTypeOK
    <2>3. CASE Wait(p) /\ ~Goes(p, "shutdown")
      <3> DEFINE x == [shell[p] EXCEPT !.pc = "shutdown",
                         !.code = Accepts(Head(shell[p].results)), !.results = Tail(@)]
      <3>1. shell' = [shell EXCEPT ![p] = x] /\ s.pc = "wait"
        BY <1>2, <2>3 DEF Wait, In
      <3>2. x \in ShellStates
        BY <2>1, <2>2, <3>1
      <3>3. /\ x.pc = "shutdown" /\ x.cmd = s.cmd /\ x.alone = s.alone
            /\ x.before = s.before /\ x.cfg = s.cfg /\ x.env = s.env
        BY <1>2, <2>2 DEF ShellStates
      <3> HIDE DEF x
      <3> QED BY <1>5, <3>1, <3>2, <3>3
    <2>4. CASE Wait(p) /\ Goes(p, "shutdown")
      BY <1>2, <1>4, <2>4 DEF Wait, In
    <2>5. CASE Shutdown(p) /\ s.code
      <3> DEFINE h == NoHandlers
                 x == [shell[p] EXCEPT !.pc = "exchange", !.results = <<>>,
                                       !.handling = h, !.asked = 0]
      <3>1. shell' = [shell EXCEPT ![p] = x] /\ s.pc = "shutdown"
        BY <1>2, <2>5 DEF Shutdown, In
      <3>2. x \in ShellStates
        BY <2>1, <2>2, <3>1
      <3> HIDE DEF h
      <3>3. /\ x.pc = "exchange" /\ x.cmd = s.cmd /\ x.alone = s.alone
            /\ x.before = s.before /\ x.cfg = s.cfg /\ x.env = s.env
        BY <1>2, <2>2 DEF ShellStates
      <3> HIDE DEF x
      <3> QED BY <1>5, <3>1, <3>2, <3>3
    <2>6. CASE Shutdown(p) /\ ~s.code
      BY <1>2, <1>4, <2>6 DEF Shutdown
    <2>7. ASSUME NEW q \in Requests, Callback(p, q) PROVE ConfigInv'
      <3> DEFINE h == [shell[p].handling EXCEPT ![q] = @ + 1]
                 x == [shell[p] EXCEPT !.asked = @ + 1, !.handling = h]
      <3>1. shell' = [shell EXCEPT ![p] = x]
        BY <2>7 DEF Callback
      <3>2. x \in ShellStates
        BY <2>1, <2>2, <3>1
      <3> HIDE DEF h
      <3>3. /\ x.pc = s.pc /\ x.cmd = s.cmd /\ x.alone = s.alone
            /\ x.before = s.before /\ x.cfg = s.cfg /\ x.env = s.env
        BY <1>2, <2>2 DEF ShellStates
      <3> HIDE DEF x
      <3> QED BY <1>5, <3>1, <3>2, <3>3
    <2>8. ASSUME NEW q \in Requests, Send(p, q) PROVE ConfigInv'
      <3> DEFINE h == [shell[p].handling EXCEPT ![q] = @ - 1]
                 f == IF In(p, "wait") /\ shell[p].results = <<>> THEN q
                      ELSE shell[p].first
                 x == [shell[p] EXCEPT !.handling = h, !.results = Append(@, q),
                                       !.first = f]
      <3>1. shell' = [shell EXCEPT ![p] = x]
        BY <2>8 DEF Send
      <3>2. x \in ShellStates
        BY <2>1, <2>2, <3>1
      <3> HIDE DEF h, f
      <3>3. /\ x.pc = s.pc /\ x.cmd = s.cmd /\ x.alone = s.alone
            /\ x.before = s.before /\ x.cfg = s.cfg /\ x.env = s.env
        BY <1>2, <2>2 DEF ShellStates
      <3> HIDE DEF x
      <3> QED BY <1>5, <3>1, <3>2, <3>3
    <2> QED BY <1>7, <2>3, <2>4, <2>5, <2>6, <2>7, <2>8
  <1> QED BY <1>6, <1>7

(* A session is issued: the configuration to be saved holds it.              *)
LEMMA SignInFile ==
  ASSUME ConfigInv, LoginInv', NEW p \in Shells, NEW o \in Outcomes, SignIn(p, o)
  PROVE  ConfigInv'
  <1>1. p \in Running /\ saved' = saved
    BY DEF SignIn, In, Running, Over
  <1>2. PICK s \in ShellStates : s = shell[p] /\ FileFor(s) /\ s.pc = "signin"
    BY RunnerFacts DEF SignIn, In
  <1>3. saved'.state = "whole" => saved'.key # 0
    BY <1>1, RunnerFacts
  <1>4. CASE ~Reported(o)
    BY <1>1, <1>2, <1>3, <1>4, GoesFile DEF SignIn, Over
  <1>5. CASE Reported(o)
    <2>1. issued' = issued + 1 /\ issued \in Nat
      BY <1>5 DEF SignIn, Reported, CarriedOut, LoginInv, LoginTypeOK, Sessions, ConfigInv
    <2>2. PICK c : c = Config("whole", issued', FALSE)
      OBVIOUS
    <2>3. c \in Configs /\ c.state = "whole" /\ c.key # 0
      <3>1. issued' \in Keys /\ issued' # 0
        <4>1. issued' \in Nat /\ issued' # 0
          BY <2>1
        <4> QED BY <4>1 DEF Keys, Sessions
      <3>2. PICK k \in Keys : k = issued'
        BY <3>1
      <3>3. c = Config("whole", k, FALSE)
        BY <2>2, <3>2
      <3>4. c \in Configs /\ c.state = "whole" /\ c.key = k
        BY <3>3, ConfigTypes DEF Config
      <3> QED BY <2>1, <3>1, <3>2, <3>4
    <2> DEFINE x == [s EXCEPT !.pc = "open", !.cfg = c]
    <2>4. shell' = [shell EXCEPT ![p] = x]
      BY <1>2, <1>5, <2>2 DEF SignIn
    <2>5. /\ x \in ShellStates /\ x.pc = "open" /\ x.cfg = c /\ x.cmd = s.cmd
          /\ x.alone = s.alone /\ x.before = s.before /\ x.env = s.env
      BY <2>3 DEF ShellStates, LoginSteps
    <2> HIDE DEF x
    <2>6. FileFor(x)'
      BY <1>1, <1>2, <2>3, <2>5 DEF FileFor, Over, SignsIn
    <2> QED BY <1>1, <1>2, <1>3, <2>4, <2>5, <2>6, RunnerStep
  <1> QED BY <1>4, <1>5

(* What is loaded is the file, with the key of the environment on top.       *)
LEMMA LoadFile ==
  ASSUME ConfigInv, LoginInv', NEW p \in Shells, Load(p)
  PROVE  ConfigInv'
  <1>1. p \in Running /\ saved' = saved
    BY DEF Load, In, Running, Over
  <1>2. PICK s \in ShellStates :
          s = shell[p] /\ FileFor(s) /\ ListensFor(s) /\ s.pc = "load"
    BY RunnerFacts DEF Load, In
  <1>3. saved \in Configs /\ (saved'.state = "whole" => saved'.key # 0)
    BY <1>1, RunnerFacts
  <1>4. CASE Goes(p, NotLoaded(p))
    <2>1. NotLoaded(p) \in Over
      BY DEF NotLoaded, Over
    <2> QED BY <1>1, <1>2, <1>3, <1>4, <2>1, GoesFile
  <1> DEFINE u == [NoShell EXCEPT !.pc = NotLoaded(p), !.unread = TRUE]
  <1>6. CASE shell' = [shell EXCEPT ![p] = u]
    <2>1. PICK pc \in Over : pc = NotLoaded(p)
      BY DEF NotLoaded, Over
    <2> DEFINE x == [NoShell EXCEPT !.pc = pc, !.unread = TRUE]
    <2>2. x \in ShellStates /\ x.pc = pc
      <3> HIDE DEF NoShell
      <3> QED BY UnreadListens
    <2>3. shell' = [shell EXCEPT ![p] = x]
      BY <1>6, <2>1
    <2> HIDE DEF x
    <2>4. FileFor(x)'
      BY <2>1, <2>2 DEF FileFor, Over
    <2> QED BY <1>1, <1>3, <2>1, <2>2, <2>3, <2>4, RunnerStep
  <1>5. CASE Loads(p) /\ shell' # [shell EXCEPT ![p] = u] /\ ~Goes(p, NotLoaded(p))
    <2> HIDE DEF NoShell
    <2>1. Loaded(p) \in Configs /\ Loaded(p).key # 0 /\ Loaded(p).key \in Keys
      BY <1>3, <1>5, ConfigTypes DEF Loads, Loaded, Configs
    <2>2. ~s.env => Loaded(p).key = saved.key
      BY <1>2, <1>3 DEF Loaded, Configs
    <2>3. PICK pc \in {"revoke", "listen", "open"}, c \in Configs :
            /\ shell' = [shell EXCEPT ![p].pc = pc, ![p].cfg = c]
            /\ pc = "revoke" => s.cmd = "logout"
            /\ pc = "listen" => s.cmd = "connect"
            /\ pc = "open" => s.cmd = "save" /\ c = Config("whole", Loaded(p).key, TRUE)
      <3>1. CASE s.cmd = "logout"
        BY <1>2, <1>5, <2>1, <3>1 DEF Load
      <3>2. CASE s.cmd = "connect"
        BY <1>2, <1>5, <2>1, <3>2 DEF Load
      <3>3. CASE s.cmd = "save"
        BY <1>2, <1>5, <2>1, <3>3, ConfigTypes DEF Load
      <3> QED BY <1>2, <3>1, <3>2, <3>3 DEF ListensFor
    <2> DEFINE x == [s EXCEPT !.pc = pc, !.cfg = c]
    <2>4. shell' = [shell EXCEPT ![p] = x]
      BY <1>2, <2>3
    <2>5. /\ x \in ShellStates /\ x.pc = pc /\ x.cfg = c /\ x.cmd = s.cmd
          /\ x.alone = s.alone /\ x.before = s.before /\ x.env = s.env
      BY DEF ShellStates, LoginSteps
    <2> HIDE DEF x
    <2>6. pc = "open" => c.state = "whole" /\ c.key # 0 /\ c.key = Loaded(p).key
      BY <2>1, <2>3 DEF Config
    <2>7. FileFor(x)'
      BY <1>1, <1>2, <2>2, <2>3, <2>5, <2>6 DEF FileFor, Over
    <2> QED BY <1>1, <1>2, <1>3, <2>4, <2>5, <2>7, RunnerStep
  <1> QED BY <1>4, <1>5, <1>6 DEF Load

LEMMA RevokeFile ==
  ASSUME ConfigInv, LoginInv', NEW p \in Shells, NEW o \in Outcomes, Revoke(p, o)
  PROVE  ConfigInv'
  <1>1. p \in Running /\ saved' = saved /\ Goes(p, "clear")
    BY DEF Revoke, In, Running, Over
  <1>2. PICK s \in ShellStates : s = shell[p] /\ FileFor(s) /\ s.pc = "revoke"
    BY RunnerFacts DEF Revoke, In
  <1>3. saved'.state = "whole" => saved'.key # 0
    BY <1>1, RunnerFacts
  <1>4. PICK x : x = [s EXCEPT !.pc = "clear"]
    OBVIOUS
  <1>5. /\ x.pc = "clear" /\ x.cmd = s.cmd /\ x.alone = s.alone /\ x.before = s.before
    BY <1>4 DEF ShellStates
  <1>6. FileFor(x)'
    BY <1>1, <1>2, <1>5 DEF FileFor, Over
  <1> QED BY <1>1, <1>2, <1>3, <1>4, <1>6, GoesFile DEF LoginSteps

LEMMA OpenFile ==
  ASSUME ConfigInv, LoginInv', NEW p \in Shells, OpenConfig(p)
  PROVE  ConfigInv'
  <1>1. p \in Running /\ live' = live
    BY DEF OpenConfig, In, Running, Over
  <1>2. PICK s \in ShellStates : s = shell[p] /\ FileFor(s) /\ s.pc = "open"
    BY RunnerFacts DEF OpenConfig, In
  <1>3. CASE SaveFails(p) /\ saved' = saved
    <2>1. saved'.state = "whole" => saved'.key # 0
      BY <1>3, RunnerFacts
    <2> QED BY <1>1, <1>2, <1>3, <2>1, GoesFile DEF SaveFails, Over
  <1>4. CASE Goes(p, "write") /\ saved' = TornConfig
    <2>1. saved'.state # "whole"
      BY <1>4 DEF TornConfig, Config
    <2>2. PICK x : x = [s EXCEPT !.pc = "write"]
      OBVIOUS
    <2>3. /\ x.pc = "write" /\ x.cmd = s.cmd /\ x.alone = s.alone
          /\ x.before = s.before /\ x.cfg = s.cfg /\ x.env = s.env
      BY <2>2 DEF ShellStates
    <2>4. FileFor(x)'
      BY <1>1, <1>2, <1>4, <2>3 DEF FileFor, Over
    <2> QED BY <1>1, <1>2, <1>4, <2>1, <2>2, <2>4, GoesFile DEF LoginSteps
  <1> QED BY <1>3, <1>4 DEF OpenConfig

LEMMA EndFile ==
  ASSUME ConfigInv, LoginInv', NEW p \in Shells, WriteConfig(p) \/ ClearConfig(p)
  PROVE  ConfigInv'
  <1>1. p \in Running /\ live' = live
    BY DEF WriteConfig, ClearConfig, In, Running, Over
  <1>2. PICK s \in ShellStates : s = shell[p] /\ FileFor(s) /\ s.pc \in {"write", "clear"}
    BY RunnerFacts DEF WriteConfig, ClearConfig, In
  <1>3. PICK pc \in {"ok", "failed"} : Goes(p, pc)
    BY DEF WriteConfig, ClearConfig, SaveFails
  <1>4. saved'.state = "whole" => saved'.key # 0
    <2>1. CASE saved' = s.cfg /\ s.pc = "write"
      BY <1>2, <2>1 DEF FileFor
    <2>2. CASE saved' \in {saved, TornConfig, Absent}
      BY <2>2, RunnerFacts DEF TornConfig, Absent, Config
    <2> QED BY <1>2, <2>1, <2>2 DEF WriteConfig, ClearConfig, In
  <1> QED BY <1>1, <1>2, <1>3, <1>4, GoesFile DEF Over

(* A command starts: it runs alone when no other runs, and none that runs is *)
(* alone any more.                                                           *)
LEMMA StartFile ==
  ASSUME ConfigInv, LoginInv', NEW p \in Shells, NEW cmd \in CommandNames,
         NEW env \in BOOLEAN, StartCommand(p, cmd, env)
  PROVE  ConfigInv'
  <1>1. saved' = saved /\ shell[p].pc \in Over /\ p \notin Running
    BY Zenon DEF StartCommand, Running
  <1> DEFINE pc == CASE cmd = "browser"  -> "listen"
                     [] cmd = "password" -> "signin"
                     [] OTHER            -> "load"
             a == Running = {}
             x == FreshShell(pc, cmd, env, saved, a)
             y(q) == [shell[q] EXCEPT !.alone = @ /\ q \notin Running]
  <1>2. shell' = [q \in Shells |-> IF q = p THEN x ELSE y(q)]
    BY Zenon DEF StartCommand, FreshShell
  <1>10. /\ pc \in {"listen", "signin", "load"}
         /\ pc = "listen" => cmd = "browser"
         /\ pc = "signin" => cmd = "password"
    OBVIOUS
  <1>11. a => Running = {}
    OBVIOUS
  <1> HIDE DEF pc, a
  <1>12. x.pc = pc /\ x.cmd = cmd /\ x.before = saved /\ x.alone = a
    BY NoShellTypes DEF FreshShell, ShellStates
  <1> HIDE DEF x, y
  <1>3. /\ shell'[p].pc = pc /\ shell'[p].cmd = cmd /\ shell'[p].before = saved
        /\ shell'[p].alone => Running = {}
    BY <1>2, <1>11, <1>12
  <1>4. ASSUME NEW q \in Shells, q # p
        PROVE  /\ shell'[q].pc = shell[q].pc /\ shell'[q].cmd = shell[q].cmd
               /\ shell'[q].cfg = shell[q].cfg
               /\ shell'[q].alone => q \notin Running
    <2>1. shell[q] \in ShellStates
      BY RunnerFacts
    <2>2. shell'[q] = [shell[q] EXCEPT !.alone = @ /\ q \notin Running]
      BY <1>2, <1>4 DEF y
    <2> QED BY <2>1, <2>2 DEF ShellStates
  <1>5. Running' = Running \cup {p}
    BY <1>3, <1>4, <1>10 DEF Running, Over
  <1>6. ASSUME NEW q \in Running', shell'[q].alone PROVE Running' = {q}
    <2>1. q \in Shells
      BY <1>6 DEF Running
    <2>2. q = p
      BY <1>4, <1>5, <1>6, <2>1
    <2> QED BY <1>3, <1>5, <1>6, <2>2
  <1>7. FileFor(shell[p])'
    BY <1>1, <1>3, <1>10 DEF FileFor, Over, SignsIn
  <1>8. ASSUME NEW q \in Shells, q # p PROVE FileFor(shell[q])'
    <2>1. FileFor(shell[q])
      BY RunnerFacts
    <2>2. ~(shell'[q].alone /\ shell'[q].pc \notin Over)
      BY <1>4, <1>8 DEF Running
    <2> QED BY <1>4, <1>8, <2>1, <2>2 DEF FileFor
  <1>9. saved'.state = "whole" => saved'.key # 0
    BY <1>1, RunnerFacts
  <1> QED BY <1>6, <1>7, <1>8, <1>9 DEF ConfigInv

LEMMA ConfigInitInv == LoginInit => ConfigInv
  <1> SUFFICES ASSUME LoginInit PROVE ConfigInv
    OBVIOUS
  <1>1. \A p \in Shells : shell[p].pc = "idle"
    BY DEF LoginInit, NoShell
  <1>2. Running = {}
    BY <1>1 DEF Running, Over
  <1>3. \A p \in Shells : FileFor(shell[p])
    BY <1>1 DEF FileFor, Over
  <1>4. saved.state = "whole" => saved.key # 0
    BY DEF LoginInit, Absent, TornConfig, Config
  <1> QED BY <1>2, <1>3, <1>4, LoginInitInv DEF ConfigInv

LEMMA ConfigStepInv == ConfigInv /\ [LoginNext]_loginVars => ConfigInv'
  <1> SUFFICES ASSUME ConfigInv, [LoginNext]_loginVars PROVE ConfigInv'
    OBVIOUS
  <1>1. LoginInv'
    BY LoginStepInv DEF ConfigInv
  <1>2. CASE UNCHANGED loginVars
    <2>1. UNCHANGED <<saved, shell>>
      BY <1>2 DEF loginVars
    <2> QED BY <1>1, <2>1 DEF ConfigInv, FileFor, Running
  <1>3. ASSUME NEW p \in Shells, NEW cmd \in CommandNames, NEW env \in BOOLEAN,
               StartCommand(p, cmd, env)
        PROVE  ConfigInv'
    BY <1>1, <1>3, StartFile
  <1>4. ASSUME NEW p \in Shells, NEW q \in Requests, Callback(p, q) \/ Send(p, q)
        PROVE  ConfigInv'
    BY <1>1, <1>4, GoingFile
  <1>5. ASSUME NEW p \in Shells, ShellStep(p) \/ KillShell(p) PROVE ConfigInv'
    BY <1>1, <1>5, GoingFile, SignInFile, LoadFile, RevokeFile, OpenFile, EndFile
       DEF ShellStep
  <1> QED BY <1>2, <1>3, <1>4, <1>5 DEF LoginNext

(* A command that runs alone knows the file at each of its steps.            *)
THEOREM ConfigInvariant == LoginSpec => []ConfigInv
  BY ConfigInitInv, ConfigStepInv, PTL DEF LoginSpec

-----------------------------------------------------------------------------
(* A step of a command leaves the other shells as they are.                  *)
LEMMA OthersStay ==
  ASSUME LoginInv, NEW p \in Shells,
         \/ ShellStep(p) \/ KillShell(p)
         \/ \E q \in Requests : Callback(p, q) \/ Send(p, q)
  PROVE  \A q \in Shells \ {p} : shell'[q] = shell[q]
  <1> USE DEF LoginInv, LoginTypeOK
  <1> HIDE DEF NoShell, NoHandlers
  <1>1. ASSUME NEW pc, Goes(p, pc)
        PROVE  \A q \in Shells \ {p} : shell'[q] = shell[q]
    BY <1>1 DEF Goes
  <1>2. CASE Listen(p) \/ Shutdown(p) \/ ExchangeCode(p) \/ OpenConfig(p)
             \/ WriteConfig(p) \/ ClearConfig(p) \/ KillShell(p)
    BY <1>1, <1>2 DEF Listen, Shutdown, ExchangeCode, OpenConfig, WriteConfig,
       ClearConfig, KillShell, SaveFails
  <1>3. CASE Wait(p) \/ Load(p)
    BY <1>1, <1>3 DEF Wait, Load
  <1>4. ASSUME NEW o \in Outcomes, SignIn(p, o) \/ Attach(p, o) \/ Revoke(p, o)
        PROVE  \A q \in Shells \ {p} : shell'[q] = shell[q]
    BY <1>1, <1>4 DEF SignIn, Attach, Revoke
  <1>5. ASSUME NEW q \in Requests, Callback(p, q) \/ Send(p, q)
        PROVE  \A r \in Shells \ {p} : shell'[r] = shell[r]
    BY <1>5 DEF Callback, Send
  <1> QED BY <1>2, <1>3, <1>4, <1>5 DEF ShellStep

(* What going on or ending does to the shell itself.                         *)
LEMMA ShellGoesTo ==
  ASSUME LoginInv, NEW p \in Shells, NEW pc \in Over \cup LoginSteps, Goes(p, pc)
  PROVE  /\ shell'[p].pc = pc
         /\ pc \in Over => shell'[p].cfg = Absent /\ shell'[p].unread = FALSE
         /\ pc \notin Over => /\ shell'[p].cfg = shell[p].cfg
                              /\ shell'[p].cmd = shell[p].cmd
  <1>1. CASE pc \in Over
    <2>1. NoShell \in ShellStates /\ NoShell.cfg = Absent /\ NoShell.unread = FALSE
      BY NoShellTypes DEF NoShell
    <2> HIDE DEF NoShell
    <2>2. shell'[p] = [NoShell EXCEPT !.pc = pc]
      BY <1>1 DEF Goes, LoginInv, LoginTypeOK
    <2> QED BY <1>1, <2>1, <2>2 DEF ShellStates
  <1>2. CASE pc \notin Over
    <2>1. shell'[p] = [shell[p] EXCEPT !.pc = pc] /\ shell[p] \in ShellStates
      BY <1>2 DEF Goes, LoginInv, LoginTypeOK
    <2> QED BY <1>2, <2>1 DEF ShellStates
  <1> QED BY <1>1, <1>2

(* A step that issues nothing and gives nobody a session that was not his    *)
(* keeps the sessions apart.                                                 *)
LEMMA SessionKept ==
  ASSUME SessionsInv, LoginInv', NEW p \in Shells, issued' = issued,
         live \ {shell[p].cfg.key} \subseteq live',
         saved'.key \in {saved.key, 0, shell[p].cfg.key},
         \A q \in Shells \ {p} : /\ shell'[q].pc = shell[q].pc
                                 /\ shell'[q].cmd = shell[q].cmd
                                 /\ shell'[q].cfg = shell[q].cfg,
         shell'[p].cfg.key \in {shell[p].cfg.key, 0, saved.key, EnvKey},
         HasNew(p)' => /\ HasNew(p) /\ shell'[p].cfg = shell[p].cfg
                       /\ saved'.key \in {saved.key, 0} /\ live \subseteq live'
  PROVE  SessionInv'
  <1>1. issued \in Nat /\ saved.key \in Int /\ \A q \in Shells : shell[q].cfg.key \in Int
    BY DEF SessionsInv, ConfigInv, LoginInv, LoginTypeOK, ShellStates, Configs, Keys,
       Sessions, EnvKey
  <1>2. SessionInv
    BY DEF SessionsInv
  <1>3. saved'.key <= issued' /\ \A q \in Shells : shell'[q].cfg.key <= issued'
    BY <1>1, <1>2 DEF SessionInv, EnvKey
  <1>4. ASSUME NEW q \in Shells, HasNew(q)'
        PROVE  /\ shell'[q].cfg.key \in live' /\ shell'[q].cfg.key > 0
               /\ saved'.key # shell'[q].cfg.key
               /\ \A r \in Shells \ {q} : shell'[r].cfg.key # shell'[q].cfg.key
    <2>1. HasNew(q) /\ shell'[q].cfg = shell[q].cfg
      BY <1>4 DEF HasNew
    <2>2. /\ shell[q].cfg.key \in live /\ shell[q].cfg.key > 0
          /\ saved.key # shell[q].cfg.key
          /\ \A r \in Shells \ {q} : shell[r].cfg.key # shell[q].cfg.key
      BY <1>2, <2>1 DEF SessionInv
    <2>3. CASE q = p
      BY <1>1, <1>4, <2>1, <2>2, <2>3
    <2>4. CASE q # p
      <3>1. shell[p].cfg.key # shell[q].cfg.key
        BY <2>2, <2>4
      <3>2. shell'[p].cfg.key # shell'[q].cfg.key
        BY <1>1, <2>1, <2>2, <3>1 DEF EnvKey
      <3> QED BY <1>1, <2>1, <2>2, <2>4, <3>1, <3>2
    <2> QED BY <2>3, <2>4
  <1> QED BY <1>3, <1>4 DEF SessionInv

(* A step that only goes on.                                                 *)
LEMMA SessionGoes ==
  ASSUME SessionsInv, LoginInv', NEW p \in Shells, NEW pc \in Over \cup LoginSteps,
         Goes(p, pc), issued' = issued, live \ {shell[p].cfg.key} \subseteq live',
         \A q \in Shells \ {p} : shell'[q] = shell[q],
         pc \in {"open", "write"} => HasNew(p) \/ shell[p].cmd \notin SignsIn,
         \/ saved'.key \in {saved.key, 0} /\ live \subseteq live'
         \/ saved'.key \in {saved.key, 0, shell[p].cfg.key} /\ pc \notin {"open", "write"}
  PROVE  SessionInv'
  <1>1. LoginInv /\ Absent.key = 0
    BY DEF SessionsInv, ConfigInv, Absent, Config
  <1>2. /\ shell'[p].pc = pc
        /\ pc \in Over => shell'[p].cfg = Absent
        /\ pc \notin Over => shell'[p].cfg = shell[p].cfg /\ shell'[p].cmd = shell[p].cmd
    BY <1>1, ShellGoesTo
  <1>3. shell'[p].cfg.key \in {shell[p].cfg.key, 0}
    BY <1>1, <1>2
  <1>4. HasNew(p)' => /\ HasNew(p) /\ shell'[p].cfg = shell[p].cfg
                      /\ saved'.key \in {saved.key, 0} /\ live \subseteq live'
    BY <1>2 DEF HasNew, Over
  <1>5. saved'.key \in {saved.key, 0, shell[p].cfg.key}
    OBVIOUS
  <1> QED BY <1>3, <1>4, <1>5, SessionKept

(* A fresh session is nobody else's.                                         *)
LEMMA SessionIssued ==
  ASSUME SessionsInv, LoginInv', NEW p \in Shells, NEW o \in Outcomes, SignIn(p, o)
  PROVE  SessionInv'
  <1>1. /\ LoginInv /\ SessionInv /\ saved' = saved
        /\ issued \in Nat /\ saved.key \in Int
        /\ \A q \in Shells : shell[q].cfg.key \in Int
    BY DEF SignIn, SessionsInv, ConfigInv, LoginInv, LoginTypeOK, ShellStates, Configs,
       Keys, Sessions, EnvKey
  <1>2. \A q \in Shells \ {p} : shell'[q] = shell[q]
    BY <1>1, OthersStay DEF ShellStep
  <1>3. /\ issued' \in {issued, issued + 1} /\ live \subseteq live'
        /\ Reported(o) => issued' = issued + 1 /\ issued' \in live'
    BY DEF SignIn, Reported, CarriedOut
  <1>4. /\ shell'[p].cfg.key \in {0, issued'}
        /\ HasNew(p)' => Reported(o) /\ shell'[p].cfg.key = issued'
    <2>1. CASE Reported(o)
      <3> DEFINE c == Config("whole", issued', FALSE)
      <3>1. shell'[p] = [shell[p] EXCEPT !.pc = "open", !.cfg = c]
        BY <1>1, <2>1 DEF SignIn, LoginInv, LoginTypeOK
      <3>2. c.key = issued'
        BY DEF Config
      <3> HIDE DEF c
      <3>3. shell[p] \in ShellStates
        BY <1>1, ShellFacts
      <3>4. shell'[p].cfg = c
        BY <3>1, <3>3 DEF ShellStates
      <3> QED BY <2>1, <3>2, <3>4
    <2>2. CASE ~Reported(o)
      <3>1. Goes(p, "failed")
        BY <2>2 DEF SignIn
      <3>2. shell'[p].pc = "failed" /\ shell'[p].cfg = Absent
        BY <1>1, <3>1, ShellGoesTo DEF Over
      <3> QED BY <3>2 DEF HasNew, Absent, Config
    <2> QED BY <2>1, <2>2
  <1>5. saved'.key <= issued' /\ \A q \in Shells : shell'[q].cfg.key <= issued'
    BY <1>1, <1>2, <1>3, <1>4 DEF SessionInv
  <1>6. ASSUME NEW q \in Shells, HasNew(q)'
        PROVE  /\ shell'[q].cfg.key \in live' /\ shell'[q].cfg.key > 0
               /\ saved'.key # shell'[q].cfg.key
               /\ \A r \in Shells \ {q} : shell'[r].cfg.key # shell'[q].cfg.key
    <2>1. CASE q = p
      BY <1>1, <1>2, <1>3, <1>4, <1>6, <2>1 DEF SessionInv
    <2>2. CASE q # p
      <3>1. HasNew(q) /\ shell'[q].cfg = shell[q].cfg
        BY <1>2, <1>6, <2>2 DEF HasNew
      <3>2. /\ shell[q].cfg.key \in live /\ shell[q].cfg.key > 0
            /\ shell[q].cfg.key <= issued
            /\ saved.key # shell[q].cfg.key
            /\ \A r \in Shells \ {q} : shell[r].cfg.key # shell[q].cfg.key
        BY <1>1, <3>1 DEF SessionInv
      <3>3. shell'[p].cfg.key # shell[q].cfg.key
        <4>1. CASE shell'[p].cfg.key = 0
          BY <1>1, <3>2, <4>1
        <4>2. CASE shell'[p].cfg.key = issued' /\ issued' = issued + 1
          BY <1>1, <3>2, <4>2
        <4>3. CASE issued' = issued
          <5>1. ~Reported(o)
            BY <1>1, <1>3, <4>3
          <5>2. shell'[p].cfg = Absent
            BY <1>1, <5>1, ShellGoesTo DEF SignIn, Over
          <5> QED BY <3>2, <5>2 DEF Absent, Config
        <4> QED BY <1>3, <1>4, <4>1, <4>2, <4>3
      <3> QED BY <1>1, <1>2, <1>3, <2>2, <3>1, <3>2, <3>3
    <2> QED BY <2>1, <2>2
  <1> QED BY <1>5, <1>6 DEF SessionInv

(* What is loaded is in the file, or in the environment.                     *)
LEMMA SessionLoaded ==
  ASSUME SessionsInv, LoginInv', NEW p \in Shells, Load(p)
  PROVE  SessionInv'
  <1>1. /\ LoginInv /\ UNCHANGED <<saved, live, issued>> /\ saved \in Configs
        /\ shell \in [Shells -> ShellStates] /\ shell[p] \in ShellStates
        /\ ListensFor(shell[p]) /\ shell[p].pc = "load"
    BY ShellFacts DEF Load, In, SessionsInv, ConfigInv, LoginInv, LoginTypeOK
  <1>2. \A q \in Shells \ {p} : shell'[q] = shell[q]
    BY <1>1, OthersStay DEF ShellStep
  <1>3. /\ shell'[p].cfg.key \in {0, saved.key, EnvKey}
        /\ shell'[p].pc \in {"open", "write"} => shell'[p].cmd = "save"
    <2>1. NotLoaded(p) \in Over /\ NoShell \in ShellStates /\ NoShell.cfg = Absent
      BY NoShellTypes DEF NotLoaded, Over, NoShell
    <2>2. CASE Goes(p, NotLoaded(p))
      <3>1. shell'[p].pc = NotLoaded(p) /\ shell'[p].cfg = Absent
        BY <1>1, <2>1, <2>2, ShellGoesTo
      <3> QED BY <2>1, <3>1 DEF Absent, Config, Over
    <2>3. CASE shell' = [shell EXCEPT
                 ![p] = [NoShell EXCEPT !.pc = NotLoaded(p), !.unread = TRUE]]
      <3> HIDE DEF NoShell
      <3>1. shell'[p] = [NoShell EXCEPT !.pc = NotLoaded(p), !.unread = TRUE]
        BY <1>1, <2>3
      <3>2. shell'[p].pc = NotLoaded(p) /\ shell'[p].cfg = Absent
        BY <2>1, <3>1 DEF ShellStates
      <3> QED BY <2>1, <3>2 DEF Absent, Config, Over
    <2>4. ASSUME ~Goes(p, NotLoaded(p)),
                 shell' # [shell EXCEPT
                   ![p] = [NoShell EXCEPT !.pc = NotLoaded(p), !.unread = TRUE]]
          PROVE  /\ shell'[p].cfg.key \in {0, saved.key, EnvKey}
                 /\ shell'[p].pc \in {"open", "write"} => shell'[p].cmd = "save"
      <3> HIDE DEF NoShell
      <3> DEFINE s == shell[p]
                 pc == CASE s.cmd = "logout" -> "revoke"
                         [] s.cmd = "connect" -> "listen"
                         [] s.cmd = "save" -> "open"
                 c == IF s.cmd = "save" THEN Config("whole", Loaded(p).key, TRUE)
                      ELSE Loaded(p)
      <3>1. shell' = [shell EXCEPT ![p].pc = pc, ![p].cfg = c]
        BY <2>4 DEF Load
      <3>2. pc \in {"open", "write"} => s.cmd = "save"
        BY <1>1 DEF ListensFor
      <3>3. Loaded(p).key \in {saved.key, EnvKey}
        BY <1>1 DEF Loaded, Configs
      <3>4. c.key = Loaded(p).key
        BY DEF Config
      <3> HIDE DEF pc, c
      <3>5. shell'[p] = [s EXCEPT !.pc = pc, !.cfg = c]
        BY <1>1, <3>1
      <3>6. shell'[p].pc = pc /\ shell'[p].cfg = c /\ shell'[p].cmd = s.cmd
        BY <1>1, <3>5 DEF ShellStates
      <3> QED BY <3>2, <3>3, <3>4, <3>6
    <2> QED BY <2>2, <2>3, <2>4
  <1>4. ~HasNew(p)'
    BY <1>3 DEF HasNew, SignsIn
  <1> QED BY <1>1, <1>2, <1>3, <1>4, SessionKept

(* What reads or answers has no session to give.                             *)
LEMMA SessionHeard ==
  ASSUME SessionsInv, LoginInv', NEW p \in Shells,
         \/ Wait(p) \/ Shutdown(p)
         \/ \E q \in Requests : Callback(p, q) \/ Send(p, q)
  PROVE  SessionInv'
  <1>1. /\ LoginInv /\ UNCHANGED <<saved, live, issued>>
        /\ shell \in [Shells -> ShellStates] /\ shell[p] \in ShellStates
    BY DEF Wait, Shutdown, Callback, Send, SessionsInv, ConfigInv, LoginInv, LoginTypeOK
  <1>2. \A q \in Shells \ {p} : shell'[q] = shell[q]
    BY <1>1, OthersStay DEF ShellStep
  <1>3. CASE \E pc \in {"shutdown", "failed"} : Goes(p, pc)
    BY <1>1, <1>2, <1>3, SessionGoes DEF Over, LoginSteps
  <1>4. CASE ~\E pc \in {"shutdown", "failed"} : Goes(p, pc)
    <2>1. /\ shell'[p].cfg = shell[p].cfg
          /\ shell'[p].pc \notin {"open", "write"}
      <3> DEFINE h == NoHandlers
      <3>1. CASE Wait(p)
        BY <1>1, <1>4, <3>1 DEF Wait, ShellStates
      <3>2. CASE Shutdown(p)
        <4>1. shell' = [shell EXCEPT ![p].pc = "exchange", ![p].results = <<>>,
                                     ![p].handling = h, ![p].asked = 0]
          BY <1>4, <3>2 DEF Shutdown
        <4> HIDE DEF h
        <4> QED BY <1>1, <4>1 DEF ShellStates
      <3>3. ASSUME NEW q \in Requests, Callback(p, q) \/ Send(p, q)
            PROVE  /\ shell'[p].cfg = shell[p].cfg
                   /\ shell'[p].pc \notin {"open", "write"}
        <4>1. shell[p].pc \in {"wait", "shutdown"}
          BY <3>3 DEF Callback, Send
        <4>2. CASE Callback(p, q)
          <5> DEFINE n == [shell[p].handling EXCEPT ![q] = @ + 1]
                     x == [shell[p] EXCEPT !.asked = @ + 1, !.handling = n]
          <5>1. shell'[p] = x
            BY <1>1, <4>2 DEF Callback
          <5> HIDE DEF n
          <5>2. x.cfg = shell[p].cfg /\ x.pc = shell[p].pc
            BY <1>1 DEF ShellStates
          <5> HIDE DEF x
          <5> QED BY <4>1, <5>1, <5>2
        <4>3. CASE Send(p, q)
          <5> DEFINE n == [shell[p].handling EXCEPT ![q] = @ - 1]
                     f == IF In(p, "wait") /\ shell[p].results = <<>> THEN q
                          ELSE shell[p].first
                     x == [shell[p] EXCEPT !.handling = n, !.results = Append(@, q),
                                           !.first = f]
          <5>1. shell'[p] = x
            BY <1>1, <4>3 DEF Send
          <5> HIDE DEF n, f
          <5>2. x.cfg = shell[p].cfg /\ x.pc = shell[p].pc
            BY <1>1 DEF ShellStates
          <5> HIDE DEF x
          <5> QED BY <4>1, <5>1, <5>2
        <4> QED BY <3>3, <4>2, <4>3
      <3> QED BY <3>1, <3>2, <3>3
    <2>2. ~HasNew(p)'
      BY <2>1 DEF HasNew
    <2> QED BY <1>1, <1>2, <2>1, <2>2, SessionKept
  <1> QED BY <1>3, <1>4

(* The steps on the file: what is written is the session of who writes it.   *)
LEMMA SessionSaved ==
  ASSUME SessionsInv, LoginInv', NEW p \in Shells,
         OpenConfig(p) \/ WriteConfig(p) \/ ClearConfig(p)
  PROVE  SessionInv'
  <1>1. /\ LoginInv /\ UNCHANGED <<live, issued>>
        /\ TornConfig.key = 0 /\ Absent.key = 0
    BY DEF OpenConfig, WriteConfig, ClearConfig, SessionsInv, ConfigInv, Absent,
       TornConfig, Config
  <1>2. \A q \in Shells \ {p} : shell'[q] = shell[q]
    BY <1>1, OthersStay DEF ShellStep
  <1>3. CASE OpenConfig(p)
    <2>1. saved'.key \in {saved.key, 0} /\ shell[p].pc = "open"
      BY <1>1, <1>3 DEF OpenConfig, In
    <2>2. PICK pc \in {"ok", "failed", "write"} : Goes(p, pc)
      BY <1>3 DEF OpenConfig, SaveFails
    <2>3. HasNew(p) \/ shell[p].cmd \notin SignsIn
      BY <2>1 DEF HasNew
    <2> QED BY <1>1, <1>2, <2>1, <2>2, <2>3, SessionGoes DEF Over, LoginSteps
  <1>4. CASE WriteConfig(p) \/ ClearConfig(p)
    <2>1. saved'.key \in {saved.key, 0, shell[p].cfg.key}
      BY <1>1, <1>4 DEF WriteConfig, ClearConfig
    <2>2. PICK pc \in {"ok", "failed"} : Goes(p, pc)
      BY <1>4 DEF WriteConfig, ClearConfig, SaveFails
    <2> QED BY <1>1, <1>2, <2>1, <2>2, SessionGoes DEF Over
  <1> QED BY <1>3, <1>4

LEMMA SessionsInitInv == LoginInit => SessionsInv
  <1> SUFFICES ASSUME LoginInit PROVE SessionInv
    BY ConfigInitInv DEF SessionsInv
  <1>1. \A p \in Shells : shell[p].pc = "idle" /\ shell[p].cfg.key = 0
    BY DEF LoginInit, NoShell, Absent, Config
  <1>2. saved.key \in {0, 1} /\ issued = 1
    BY DEF LoginInit, Absent, TornConfig, Config
  <1> QED BY <1>1, <1>2 DEF SessionInv, HasNew

LEMMA SessionsStepInv == SessionsInv /\ [LoginNext]_loginVars => SessionsInv'
  <1> SUFFICES ASSUME SessionsInv, [LoginNext]_loginVars PROVE SessionInv'
    BY ConfigStepInv DEF SessionsInv
  <1>1. LoginInv /\ LoginInv'
    BY LoginStepInv DEF SessionsInv, ConfigInv
  <1>2. CASE UNCHANGED loginVars
    BY <1>2 DEF loginVars, SessionsInv, SessionInv, HasNew
  <1>3. ASSUME NEW p \in Shells, NEW cmd \in CommandNames, NEW env \in BOOLEAN,
               StartCommand(p, cmd, env)
        PROVE  SessionInv'
    <2> DEFINE pc == CASE cmd = "browser"  -> "listen"
                       [] cmd = "password" -> "signin"
                       [] OTHER            -> "load"
               a == Running = {}
               x == FreshShell(pc, cmd, env, saved, a)
               y(q) == [shell[q] EXCEPT !.alone = @ /\ q \notin Running]
    <2>1. shell' = [q \in Shells |-> IF q = p THEN x ELSE y(q)]
      BY <1>3, Zenon DEF StartCommand, FreshShell
    <2>2. UNCHANGED <<saved, live, issued>>
      BY <1>3, Zenon DEF StartCommand
    <2>3. pc \notin {"open", "write"}
      OBVIOUS
    <2> HIDE DEF pc, a
    <2>4. x.pc = pc /\ x.cfg.key = 0
      <3>1. NoShell.cfg.key = 0
        BY DEF NoShell, Absent, Config
      <3>2. x.pc = pc /\ x.cfg = NoShell.cfg
        BY NoShellTypes DEF FreshShell, ShellStates
      <3> QED BY <3>1, <3>2
    <2>5. ASSUME NEW q \in Shells
          PROVE  y(q).pc = shell[q].pc /\ y(q).cmd = shell[q].cmd /\ y(q).cfg = shell[q].cfg
      BY <1>1, ShellFacts DEF ShellStates
    <2> HIDE DEF x, y
    <2>6. ~HasNew(p)'
      BY <2>1, <2>3, <2>4 DEF HasNew
    <2> QED BY <1>1, <2>1, <2>2, <2>4, <2>5, <2>6, SessionKept
  <1>4. ASSUME NEW p \in Shells,
               \/ Listen(p) \/ ExchangeCode(p) \/ KillShell(p)
               \/ \E o \in Outcomes : Attach(p, o)
        PROVE  SessionInv'
    <2>1. UNCHANGED <<saved, live, issued>>
      BY <1>4 DEF Listen, ExchangeCode, KillShell, Attach
    <2>2. PICK pc \in {"wait", "failed", "attach", "signin", "ok"} : Goes(p, pc)
      BY <1>4 DEF Listen, ExchangeCode, KillShell, Attach
    <2>3. \A q \in Shells \ {p} : shell'[q] = shell[q]
      BY <1>1, <1>4, OthersStay DEF ShellStep
    <2> QED BY <1>1, <2>1, <2>2, <2>3, SessionGoes DEF Over, LoginSteps
  <1>5. ASSUME NEW p \in Shells, NEW o \in Outcomes, Revoke(p, o) PROVE SessionInv'
    <2>1. /\ UNCHANGED <<saved, issued>> /\ Goes(p, "clear")
          /\ live \ {shell[p].cfg.key} \subseteq live'
      BY <1>5 DEF Revoke
    <2>2. \A q \in Shells \ {p} : shell'[q] = shell[q]
      BY <1>1, <1>5, OthersStay DEF ShellStep
    <2> QED BY <1>1, <2>1, <2>2, SessionGoes DEF Over, LoginSteps
  <1>6. ASSUME NEW p \in Shells, NEW q \in Requests, Callback(p, q) \/ Send(p, q)
        PROVE  SessionInv'
    BY <1>1, <1>6, SessionHeard
  <1>7. ASSUME NEW p \in Shells, ShellStep(p) \/ KillShell(p) PROVE SessionInv'
    BY <1>1, <1>4, <1>5, <1>7, SessionHeard, SessionLoaded, SessionSaved, SessionIssued
       DEF ShellStep
  <1> QED BY <1>2, <1>3, <1>6, <1>7 DEF LoginNext

(* A session that is not yet saved is live and nobody else's, whatever the   *)
(* other commands do (auth.go:31, logout.go:24).                             *)
THEOREM SessionsInvariant == LoginSpec => []SessionsInv
  BY SessionsInitInv, SessionsStepInv, PTL DEF LoginSpec

(* For any number of shells and commands, killed anywhere and beside each    *)
(* other: a login that ends well has a live session, and saved it or, beside *)
(* others, left a torn file; a logout that ends well leaves none, or could   *)
(* not read the file; a build that ran alone leaves the session there was or *)
(* a torn file (config.go:36-92, logout.go:17-30).                           *)
THEOREM CommandsKeepConfig == LoginSpec => ConfigHolds
  <1> DEFINE Holds ==
        \A p \in Running :
          LET s == shell[p] IN
          shell'[p].pc = "ok" =>
            /\ s.cmd \in SignsIn =>
                 /\ s.cfg.key \in live'
                 /\ saved' = s.cfg \/ (~s.alone /\ saved' = TornConfig)
            /\ s.cmd = "logout" => shell'[p].unread \/ saved'.state # "whole"
            /\ s.cmd = "save" /\ s.alone /\ s.before.state = "whole" /\ ~s.env
               => saved'.state = "torn" \/ saved'.key = s.before.key
  <1>1. SessionsInv /\ [LoginNext]_loginVars => Holds
    <2> SUFFICES ASSUME SessionsInv, [LoginNext]_loginVars, NEW p \in Running,
                        NEW s, s = shell[p], shell'[p].pc = "ok"
                 PROVE  /\ s.cmd \in SignsIn =>
                             /\ s.cfg.key \in live'
                             /\ saved' = s.cfg \/ (~s.alone /\ saved' = TornConfig)
                        /\ s.cmd = "logout" => shell'[p].unread \/ saved'.state # "whole"
                        /\ /\ s.cmd = "save" /\ s.alone
                           /\ s.before.state = "whole" /\ ~s.env
                           => saved'.state = "torn" \/ saved'.key = s.before.key
      OBVIOUS
    <2>1. /\ p \in Shells /\ s \in ShellStates /\ FileFor(s)
          /\ ListensFor(s) /\ s.pc \notin Over
          /\ saved \in Configs /\ shell \in [Shells -> ShellStates]
          /\ ConfigInv /\ LoginInv /\ SessionInv
          /\ saved.state = "whole" => saved.key # 0
      BY RunnerFacts DEF Running, SessionsInv, ConfigInv, LoginInv, LoginTypeOK
    <2>9. ASSUME NEW pc \in Over \cup LoginSteps, Goes(p, pc) PROVE pc = "ok"
      BY <2>1, <2>9, ShellGoesTo
    <2>2. \/ Load(p) \/ OpenConfig(p) \/ WriteConfig(p) \/ ClearConfig(p)
          \/ \E o \in Outcomes : Attach(p, o)
      <3>1. shell'[p].pc # shell[p].pc
        BY <2>1 DEF Over
      <3>2. ASSUME NEW q \in Shells, NEW cmd \in CommandNames, NEW env \in BOOLEAN,
                   StartCommand(q, cmd, env)
            PROVE  FALSE
        <4>1. q # p
          BY <2>1, <3>2 DEF StartCommand
        <4>2. shell'[p] = [shell[p] EXCEPT !.alone = @ /\ p \notin Running]
          BY <2>1, <3>2, <4>1 DEF StartCommand
        <4> QED BY <2>1, <3>1, <4>2 DEF ShellStates
      <3>3. ASSUME NEW q \in Shells,
                   \/ ShellStep(q) \/ KillShell(q)
                   \/ \E r \in Requests : Callback(q, r) \/ Send(q, r)
            PROVE  q = p
        BY <2>1, <3>1, <3>3, OthersStay
      <3>4. ~UNCHANGED loginVars
        BY <3>1 DEF loginVars
      <3>5. ASSUME NEW r \in Requests, Callback(p, r) \/ Send(p, r) PROVE FALSE
        BY <2>1, <3>1, <3>5 DEF Callback, Send, ShellStates
      <3>6. ShellStep(p) \/ KillShell(p)
        BY <3>2, <3>3, <3>4, <3>5 DEF LoginNext
      <3>8. ~(Listen(p) \/ KillShell(p))
        BY <2>9 DEF Listen, KillShell, Over, LoginSteps
      <3>9. ~ExchangeCode(p)
        BY <2>9 DEF ExchangeCode, Over, LoginSteps
      <3>10. ASSUME Wait(p) \/ Shutdown(p) PROVE FALSE
        <4>1. ~Goes(p, "shutdown") /\ ~Goes(p, "failed")
          BY <2>9 DEF Over, LoginSteps
        <4> DEFINE h == NoHandlers
        <4>2. CASE Wait(p)
          <5>1. PICK c, r : shell' = [shell EXCEPT ![p].pc = "shutdown", ![p].code = c,
                                                   ![p].results = r]
            BY <4>1, <4>2 DEF Wait
          <5> QED BY <2>1, <5>1 DEF ShellStates
        <4>3. CASE Shutdown(p)
          <5>1. shell' = [shell EXCEPT ![p].pc = "exchange", ![p].results = <<>>,
                                       ![p].handling = h, ![p].asked = 0]
            BY <4>1, <4>3 DEF Shutdown
          <5> HIDE DEF h
          <5> QED BY <2>1, <5>1 DEF ShellStates
        <4> QED BY <3>10, <4>2, <4>3
      <3>11. ASSUME NEW o \in Outcomes PROVE ~(SignIn(p, o) \/ Revoke(p, o))
        <4>1. ~Goes(p, "clear") /\ ~Goes(p, "failed")
          BY <2>9 DEF Over, LoginSteps
        <4>2. ASSUME SignIn(p, o) PROVE FALSE
          <5>1. PICK c : shell' = [shell EXCEPT ![p].pc = "open", ![p].cfg = c]
            BY <4>1, <4>2 DEF SignIn
          <5> QED BY <2>1, <5>1 DEF ShellStates
        <4> QED BY <4>1, <4>2 DEF Revoke
      <3> QED BY <3>6, <3>8, <3>9, <3>10, <3>11 DEF ShellStep
    <2>3. s.pc \in {"load", "attach"} => s.cmd \notin SignsIn
      BY <2>1 DEF ListensFor, FileFor, SignsIn
    <2>4. CASE \E o \in Outcomes : Attach(p, o)
      <3>1. s.cmd = "connect"
        BY <2>1, <2>4 DEF Attach, In, FileFor
      <3> QED BY <3>1 DEF SignsIn
    <2>5. CASE Load(p)
      <3>1. saved' = saved /\ s.pc = "load" /\ (s.alone => saved = s.before)
        BY <2>1, <2>5 DEF Load, In, FileFor, Over
      <3>2. s.cmd = "logout" => shell'[p].unread \/ saved.state # "whole"
        <4>1. CASE ~Loads(p)
          <5>1. ASSUME saved.state = "whole" PROVE Loads(p)
            <6>1. CASE s.env
              <7>1. Loaded(p) = [saved EXCEPT !.key = EnvKey]
                BY <6>1 DEF Loaded
              <7>2. Loaded(p).key = EnvKey
                BY <2>1, <7>1 DEF Configs
              <7> QED BY <5>1, <7>2 DEF Loads, EnvKey
            <6>2. CASE ~s.env
              <7>1. Loaded(p) = [saved EXCEPT !.key = saved.key]
                BY <6>2 DEF Loaded
              <7>2. Loaded(p).key = saved.key
                BY <2>1, <7>1 DEF Configs
              <7> QED BY <2>1, <5>1, <7>2 DEF Loads
            <6> QED BY <6>1, <6>2
          <5> QED BY <4>1, <5>1
        <4>2. CASE shell' = [shell EXCEPT
                     ![p] = [NoShell EXCEPT !.pc = NotLoaded(p), !.unread = TRUE]]
          <5>1. NoShell \in ShellStates
            BY NoShellTypes
          <5> HIDE DEF NoShell
          <5>2. shell'[p] = [NoShell EXCEPT !.pc = NotLoaded(p), !.unread = TRUE]
            BY <2>1, <4>2
          <5>3. shell'[p].unread = TRUE
            BY <5>1, <5>2 DEF ShellStates
          <5> QED BY <5>3
        <4>3. ASSUME s.cmd = "logout", ~(~Loads(p)),
                     shell' # [shell EXCEPT
                       ![p] = [NoShell EXCEPT !.pc = NotLoaded(p), !.unread = TRUE]]
              PROVE  FALSE
          <5>1. PICK c : shell' = [shell EXCEPT ![p].pc = "revoke", ![p].cfg = c]
            BY <2>5, <4>3 DEF Load
          <5> QED BY <2>1, <5>1 DEF ShellStates
        <4> QED BY <4>1, <4>2, <4>3
      <3> QED BY <2>3, <3>1, <3>2
    <2>6. CASE OpenConfig(p)
      <3>1. /\ s.pc = "open" /\ (s.alone => saved = s.before)
            /\ s.cmd \in {"browser", "password", "save"}
        BY <2>1, <2>6 DEF OpenConfig, In, FileFor, Over
      <3>2. ~Goes(p, "write")
        BY <2>9 DEF LoginSteps
      <3>3. SaveFails(p) /\ saved' = saved
        BY <2>6, <3>2 DEF OpenConfig
      <3>4. s.cmd = "save"
        BY <2>9, <3>3 DEF SaveFails, Over
      <3> QED BY <3>1, <3>3, <3>4 DEF SignsIn
    <2>7. CASE WriteConfig(p)
      <3>1. /\ s.pc = "write" /\ live' = live /\ (s.alone => saved = TornConfig)
            /\ s.cmd \in {"browser", "password", "save"}
            /\ s.cmd \in SignsIn => s.cfg.key \in live'
        BY <2>1, <2>7 DEF WriteConfig, In, FileFor, Over, SessionInv, HasNew
      <3>2. saved.state = "whole" => ~s.alone
        BY <3>1 DEF TornConfig, Config
      <3>3. TornConfig.state = "torn"
        BY DEF TornConfig, Config
      <3>4. CASE saved' = s.cfg
        <4>1. /\ s.cmd = "save" /\ s.alone /\ s.before.state = "whole" /\ ~s.env
              => s.cfg.key = s.before.key
          BY <2>1, <3>1 DEF FileFor, Over
        <4> QED BY <3>1, <3>4, <4>1 DEF SignsIn
      <3>5. CASE saved.state = "whole" /\ saved' = TornConfig
        BY <3>1, <3>2, <3>3, <3>5 DEF SignsIn
      <3>6. CASE SaveFails(p) /\ saved' = TornConfig
        <4>1. s.cmd = "save"
          BY <2>9, <3>6 DEF SaveFails, Over
        <4> QED BY <3>3, <3>6, <4>1 DEF SignsIn
      <3> QED BY <2>7, <3>4, <3>5, <3>6 DEF WriteConfig
    <2>8. CASE ClearConfig(p)
      <3>1. s.cmd = "logout"
        BY <2>1, <2>8 DEF ClearConfig, In, FileFor
      <3>2. ~Goes(p, "failed")
        BY <2>9 DEF Over
      <3>3. saved' = Absent
        BY <2>8, <3>2 DEF ClearConfig
      <3> QED BY <3>1, <3>3 DEF Absent, Config, SignsIn
    <2> QED BY <2>2, <2>4, <2>5, <2>6, <2>7, <2>8
  <1>2. LoginSpec => [][Holds]_loginVars
    BY <1>1, SessionsInvariant, PTL DEF LoginSpec
  <1> QED BY <1>2 DEF ConfigHolds

-----------------------------------------------------------------------------
(* The tools of the MCP server                                               *)

LEMMA NoCallFacts ==
  /\ NoCall \in ToolCalls /\ ~NoCall.fresh /\ NoCall.pc = "none"
  /\ NoCall.tool = "list_projects" /\ NoCall.left = {}
  /\ \A c \in Collections : NoCall.stable[c] = {}
  BY DEF NoCall, ToolCalls, Deleted, Answered, Kinds

(* A call that failed has forgotten what it read.                            *)
LEMMA Answers ==
  ASSUME McpInv, NEW a \in Calls, NEW pc \in Answered \cup ToolSteps, Answer(a, pc),
         pc # "error" => ToolAt([call[a] EXCEPT !.pc = pc])
  PROVE  \E x \in ToolCalls :
           call' = [call EXCEPT ![a] = x] /\ ToolAt(x) /\ SeesServer(x)
  <1>1. call[a] \in ToolCalls /\ SeesServer(call[a])
    BY DEF McpInv, McpTypeOK
  <1>2. CASE pc = "error"
    <2> DEFINE x == [NoCall EXCEPT !.pc = "error"]
    <2>1. /\ x \in ToolCalls /\ x.pc = "error" /\ x.fresh = NoCall.fresh
          /\ x.stable = NoCall.stable
      BY NoCallFacts DEF ToolCalls, Answered
    <2>2. call' = [call EXCEPT ![a] = x]
      BY <1>2 DEF Answer
    <2> HIDE DEF x
    <2>3. ToolAt(x)
      BY <2>1 DEF ToolAt
    <2>4. SeesServer(x)
      BY <2>1, NoCallFacts DEF SeesServer
    <2> QED BY <2>1, <2>2, <2>3, <2>4
  <1>3. CASE pc # "error"
    <2> DEFINE x == [call[a] EXCEPT !.pc = pc]
    <2>1. /\ x \in ToolCalls /\ x.fresh = call[a].fresh /\ x.cur = call[a].cur
          /\ x.stable = call[a].stable
      BY <1>1 DEF ToolCalls
    <2>2. call' = [call EXCEPT ![a] = x] /\ ToolAt(x)
      BY <1>3 DEF Answer
    <2> HIDE DEF x
    <2>3. SeesServer(x)
      BY <1>1, <2>1 DEF SeesServer
    <2> QED BY <2>1, <2>2, <2>3
  <1> QED BY <1>2, <1>3

(* A step that puts one call in a good state and leaves what the others saw. *)
LEMMA OneCall ==
  ASSUME McpInv, NEW a \in Calls, NEW x \in ToolCalls, ToolAt(x), SeesServer(x),
         call' = [call EXCEPT ![a] = x], UNCHANGED <<setting, rule, uniques, dash>>,
         patch' \in Statuses, org' \in {"unset", "known", "failed"},
         tools' \in 0..MaxTools
  PROVE  McpInv'
  <1>1. /\ call' \in [Calls -> ToolCalls] /\ call'[a] = x
        /\ \A b \in Calls : b # a => call'[b] = call[b]
    BY DEF McpInv, McpTypeOK
  <1>2. McpTypeOK'
    BY <1>1 DEF McpInv, McpTypeOK
  <1>3. ASSUME NEW b \in Calls PROVE ToolAt(call'[b]) /\ SeesServer(call'[b])
    BY <1>1 DEF McpInv
  <1>4. ASSUME NEW b \in Calls PROVE SeesServer(call[b])'
    BY <1>3 DEF SeesServer
  <1>5. ASSUME NEW b \in Calls PROVE ToolAt(call[b])'
    BY <1>3 DEF ToolAt
  <1> QED BY <1>2, <1>4, <1>5 DEF McpInv

LEMMA CallFacts ==
  ASSUME McpInv, NEW a \in Calls
  PROVE  /\ call[a] \in ToolCalls /\ ToolAt(call[a]) /\ SeesServer(call[a])
         /\ patch \in Statuses /\ org \in {"unset", "known", "failed"}
         /\ tools \in 0..MaxTools /\ setting \in [Fields -> 0..2]
         /\ uniques \in [Collections -> SUBSET Unique]
         /\ rule \in [Collections -> Kinds]
  BY DEF McpInv, McpTypeOK

LEMMA ToolStarts ==
  ASSUME McpInv, NEW a \in Calls, NEW given \in [Fields -> 0..2],
         NEW tool \in {"set", "publish", "recall", "describe", "list_projects"},
         NEW asked \in SUBSET Collections, StartTool(a, tool, given, asked)
  PROVE  McpInv'
  <1>1. PICK pc \in {"list", "mutate", "snapshot", "org"} :
          /\ pc = "list" => tool = "set"
          /\ pc = "mutate" => tool \in {"publish", "recall"}
          /\ pc = "snapshot" => tool = "describe"
          /\ pc = "org" => tool = "list_projects"
          /\ call' = [call EXCEPT ![a] = [NoCall EXCEPT
                        !.tool = tool, !.given = given, !.asked = asked,
                        !.stable = uniques, !.pc = pc]]
    <2>1. CASE tool = "set"
      BY <2>1 DEF StartTool
    <2>2. CASE tool \in {"publish", "recall"}
      BY <2>2 DEF StartTool
    <2>3. CASE tool = "describe"
      BY <2>3 DEF StartTool
    <2>4. CASE tool = "list_projects"
      BY <2>4 DEF StartTool
    <2> QED BY <2>1, <2>2, <2>3, <2>4
  <1> DEFINE x == [NoCall EXCEPT !.tool = tool, !.given = given, !.asked = asked,
                                 !.stable = uniques, !.pc = pc]
  <1>2. NoCall \in ToolCalls /\ ~NoCall.fresh
    BY NoCallFacts
  <1>3. /\ x \in ToolCalls /\ x.pc = pc /\ x.tool = tool /\ x.stable = uniques
        /\ x.fresh = NoCall.fresh
    <2>1. uniques \in [Collections -> SUBSET Unique] /\ pc \in Answered \cup ToolSteps
      BY CallFacts DEF ToolSteps
    <2> HIDE DEF NoCall
    <2> QED BY <1>2, <2>1 DEF ToolCalls
  <1>4. call' = [call EXCEPT ![a] = x]
    BY <1>1
  <1> HIDE DEF x
  <1>5. ToolAt(x)
    BY <1>1, <1>3 DEF ToolAt
  <1>6. SeesServer(x)
    BY <1>2, <1>3 DEF SeesServer
  <1>7. /\ UNCHANGED <<setting, patch, rule, uniques, org, dash>>
        /\ tools' \in 0..MaxTools
    BY CallFacts, McpAssumption DEF StartTool
  <1> QED BY <1>3, <1>4, <1>5, <1>6, <1>7, CallFacts, OneCall

-----------------------------------------------------------------------------
LEMMA ListSettingsKeeps ==
  ASSUME McpInv, NEW a \in Calls, NEW o \in Outcomes, ListSettings(a, o)
  PROVE  McpInv'
  <1>1. /\ call[a].pc = "list"
        /\ UNCHANGED <<setting, patch, rule, uniques, org, tools, dash>>
    BY DEF ListSettings, AtTool
  <1>2. PICK x \in ToolCalls :
          call' = [call EXCEPT ![a] = x] /\ ToolAt(x) /\ SeesServer(x)
    <2>1. CASE Answer(a, "error")
      BY <2>1, Answers DEF Answered
    <2>2. CASE ~Answer(a, "error")
      <3> DEFINE x == [call[a] EXCEPT !.pc = "update", !.cur = setting, !.fresh = TRUE]
      <3>1. call' = [call EXCEPT ![a] = x]
        BY <2>2 DEF ListSettings
      <3>2. /\ x \in ToolCalls /\ x.pc = "update" /\ x.cur = setting
            /\ x.tool = call[a].tool /\ x.stable = call[a].stable
        BY CallFacts DEF ToolCalls, ToolSteps
      <3> HIDE DEF x
      <3>3. ToolAt(x)
        BY <1>1, <3>2, CallFacts DEF ToolAt
      <3>4. SeesServer(x)
        BY <3>2, CallFacts DEF SeesServer
      <3> QED BY <3>1, <3>2, <3>3, <3>4
    <2> QED BY <2>1, <2>2
  <1> QED BY <1>1, <1>2, CallFacts, OneCall

(* The steps that only answer, or go on.                                     *)
LEMMA AnswerKeeps ==
  ASSUME McpInv, NEW a \in Calls, NEW pc \in Answered \cup ToolSteps, Answer(a, pc),
         pc # "error" => ToolAt([call[a] EXCEPT !.pc = pc]),
         org' \in {"unset", "known", "failed"},
         UNCHANGED <<setting, patch, rule, uniques, tools, dash>>
  PROVE  McpInv'
  <1>1. PICK x \in ToolCalls :
          call' = [call EXCEPT ![a] = x] /\ ToolAt(x) /\ SeesServer(x)
    BY Answers
  <1> QED BY <1>1, CallFacts, OneCall

LEMMA RefuseKeeps ==
  ASSUME McpInv, NEW a \in Calls, RefuseValue(a)
  PROVE  McpInv'
  BY AnswerKeeps, CallFacts DEF RefuseValue, Answered

LEMMA ResolveOrgKeeps ==
  ASSUME McpInv, NEW a \in Calls, ResolveOrg(a)
  PROVE  McpInv'
  <1>1. call[a].pc = "org" /\ call[a] \in ToolCalls /\ ToolAt(call[a])
    BY CallFacts DEF ResolveOrg, AtTool
  <1>2. org' \in {"unset", "known", "failed"}
    BY CallFacts DEF ResolveOrg
  <1>3. ToolAt([call[a] EXCEPT !.pc = "projects"])
    BY <1>1 DEF ToolAt, ToolCalls
  <1>4. CASE Answer(a, "projects")
    BY <1>2, <1>3, <1>4, AnswerKeeps DEF ResolveOrg, ToolSteps
  <1>5. CASE Answer(a, "error")
    BY <1>2, <1>5, AnswerKeeps DEF ResolveOrg, Answered
  <1> QED BY <1>4, <1>5 DEF ResolveOrg

LEMMA ListProjectsKeeps ==
  ASSUME McpInv, NEW a \in Calls, NEW o \in Outcomes, ListProjects(a, o)
  PROVE  McpInv'
  <1>1. call[a].pc = "projects" /\ call[a] \in ToolCalls /\ ToolAt(call[a])
    BY CallFacts DEF ListProjects, AtTool
  <1>2. ToolAt([call[a] EXCEPT !.pc = "ok"])
    BY <1>1 DEF ToolAt, ToolCalls
  <1>3. CASE Answer(a, "ok")
    BY <1>2, <1>3, CallFacts, AnswerKeeps DEF ListProjects, Answered
  <1>4. CASE Answer(a, "error")
    BY <1>4, CallFacts, AnswerKeeps DEF ListProjects, Answered
  <1> QED BY <1>3, <1>4 DEF ListProjects

LEMMA MutateKeeps ==
  ASSUME McpInv, NEW a \in Calls, NEW o \in Outcomes, MutatePatch(a, o)
  PROVE  McpInv'
  <1>1. /\ call[a].pc = "mutate"
        /\ UNCHANGED <<setting, rule, uniques, org, tools, dash>>
    BY DEF MutatePatch, AtTool
  <1>2. patch' \in Statuses
    BY CallFacts DEF MutatePatch, Statuses
  <1>3. PICK done \in BOOLEAN, pc \in {"reread", "error"} :
          /\ pc = "reread" => done = TRUE
          /\ call' = [call EXCEPT ![a].done = done, ![a].pc = pc]
    BY DEF MutatePatch, CarriedOut, Reported
  <1> DEFINE x == [call[a] EXCEPT !.done = done, !.pc = pc]
  <1>4. call' = [call EXCEPT ![a] = x]
    BY <1>3
  <1>5. /\ x \in ToolCalls /\ x.pc = pc /\ x.done = done /\ x.tool = call[a].tool
        /\ x.fresh = call[a].fresh /\ x.cur = call[a].cur /\ x.stable = call[a].stable
    BY CallFacts DEF ToolCalls, ToolSteps, Answered
  <1> HIDE DEF x
  <1>6. ToolAt(x)
    BY <1>1, <1>3, <1>5, CallFacts DEF ToolAt
  <1>7. SeesServer(x)
    BY <1>5, CallFacts DEF SeesServer
  <1> QED BY <1>1, <1>2, <1>4, <1>5, <1>6, <1>7, CallFacts, OneCall

LEMMA RereadKeeps ==
  ASSUME McpInv, NEW a \in Calls, RereadPatch(a)
  PROVE  McpInv'
  <1>1. /\ call[a].pc = "reread" /\ call[a] \in ToolCalls /\ ToolAt(call[a])
        /\ SeesServer(call[a])
        /\ UNCHANGED <<setting, patch, rule, uniques, org, tools, dash>>
    BY CallFacts DEF RereadPatch, AtTool
  <1>2. CASE Answer(a, "ok")
    <2>1. ToolAt([call[a] EXCEPT !.pc = "ok"])
      BY <1>1 DEF ToolAt, ToolCalls
    <2> QED BY <1>1, <1>2, <2>1, CallFacts, AnswerKeeps DEF Answered
  <1>3. CASE Answer(a, "error")
    BY <1>1, <1>3, CallFacts, AnswerKeeps DEF Answered
  <1>4. CASE call[a].tries # 2 /\ call' = [call EXCEPT ![a].tries = @ + 1]
    <2> DEFINE x == [call[a] EXCEPT !.tries = @ + 1]
    <2>1. call' = [call EXCEPT ![a] = x]
      BY <1>4
    <2>2. call[a].tries + 1 \in 0..2
      BY <1>1, <1>4 DEF ToolCalls
    <2>3. /\ x \in ToolCalls /\ x.pc = "reread" /\ x.done = call[a].done
          /\ x.tool = call[a].tool
          /\ x.fresh = call[a].fresh /\ x.cur = call[a].cur /\ x.stable = call[a].stable
      BY <1>1, <2>2 DEF ToolCalls
    <2> HIDE DEF x
    <2>4. ToolAt(x)
      BY <1>1, <2>3 DEF ToolAt
    <2>5. SeesServer(x)
      BY <1>1, <2>3 DEF SeesServer
    <2> QED BY <1>1, <2>1, <2>3, <2>4, <2>5, CallFacts, OneCall
  <1> QED BY <1>2, <1>3, <1>4 DEF RereadPatch

LEMMA SnapshotKeeps ==
  ASSUME McpInv, NEW a \in Calls, NEW o \in Outcomes, PullSnapshot(a, o)
  PROVE  McpInv'
  <1>1. /\ call[a].pc = "snapshot" /\ call[a] \in ToolCalls /\ ToolAt(call[a])
        /\ SeesServer(call[a]) /\ rule \in [Collections -> Kinds]
        /\ UNCHANGED <<setting, patch, rule, uniques, org, tools, dash>>
    BY CallFacts DEF PullSnapshot, AtTool
  <1>2. CASE Answer(a, "error")
    BY <1>1, <1>2, CallFacts, AnswerKeeps DEF Answered
  <1>3. CASE ~Answer(a, "error")
    <2> DEFINE x == [call[a] EXCEPT !.pc = "constraints", !.rules = rule,
                                    !.left = Collections]
    <2>1. call' = [call EXCEPT ![a] = x]
      BY <1>3 DEF PullSnapshot
    <2>2. /\ x \in ToolCalls /\ x.pc = "constraints" /\ x.left = Collections
          /\ x.tool = call[a].tool
          /\ x.fresh = call[a].fresh /\ x.cur = call[a].cur /\ x.stable = call[a].stable
      BY <1>1 DEF ToolCalls, ToolSteps
    <2> HIDE DEF x
    <2>3. ToolAt(x)
      BY <1>1, <2>2 DEF ToolAt
    <2>4. SeesServer(x)
      BY <1>1, <2>2 DEF SeesServer
    <2> QED BY <1>1, <2>1, <2>2, <2>3, <2>4, CallFacts, OneCall
  <1> QED BY <1>2, <1>3

(* One more collection is mapped, with its constraints as they are now: what *)
(* was declared all the time is among them.                                  *)
LEMMA DescribeKeeps ==
  ASSUME McpInv, NEW a \in Calls, NEW c \in Collections, NEW o \in Outcomes,
         DescribeCollection(a, c, o)
  PROVE  McpInv'
  <1>1. /\ call[a].pc = "constraints" /\ call[a] \in ToolCalls /\ ToolAt(call[a])
        /\ SeesServer(call[a])
        /\ UNCHANGED <<setting, patch, rule, uniques, org, tools, dash>>
    BY CallFacts DEF DescribeCollection, AtTool
  <1>2. CASE Answer(a, "error")
    BY <1>1, <1>2, CallFacts, AnswerKeeps DEF Answered
  <1>3. CASE ~Answer(a, "error")
    <2>1. /\ ~Unmappable(call[a].rules[c])
          /\ call' = [call EXCEPT ![a].left = @ \ {c},
                ![a].found[c] = IF c \in call[a].asked THEN uniques[c] ELSE {}]
      BY <1>3 DEF DescribeCollection
    <2> DEFINE u == IF c \in call[a].asked THEN uniques[c] ELSE {}
               found == [call[a].found EXCEPT ![c] = u]
               x == [call[a] EXCEPT !.left = @ \ {c}, !.found = found]
    <2>2. call' = [call EXCEPT ![a] = x]
      BY <2>1
    <2>3. /\ found \in [Collections -> SUBSET Unique] /\ found[c] = u
          /\ \A d \in Collections : d # c => found[d] = call[a].found[d]
      BY <1>1, CallFacts DEF ToolCalls
    <2>4. c \in call[a].asked => call[a].stable[c] \subseteq found[c]
      BY <1>1, <2>3 DEF SeesServer
    <2> HIDE DEF u, found
    <2>5. /\ x \in ToolCalls /\ x.pc = "constraints" /\ x.left = call[a].left \ {c}
          /\ x.found = found /\ x.rules = call[a].rules /\ x.asked = call[a].asked
          /\ x.tool = call[a].tool
          /\ x.fresh = call[a].fresh /\ x.cur = call[a].cur /\ x.stable = call[a].stable
      BY <1>1, <2>3 DEF ToolCalls
    <2> HIDE DEF x
    <2>6. ToolAt(x)
      BY <1>1, <2>1, <2>3, <2>4, <2>5 DEF ToolAt
    <2>7. SeesServer(x)
      BY <1>1, <2>5 DEF SeesServer
    <2> QED BY <1>1, <2>2, <2>5, <2>6, <2>7, CallFacts, OneCall
  <1> QED BY <1>2, <1>3

LEMMA DescribedKeeps ==
  ASSUME McpInv, NEW a \in Calls, Described(a)
  PROVE  McpInv'
  <1>1. /\ call[a].pc = "constraints" /\ call[a].left = {} /\ call[a] \in ToolCalls
        /\ ToolAt(call[a])
        /\ UNCHANGED <<setting, patch, rule, uniques, org, tools, dash>>
    BY CallFacts DEF Described, AtTool
  <1>4. org' \in {"unset", "known", "failed"}
    BY <1>1, CallFacts
  <1>2. CASE Answer(a, "error")
    BY <1>1, <1>2, <1>4, AnswerKeeps DEF Answered
  <1>3. CASE Answer(a, "ok")
    <2> DEFINE x == [call[a] EXCEPT !.pc = "ok"]
    <2>1. /\ x.pc = "ok" /\ x.tool = call[a].tool /\ x.rules = call[a].rules
          /\ x.asked = call[a].asked /\ x.asked \subseteq Collections
          /\ x.stable = call[a].stable /\ x.found = call[a].found
      BY <1>1 DEF ToolCalls
    <2> HIDE DEF x
    <2>2. ToolAt(x)
      BY <1>1, <2>1 DEF ToolAt
    <2> QED BY <1>1, <1>3, <2>2, CallFacts, AnswerKeeps DEF x, Answered
  <1> QED BY <1>2, <1>3 DEF Described

-----------------------------------------------------------------------------
(* The flag changes: who has listed it is out of date.                       *)
LEMMA SettingChanges ==
  ASSUME McpInv, setting' \in [Fields -> 0..2], patch' = patch, rule' = rule,
         uniques' = uniques, org' = org, tools' = tools, dash' \in 0..MaxDash,
         call' \in [Calls -> ToolCalls],
         \A b \in Calls :
           /\ ToolAt(call'[b])
           /\ call'[b].fresh => setting' = setting /\ call[b].fresh
                                /\ call'[b].cur = call[b].cur
           /\ \A c \in Collections :
                call'[b].stable[c] \subseteq call[b].stable[c]
  PROVE  McpInv'
  <1>1. McpTypeOK'
    BY DEF McpInv, McpTypeOK
  <1>2. ASSUME NEW b \in Calls PROVE SeesServer(call[b])'
    BY CallFacts DEF SeesServer
  <1>3. ASSUME NEW b \in Calls PROVE ToolAt(call[b])'
    BY DEF ToolAt
  <1> QED BY <1>1, <1>2, <1>3 DEF McpInv

LEMMA MergedType ==
  ASSUME McpInv, NEW a \in Calls
  PROVE  Merged(a) \in [Fields -> 0..2]
  <1>1. call[a].given \in [Fields -> 0..2] /\ call[a].cur \in [Fields -> 0..2]
    BY CallFacts DEF ToolCalls
  <1> QED BY <1>1 DEF Merged

(* A call whose flag was listed is out of date, or as it was.                *)
LEMMA NoLongerFresh ==
  ASSUME NEW s \in ToolCalls, NEW b \in BOOLEAN
  PROVE  /\ [s EXCEPT !.fresh = @ /\ b] \in ToolCalls
         /\ [s EXCEPT !.fresh = @ /\ b].fresh => s.fresh /\ b
         /\ [s EXCEPT !.fresh = @ /\ b].cur = s.cur
         /\ [s EXCEPT !.fresh = @ /\ b].stable = s.stable
         /\ ToolAt(s) => ToolAt([s EXCEPT !.fresh = @ /\ b])
  <1> DEFINE x == [s EXCEPT !.fresh = @ /\ b]
  <1>1. /\ x \in ToolCalls /\ x.pc = s.pc /\ x.tool = s.tool /\ x.done = s.done
        /\ x.left = s.left /\ x.rules = s.rules /\ x.asked = s.asked
        /\ x.stable = s.stable /\ x.found = s.found /\ x.cur = s.cur
        /\ x.fresh => s.fresh /\ b
    BY DEF ToolCalls
  <1> HIDE DEF x
  <1>2. ToolAt(s) => ToolAt(x)
    BY <1>1 DEF ToolAt
  <1> QED BY <1>1, <1>2 DEF x

LEMMA OutOfDate ==
  ASSUME McpInv, NEW b \in Calls, NEW same \in BOOLEAN, same <=> setting' = setting,
         call'[b] = [call[b] EXCEPT !.fresh = @ /\ same]
  PROVE  /\ call'[b] \in ToolCalls /\ ToolAt(call'[b])
         /\ call'[b].fresh => setting' = setting /\ call[b].fresh
                              /\ call'[b].cur = call[b].cur
         /\ \A c \in Collections :
              call'[b].stable[c] \subseteq call[b].stable[c]
  <1>1. call[b] \in ToolCalls /\ ToolAt(call[b])
    BY CallFacts
  <1>2. /\ call'[b] \in ToolCalls
        /\ call'[b].fresh => call[b].fresh /\ same
        /\ call'[b].cur = call[b].cur
        /\ call'[b].stable = call[b].stable
    BY <1>1, NoLongerFresh
  <1>3. ToolAt(call'[b])
    BY <1>1, NoLongerFresh
  <1> QED BY <1>2, <1>3

LEMMA UpdateKeeps ==
  ASSUME McpInv, NEW a \in Calls, NEW o \in Outcomes, UpdateSetting(a, o)
  PROVE  McpInv'
  <1>1. /\ UNCHANGED <<patch, rule, uniques, org, tools, dash>>
        /\ setting' = IF CarriedOut(o) THEN Merged(a) ELSE setting
    BY DEF UpdateSetting, PutSetting
  <1>2. setting' \in [Fields -> 0..2]
    BY <1>1, MergedType, CallFacts
  <1>3. PICK pc \in {"ok", "error"} :
          call' = [b \in Calls |->
                     IF b = a THEN [NoCall EXCEPT !.pc = pc, !.tool = "set"]
                     ELSE [call[b] EXCEPT !.fresh = @ /\ setting' = setting]]
    BY DEF UpdateSetting
  <1> DEFINE x == [NoCall EXCEPT !.pc = pc, !.tool = "set"]
  <1>4. /\ x \in ToolCalls /\ ~x.fresh /\ ToolAt(x)
        /\ \A c \in Collections : x.stable[c] = {}
    <2>1. NoCall \in ToolCalls /\ ~NoCall.fresh
          /\ \A c \in Collections : NoCall.stable[c] = {}
      BY NoCallFacts
    <2> HIDE DEF NoCall
    <2>2. /\ x \in ToolCalls /\ x.pc = pc /\ x.tool = "set" /\ x.fresh = NoCall.fresh
          /\ x.stable = NoCall.stable
      BY <2>1 DEF ToolCalls, Answered
    <2> HIDE DEF x
    <2>3. ToolAt(x)
      BY <2>2 DEF ToolAt
    <2> QED BY <2>1, <2>2, <2>3
  <1> HIDE DEF x
  <1>5. PICK same \in BOOLEAN : same <=> setting' = setting
    OBVIOUS
  <1>6. \A b \in Calls : call'[b] = IF b = a THEN x
                                     ELSE [call[b] EXCEPT !.fresh = @ /\ same]
    BY <1>3, <1>5 DEF x
  <1>7. ASSUME NEW b \in Calls
        PROVE  /\ call'[b] \in ToolCalls /\ ToolAt(call'[b])
               /\ call'[b].fresh => setting' = setting /\ call[b].fresh
                                    /\ call'[b].cur = call[b].cur
               /\ \A c \in Collections :
                    call'[b].stable[c] \subseteq call[b].stable[c]
    <2>1. CASE b = a
      BY <1>4, <1>6, <2>1
    <2>2. CASE b # a
      <3>1. call'[b] = [call[b] EXCEPT !.fresh = @ /\ same]
        BY <1>6, <2>2
      <3> QED BY <1>5, <3>1, OutOfDate
    <2> QED BY <2>1, <2>2
  <1>8. call' \in [Calls -> ToolCalls]
    BY <1>3, <1>7
  <1>9. dash' \in 0..MaxDash
    BY <1>1 DEF McpInv, McpTypeOK
  <1> QED BY <1>1, <1>2, <1>7, <1>8, <1>9, SettingChanges

(* Somebody else changes the flag, a rule or the constraints: a constraint   *)
(* that stays declared stays among the ones declared all the time.           *)
LEMMA ElsewhereKeeps ==
  ASSUME McpInv, Elsewhere
  PROVE  McpInv'
  <1>1. dash' \in 0..MaxDash /\ UNCHANGED <<org, tools>>
    BY McpAssumption DEF Elsewhere, McpInv, McpTypeOK
  <1>2. CASE /\ \E f \in Fields, v \in 0..1 :
                  setting' \in {Deleted, [setting EXCEPT ![f] = v]}
             /\ call' = [b \in Calls |->
                           [call[b] EXCEPT !.fresh = @ /\ setting' = setting]]
             /\ UNCHANGED <<patch, rule, uniques>>
    <2>1. setting' \in [Fields -> 0..2]
      BY <1>2 DEF Deleted, McpInv, McpTypeOK
    <2>2. PICK same \in BOOLEAN : same <=> setting' = setting
      OBVIOUS
    <2>3. \A b \in Calls : call'[b] = [call[b] EXCEPT !.fresh = @ /\ same]
      BY <1>2, <2>2
    <2>4. ASSUME NEW b \in Calls
          PROVE  /\ call'[b] \in ToolCalls /\ ToolAt(call'[b])
                 /\ call'[b].fresh => setting' = setting /\ call[b].fresh
                                      /\ call'[b].cur = call[b].cur
                 /\ \A c \in Collections :
                      call'[b].stable[c] \subseteq call[b].stable[c]
      BY <2>2, <2>3, OutOfDate
    <2>5. call' \in [Calls -> ToolCalls]
      BY <1>2, <2>4
    <2> QED BY <1>1, <1>2, <2>1, <2>4, <2>5, SettingChanges
  <1>3. CASE /\ \E c \in Collections, k \in Kinds : rule' = [rule EXCEPT ![c] = k]
             /\ UNCHANGED <<setting, patch, uniques, call>>
    <2>1. McpTypeOK'
      BY <1>1, <1>3 DEF McpInv, McpTypeOK
    <2> QED BY <1>3, <2>1 DEF McpInv, ToolAt, SeesServer
  <1>4. CASE /\ \E c \in Collections, u \in SUBSET Unique :
                  /\ uniques' = [uniques EXCEPT ![c] = u]
                  /\ call' = [b \in Calls |-> [call[b] EXCEPT !.stable[c] = @ \cap u]]
             /\ UNCHANGED <<setting, patch, rule>>
    <2>1. PICK c \in Collections, u \in SUBSET Unique :
            /\ uniques' = [uniques EXCEPT ![c] = u]
            /\ call' = [b \in Calls |-> [call[b] EXCEPT !.stable[c] = @ \cap u]]
      BY <1>4
    <2>2. /\ uniques' \in [Collections -> SUBSET Unique] /\ uniques'[c] = u
          /\ \A d \in Collections : d # c => uniques'[d] = uniques[d]
      BY <2>1 DEF McpInv, McpTypeOK
    <2>3. ASSUME NEW b \in Calls
          PROVE  call'[b] \in ToolCalls /\ ToolAt(call'[b]) /\ SeesServer(call[b])'
      <3> DEFINE stable == [call[b].stable EXCEPT ![c] = @ \cap u]
                 x == [call[b] EXCEPT !.stable = stable]
      <3>1. call'[b] = x
        BY <2>1
      <3>2. call[b] \in ToolCalls /\ ToolAt(call[b]) /\ SeesServer(call[b])
        BY CallFacts
      <3>3. /\ stable \in [Collections -> SUBSET Unique]
            /\ stable[c] = call[b].stable[c] \cap u
            /\ \A d \in Collections : d # c => stable[d] = call[b].stable[d]
        BY <3>2 DEF ToolCalls
      <3> HIDE DEF stable
      <3>4. /\ x \in ToolCalls /\ x.pc = call[b].pc /\ x.tool = call[b].tool
            /\ x.done = call[b].done /\ x.left = call[b].left
            /\ x.rules = call[b].rules /\ x.asked = call[b].asked
            /\ x.stable = stable /\ x.found = call[b].found /\ x.cur = call[b].cur
            /\ x.fresh = call[b].fresh /\ x.asked \subseteq Collections
        BY <3>2, <3>3 DEF ToolCalls
      <3> HIDE DEF x
      <3>5. \A d \in Collections : stable[d] \subseteq call[b].stable[d]
        BY <3>3
      <3>6. ToolAt(x)
        BY <3>2, <3>4, <3>5 DEF ToolAt
      <3>7. SeesServer(call[b])'
        BY <1>4, <2>2, <3>1, <3>2, <3>3, <3>4 DEF SeesServer
      <3> QED BY <3>1, <3>4, <3>6, <3>7
    <2>4. call' \in [Calls -> ToolCalls]
      BY <2>1, <2>3
    <2>5. McpTypeOK'
      BY <1>1, <1>4, <2>2, <2>4 DEF McpInv, McpTypeOK
    <2>6. ASSUME NEW b \in Calls PROVE ToolAt(call[b])'
      BY <2>3 DEF ToolAt
    <2> QED BY <2>3, <2>5, <2>6 DEF McpInv
  <1> QED BY <1>2, <1>3, <1>4 DEF Elsewhere

LEMMA McpInitInv == McpInit => McpInv
  <1> SUFFICES ASSUME McpInit PROVE McpInv
    OBVIOUS
  <1>1. McpTypeOK
    BY McpAssumption, NoCallFacts DEF McpInit, McpTypeOK, Statuses, Kinds
  <1>2. ASSUME NEW a \in Calls PROVE ToolAt(call[a]) /\ SeesServer(call[a])
    <2>1. call[a] = NoCall
      BY DEF McpInit
    <2> HIDE DEF NoCall
    <2> QED BY <2>1, NoCallFacts DEF ToolAt, SeesServer
  <1> QED BY <1>1, <1>2 DEF McpInv

LEMMA McpStepInv == McpInv /\ [McpNext]_mcpVars => McpInv'
  <1> SUFFICES ASSUME McpInv, [McpNext]_mcpVars PROVE McpInv'
    OBVIOUS
  <1>1. CASE UNCHANGED mcpVars
    BY <1>1 DEF mcpVars, McpInv, McpTypeOK, ToolAt, SeesServer
  <1>2. ASSUME NEW a \in Calls, NEW given \in [Fields -> 0..2],
               StartTool(a, "set", given, {})
        PROVE  McpInv'
    BY <1>2, ToolStarts
  <1>3. ASSUME NEW a \in Calls, NEW tool \in {"publish", "recall", "list_projects"},
               StartTool(a, tool, Deleted, {})
        PROVE  McpInv'
    <2>1. Deleted \in [Fields -> 0..2]
      BY DEF Deleted
    <2> QED BY <1>3, <2>1, ToolStarts
  <1>4. ASSUME NEW a \in Calls, NEW asked \in {Collections, {}} \cup {{c} : c \in Collections},
               StartTool(a, "describe", Deleted, asked)
        PROVE  McpInv'
    <2>1. Deleted \in [Fields -> 0..2] /\ asked \in SUBSET Collections
      BY DEF Deleted
    <2> QED BY <1>4, <2>1, ToolStarts
  <1>5. ASSUME NEW a \in Calls, ToolStep(a) PROVE McpInv'
    BY <1>5, RefuseKeeps, RereadKeeps, DescribedKeeps, ResolveOrgKeeps,
       ListSettingsKeeps, UpdateKeeps, MutateKeeps, SnapshotKeeps, ListProjectsKeeps,
       DescribeKeeps DEF ToolStep
  <1>6. CASE Elsewhere
    BY <1>6, ElsewhereKeeps
  <1> QED BY <1>1, <1>2, <1>3, <1>4, <1>5, <1>6 DEF McpNext

(* Every tool call is at a step of its tool, with what it read of the server *)
(* still true as far as it is relied on, for any number of calls at once and *)
(* any changes elsewhere (tools.go).                                         *)
THEOREM McpInvariant == McpSpec => []McpInv
  BY McpInitInv, McpStepInv, PTL DEF McpSpec

(* An answer without an error is true: the patch was changed, every rule is  *)
(* mapped, and no constraint that was declared all the time is left out      *)
(* (tools.go:806).                                                           *)
THEOREM ToolAnswersAreTrue == McpSpec => []AnswersAreTrue
  <1>1. McpInv => AnswersAreTrue
    BY DEF McpInv, ToolAt, AnswersAreTrue, AtTool
  <1> QED BY <1>1, McpInvariant, PTL

(* A set changes no field that the caller left out, unless somebody changed  *)
(* the flag after it was listed (tools.go:236).                              *)
THEOREM SetsKeepOtherFields == McpSpec => OnlyGivenFieldsChange
  <1> DEFINE Kept == \A a \in Calls :
       AtTool(a, "update") /\ ~AtTool(a, "update")' /\ call[a].fresh =>
         \A f \in Fields : call[a].given[f] = Keep => setting'[f] = setting[f]
  <1>1. McpInv /\ [McpNext]_mcpVars => Kept
    <2> SUFFICES ASSUME McpInv, [McpNext]_mcpVars, NEW a \in Calls, NEW f \in Fields,
                        AtTool(a, "update"), ~AtTool(a, "update")', call[a].fresh,
                        call[a].given[f] = Keep
                 PROVE  setting'[f] = setting[f]
      OBVIOUS
    <2>1. CASE setting' = setting
      BY <2>1
    <2>2. ASSUME NEW b \in Calls, NEW o \in Outcomes, UpdateSetting(b, o)
          PROVE  setting'[f] = setting[f]
      <3>1. CASE b = a
        <4>1. call[a].cur = setting
          BY CallFacts DEF SeesServer
        <4> QED BY <2>2, <3>1, <4>1 DEF UpdateSetting, PutSetting, Merged
      <3>2. CASE b # a
        <4>1. call'[a] = [call[a] EXCEPT !.fresh = @ /\ setting' = setting]
          BY <2>2, <3>2 DEF UpdateSetting
        <4>2. call'[a].pc = call[a].pc
          BY <4>1, CallFacts DEF ToolCalls
        <4> QED BY <4>2 DEF AtTool
      <3> QED BY <3>1, <3>2
    <2>3. CASE Elsewhere
      <3>1. CASE setting' # setting
        <4>1. call'[a] = [call[a] EXCEPT !.fresh = @ /\ setting' = setting]
          BY <2>3, <3>1 DEF Elsewhere
        <4>2. call'[a].pc = call[a].pc
          BY <4>1, CallFacts DEF ToolCalls
        <4> QED BY <4>2 DEF AtTool
      <3> QED BY <3>1
    <2>4. \/ setting' = setting \/ Elsewhere
          \/ \E b \in Calls, o \in Outcomes : UpdateSetting(b, o)
      BY DEF McpNext, mcpVars, StartTool, ToolStep, RefuseValue, RereadPatch, Described,
         ResolveOrg, ListSettings, MutatePatch, PullSnapshot, ListProjects,
         DescribeCollection
    <2> QED BY <2>1, <2>2, <2>3, <2>4
  <1>2. McpSpec => [][Kept]_mcpVars
    BY <1>1, McpInvariant, PTL DEF McpSpec
  <1> QED BY <1>2 DEF OnlyGivenFieldsChange

-----------------------------------------------------------------------------
(* The vector field backfill                                                 *)

(* A set of naturals up to n has a least element and a greatest one.         *)
LEMMA LeastOf ==
  ASSUME NEW T \in SUBSET Nat, T # {}
  PROVE  \E r \in T : \A q \in T : r <= q
  <1> DEFINE R == {ss \in Nat \X Nat : ss[1] < ss[2]}
  <1>1. R = OpToRel(<, Nat)
    BY DEF OpToRel
  <1>2. IsWellFoundedOn(R, Nat)
    BY <1>1, NatLessThanWellFounded
  <1>3. PICK r \in T : \A q \in T : <<q, r>> \notin R
    <2> HIDE DEF R
    <2> QED BY <1>2, WFMin
  <1>4. \A q \in T : ~(q < r)
    BY <1>3
  <1> QED BY <1>4

LEMMA Extremes ==
  ASSUME NEW n \in Nat, NEW T \in SUBSET (1..n), T # {}
  PROVE  /\ \E r \in T : \A q \in T : r <= q
         /\ \E r \in T : \A q \in T : q <= r
  <1>1. \E r \in T : \A q \in T : r <= q
    <2>1. T \in SUBSET Nat
      OBVIOUS
    <2> QED BY <2>1, LeastOf
  <1> DEFINE U == {n - q : q \in T}
  <1>2. U \in SUBSET Nat /\ U # {}
    <2>1. \A q \in T : n - q \in Nat
      OBVIOUS
    <2>2. PICK q \in T : TRUE
      OBVIOUS
    <2>3. n - q \in U
      OBVIOUS
    <2> QED BY <2>1, <2>3
  <1>3. PICK u \in U : \A v \in U : u <= v
    <2> HIDE DEF U
    <2> QED BY <1>2, LeastOf
  <1>4. PICK r \in T : u = n - r
    OBVIOUS
  <1>5. \A q \in T : n - q \in U
    OBVIOUS
  <1>6. \A q \in T : q <= r
    BY <1>3, <1>4, <1>5
  <1> QED BY <1>1, <1>6

-----------------------------------------------------------------------------
(* Pages *)

(* A page is a part of what is left, without holes, and not empty as long as *)
(* something is left.                                                        *)
LEMMA PageFacts ==
  ASSUME BackfillTypeOK
  PROVE  /\ Page \subseteq Left /\ Left \subseteq 1..Records
         /\ \A r \in Page : \A q \in Left : q <= r => q \in Page
         /\ Left # {} => Page # {}
  <1>1. Page \subseteq Left /\ Left \subseteq 1..Records
    BY BackfillAssumption DEF Page, Left, BackfillTypeOK, Backfills
  <1> DEFINE Before(r) == {q \in Left : q < r}
  <1>2. \A r \in Left : IsFiniteSet(Before(r)) /\ Cardinality(Before(r)) \in Nat
    <2> TAKE r \in Left
    <2>1. IsFiniteSet(1..Records)
      BY BackfillAssumption, FS_Interval
    <2>2. Before(r) \in SUBSET (1..Records)
      BY <1>1
    <2> HIDE DEF Before
    <2> QED BY <2>1, <2>2, FS_Subset, FS_CardinalityType
  <1>3. ASSUME NEW r \in Page, NEW q \in Left, q <= r PROVE q \in Page
    <2>1. Before(q) \in SUBSET Before(r)
      <3>1. r \in Int /\ q \in Int /\ \A x \in Left : x \in Int
        BY <1>1, BackfillAssumption
      <3>2. \A x \in Left : x < q => x < r
        BY <1>3, <3>1
      <3> QED BY <3>2
    <2>2. Cardinality(Before(r)) < PageSize
      BY DEF Page
    <2>3. Cardinality(Before(q)) <= Cardinality(Before(r))
      <3>1. IsFiniteSet(Before(r))
        BY <1>1, <1>2
      <3> HIDE DEF Before
      <3> QED BY <2>1, <3>1, FS_Subset
    <2>4. Cardinality(Before(q)) \in Nat /\ Cardinality(Before(r)) \in Nat
      <3> HIDE DEF Before
      <3> QED BY <1>1, <1>2
    <2>5. Cardinality(Before(q)) < PageSize
      BY <2>2, <2>3, <2>4, BackfillAssumption
    <2> QED BY <2>5 DEF Page
  <1>4. ASSUME Left # {} PROVE Page # {}
    <2>1. PICK r \in Left : \A q \in Left : r <= q
      BY <1>1, <1>4, Extremes, BackfillAssumption
    <2>2. Before(r) = {}
      <3>1. \A q \in Left : q \in Int /\ r \in Int /\ r <= q
        BY <1>1, <2>1, BackfillAssumption
      <3>2. \A q \in Left : ~(q < r)
        BY <3>1
      <3> QED BY <3>2
    <2>3. Cardinality(Before(r)) = 0
      BY <2>2, FS_EmptySet
    <2>4. r \in Page
      BY <2>3, BackfillAssumption DEF Page
    <2> QED BY <2>4
  <1> QED BY <1>1, <1>3, <1>4

(* When there is more, the cursor moves to the last record of the page.      *)
LEMMA NextCursor ==
  ASSUME BackfillTypeOK, More
  PROVE  LET m == CHOOSE r \in Page : \A q \in Page : q <= r
         IN  m \in Page /\ \A q \in Page : q <= m
  <1>1. Page # {} /\ Page \in SUBSET (1..Records)
    BY PageFacts DEF More
  <1>2. \E r \in Page : \A q \in Page : q <= r
    BY <1>1, Extremes, BackfillAssumption
  <1> QED BY <1>2

-----------------------------------------------------------------------------
LEMMA BackfillInitInv == BackfillInit => BackfillInv
  BY BackfillAssumption DEF BackfillInit, BackfillInv, BackfillTypeOK, Backfills,
     Texts, NoRecord, NoText, WatchedInv, PassedInv

LEMMA BackfillStartKeeps == ASSUME BackfillInv, StartBackfill PROVE BackfillInv'
  <1> USE DEF BackfillInv
  <1>1. /\ backfill'.pc = "page" /\ backfill'.cursor = 0 /\ backfill'.kind = backfill.kind
        /\ backfill'.watched = {r \in 1..Records : text[r] # NoRecord}
        /\ backfill' \in Backfills
    <2> DEFINE W == {r \in 1..Records : text[r] # NoRecord}
    <2>1. W \in SUBSET (1..Records)
      OBVIOUS
    <2>2. backfill' = [backfill EXCEPT !.pc = "page", !.cursor = 0, !.job = 0,
                       !.odd = FALSE, !.whole = TRUE, !.watched = W]
      BY DEF StartBackfill
    <2> HIDE DEF W
    <2>3. backfill \in Backfills /\ 0 \in 0..Records /\ 0 \in 0..MaxBackfills
      BY BackfillAssumption DEF BackfillTypeOK
    <2>4. /\ backfill' \in Backfills /\ backfill'.pc = "page" /\ backfill'.cursor = 0
          /\ backfill'.kind = backfill.kind /\ backfill'.watched = W
      BY <2>1, <2>2, <2>3 DEF Backfills
    <2> QED BY <2>4 DEF W
  <1>2. BackfillTypeOK'
    BY <1>1, BackfillAssumption DEF StartBackfill, BackfillTypeOK
  <1>3. WatchedInv'
    BY <1>1 DEF WatchedInv, StartBackfill
  <1>4. PassedInv'
    BY <1>1, BackfillAssumption DEF PassedInv
  <1> QED BY <1>2, <1>3, <1>4

(* What a page answered makes of its records, by either command: each is     *)
(* covered, and what was stays so.                                           *)
LEMMA PageCovers ==
  ASSUME BackfillInv, NEW o \in Outcomes, EmbedPage(o) \/ LexicalPage(o)
  PROVE  /\ indexed' \in [1..Records -> Texts] /\ queued' \subseteq 1..Records
         /\ backfill'.kind = backfill.kind
         /\ \A r \in 1..Records : Covered(r) => Covered(r)'
         /\ CarriedOut(o) => \A r \in Page : Covered(r)'
  <1>1. /\ backfill \in Backfills /\ text \in [1..Records -> Texts]
        /\ indexed \in [1..Records -> Texts] /\ queued \subseteq 1..Records
        /\ text' = text
    BY DEF BackfillInv, BackfillTypeOK, EmbedPage, LexicalPage, NextPage
  <1>2. backfill'.kind = backfill.kind
    BY <1>1 DEF EmbedPage, LexicalPage, NextPage, Backfills
  <1>3. Stale \subseteq Page /\ Page \subseteq 1..Records
    BY PageFacts DEF Stale, BackfillInv
  <1>4. \A r \in Page : r \notin Stale => Current(r)
    BY DEF Stale, Current
  <1>5. CASE EmbedPage(o)
    <2>1. /\ indexed' = indexed /\ backfill.kind = "embed"
          /\ queued' = IF CarriedOut(o) THEN queued \cup Stale ELSE queued
      BY <1>5 DEF EmbedPage
    <2>2. \A r \in 1..Records : Current(r)' <=> Current(r)
      BY <1>1, <2>1 DEF Current
    <2>3. \A r \in 1..Records : Covered(r) => Covered(r)'
      BY <1>2, <2>1, <2>2 DEF Covered
    <2>4. ASSUME CarriedOut(o), NEW r \in Page PROVE Covered(r)'
      BY <1>2, <1>3, <1>4, <2>1, <2>2, <2>4 DEF Covered
    <2> QED BY <1>1, <1>2, <1>3, <2>1, <2>3, <2>4
  <1>6. CASE LexicalPage(o)
    <2>1. /\ queued' = queued
          /\ indexed' = [r \in 1..Records |->
                          IF CarriedOut(o) /\ r \in Stale THEN text[r] ELSE indexed[r]]
      BY <1>6 DEF LexicalPage
    <2>2. \A r \in 1..Records : Current(r) => Current(r)'
      BY <1>1, <2>1 DEF Current
    <2>3. \A r \in 1..Records : CarriedOut(o) /\ r \in Stale => Current(r)'
      BY <1>1, <2>1 DEF Current
    <2>4. indexed' \in [1..Records -> Texts]
      BY <1>1, <2>1
    <2> QED BY <1>1, <1>2, <1>3, <1>4, <2>1, <2>2, <2>3, <2>4 DEF Covered
  <1> QED BY <1>5, <1>6

(* A page covers what it has, and the cursor goes no further.                *)
LEMMA PageKeeps ==
  ASSUME BackfillInv, NEW o \in Outcomes, EmbedPage(o) \/ LexicalPage(o)
  PROVE  BackfillInv'
  <1> USE DEF BackfillInv
  <1>1. PICK job \in 0..MaxBackfills : NextPage(o, job)
    <2>1. 0 \in 0..MaxBackfills /\ JobNamed \in 0..MaxBackfills
      BY BackfillAssumption DEF JobNamed, BackfillTypeOK, Backfills
    <2> QED BY <2>1 DEF EmbedPage, LexicalPage
  <1>2. /\ backfill \in Backfills /\ backfill.pc = "page"
        /\ UNCHANGED <<field, text, writes, backfills>>
    BY <1>1 DEF NextPage, BackfillTypeOK
  <1>3. lapses' \in 0..MaxLapses
    BY <1>1, BackfillAssumption DEF NextPage, BackfillTypeOK
  <1>4. /\ indexed' \in [1..Records -> Texts] /\ queued' \subseteq 1..Records
        /\ backfill'.kind = backfill.kind
        /\ \A r \in 1..Records : Covered(r) => Covered(r)'
        /\ CarriedOut(o) => \A r \in Page : Covered(r)'
    BY PageCovers
  <1>5. ASSUME backfill' \in Backfills, backfill'.watched = backfill.watched,
               PassedInv'
        PROVE  BackfillInv'
    BY <1>2, <1>3, <1>4, <1>5 DEF BackfillTypeOK, WatchedInv
  <1>6. CASE ~Reported(o)
    <2>1. backfill' = [backfill EXCEPT !.pc = "failed"]
      BY <1>1, <1>6 DEF NextPage
    <2>2. /\ backfill' \in Backfills /\ backfill'.pc = "failed"
          /\ backfill'.watched = backfill.watched
      BY <1>2, <2>1 DEF Backfills
    <2> QED BY <1>5, <2>2 DEF PassedInv
  <1>7. CASE Reported(o)
    <2> DEFINE answered == [backfill EXCEPT !.odd = ~@, !.job = job]
               m == CHOOSE r \in Page : \A q \in Page : q <= r
    <2>1. /\ answered \in Backfills /\ answered.pc = "page"
          /\ answered.watched = backfill.watched /\ answered.whole = backfill.whole
      BY <1>2 DEF Backfills
    <2>2. field \in Need(backfill.kind)
      BY <1>1, <1>7 DEF NextPage, Reported
    <2>3. \A r \in Page : Covered(r)'
      BY <1>4, <1>7 DEF Reported, CarriedOut
    <2>4. \A r \in backfill.watched : r \in 1..Records /\ text[r] # NoRecord
      BY <1>2 DEF WatchedInv, Backfills
    <2>5. \A r \in backfill.watched : r <= backfill.cursor \/ r \in Left
      BY <1>2, <2>4, BackfillAssumption DEF Left, Backfills
    <2>6. \A r \in Page : r > backfill.cursor
      BY <1>2, PageFacts, BackfillAssumption DEF Left, Backfills
    <2>7. ASSUME backfill.whole, NEW r \in backfill.watched, r <= backfill.cursor
          PROVE  Covered(r)'
      BY <1>2, <1>4, <2>4, <2>7 DEF PassedInv
    <2>8. CASE ~More /\ backfill' = [answered EXCEPT !.pc = "ok"]
      <3> HIDE DEF answered
      <3>1. /\ backfill' \in Backfills /\ backfill'.pc = "ok"
            /\ backfill'.watched = backfill.watched /\ backfill'.whole = backfill.whole
        BY <2>1, <2>8 DEF Backfills
      <3>2. Page = Left
        BY <2>8 DEF More
      <3>3. PassedInv'
        BY <1>2, <1>4, <2>2, <2>3, <2>5, <2>7, <3>1, <3>2 DEF PassedInv
      <3> QED BY <1>5, <3>1, <3>3
    <2>9. CASE More /\ backfill' = [answered EXCEPT !.cursor = m]
      <3>1. m \in Page /\ \A q \in Page : q <= m
        BY <2>9, NextCursor
      <3>2. m \in 1..Records /\ m > backfill.cursor /\ m \in Left
        BY <2>6, <3>1, PageFacts
      <3> HIDE DEF m, answered
      <3>3. /\ backfill' \in Backfills /\ backfill'.pc = "page"
            /\ backfill'.cursor = m
            /\ backfill'.watched = backfill.watched /\ backfill'.whole = backfill.whole
        BY <2>1, <2>9, <3>2 DEF Backfills
      <3>4. ASSUME backfill.whole, NEW r \in backfill.watched, r <= m PROVE Covered(r)'
        <4>1. r \in Left => r \in Page
          BY <3>1, <3>4, PageFacts
        <4> QED BY <2>3, <2>5, <2>7, <3>4, <4>1
      <3>5. PassedInv'
        BY <1>2, <1>4, <2>2, <3>3, <3>4 DEF PassedInv
      <3> QED BY <1>5, <3>3, <3>5
    <2>10. CASE backfill' = [answered EXCEPT !.cursor = 0]
      <3> HIDE DEF answered
      <3>1. /\ backfill' \in Backfills /\ backfill'.pc = "page" /\ backfill'.cursor = 0
            /\ backfill'.watched = backfill.watched
        BY <2>1, <2>10, BackfillAssumption DEF Backfills
      <3>2. \A r \in backfill.watched : ~(r <= 0)
        BY <2>4, BackfillAssumption
      <3>3. PassedInv'
        BY <3>1, <3>2 DEF PassedInv
      <3> QED BY <1>5, <3>1, <3>3
    <2> QED BY <1>1, <1>7, <2>8, <2>9, <2>10 DEF NextPage
  <1> QED BY <1>6, <1>7

(* A job done leaves its record current.                                     *)
LEMMA JobKeeps ==
  ASSUME BackfillInv, NEW r \in 1..Records, RunJob(r)
  PROVE  BackfillInv'
  <1> USE DEF BackfillInv
  <1>1. UNCHANGED <<field, text, backfill, writes, backfills, lapses>>
    BY DEF RunJob
  <1>2. BackfillTypeOK'
    BY <1>1 DEF RunJob, BackfillTypeOK
  <1>3. \A q \in 1..Records : Covered(q) => Covered(q)'
    <2>1. /\ queued' = queued \ {r} /\ indexed'[r] = text[r]
          /\ \A q \in 1..Records : q # r => indexed'[q] = indexed[q]
      BY DEF RunJob, BackfillTypeOK
    <2> QED BY <1>1, <2>1 DEF Covered, Current
  <1>4. backfill.watched \subseteq 1..Records
    BY DEF BackfillTypeOK, Backfills
  <1> QED BY <1>1, <1>2, <1>3, <1>4 DEF WatchedInv, PassedInv

(* What an app writes is covered, as long as the field is as the backfill    *)
(* needs it.                                                                 *)
LEMMA WriteKeeps ==
  ASSUME BackfillInv, NEW r \in 1..Records,
         NEW t \in {NoRecord, NoText, writes + 1}, WriteRecord(r, t)
  PROVE  BackfillInv'
  <1> USE DEF BackfillInv
  <1>1. t \in Texts /\ NoText \in Texts /\ writes' \in 0..MaxWrites
    BY BackfillAssumption DEF WriteRecord, BackfillTypeOK, Texts, NoRecord, NoText
  <1>2. /\ backfill' \in Backfills /\ backfill'.pc = backfill.pc
        /\ backfill'.cursor = backfill.cursor /\ backfill'.kind = backfill.kind
        /\ backfill'.whole = backfill.whole
        /\ backfill'.watched = IF t = NoRecord THEN backfill.watched \ {r}
                               ELSE backfill.watched
        /\ backfill.kind \in {"embed", "lexical"}
    BY DEF WriteRecord, BackfillTypeOK, Backfills
  <1>3. /\ text' \in [1..Records -> Texts] /\ indexed' \in [1..Records -> Texts]
        /\ queued' \subseteq 1..Records
        /\ text'[r] = t
        /\ \A q \in 1..Records : q # r =>
             text'[q] = text[q] /\ indexed'[q] = indexed[q] /\ (q \in queued' <=> q \in queued)
    BY <1>1 DEF WriteRecord, BackfillTypeOK
  <1>4. ASSUME field \in Need(backfill.kind), t # NoRecord PROVE Covered(r)'
    <2>1. CASE backfill.kind = "lexical"
      <3>1. indexed'[r] = t
        BY <1>4, <2>1 DEF WriteRecord, BackfillTypeOK
      <3> QED BY <1>3, <3>1 DEF Covered, Current
    <2>2. CASE backfill.kind = "embed"
      <3>1. t = NoText \/ r \in queued'
        BY <1>4, <2>2 DEF WriteRecord
      <3> QED BY <1>2, <1>3, <2>2, <3>1 DEF Covered, Current
    <2> QED BY <1>2, <2>1, <2>2
  <1>5. BackfillTypeOK'
    BY <1>1, <1>2, <1>3 DEF WriteRecord, BackfillTypeOK
  <1>6. backfill'.watched \subseteq backfill.watched /\ backfill.watched \subseteq 1..Records
    BY <1>2 DEF BackfillTypeOK, Backfills
  <1>7. WatchedInv'
    BY <1>2, <1>3, <1>6 DEF WatchedInv
  <1>8. ASSUME NEW q \in backfill'.watched, Covered(q), field \in Need(backfill.kind)
        PROVE  Covered(q)'
    <2>1. CASE q = r
      BY <1>2, <1>4, <1>8, <2>1
    <2>2. CASE q # r
      BY <1>2, <1>3, <1>6, <1>8, <2>2 DEF Covered, Current
    <2> QED BY <2>1, <2>2
  <1>9. ASSUME NEW q \in backfill'.watched, q <= backfill.cursor, backfill.pc = "page",
               backfill.whole
        PROVE  Covered(q)'
    <2>1. backfill.cursor > 0
      BY <1>6, <1>9 DEF BackfillTypeOK, Backfills
    <2> QED BY <1>6, <1>8, <1>9, <2>1 DEF PassedInv
  <1>10. PassedInv'
    BY <1>2, <1>6, <1>8, <1>9 DEF PassedInv, WriteRecord
  <1> QED BY <1>5, <1>7, <1>10

LEMMA FieldKeeps ==
  ASSUME BackfillInv,
         \/ \E f \in {"plain", "embedded"} : CreateField(f) \/ UpdateEmbedding(f)
         \/ DeleteField
  PROVE  BackfillInv'
  <1> USE DEF BackfillInv
  <1>1. PICK f \in {"none", "plain", "embedded"} : SetField(f)
    BY DEF CreateField, UpdateEmbedding, DeleteField
  <1>2. /\ backfill' \in Backfills /\ backfill'.whole = FALSE
        /\ backfill'.watched = backfill.watched
    BY <1>1 DEF SetField, BackfillTypeOK, Backfills
  <1>3. indexed' \in [1..Records -> Texts]
    BY BackfillAssumption DEF CreateField, UpdateEmbedding, DeleteField, BackfillTypeOK,
       Texts, NoText, NoRecord
  <1>4. BackfillTypeOK'
    <2>1. queued' \subseteq 1..Records
      BY DEF CreateField, UpdateEmbedding, DeleteField, BackfillTypeOK
    <2> QED BY <1>1, <1>2, <1>3, <2>1, BackfillAssumption DEF SetField, BackfillTypeOK
  <1> QED BY <1>1, <1>2, <1>4 DEF WatchedInv, PassedInv, SetField

LEMMA BackfillStepInv == BackfillInv /\ [BackfillNext]_backfillVars => BackfillInv'
  <1> SUFFICES ASSUME BackfillInv, [BackfillNext]_backfillVars PROVE BackfillInv'
    OBVIOUS
  <1>1. CASE UNCHANGED backfillVars
    BY <1>1 DEF backfillVars, BackfillInv, BackfillTypeOK, WatchedInv, PassedInv,
       Covered, Current
  <1>2. CASE StartBackfill
    BY <1>2, BackfillStartKeeps
  <1>3. ASSUME NEW o \in Outcomes, EmbedPage(o) \/ LexicalPage(o) PROVE BackfillInv'
    BY <1>3, PageKeeps
  <1>4. ASSUME NEW r \in 1..Records, NEW t \in {NoRecord, NoText, writes + 1},
               WriteRecord(r, t)
        PROVE  BackfillInv'
    BY <1>4, WriteKeeps
  <1>5. CASE \/ \E f \in {"plain", "embedded"} : CreateField(f) \/ UpdateEmbedding(f)
             \/ DeleteField
    BY <1>5, FieldKeeps
  <1>6. ASSUME NEW r \in 1..Records, RunJob(r) PROVE BackfillInv'
    BY <1>6, JobKeeps
  <1> QED BY <1>1, <1>2, <1>3, <1>4, <1>5, <1>6 DEF BackfillNext, BackfillStep

(* What the cursor has passed is indexed under its text or has a job for it, *)
(* whatever the apps write and whichever jobs have run.                      *)
THEOREM BackfillInvariant == BackfillSpec => []BackfillInv
  BY BackfillInitInv, BackfillStepInv, PTL DEF BackfillSpec

(* A backfill that reports completion (vector_fields.go:328) has missed no   *)
(* record, for any page size, any records, any writes in between and any     *)
(* pages that sent it back to the start: lexical-backfill has indexed it,    *)
(* embed-all has indexed it or a job is queued for it.                       *)
THEOREM BackfillsMissNone == BackfillSpec => []CompleteBackfillMissesNone
  <1>1. BackfillInv => CompleteBackfillMissesNone
    BY DEF BackfillInv, PassedInv, CompleteBackfillMissesNone
  <1> QED BY <1>1, BackfillInvariant, PTL

-----------------------------------------------------------------------------
(* The Firestore migration                                                   *)

(* What the constructors of values make.                                     *)
LEMMA ValueFacts ==
  /\ \A i : Id(i).kind = "id" /\ Id(i).id = i
  /\ \A d : Uuid(d).kind = "uuid" /\ Uuid(d).doc = d
  /\ Other.kind = "other" /\ Null.kind = "null"
  BY DEF Id, Uuid, Other, Null, Value

(* A lookup leaves no id, and a UUID only of a document with that id in the  *)
(* target.                                                                   *)
LEMMA LookedFacts ==
  ASSUME NEW v, NEW t
  PROVE  /\ Looked(v, t).kind # "id"
         /\ v.kind \notin {"id", "uuid"} => Looked(v, t) = v
         /\ v.kind = "uuid" => Looked(v, t) = Null
         /\ Looked(v, t).kind = "uuid" =>
              v.kind = "id" /\ <<t, v.id>> \in DOMAIN newID
         /\ v.kind = "id" /\ <<t, v.id>> \in DOMAIN newID =>
              Looked(v, t) = Uuid(newID[<<t, v.id>>])
  <1>1. CASE v.kind \notin {"id", "uuid"}
    BY <1>1 DEF Looked
  <1>2. CASE v.kind = "uuid"
    <2>1. Looked(v, t) = Null
      BY <1>2 DEF Looked
    <2> QED BY <1>2, <2>1, ValueFacts
  <1>3. CASE v.kind = "id" /\ <<t, v.id>> \in DOMAIN newID
    <2>1. Looked(v, t) = Uuid(newID[<<t, v.id>>])
      BY <1>3 DEF Looked
    <2> QED BY <1>3, <2>1, ValueFacts
  <1>4. CASE v.kind = "id" /\ <<t, v.id>> \notin DOMAIN newID
    <2>1. Looked(v, t) = Null
      BY <1>4 DEF Looked
    <2> QED BY <1>4, <2>1, ValueFacts
  <1> QED BY <1>1, <1>2, <1>3, <1>4

(* What the fields of a record are made of.                                  *)
LEMMA FieldsFacts ==
  ASSUME NEW d \in DOMAIN docs, MigrateTypeOK
  PROVE  /\ d \in Documents /\ d.col \in Names /\ d.id \in Ids
         /\ DOMAIN RecordFields(d) = FieldNames
         /\ RecordFields(d)["field"] = docs[d]
         /\ IsSub(d) => /\ d.parentCol \in Names /\ d.parentCol \in FieldNames
                        /\ RecordFields(d)[d.parentCol] = Uuid(newID[ParentKey(d)])
         /\ \A f \in FieldNames :
              f # "field" /\ ~(IsSub(d) /\ f = d.parentCol) => RecordFields(d)[f] = Other
  <1>1. d \in Documents /\ d.col \in Names /\ d.id \in Ids
    BY DEF MigrateTypeOK, Documents
  <1>2. IsSub(d) => d.parentCol \in Names
    BY <1>1 DEF Documents, IsSub
  <1>3. "field" \in FieldNames /\ (IsSub(d) => d.parentCol \in FieldNames /\ d.parentCol # "field")
    BY <1>2, MigrateAssumption DEF FieldNames
  <1>4. RecordFields(d)["field"] = docs[d]
    <2>1. d.parentCol # "field"
      BY <1>1, MigrateAssumption DEF Documents, Top
    <2> QED BY <1>3, <2>1 DEF RecordFields
  <1>5. IsSub(d) => RecordFields(d)[d.parentCol] = Uuid(newID[ParentKey(d)])
    BY <1>3 DEF RecordFields
  <1>6. ASSUME NEW f \in FieldNames, f # "field", ~(IsSub(d) /\ f = d.parentCol)
        PROVE  RecordFields(d)[f] = Other
    <2>1. f # d.parentCol
      BY <1>6, MigrateAssumption DEF IsSub, FieldNames
    <2> QED BY <1>6, <2>1 DEF RecordFields
  <1>7. DOMAIN RecordFields(d) = FieldNames
    BY DEF RecordFields
  <1> QED BY <1>1, <1>2, <1>3, <1>4, <1>5, <1>6, <1>7

(* The references that --ref gives are well typed.                           *)
LEMMA RefsFacts ==
  ASSUME MigrateTypeOK
  PROVE  /\ refs \in Seq(RefSpec) /\ applied \in Nat /\ Len(refs) \in Nat
         /\ applied <= Len(refs) /\ DOMAIN refs = 1..Len(refs)
         /\ \A k \in 1..Len(refs) : /\ refs[k] \in RefSpec /\ refs[k].col \in Names
                                    /\ refs[k].field \in FieldNames
                                    /\ refs[k].target \in Names
  <1>1. refs \in Seq(RefSpec) /\ applied \in 0..Len(refs)
    BY MigrateAssumption DEF MigrateTypeOK
  <1>2. \A k \in 1..Len(refs) : refs[k] \in RefSpec
    BY <1>1
  <1> QED BY <1>1, <1>2 DEF RefSpec

-----------------------------------------------------------------------------
(* The steps *)

LEMMA MigrateInits == MigrateInit => MigrateInv
  <1> SUFFICES ASSUME MigrateInit PROVE MigrateInv
    OBVIOUS
  <1>1. PICK T \in Exports : docs \in [T -> {Id(i) : i \in Ids} \cup {Other}]
    BY DEF MigrateInit
  <1>2. T \subseteq Documents
    <2>1. CASE T = {}
      BY <2>1
    <2>2. CASE T # {}
      <3>1. PICK s \in [1..MaxDocs -> Documents] : T = {s[n] : n \in 1..MaxDocs}
        BY <2>2 DEF Exports
      <3> QED BY <3>1
    <2> QED BY <2>1, <2>2
  <1>3. DOMAIN docs = T /\ \A d \in T : docs[d] \in {Id(i) : i \in Ids} \cup {Other}
    BY <1>1
  <1>4. \A d \in T : IsSub(d) => \E p \in T : Key(p) = ParentKey(d)
    BY DEF Exports
  <1>5. MigrateTypeOK
    <2>1. applied \in 0..Len(refs) /\ applied = 0
      BY MigrateAssumption DEF MigrateInit
    <2>2. DOMAIN newID = {} /\ DOMAIN records = {}
      BY DEF MigrateInit
    <2> QED BY <1>2, <1>3, <2>1, <2>2 DEF MigrateInit, MigrateTypeOK
  <1>6. ~Built /\ migrate # "build" /\ archive # "whole" /\ applied = 0
    BY DEF MigrateInit, Built
  <1>7. ExportInv
    BY <1>3, <1>4, <1>6 DEF ExportInv
  <1> QED BY <1>5, <1>6, <1>7 DEF MigrateInv, RecordsInv, ReferencesInv

(* A step that only moves on, and not into what was built.                   *)
LEMMA MovingOnKeeps ==
  ASSUME MigrateInv, UNCHANGED <<docs, refs, newID, applied, records, references>>,
         Built' => Built, migrate' \in {"ok", "failed"},
         archive' \in {"none", "partial", "whole"},
         archive' = "whole" => applied = Len(refs) /\ migrate' = "ok"
  PROVE  MigrateInv'
  <1> USE DEF MigrateInv
  <1>1. MigrateTypeOK'
    BY DEF MigrateTypeOK
  <1>2. ExportInv'
    BY DEF ExportInv, Key, ParentKey
  <1>3. ASSUME Built' PROVE RecordsInv' /\ ReferencesInv'
    <2>1. Built
      BY <1>3
    <2>2. RecordsInv'
      BY <2>1 DEF RecordsInv, Naming, RecordFields, Looked
    <2>3. ReferencesInv'
      BY <2>1 DEF ReferencesInv
    <2> QED BY <2>2, <2>3
  <1>4. CASE ~Built'
    BY <1>1, <1>2, <1>4 DEF RecordsInv, ReferencesInv
  <1> QED BY <1>1, <1>2, <1>3, <1>4

LEMMA AssignIdsKeeps == MigrateInv /\ AssignIds => MigrateInv'
  <1> SUFFICES ASSUME MigrateInv, AssignIds PROVE MigrateInv'
    OBVIOUS
  <1>1. UNCHANGED <<docs, refs, applied, records, references, archive>> /\ migrate = "flatten"
    BY DEF AssignIds
  <1>2. CASE migrate' = "failed"
    <2>1. UNCHANGED newID
      BY <1>2 DEF AssignIds
    <2>2. Built' => Built
      BY <1>1, <1>2 DEF Built
    <2>3. archive' \in {"none", "partial", "whole"} /\ archive' # "whole"
      BY <1>1 DEF MigrateInv, MigrateTypeOK
    <2> QED BY <1>1, <1>2, <2>1, <2>2, <2>3, MovingOnKeeps
  <1>3. CASE migrate' # "failed"
    <2>1. /\ newID' \in [{Key(d) : d \in DOMAIN docs} -> DOMAIN docs]
          /\ \A k \in DOMAIN newID' : Key(newID'[k]) = k
          /\ migrate' = "build"
      BY <1>3 DEF AssignIds
    <2>2. \A d \in DOMAIN docs : Key(d) \in Names \X Ids
      BY FieldsFacts DEF Key, MigrateInv
    <2>3. DOMAIN newID' = {Key(d) : d \in DOMAIN docs}
          /\ \A k \in DOMAIN newID' : k \in Names \X Ids /\ newID'[k] \in DOMAIN docs
      BY <2>1, <2>2
    <2>4. MigrateTypeOK'
      BY <1>1, <2>1, <2>3 DEF MigrateTypeOK, MigrateInv
    <2>5. ExportInv'
      BY <1>1, <2>1, <2>3 DEF ExportInv, MigrateInv, Key, ParentKey
    <2>6. archive' # "whole" /\ ~Built' /\ applied' = 0
      BY <1>1, <2>1 DEF MigrateInv, Built
    <2> QED BY <2>4, <2>5, <2>6 DEF MigrateInv, RecordsInv, ReferencesInv
  <1> QED BY <1>2, <1>3

LEMMA BuildRecordsKeeps == MigrateInv /\ BuildRecords => MigrateInv'
  <1> SUFFICES ASSUME MigrateInv, BuildRecords PROVE MigrateInv'
    OBVIOUS
  <1>1. /\ UNCHANGED <<docs, refs, newID, applied, archive>>
        /\ migrate = "build" /\ migrate' = "rewrite"
        /\ records' = [d \in DOMAIN docs |-> RecordFields(d)]
        /\ references' = {[col |-> d.col, field |-> d.parentCol, target |-> d.parentCol] :
                            d \in {e \in DOMAIN docs : IsSub(e)}}
    BY DEF BuildRecords
  <1>2. MigrateTypeOK /\ ExportInv /\ archive # "whole"
    BY <1>1 DEF MigrateInv
  <1>3. DOMAIN records' = DOMAIN docs /\ \A d \in DOMAIN docs : records'[d] = RecordFields(d)
    BY <1>1
  <1>4. MigrateTypeOK'
    <2>1. references' \subseteq RefSpec
      BY <1>1, <1>2, FieldsFacts DEF RefSpec
    <2>2. \A d \in DOMAIN records' : DOMAIN records'[d] = FieldNames
      BY <1>2, <1>3, FieldsFacts
    <2> QED BY <1>1, <1>2, <1>3, <2>1, <2>2 DEF MigrateTypeOK
  <1>5. ExportInv'
    BY <1>1, <1>2 DEF ExportInv, Key, ParentKey
  <1>6. \A d \in DOMAIN docs, f \in FieldNames : Naming(d, f)' = {}
    BY <1>1 DEF Naming, MigrateInv
  <1>7. RecordsInv'
    <2>1. DOMAIN records' = DOMAIN docs'
      BY <1>1, <1>3
    <2>2. ASSUME NEW d \in DOMAIN docs', NEW f \in FieldNames
          PROVE  records'[d][f] = RecordFields(d)'[f]
      BY <1>1, <1>3, <2>2 DEF RecordFields
    <2>3. ASSUME NEW d \in DOMAIN docs', NEW f \in FieldNames
          PROVE  (/\ Naming(d, f) = {} => records[d][f] = RecordFields(d)[f]
                  /\ \A k \in Naming(d, f) :
                       /\ Naming(d, f) = {k} =>
                            records[d][f] = Looked(RecordFields(d)[f], refs[k].target)
                       /\ Naming(d, f) # {k} => records[d][f].kind \notin {"id", "uuid"})'
      <3>1. d \in DOMAIN docs /\ Naming(d, f)' = {}
        BY <1>1, <1>6, <2>3
      <3> QED BY <2>2, <3>1
    <2> QED BY <2>1, <2>3 DEF RecordsInv
  <1>8. ReferencesInv'
    <2>1. ASSUME NEW d \in DOMAIN docs, NEW f \in FieldNames, records'[d][f].kind = "uuid"
          PROVE  \E r \in references' : r.col = d.col /\ r.field = f
      <3>1. RecordFields(d)[f].kind = "uuid"
        BY <1>3, <2>1
      <3>2. f = "field" => docs[d].kind # "uuid"
        BY <1>2, ValueFacts DEF ExportInv
      <3>3. IsSub(d) /\ f = d.parentCol
        BY <1>2, <2>1, <3>1, <3>2, FieldsFacts, ValueFacts
      <3>4. [col |-> d.col, field |-> d.parentCol, target |-> d.parentCol] \in references'
        BY <1>1, <3>3
      <3> QED BY <3>3, <3>4
    <2>2. ASSUME NEW r \in references'
          PROVE  /\ \E e \in DOMAIN docs : IsSub(e) /\ r.field = e.parentCol
                 /\ r.target = r.field
      BY <1>1
    <2>3. DOMAIN docs' = DOMAIN docs
      BY <1>1
    <2> QED BY <2>1, <2>2, <2>3 DEF ReferencesInv
  <1>9. migrate' \notin {"flatten", "build"} /\ archive' # "whole"
    BY <1>1, <1>2
  <1> QED BY <1>4, <1>5, <1>7, <1>8, <1>9 DEF MigrateInv

LEMMA WriteArchiveKeeps == MigrateInv /\ WriteArchive => MigrateInv'
  <1> SUFFICES ASSUME MigrateInv, WriteArchive PROVE MigrateInv'
    OBVIOUS
  <1>1. UNCHANGED <<docs, refs, newID, applied, records, references>>
        /\ migrate = "rewrite" /\ applied = Len(refs)
    BY DEF WriteArchive
  <1>2. Built /\ archive \in {"none", "partial"}
    BY <1>1 DEF Built, MigrateInv, MigrateTypeOK
  <1>3. /\ migrate' \in {"ok", "failed"} /\ archive' \in {"none", "partial", "whole"}
        /\ archive' = "whole" => migrate' = "ok"
    BY <1>2 DEF WriteArchive
  <1> QED BY <1>1, <1>2, <1>3, MovingOnKeeps

(* One of --ref, applied.                                                    *)
LEMMA RewriteFacts ==
  ASSUME MigrateInv, Rewrite
  PROVE  /\ UNCHANGED <<docs, refs, newID, archive, migrate>>
         /\ applied' = applied + 1 /\ applied \in Nat /\ applied' \in 1..Len(refs)
         /\ refs[applied'] \in RefSpec
         /\ Built /\ MigrateTypeOK /\ ExportInv /\ RecordsInv /\ ReferencesInv
         /\ DOMAIN records' = DOMAIN docs
         /\ \A d \in DOMAIN docs : DOMAIN records'[d] = FieldNames
         /\ \A d \in DOMAIN docs, f \in FieldNames :
              LET r == refs[applied'] IN
              /\ d.col = r.col /\ f = r.field =>
                   /\ records'[d][f] = Looked(records[d][f], r.target)
                   /\ Naming(d, f)' = Naming(d, f) \cup {applied'}
              /\ ~(d.col = r.col /\ f = r.field) =>
                   /\ records'[d][f] = records[d][f]
                   /\ Naming(d, f)' = Naming(d, f)
  <1> DEFINE r == refs[applied + 1]
  <1>1. /\ UNCHANGED <<docs, refs, newID, archive, migrate>>
        /\ migrate = "rewrite" /\ applied' = applied + 1 /\ applied < Len(refs)
        /\ records' = [d \in DOMAIN docs |->
                         IF d.col = r.col THEN Resolve(records[d], r) ELSE records[d]]
    BY DEF Rewrite
  <1>2. Built /\ MigrateTypeOK /\ ExportInv /\ RecordsInv /\ ReferencesInv
    BY <1>1 DEF Built, MigrateInv
  <1>3. applied \in Nat /\ Len(refs) \in Nat /\ applied' \in 1..Len(refs)
    BY <1>1, <1>2, RefsFacts
  <1>4. r = refs[applied'] /\ r \in RefSpec /\ r.field \in FieldNames
    BY <1>1, <1>2, <1>3, RefsFacts
  <1>5. DOMAIN records = DOMAIN docs /\ \A d \in DOMAIN docs : DOMAIN records[d] = FieldNames
    BY <1>2 DEF RecordsInv, MigrateTypeOK
  <1> HIDE DEF r
  <1>6. ASSUME NEW d \in DOMAIN docs
        PROVE  /\ DOMAIN records'[d] = FieldNames
               /\ \A f \in FieldNames :
                    records'[d][f] = IF d.col = r.col /\ f = r.field
                                     THEN Looked(records[d][f], r.target)
                                     ELSE records[d][f]
    <2>1. CASE d.col = r.col
      <3>1. records'[d] = [records[d] EXCEPT ![r.field] = Looked(@, r.target)]
        BY <1>1, <2>1 DEF Resolve
      <3> QED BY <1>4, <1>5, <2>1, <3>1
    <2>2. CASE d.col # r.col
      BY <1>1, <1>5, <2>2
    <2> QED BY <2>1, <2>2
  <1>7. ASSUME NEW d \in DOMAIN docs, NEW f \in FieldNames
        PROVE  Naming(d, f)' = IF d.col = r.col /\ f = r.field
                               THEN Naming(d, f) \cup {applied'} ELSE Naming(d, f)
    <2>1. refs' = refs /\ 1..applied' = (1..applied) \cup {applied'}
      BY <1>1, <1>3
    <2> QED BY <1>4, <2>1 DEF Naming
  <1>8. DOMAIN records' = DOMAIN docs
    BY <1>1
  <1> QED BY <1>1, <1>2, <1>3, <1>4, <1>6, <1>7, <1>8

LEMMA RewriteKeepsTypes == MigrateInv /\ Rewrite => MigrateTypeOK' /\ ExportInv'
  <1> SUFFICES ASSUME MigrateInv, Rewrite PROVE MigrateTypeOK' /\ ExportInv'
    OBVIOUS
  <1>1. references' \subseteq RefSpec
    BY RewriteFacts DEF Rewrite, Declare, MigrateTypeOK
  <1>2. applied' \in 0..Len(refs')
    <2>1. Len(refs) \in Nat
      BY RefsFacts, RewriteFacts
    <2> QED BY <2>1, RewriteFacts
  <1>3. MigrateTypeOK'
    BY <1>1, <1>2, RewriteFacts DEF MigrateTypeOK
  <1>4. ExportInv'
    <2>1. Built' = Built
      BY RewriteFacts DEF Built
    <2> QED BY <2>1, RewriteFacts DEF ExportInv, Key, ParentKey
  <1> QED BY <1>3, <1>4

(* Only a field that no --ref applied so far names holds an id.              *)
LEMMA IdsAreUnnamed ==
  ASSUME MigrateTypeOK, ExportInv, RecordsInv, Built,
         NEW d \in DOMAIN docs, NEW f \in FieldNames, records[d][f].kind = "id"
  PROVE  f = "field" /\ Naming(d, f) = {}
  <1>1. ASSUME NEW k \in Naming(d, f) PROVE FALSE
    <2>1. CASE Naming(d, f) = {k}
      <3>1. records[d][f] = Looked(RecordFields(d)[f], refs[k].target)
        BY <1>1, <2>1 DEF RecordsInv
      <3>2. Looked(RecordFields(d)[f], refs[k].target).kind # "id"
        BY LookedFacts
      <3> QED BY <3>1, <3>2
    <2>2. CASE Naming(d, f) # {k}
      BY <1>1, <2>2 DEF RecordsInv
    <2> QED BY <2>1, <2>2
  <1>2. Naming(d, f) = {}
    BY <1>1
  <1>3. records[d][f] = RecordFields(d)[f]
    BY <1>2 DEF RecordsInv
  <1>4. f # "field" => RecordFields(d)[f].kind # "id"
    BY FieldsFacts, ValueFacts
  <1> QED BY <1>2, <1>3, <1>4

LEMMA RewriteKeepsRecords == MigrateInv /\ Rewrite => RecordsInv'
  <1> SUFFICES ASSUME MigrateInv, Rewrite PROVE RecordsInv'
    OBVIOUS
  <1> DEFINE r == refs[applied']
  <1>1. DOMAIN records' = DOMAIN docs'
    BY RewriteFacts
  <1>2. ASSUME NEW d \in DOMAIN docs', NEW f \in FieldNames
        PROVE  (/\ Naming(d, f) = {} => records[d][f] = RecordFields(d)[f]
                /\ \A k \in Naming(d, f) :
                     /\ Naming(d, f) = {k} =>
                          records[d][f] = Looked(RecordFields(d)[f], refs[k].target)
                     /\ Naming(d, f) # {k} => records[d][f].kind \notin {"id", "uuid"})'
    <2>1. d \in DOMAIN docs
      BY <1>2, RewriteFacts
    <2>2. /\ Naming(d, f) = {} => records[d][f] = RecordFields(d)[f]
          /\ \A k \in Naming(d, f) :
               /\ Naming(d, f) = {k} =>
                    records[d][f] = Looked(RecordFields(d)[f], refs[k].target)
               /\ Naming(d, f) # {k} => records[d][f].kind \notin {"id", "uuid"}
      BY <2>1, RewriteFacts DEF RecordsInv
    <2>3. RecordFields(d)'[f] = RecordFields(d)[f]
      BY RewriteFacts DEF RecordFields
    <2>4. \A k : Looked(RecordFields(d)[f], refs[k].target)' = Looked(RecordFields(d)[f], refs[k].target)
      BY <2>3, RewriteFacts DEF Looked
    <2>5. CASE d.col = r.col /\ f = r.field
      <3>1. /\ records'[d][f] = Looked(records[d][f], r.target)
            /\ Naming(d, f)' = Naming(d, f) \cup {applied'}
        BY <2>1, <2>5, RewriteFacts
      <3>2. applied' \notin Naming(d, f)
        BY RewriteFacts DEF Naming
      <3>3. CASE Naming(d, f) = {}
        <4>1. records'[d][f] = Looked(RecordFields(d)[f], r.target)
          BY <2>2, <3>1, <3>3
        <4>2. Naming(d, f)' = {applied'}
          BY <3>1, <3>3
        <4>3. refs' = refs
          BY RewriteFacts
        <4> QED BY <2>4, <4>1, <4>2, <4>3
      <3>4. CASE Naming(d, f) # {}
        <4>1. PICK k \in Naming(d, f) : TRUE
          BY <3>4
        <4>2. records[d][f].kind # "id"
          BY <2>1, <3>4, RewriteFacts, IdsAreUnnamed
        <4>3. records'[d][f].kind \notin {"id", "uuid"}
          <5>1. Looked(records[d][f], r.target).kind \notin {"id", "uuid"}
            BY <4>2, LookedFacts
          <5> QED BY <3>1, <5>1
        <4>4. \A m : Naming(d, f)' # {m}
          BY <3>1, <3>2, <4>1
        <4> QED BY <3>1, <4>3, <4>4
      <3> QED BY <3>3, <3>4
    <2>6. CASE ~(d.col = r.col /\ f = r.field)
      <3>1. records'[d][f] = records[d][f] /\ Naming(d, f)' = Naming(d, f)
        BY <2>1, <2>6, RewriteFacts
      <3> QED BY <2>2, <2>3, <2>4, <3>1
    <2> QED BY <2>5, <2>6
  <1> QED BY <1>1, <1>2 DEF RecordsInv

LEMMA RewriteKeepsReferences == MigrateInv /\ Rewrite => ReferencesInv'
  <1> SUFFICES ASSUME MigrateInv, Rewrite PROVE ReferencesInv'
    OBVIOUS
  <1> DEFINE r == refs[applied']
             Asked == \E d \in DOMAIN docs :
                        d.col = r.col /\ records[d][r.field].kind \in {"id", "uuid"}
  <1>1. references' = IF Asked THEN Declare(r) ELSE references
    BY DEF Rewrite
  <1>2. r \in RefSpec /\ r.field \in FieldNames /\ applied' \in 1..Len(refs)
    BY RewriteFacts DEF RefSpec
  <1>3. references \subseteq references'
    BY <1>1 DEF Declare
  <1>4. ASSUME NEW d \in DOMAIN docs, NEW f \in FieldNames, records'[d][f].kind = "uuid"
        PROVE  \E s \in references' : s.col = d.col /\ s.field = f
    <2>1. CASE d.col = r.col /\ f = r.field
      <3>1. records'[d][f] = Looked(records[d][f], r.target)
        BY <2>1, RewriteFacts
      <3>2. records[d][f].kind = "id"
        <4>1. Looked(records[d][f], r.target).kind = "uuid"
          BY <1>4, <3>1
        <4> HIDE DEF r
        <4> QED BY <4>1, LookedFacts
      <3>3. Asked
        BY <2>1, <3>2
      <3> QED BY <1>1, <2>1, <3>3 DEF Declare
    <2>2. CASE ~(d.col = r.col /\ f = r.field)
      <3>1. records[d][f].kind = "uuid"
        BY <1>4, <2>2, RewriteFacts
      <3> QED BY <1>3, <3>1, RewriteFacts DEF ReferencesInv
    <2> QED BY <2>1, <2>2
  <1>5. ASSUME NEW s \in references'
        PROVE  \/ /\ \E e \in DOMAIN docs : IsSub(e) /\ s.field = e.parentCol
                  /\ s.target = s.field
               \/ /\ s.field = "field"
                  /\ \E k \in 1..applied' :
                       /\ s = refs[k]
                       /\ \A m \in 1..(k - 1) :
                            refs[m].col # s.col \/ refs[m].field # s.field
    <2>1. CASE s \in references
      <3>1. 1..applied \subseteq 1..applied'
        BY RewriteFacts
      <3> QED BY <2>1, <3>1, RewriteFacts DEF ReferencesInv
    <2>2. CASE s \notin references
      <3>1. /\ Asked /\ s = r
            /\ ~\E q \in references : q.col = r.col /\ q.field = r.field
        BY <1>1, <1>5, <2>2 DEF Declare
      <3>2. PICK d \in DOMAIN docs :
              d.col = r.col /\ records[d][r.field].kind \in {"id", "uuid"}
        BY <3>1
      <3>3. records[d][r.field].kind # "uuid"
        BY <1>2, <3>1, <3>2, RewriteFacts DEF ReferencesInv
      <3>4. r.field = "field" /\ Naming(d, r.field) = {}
        <4>1. records[d][r.field].kind = "id"
          BY <3>2, <3>3
        <4> HIDE DEF r
        <4> QED BY <1>2, <4>1, RewriteFacts, IdsAreUnnamed
      <3>5. \A m \in 1..(applied' - 1) : refs[m].col # r.col \/ refs[m].field # r.field
        <4>1. applied' - 1 = applied
          BY RewriteFacts
        <4> QED BY <3>2, <3>4, <4>1 DEF Naming
      <3>6. applied' \in 1..applied'
        BY RewriteFacts
      <3> QED BY <3>1, <3>4, <3>5, <3>6
    <2> QED BY <2>1, <2>2
  <1>6. DOMAIN docs' = DOMAIN docs /\ refs' = refs
    BY RewriteFacts
  <1> QED BY <1>4, <1>5, <1>6 DEF ReferencesInv

LEMMA RewriteKeeps == MigrateInv /\ Rewrite => MigrateInv'
  <1> SUFFICES ASSUME MigrateInv, Rewrite PROVE MigrateInv'
    OBVIOUS
  <1>1. archive' # "whole" /\ migrate' = "rewrite"
    BY DEF Rewrite, MigrateInv
  <1> QED
    BY <1>1, RewriteKeepsTypes, RewriteKeepsRecords, RewriteKeepsReferences DEF MigrateInv

(* What a key's UUID is of, what a field is until --ref names it and after,  *)
(* and what is declared: the invariant the archive's soundness rests on, for *)
(* every export and every list of --ref.                                     *)
THEOREM MigrateInvariant == MigrateSpec => []MigrateInv
  <1>1. MigrateInv /\ [MigrateNext]_migrateVars => MigrateInv'
    <2> SUFFICES ASSUME MigrateInv, [MigrateNext]_migrateVars PROVE MigrateInv'
      OBVIOUS
    <2>1. CASE AssignIds
      BY <2>1, AssignIdsKeeps
    <2>2. CASE BuildRecords
      BY <2>2, BuildRecordsKeeps
    <2>3. CASE Rewrite
      BY <2>3, RewriteKeeps
    <2>4. CASE WriteArchive
      BY <2>4, WriteArchiveKeeps
    <2>5. CASE UNCHANGED migrateVars
      <3>1. MigrateTypeOK'
        BY <2>5 DEF migrateVars, MigrateInv, MigrateTypeOK
      <3>2. ExportInv'
        BY <2>5 DEF migrateVars, MigrateInv, ExportInv, Built, Key, ParentKey
      <3>3. RecordsInv'
        BY <2>5 DEF migrateVars, MigrateInv, RecordsInv, Built, Naming, RecordFields, Looked
      <3>4. ReferencesInv'
        BY <2>5 DEF migrateVars, MigrateInv, ReferencesInv, Built
      <3> QED BY <2>5, <3>1, <3>2, <3>3, <3>4 DEF migrateVars, MigrateInv
    <2> QED BY <2>1, <2>2, <2>3, <2>4, <2>5 DEF MigrateNext
  <1> QED BY <1>1, MigrateInits, PTL DEF MigrateSpec

(* The UUID of a key is the id of a record whose document has that key.      *)
LEMMA IdsFacts ==
  ASSUME MigrateTypeOK, ExportInv, Built, NEW n, NEW i, <<n, i>> \in DOMAIN newID
  PROVE  \E e \in DOMAIN docs :
           Key(e) = <<n, i>> /\ e.col = n /\ RecordID(e) = newID[<<n, i>>]
  <1> DEFINE e == newID[<<n, i>>]
  <1>1. e \in DOMAIN docs /\ Key(e) = <<n, i>>
    BY DEF MigrateTypeOK, ExportInv
  <1>2. e.col = n
    BY <1>1 DEF Key
  <1>3. RecordID(e) = newID[<<n, i>>]
    BY <1>1 DEF RecordID
  <1> QED BY <1>1, <1>2, <1>3

(* The state once the archive is whole: all of --ref are applied.            *)
LEMMA WholeFacts ==
  ASSUME MigrateInv, archive = "whole"
  PROVE  /\ Built /\ MigrateTypeOK /\ ExportInv /\ RecordsInv /\ ReferencesInv
         /\ DOMAIN refs = 1..applied
         /\ \A d, f : Naming(d, f) = {k \in DOMAIN refs : refs[k].col = d.col /\ refs[k].field = f}
  <1>1. MigrateTypeOK /\ applied = Len(refs) /\ Built
    BY DEF MigrateInv, Built
  <1>2. DOMAIN refs = 1..applied
    BY <1>1, RefsFacts
  <1> QED BY <1>1, <1>2 DEF MigrateInv, Naming

(* A declared reference holds nothing the import refuses.                    *)
LEMMA DeclaredIsResolved ==
  ASSUME MigrateInv, archive = "whole", NEW r \in references, NEW d \in DOMAIN docs,
         d.col = r.col
  PROVE  /\ records[d][r.field].kind # "id"
         /\ records[d][r.field].kind = "uuid" =>
              \E e \in DOMAIN docs : e.col = r.target /\ RecordID(e) = records[d][r.field].doc
  <1> DEFINE f == r.field
             Resolved == /\ records[d][f].kind # "id"
                         /\ records[d][f].kind = "uuid" =>
                              \E e \in DOMAIN docs :
                                e.col = r.target /\ RecordID(e) = records[d][f].doc
  <1>1. f \in FieldNames
    BY WholeFacts DEF MigrateTypeOK, RefSpec
  <1>2. ASSUME NEW e \in DOMAIN docs, IsSub(e), f = e.parentCol, r.target = f
        PROVE  Resolved
    <2>1. f # "field"
      BY <1>2, WholeFacts, FieldsFacts, MigrateAssumption
    <2>2. records[d][f].kind # "id"
      <3> HIDE DEF f
      <3> QED BY <1>1, <2>1, WholeFacts, IdsAreUnnamed
    <2>3. ASSUME records[d][f].kind = "uuid"
          PROVE  \E p \in DOMAIN docs : p.col = r.target /\ RecordID(p) = records[d][f].doc
      <3>1. RecordFields(d)[f].kind # "id"
        BY <1>1, <2>1, WholeFacts, FieldsFacts, ValueFacts
      <3>2. \A k : Looked(RecordFields(d)[f], refs[k].target).kind # "uuid"
        <4> HIDE DEF f
        <4> TAKE k
        <4> QED BY <3>1, LookedFacts
      <3>3. Naming(d, f) = {}
        <4>1. ASSUME NEW k \in Naming(d, f) PROVE FALSE
          BY <1>1, <2>3, <3>2, <4>1, WholeFacts DEF RecordsInv
        <4> QED BY <4>1
      <3>4. records[d][f] = RecordFields(d)[f]
        BY <1>1, <3>3, WholeFacts DEF RecordsInv
      <3>5. IsSub(d) /\ f = d.parentCol
        BY <1>1, <2>1, <2>3, <3>4, WholeFacts, FieldsFacts, ValueFacts
      <3>6. records[d][f] = Uuid(newID[<<d.parentCol, d.parentID>>])
        BY <3>4, <3>5, WholeFacts, FieldsFacts DEF ParentKey
      <3>7. <<d.parentCol, d.parentID>> \in DOMAIN newID
        BY <3>5, WholeFacts DEF ExportInv, ParentKey
      <3>8. PICK p \in DOMAIN docs :
              p.col = d.parentCol /\ RecordID(p) = newID[<<d.parentCol, d.parentID>>]
        BY <3>7, WholeFacts, IdsFacts
      <3> QED BY <1>2, <3>5, <3>6, <3>8, ValueFacts
    <2> QED BY <2>2, <2>3
  <1>3. ASSUME NEW k \in 1..applied, r = refs[k], f = "field"
        PROVE  Resolved
    <2>1. k \in Naming(d, f)
      BY <1>3 DEF Naming
    <2>2. records[d][f].kind # "id"
      <3> HIDE DEF f
      <3> QED BY <1>1, <2>1, WholeFacts, IdsAreUnnamed
    <2>3. ASSUME records[d][f].kind = "uuid"
          PROVE  \E e \in DOMAIN docs : e.col = r.target /\ RecordID(e) = records[d][f].doc
      <3>1. records[d][f] = Looked(docs[d], r.target)
        <4>1. records[d][f] = Looked(RecordFields(d)[f], refs[k].target)
          BY <1>1, <2>1, <2>3, WholeFacts DEF RecordsInv
        <4> QED BY <1>3, <4>1, WholeFacts, FieldsFacts
      <3>2. Looked(docs[d], r.target).kind = "uuid"
        BY <2>3, <3>1
      <3>3. /\ <<r.target, docs[d].id>> \in DOMAIN newID
            /\ Looked(docs[d], r.target) = Uuid(newID[<<r.target, docs[d].id>>])
        BY <3>2, LookedFacts
      <3>4. PICK e \in DOMAIN docs :
              e.col = r.target /\ RecordID(e) = newID[<<r.target, docs[d].id>>]
        BY <3>3, WholeFacts, IdsFacts
      <3> QED BY <3>1, <3>3, <3>4, ValueFacts
    <2> QED BY <2>2, <2>3
  <1>4. \/ \E e \in DOMAIN docs : IsSub(e) /\ f = e.parentCol /\ r.target = f
        \/ f = "field" /\ \E k \in 1..applied : r = refs[k]
    BY WholeFacts DEF ReferencesInv
  <1> QED BY <1>2, <1>3, <1>4

(* The reference to its parent that a record is given is the parent's id.    *)
LEMMA ParentIsReferred ==
  ASSUME MigrateInv, archive = "whole", NEW d \in DOMAIN docs, IsSub(d),
         {k \in DOMAIN refs : refs[k].col = d.col /\ refs[k].field = d.parentCol} = {}
  PROVE  \E p \in DOMAIN docs : /\ Key(p) = ParentKey(d)
                                /\ records[d][d.parentCol] = Uuid(RecordID(p))
  <1>1. Naming(d, d.parentCol) = {}
    BY WholeFacts
  <1>2. /\ d.parentCol \in FieldNames
        /\ RecordFields(d)[d.parentCol] = Uuid(newID[ParentKey(d)])
    BY WholeFacts, FieldsFacts
  <1>3. records[d][d.parentCol] = Uuid(newID[ParentKey(d)])
    BY <1>1, <1>2, WholeFacts DEF RecordsInv
  <1>4. PICK p \in DOMAIN docs : Key(p) = ParentKey(d)
    BY WholeFacts DEF ExportInv
  <1> QED BY <1>3, <1>4 DEF RecordID

(* A field that --ref names once is the id of the document it named.         *)
LEMMA NamedIsReferred ==
  ASSUME MigrateInv, archive = "whole", NEW d \in DOMAIN docs, NEW e \in DOMAIN docs,
         NEW k \in DOMAIN refs, docs[d] = Id(e.id), e.col = refs[k].target,
         {m \in DOMAIN refs : refs[m].col = d.col /\ refs[m].field = "field"} = {k}
  PROVE  records[d]["field"] = Uuid(RecordID(e))
  <1>1. Naming(d, "field") = {k} /\ "field" \in FieldNames
    BY WholeFacts DEF FieldNames
  <1>2. records[d]["field"] = Looked(docs[d], refs[k].target)
    <2>1. records[d]["field"] = Looked(RecordFields(d)["field"], refs[k].target)
      BY <1>1, WholeFacts DEF RecordsInv
    <2> QED BY <2>1, WholeFacts, FieldsFacts
  <1>3. docs[d].kind = "id" /\ docs[d].id = e.id
    BY ValueFacts
  <1>4. Key(e) = <<refs[k].target, docs[d].id>> /\ Key(e) \in DOMAIN newID
    BY <1>3, WholeFacts DEF Key, ExportInv
  <1>5. Looked(docs[d], refs[k].target) = Uuid(newID[<<refs[k].target, docs[d].id>>])
    BY <1>3, <1>4, LookedFacts
  <1> QED BY <1>2, <1>4, <1>5 DEF RecordID

(* The archive can be imported and says what the export said (migrate.go:    *)
(* 280-308), for every export and every list of --ref.                       *)
THEOREM ArchivesImport == MigrateSpec => []ArchiveImports
  <1>1. MigrateInv => ArchiveImports
    <2> SUFFICES ASSUME MigrateInv, archive = "whole" PROVE ArchiveImports
      BY DEF ArchiveImports
    <2>1. \A r \in references, d \in DOMAIN docs :
            d.col = r.col =>
              /\ records[d][r.field].kind # "id"
              /\ records[d][r.field].kind = "uuid" =>
                   \E e \in DOMAIN docs :
                     e.col = r.target /\ RecordID(e) = records[d][r.field].doc
      BY DeclaredIsResolved
    <2>2. \A d \in DOMAIN docs :
            /\ IsSub(d)
            /\ {k \in DOMAIN refs : refs[k].col = d.col /\ refs[k].field = d.parentCol} = {}
            => \E p \in DOMAIN docs : /\ Key(p) = ParentKey(d)
                                      /\ records[d][d.parentCol] = Uuid(RecordID(p))
      BY ParentIsReferred
    <2>3. \A d \in DOMAIN docs, e \in DOMAIN docs, k \in DOMAIN refs :
            /\ {m \in DOMAIN refs : refs[m].col = d.col /\ refs[m].field = "field"} = {k}
            /\ docs[d] = Id(e.id) /\ e.col = refs[k].target
            => records[d]["field"] = Uuid(RecordID(e))
      BY NamedIsReferred
    <2> QED BY <2>1, <2>2, <2>3 DEF ArchiveImports
  <1> QED BY <1>1, MigrateInvariant, PTL
=============================================================================
