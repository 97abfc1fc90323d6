-------------------------------- MODULE Login --------------------------------
(***************************************************************************)
(* Signing in and out (src/cmd/login.go, logout.go, connect.go,            *)
(* src/internal/oauth, src/internal/config): a browser login listens on a  *)
(* loopback port, takes the first result a callback handler sends,         *)
(* exchanges its code, asks the server for a session and saves it; logout  *)
(* ends the session and removes the file; `build --save-flutter-sdk` loads *)
(* the file, changes a field and saves it.  Several shells of one user run *)
(* these at once, and the file is truncated and written in place.          *)
(*                                                                         *)
(* A session is the number under which the server issued it; the email in  *)
(* the file is that of the session.  Google and GitHub are one provider.   *)
(***************************************************************************)
EXTENDS Integers, Sequences, Remote

CONSTANTS Shells,        \* where commands run
          Requests,      \* what may reach a loopback listener
          MaxCommands,   \* bound on the commands started
          MaxCallbacks   \* bound on the requests to one listener

VARIABLES saved,      \* ~/.koolbase/config.json
          live,       \* server: the sessions not yet ended
          issued,     \* server: how many sessions it issued
          shell,      \* the command of each shell
          commands    \* how many were started

loginVars == <<saved, live, issued, shell, commands>>

Sessions == Nat               \* 0 is no session, 1 an earlier login's
EnvKey   == -1                \* the key in KOOLBASE_API_KEY
Keys     == Sessions \cup {EnvKey}
Config(state, key, sdk) == [state |-> state, key |-> key, sdk |-> sdk]
Absent == Config("absent", 0, FALSE)
TornConfig == Config("torn", 0, FALSE)
Configs == [state: {"absent", "torn", "whole"}, key: Keys, sdk: BOOLEAN]

\* A request to the listener: an error parameter, the state that was sent to
\* the provider, a code.  Anything on the machine may make one.
Callbacks == [error: BOOLEAN, state: BOOLEAN, code: BOOLEAN]
NoCallback == [error |-> TRUE, state |-> FALSE, code |-> FALSE]
ASSUME LoginAssumption ==
  Requests \subseteq Callbacks /\ MaxCommands \in Nat /\ MaxCallbacks \in Nat

CommandNames == {"browser", "password", "connect", "logout", "save"}
Over == {"idle", "ok", "failed"}
LoginSteps == {"load", "listen", "wait", "shutdown", "exchange", "signin", "attach",
               "revoke", "clear", "open", "write"}
\* handling: how many handlers run for each kind of request; results: what
\* they sent or wait to send, in order, of which the channel holds the first;
\* first: the request whose handler was the first to send; code: Wait returned a
\* code.  cfg: the configuration loaded, or to be saved; unread: the file could
\* not be read.  before: the file when the command started; alone: no other
\* command ran during it.
NoHandlers == [q \in Requests |-> 0]
NoShell == [pc |-> "idle", cmd |-> "logout", env |-> FALSE, asked |-> 0,
            handling |-> NoHandlers, results |-> <<>>, first |-> NoCallback,
            code |-> FALSE, cfg |-> Absent, unread |-> FALSE,
            before |-> Absent, alone |-> TRUE]

ShellStates ==
  [pc: Over \cup LoginSteps, cmd: CommandNames, env: BOOLEAN,
   asked: 0..MaxCallbacks, handling: [Requests -> Nat],
   results: Seq(Callbacks), first: Callbacks, code: BOOLEAN, cfg: Configs,
   unread: BOOLEAN, before: Configs, alone: BOOLEAN]

LoginTypeOK ==
  /\ saved \in Configs /\ live \subseteq Keys
  /\ issued \in Sessions /\ commands \in 0..MaxCommands
  /\ shell \in [Shells -> ShellStates]

LoginInit ==
  /\ saved \in {Absent, TornConfig, Config("whole", 1, FALSE)}
  /\ live = {1, EnvKey} /\ issued = 1 /\ commands = 0
  /\ shell = [p \in Shells |-> NoShell]

-----------------------------------------------------------------------------
In(p, pc) == shell[p].pc = pc
\* A command that is over leaves nothing behind in its shell.
Goes(p, pc) ==
  shell' = [shell EXCEPT ![p] = IF pc \in Over THEN [NoShell EXCEPT !.pc = pc]
                                ELSE [@ EXCEPT !.pc = pc]]
Running == {p \in Shells : shell[p].pc \notin Over}

\* config.Load with the environment on top: a missing file is an empty
\* configuration, a torn one an error, and so is one without a key.
Loaded(p) == [saved EXCEPT !.key = IF shell[p].env THEN EnvKey ELSE @]
Loads(p)  == saved.state # "torn" /\ Loaded(p).key # 0

\* The environment matters only to a command that loads the configuration.
StartCommand(p, cmd, env) ==
  /\ shell[p].pc \in Over /\ commands < MaxCommands
  /\ cmd \in {"browser", "password"} => env = FALSE
  /\ commands' = commands + 1
  /\ shell' = [q \in Shells |->
       IF q = p
       THEN [NoShell EXCEPT !.cmd = cmd, !.env = env, !.before = saved,
                            !.alone = Running = {},
                            !.pc = CASE cmd = "browser"  -> "listen"
                                     [] cmd = "password" -> "signin"
                                     [] OTHER            -> "load"]
       ELSE [shell[q] EXCEPT !.alone = @ /\ q \notin Running]]
  /\ UNCHANGED <<saved, live, issued>>

-----------------------------------------------------------------------------
\* The loopback listener

\* A bug: the state is not compared.
AcceptsAnyState(q) == ~q.error /\ q.code
\* handleCallback turns everything else into an error result.
Accepts(q) == ~q.error /\ q.state /\ q.code

\* The verifier and the state are drawn, a port is bound and the browser is
\* opened, which may fail and is then left to the user.
Listen(p) ==
  /\ In(p, "listen")
  /\ Goes(p, "wait") \/ Goes(p, "failed")
  /\ UNCHANGED <<saved, live, issued, commands>>

\* A request comes, and a handler of its own runs for it.
Callback(p, q) ==
  /\ shell[p].pc \in {"wait", "shutdown"} /\ shell[p].asked < MaxCallbacks
  /\ shell' = [shell EXCEPT ![p].asked = @ + 1, ![p].handling[q] = @ + 1]
  /\ UNCHANGED <<saved, live, issued, commands>>

\* A handler has answered the browser and sends its result, which handlers may
\* do in another order than that of their requests; the channel holds one, so a
\* later one waits behind it.
Send(p, q) ==
  /\ shell[p].pc \in {"wait", "shutdown"} /\ shell[p].handling[q] > 0
  /\ shell' = [shell EXCEPT ![p].handling[q] = @ - 1,
       ![p].results = Append(@, q),
       ![p].first = IF In(p, "wait") /\ shell[p].results = <<>> THEN q ELSE @]
  /\ UNCHANGED <<saved, live, issued, commands>>

\* The first result, three minutes without one, or Ctrl-C.
Wait(p) ==
  /\ In(p, "wait")
  /\ \/ /\ shell[p].results # <<>>
        /\ shell' = [shell EXCEPT ![p].pc = "shutdown",
             ![p].code = Accepts(Head(shell[p].results)),
             ![p].results = Tail(@)]
     \/ Goes(p, "shutdown")
  /\ UNCHANGED <<saved, live, issued, commands>>

\* A bug: the shutdown waits for a handler that cannot send, without a limit.
ShutdownWaits(p) ==
  /\ In(p, "shutdown") /\ Len(shell[p].results) <= 1
  /\ Goes(p, IF shell[p].code THEN "exchange" ELSE "failed")
  /\ UNCHANGED <<saved, live, issued, commands>>

\* Shutdown waits at most two seconds for the handlers, which may run on or hold
\* a result nobody reads.
Shutdown(p) ==
  /\ In(p, "shutdown")
  /\ IF shell[p].code
     THEN shell' = [shell EXCEPT ![p].pc = "exchange", ![p].results = <<>>,
                                 ![p].handling = NoHandlers, ![p].asked = 0]
     ELSE Goes(p, "failed")
  /\ UNCHANGED <<saved, live, issued, commands>>

\* The provider gives an identity for the code within 30 seconds, or not.
ExchangeCode(p) ==
  /\ In(p, "exchange")
  /\ \/ Goes(p, "failed")
     \/ Goes(p, IF shell[p].cmd = "connect" THEN "attach" ELSE "signin")
  /\ UNCHANGED <<saved, live, issued, commands>>

-----------------------------------------------------------------------------
\* The server

\* Login, LoginWithGoogle, LoginWithGitHub: a new session, and a fresh
\* configuration with nothing but it.  A lost answer leaves a session that
\* nobody knows.
SignIn(p, o) ==
  /\ In(p, "signin")
  /\ issued' = IF CarriedOut(o) THEN issued + 1 ELSE issued
  /\ live' = IF CarriedOut(o) THEN live \cup {issued'} ELSE live
  /\ IF Reported(o)
     THEN shell' = [shell EXCEPT ![p].pc = "open",
                                 ![p].cfg = Config("whole", issued', FALSE)]
     ELSE Goes(p, "failed")
  /\ UNCHANGED <<saved, commands>>

\* ConnectIdentity, for the account of the session loaded before the browser
\* was opened; one that was ended meanwhile is refused.
Attach(p, o) ==
  /\ In(p, "attach")
  /\ shell[p].cfg.key \notin live => o = "refused"
  /\ Goes(p, IF Reported(o) THEN "ok" ELSE "failed")
  /\ UNCHANGED <<saved, live, issued, commands>>

\* Best effort: whatever the answer, the local file goes next.
Revoke(p, o) ==
  /\ In(p, "revoke")
  /\ live' = IF CarriedOut(o) /\ shell[p].cfg.key # EnvKey
             THEN live \ {shell[p].cfg.key} ELSE live
  /\ Goes(p, "clear")
  /\ UNCHANGED <<saved, issued, commands>>

-----------------------------------------------------------------------------
\* The configuration file

\* Without a configuration a logout says that nobody is signed in and ends well,
\* a build skips the saving, and connect asks for a login.
NotLoaded(p) == IF shell[p].cmd = "connect" THEN "failed" ELSE "ok"

\* There may be nothing to load; or, whatever there is, the home directory is
\* not known or the file cannot be read.
Load(p) ==
  /\ In(p, "load")
  /\ \/ ~Loads(p) /\ Goes(p, NotLoaded(p))
     \/ shell' = [shell EXCEPT
          ![p] = [NoShell EXCEPT !.pc = NotLoaded(p), !.unread = TRUE]]
     \/ /\ Loads(p)
        /\ shell' = [shell EXCEPT
             ![p].pc = CASE shell[p].cmd = "logout" -> "revoke"
                         [] shell[p].cmd = "connect" -> "listen"
                         [] shell[p].cmd = "save" -> "open",
             ![p].cfg = IF shell[p].cmd = "save"
                        THEN Config("whole", Loaded(p).key, TRUE) ELSE Loaded(p)]
  /\ UNCHANGED <<saved, live, issued, commands>>

\* Failing to save is an error of a login, and a warning of a build.
SaveFails(p) == Goes(p, IF shell[p].cmd = "save" THEN "ok" ELSE "failed")

\* os.WriteFile truncates the file, then writes it; over the bytes of another
\* command that wrote in between, a shorter text leaves the tail of theirs.
OpenConfig(p) ==
  /\ In(p, "open")
  /\ \/ SaveFails(p) /\ UNCHANGED saved
     \/ Goes(p, "write") /\ saved' = TornConfig
  /\ UNCHANGED <<live, issued, commands>>

\* A bug: a login does not look whether the session was saved.
WriteUnchecked(p) ==
  /\ In(p, "write")
  /\ Goes(p, "ok")
  /\ \/ saved' = shell[p].cfg
     \/ saved' = TornConfig
  /\ UNCHANGED <<live, issued, commands>>

WriteConfig(p) ==
  /\ In(p, "write")
  /\ \/ Goes(p, "ok") /\ saved' = shell[p].cfg
     \/ Goes(p, "ok") /\ saved.state = "whole" /\ saved' = TornConfig
     \/ SaveFails(p) /\ saved' = TornConfig
  /\ UNCHANGED <<live, issued, commands>>

\* A file that is not there, as when only the environment signs in, is an error.
ClearConfig(p) ==
  /\ In(p, "clear")
  /\ \/ Goes(p, "failed") /\ UNCHANGED saved
     \/ (saved.state # "absent" /\ saved' = Absent /\ Goes(p, "ok"))
  /\ UNCHANGED <<live, issued, commands>>

\* Ctrl-C, or a machine that goes down.
KillShell(p) ==
  /\ p \in Running
  /\ Goes(p, "failed")
  /\ UNCHANGED <<saved, live, issued, commands>>

ShellStep(p) ==
  \/ Listen(p) \/ Wait(p) \/ Shutdown(p) \/ ExchangeCode(p) \/ Load(p) \/ OpenConfig(p)
  \/ WriteConfig(p) \/ ClearConfig(p)
  \/ \E o \in Outcomes : SignIn(p, o) \/ Attach(p, o) \/ Revoke(p, o)

LoginNext ==
  \E p \in Shells :
    \/ \E cmd \in CommandNames, env \in BOOLEAN : StartCommand(p, cmd, env)
    \/ \E q \in Requests : Callback(p, q) \/ Send(p, q)
    \/ ShellStep(p) \/ KillShell(p)

LoginFairness == \A p \in Shells : WF_loginVars(ShellStep(p))
LoginSpec == LoginInit /\ [][LoginNext]_loginVars /\ LoginFairness

-----------------------------------------------------------------------------
\* The CLI "rejects any callback whose state doesn't match" (pkce.go:40), and
\* one result is read (callback.go:71, 114): a command goes past the browser
\* only when the handler that was the first to send had the code and the state,
\* however many requests came, before Wait returned or while it shut down.  It
\* need not have been the first request: a stray one may overtake the
\* provider's answer, and the login then fails.
FirstResultDecides ==
  \A p \in Shells :
    /\ shell[p].cmd \in {"browser", "connect"}
    /\ shell[p].pc \in {"exchange", "signin", "attach", "open", "write"}
    => shell[p].first.state /\ shell[p].first.code /\ ~shell[p].first.error

\* Why: the channel is read once, and what it then holds is the first result;
\* whoever goes on with a code has read it there.
ListensFor(s) ==
  /\ s.pc = "load" => s.cmd \in {"connect", "logout", "save"}
  /\ s.pc \in Over \cup {"load", "listen"} => s.results = <<>> /\ ~s.code
  /\ s.pc = "wait" =>
       /\ ~s.code
       /\ s.results # <<>> => Head(s.results) = s.first
  /\ s.code => Accepts(s.first)
  /\ s.cmd \in {"browser", "connect"}
     /\ s.pc \in {"exchange", "signin", "attach", "open", "write"} => s.code
ListenInv == \A p \in Shells : ListensFor(shell[p])
LoginInv == LoginTypeOK /\ ListenInv

SignsIn == {"browser", "password"}

\* What a command that ends well leaves, whatever was in the file, torn by a
\* kill before or not.  A login: a live session, which nobody ended meanwhile,
\* and that session in the file, or, beside other commands that write it, a torn
\* file.  A logout: no session in the file, unless it could not read the file,
\* and then says that nobody is signed in (logout.go:17-22).  A build, when no
\* other command ran: the session that was there or, when saving fails, none.
ConfigHolds ==
  [][\A p \in Running :
       LET s == shell[p] IN
       shell'[p].pc = "ok" =>
         /\ s.cmd \in SignsIn =>
              /\ s.cfg.key \in live'
              /\ saved' = s.cfg \/ (~s.alone /\ saved' = TornConfig)
         /\ s.cmd = "logout" => shell'[p].unread \/ saved'.state # "whole"
         /\ s.cmd = "save" /\ s.alone /\ s.before.state = "whole" /\ ~s.env
            => saved'.state = "torn" \/ saved'.key = s.before.key
    ]_loginVars

\* Why: each step belongs to a command; and a command that runs alone finds
\* the file as it was until it opens it, and truncated until it has written it.
FileFor(s) ==
  /\ s.pc \in {"listen", "wait", "shutdown", "exchange"} =>
       s.cmd \in {"browser", "connect"}
  /\ s.pc = "signin" => s.cmd \in SignsIn
  /\ s.pc = "attach" => s.cmd = "connect"
  /\ s.pc \in {"revoke", "clear"} => s.cmd = "logout"
  /\ s.pc \in {"open", "write"} =>
       /\ s.cmd \in {"browser", "password", "save"}
       /\ s.cfg.state = "whole" /\ s.cfg.key # 0
  /\ s.alone /\ s.pc \notin Over =>
       /\ saved = IF s.pc = "write" THEN TornConfig ELSE s.before
       /\ /\ s.pc \in {"open", "write"} /\ s.cmd = "save"
          /\ s.before.state = "whole" /\ ~s.env
          => s.cfg.key = s.before.key
ConfigInv ==
  /\ LoginInv
  /\ saved.state = "whole" => saved.key # 0
  /\ \A p \in Running : shell[p].alone => Running = {p}
  /\ \A p \in Shells : FileFor(shell[p])

\* And until a login has saved its session, no other command knows it.
HasNew(p) == shell[p].cmd \in SignsIn /\ shell[p].pc \in {"open", "write"}
SessionInv ==
  /\ saved.key <= issued /\ \A p \in Shells : shell[p].cfg.key <= issued
  /\ \A p \in Shells : HasNew(p) =>
       /\ shell[p].cfg.key \in live /\ shell[p].cfg.key > 0
       /\ saved.key # shell[p].cfg.key
       /\ \A q \in Shells \ {p} : shell[q].cfg.key # shell[p].cfg.key
SessionsInv == ConfigInv /\ SessionInv
=============================================================================
