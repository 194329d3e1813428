------------------------------ MODULE CLIConfig -----------------------------
(***************************************************************************)
(* The configuration file of the command line client (cmd/cli/main.go).    *)
(* A command reads all of it when it starts, and login, logout and the     *)
(* refresh of a token write all of it later, in place.  Commands run side  *)
(* by side.                                                                *)
(***************************************************************************)
EXTENDS UpkeepParameters

VARIABLES
    file,         \* [secret, token]: client_secret is set, the time of the token
    run,          \* commands in progress
    loggedOut,    \* history: the last login or logout to write was a logout
    raced,        \* history: a command had read the secret before that
    now

vars == <<file, run, loggedOut, raced, now>>

None == -1                        \* no token, or one whose time is unknown
Empty == [secret |-> FALSE, token |-> None]
Idle == [pc |-> "idle"]
Command == {"use", "login", "logout"}
Time == 0 .. MaxUpkeepTime

TypeOK ==
    /\ file.secret \in BOOLEAN /\ file.token \in Time \cup {None}
    /\ \A p \in Proc : run[p].pc \in {"idle", "start", "request", "save", "write", "send"}

Init ==
    /\ file = Empty
    /\ run = [p \in Proc |-> Idle]
    /\ loggedOut = FALSE /\ raced = FALSE /\ now = 0

-----------------------------------------------------------------------------
To(p, r) == run' = [run EXCEPT ![p] = r]

\* main: loadConfig, then the command; a file that is being written is empty.
\* OAUTH4OS_TOKEN hides the token of the file, and keeps its time.
Start(p, cmd) ==
    /\ run[p] = Idle
    /\ To(p, [pc |-> "start", cmd |-> cmd, cfg |-> file])
    /\ UNCHANGED <<file, loggedOut, raced, now>>

\* tokenValid
Valid(cfg) == cfg.token # None /\ now < cfg.token + TokenLife - Margin

\* cmdLogout clears; cmdLogin, and ensureToken without a valid token, ask for
\* one, if there is a secret.
Cleared(cfg) == Empty

Act(p) ==
    /\ run[p].pc = "start"
    /\ LET r == run[p]
       IN To(p, CASE r.cmd = "logout" -> [pc |-> "save", cmd |-> "logout", cfg |-> Cleared(r.cfg)]
                  [] r.cmd = "login" -> [r EXCEPT !.pc = "request"]
                  [] r.cmd = "use" /\ ~Valid(r.cfg) /\ r.cfg.secret -> [r EXCEPT !.pc = "request"]
                  [] OTHER -> [r EXCEPT !.pc = "send"])
    /\ UNCHANGED <<file, loggedOut, raced, now>>

\* requestToken
Answer(p) ==
    /\ run[p].pc = "request"
    /\ To(p, [pc |-> "save", cmd |-> run[p].cmd, cfg |-> [secret |-> TRUE, token |-> now]])
    /\ UNCHANGED <<file, loggedOut, raced, now>>

\* A refresh that fails goes on with the old token; a login ends.
NoAnswer(p) ==
    /\ run[p].pc = "request"
    /\ To(p, IF run[p].cmd = "use" THEN [run[p] EXCEPT !.pc = "send"] ELSE Idle)
    /\ UNCHANGED <<file, loggedOut, raced, now>>

\* save: WriteFile truncates the file, ...
Truncate(p) ==
    /\ run[p].pc = "save"
    /\ file' = Empty
    /\ To(p, [run[p] EXCEPT !.pc = "write"])
    /\ UNCHANGED <<loggedOut, raced, now>>

\* ... and writes it.
Write(p) ==
    /\ run[p].pc = "write"
    /\ file' = run[p].cfg
    /\ To(p, IF run[p].cmd = "use" THEN [run[p] EXCEPT !.pc = "send"] ELSE Idle)
    /\ IF run[p].cmd = "use" THEN UNCHANGED <<loggedOut, raced>>
       ELSE /\ loggedOut' = (run[p].cmd = "logout")
            /\ raced' = \E q \in Proc \ {p} : run[q].pc \notin {"idle", "send"}
    /\ UNCHANGED now

Send(p) ==
    /\ run[p].pc = "send"
    /\ To(p, Idle)
    /\ UNCHANGED <<file, loggedOut, raced, now>>

\* A command is interrupted: what it had truncated stays empty.
Kill(p) ==
    /\ run[p] # Idle
    /\ To(p, Idle)
    /\ UNCHANGED <<file, loggedOut, raced, now>>

Tick ==
    /\ now < MaxUpkeepTime
    /\ now' = now + 1
    /\ UNCHANGED <<file, run, loggedOut, raced>>

Next ==
    \/ \E p \in Proc :
          \/ \E cmd \in Command : Start(p, cmd)
          \/ Act(p) \/ Answer(p) \/ NoAnswer(p) \/ Truncate(p) \/ Write(p) \/ Send(p) \/ Kill(p)
    \/ Tick

-----------------------------------------------------------------------------
(* Properties *)

\* "Clear cached credentials": after a logout the file holds neither secret
\* nor token until the next login, unless another command had read the file
\* before: its refresh writes back all it read.
LogoutHolds == loggedOut /\ ~raced => file = Empty
=============================================================================
