--------------------------- MODULE MCRuntimeRuns ----------------------------
(***************************************************************************)
(* A run of the runtime and what stands at its ends, for TLC: the stream,  *)
(* the HTTP call of a model, the sandbox of a plugin, the sequential forms,*)
(* the screens around them and the program.  They share no variable, so    *)
(* one run explores each while the others stand still; `part` says which   *)
(* one moves.                                                              *)
(***************************************************************************)
EXTENDS RuntimeRun, HttpModelCall, PluginSandbox, LineForm, TerminalShell, CommandLine, TLC

VARIABLE part
screenVars == <<lineVars, shellVars, cliVars>>
runsVars == <<part, runVars, httpVars, sandboxVars, screenVars>>

NoApp == [background |-> FALSE, webhook |-> FALSE, interactive |-> FALSE, history |-> FALSE]
NoDaemonYet == [up |-> FALSE, service |-> FALSE, enabled |-> FALSE]
RunsInit ==
  /\ part \in {"run", "http", "plugin", "line", "shell", "cli"}
  /\ IF part = "run" THEN TRUE ELSE mode = "text" /\ node = "plain"
  /\ IF part = "http" THEN TRUE ELSE format = "sse" /\ body = <<>> /\ status = "ok"
  /\ IF part = "line" THEN TRUE ELSE interactive = FALSE
  /\ IF part = "shell" THEN TRUE ELSE app = NoApp /\ place = "start" /\ daemon = NoDaemonYet
  /\ IF part = "cli" THEN TRUE ELSE argv = <<>> /\ tty = FALSE
  /\ RunInit /\ HttpInit /\ SandboxInit /\ LineInit /\ ShellInit /\ CliInit

\* A step of one part.
InRun(A) == part = "run" /\ A /\ UNCHANGED <<part, httpVars, sandboxVars, screenVars>>
InHttp(A) == part = "http" /\ A /\ UNCHANGED <<part, runVars, sandboxVars, screenVars>>
InPlugin(A) == part = "plugin" /\ A /\ UNCHANGED <<part, runVars, httpVars, screenVars>>
InLine(A) == part = "line" /\ A /\ UNCHANGED <<part, runVars, httpVars, sandboxVars, shellVars, cliVars>>
InShell(A) == part = "shell" /\ A /\ UNCHANGED <<part, runVars, httpVars, sandboxVars, lineVars, cliVars>>
InCli(A) == part = "cli" /\ A /\ UNCHANGED <<part, runVars, httpVars, sandboxVars, lineVars, shellVars>>

RunsNext ==
  \/ InRun(RunNext) \/ InHttp(HttpNext) \/ InPlugin(SandboxNext)
  \/ InLine(LineNext) \/ InShell(ShellNext) \/ InCli(CliNext)

\* The fairness of the part that moves, as its module states it.  A call and a worker of the
\* sandbox take each of their steps once, so that it needs no WF for each of them.
RunsFairness ==
  /\ WF_runVars(part = "run" /\ Goes) /\ WF_runVars(part = "run" /\ Pull)
  /\ WF_httpVars(part = "http" /\ Timeout) /\ WF_httpVars(part = "http" /\ Rejected)
  /\ WF_sandboxVars(part = "plugin" /\ Verify) /\ WF_sandboxVars(part = "plugin" /\ Continuation)
  /\ WF_sandboxVars(part = "plugin" /\ \E w \in Workers : WorkerStep(w))
  /\ WF_sandboxVars(part = "plugin" /\ \E i \in Invocations : CallTimeout(i))
  /\ WF_lineVars(part = "line" /\ AskNext)
  /\ WF_shellVars(part = "shell" /\ ShellStep) /\ WF_shellVars(part = "shell" /\ AbortHeard)
  /\ WF_cliVars(part = "cli" /\ CliStep)

RunsSpec == RunsInit /\ [][RunsNext]_runsVars /\ RunsFairness

\* Whoever waits gets an answer: the consumer of a run that is given up or has ended, unless
\* the log of a plugin ended the process (RunsEnd),
\* the caller of a model's server (CallEnds), a form whose lines have ended (FormEnds) and
\* the caller of a plugin, however it hangs (CallsSettle).  Who wants to leave leaves: an
\* aborted screen (AbortLeaves) and an interrupted command (InterruptEnds).
WaitsEnd ==
  (\/ part = "run" /\ (aborted # "no" \/ (pc = "ended" /\ queue.seen = "items"))
   \/ part = "http" /\ stage \in Sent
   \/ part = "line" /\ field # 0 /\ (readline = "closed" \/ stopped \/ gone)
   \/ part = "plugin" /\ \E i \in Invocations : st[i] # "idle"
   \/ part = "shell" /\ shellAborted
   \/ part = "cli" /\ interrupted)
  ~> (\/ part = "run" /\ (pc = "dead" \/ (pc = "ended" /\ queue.seen # "items"))
      \/ part = "http" /\ stage = "over"
      \/ part = "line" /\ field = 0
      \/ part = "plugin" /\ \A i \in Invocations : st[i] \in {"idle", "settled"}
      \/ part = "shell" /\ place \in {"over", "exit-key"}
      \/ part = "cli" /\ cliStage \in {"over", "exit-key"})

\* Every two words, and a package with two words after it.
CommandsOf == UNION {[1 .. n -> Words] : n \in 0 .. 2} \union {<<"app.ai">> \o c : c \in [1 .. 2 -> Words]}

Attempts == [n \in Nodes |-> IF n = "plain" THEN 2 ELSE 1]

\* Every body of at most three bytes, and longer ones with frames that are split, follow
\* the end, are not JSON, are too large or end in the middle.
Short == UNION {[1 .. n -> {"d", "a", "n", "u"}] : n \in 0 .. 3}
Longer == { <<"d", "a", "r", "n", "d", "u", "v", "r", "n", "r", "n">>,
  <<"d", "a", "n", "n", "c", "a", "n", "d", ".", "n", "n", "d", "a">>,
  <<"d", "z", "p", "n", "n", "d", "q", "z">>,
  <<"d", "q", "n", "n", "d", "p", "z", "n", "n", "d", "q">>,
  <<"d", "z", "n", "n", "d", "a">>,
  <<"d", "a", "n", "n", "d", "!", "n", "n", "d", "a", "n", "n">>,
  <<"d", "u", "v", "n", "d", "p", "n", "n", "d", ".">>,
  <<"a", "u", "v", "q", "z", "p">>,
  <<"d", "a", "a", "a", "a", "a", "n", "n">>,
  <<"d", "a", "n", "n", "d", "a", "n", "n", "d", "a", "n", "n", "d", "a", "n">> }
AllBodies == Short \union Longer

LineFieldsOf == <<"text", "checkbox", "button">>
=============================================================================
