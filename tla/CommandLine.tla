---------------------------- MODULE CommandLine ----------------------------
(***************************************************************************)
(* The program agcomm: it reads its arguments, chooses between the daemon, *)
(* the full-screen terminal, the sequential forms, a stream and a plain    *)
(* run, and answers with one JSON document, with text, or on the screen,   *)
(* and with an exit code.  SIGINT and SIGTERM abort what it does.          *)
(***************************************************************************)
EXTENDS Integers, Sequences, FiniteSets, Functions

CONSTANT Commands   \* the argument lists

BooleanOptions == {"--headless", "--batch", "--json", "--stream", "--allow-unsigned-plugins"}
ValueOptions == {"--input", "--vars"}
Targets == {"open", "app.ai", "app", "gateway", "run", "{}"}    \* "{}" is a JSON object, "app" no .ai file
Words == BooleanOptions \union ValueOptions \union Targets \union {"--help", "--version", "--bogus"}

ASSUME CommandAssumption == Commands \subseteq Seq(Words)

VARIABLES argv, tty,      \* the arguments; stdin and stderr are a terminal that is not "dumb"
          cliStage,       \* what the program awaits
          chosen,         \* [open, file, flags]: the arguments, once they are parsed
          renderer,       \* "none", "line" or "terminal"
          managed,        \* rendererManaged: runs end the renderer, the program does not
          emitJson, emitStream,
          documents,      \* the JSON documents on stdout: "ok" or "failed"
          told,           \* where the user was told of a failure
          error,          \* what was caught, or "none"
          exitCode,
          held,           \* what is still to be disposed: "runtime", "gateway", "app"
          interrupted     \* cliInterrupted: the signal of the program is aborted

cliVars == <<argv, tty, cliStage, chosen, renderer, managed, emitJson, emitStream, documents, told,
             error, exitCode, held, interrupted>>

Nothing == [open |-> FALSE, file |-> FALSE, flags |-> {}]
CliFailures == {"usage", "runtime", "plugin", "package", "missing", "flow", "cancelled", "timeout", "other"}
CliStages == {"start", "launcher", "setup", "load", "consent", "conversation", "run",
              "daemon-setup", "daemon-start", "daemon-wait", "daemon",
              "exit-key", "caught", "answer", "finally", "over"}

CliTypeOK ==
  /\ argv \in Seq(Words) /\ tty \in BOOLEAN /\ cliStage \in CliStages
  /\ chosen \in [open : BOOLEAN, file : BOOLEAN, flags : SUBSET BooleanOptions]
  /\ renderer \in {"none", "line", "terminal"} /\ {managed, emitJson, emitStream, interrupted} \subseteq BOOLEAN
  /\ documents \in Seq({"ok", "failed"}) /\ told \subseteq {"stdout", "stderr", "screen"}
  /\ error \in CliFailures \union {"none", "help"} /\ exitCode \in {0, 2, 3, 4, 13, 130}
  /\ held \subseteq {"runtime", "gateway", "app"}

CliInit ==
  /\ argv \in Commands /\ tty \in BOOLEAN /\ cliStage = "start" /\ chosen = Nothing
  /\ renderer = "none" /\ managed = FALSE /\ emitJson = TRUE /\ emitStream = FALSE
  /\ documents = <<>> /\ told = {} /\ error = "none" /\ exitCode = 0 /\ held = {} /\ interrupted = FALSE

----------------------------------------------------------------------------
(* The arguments.                                                          *)

\* One argument after the other; `wants` is the option whose value comes next.
TakeWord(p, w) ==
  IF p.bad THEN p
  ELSE IF p.wants # "none" THEN [p EXCEPT !.wants = "none", !.bad = (p.wants = "--vars" /\ w # "{}")]
  ELSE CASE w \in BooleanOptions -> [p EXCEPT !.flags = @ \union {w}]
         [] w \in ValueOptions -> [p EXCEPT !.wants = w]
         [] w \in Targets /\ ~p.open /\ p.file = "none" ->
              IF w = "open" THEN [p EXCEPT !.open = TRUE] ELSE [p EXCEPT !.file = w]
         [] OTHER -> [p EXCEPT !.bad = TRUE]
Parsed(words) ==
  LET upTo[i \in 0 .. Len(words)] ==
        IF i = 0 THEN [open |-> FALSE, file |-> "none", flags |-> {}, wants |-> "none", bad |-> FALSE]
        ELSE TakeWord(upTo[i - 1], words[i])
  IN upTo[Len(words)]

\* validateCliArguments.
Valid(p) ==
  /\ ~p.bad /\ p.wants = "none" /\ (p.open \/ p.file = "app.ai")
  /\ ~({"--headless", "--batch"} \subseteq p.flags)
  /\ "--stream" \in p.flags => "--json" \notin p.flags /\ ~p.open

Throws(kind) == cliStage' = "caught" /\ error' = kind
Flag(name) == name \in chosen.flags
FullScreenFor(flags) == tty /\ flags \intersect {"--stream", "--headless", "--batch"} = {}
FullScreen == FullScreenFor(chosen.flags)

\* The argument --stream counts before the arguments are parsed, also as a value.
Parse ==
  LET p == Parsed(argv)  streaming == "--stream" \in Range(argv) IN
  /\ emitStream' = streaming /\ emitJson' = ~streaming
  /\ IF "--help" \in Range(argv) THEN Throws("help") /\ UNCHANGED chosen
     ELSE IF ~Valid(p) THEN Throws("usage") /\ UNCHANGED chosen
     ELSE /\ chosen' = [open |-> p.open, file |-> p.file # "none", flags |-> p.flags]
          /\ IF p.open /\ ~FullScreenFor(p.flags) THEN Throws("usage")
             ELSE cliStage' = (IF p.open THEN "launcher" ELSE "setup") /\ UNCHANGED error

IsDaemon == argv # <<>> /\ argv[1] = "gateway"
Begin ==
  /\ cliStage = "start"
  /\ \/ argv = <<"--version">> /\ cliStage' = "finally" /\ UNCHANGED <<chosen, emitJson, emitStream, error>>
     \/ IsDaemon /\ argv # <<"gateway", "run">> /\ Throws("usage") /\ UNCHANGED <<chosen, emitJson, emitStream>>
     \/ /\ IsDaemon /\ argv = <<"gateway", "run">> /\ cliStage' = "daemon-setup" /\ emitJson' = FALSE
        /\ UNCHANGED <<chosen, emitStream, error>>
     \/ argv # <<"--version">> /\ ~IsDaemon /\ Parse
  /\ UNCHANGED <<argv, tty, renderer, managed, documents, told, exitCode, held, interrupted>>

----------------------------------------------------------------------------
(* The daemon: what it is built from may be missing; it waits for the end. *)

Outputs == <<chosen, renderer, managed, emitJson, emitStream, documents, told, exitCode>>
CliWorld == <<argv, tty, interrupted>>

DaemonSetup ==
  /\ cliStage = "daemon-setup"
  /\ \/ Throws("usage") /\ UNCHANGED held
     \/ Throws("runtime") /\ UNCHANGED held
     \/ cliStage' = "daemon-start" /\ held' = held \union {"gateway"} /\ UNCHANGED error
  /\ UNCHANGED <<CliWorld, Outputs>>

DaemonStart ==
  /\ cliStage = "daemon-start" /\ (Throws("other") \/ (cliStage' = "daemon-wait" /\ UNCHANGED error))
  /\ UNCHANGED <<CliWorld, Outputs, held>>

\* A listener that is added after the abort is never called, so the promise looks first.
WaitsFor == IF interrupted THEN "finally" ELSE "daemon"
DaemonWait ==
  /\ cliStage = "daemon-wait" /\ cliStage' = WaitsFor /\ UNCHANGED <<CliWorld, Outputs, held, error>>

\* The first signal; the abort event settles what listens to it.
Interrupt ==
  /\ ~interrupted /\ cliStage # "over" /\ interrupted' = TRUE
  /\ cliStage' = IF cliStage = "daemon" THEN "finally" ELSE cliStage
  /\ UNCHANGED <<argv, tty, Outputs, held, error>>

----------------------------------------------------------------------------
(* A package.  Where the user answers on the screen, an interrupt rejects  *)
(* the key that is waited for, or the next one.                            *)

Launcher ==
  /\ cliStage = "launcher"
  /\ \/ cliStage' = "setup" /\ chosen' = [chosen EXCEPT !.file = TRUE] /\ UNCHANGED <<error, emitJson>>
     \/ cliStage' = "finally" /\ emitJson' = FALSE /\ UNCHANGED <<error, chosen>>
     \/ \E k \in {"cancelled", "runtime", "other"} : Throws(k) /\ UNCHANGED <<emitJson, chosen>>
  /\ UNCHANGED <<CliWorld, renderer, managed, emitStream, documents, told, exitCode, held>>

SlipForStream == ~FullScreen \/ Flag("--json")
JsonDue == ~Flag("--stream") /\ (~FullScreen \/ Flag("--json"))
RendererFor ==
  IF Flag("--stream") \/ Flag("--headless") THEN "line" ELSE IF FullScreen THEN "terminal" ELSE "none"

\* The renderer is made first; a connection, a profile, a credential or a variable of
\* the environment that is not usable throws before the runtime exists.
Setup ==
  /\ cliStage = "setup" /\ emitJson' = JsonDue /\ renderer' = RendererFor
  /\ \/ Throws("usage") /\ UNCHANGED <<managed, held>>
     \/ Throws("runtime") /\ UNCHANGED <<managed, held>>
     \/ cliStage' = "load" /\ managed' = TRUE /\ held' = held \union {"runtime"} /\ UNCHANGED error
  /\ UNCHANGED <<CliWorld, chosen, emitStream, documents, told, exitCode>>

Shown == FullScreen /\ ~Flag("--json")
Load ==
  /\ cliStage = "load"
  /\ \/ \E k \in {"missing", "package", "flow", "runtime", "other"} : Throws(k) /\ UNCHANGED held
     \/ cliStage' = (IF Shown THEN "consent" ELSE "run") /\ held' = held \union {"app"} /\ UNCHANGED error
  /\ UNCHANGED <<CliWorld, Outputs>>

\* The app is disposed whatever ends the screens.
Consent ==
  /\ cliStage = "consent"
  /\ \/ cliStage' \in {"conversation", "run"} /\ UNCHANGED <<error, held>>
     \/ cliStage' = "finally" /\ held' = held \ {"app"} /\ UNCHANGED error
     \/ \E k \in {"cancelled", "plugin", "runtime", "other"} : Throws(k) /\ held' = held \ {"app"}
  /\ UNCHANGED <<CliWorld, Outputs>>

RunFailures == CliFailures \ {"usage", "missing", "package"}
Conversation ==
  /\ cliStage = "conversation" /\ held' = held \ {"app"}
  /\ (cliStage' = "finally" /\ UNCHANGED error) \/ \E k \in RunFailures : Throws(k)
  /\ UNCHANGED <<CliWorld, Outputs>>

\* The sequential renderer tells an error on a terminal only.
Prints == renderer = "terminal" \/ (renderer = "line" /\ Flag("--headless") /\ tty)

\* The result may be there before the run hears of the interrupt.  The renderer of the
\* run shows its error; the one of the terminal waits for a key, unless it was cancelled.
RunPackage ==
  /\ cliStage = "run"
  /\ \/ cliStage' = (IF renderer = "terminal" THEN "exit-key" ELSE "answer") /\ UNCHANGED <<error, told>>
     \/ \E k \in RunFailures :
          /\ error' = k
          /\ cliStage' = IF renderer = "terminal" /\ k # "cancelled" THEN "exit-key" ELSE "caught"
          /\ told' = told \union (IF Prints THEN {"screen"} ELSE {})
  /\ UNCHANGED <<CliWorld, chosen, renderer, managed, emitJson, emitStream, documents, exitCode, held>>

\* waitForExit reads a key, and does not listen to the signal.
ResultKey ==
  /\ cliStage = "exit-key" /\ cliStage' = (IF managed /\ error # "none" THEN "caught" ELSE "answer")
  /\ UNCHANGED <<CliWorld, Outputs, held, error>>

----------------------------------------------------------------------------
(* The end.                                                                *)

\* The program ends the renderer itself as long as no run can.  That of the terminal has
\* not entered its screen: it paints nothing and waits for a key, which nobody reads
\* unless the launcher did before; then nothing is left to wait for and node gives up.
CatchError ==
  /\ cliStage = "caught"
  /\ IF renderer = "terminal" /\ ~managed /\ error # "cancelled"
       THEN /\ cliStage' = IF chosen.open THEN "exit-key" ELSE "over"
            /\ exitCode' = IF chosen.open THEN exitCode ELSE 13
       ELSE cliStage' = "answer" /\ UNCHANGED exitCode
  /\ told' = told \union (IF renderer = "line" /\ ~managed /\ Prints THEN {"screen"} ELSE {})
  /\ UNCHANGED <<CliWorld, chosen, renderer, managed, emitJson, emitStream, documents, error, held>>

Classified(k) ==
  CASE k = "none" -> exitCode
    [] k # "none" /\ (interrupted \/ k = "cancelled") -> 130
    [] k = "help" /\ ~interrupted -> 0
    [] k \in {"usage", "missing"} /\ ~interrupted -> 2
    [] k \in {"plugin", "package", "flow"} /\ ~interrupted -> 3
    [] OTHER -> 4

Conclude ==
  /\ cliStage = "answer" /\ cliStage' = "finally" /\ exitCode' = Classified(error)
  /\ documents' = IF emitJson THEN Append(documents, IF error = "none" THEN "ok" ELSE "failed") ELSE documents
  /\ told' = IF error = "none" THEN told
             ELSE told \union (IF emitJson THEN {"stdout"} ELSE IF emitStream THEN {"stderr"} ELSE {})
  /\ UNCHANGED <<CliWorld, chosen, renderer, managed, emitJson, emitStream, error, held>>

Finally ==
  /\ cliStage = "finally" /\ cliStage' = "over" /\ held' = {}
  /\ UNCHANGED <<CliWorld, Outputs, error>>

UserScreens == Launcher \/ Consent \/ Conversation \/ RunPackage
CliNext == Begin \/ DaemonSetup \/ DaemonStart \/ DaemonWait \/ Interrupt \/ Setup \/ Load
           \/ UserScreens \/ ResultKey \/ CatchError \/ Conclude \/ Finally

\* The program goes on by itself where it waits for files, the system or the daemon;
\* what waits for the user or for the run goes on once it is interrupted.
CliStep == Begin \/ DaemonSetup \/ DaemonStart \/ DaemonWait \/ Setup \/ Load
           \/ CatchError \/ Conclude \/ Finally \/ (interrupted /\ UserScreens)
CliSpec == CliInit /\ [][CliNext]_cliVars /\ WF_cliVars(CliStep)

----------------------------------------------------------------------------
(* Properties.                                                             *)

\* Whatever step fails and whenever a signal comes: stdout has one JSON document if the
\* arguments ask for a plain run, and none if they ask for a stream, the daemon or a
\* package on the screen (the launcher's failure is a document).  A document tells what
\* the exit code tells, and a failure is told somewhere, unless it is the screen's or the
\* daemon's.  The program that node gave up on has no answer.
AnswerMeant ==
  cliStage = "over" =>
    /\ (chosen.file /\ JsonDue /\ exitCode # 13) => Len(documents) = 1
    /\ (argv = <<"gateway", "run">> \/ Flag("--stream") \/ (chosen.file /\ Shown)) => documents = <<>>
    /\ documents = <<"ok">> => exitCode = 0
    /\ documents = <<"failed">> => exitCode # 0 \/ error = "help"
    /\ error \in RunFailures => exitCode # 0
    /\ (exitCode \notin {0, 13, 130} /\ renderer # "terminal" /\ argv # <<"gateway", "run">>) =>
         told # {}

\* A signal ends the program, also one that comes before anything listens to it, unless
\* it only waits for the key that leaves a result or an error on the screen.
InterruptEnds == interrupted ~> cliStage \in {"over", "exit-key"}

\* The same, with the types of the program's state.
AnswerSafe == CliTypeOK /\ AnswerMeant
=============================================================================
