--------------------------- MODULE TerminalShell ---------------------------
(***************************************************************************)
(* The full-screen program around its runs: the launcher, the consent that *)
(* a background app needs, the sessions, the conversation and its          *)
(* settings, the renderer of a turn, and the nested screens that ask for   *)
(* trust and for files while it runs.  Each of them sets the raw mode of   *)
(* the one input when it enters and puts back what it found when it        *)
(* leaves.  Who asks for a key is answered apart from the others, so that  *)
(* a key that reaches several of them is several steps.                    *)
(***************************************************************************)
EXTENDS Integers, Sequences, FiniteSets

CONSTANT Pickers   \* file selections that plugins ask for

Main == {"launcher", "confirm", "trust", "app", "settings"}   \* screens the program itself awaits
ASSUME ShellAssumption == Pickers \intersect (Main \union {"renderer"}) = {}
Holders == Main \union Pickers \union {"renderer"}

VARIABLES app,       \* what the package declares
          place,     \* what the program awaits
          raw,       \* raw mode of the input
          hold,      \* hold[h]: "out", or the raw mode that h found, "raw" or "cooked"
          asks,      \* asks[h]: h awaits a key: "none", "listening" to its signal, or "deaf"
          lost,      \* pickers whose call or run is over
          failed,    \* the run of this turn failed
          shellAborted,
          daemon,    \* [up, service, enabled]: it answers, its login service is installed,
                     \* it has the app enabled
          consent    \* [yes, preflight]: the user accepted; the bundles were checked since

shellVars == <<app, place, raw, hold, asks, lost, failed, shellAborted, daemon, consent>>

Places == {"start", "launcher", "confirm", "consent", "preflight", "trust", "ensure", "wait",
           "install", "webhook", "disable", "enter", "sessions", "conversation", "settings",
           "turn", "run", "exit-key", "run-over", "back", "unwind", "over"}

ShellTypeOK ==
  /\ app \in [background : BOOLEAN, webhook : BOOLEAN, interactive : BOOLEAN, history : BOOLEAN]
  /\ raw \in BOOLEAN /\ failed \in BOOLEAN /\ shellAborted \in BOOLEAN
  /\ place \in Places /\ lost \subseteq Pickers \union {"trust"}
  /\ hold \in [Holders -> {"out", "raw", "cooked"}]
  /\ asks \in [Holders -> {"none", "listening", "deaf"}]
  /\ daemon \in [up : BOOLEAN, service : BOOLEAN, enabled : BOOLEAN]
  /\ consent \in [yes : BOOLEAN, preflight : BOOLEAN]

ShellInit ==
  /\ app \in [background : BOOLEAN, webhook : BOOLEAN, interactive : BOOLEAN, history : BOOLEAN]
  /\ (app.webhook => app.background) /\ (app.history => app.interactive)
  /\ place \in {"start", "confirm"} /\ raw = FALSE
  /\ hold = [h \in Holders |-> "out"] /\ asks = [h \in Holders |-> "none"]
  /\ lost = {} /\ failed = FALSE /\ shellAborted = FALSE
  /\ daemon \in [up : BOOLEAN, service : BOOLEAN, enabled : BOOLEAN]
  /\ consent = [yes |-> FALSE, preflight |-> FALSE]

----------------------------------------------------------------------------
(* enter, leave and key of a screen; h is "renderer" for TerminalSession.  *)

In(h) == hold[h] # "out"
Enter(h) == hold' = [hold EXCEPT ![h] = IF raw THEN "raw" ELSE "cooked"] /\ raw' = TRUE
SlipReadsLate(h) == raw
Saved(h) == hold[h] = "raw"
\* leave also rejects a key that is awaited.
Leave(h) ==
  /\ raw' = Saved(h) /\ hold' = [hold EXCEPT ![h] = "out"] /\ asks' = [asks EXCEPT ![h] = "none"]
Swap(h, g) ==   \* h leaves and g enters
  /\ hold' = [hold EXCEPT ![h] = "out", ![g] = IF Saved(h) THEN "raw" ELSE "cooked"] /\ raw' = TRUE

Asked(h) == [asks EXCEPT ![h] = "listening"]
\* An abort rejects the key in the same step of node; a nested screen listens to its run.
Heard(h) == shellAborted /\ asks[h] = "listening" /\ (h \in Main \/ place = "run")
Awaits(h) == asks[h] # "none" /\ ~Heard(h)
Told(h) == [asks EXCEPT ![h] = "none"]

ShellWorld == <<app, lost, failed, shellAborted>>
Terminal == <<raw, hold, asks>>
Records == <<daemon, consent>>

\* What throws runs the finally blocks: the screens of the program leave from the
\* innermost to the outermost.
ShellThrows == place' = "unwind"
Unwind ==
  /\ place = "unwind"
  /\ LET in == {h \in Main : In(h) /\ h \notin lost} IN
     IF in = {} THEN place' = "over" /\ UNCHANGED Terminal
     ELSE /\ Leave(IF "trust" \in in THEN "trust"
                   ELSE IF "settings" \in in THEN "settings" ELSE CHOOSE h \in in : TRUE)
          /\ UNCHANGED place
  /\ UNCHANGED <<ShellWorld, Records>>

----------------------------------------------------------------------------
(* The launcher, and the consent to a background app.                      *)

OpenLauncher ==
  /\ place = "start" /\ place' = "launcher" /\ Enter("launcher") /\ asks' = Asked("launcher")
  /\ UNCHANGED <<ShellWorld, Records>>
LauncherKey ==
  /\ place = "launcher" /\ Awaits("launcher")
  /\ \/ Leave("launcher") /\ place' \in {"confirm", "over"}
     \/ asks' = Told("launcher") /\ ShellThrows /\ UNCHANGED <<raw, hold>>
  /\ UNCHANGED <<ShellWorld, Records>>

Confirm ==
  /\ place = "confirm"
  /\ IF app.background THEN place' = "consent" /\ Enter("confirm") /\ asks' = Asked("confirm")
     ELSE place' = "enter" /\ UNCHANGED Terminal
  /\ UNCHANGED <<ShellWorld, Records>>

ConsentKey ==
  /\ place = "consent" /\ Awaits("confirm") /\ asks' = Told("confirm")
  /\ \/ place' = "preflight" /\ consent' = [yes |-> TRUE, preflight |-> FALSE]
     \/ place' = "disable" /\ UNCHANGED consent
     \/ ShellThrows /\ UNCHANGED consent
  /\ UNCHANGED <<ShellWorld, raw, hold, daemon>>

\* N disables the app if the daemon answers and lists it.
Disable ==
  /\ place = "disable"
  /\ \/ ~daemon.up /\ ShellThrows /\ UNCHANGED <<raw, hold, asks, daemon>>
     \/ daemon.up /\ Leave("confirm") /\ place' = "over" /\ daemon' = [daemon EXCEPT !.enabled = FALSE]
  /\ UNCHANGED <<ShellWorld, consent>>

\* Each bundle in turn: a provider, a grant or a permission may be missing, and trust is
\* asked for on a screen of its own.
Preflight ==
  /\ place = "preflight"
  /\ \/ place' = "trust" /\ Enter("trust") /\ asks' = Asked("trust") /\ UNCHANGED consent
     \/ place' = "ensure" /\ consent' = [consent EXCEPT !.preflight = TRUE] /\ UNCHANGED Terminal
     \/ ShellThrows /\ UNCHANGED <<Terminal, consent>>
  /\ UNCHANGED <<ShellWorld, daemon>>
TrustKey ==
  /\ place = "trust" /\ Awaits("trust") /\ Leave("trust") /\ place' \in {"preflight", "unwind"}
  /\ UNCHANGED <<ShellWorld, Records>>

\* ensure: a daemon that answers, or the login service is installed and asked 40 times.
Ensure ==
  /\ place = "ensure"
  /\ \/ daemon.up /\ place' = "install" /\ UNCHANGED daemon
     \/ ~daemon.up /\ place' = "wait" /\ daemon' = [daemon EXCEPT !.service = TRUE]
     \/ ~daemon.up /\ ShellThrows /\ UNCHANGED daemon
  /\ UNCHANGED <<ShellWorld, Terminal, consent>>
WaitForService ==
  /\ place = "wait" /\ place' = (IF daemon.up THEN "install" ELSE "unwind")
  /\ UNCHANGED <<ShellWorld, Terminal, Records>>

SlipAccepted == "enter"
AskAgain == "consent"
Install ==
  /\ place = "install"
  /\ \/ ~daemon.up /\ ShellThrows /\ UNCHANGED <<Terminal, daemon>>
     \/ /\ app.webhook /\ daemon.up /\ place' = "webhook" /\ asks' = Asked("confirm")
        /\ UNCHANGED <<raw, hold, daemon>>
     \/ /\ ~app.webhook /\ daemon.up /\ Leave("confirm") /\ place' = "enter"
        /\ daemon' = [daemon EXCEPT !.enabled = TRUE]
     \/ ~app.webhook /\ daemon.up /\ ShellThrows /\ UNCHANGED <<Terminal, daemon>>
  /\ UNCHANGED <<ShellWorld, consent>>
\* Both prompts are answered, or one is cancelled and the consent is asked for again.
WebhookKey ==
  /\ place = "webhook" /\ Awaits("confirm")
  /\ \/ place' = AskAgain /\ asks' = Asked("confirm") /\ UNCHANGED <<raw, hold, daemon>>
     \/ daemon.up /\ Leave("confirm") /\ place' = "enter" /\ daemon' = [daemon EXCEPT !.enabled = TRUE]
     \/ ShellThrows /\ asks' = Told("confirm") /\ UNCHANGED <<raw, hold, daemon>>
  /\ UNCHANGED <<ShellWorld, consent>>

DaemonTurns == /\ daemon' = [daemon EXCEPT !.up = daemon.service /\ ~daemon.up] /\ daemon' # daemon
               /\ UNCHANGED <<app, place, Terminal, lost, failed, shellAborted, consent>>

----------------------------------------------------------------------------
(* The app: sessions, the conversation, its settings.                      *)

EnterApp ==
  /\ place = "enter"
  /\ IF app.interactive
       THEN Enter("app") /\ asks' = Asked("app") /\ place' = IF app.history THEN "sessions" ELSE "conversation"
       ELSE place' = "turn" /\ UNCHANGED Terminal
  /\ UNCHANGED <<ShellWorld, Records>>

\* Moving, renaming and deleting end in another paint; what fails leaves the program.
SessionsKey ==
  /\ place = "sessions" /\ Awaits("app")
  /\ \/ asks' = Asked("app") /\ place' \in {"sessions", "conversation"} /\ UNCHANGED <<raw, hold>>
     \/ Leave("app") /\ place' = "over"
     \/ asks' = Told("app") /\ ShellThrows /\ UNCHANGED <<raw, hold>>
  /\ UNCHANGED <<ShellWorld, Records>>

\* The conversation, its info and its knowledge ask on the same screen.
ConversationKey ==
  /\ place = "conversation" /\ Awaits("app")
  /\ \/ place' = place /\ asks' = Asked("app") /\ UNCHANGED <<raw, hold>>
     \/ place' = "turn" /\ Leave("app")
     \/ /\ place' = "settings" /\ Swap("app", "settings")
        /\ asks' = [Told("app") EXCEPT !["settings"] = "listening"]
     \/ app.history /\ place' = "sessions" /\ asks' = Asked("app") /\ UNCHANGED <<raw, hold>>
     \/ place' = "over" /\ Leave("app")
     \/ ShellThrows /\ asks' = Told("app") /\ UNCHANGED <<raw, hold>>
  /\ UNCHANGED <<ShellWorld, Records>>

\* Whatever ends the settings, the screen of the conversation enters again.
SettingsKey ==
  /\ place = "settings" /\ Awaits("settings")
  /\ \/ place' = place /\ asks' = Asked("settings") /\ UNCHANGED <<raw, hold>>
     \/ /\ place' = "conversation" /\ Swap("settings", "app")
        /\ asks' = [Told("settings") EXCEPT !["app"] = "listening"]
     \/ Swap("settings", "app") /\ place' = "unwind" /\ asks' = Told("settings")
  /\ UNCHANGED <<ShellWorld, Records>>

----------------------------------------------------------------------------
(* A run: its renderer, and the nested screens of its bundles.             *)

StartRun ==
  /\ place = "turn" /\ place' = "run" /\ Enter("renderer") /\ failed' = FALSE
  /\ UNCHANGED <<app, asks, lost, shellAborted, Records>>

Nested == Pickers \union {"trust"}
OpenNested(h) ==
  /\ place = "run" /\ ~In(h) /\ h \notin lost /\ ~shellAborted /\ Enter(h) /\ asks' = Asked(h)
  /\ UNCHANGED <<ShellWorld, place, Records>>

\* The user chooses or cancels; also when nobody waits for the answer any more.
NestedKey(h) ==
  /\ In(h) /\ Awaits(h) /\ (place = "run" \/ h \in lost) /\ Leave(h)
  /\ UNCHANGED <<ShellWorld, place, Records>>

\* The call that asked for a file exceeds the time of its bundle: it is rejected, and
\* its signal is not aborted.
CallTimesOut(p) ==
  /\ place = "run" /\ In(p) /\ p \notin lost /\ lost' = lost \union {p}
  /\ UNCHANGED <<app, place, Terminal, failed, shellAborted, Records>>

\* A run waits for its calls, unless another one fails or it is aborted; then the
\* screens that listen to its signal have left before it ends.
Awaited == {h \in Nested : In(h) /\ h \notin lost}
RunEnds ==
  /\ place = "run" /\ (shellAborted => \A h \in Nested : asks[h] # "listening")
  /\ \/ /\ Awaited = {} /\ failed' = FALSE /\ UNCHANGED lost
        /\ place' = IF app.interactive THEN "run-over" ELSE "exit-key"
     \/ /\ failed' = TRUE /\ lost' = lost \union Awaited
        /\ place' = IF app.interactive \/ shellAborted THEN "run-over" ELSE "exit-key"
  /\ UNCHANGED <<app, Terminal, shellAborted, Records>>
LeaveResult == place = "exit-key" /\ place' = "run-over" /\ UNCHANGED <<ShellWorld, Terminal, Records>>

RendererLeaves ==
  /\ place = "run-over" /\ place' = "back" /\ Leave("renderer") /\ UNCHANGED <<ShellWorld, Records>>
Back ==
  /\ place = "back"
  /\ IF app.interactive
       THEN /\ Enter("app") /\ place' = (IF failed THEN "unwind" ELSE "conversation")
            /\ asks' = IF failed THEN asks ELSE Asked("app")
       ELSE place' = "over" /\ UNCHANGED Terminal
  /\ UNCHANGED <<ShellWorld, Records>>

----------------------------------------------------------------------------
AbortShell ==
  /\ ~shellAborted /\ place # "over" /\ shellAborted' = TRUE
  /\ UNCHANGED <<app, place, Terminal, lost, failed, Records>>

\* A key is rejected by the signal its screen was given: the program's, or the run's.
KeyRejected(h) ==
  /\ Heard(h)
  /\ \/ /\ h \in Main \ {"settings"} /\ h \notin lost /\ place \notin {"run", "unwind"}
        /\ asks' = Told(h) /\ ShellThrows /\ UNCHANGED <<raw, hold>>
     \/ h = "settings" /\ Swap("settings", "app") /\ asks' = Told(h) /\ ShellThrows
     \/ h \in Nested /\ (place = "run" \/ h \in lost) /\ Leave(h) /\ UNCHANGED place
  /\ UNCHANGED <<ShellWorld, Records>>

ShellStep == OpenLauncher \/ Confirm \/ Disable \/ Preflight \/ Ensure \/ WaitForService \/ Install
             \/ EnterApp \/ StartRun \/ RendererLeaves \/ Back \/ Unwind
ShellKey == LauncherKey \/ ConsentKey \/ TrustKey \/ WebhookKey \/ SessionsKey \/ ConversationKey
            \/ SettingsKey \/ LeaveResult
ShellNext ==
  \/ ShellStep \/ ShellKey \/ DaemonTurns \/ RunEnds \/ AbortShell
  \/ \E h \in Holders : KeyRejected(h)
  \/ \E h \in Nested : OpenNested(h) \/ NestedKey(h)
  \/ \E p \in Pickers : CallTimesOut(p)

\* What waits for files, the daemon or node goes on; an abort is heard, and ends the run.
AbortHeard == (\E h \in Holders : KeyRejected(h)) \/ (shellAborted /\ RunEnds)
ShellSpec == ShellInit /\ [][ShellNext]_shellVars /\ WF_shellVars(ShellStep) /\ WF_shellVars(AbortHeard)

----------------------------------------------------------------------------
(* Properties.                                                             *)

\* However the screens, the renderer, the settings and the questions of the bundles
\* follow each other, and whatever throws: when the last one has left, the input is as it
\* was found, unless a question outlived the call or the run that asked it.
NestedGivenBack == (lost = {} /\ \A h \in Holders : ~In(h)) => ~raw

\* Checked to fail: the terminal is restored on success, error, or cancellation.
TerminalGivenBack == (place = "over" /\ \A h \in Holders : ~In(h)) => ~raw

\* A background app is entered only when the daemon was told to enable it, after the
\* user accepted and its bundles were checked; an app the user refused is not entered.
EnteredByConsent ==
  (app.background /\ place \in {"enter", "sessions", "conversation", "turn", "run"}) =>
    daemon.enabled /\ consent = [yes |-> TRUE, preflight |-> TRUE]

\* An abort ends the program, whatever it awaits and even if it comes first, unless a
\* result stays on the screen until a key.
AbortLeaves == shellAborted ~> place \in {"over", "exit-key"}

\* The same, with the types of the program's state.
ShellSafe == ShellTypeOK /\ NestedGivenBack
=============================================================================
