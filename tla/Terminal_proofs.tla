-------------------------- MODULE Terminal_proofs ---------------------------
(***************************************************************************)
(* Proofs about what the user of a terminal sees, for any form, any width, *)
(* any number of turns and of keys: the screens of TerminalShell and who   *)
(* holds the terminal, the layout, the focus and the values of             *)
(* TerminalForm, the queue of lines of LineForm.                           *)
(***************************************************************************)
EXTENDS LineForm, TerminalForm, TerminalShell, CommandLine, Recursion, SequenceTheorems, TLAPS

-----------------------------------------------------------------------------
(* The screens around an application, and who holds the terminal.          *)

\* Exactly the screens of S are in.
Only(S) == \A h \in Holders : In(h) <=> h \in S

\* The screens of the program that are in where no call has outlived its run.
ScreenAt ==
  /\ place \in {"start", "confirm", "enter", "turn", "back", "over"} => Only({})
  /\ place = "launcher" => Only({"launcher"})
  /\ place \in {"consent", "preflight", "disable", "ensure", "wait", "install", "webhook"} => Only({"confirm"})
  /\ place = "trust" => Only({"confirm", "trust"})
  /\ place \in {"sessions", "conversation"} => Only({"app"})
  /\ place = "settings" => Only({"settings"})
  /\ place = "run" => In("renderer") /\ \A h \in Main \ {"trust"} : ~In(h)
  /\ place \in {"exit-key", "run-over"} => Only({"renderer"})
  /\ place = "unwind" => \E S \in {{}, {"launcher"}, {"confirm"}, {"confirm", "trust"}, {"app"}} : Only(S)

\* The outermost screen found the input cooked, nested ones found it raw; only a screen
\* that is in awaits a key.
FoundInv ==
  /\ \A h \in Holders \ Nested : hold[h] \in {"out", "cooked"}
  /\ \A h \in Nested : hold[h] \in {"out", "raw"}
  /\ raw <=> \E h \in Holders : In(h)
  /\ \A h \in Holders : asks[h] # "none" => In(h)

ScreenInv == lost = {} => ScreenAt /\ FoundInv

Consented == consent.yes /\ (place \notin {"preflight", "trust"} => consent.preflight)
\* What was asked and told before each place.
ConsentInv ==
  /\ (app.background /\ place \in {"preflight", "trust", "ensure", "wait", "install", "webhook"}) => Consented
  /\ (app.background /\ place \in {"enter", "sessions", "conversation", "settings", "turn", "run", "exit-key",
                                   "run-over", "back"}) => Consented /\ daemon.enabled
  /\ place \in {"consent", "preflight", "trust", "ensure", "wait", "install", "webhook", "disable"} => app.background

-----------------------------------------------------------------------------
LEMMA HolderFacts ==
  /\ Main \subseteq Holders /\ "renderer" \in Holders /\ Pickers \subseteq Holders
  /\ Nested \subseteq Holders /\ "trust" \in Nested /\ "renderer" \notin Nested
  /\ \A h \in Main : h \in Nested <=> h = "trust"
  /\ \A h \in Nested : h \notin {"launcher", "confirm", "app", "settings", "renderer"}
  /\ \A h \in Pickers : h \notin Main /\ h # "renderer"
BY ShellAssumption DEF Holders, Main, Nested

\* The two halves of the types: the terminal, and the rest.
TerminalOK ==
  /\ raw \in BOOLEAN
  /\ hold \in [Holders -> {"out", "raw", "cooked"}]
  /\ asks \in [Holders -> {"none", "listening", "deaf"}]
RestOK ==
  /\ app \in [background : BOOLEAN, webhook : BOOLEAN, interactive : BOOLEAN, history : BOOLEAN]
  /\ failed \in BOOLEAN /\ shellAborted \in BOOLEAN
  /\ place \in Places /\ lost \subseteq Pickers \union {"trust"}
RecordsOK ==
  /\ daemon \in [up : BOOLEAN, service : BOOLEAN, enabled : BOOLEAN]
  /\ consent \in [yes : BOOLEAN, preflight : BOOLEAN]

LEMMA TypeParts == ShellTypeOK <=> TerminalOK /\ RestOK /\ RecordsOK
BY DEF ShellTypeOK, TerminalOK, RestOK, RecordsOK

LEMMA ShellTypeInit == ShellInit => ShellTypeOK
<1> SUFFICES ASSUME ShellInit PROVE ShellTypeOK
  OBVIOUS
<1>1. TerminalOK
  BY DEF ShellInit, TerminalOK
<1>2. app \in [background : BOOLEAN, webhook : BOOLEAN, interactive : BOOLEAN, history : BOOLEAN]
  BY DEF ShellInit
<1>3. place \in Places /\ lost \subseteq Pickers \union {"trust"} /\ failed \in BOOLEAN /\ shellAborted \in BOOLEAN
  BY DEF ShellInit, Places
<1>4. RecordsOK
  BY DEF ShellInit, RecordsOK
<1>. QED  BY <1>1, <1>2, <1>3, <1>4, TypeParts DEF RestOK

LEMMA EnterFacts ==
  ASSUME TerminalOK, NEW h \in Holders, Enter(h)
  PROVE  /\ raw' = TRUE /\ raw' \in BOOLEAN /\ hold' \in [Holders -> {"out", "raw", "cooked"}]
         /\ hold'[h] = (IF raw THEN "raw" ELSE "cooked")
         /\ \A g \in Holders \ {h} : hold'[g] = hold[g]
<1>1. raw' = TRUE
  BY DEF Enter
<1>2. /\ hold' \in [Holders -> {"out", "raw", "cooked"}]
      /\ hold'[h] = (IF raw THEN "raw" ELSE "cooked")
      /\ \A g \in Holders \ {h} : hold'[g] = hold[g]
  BY DEF Enter, TerminalOK
<1>. QED  BY <1>1, <1>2

LEMMA LeaveFacts ==
  ASSUME TerminalOK, NEW h \in Holders, Leave(h)
  PROVE  /\ raw' \in BOOLEAN /\ (raw' <=> hold[h] = "raw") /\ hold' \in [Holders -> {"out", "raw", "cooked"}]
         /\ hold'[h] = "out" /\ \A g \in Holders \ {h} : hold'[g] = hold[g]
         /\ asks' \in [Holders -> {"none", "listening", "deaf"}]
         /\ asks'[h] = "none" /\ \A g \in Holders \ {h} : asks'[g] = asks[g]
<1>1. raw' \in BOOLEAN /\ (raw' <=> hold[h] = "raw")
  BY DEF Leave, Saved
<1>2. hold' \in [Holders -> {"out", "raw", "cooked"}] /\ hold'[h] = "out" /\ \A g \in Holders \ {h} : hold'[g] = hold[g]
  BY DEF Leave, TerminalOK
<1>3. /\ asks' \in [Holders -> {"none", "listening", "deaf"}]
      /\ asks'[h] = "none" /\ \A g \in Holders \ {h} : asks'[g] = asks[g]
  BY DEF Leave, TerminalOK
<1>. QED  BY <1>1, <1>2, <1>3

LEMMA SwapFacts ==
  ASSUME TerminalOK, NEW h \in Holders, NEW g \in Holders \ {h}, Swap(h, g)
  PROVE  /\ raw' = TRUE /\ raw' \in BOOLEAN /\ hold' \in [Holders -> {"out", "raw", "cooked"}]
         /\ hold'[h] = "out" /\ hold'[g] = (IF hold[h] = "raw" THEN "raw" ELSE "cooked")
         /\ \A k \in Holders \ {h, g} : hold'[k] = hold[k]
<1>1. raw' = TRUE
  BY DEF Swap
<1>2. /\ hold' \in [Holders -> {"out", "raw", "cooked"}]
      /\ hold'[h] = "out" /\ hold'[g] = (IF hold[h] = "raw" THEN "raw" ELSE "cooked")
      /\ \A k \in Holders \ {h, g} : hold'[k] = hold[k]
  BY DEF Swap, Saved, TerminalOK
<1>. QED  BY <1>1, <1>2

LEMMA AskFacts ==
  ASSUME TerminalOK, NEW h \in Holders
  PROVE  /\ Asked(h) \in [Holders -> {"none", "listening", "deaf"}] /\ Told(h) \in [Holders -> {"none", "listening", "deaf"}]
         /\ Asked(h)[h] = "listening" /\ Told(h)[h] = "none"
         /\ \A g \in Holders \ {h} : Asked(h)[g] = asks[g] /\ Told(h)[g] = asks[g]
BY DEF TerminalOK, Asked, Told
LEMMA RestNext == ASSUME ShellTypeOK, ShellNext PROVE RestOK' /\ RecordsOK'
<1>. USE DEF RestOK, RecordsOK, ShellWorld, Records, ShellThrows
<1>0. RestOK /\ RecordsOK
  BY TypeParts
<1>1. CASE ShellStep
  <2>1. CASE OpenLauncher \/ Confirm \/ EnterApp \/ StartRun \/ RendererLeaves \/ Back
    BY <1>0, <2>1 DEF OpenLauncher, Confirm, EnterApp, StartRun, RendererLeaves, Back, Places
  <2>2. CASE Unwind
    BY <1>0, <2>2 DEF Unwind, Places
  <2>3. CASE Disable \/ Preflight
    BY <1>0, <2>3 DEF Disable, Preflight, Places
  <2>4. CASE Ensure \/ WaitForService \/ Install
    BY <1>0, <2>4 DEF Ensure, WaitForService, Install, Places
  <2>. QED  BY <1>1, <2>1, <2>2, <2>3, <2>4 DEF ShellStep
<1>2. CASE ShellKey
  <2>1. CASE LauncherKey \/ TrustKey \/ SessionsKey \/ LeaveResult
    BY <1>0, <2>1 DEF LauncherKey, TrustKey, SessionsKey, LeaveResult, Places
  <2>2. CASE ConsentKey
    <3>1. RestOK' /\ daemon' = daemon
      BY <1>0, <2>2 DEF ConsentKey, Places
    <3>2. consent' = [yes |-> TRUE, preflight |-> FALSE] \/ consent' = consent
      BY <2>2 DEF ConsentKey
    <3>3. [yes |-> TRUE, preflight |-> FALSE] \in [yes : BOOLEAN, preflight : BOOLEAN]
      OBVIOUS
    <3>4. consent' \in [yes : BOOLEAN, preflight : BOOLEAN]
      BY <1>0, <3>2, <3>3, Zenon
    <3>. QED  BY <1>0, <3>1, <3>4, Zenon
  <2>4. CASE WebhookKey
    BY <1>0, <2>4, ZenonT(30) DEF WebhookKey, AskAgain, Places
  <2>3. CASE ConversationKey \/ SettingsKey
    BY <1>0, <2>3 DEF ConversationKey, SettingsKey, Places
  <2>. QED  BY <1>2, <2>1, <2>2, <2>3, <2>4 DEF ShellKey
<1>3. CASE DaemonTurns
  BY <1>0, <1>3 DEF DaemonTurns
<1>4. CASE AbortShell
  <2>1. UNCHANGED <<app, place, lost, failed, daemon, consent>> /\ shellAborted' = TRUE
    BY <1>4 DEF AbortShell
  <2>2. app' \in [background : BOOLEAN, webhook : BOOLEAN, interactive : BOOLEAN, history : BOOLEAN]
    BY <1>0, <2>1
  <2>3. failed' \in BOOLEAN /\ shellAborted' \in BOOLEAN
    BY <1>0, <2>1, Zenon
  <2>4. place' \in Places /\ lost' \subseteq Pickers \union {"trust"} /\ RecordsOK'
    BY <1>0, <2>1
  <2>. QED  BY <2>2, <2>3, <2>4
<1>5. CASE RunEnds
  <2>1. place' \in Places /\ failed' \in BOOLEAN /\ UNCHANGED <<app, shellAborted, daemon, consent>>
    BY <1>5 DEF RunEnds, Places
  <2>2. lost' \subseteq Pickers \union {"trust"}
    BY <1>0, <1>5 DEF RunEnds, Awaited, Nested
  <2>3. app' \in [background : BOOLEAN, webhook : BOOLEAN, interactive : BOOLEAN, history : BOOLEAN]
    BY <1>0, <2>1
  <2>4. shellAborted' \in BOOLEAN
    BY <1>0, <2>1, Zenon
  <2>5. RecordsOK'
    BY <1>0, <2>1
  <2>. QED  BY <2>1, <2>2, <2>3, <2>4, <2>5
<1>6. CASE \E h \in Holders : KeyRejected(h)
  BY <1>0, <1>6 DEF KeyRejected, Places
<1>7. CASE \E h \in Nested : OpenNested(h) \/ NestedKey(h)
  BY <1>0, <1>7 DEF OpenNested, NestedKey
<1>8. CASE \E p \in Pickers : CallTimesOut(p)
  BY <1>0, <1>8 DEF CallTimesOut
<1>. QED  BY <1>1, <1>2, <1>3, <1>4, <1>5, <1>6, <1>7, <1>8 DEF ShellNext

\* What a step does to the terminal: a screen enters, leaves, makes room for another one, or
\* only what is asked changes.
Asks(h) == raw' = raw /\ hold' = hold /\ (asks' = Asked(h) \/ asks' = Told(h))
TerminalStep ==
  \/ UNCHANGED Terminal
  \/ \E h \in Holders : Enter(h) /\ (asks' = asks \/ asks' = Asked(h))
  \/ \E h \in Holders : Leave(h)
  \/ \E h \in Holders : Asks(h)
  \/ \E h \in Holders, g \in Holders : h # g /\ Swap(h, g) /\ (asks' = Told(h) \/ asks' = [Told(h) EXCEPT ![g] = "listening"])

LEMMA TerminalSteps == ASSUME ShellNext PROVE TerminalStep
<1>. USE HolderFacts DEF TerminalStep, Asks, Main
<1>1. CASE ShellStep
  <2>1. CASE OpenLauncher \/ Confirm \/ EnterApp \/ StartRun \/ RendererLeaves \/ Back
    BY <2>1 DEF OpenLauncher, Confirm, EnterApp, StartRun, RendererLeaves, Back
  <2>2. CASE Unwind
    BY <2>2 DEF Unwind
  <2>3. CASE Disable \/ Preflight
    BY <2>3 DEF Disable, Preflight, Terminal
  <2>4. CASE Ensure \/ WaitForService \/ Install
    BY <2>4 DEF Ensure, WaitForService, Install, Terminal
  <2>. QED  BY <1>1, <2>1, <2>2, <2>3, <2>4 DEF ShellStep
<1>2. CASE ShellKey
  <2>1. CASE LauncherKey \/ TrustKey \/ SessionsKey \/ LeaveResult
    BY <2>1 DEF LauncherKey, TrustKey, SessionsKey, LeaveResult
  <2>2. CASE ConsentKey \/ WebhookKey
    BY <2>2 DEF ConsentKey, WebhookKey
  <2>3. CASE ConversationKey \/ SettingsKey
    BY <2>3 DEF ConversationKey, SettingsKey
  <2>. QED  BY <1>2, <2>1, <2>2, <2>3 DEF ShellKey
<1>3. CASE DaemonTurns \/ AbortShell \/ RunEnds \/ \E p \in Pickers : CallTimesOut(p)
  BY <1>3 DEF DaemonTurns, AbortShell, RunEnds, CallTimesOut
<1>6. CASE \E h \in Holders : KeyRejected(h)
  BY <1>6 DEF KeyRejected
<1>7. CASE \E h \in Nested : OpenNested(h) \/ NestedKey(h)
  BY <1>7 DEF OpenNested, NestedKey
<1>. QED  BY <1>1, <1>2, <1>3, <1>6, <1>7 DEF ShellNext

LEMMA ShellTypeNext == ShellTypeOK /\ [ShellNext]_shellVars => ShellTypeOK'
<1> SUFFICES ASSUME ShellTypeOK, [ShellNext]_shellVars PROVE ShellTypeOK'
  OBVIOUS
<1>1. CASE ShellNext
  <2>0. TerminalOK
    BY TypeParts
  <2>1. TerminalOK'
    <3>1. CASE UNCHANGED Terminal
      <4>1. raw' = raw /\ hold' = hold /\ asks' = asks
        BY <3>1 DEF Terminal
      <4>2. raw' \in BOOLEAN
        BY <2>0, <4>1, Zenon DEF TerminalOK
      <4>3. hold' \in [Holders -> {"out", "raw", "cooked"}] /\ asks' \in [Holders -> {"none", "listening", "deaf"}]
        <5>1. hold \in [Holders -> {"out", "raw", "cooked"}] /\ asks \in [Holders -> {"none", "listening", "deaf"}]
          BY <2>0 DEF TerminalOK
        <5>. QED  BY <5>1, <4>1
      <4>. QED  BY <4>2, <4>3 DEF TerminalOK
    <3>2. ASSUME NEW h \in Holders, Enter(h), asks' = asks \/ asks' = Asked(h) PROVE TerminalOK'
      <4>1. raw' \in BOOLEAN /\ hold' \in [Holders -> {"out", "raw", "cooked"}]
        BY <2>0, <3>2, EnterFacts
      <4>2. asks' \in [Holders -> {"none", "listening", "deaf"}]
        <5>1. asks \in [Holders -> {"none", "listening", "deaf"}]
          BY <2>0 DEF TerminalOK
        <5>. QED  BY <2>0, <3>2, <5>1, AskFacts
      <4>. QED  BY <4>1, <4>2 DEF TerminalOK
    <3>3. CASE \E h \in Holders : Leave(h)
      BY <2>0, <3>3, LeaveFacts DEF TerminalOK
    <3>4. ASSUME NEW h \in Holders, Asks(h) PROVE TerminalOK'
      <4>1. raw' = raw /\ hold' = hold /\ asks' \in {Asked(h), Told(h)}
        BY <3>4 DEF Asks
      <4>2. asks' \in [Holders -> {"none", "listening", "deaf"}]
        BY <2>0, <4>1, AskFacts
      <4>3. raw' \in BOOLEAN
        BY <2>0, <4>1, Zenon DEF TerminalOK
      <4>4. hold' \in [Holders -> {"out", "raw", "cooked"}]
        <5>1. hold \in [Holders -> {"out", "raw", "cooked"}]
          BY <2>0 DEF TerminalOK
        <5>. QED  BY <5>1, <4>1
      <4>. QED  BY <4>2, <4>3, <4>4 DEF TerminalOK
    <3>5. ASSUME NEW h \in Holders, NEW g \in Holders, h # g, Swap(h, g),
                 asks' = Told(h) \/ asks' = [Told(h) EXCEPT ![g] = "listening"]
          PROVE  TerminalOK'
      <4>1. raw' \in BOOLEAN /\ hold' \in [Holders -> {"out", "raw", "cooked"}]
        BY <2>0, <3>5, SwapFacts
      <4>2. asks' \in [Holders -> {"none", "listening", "deaf"}]
        BY <2>0, <3>5, AskFacts
      <4>. QED  BY <4>1, <4>2 DEF TerminalOK
    <3>. QED  BY <1>1, <3>1, <3>2, <3>3, <3>4, <3>5, TerminalSteps DEF TerminalStep
  <2>2. RestOK' /\ RecordsOK'
    BY <1>1, RestNext
  <2>. QED  BY <2>1, <2>2, TypeParts DEF ShellTypeOK, TerminalOK, RestOK, RecordsOK
<1>2. CASE UNCHANGED shellVars
  BY <1>2 DEF shellVars, ShellTypeOK
<1>. QED  BY <1>1, <1>2

LEMMA ConsentNext == ConsentInv /\ ShellTypeOK /\ [ShellNext]_shellVars => ConsentInv'
<1> SUFFICES ASSUME ConsentInv, ShellTypeOK, [ShellNext]_shellVars PROVE ConsentInv'
  OBVIOUS
<1> USE DEF ConsentInv, Consented, ShellTypeOK, ShellWorld, Records, ShellThrows
<1>1. CASE ShellStep
  <2>1. CASE OpenLauncher \/ Confirm \/ Disable \/ Preflight
    BY <1>1, <2>1 DEF OpenLauncher, Confirm, Disable, Preflight
  <2>2. CASE Ensure \/ WaitForService \/ Install
    BY <2>2 DEF Ensure, WaitForService, Install
  <2>3. CASE EnterApp \/ StartRun \/ RendererLeaves \/ Back \/ Unwind
    BY <2>3 DEF EnterApp, StartRun, RendererLeaves, Back, Unwind
  <2>. QED  BY <1>1, <2>1, <2>2, <2>3 DEF ShellStep
<1>2. CASE ShellKey
  BY <1>2 DEF ShellKey, LauncherKey, ConsentKey, TrustKey, WebhookKey, AskAgain, SessionsKey, ConversationKey,
     SettingsKey, LeaveResult
<1>3. CASE DaemonTurns \/ AbortShell
  BY <1>3 DEF DaemonTurns, AbortShell
<1>4. CASE RunEnds
  BY <1>4 DEF RunEnds
<1>5. CASE \E h \in Holders : KeyRejected(h)
  BY <1>5 DEF KeyRejected
<1>6. CASE \E h \in Nested : OpenNested(h) \/ NestedKey(h)
  BY <1>6 DEF OpenNested, NestedKey
<1>7. CASE \E p \in Pickers : CallTimesOut(p)
  BY <1>7 DEF CallTimesOut
<1>8. CASE UNCHANGED shellVars
  BY <1>8 DEF shellVars
<1>. QED  BY <1>1, <1>2, <1>3, <1>4, <1>5, <1>6, <1>7, <1>8 DEF ShellNext

LEMMA LostStays == ASSUME ShellNext, lost' = {} PROVE lost = {}
BY DEF ShellNext, ShellStep, OpenLauncher, Confirm, Disable, Preflight, Ensure, WaitForService, Install, EnterApp, StartRun,
   RendererLeaves, Back, Unwind, ShellKey, LauncherKey, ConsentKey, TrustKey, WebhookKey, SessionsKey, ConversationKey,
   SettingsKey, LeaveResult, DaemonTurns, RunEnds, AbortShell, KeyRejected, OpenNested, NestedKey, CallTimesOut, ShellWorld

\* The first screen to enter, the only one, and the last one to leave.
LEMMA FirstEnters ==
  ASSUME TerminalOK, Only({}), FoundInv, NEW h \in Holders \ Nested, Enter(h), asks' = asks \/ asks' = Asked(h)
  PROVE  Only({h})' /\ FoundInv'
<1>. USE HolderFacts
<1>1. ~raw
  BY DEF FoundInv, Only
<1>2. hold'[h] = "cooked" /\ (\A g \in Holders \ {h} : hold'[g] = hold[g]) /\ raw' = TRUE
  BY <1>1, EnterFacts
<1>3. \A g \in Holders \ {h} : hold[g] = "out"
  BY DEF Only, In
<1>4. \A g \in Holders \ {h} : asks[g] = "none" /\ asks'[g] = "none"
  BY <1>3, AskFacts DEF FoundInv, Only
<1>. QED  BY <1>2, <1>3, <1>4 DEF Only, In, FoundInv

LEMMA LastLeaves ==
  ASSUME TerminalOK, NEW h \in Holders \ Nested, Only({h}), FoundInv, Leave(h)
  PROVE  Only({})' /\ FoundInv'
<1>. USE HolderFacts
<1>1. hold[h] = "cooked" /\ \A g \in Holders \ {h} : hold[g] = "out" /\ asks[g] = "none"
  BY DEF Only, In, FoundInv
<1>2. hold'[h] = "out" /\ asks'[h] = "none" /\ (\A g \in Holders \ {h} : hold'[g] = hold[g] /\ asks'[g] = asks[g]) /\ ~raw'
  BY <1>1, LeaveFacts
<1>. QED  BY <1>1, <1>2 DEF Only, In, FoundInv

LEMMA OnlySwaps ==
  ASSUME TerminalOK, NEW h \in Holders \ Nested, NEW g \in (Holders \ Nested) \ {h}, Only({h}), FoundInv, Swap(h, g),
         asks' = Told(h) \/ asks' = [Told(h) EXCEPT ![g] = "listening"]
  PROVE  Only({g})' /\ FoundInv'
<1>. USE HolderFacts
<1>1. hold[h] = "cooked" /\ \A k \in Holders \ {h} : hold[k] = "out" /\ asks[k] = "none"
  BY DEF Only, In, FoundInv
<1>2. hold'[h] = "out" /\ hold'[g] = "cooked" /\ (\A k \in Holders \ {h, g} : hold'[k] = hold[k]) /\ raw' = TRUE
  BY <1>1, SwapFacts
<1>3. \A k \in Holders \ {g} : asks'[k] = "none"
  BY <1>1, AskFacts, SMTT(20)
<1>. QED  BY <1>1, <1>2, <1>3 DEF Only, In, FoundInv

\* A nested screen on the screen that is in.
LEMMA NestedEnters ==
  ASSUME TerminalOK, FoundInv, NEW k \in Holders, In(k), NEW h \in Nested, h # k, Enter(h), asks' = Asked(h)
  PROVE  FoundInv' /\ In(h)' /\ \A g \in Holders \ {h} : In(g)' <=> In(g)
<1>. USE HolderFacts
<1>1. hold'[h] = "raw" /\ (\A g \in Holders \ {h} : hold'[g] = hold[g]) /\ raw' = TRUE
  BY EnterFacts DEF FoundInv
<1>2. \A g \in Holders \ {h} : asks'[g] = asks[g]
  BY AskFacts
<1>. QED  BY <1>1, <1>2 DEF In, FoundInv

LEMMA NestedLeaves ==
  ASSUME TerminalOK, FoundInv, NEW k \in Holders, In(k), NEW h \in Nested, h # k, In(h), Leave(h)
  PROVE  FoundInv' /\ ~In(h)' /\ \A g \in Holders \ {h} : In(g)' <=> In(g)
<1>. USE HolderFacts
<1>1. hold[h] = "raw"
  BY DEF In, FoundInv
<1>2. hold'[h] = "out" /\ asks'[h] = "none" /\ (\A g \in Holders \ {h} : hold'[g] = hold[g] /\ asks'[g] = asks[g]) /\ raw'
  BY <1>1, LeaveFacts
<1>. QED  BY <1>1, <1>2 DEF In, FoundInv

LEMMA OnlyAsks ==
  ASSUME TerminalOK, FoundInv, NEW h \in Holders, raw' = raw, hold' = hold,
         asks' = Told(h) \/ (In(h) /\ asks' = Asked(h))
  PROVE  FoundInv' /\ \A g \in Holders : In(g)' <=> In(g)
<1>1. \A g \in Holders : In(g)' <=> In(g)
  BY DEF In
<1>2. \A g \in Holders : asks'[g] # "none" => In(g)'
  BY <1>1, AskFacts DEF FoundInv
<1>. QED  BY <1>1, <1>2 DEF FoundInv

LEMMA OnlyKeeps ==
  ASSUME TerminalOK, FoundInv, NEW S \in SUBSET Holders, Only(S), NEW h \in Holders, raw' = raw, hold' = hold,
         asks' = asks \/ asks' = Told(h) \/ (h \in S /\ asks' = Asked(h))
  PROVE  Only(S)' /\ FoundInv'
<1>1. \A g \in Holders : In(g)' <=> In(g)
  BY DEF In
<1>2. h \in S => In(h)
  BY DEF Only
<1>3. FoundInv'
  <2>1. CASE asks' = asks
    BY <2>1, <1>1 DEF FoundInv
  <2>2. CASE asks' # asks
    BY <2>2, <1>2, OnlyAsks
  <2>. QED  BY <2>1, <2>2
<1>. QED  BY <1>1, <1>3 DEF Only

\* Nothing of the terminal or the place changes.
LEMMA Unmoved ==
  ASSUME ScreenAt, FoundInv, UNCHANGED Terminal, place' = place
  PROVE  ScreenAt' /\ FoundInv'
BY DEF ScreenAt, FoundInv, Only, In, Terminal

LEMMA ScreenNext == ASSUME ShellTypeOK, ScreenInv, ShellNext PROVE ScreenInv'
<1> SUFFICES ASSUME lost' = {} PROVE ScreenAt' /\ FoundInv'
  BY DEF ScreenInv
<1>0. TerminalOK /\ ScreenAt /\ FoundInv /\ lost = {}
  BY LostStays, TypeParts DEF ScreenInv
<1>1. CASE ShellStep
  <2>1. CASE OpenLauncher
    <3>1. Only({}) /\ Enter("launcher") /\ asks' = Asked("launcher") /\ place' = "launcher"
      BY <1>0, <2>1 DEF OpenLauncher, ScreenAt
    <3>2. Only({"launcher"})' /\ FoundInv'
      BY <1>0, <3>1, FirstEnters, HolderFacts DEF Main
    <3>. QED  BY <3>1, <3>2 DEF ScreenAt
  <2>2. CASE Confirm
    <3>1. CASE app.background
      <4>1. Only({}) /\ Enter("confirm") /\ asks' = Asked("confirm") /\ place' = "consent"
        BY <1>0, <2>2, <3>1 DEF Confirm, ScreenAt
      <4>2. Only({"confirm"})' /\ FoundInv'
        BY <1>0, <4>1, FirstEnters, HolderFacts DEF Main
      <4>. QED  BY <4>1, <4>2 DEF ScreenAt
    <3>2. CASE ~app.background
      <4>1. Only({}) /\ place' = "enter" /\ hold' = hold /\ UNCHANGED Terminal
        BY <1>0, <2>2, <3>2 DEF Confirm, ScreenAt, Terminal
      <4>2. FoundInv' /\ Only({})'
        BY <1>0, <4>1 DEF FoundInv, Terminal, Only, In
      <4>. QED  BY <4>1, <4>2 DEF ScreenAt
    <3>. QED  BY <3>1, <3>2
  <2>3. CASE Disable
    <3>0. Only({"confirm"})
      BY <1>0, <2>3 DEF Disable, ScreenAt
    <3>1. CASE ShellThrows /\ UNCHANGED Terminal
      <4>1. Only({"confirm"})' /\ FoundInv'
        BY <1>0, <3>0, <3>1 DEF Only, In, FoundInv, Terminal
      <4>. QED  BY <3>1, <4>1 DEF ScreenAt, ShellThrows
    <3>2. CASE Leave("confirm") /\ place' = "over"
      <4>1. Only({})' /\ FoundInv'
        BY <1>0, <3>0, <3>2, LastLeaves, HolderFacts DEF Main
      <4>. QED  BY <3>2, <4>1 DEF ScreenAt
    <3>. QED  BY <2>3, <3>1, <3>2 DEF Disable, Terminal
  <2>4. CASE Preflight
    <3>0. Only({"confirm"}) /\ In("confirm") /\ place = "preflight"
      BY <1>0, <2>4, HolderFacts DEF Preflight, ScreenAt, Only, Main
    <3>1. CASE Enter("trust") /\ asks' = Asked("trust") /\ place' = "trust"
      <4>1. FoundInv' /\ In("trust")' /\ \A g \in Holders \ {"trust"} : In(g)' <=> In(g)
        BY <1>0, <3>0, <3>1, NestedEnters, HolderFacts DEF Main
      <4>2. Only({"confirm", "trust"})'
        BY <3>0, <4>1 DEF Only
      <4>. QED  BY <3>1, <4>1, <4>2 DEF ScreenAt
    <3>2. CASE UNCHANGED Terminal /\ place' \in {"ensure", "unwind"}
      <4>1. Only({"confirm"})' /\ FoundInv'
        BY <1>0, <3>0, <3>2 DEF Only, In, FoundInv, Terminal
      <4>. QED  BY <3>2, <4>1 DEF ScreenAt
    <3>. QED  BY <2>4, <3>1, <3>2 DEF Preflight, ShellThrows
  <2>5. CASE Ensure \/ WaitForService
    <3>0. Only({"confirm"}) /\ UNCHANGED Terminal /\ place' \in {"install", "wait", "unwind"}
      BY <1>0, <2>5 DEF Ensure, WaitForService, ScreenAt, ShellThrows
    <3>1. Only({"confirm"})' /\ FoundInv'
      BY <1>0, <3>0 DEF Only, In, FoundInv, Terminal
    <3>. QED  BY <3>0, <3>1 DEF ScreenAt
  <2>6. CASE Install
    <3>0. Only({"confirm"}) /\ In("confirm")
      BY <1>0, <2>6, HolderFacts DEF Install, ScreenAt, Only, Main
    <3>1. CASE ShellThrows /\ UNCHANGED Terminal
      <4>1. Only({"confirm"})' /\ FoundInv'
        BY <1>0, <3>0, <3>1 DEF Only, In, FoundInv, Terminal
      <4>. QED  BY <3>1, <4>1 DEF ScreenAt, ShellThrows
    <3>2. CASE place' = "webhook" /\ asks' = Asked("confirm") /\ UNCHANGED <<raw, hold>>
      <4>1. FoundInv' /\ \A g \in Holders : In(g)' <=> In(g)
        BY <1>0, <3>0, <3>2, OnlyAsks, HolderFacts DEF Main
      <4>2. Only({"confirm"})'
        BY <3>0, <4>1 DEF Only
      <4>. QED  BY <3>2, <4>1, <4>2 DEF ScreenAt
    <3>3. CASE Leave("confirm") /\ place' = "enter"
      <4>1. Only({})' /\ FoundInv'
        BY <1>0, <3>0, <3>3, LastLeaves, HolderFacts DEF Main
      <4>. QED  BY <3>3, <4>1 DEF ScreenAt
    <3>. QED  BY <2>6, <3>1, <3>2, <3>3 DEF Install
  <2>7. CASE EnterApp
    <3>0. Only({})
      BY <1>0, <2>7 DEF EnterApp, ScreenAt
    <3>1. CASE Enter("app") /\ asks' = Asked("app") /\ place' \in {"sessions", "conversation"}
      <4>1. Only({"app"})' /\ FoundInv'
        BY <1>0, <3>0, <3>1, FirstEnters, HolderFacts DEF Main
      <4>. QED  BY <3>1, <4>1 DEF ScreenAt
    <3>2. CASE place' = "turn" /\ UNCHANGED Terminal
      <4>1. Only({})' /\ FoundInv'
        BY <1>0, <3>0, <3>2 DEF Only, In, FoundInv, Terminal
      <4>. QED  BY <3>2, <4>1 DEF ScreenAt
    <3>. QED  BY <2>7, <3>1, <3>2 DEF EnterApp
  <2>8. CASE StartRun
    <3>0. Only({}) /\ Enter("renderer") /\ asks' = asks /\ place' = "run"
      BY <1>0, <2>8 DEF StartRun, ScreenAt
    <3>1. Only({"renderer"})' /\ FoundInv'
      BY <1>0, <3>0, FirstEnters, HolderFacts
    <3>2. In("renderer")' /\ \A h \in Main : ~In(h)'
      BY <3>1, HolderFacts DEF Only, Main
    <3>. QED  BY <3>0, <3>1, <3>2 DEF ScreenAt
  <2>9. CASE RendererLeaves
    <3>0. Only({"renderer"}) /\ Leave("renderer") /\ place' = "back"
      BY <1>0, <2>9 DEF RendererLeaves, ScreenAt
    <3>1. Only({})' /\ FoundInv'
      BY <1>0, <3>0, LastLeaves, HolderFacts
    <3>. QED  BY <3>0, <3>1 DEF ScreenAt
  <2>10. CASE Back
    <3>0. Only({})
      BY <1>0, <2>10 DEF Back, ScreenAt
    <3>1. CASE Enter("app") /\ (asks' = asks \/ asks' = Asked("app")) /\ place' \in {"unwind", "conversation"}
      <4>1. Only({"app"})' /\ FoundInv'
        BY <1>0, <3>0, <3>1, FirstEnters, HolderFacts DEF Main
      <4>. QED  BY <3>1, <4>1 DEF ScreenAt
    <3>2. CASE place' = "over" /\ UNCHANGED Terminal
      <4>1. Only({})' /\ FoundInv'
        BY <1>0, <3>0, <3>2 DEF Only, In, FoundInv, Terminal
      <4>. QED  BY <3>2, <4>1 DEF ScreenAt
    <3>. QED  BY <2>10, <3>1, <3>2 DEF Back
  <2>11. CASE Unwind
    <3> DEFINE in == {h \in Main : In(h) /\ h \notin lost}
    <3>1. PICK S \in {{}, {"launcher"}, {"confirm"}, {"confirm", "trust"}, {"app"}} : Only(S)
      BY <1>0, <2>11 DEF Unwind, ScreenAt
    <3>2. in = S
      BY <1>0, <3>1, HolderFacts DEF Only, Main
    <3>3. CASE S = {}
      <4>1. place' = "over" /\ UNCHANGED Terminal
        BY <2>11, <3>2, <3>3 DEF Unwind
      <4>2. Only({})' /\ FoundInv'
        BY <1>0, <3>1, <3>3, <4>1 DEF Only, In, FoundInv, Terminal
      <4>. QED  BY <4>1, <4>2 DEF ScreenAt
    <3>4. CASE S = {"confirm", "trust"}
      <4>1. Leave("trust") /\ place' = "unwind"
        BY <2>11, <3>2, <3>4 DEF Unwind
      <4>2. In("confirm") /\ In("trust")
        BY <3>1, <3>4, HolderFacts DEF Only, Main
      <4>3. FoundInv' /\ ~In("trust")' /\ \A g \in Holders \ {"trust"} : In(g)' <=> In(g)
        BY <1>0, <4>1, <4>2, NestedLeaves, HolderFacts DEF Main
      <4>4. Only({"confirm"})'
        BY <3>1, <3>4, <4>3 DEF Only
      <4>. QED  BY <4>1, <4>3, <4>4 DEF ScreenAt
    <3>5. CASE S \in {{"launcher"}, {"confirm"}, {"app"}}
      <4>1. PICK m \in {"launcher", "confirm", "app"} : S = {m}
        BY <3>5
      <4>2. Leave(m) /\ place' = "unwind"
        <5>1. in # {} /\ "trust" \notin in /\ "settings" \notin in /\ (CHOOSE h \in in : TRUE) = m
          BY <3>2, <4>1
        <5>. QED  BY <2>11, <5>1 DEF Unwind
      <4>3. Only({})' /\ FoundInv'
        BY <1>0, <3>1, <4>1, <4>2, LastLeaves, HolderFacts DEF Main
      <4>. QED  BY <4>2, <4>3 DEF ScreenAt
    <3>. QED  BY <3>1, <3>3, <3>4, <3>5
  <2>. QED  BY <1>1, <2>1, <2>2, <2>3, <2>4, <2>5, <2>6, <2>7, <2>8, <2>9, <2>10, <2>11 DEF ShellStep
<1>2. CASE ShellKey
  <2>1. CASE LauncherKey
    <3>0. Only({"launcher"})
      BY <1>0, <2>1 DEF LauncherKey, ScreenAt
    <3>1. CASE Leave("launcher") /\ place' \in {"confirm", "over"}
      <4>1. Only({})' /\ FoundInv'
        BY <1>0, <3>0, <3>1, LastLeaves, HolderFacts DEF Main
      <4>. QED  BY <3>1, <4>1 DEF ScreenAt
    <3>2. CASE asks' = Told("launcher") /\ place' = "unwind" /\ UNCHANGED <<raw, hold>>
      <4>1. Only({"launcher"})' /\ FoundInv'
        BY <1>0, <3>0, <3>2, OnlyKeeps, HolderFacts DEF Main
      <4>. QED  BY <3>2, <4>1 DEF ScreenAt
    <3>. QED  BY <2>1, <3>1, <3>2 DEF LauncherKey, ShellThrows
  <2>2. CASE ConsentKey
    <3>0. /\ Only({"confirm"}) /\ asks' = Told("confirm") /\ raw' = raw /\ hold' = hold
          /\ place' \in {"preflight", "disable", "unwind"}
      BY <1>0, <2>2 DEF ConsentKey, ScreenAt, ShellThrows
    <3>1. Only({"confirm"})' /\ FoundInv'
      BY <1>0, <3>0, OnlyKeeps, HolderFacts DEF Main
    <3>. QED  BY <3>0, <3>1 DEF ScreenAt
  <2>3. CASE TrustKey
    <3>0. Only({"confirm", "trust"}) /\ Leave("trust") /\ place' \in {"preflight", "unwind"}
      BY <1>0, <2>3 DEF TrustKey, ScreenAt
    <3>1. In("confirm") /\ In("trust")
      BY <3>0, HolderFacts DEF Only, Main
    <3>2. FoundInv' /\ ~In("trust")' /\ \A g \in Holders \ {"trust"} : In(g)' <=> In(g)
      BY <1>0, <3>0, <3>1, NestedLeaves, HolderFacts DEF Main
    <3>3. Only({"confirm"})'
      BY <3>0, <3>2 DEF Only
    <3>. QED  BY <3>0, <3>2, <3>3 DEF ScreenAt
  <2>4. CASE WebhookKey
    <3>0. Only({"confirm"})
      BY <1>0, <2>4 DEF WebhookKey, ScreenAt
    <3>1. CASE Leave("confirm") /\ place' = "enter"
      <4>1. Only({})' /\ FoundInv'
        BY <1>0, <3>0, <3>1, LastLeaves, HolderFacts DEF Main
      <4>. QED  BY <3>1, <4>1 DEF ScreenAt
    <3>2. CASE asks' \in {Told("confirm"), Asked("confirm")} /\ place' \in {"consent", "unwind"} /\ UNCHANGED <<raw, hold>>
      <4>1. Only({"confirm"})' /\ FoundInv'
        BY <1>0, <3>0, <3>2, OnlyKeeps, HolderFacts DEF Main
      <4>. QED  BY <3>2, <4>1 DEF ScreenAt
    <3>. QED  BY <2>4, <3>1, <3>2 DEF WebhookKey, ShellThrows, AskAgain
  <2>5. CASE SessionsKey
    <3>0. Only({"app"})
      BY <1>0, <2>5 DEF SessionsKey, ScreenAt
    <3>1. CASE Leave("app") /\ place' = "over"
      <4>1. Only({})' /\ FoundInv'
        BY <1>0, <3>0, <3>1, LastLeaves, HolderFacts DEF Main
      <4>. QED  BY <3>1, <4>1 DEF ScreenAt
    <3>2. CASE /\ asks' \in {Told("app"), Asked("app")} /\ UNCHANGED <<raw, hold>>
               /\ place' \in {"sessions", "conversation", "unwind"}
      <4>1. Only({"app"})' /\ FoundInv'
        BY <1>0, <3>0, <3>2, OnlyKeeps, HolderFacts DEF Main
      <4>. QED  BY <3>2, <4>1 DEF ScreenAt
    <3>. QED  BY <2>5, <3>1, <3>2 DEF SessionsKey, ShellThrows
  <2>6. CASE ConversationKey
    <3>0. Only({"app"}) /\ place = "conversation"
      BY <1>0, <2>6 DEF ConversationKey, ScreenAt
    <3>1. CASE Leave("app") /\ place' \in {"turn", "over"}
      <4>1. Only({})' /\ FoundInv'
        BY <1>0, <3>0, <3>1, LastLeaves, HolderFacts DEF Main
      <4>. QED  BY <3>1, <4>1 DEF ScreenAt
    <3>2. CASE /\ asks' \in {Told("app"), Asked("app")} /\ UNCHANGED <<raw, hold>>
               /\ place' \in {"sessions", "conversation", "unwind"}
      <4>1. Only({"app"})' /\ FoundInv'
        BY <1>0, <3>0, <3>2, OnlyKeeps, HolderFacts DEF Main
      <4>. QED  BY <3>2, <4>1 DEF ScreenAt
    <3>3. CASE /\ place' = "settings" /\ Swap("app", "settings")
               /\ asks' = [Told("app") EXCEPT !["settings"] = "listening"]
      <4>1. Only({"settings"})' /\ FoundInv'
        BY <1>0, <3>0, <3>3, OnlySwaps, HolderFacts DEF Main
      <4>. QED  BY <3>3, <4>1 DEF ScreenAt
    <3>. QED  BY <2>6, <3>0, <3>1, <3>2, <3>3 DEF ConversationKey, ShellThrows
  <2>7. CASE SettingsKey
    <3>0. Only({"settings"}) /\ place = "settings"
      BY <1>0, <2>7 DEF SettingsKey, ScreenAt
    <3>1. CASE place' = "settings" /\ asks' = Asked("settings") /\ UNCHANGED <<raw, hold>>
      <4>1. Only({"settings"})' /\ FoundInv'
        BY <1>0, <3>0, <3>1, OnlyKeeps, HolderFacts DEF Main
      <4>. QED  BY <3>1, <4>1 DEF ScreenAt
    <3>2. CASE /\ place' \in {"conversation", "unwind"} /\ Swap("settings", "app")
               /\ asks' = Told("settings") \/ asks' = [Told("settings") EXCEPT !["app"] = "listening"]
      <4>1. Only({"app"})' /\ FoundInv'
        BY <1>0, <3>0, <3>2, OnlySwaps, HolderFacts DEF Main
      <4>. QED  BY <3>2, <4>1 DEF ScreenAt
    <3>. QED  BY <2>7, <3>0, <3>1, <3>2 DEF SettingsKey
  <2>8. CASE LeaveResult
    <3>0. Only({"renderer"}) /\ UNCHANGED Terminal /\ place' = "run-over"
      BY <1>0, <2>8 DEF LeaveResult, ScreenAt
    <3>1. Only({"renderer"})' /\ FoundInv'
      BY <1>0, <3>0 DEF Only, In, FoundInv, Terminal
    <3>. QED  BY <3>0, <3>1 DEF ScreenAt
  <2>. QED  BY <1>2, <2>1, <2>2, <2>3, <2>4, <2>5, <2>6, <2>7, <2>8 DEF ShellKey
<1>3. CASE DaemonTurns \/ AbortShell
  BY <1>0, <1>3, Unmoved DEF DaemonTurns, AbortShell
<1>4. CASE RunEnds
  <2>0. place = "run" /\ In("renderer") /\ (\A h \in Main \ {"trust"} : ~In(h)) /\ UNCHANGED Terminal
    BY <1>0, <1>4 DEF RunEnds, ScreenAt
  <2>1. \A h \in Nested : ~In(h)
    BY <1>0, <1>4 DEF RunEnds, Awaited
  <2>2. Only({"renderer"})
    BY <2>0, <2>1 DEF Only, Holders, Nested
  <2>3. place' \in {"exit-key", "run-over"}
    BY <1>4 DEF RunEnds
  <2>4. Only({"renderer"})' /\ FoundInv'
    BY <1>0, <2>0, <2>2 DEF Only, In, FoundInv, Terminal
  <2>. QED  BY <2>3, <2>4 DEF ScreenAt
<1>5. ASSUME NEW h \in Holders, KeyRejected(h) PROVE ScreenAt' /\ FoundInv'
  <2>0. In(h)
    BY <1>0, <1>5 DEF KeyRejected, Heard, FoundInv
  <2>1. CASE h \in Main \ {"settings"} /\ place \notin {"run", "unwind"} /\ asks' = Told(h) /\ place' = "unwind" /\ UNCHANGED <<raw, hold>>
    <3>1. \E S \in {{}, {"launcher"}, {"confirm"}, {"confirm", "trust"}, {"app"}} : Only(S)
      <4>1. h # "renderer"
        BY <2>1 DEF Main
      <4>. QED  BY <1>0, <2>0, <2>1, <4>1, TypeParts DEF ScreenAt, Only, RestOK, Places
    <3>2. PICK S \in {{}, {"launcher"}, {"confirm"}, {"confirm", "trust"}, {"app"}} : Only(S)
      BY <3>1
    <3>3. S \in SUBSET Holders
      BY HolderFacts DEF Main
    <3>4. Only(S)' /\ FoundInv'
      BY <1>0, <2>1, <3>2, <3>3, OnlyKeeps
    <3>. QED  BY <2>1, <3>4 DEF ScreenAt
  <2>2. CASE h = "settings" /\ Swap("settings", "app") /\ asks' = Told("settings") /\ place' = "unwind"
    <3>1. Only({"settings"})
      BY <1>0, <2>0, <2>2, TypeParts, HolderFacts DEF ScreenAt, Only, RestOK, Places, Main
    <3>2. Only({"app"})' /\ FoundInv'
      BY <1>0, <2>2, <3>1, OnlySwaps, HolderFacts DEF Main
    <3>. QED  BY <2>2, <3>2 DEF ScreenAt
  <2>3. CASE h \in Nested /\ place = "run" /\ Leave(h) /\ place' = place
    <3>0. In("renderer") /\ h # "renderer" /\ \A g \in Main \ {"trust"} : ~In(g)
      BY <1>0, <2>3, HolderFacts DEF ScreenAt
    <3>1. FoundInv' /\ \A g \in Holders \ {h} : In(g)' <=> In(g)
      BY <1>0, <2>0, <2>3, <3>0, NestedLeaves, HolderFacts
    <3>2. In("renderer")' /\ \A g \in Main \ {"trust"} : ~In(g)'
      BY <2>3, <3>0, <3>1, HolderFacts DEF Main
    <3>. QED  BY <2>3, <3>1, <3>2 DEF ScreenAt
  <2>. QED  BY <1>0, <1>5, <2>1, <2>2, <2>3 DEF KeyRejected, ShellThrows
<1>6. ASSUME NEW h \in Nested, OpenNested(h) \/ NestedKey(h) PROVE ScreenAt' /\ FoundInv'
  <2>0. place = "run" /\ place' = "run"
    BY <1>0, <1>6 DEF OpenNested, NestedKey
  <2>1. In("renderer") /\ h # "renderer" /\ \A g \in Main \ {"trust"} : ~In(g)
    BY <1>0, <2>0, HolderFacts DEF ScreenAt
  <2>2. FoundInv' /\ \A g \in Holders \ {h} : In(g)' <=> In(g)
    <3>1. CASE OpenNested(h)
      BY <1>0, <2>1, <3>1, NestedEnters, HolderFacts DEF OpenNested
    <3>2. CASE NestedKey(h)
      BY <1>0, <2>1, <3>2, NestedLeaves, HolderFacts DEF NestedKey
    <3>. QED  BY <1>6, <3>1, <3>2
  <2>3. In("renderer")' /\ \A g \in Main \ {"trust"} : ~In(g)'
    BY <1>6, <2>1, <2>2, HolderFacts DEF Main
  <2>. QED  BY <2>0, <2>2, <2>3 DEF ScreenAt
<1>7. CASE \E p \in Pickers : CallTimesOut(p)
  BY <1>0, <1>7, Unmoved DEF CallTimesOut
<1>. QED  BY <1>1, <1>2, <1>3, <1>4, <1>5, <1>6, <1>7 DEF ShellNext

-----------------------------------------------------------------------------
LEMMA ShellInitially == ShellInit => ShellTypeOK /\ ScreenInv /\ ConsentInv
<1> SUFFICES ASSUME ShellInit PROVE ScreenInv /\ ConsentInv
  BY ShellTypeInit
<1>1. place \in {"start", "confirm"} /\ ~raw /\ \A h \in Holders : hold[h] = "out" /\ asks[h] = "none"
  BY DEF ShellInit
<1>2. Only({}) /\ FoundInv
  BY <1>1, HolderFacts DEF Only, In, FoundInv
<1>. QED  BY <1>1, <1>2 DEF ScreenInv, ScreenAt, ConsentInv

LEMMA ShellInductive == ShellTypeOK /\ ScreenInv /\ ConsentInv /\ [ShellNext]_shellVars => (ShellTypeOK /\ ScreenInv /\ ConsentInv)'
<1>1. ASSUME ScreenInv, UNCHANGED shellVars PROVE ScreenInv'
  BY <1>1 DEF shellVars, ScreenInv, ScreenAt, FoundInv, Only, In
<1>. QED  BY <1>1, ShellTypeNext, ScreenNext, ConsentNext

\* However screens, runs and questions of bundles follow each other and whatever throws or is
\* aborted: when no screen is in, the input is as it was found, as long as no question
\* outlived its call or its run.
THEOREM ShellIsSafe == ShellSpec => []ShellSafe
<1>1. ShellTypeOK /\ ScreenInv => ShellSafe
  <2>1. FoundInv => NestedGivenBack
    BY DEF FoundInv, NestedGivenBack
  <2>. QED  BY <2>1 DEF ScreenInv, ShellSafe, NestedGivenBack
<1>. QED  BY <1>1, ShellInitially, ShellInductive, PTL DEF ShellSpec

\* A background app is entered only when the user accepted, its bundles were checked after
\* that, and the daemon was told to enable it.
THEOREM EntersByConsent == ShellSpec => []EnteredByConsent
<1>1. ShellTypeOK /\ ConsentInv => EnteredByConsent
  <2> SUFFICES ASSUME ConsentInv, ShellTypeOK PROVE EnteredByConsent
    OBVIOUS
  <2>. QED  BY DEF ConsentInv, Consented, EnteredByConsent, ShellTypeOK
<1>. QED  BY <1>1, ShellInitially, ShellInductive, PTL DEF ShellSpec

-----------------------------------------------------------------------------
(* The layout.                                                             *)

Count == SubmitForm - 1
Cell == [at : Nat, row : Nat, used : 0 .. 5]
\* The step of the recursion of Placed from the cell before field i to its cell.
NextCell(p, i, s) ==
  LET wrap == p.used > 0 /\ p.used + Span(i, s) > 6
      at == IF wrap THEN p.row + 1 ELSE p.row
      filled == Span(i, s) + (IF wrap THEN 0 ELSE p.used)
  IN [at |-> at, row |-> IF filled = 6 THEN at + 1 ELSE at, used |-> filled % 6]
FirstCell == [at |-> 0, row |-> 1, used |-> 0]
IsPlacing(f, s) == f = [i \in 0 .. Count |-> IF i = 0 THEN FirstCell ELSE NextCell(f[i - 1], i, s)]
\* A row is open, or the next one is.
Tidy(p) == p \in Cell /\ p.row = (IF p.used = 0 THEN p.at + 1 ELSE p.at) /\ (p.used = 0 \/ p.at > 0)

LEMMA CountNat == Count \in Nat /\ SubmitForm = Count + 1
BY FormAssumption, LenProperties DEF Count, SubmitForm

LEMMA SpanFacts == ASSUME NEW i, NEW s PROVE Span(i, s) \in {2, 3, 4, 6}
BY DEF Span

LEMMA NextCellFacts ==
  ASSUME NEW p, Tidy(p), NEW i, NEW s
  PROVE  /\ Tidy(NextCell(p, i, s))
         /\ NextCell(p, i, s).at \in {p.at, p.at + 1} /\ NextCell(p, i, s).at > 0
<1> DEFINE w == Span(i, s)
           wrap == p.used > 0 /\ p.used + w > 6
           at == IF wrap THEN p.row + 1 ELSE p.row
           filled == w + (IF wrap THEN 0 ELSE p.used)
<1>1. w \in {2, 3, 4, 6}
  BY SpanFacts
<1>. HIDE DEF w
<1>2. p.at \in Nat /\ p.row \in Nat /\ p.used \in 0 .. 5 /\ p.row = (IF p.used = 0 THEN p.at + 1 ELSE p.at) /\ (p.used = 0 \/ p.at > 0)
  BY DEF Tidy, Cell
<1>3. filled \in 2 .. 6 /\ at \in {p.at, p.at + 1} /\ at > 0 /\ at \in Nat
  BY <1>1, <1>2
<1>4. NextCell(p, i, s) = [at |-> at, row |-> IF filled = 6 THEN at + 1 ELSE at, used |-> filled % 6]
  BY DEF NextCell, w
<1>. HIDE DEF at, filled
<1>5. filled % 6 = (IF filled = 6 THEN 0 ELSE filled)
  BY <1>3
<1>. QED  BY <1>3, <1>4, <1>5 DEF Tidy, Cell

LEMMA PlacingExists == ASSUME NEW s PROVE \E f : IsPlacing(f, s)
<1> DEFINE V == {p \in Cell : Tidy(p)}
           h == [x \in (1 .. Count) \X V |-> NextCell(x[2], x[1], s)]
<1>1. IsStep(h, Count, V)
  <2>1. ASSUME NEW i \in 1 .. Count, NEW p \in V PROVE NextCell(p, i, s) \in V
    BY NextCellFacts DEF Tidy
  <2>. HIDE DEF V
  <2>. QED  BY <2>1 DEF IsStep
<1>2. FirstCell \in V
  BY DEF Tidy, Cell, FirstCell
<1>3. PICK f : Follows(f, Count, V, FirstCell, h)
  <2>. HIDE DEF V, h
  <2>. QED  BY <1>1, <1>2, CountNat, RecursionExists
<1>4. \A i \in 1 .. Count : f[i] = NextCell(f[i - 1], i, s)
  <2>1. ASSUME NEW i \in 1 .. Count PROVE f[i] = NextCell(f[i - 1], i, s)
    <3>1. i - 1 \in 0 .. Count
      BY CountNat
    <3>2. f[i - 1] \in V
      BY <1>3, <3>1 DEF Follows
    <3>. HIDE DEF V
    <3>3. h[<<i, f[i - 1]>>] = NextCell(f[i - 1], i, s)
      BY <3>2
    <3>. HIDE DEF h
    <3>. QED  BY <1>3, <3>3 DEF Follows
  <2>. QED  BY <2>1
<1>5. f = [i \in 0 .. Count |-> f[i]] /\ f[0] = FirstCell
  BY <1>3 DEF Follows
<1>. HIDE DEF V, h
<1>6. ASSUME NEW i \in 0 .. Count PROVE f[i] = IF i = 0 THEN FirstCell ELSE NextCell(f[i - 1], i, s)
  <2>1. CASE i = 0
    BY <1>5, <2>1
  <2>2. CASE i # 0
    <3>1. i \in 1 .. Count
      BY <2>2, CountNat
    <3>2. f[i] = NextCell(f[i - 1], i, s)
      BY <1>4, <3>1
    <3>. QED  BY <2>2, <3>2
  <2>. QED  BY <2>1, <2>2
<1> DEFINE g == [i \in 0 .. Count |-> IF i = 0 THEN FirstCell ELSE NextCell(f[i - 1], i, s)]
<1>7. \A i \in 0 .. Count : g[i] = f[i]
  BY <1>6
<1>8. g = [i \in 0 .. Count |-> g[i]]
  OBVIOUS
<1>9. f = g
  <2>. HIDE DEF g
  <2>. QED  BY <1>5, <1>7, <1>8
<1>10. IsPlacing(f, s)
  BY <1>9, Zenon DEF IsPlacing
<1>. QED  BY <1>10

LEMMA PlacedFacts ==
  ASSUME NEW s \in Screens
  PROVE  /\ Placed[s][0] = FirstCell
         /\ \A i \in 1 .. Count : Placed[s][i] = NextCell(Placed[s][i - 1], i, s)
<1> DEFINE c == CHOOSE f : IsPlacing(f, s)
<1>1. IsPlacing(c, s)
  <2>. HIDE DEF IsPlacing
  <2>. QED  BY PlacingExists, Zenon
<1>2. Placed[s] = [i \in 0 .. Count |-> c[i]]
  BY Zenon DEF Placed, IsPlacing, FirstCell, NextCell, Count
<1>. HIDE DEF c
<1>3. c[0] = FirstCell /\ \A i \in 1 .. Count : c[i] = NextCell(c[i - 1], i, s)
  BY <1>1, CountNat DEF IsPlacing
<1>. QED  BY <1>2, <1>3, CountNat

\* Fields stand in rows from the first to the last, in their order.
LEMMA PlacedInOrder ==
  ASSUME NEW s \in Screens
  PROVE  \A i \in 0 .. Count : /\ Tidy(Placed[s][i])
                               /\ i > 0 => Placed[s][i].at > 0
                               /\ Placed[s][i].at <= Placed[s][Count].at
<1> DEFINE at(i) == Placed[s][i].at
           S == {i \in 0 .. Count : Tidy(Placed[s][i]) /\ (i > 0 => at(i) > 0)}
           D == {d \in 0 .. Count : at(Count - d) <= at(Count)}
<1>1. 0 \in S
  BY PlacedFacts, CountNat DEF Tidy, Cell, FirstCell
<1>2. ASSUME NEW i \in 0 .. Count - 1, i \in S PROVE i + 1 \in S /\ at(i) <= at(i + 1)
  <2>1. i + 1 \in 1 .. Count /\ (i + 1) - 1 = i
    BY CountNat
  <2>2. Placed[s][i + 1] = NextCell(Placed[s][i], i + 1, s)
    BY <2>1, PlacedFacts
  <2>3. Tidy(Placed[s][i]) /\ at(i) \in Nat
    BY <1>2 DEF Tidy, Cell
  <2>4. Tidy(Placed[s][i + 1]) /\ at(i + 1) \in {at(i), at(i) + 1} /\ at(i + 1) > 0
    BY <2>2, <2>3, NextCellFacts
  <2>. QED  BY <2>1, <2>3, <2>4
<1>3. 0 .. Count \subseteq S
  <2>. HIDE DEF S
  <2>. QED  BY <1>1, <1>2, CountNat, UpTo
<1>4. \A i \in 0 .. Count : at(i) \in Nat
  BY <1>3 DEF Tidy, Cell
<1>5. 0 \in D
  BY <1>4, CountNat
<1>6. ASSUME NEW d \in 0 .. Count - 1, d \in D PROVE d + 1 \in D
  <2>1. Count - (d + 1) \in 0 .. Count - 1 /\ Count - (d + 1) + 1 = Count - d
    BY CountNat
  <2>2. at(Count - (d + 1)) <= at(Count - d)
    <3>1. PICK i \in 0 .. Count - 1 : i = Count - (d + 1) /\ i + 1 = Count - d
      BY <2>1
    <3>2. i \in S
      <4>1. i \in 0 .. Count
        BY <3>1, CountNat
      <4>. HIDE DEF S
      <4>. QED  BY <1>3, <4>1
    <3>3. at(i) <= at(i + 1)
      <4>. HIDE DEF S, at
      <4>. QED  BY <1>2, <3>2
    <3>. QED  BY <3>1, <3>3
  <2>3. d + 1 \in 0 .. Count /\ Count - d \in 0 .. Count
    BY CountNat
  <2>. QED  BY <1>4, <1>6, <2>1, <2>2, <2>3, CountNat
<1>7. 0 .. Count \subseteq D
  <2>. HIDE DEF D
  <2>. QED  BY <1>5, <1>6, CountNat, UpTo
<1>8. ASSUME NEW i \in 0 .. Count PROVE at(i) <= at(Count)
  <2>1. Count - i \in 0 .. Count /\ Count - (Count - i) = i
    BY CountNat
  <2>2. Count - i \in D
    BY <1>7, <2>1
  <2>. QED  BY <2>1, <2>2
<1>. QED  BY <1>3, <1>8

\* The lines of a field and of the button that submits are in the body.
LEMMA LayoutFacts ==
  ASSUME NEW s \in Screens, NEW i \in 1 .. SubmitForm
  PROVE  /\ LineCount(s) \in Nat /\ First(i, s) \in Nat /\ Last(i, s) \in Nat
         /\ First(i, s) <= Last(i, s) /\ Last(i, s) < LineCount(s)
         /\ Last(i, s) \in {First(i, s), First(i, s) + 3}
<1>1. Tidy(Placed[s][Count]) /\ Placed[s][Count].at \in Nat
  BY PlacedInOrder, CountNat DEF Tidy, Cell
<1>2. LineCount(s) = 4 * Placed[s][Count].at + 1
  BY <1>1 DEF LineCount, Tidy, Cell, Count
<1>3. CASE i = SubmitForm
  BY <1>1, <1>2, <1>3 DEF First, Last
<1>4. CASE i # SubmitForm
  <2>1. i \in 0 .. Count /\ i > 0
    BY <1>4, CountNat
  <2>2. Placed[s][i].at \in Nat /\ Placed[s][i].at > 0 /\ Placed[s][i].at <= Placed[s][Count].at
    BY <2>1, PlacedInOrder DEF Tidy, Cell
  <2>3. First(i, s) = 4 * (Placed[s][i].at - 1) /\ Last(i, s) = First(i, s) + 3
    BY <1>4 DEF First, Last
  <2>. QED  BY <1>1, <1>2, <2>2, <2>3
<1>. QED  BY <1>3, <1>4

-----------------------------------------------------------------------------
(* The window.                                                             *)

EditorType == [focus : 1 .. SubmitForm, editing : BOOLEAN, len : Nat, cursor : Nat, start : Nat]
\* The lines of the field in focus are in the window.
Window(f, s) == f.start <= First(f.focus, s) /\ Last(f.focus, s) < f.start + Available(f, s)

LEMMA AvailableFacts ==
  ASSUME NEW f, NEW s \in Screens PROVE Available(f, s) \in Nat /\ Available(f, s) >= 4
<1>1. s.lines \in Nat \ (0 .. 4)
  BY FormAssumption
<1>. QED  BY <1>1 DEF Available

LEMMA ScrolledFacts ==
  ASSUME NEW s \in Screens, NEW f \in EditorType
  PROVE  /\ Scrolled(f, s) \in Nat
         /\ Scrolled(f, s) <= First(f.focus, s)
         /\ Last(f.focus, s) < Scrolled(f, s) + Available(f, s)
<1> DEFINE first == First(f.focus, s)
           last == Last(f.focus, s)
           room == Available(f, s)
           count == LineCount(s)
           start == f.start
           up == AtMost(start, first)
           down == IF last >= up + room THEN last - room + 1 ELSE up
<1>1. f.focus \in 1 .. SubmitForm /\ start \in Nat
  BY DEF EditorType
<1>2. /\ count \in Nat /\ first \in Nat /\ last \in Nat /\ first <= last /\ last < count
      /\ last \in {first, first + 3}
  BY <1>1, LayoutFacts
<1>3. room \in Nat /\ room >= 4
  BY AvailableFacts
<1>4. Scrolled(f, s) = AtLeast(0, AtMost(down, AtLeast(0, count - room)))
  BY DEF Scrolled
<1>. HIDE DEF first, last, room, count, start
<1>5. up \in Nat /\ up <= first
  BY <1>1, <1>2 DEF AtMost
<1>6. down \in Nat /\ down <= first /\ last < down + room
  BY <1>2, <1>3, <1>5
<1>. HIDE DEF down
<1>7. /\ AtLeast(0, AtMost(down, AtLeast(0, count - room))) \in Nat
      /\ AtLeast(0, AtMost(down, AtLeast(0, count - room))) <= first
      /\ last < AtLeast(0, AtMost(down, AtLeast(0, count - room))) + room
  BY <1>2, <1>3, <1>6 DEF AtLeast, AtMost
<1>. QED  BY <1>4, <1>7 DEF first, last, room

LEMMA DrawFacts ==
  ASSUME NEW s \in Screens, NEW f \in EditorType, Draw(f, s)
  PROVE  /\ editor' \in EditorType /\ Window(editor', s)
         /\ editor'.focus = f.focus /\ editor'.editing = f.editing
         /\ editor'.len = f.len /\ editor'.cursor = f.cursor
<1>1. editor' = [f EXCEPT !.start = Scrolled(f, s)] /\ Scrolled(f, s) \in Nat
  BY ScrolledFacts DEF Draw
<1>2. /\ editor'.focus = f.focus /\ editor'.len = f.len
      /\ editor'.cursor = f.cursor /\ editor'.start = Scrolled(f, s)
  BY <1>1 DEF EditorType
<1>3. editor'.editing = f.editing
  BY <1>1 DEF EditorType
<1>4. editor' \in EditorType
  BY <1>1 DEF EditorType
<1>5. Available(editor', s) = Available(f, s)
  BY <1>3 DEF Available
<1>. QED  BY <1>2, <1>3, <1>4, <1>5, ScrolledFacts DEF Window

LEMMA LabelPainted ==
  ASSUME screen \in Screens, editor \in EditorType, Window(editor, screen), editor.focus # SubmitForm
  PROVE  First(editor.focus, screen) \in Painted
<1> DEFINE first == First(editor.focus, screen)
           room == Available(editor, screen)
           count == LineCount(screen)
           start == editor.start
           marks == (IF start > 0 THEN 1 ELSE 0) + (IF start + room < count THEN 1 ELSE 0)
<1>1. editor.focus \in 1 .. SubmitForm /\ start \in Nat
  BY DEF EditorType
<1>2. count \in Nat /\ first \in Nat /\ Last(editor.focus, screen) = first + 3
  BY <1>1, LayoutFacts DEF First, Last
<1>3. room \in Nat /\ room >= 4
  BY AvailableFacts
<1>4. start <= first /\ first + 3 < start + room
  BY <1>2 DEF Window
<1>5. Painted = start .. start + AtLeast(1, room - marks) - 1
  BY DEF Painted
<1>. HIDE DEF first, room, count, start
<1>6. first \in start .. start + AtLeast(1, room - marks) - 1
  BY <1>1, <1>2, <1>3, <1>4 DEF AtLeast
<1>. QED  BY <1>5, <1>6 DEF first

-----------------------------------------------------------------------------
(* The invariant.                                                          *)

SessionType ==
  [entered : BOOLEAN, raw : BOOLEAN, bound : {"none", "cancel", "form", "exit"}, listening : BOOLEAN]

\* What is typed goes into an input, and the cursor is behind its end by what was pushed out.
EditorInv ==
  /\ editor \in EditorType
  /\ editor.cursor <= editor.len + overrun
  /\ editor.editing => editor.focus # SubmitForm /\ FormFields[editor.focus].component = "input"
  /\ values \in [1 .. Count -> Nat]
  /\ \A i \in 1 .. Count : FormFields[i].component # "input" => values[i] <= 1

\* Who reads the keys while a prompt is open.
ReaderInv ==
  /\ CancelHeard
  /\ (prompt = "pending" /\ RunGoesOn) => session.bound = "form"
  /\ (prompt = "pending" /\ RunGoesOn /\ ~formAborted) => session.listening
  /\ (prompt = "pending" /\ ~RunGoesOn) => late

WindowInv == (view = "form" /\ prompt = "pending") => Window(editor, screen)

ValuesOK(v) == v \in [1 .. Count -> Nat] /\ \A i \in 1 .. Count : FormFields[i].component # "input" => v[i] <= 1
\* A text with its cursor in a field that takes text.
EditorOK(f, more) ==
  /\ f \in EditorType /\ f.cursor <= f.len + more
  /\ f.editing => f.focus # SubmitForm /\ FormFields[f.focus].component = "input"

LEMMA EditorInvIs == EditorInv <=> EditorOK(editor, overrun) /\ ValuesOK(values)
BY DEF EditorInv, EditorOK, ValuesOK

LEMMA DrawKeeps ==
  ASSUME NEW s \in Screens, NEW f, NEW more, EditorOK(f, more), Draw(f, s)
  PROVE  EditorOK(editor', more) /\ Window(editor', s)
<1>1. f \in EditorType
  BY DEF EditorOK
<1>. QED  BY <1>1, DrawFacts DEF EditorOK

LEMMA TypingKeeps ==
  ASSUME EditorInv, screen \in Screens, NEW f, NEW vals, NEW more,
         EditorOK(f, overrun + more), ValuesOK(vals), Typing(f, vals, more)
  PROVE  EditorInv' /\ Window(editor', screen')
<1>1. Draw(f, screen) /\ values' = vals /\ overrun' = overrun + more /\ screen' = screen
  BY DEF Typing
<1>2. EditorOK(editor', overrun') /\ Window(editor', screen')
  BY <1>1, DrawKeeps
<1>3. ValuesOK(values')
  BY <1>1
<1>. QED  BY <1>2, <1>3, EditorInvIs DEF EditorInv, EditorOK, ValuesOK

LEMMA EmptyFormOK == ASSUME NEW more \in Nat PROVE EditorOK(EmptyForm, more)
BY CountNat, FormAssumption DEF EmptyForm, EditorOK, EditorType

\* The editor with another text and cursor.
LEMMA TextOK ==
  ASSUME NEW f \in EditorType, NEW m, NEW more \in Nat, EditorOK(f, m),
         NEW len \in Nat, NEW cursor \in 0 .. len + more
  PROVE  EditorOK([f EXCEPT !.len = len, !.cursor = cursor], more)
<1> DEFINE g == [f EXCEPT !.len = len, !.cursor = cursor]
<1>1. cursor \in Nat
  BY FormAssumption
<1>2. g.len = len /\ g.cursor = cursor /\ g.focus = f.focus /\ g \in EditorType
  BY <1>1 DEF EditorType
<1>3. g.editing = f.editing
  BY DEF EditorType
<1>. HIDE DEF g
<1>. QED  BY <1>2, <1>3 DEF EditorOK, g

LEMMA StoppedOK ==
  ASSUME NEW f \in EditorType, NEW more \in Nat
  PROVE  EditorOK([f EXCEPT !.editing = FALSE, !.len = 0, !.cursor = 0], more)
<1> DEFINE g == [f EXCEPT !.editing = FALSE, !.len = 0, !.cursor = 0]
<1>1. g.len = 0 /\ g.cursor = 0
  BY DEF EditorType
<1>2. ~g.editing
  BY DEF EditorType
<1>3. 0 \in Nat /\ FALSE \in BOOLEAN
  BY FormAssumption
<1>4. g \in EditorType
  BY <1>3, Zenon DEF EditorType
<1>. HIDE DEF g
<1>. QED  BY <1>1, <1>2, <1>4 DEF EditorOK, g

LEMMA CommittedOK == EditorInv => ValuesOK(Committed)
<1>. SUFFICES ASSUME EditorInv PROVE ValuesOK(Committed)
  OBVIOUS
<1>1. CASE editor.editing
  <2>1. Committed = [values EXCEPT ![editor.focus] = editor.len]
    BY <1>1 DEF Committed
  <2>2. editor.len \in Nat /\ values \in [1 .. Count -> Nat]
    BY DEF EditorInv, EditorType
  <2>3. FormFields[editor.focus].component = "input"
    BY <1>1 DEF EditorInv
  <2>4. Committed \in [1 .. Count -> Nat]
    BY <2>1, <2>2
  <2>5. ASSUME NEW i \in 1 .. Count, FormFields[i].component # "input" PROVE Committed[i] <= 1
    BY <2>1, <2>2, <2>3, <2>5 DEF EditorInv
  <2>. QED  BY <2>4, <2>5 DEF ValuesOK
<1>2. CASE ~editor.editing
  BY <1>2 DEF Committed, EditorInv, ValuesOK
<1>. QED  BY <1>1, <1>2

LEMMA EditingKeeps ==
  ASSUME EditorInv, screen \in Screens, overrun \in Nat, EditingKey
  PROVE  EditorInv' /\ Window(editor', screen')
<1>1. editor \in EditorType /\ EditorOK(editor, overrun) /\ ValuesOK(values) /\ ValuesOK(Committed)
  BY EditorInvIs, CommittedOK DEF EditorInv
<1>2. /\ editor.len \in Nat /\ editor.cursor \in Nat /\ editor.cursor <= editor.len + overrun
      /\ MaxChars \in Nat \ {0}
  BY FormAssumption DEF EditorInv, EditorType
<1>3. overrun + 0 = overrun
  OBVIOUS
<1>4. ASSUME NEW len \in Nat, NEW cursor \in 0 .. len + overrun, Edit(len, cursor)
      PROVE  EditorInv' /\ Window(editor', screen')
  BY <1>1, <1>3, <1>4, TextOK, TypingKeeps DEF Edit
<1>5. ASSUME NEW vals, ValuesOK(vals), Stop(vals) PROVE EditorInv' /\ Window(editor', screen')
  BY <1>1, <1>3, <1>5, StoppedOK, TypingKeeps DEF Stop
<1>6. CASE Stop(Committed) \/ Stop(values)
  BY <1>1, <1>5, <1>6
<1>7. CASE NewLine
  <2> DEFINE len == AtMost(editor.len + 1, MaxChars)
             pushed == editor.len + 1 - len
  <2>1. len \in Nat /\ pushed \in Nat /\ editor.cursor + 1 \in 0 .. len + (overrun + pushed) /\ overrun + pushed \in Nat
    BY <1>2 DEF AtMost
  <2>2. Typing([editor EXCEPT !.len = len, !.cursor = editor.cursor + 1], values, pushed)
    BY <1>7 DEF NewLine
  <2>. HIDE DEF len, pushed
  <2>3. EditorOK([editor EXCEPT !.len = len, !.cursor = editor.cursor + 1], overrun + pushed)
    BY <1>1, <2>1, TextOK
  <2>. QED  BY <1>1, <2>2, <2>3, TypingKeeps
<1>9. CASE editor.cursor > 0 /\ Edit(Backspaced, editor.cursor - 1)
  <2>1. Backspaced \in Nat /\ editor.cursor - 1 \in 0 .. Backspaced + overrun
    BY <1>2, <1>9 DEF Backspaced
  <2>. QED  BY <1>4, <1>9, <2>1
<1>10. CASE Edit(DeletedAfter, editor.cursor)
  <2>1. DeletedAfter \in Nat /\ editor.cursor \in 0 .. DeletedAfter + overrun
    BY <1>2 DEF DeletedAfter
  <2>. QED  BY <1>4, <1>10, <2>1
<1>11. CASE Edit(editor.len, AtLeast(0, editor.cursor - 1))
  <2>1. AtLeast(0, editor.cursor - 1) \in 0 .. editor.len + overrun
    BY <1>2 DEF AtLeast
  <2>. QED  BY <1>2, <1>4, <1>11, <2>1
<1>12. CASE Edit(editor.len, AtMost(editor.len, editor.cursor + 1))
  <2>1. AtMost(editor.len, editor.cursor + 1) \in 0 .. editor.len + overrun
    BY <1>2 DEF AtMost
  <2>. QED  BY <1>2, <1>4, <1>12, <2>1
<1>13. CASE Edit(editor.len, 0) \/ Edit(editor.len, editor.len)
  <2>1. 0 \in 0 .. editor.len + overrun /\ editor.len \in 0 .. editor.len + overrun
    BY <1>2
  <2>. QED  BY <1>2, <1>4, <1>13, <2>1
<1>14. ASSUME NEW n \in 1 .. MaxChars, Insert(n)
       PROVE  EditorInv' /\ Window(editor', screen')
  <2>1. Inserted(n) \in Nat
    BY <1>2 DEF Inserted, AtMost, AtLeast
  <2>2. editor.len + Inserted(n) \in Nat /\ editor.cursor + Inserted(n) \in 0 .. (editor.len + Inserted(n)) + overrun
    BY <1>2, <2>1
  <2>. QED  BY <1>4, <1>14, <2>2 DEF Insert
<1>. HIDE DEF WindowInv
<1>. QED  BY <1>6, <1>7, <1>9, <1>10, <1>11, <1>12, <1>13, <1>14 DEF EditingKey

LEMMA SelectionKeeps ==
  ASSUME EditorInv, screen \in Screens, overrun \in Nat, SelectionKey
  PROVE  EditorInv' /\ Window(editor', screen')
<1>1. editor \in EditorType /\ EditorOK(editor, overrun) /\ ValuesOK(values) /\ overrun + 0 = overrun
  BY EditorInvIs DEF EditorInv
<1>2. /\ editor.focus \in 1 .. SubmitForm /\ ~editor.editing /\ Count \in Nat /\ SubmitForm = Count + 1
      /\ MaxChars \in Nat \ {0}
  BY CountNat, FormAssumption DEF EditorInv, EditorType, SelectionKey
<1>3. ASSUME NEW delta \in {1, -1}, Move(delta) PROVE EditorInv' /\ Window(editor', screen')
  <2> DEFINE focus == ((editor.focus - 1 + delta + SubmitForm) % SubmitForm) + 1
             f == [editor EXCEPT !.focus = focus]
  <2>1. focus \in 1 .. SubmitForm
    <3>1. editor.focus - 1 + delta + SubmitForm \in Nat /\ SubmitForm \in Nat \ {0}
      BY <1>2, <1>3
    <3>. QED  BY <3>1
  <2>. HIDE DEF focus
  <2>2. f \in EditorType /\ f.cursor = editor.cursor /\ f.len = editor.len
    BY <1>1, <2>1 DEF EditorType
  <2>3. ~f.editing
    BY <1>1, <1>2 DEF EditorType
  <2>4. EditorOK(f, overrun)
    <3>. HIDE DEF f
    <3>. QED  BY <1>1, <2>2, <2>3 DEF EditorOK
  <2>5. Typing(f, values, 0)
    BY <1>3 DEF Move, focus
  <2>. QED  BY <1>1, <2>4, <2>5, TypingKeeps
<1>4. ASSUME editor.focus # SubmitForm, Kind # "input", NEW v \in {1 - values[editor.focus], 1},
             Typing(editor, [values EXCEPT ![editor.focus] = v], 0)
      PROVE  EditorInv' /\ Window(editor', screen')
  <2>1. editor.focus \in 1 .. Count /\ FormFields[editor.focus].component # "input"
    BY <1>2, <1>4 DEF Kind
  <2>2. values \in [1 .. Count -> Nat] /\ values[editor.focus] <= 1
    BY <1>1, <2>1 DEF ValuesOK
  <2>3. v \in Nat /\ v <= 1
    <3>1. values[editor.focus] \in Nat
      BY <2>1, <2>2
    <3>. QED  BY <1>2, <2>2, <3>1
  <2>4. ValuesOK([values EXCEPT ![editor.focus] = v])
    BY <1>1, <2>3 DEF ValuesOK
  <2>. QED  BY <1>1, <1>4, <2>4, TypingKeeps
<1>5. ASSUME editor.focus # SubmitForm, Kind = "input", NEW text, text = values[editor.focus],
             Typing([editor EXCEPT !.editing = TRUE, !.len = text, !.cursor = text], values, 0)
      PROVE  EditorInv' /\ Window(editor', screen')
  <2> DEFINE f == [editor EXCEPT !.editing = TRUE, !.len = text, !.cursor = text]
  <2>1. text \in Nat
    BY <1>1, <1>2, <1>5 DEF ValuesOK
  <2>2. f \in EditorType /\ f.cursor = text /\ f.len = text /\ f.focus = editor.focus
    BY <1>1, <2>1 DEF EditorType
  <2>3. EditorOK(f, overrun)
    <3>. HIDE DEF f
    <3>. QED  BY <1>5, <2>1, <2>2 DEF EditorOK, Kind
  <2>. QED  BY <1>1, <1>5, <2>3, TypingKeeps
<1>6. CASE Move(1) \/ Move(-1)
  BY <1>3, <1>6
<1>7. CASE /\ editor.focus # SubmitForm /\ Kind = "checkbox"
           /\ Typing(editor, [values EXCEPT ![editor.focus] = 1 - @], 0)
  BY <1>4, <1>7
<1>8. CASE /\ editor.focus # SubmitForm /\ Kind = "button"
           /\ Typing(editor, [values EXCEPT ![editor.focus] = 1], 0)
  BY <1>4, <1>8
<1>9. CASE /\ editor.focus # SubmitForm /\ Kind = "input"
           /\ LET text == values[editor.focus]
              IN Typing([editor EXCEPT !.editing = TRUE, !.len = text, !.cursor = text], values, 0)
  BY <1>5, <1>9
<1>. QED  BY <1>6, <1>7, <1>8, <1>9 DEF SelectionKey

-----------------------------------------------------------------------------
(* The session and who reads the keys.                                     *)

SimpleTypeOK ==
  /\ session \in SessionType
  /\ phase \in {"new", "running", "waiting", "completed", "failed", "disposed"}
  /\ clock \in BOOLEAN /\ view \in {"output", "form"} /\ formAborted \in BOOLEAN /\ late \in BOOLEAN
  /\ prompt \in {"none", "pending", "given", "rejected"} /\ leaving \in {"none", "pending", "over"}
  /\ screen \in Screens /\ overrun \in 0 .. MaxOverrun

FormInv == SimpleTypeOK /\ EditorInv /\ WindowInv /\ ReaderInv /\ TerminalRestored /\ AbortSettles

LEMMA EnteredFacts ==
  ASSUME NEW s \in SessionType
  PROVE  Entered(s) \in SessionType /\ Entered(s).bound = s.bound /\ Entered(s).listening = s.listening
<1>1. Entered(s) \in SessionType
  BY DEF Entered, SessionType
<1>2. Entered(s).bound = s.bound
  BY DEF Entered, SessionType
<1>3. Entered(s).listening = s.listening
  BY DEF Entered, SessionType
<1>. QED  BY <1>1, <1>2, <1>3

LEMMA BoundFacts ==
  ASSUME NEW s \in SessionType, NEW handler \in {"none", "cancel", "form", "exit"}, NEW signal \in BOOLEAN
  PROVE  /\ Bound(s, handler, signal) \in SessionType
         /\ Bound(s, handler, signal).bound = handler /\ Bound(s, handler, signal).listening = signal
<1>1. Bound(s, handler, signal) \in SessionType
  BY DEF Bound, SessionType
<1>2. Bound(s, handler, signal).bound = handler
  BY DEF Bound, SessionType
<1>3. Bound(s, handler, signal).listening = signal
  BY DEF Bound, SessionType
<1>. QED  BY <1>1, <1>2, <1>3

LEMMA UnboundFacts ==
  ASSUME NEW s \in SessionType
  PROVE  Unbound(s) \in SessionType /\ Unbound(s).bound = "none"
<1>1. Unbound(s) = Bound(s, "none", FALSE)
  BY DEF Unbound, Bound
<1>2. FALSE \in BOOLEAN /\ "none" \in {"none", "cancel", "form", "exit"}
  OBVIOUS
<1>3. Bound(s, "none", FALSE) \in SessionType /\ Bound(s, "none", FALSE).bound = "none"
  BY <1>2, BoundFacts, Zenon
<1>. QED  BY <1>1, <1>3, Zenon

LEMMA ListensForCancel ==
  ASSUME NEW s \in SessionType
  PROVE  Bound(s, "cancel", FALSE) \in SessionType /\ Bound(s, "cancel", FALSE).bound = "cancel"
<1>1. FALSE \in BOOLEAN /\ "cancel" \in {"none", "cancel", "form", "exit"}
  OBVIOUS
<1>. QED  BY <1>1, BoundFacts, Zenon

LEMMA AwayFacts == Away \in SessionType
<1>. FALSE \in BOOLEAN /\ "none" \in {"none", "cancel", "form", "exit"}
  OBVIOUS
<1>. QED  BY Zenon DEF Away, SessionType

LEMMA PaintFacts ==
  ASSUME SimpleTypeOK, NEW s \in SessionType, PaintOutput(s)
  PROVE  /\ session' \in SessionType /\ view' \in {"output", "form"}
         /\ session'.bound = s.bound /\ session'.listening = s.listening
         /\ view' = "output" \/ UNCHANGED view
<1>1. CASE session.entered
  BY <1>1, EnteredFacts DEF PaintOutput
<1>2. CASE ~session.entered
  BY <1>2 DEF PaintOutput, SimpleTypeOK
<1>. QED  BY <1>1, <1>2

LEMMA DrawnView == ASSUME NEW f, NEW s, Draw(f, s) PROVE view' = "form"
BY DEF Draw

\* The keys of the form leave the session and the run alone.
Quiet == /\ session.bound = "form" /\ UNCHANGED <<session, phase, clock, prompt, leaving, screen, formAborted, late>>
         /\ view' = "form"

LEMMA TypingQuiet ==
  ASSUME overrun \in 0 .. MaxOverrun, editor.len \in Nat, EditingKey \/ SelectionKey
  PROVE  Quiet /\ overrun' \in 0 .. MaxOverrun
<1>1. ASSUME NEW f, NEW vals, NEW more, Typing(f, vals, more) PROVE Quiet /\ overrun' = overrun + more
  BY <1>1, DrawnView DEF Typing, Quiet
<1>2. ASSUME NEW f, NEW vals, Typing(f, vals, 0) PROVE Quiet /\ overrun' \in 0 .. MaxOverrun
  BY <1>1, <1>2
<1>3. ASSUME NewLine PROVE Quiet /\ overrun' \in 0 .. MaxOverrun
  <2> DEFINE len == AtMost(editor.len + 1, MaxChars)
             pushed == editor.len + 1 - len
  <2>1. len \in Nat /\ pushed \in Nat
    BY FormAssumption DEF AtMost
  <2>2. overrun + pushed <= MaxOverrun /\ Typing([editor EXCEPT !.len = len, !.cursor = @ + 1], values, pushed)
    BY <1>3 DEF NewLine
  <2>. HIDE DEF len, pushed
  <2>. QED  BY <1>1, <2>1, <2>2, FormAssumption
<1>4. CASE EditingKey
  BY <1>2, <1>3, <1>4 DEF EditingKey, Edit, Insert, Stop
<1>5. CASE SelectionKey
  BY <1>2, <1>5 DEF SelectionKey, Move
<1>. QED  BY <1>4, <1>5

LEMMA FormInitInv == FormInit => FormInv
<1>. SUFFICES ASSUME FormInit PROVE FormInv
  OBVIOUS
<1>1. /\ session = Away /\ phase = "new" /\ clock = FALSE /\ view = "output" /\ prompt = "none" /\ leaving = "none"
      /\ editor = EmptyForm /\ values = [i \in 1 .. Count |-> 0] /\ screen \in Screens
      /\ formAborted = FALSE /\ late = FALSE /\ overrun = 0
  BY DEF FormInit, Count
<1>2. SimpleTypeOK
  <2>1. session \in SessionType /\ screen \in Screens /\ overrun \in 0 .. MaxOverrun
    BY <1>1, AwayFacts, FormAssumption
  <2>2. /\ phase \in {"new", "running", "waiting", "completed", "failed", "disposed"} /\ view \in {"output", "form"}
        /\ prompt \in {"none", "pending", "given", "rejected"} /\ leaving \in {"none", "pending", "over"}
    BY <1>1
  <2>3. clock \in BOOLEAN
    BY <1>1
  <2>4. formAborted \in BOOLEAN
    BY <1>1
  <2>5. late \in BOOLEAN
    BY <1>1
  <2>. QED  BY <2>1, <2>2, <2>3, <2>4, <2>5 DEF SimpleTypeOK
<1>3. EditorInv
  <2>1. ValuesOK(values)
    BY <1>1, FormAssumption DEF ValuesOK
  <2>. QED  BY <1>1, <2>1, EmptyFormOK, EditorInvIs
<1>4. WindowInv /\ AbortSettles /\ ReaderInv /\ TerminalRestored
  BY <1>1 DEF WindowInv, AbortSettles, ReaderInv, CancelHeard, RunGoesOn, TerminalRestored
<1>. QED  BY <1>2, <1>3, <1>4 DEF FormInv

-----------------------------------------------------------------------------
(* One lemma for each action.                                              *)

ReadersOK == ReaderInv /\ TerminalRestored /\ AbortSettles

LEMMA StartKeeps == FormInv /\ StartScreen => FormInv'
<1>. SUFFICES ASSUME FormInv, StartScreen PROVE FormInv'
  OBVIOUS
<1>. USE DEF FormInv
<1>1. /\ phase \in {"new", "running"} /\ prompt # "pending" /\ phase' = "running" /\ clock' = TRUE /\ view' = "output"
      /\ session' = Bound(Entered(session), "cancel", FALSE)
      /\ UNCHANGED <<prompt, leaving, editor, values, screen, formAborted, late, overrun>>
  BY DEF StartScreen
<1>2. session' \in SessionType /\ session'.bound = "cancel"
  BY <1>1, EnteredFacts, ListensForCancel DEF SimpleTypeOK
<1>3. SimpleTypeOK'
  BY <1>1, <1>2 DEF SimpleTypeOK
<1>4. EditorInv' /\ WindowInv'
  BY <1>1 DEF EditorInv, WindowInv
<1>5. ReaderInv' /\ TerminalRestored' /\ AbortSettles'
  BY <1>1, <1>2 DEF ReaderInv, CancelHeard, RunGoesOn, TerminalRestored, AbortSettles
<1>. QED  BY <1>3, <1>4, <1>5

LEMMA EventKeeps == FormInv /\ FlowEvent => FormInv'
<1>. SUFFICES ASSUME FormInv, FlowEvent PROVE FormInv'
  OBVIOUS
<1>. USE DEF FormInv
<1>1. /\ phase # "new" /\ PaintOutput(session) /\ phase' \in {phase} \union (IF RunGoesOn THEN {"running"} ELSE {})
      /\ UNCHANGED <<clock, prompt, leaving, editor, values, screen, formAborted, late, overrun>>
  BY DEF FlowEvent
<1>2. /\ session' \in SessionType /\ view' \in {"output", "form"}
      /\ session'.bound = session.bound /\ session'.listening = session.listening
      /\ view' = "output" \/ view' = view
  BY <1>1, PaintFacts DEF SimpleTypeOK
<1>3. phase' \in {"new", "running", "waiting", "completed", "failed", "disposed"} /\ RunGoesOn' = RunGoesOn
      /\ (phase' = "disposed" => phase = "disposed")
  BY <1>1 DEF SimpleTypeOK, RunGoesOn
<1>4. SimpleTypeOK'
  BY <1>1, <1>2, <1>3 DEF SimpleTypeOK
<1>5. EditorInv' /\ WindowInv'
  BY <1>1, <1>2 DEF EditorInv, WindowInv
<1>6. phase' = "disposed" => session' = session
  BY <1>3, <1>1 DEF TerminalRestored, PaintOutput, Away
<1>7. TerminalRestored'
  BY <1>1, <1>3, <1>6 DEF TerminalRestored
<1>8. ReaderInv' /\ AbortSettles'
  BY <1>1, <1>2, <1>3 DEF ReaderInv, CancelHeard, AbortSettles
<1>. QED  BY <1>4, <1>5, <1>7, <1>8

LEMMA ResizeKeeps == FormInv /\ Resize => FormInv'
<1>. SUFFICES ASSUME FormInv, Resize PROVE FormInv'
  OBVIOUS
<1>. USE DEF FormInv
<1>1. PICK s \in Screens : screen' = s /\ IF view = "form" THEN Draw(editor, s) ELSE UNCHANGED <<editor, view>>
  BY DEF Resize
<1>2. UNCHANGED <<session, phase, clock, prompt, leaving, values, formAborted, late, overrun>>
  BY DEF Resize
<1>3. CASE view = "form"
  <2>1. EditorOK(editor', overrun) /\ Window(editor', s) /\ view' = "form"
    BY <1>1, <1>3, DrawKeeps, DrawnView, EditorInvIs
  <2>2. EditorInv' /\ WindowInv'
    BY <1>1, <1>2, <2>1 DEF EditorInv, EditorOK, WindowInv
  <2>3. view' = view
    BY <1>3, <2>1
  <2>. QED  BY <1>1, <1>2, <2>2, <2>3
            DEF SimpleTypeOK, ReaderInv, CancelHeard, RunGoesOn, TerminalRestored, AbortSettles
<1>4. CASE view # "form"
  <2>1. UNCHANGED <<editor, view>>
    BY <1>1, <1>4
  <2>2. EditorInv' /\ WindowInv'
    BY <1>2, <1>4, <2>1 DEF EditorInv, WindowInv
  <2>. QED  BY <1>1, <1>2, <2>1, <2>2
            DEF SimpleTypeOK, ReaderInv, CancelHeard, RunGoesOn, TerminalRestored, AbortSettles
<1>. QED  BY <1>3, <1>4

LEMMA OpeningOK == ASSUME NEW v \in Opening PROVE ValuesOK(v)
<1>1. v \in [1 .. Count -> Prefilled \union {0, 1}] /\ Prefilled \subseteq Nat
  BY FormAssumption DEF Opening, Count
<1>2. \A i \in 1 .. Count : FormFields[i].component # "input" => v[i] \in {0, 1}
  BY <1>1 DEF Opening
<1>3. Prefilled \union {0, 1} \subseteq Nat /\ \A x \in {0, 1} : x <= 1
  BY <1>1
<1>4. v \in [1 .. Count -> Nat]
  <2>. DEFINE lengths == Prefilled \union {0, 1}
  <2>1. v \in [1 .. Count -> lengths] /\ lengths \subseteq Nat
    BY <1>1, <1>3
  <2>. HIDE DEF lengths
  <2>. QED  BY <2>1
<1>. QED  BY <1>2, <1>3, <1>4, Zenon DEF ValuesOK

LEMMA RequestKeeps == FormInv /\ RequestInput => FormInv'
<1>. SUFFICES ASSUME FormInv, RequestInput PROVE FormInv'
  OBVIOUS
<1>. USE DEF FormInv
<1>1. /\ phase' = "waiting" /\ prompt' = "pending" /\ Draw(EmptyForm, screen) /\ late' = formAborted
      /\ session' = Bound(Entered(session), "form", ~formAborted)
      /\ values' \in Opening /\ overrun' = 0
      /\ UNCHANGED <<clock, leaving, screen, formAborted>>
  BY DEF RequestInput, Listening
<1>2. formAborted \in BOOLEAN /\ session \in SessionType /\ screen \in Screens /\ overrun \in Nat
  BY DEF SimpleTypeOK
<1>3. (~formAborted) \in BOOLEAN
  BY <1>2
<1>4. session' \in SessionType /\ session'.bound = "form" /\ session'.listening = ~formAborted
  BY <1>1, <1>2, <1>3, EnteredFacts, BoundFacts
<1>5. EditorOK(editor', overrun') /\ Window(editor', screen) /\ view' = "form"
  <2>1. overrun' \in Nat
    BY <1>1
  <2>2. EditorOK(EmptyForm, overrun')
    BY <2>1, EmptyFormOK
  <2>. QED  BY <1>1, <1>2, <2>2, DrawKeeps, DrawnView
<1>6. EditorInv' /\ WindowInv'
  <2>1. ValuesOK(values')
    BY <1>1, OpeningOK
  <2>. QED  BY <1>1, <1>5, <2>1 DEF EditorInv, EditorOK, ValuesOK, WindowInv
<1>7. late' \in BOOLEAN
  BY <1>1, <1>2
<1>8. SimpleTypeOK'
  BY <1>1, <1>4, <1>5, <1>7, FormAssumption DEF SimpleTypeOK
<1>9. ReaderInv'
  BY <1>1, <1>4 DEF ReaderInv, CancelHeard, RunGoesOn
<1>10. TerminalRestored' /\ AbortSettles'
  BY <1>1 DEF TerminalRestored, AbortSettles
<1>. QED  BY <1>6, <1>8, <1>9, <1>10

\* What rejects the prompt.
LEMMA RejectKeeps ==
  ASSUME FormInv, Rejects, phase # "disposed", formAborted' \in BOOLEAN,
         UNCHANGED <<phase, clock, view, leaving, values, screen, late, overrun>>
  PROVE  FormInv'
<1>. USE DEF FormInv
<1>1. prompt' = "rejected" /\ session' = Unbound(session) /\ editor' = EmptyForm
  BY DEF Rejects
<1>2. session' \in SessionType /\ overrun \in Nat
  BY <1>1, UnboundFacts DEF SimpleTypeOK
<1>3. SimpleTypeOK'
  BY <1>1, <1>2 DEF SimpleTypeOK
<1>4. EditorInv'
  BY <1>1, <1>2, EmptyFormOK DEF EditorInv, EditorOK
<1>5. WindowInv' /\ AbortSettles'
  BY <1>1 DEF WindowInv, AbortSettles
<1>6. ReaderInv' /\ TerminalRestored'
  BY <1>1 DEF ReaderInv, CancelHeard, TerminalRestored
<1>. QED  BY <1>3, <1>4, <1>5, <1>6

\* No handler reads the keys of a disposed renderer.
LEMMA NotDisposed == ASSUME TerminalRestored, session.bound # "none" \/ RunGoesOn PROVE phase # "disposed"
BY DEF TerminalRestored, Away, RunGoesOn

LEMMA AbortKeyKeeps == FormInv /\ AbortKey => FormInv'
<1>. SUFFICES ASSUME FormInv, AbortKey PROVE FormInv'
  OBVIOUS
<1>1. formAborted' \in BOOLEAN
  BY DEF AbortKey, FormInv, SimpleTypeOK
<1>. QED  BY <1>1, NotDisposed, RejectKeeps DEF AbortKey, FormInv

LEMMA SubmitKeeps == FormInv /\ SubmitKey => FormInv'
<1>. SUFFICES ASSUME FormInv, SubmitKey PROVE FormInv'
  OBVIOUS
<1>. USE DEF FormInv
<1>1. /\ prompt' = "given" /\ phase' = "running" /\ values' = Committed /\ editor' = EmptyForm
      /\ session' = Bound(Unbound(session), "cancel", FALSE)
      /\ UNCHANGED <<clock, view, leaving, screen, formAborted, late, overrun>>
  BY DEF SubmitKey, ListenForCancel
<1>2. session' \in SessionType /\ session'.bound = "cancel" /\ overrun \in Nat
  <2>1. session \in SessionType /\ overrun \in Nat
    BY DEF SimpleTypeOK
  <2>2. Unbound(session) \in SessionType
    BY <2>1, UnboundFacts
  <2>. QED  BY <1>1, <2>1, <2>2, ListensForCancel
<1>3. SimpleTypeOK'
  BY <1>1, <1>2 DEF SimpleTypeOK
<1>4. EditorInv'
  <2>1. ValuesOK(values') /\ EditorOK(editor', overrun')
    BY <1>1, <1>2, EmptyFormOK, CommittedOK
  <2>. QED  BY <2>1 DEF EditorInv, EditorOK, ValuesOK
<1>5. WindowInv' /\ AbortSettles' /\ TerminalRestored'
  BY <1>1 DEF WindowInv, AbortSettles, TerminalRestored
<1>6. ReaderInv'
  BY <1>1, <1>2 DEF ReaderInv, CancelHeard
<1>. QED  BY <1>3, <1>4, <1>5, <1>6

LEMMA TypeKeeps == FormInv /\ (EditingKey \/ SelectionKey) => FormInv'
<1>. SUFFICES ASSUME FormInv, EditingKey \/ SelectionKey PROVE FormInv'
  OBVIOUS
<1>. USE DEF FormInv
<1>1. overrun \in 0 .. MaxOverrun /\ overrun \in Nat /\ screen \in Screens
  BY DEF SimpleTypeOK
<1>2. Quiet /\ overrun' \in 0 .. MaxOverrun
  BY <1>1, TypingQuiet DEF EditorInv, EditorType
<1>3. EditorInv' /\ Window(editor', screen')
  BY <1>1, EditingKeeps, SelectionKeeps
<1>4. SimpleTypeOK'
  BY <1>2 DEF SimpleTypeOK, Quiet
<1>5. WindowInv'
  BY <1>3 DEF WindowInv
<1>6. ReaderInv' /\ TerminalRestored' /\ AbortSettles'
  BY <1>2 DEF Quiet, ReaderInv, CancelHeard, RunGoesOn, TerminalRestored, AbortSettles
<1>. QED  BY <1>3, <1>4, <1>5, <1>6

LEMMA AbortKeeps == FormInv /\ AbortForm => FormInv'
<1>. SUFFICES ASSUME FormInv, AbortForm PROVE FormInv'
  OBVIOUS
<1>. USE DEF FormInv
<1>1. /\ RunGoesOn /\ ~formAborted /\ formAborted' = TRUE
      /\ UNCHANGED <<phase, clock, view, leaving, values, screen, late, overrun>>
  BY DEF AbortForm
<1>2. CASE session.listening
  <2>1. Rejects /\ phase # "disposed" /\ formAborted' \in BOOLEAN
    BY <1>1, <1>2, NotDisposed DEF AbortForm
  <2>. QED  BY <1>1, <2>1, RejectKeeps
<1>3. CASE ~session.listening
  <2>1. UNCHANGED <<prompt, session, editor>>
    BY <1>3 DEF AbortForm
  <2>2. prompt # "pending"
    BY <1>1, <1>3 DEF ReaderInv
  <2>3. SimpleTypeOK'
    BY <1>1, <2>1 DEF SimpleTypeOK
  <2>4. EditorInv' /\ WindowInv'
    BY <1>1, <2>1 DEF EditorInv, WindowInv
  <2>5. ReaderInv' /\ TerminalRestored' /\ AbortSettles'
    BY <1>1, <2>1, <2>2 DEF ReaderInv, CancelHeard, RunGoesOn, TerminalRestored, AbortSettles
  <2>. QED  BY <2>3, <2>4, <2>5
<1>. QED  BY <1>2, <1>3

LEMMA EndKeeps == FormInv /\ (Complete \/ ShowError) => FormInv'
<1>. SUFFICES ASSUME FormInv, Complete \/ ShowError PROVE FormInv'
  OBVIOUS
<1>. USE DEF FormInv
<1>1. PICK how \in {"completed", "failed"}, waits \in BOOLEAN : FormEndsAs(how, waits)
  BY DEF Complete, ShowError
<1> DEFINE s == IF waits THEN Bound(Unbound(session), "exit", FALSE) ELSE session
<1>2. /\ RunGoesOn /\ phase' = how /\ clock' = FALSE /\ PaintOutput(s)
      /\ leaving' = (IF waits THEN "pending" ELSE leaving) /\ late' = (late \/ prompt = "pending")
      /\ UNCHANGED <<prompt, editor, values, screen, formAborted, overrun>>
  BY <1>1 DEF FormEndsAs
<1>3. s \in SessionType
  BY UnboundFacts, BoundFacts DEF SimpleTypeOK
<1>. HIDE DEF s
<1>4. session' \in SessionType /\ view' \in {"output", "form"} /\ (view' = "output" \/ view' = view)
  BY <1>2, <1>3, PaintFacts
<1>5. late' \in BOOLEAN
  BY <1>2 DEF SimpleTypeOK
<1>6. SimpleTypeOK'
  BY <1>2, <1>4, <1>5 DEF SimpleTypeOK
<1>7. EditorInv' /\ WindowInv'
  BY <1>2, <1>4 DEF EditorInv, WindowInv
<1>8. prompt' = "pending" => late'
  BY <1>2
<1>9. ReaderInv' /\ TerminalRestored' /\ AbortSettles'
  BY <1>2, <1>8 DEF ReaderInv, CancelHeard, RunGoesOn, TerminalRestored, AbortSettles
<1>. QED  BY <1>6, <1>7, <1>9

LEMMA ExitKeeps == FormInv /\ ExitKey => FormInv'
<1>. SUFFICES ASSUME FormInv, ExitKey PROVE FormInv'
  OBVIOUS
<1>. USE DEF FormInv
<1>1. /\ session.bound = "exit" /\ session' = Unbound(session) /\ leaving' = "over"
      /\ UNCHANGED <<phase, clock, view, prompt, editor, values, screen, formAborted, late, overrun>>
  BY DEF ExitKey
<1>2. session' \in SessionType /\ phase # "disposed"
  BY <1>1, UnboundFacts, NotDisposed DEF SimpleTypeOK
<1>3. SimpleTypeOK'
  BY <1>1, <1>2 DEF SimpleTypeOK
<1>4. EditorInv' /\ WindowInv'
  BY <1>1 DEF EditorInv, WindowInv
<1>5. ReaderInv' /\ TerminalRestored' /\ AbortSettles'
  BY <1>1, <1>2 DEF ReaderInv, CancelHeard, RunGoesOn, TerminalRestored, AbortSettles
<1>. QED  BY <1>3, <1>4, <1>5

LEMMA DisposeKeeps == FormInv /\ Dispose => FormInv'
<1>. SUFFICES ASSUME FormInv, Dispose PROVE FormInv'
  OBVIOUS
<1>. USE DEF FormInv
<1>1. /\ phase' = "disposed" /\ clock' = FALSE /\ session' = Away /\ prompt' = SettledPrompt
      /\ leaving' = (IF leaving = "pending" THEN "over" ELSE leaving) /\ editor' = EmptyForm
      /\ UNCHANGED <<view, values, screen, formAborted, late, overrun>>
  BY DEF Dispose
<1>2. prompt' \in {"none", "given", "rejected"} /\ leaving' \in {"none", "over"}
  BY <1>1 DEF SettledPrompt, SimpleTypeOK
<1>3. SimpleTypeOK'
  BY <1>1, <1>2, AwayFacts DEF SimpleTypeOK
<1>4. overrun \in Nat
  BY DEF SimpleTypeOK
<1>5. EditorInv'
  BY <1>1, <1>4, EmptyFormOK DEF EditorInv, EditorOK
<1>6. WindowInv' /\ ReaderInv' /\ AbortSettles' /\ TerminalRestored'
  BY <1>1, <1>2 DEF WindowInv, ReaderInv, CancelHeard, RunGoesOn, AbortSettles, TerminalRestored
<1>. QED  BY <1>3, <1>5, <1>6

LEMMA FormStutters == FormInv /\ UNCHANGED formVars => FormInv'
BY DEF FormInv, formVars, SimpleTypeOK, EditorInv, WindowInv, ReaderInv, CancelHeard, RunGoesOn, TerminalRestored,
       AbortSettles

LEMMA FormInvAlways == FormSpec => []FormInv
<1>1. FormInv /\ [FormNext]_formVars => FormInv'
  BY StartKeeps, EventKeeps, ResizeKeeps, RequestKeeps, AbortKeyKeeps, SubmitKeeps, TypeKeeps, AbortKeeps,
     EndKeeps, ExitKeeps, DisposeKeeps, FormStutters DEF FormNext, EnterOnSubmit
<1>. QED  BY <1>1, FormInitInv, PTL DEF FormSpec

LEMMA FormInvSafe == FormInv => FormSafe
<1>. SUFFICES ASSUME FormInv PROVE FormSafe
  OBVIOUS
<1>1. /\ editor.focus \in 1 .. SubmitForm /\ editor.len \in Nat
      /\ editor.cursor \in 0 .. editor.len + overrun /\ editor.start \in Nat
      /\ values \in [1 .. SubmitForm - 1 -> Nat]
  BY FormAssumption DEF FormInv, EditorInv, EditorType, Count, SimpleTypeOK
<1>2. editor.editing \in BOOLEAN
  BY DEF FormInv, EditorInv, EditorType
<1>3. FormTypeOK
  BY <1>1, <1>2 DEF FormInv, SimpleTypeOK, SessionType, FormTypeOK
<1>. QED  BY <1>3 DEF FormInv, FormSafe, ReaderInv

\* The keys of the full-screen renderer always have a reader while the run goes on and none
\* afterwards, and an abort leaves no prompt open, for every form, every text it opens with
\* and every terminal.
THEOREM FormIsSafe == FormSpec => []FormSafe
BY FormInvAlways, FormInvSafe, PTL

\* The label of the field in focus is painted, for every layout, form and size of the
\* terminal that the renderer accepts.
THEOREM FocusIsLabelled == FormSpec => []FocusLabelled
<1>1. FormInv => FocusLabelled
  BY LabelPainted DEF FormInv, SimpleTypeOK, EditorInv, WindowInv, FocusLabelled
<1>. QED  BY <1>1, FormInvAlways, PTL

-----------------------------------------------------------------------------
(* The form of single lines.                                               *)

Lines == [line : 1 .. MaxArrived, kind : LineKinds]
Numbers(q) == {q[i].line : i \in DOMAIN q}

\* Of the lines 1 .. n, those of u come before those of q, and both are in order.
Rises(u, q, n) ==
  /\ \A i, j \in DOMAIN u : i < j => u[i] < u[j]
  /\ \A i, j \in DOMAIN q : i < j => q[i].line < q[j].line
  /\ \A i \in DOMAIN u : u[i] <= n /\ \A j \in DOMAIN q : u[i] < q[j].line
  /\ \A j \in DOMAIN q : q[j].line <= n

\* What every line of the input became, until dispose forgets the queue.
Accounts(u, q, d, n) == 1 .. n = Range(u) \union d \union Numbers(q)

-----------------------------------------------------------------------------
(* Sequences of lines.                                                     *)

LEMMA AppendFacts ==
  ASSUME NEW S, NEW s \in Seq(S), NEW e \in S
  PROVE  /\ Append(s, e) \in Seq(S) /\ Len(Append(s, e)) = Len(s) + 1
         /\ Len(s) \in Nat /\ DOMAIN s = 1 .. Len(s) /\ DOMAIN Append(s, e) = 1 .. Len(s) + 1
         /\ \A i \in 1 .. Len(s) : Append(s, e)[i] = s[i]
         /\ Append(s, e)[Len(s) + 1] = e
<1>1. Append(s, e) \in Seq(S) /\ Len(Append(s, e)) = Len(s) + 1
  BY AppendProperties
<1>2. Len(s) \in Nat /\ DOMAIN s = 1 .. Len(s) /\ DOMAIN Append(s, e) = 1 .. Len(s) + 1
  BY <1>1, LenProperties
<1>3. (\A i \in 1 .. Len(s) : Append(s, e)[i] = s[i]) /\ Append(s, e)[Len(s) + 1] = e
  BY AppendProperties
<1>. QED  BY <1>1, <1>2, <1>3

LEMMA TailFacts ==
  ASSUME NEW S, NEW s \in Seq(S), s # <<>>
  PROVE  /\ Tail(s) \in Seq(S) /\ Len(s) \in Nat \ {0} /\ Len(Tail(s)) = Len(s) - 1
         /\ DOMAIN s = 1 .. Len(s) /\ DOMAIN Tail(s) = 1 .. Len(s) - 1
         /\ \A i \in 1 .. Len(s) - 1 : Tail(s)[i] = s[i + 1]
<1>1. Tail(s) \in Seq(S) /\ Len(Tail(s)) = Len(s) - 1
  BY HeadTailProperties
<1>2. Len(s) \in Nat \ {0} /\ DOMAIN s = 1 .. Len(s)
  BY EmptySeq, LenProperties
<1>3. DOMAIN Tail(s) = 1 .. Len(s) - 1
  BY <1>1, LenProperties
<1>4. \A i \in 1 .. Len(s) - 1 : Tail(s)[i] = s[i + 1]
  BY <1>1, <1>2, HeadTailProperties
<1>. QED  BY <1>1, <1>2, <1>3, <1>4

LEMMA AppendRange ==
  ASSUME NEW S, NEW s \in Seq(S), NEW e \in S
  PROVE  Range(Append(s, e)) = Range(s) \union {e}
<1>1. \A i \in 1 .. Len(s) : i \in 1 .. Len(s) + 1
  BY AppendFacts
<1>2. \A i \in 1 .. Len(s) + 1 : i \in 1 .. Len(s) \/ i = Len(s) + 1
  BY AppendFacts
<1>3. Len(s) + 1 \in 1 .. Len(s) + 1
  BY AppendFacts
<1>. QED  BY <1>1, <1>2, <1>3, AppendFacts DEF Range

\* The oldest of the queue answers.
LEMMA OldestAnswers ==
  ASSUME NEW u \in Seq(1 .. MaxArrived), NEW q \in Seq(Lines), q # <<>>, NEW n \in Nat, Rises(u, q, n)
  PROVE  /\ q[1] \in Lines /\ Append(u, q[1].line) \in Seq(1 .. MaxArrived)
         /\ Rises(Append(u, q[1].line), Tail(q), n)
         /\ Range(Append(u, q[1].line)) \union Numbers(Tail(q)) = Range(u) \union Numbers(q)
<1>. DEFINE v == Append(u, q[1].line)  t == Tail(q)
<1>1. /\ t \in Seq(Lines) /\ Len(q) \in Nat \ {0} /\ DOMAIN q = 1 .. Len(q) /\ DOMAIN t = 1 .. Len(q) - 1
      /\ \A i \in 1 .. Len(q) - 1 : t[i] = q[i + 1]
  BY TailFacts
<1>2. q[1] \in Lines /\ 1 \in DOMAIN q
  BY <1>1, ElementOfSeq
<1>3. q[1].line \in 1 .. MaxArrived
  BY <1>2 DEF Lines
<1>4. /\ v \in Seq(1 .. MaxArrived) /\ Len(u) \in Nat /\ DOMAIN u = 1 .. Len(u) /\ DOMAIN v = 1 .. Len(u) + 1
      /\ (\A i \in 1 .. Len(u) : v[i] = u[i]) /\ v[Len(u) + 1] = q[1].line
  BY <1>3, AppendFacts
<1>5. \A i \in DOMAIN u : u[i] \in 1 .. MaxArrived
  BY <1>4, ElementOfSeq
<1>6. \A j \in DOMAIN q : q[j].line \in 1 .. MaxArrived
  <2>1. \A j \in DOMAIN q : q[j] \in Lines
    BY <1>1, ElementOfSeq
  <2>. QED  BY <2>1 DEF Lines
<1>10. Range(v) = Range(u) \union {q[1].line}
  <2>1. \A e \in 1 .. MaxArrived : Range(Append(u, e)) = Range(u) \union {e}
    BY AppendRange
  <2>. QED  BY <1>3, <2>1
<1>. HIDE DEF v, t
<1>7. \A i \in DOMAIN v : (i \in DOMAIN u /\ v[i] = u[i]) \/ (i = Len(u) + 1 /\ v[i] = q[1].line)
  BY <1>4
<1>8. \A j \in DOMAIN t : j + 1 \in DOMAIN q /\ t[j] = q[j + 1] /\ q[1].line < t[j].line /\ j \in Nat
  <2>. SUFFICES ASSUME NEW j \in DOMAIN t
                PROVE  j + 1 \in DOMAIN q /\ t[j] = q[j + 1] /\ q[1].line < t[j].line /\ j \in Nat
    OBVIOUS
  <2>1. j + 1 \in DOMAIN q /\ t[j] = q[j + 1] /\ j \in Nat /\ 1 < j + 1
    BY <1>1
  <2>2. q[1].line < q[j + 1].line
    BY <1>2, <2>1 DEF Rises
  <2>. QED  BY <2>1, <2>2
<1>9. Rises(v, t, n)
  <2>1. \A i, j \in DOMAIN v : i < j => v[i] < v[j]
    BY <1>2, <1>4, <1>5, <1>6, <1>7 DEF Rises
  <2>2. \A i, j \in DOMAIN t : i < j => t[i].line < t[j].line
    BY <1>8 DEF Rises
  <2>3. \A i \in DOMAIN v : v[i] <= n /\ \A j \in DOMAIN t : v[i] < t[j].line
    BY <1>2, <1>7, <1>8 DEF Rises
  <2>4. \A j \in DOMAIN t : t[j].line <= n
    BY <1>8 DEF Rises
  <2>. QED  BY <2>1, <2>2, <2>3, <2>4 DEF Rises
<1>11. Numbers(q) = Numbers(t) \union {q[1].line}
  <2>1. \A j \in DOMAIN q : j = 1 \/ (j - 1 \in DOMAIN t /\ t[j - 1] = q[j])
    BY <1>1
  <2>. QED  BY <1>2, <1>8, <2>1 DEF Numbers
<1>. QED  BY <1>2, <1>4, <1>9, <1>10, <1>11 DEF v, t

\* The next line of the input answers, when none waits.
LEMMA NextAnswers ==
  ASSUME NEW u \in Seq(1 .. MaxArrived), NEW n \in Nat, n < MaxArrived, MaxArrived \in Nat, Rises(u, <<>>, n)
  PROVE  /\ Append(u, n + 1) \in Seq(1 .. MaxArrived) /\ Rises(Append(u, n + 1), <<>>, n + 1)
         /\ Range(Append(u, n + 1)) = Range(u) \union {n + 1}
<1>1. n + 1 \in 1 .. MaxArrived
  OBVIOUS
<1>. DEFINE v == Append(u, n + 1)
<1>2. /\ v \in Seq(1 .. MaxArrived) /\ Len(u) \in Nat /\ DOMAIN u = 1 .. Len(u) /\ DOMAIN v = 1 .. Len(u) + 1
      /\ (\A i \in 1 .. Len(u) : v[i] = u[i]) /\ v[Len(u) + 1] = n + 1
  BY <1>1, AppendFacts
<1>3. \A i \in DOMAIN u : u[i] \in 1 .. MaxArrived
  BY <1>2, ElementOfSeq
<1>4. Range(v) = Range(u) \union {n + 1}
  BY <1>1, AppendRange
<1>. HIDE DEF v
<1>5. \A i \in DOMAIN v : (i \in DOMAIN u /\ v[i] = u[i]) \/ (i = Len(u) + 1 /\ v[i] = n + 1)
  BY <1>2
<1>6. \A i \in DOMAIN u : u[i] <= n /\ u[i] < n + 1
  BY <1>3 DEF Rises
<1>7. ASSUME NEW i \in DOMAIN v, NEW j \in DOMAIN v, i < j PROVE v[i] < v[j]
  <2>1. i \in DOMAIN u /\ v[i] = u[i]
    BY <1>2, <1>7
  <2>2. CASE j \in DOMAIN u
    BY <1>2, <1>7, <2>1, <2>2 DEF Rises
  <2>3. CASE j = Len(u) + 1
    BY <1>2, <1>6, <2>1, <2>3
  <2>. QED  BY <1>5, <2>2, <2>3
<1>8. \A i \in DOMAIN v : v[i] <= n + 1
  BY <1>3, <1>5, <1>6
<1>9. DOMAIN <<>> = {}
  OBVIOUS
<1>10. Rises(v, <<>>, n + 1)
  BY <1>7, <1>8, <1>9 DEF Rises
<1>. QED  BY <1>2, <1>4, <1>10 DEF v

\* The next line of the input waits.
LEMMA NextWaits ==
  ASSUME NEW u \in Seq(1 .. MaxArrived), NEW q \in Seq(Lines), NEW n \in Nat, n < MaxArrived, MaxArrived \in Nat,
         NEW kind \in LineKinds, Rises(u, q, n)
  PROVE  /\ Append(q, [line |-> n + 1, kind |-> kind]) \in Seq(Lines)
         /\ Rises(u, Append(q, [line |-> n + 1, kind |-> kind]), n + 1)
         /\ Numbers(Append(q, [line |-> n + 1, kind |-> kind])) = Numbers(q) \union {n + 1}
<1>. DEFINE l == [line |-> n + 1, kind |-> kind]  t == Append(q, l)
<1>1. l \in Lines /\ l.line = n + 1
  BY DEF Lines
<1>. HIDE DEF l
<1>2. /\ t \in Seq(Lines) /\ Len(q) \in Nat /\ DOMAIN q = 1 .. Len(q) /\ DOMAIN t = 1 .. Len(q) + 1
      /\ (\A i \in 1 .. Len(q) : t[i] = q[i]) /\ t[Len(q) + 1] = l
  BY <1>1, AppendFacts
<1>. HIDE DEF t
<1>3. \A j \in DOMAIN q : q[j].line \in 1 .. MaxArrived
  <2>1. \A j \in DOMAIN q : q[j] \in Lines
    BY <1>2, ElementOfSeq
  <2>. QED  BY <2>1 DEF Lines
<1>4. \A i \in DOMAIN u : u[i] \in 1 .. MaxArrived
  BY LenProperties, ElementOfSeq
<1>5. \A j \in DOMAIN t : (j \in DOMAIN q /\ t[j] = q[j]) \/ (j = Len(q) + 1 /\ t[j].line = n + 1)
  BY <1>1, <1>2
<1>6. Rises(u, t, n + 1)
  <2>1. ASSUME NEW i \in DOMAIN t, NEW j \in DOMAIN t, i < j PROVE t[i].line < t[j].line
    <3>1. i \in DOMAIN q /\ t[i] = q[i]
      BY <1>2, <2>1
    <3>2. CASE j \in DOMAIN q
      BY <1>2, <2>1, <3>1, <3>2 DEF Rises
    <3>3. CASE t[j].line = n + 1
      BY <1>3, <3>1, <3>3 DEF Rises
    <3>. QED  BY <1>5, <3>2, <3>3
  <2>2. \A i \in DOMAIN u : u[i] <= n + 1 /\ \A j \in DOMAIN t : u[i] < t[j].line
    BY <1>4, <1>5 DEF Rises
  <2>3. \A j \in DOMAIN t : t[j].line <= n + 1
    BY <1>3, <1>5 DEF Rises
  <2>. QED  BY <2>1, <2>2, <2>3 DEF Rises
<1>7. Numbers(t) = Numbers(q) \union {n + 1}
  <2>1. Len(q) + 1 \in DOMAIN t /\ t[Len(q) + 1].line = n + 1 /\ \A j \in DOMAIN q : j \in DOMAIN t /\ t[j] = q[j]
    BY <1>1, <1>2
  <2>2. \A j \in DOMAIN t : t[j].line = n + 1 \/ \E k \in DOMAIN q : t[j].line = q[k].line
    BY <1>5
  <2>3. Numbers(t) \subseteq Numbers(q) \union {n + 1}
    BY <2>2 DEF Numbers
  <2>4. Numbers(q) \subseteq Numbers(t)
    BY <2>1 DEF Numbers
  <2>5. n + 1 \in Numbers(t)
    BY <2>1 DEF Numbers
  <2>. QED  BY <2>3, <2>4, <2>5
<1>. QED  BY <1>2, <1>6, <1>7 DEF t, l

-----------------------------------------------------------------------------
(* The inductive invariant.                                                *)

\* A question is open only while the input and the run go on, for a field, and while no
\* line waits; fields before the one that is asked for have their values.
AskInv ==
  /\ asked => field # 0 /\ queued = <<>> /\ readline = "open" /\ ~stopped /\ ~gone
  /\ field # 0 => readline # "none" /\ 1 .. field - 1 \subseteq known
  /\ gone => readline # "open" /\ queued = <<>>
OrderInv == Rises(used, queued, arrived) /\ (~gone => Accounts(used, queued, dropped, arrived))
IInv == LineTypeOK /\ AskInv /\ EventsShown /\ GivenIsFull /\ OrderInv

LEMMA Sizes == LastField \in Nat \ {0} /\ {MaxQueued, MaxForms} \subseteq Nat \ {0} /\ {MaxArrived, MaxBuffered} \subseteq Nat
<1>1. Len(LineFields) \in Nat
  BY LineAssumption, LenProperties
<1>2. Len(LineFields) # 0
  BY LineAssumption, EmptySeq
<1>. QED  BY <1>1, <1>2, LineAssumption DEF LastField

LEMMA Implied == IInv => LinesSafe
<1>. SUFFICES ASSUME IInv PROVE LinesSafe
  OBVIOUS
<1>1. NoneLeftAsked
  BY DEF IInv, AskInv, NoneLeftAsked
<1>2. LinesInOrder
  BY DEF IInv, OrderInv, Rises, Accounts, Numbers, LinesInOrder
<1>. QED  BY <1>1, <1>2 DEF IInv, LinesSafe

\* What the line of a field leaves of the form.
LEMMA TakeForm ==
  ASSUME LineTypeOK, AskInv, GivenIsFull, NEW i \in 1 .. LastField, NEW l \in Lines, TakeLine(i, l),
         1 .. i - 1 \subseteq known
  PROVE  /\ asked' = FALSE /\ buffered' = 0 /\ used' = Append(used, l.line)
         /\ field' \in 0 .. LastField /\ known' \subseteq 1 .. LastField /\ known \subseteq known'
         /\ formOutcome' \in {"none", "given", "rejected"} /\ GivenIsFull'
         /\ field' # 0 => 1 .. field' - 1 \subseteq known'
<1>0. LastField \in Nat \ {0}
  BY Sizes
<1>1. asked' = FALSE /\ buffered' = 0 /\ used' = Append(used, l.line)
  BY DEF TakeLine, Flushed
<1>2. CASE l.kind = "large"
  <2>1. field' = 0 /\ formOutcome' = "rejected" /\ known' = known
    BY <1>2 DEF TakeLine, Settled
  <2>. QED  BY <1>0, <1>1, <2>1 DEF LineTypeOK, GivenIsFull
<1>3. CASE l.kind # "large" /\ ~Accepts(i, l.kind)
  <2>1. field' = i /\ formOutcome' = formOutcome /\ known' = known
    BY <1>3 DEF TakeLine
  <2>. QED  BY <1>0, <1>1, <2>1 DEF LineTypeOK, GivenIsFull
<1>4. CASE l.kind # "large" /\ Accepts(i, l.kind)
  <2>1. known' = known \union {i}
    BY <1>4 DEF TakeLine, Accepts
  <2>2. known' \subseteq 1 .. LastField /\ known \subseteq known'
    BY <2>1 DEF LineTypeOK
  <2>3. 1 .. i \subseteq known'
    <3>1. \A k \in 1 .. i : k \in 1 .. i - 1 \/ k = i
      BY <1>0
    <3>. QED  BY <2>1, <3>1
  <2>4. CASE i = LastField
    <3>1. field' = 0 /\ formOutcome' = "given"
      BY <1>4, <2>4 DEF TakeLine, Settled
    <3>2. known' = 1 .. LastField
      BY <2>2, <2>3, <2>4
    <3>. QED  BY <1>0, <1>1, <2>2, <3>1, <3>2 DEF GivenIsFull
  <2>5. CASE i # LastField
    <3>1. field' = i + 1 /\ formOutcome' = formOutcome
      BY <1>4, <2>5 DEF TakeLine
    <3>2. field' \in 0 .. LastField /\ field' - 1 = i
      BY <1>0, <2>5, <3>1
    <3>3. GivenIsFull'
      BY <2>1, <2>2, <3>1 DEF GivenIsFull, LineTypeOK
    <3>. QED  BY <1>1, <2>2, <2>3, <3>1, <3>2, <3>3 DEF LineTypeOK
  <2>. QED  BY <2>4, <2>5
<1>. QED  BY <1>2, <1>3, <1>4

\* ask() for field i, from requestInput or after the answer before it.
LEMMA AskKeeps ==
  ASSUME IInv, NEW i \in 1 .. LastField, AskLine(i), 1 .. i - 1 \subseteq known, ~asked, ~gone \/ field # 0,
         forms' \in 0 .. MaxForms, UNCHANGED <<interactive, stopped, gone, arrived, dropped>>
  PROVE  IInv'
<1>0. LineTypeOK /\ AskInv /\ EventsShown /\ GivenIsFull /\ OrderInv /\ buffered = 0
  BY DEF IInv, EventsShown, LineTypeOK
<1>1. CASE stopped
  <2>1. field' = 0 /\ formOutcome' = "rejected" /\ UNCHANGED <<readline, queued, asked, buffered, used, known>>
    BY <1>1 DEF AskLine, Settled
  <2>2. LineTypeOK'
    BY <1>0, <2>1, Sizes DEF LineTypeOK
  <2>. QED  BY <1>0, <2>1, <2>2 DEF IInv, AskInv, EventsShown, GivenIsFull, OrderInv, Accounts
<1>2. CASE ~stopped /\ queued # <<>>
  <2>1. /\ readline' = (IF readline = "none" THEN "open" ELSE readline)
        /\ queued' = Tail(queued) /\ TakeLine(i, queued[1])
    BY <1>2 DEF AskLine, Oldest
  <2>2. queued \in Seq(Lines) /\ used \in Seq(1 .. MaxArrived) /\ arrived \in Nat /\ Len(queued) <= MaxQueued
    BY <1>0, Sizes DEF LineTypeOK, Lines
  <2>3. /\ queued[1] \in Lines /\ Append(used, queued[1].line) \in Seq(1 .. MaxArrived)
        /\ Rises(Append(used, queued[1].line), Tail(queued), arrived)
        /\ Range(Append(used, queued[1].line)) \union Numbers(Tail(queued)) = Range(used) \union Numbers(queued)
    BY <1>0, <1>2, <2>2, OldestAnswers DEF OrderInv
  <2>4. /\ asked' = FALSE /\ buffered' = 0 /\ used' = Append(used, queued[1].line)
        /\ field' \in 0 .. LastField /\ known' \subseteq 1 .. LastField /\ known \subseteq known'
        /\ formOutcome' \in {"none", "given", "rejected"} /\ GivenIsFull'
        /\ field' # 0 => 1 .. field' - 1 \subseteq known'
    BY <1>0, <2>1, <2>3, TakeForm
  <2>5. Tail(queued) \in Seq(Lines) /\ Len(Tail(queued)) <= MaxQueued
    BY <1>2, <2>2, TailFacts, Sizes
  <2>6. LineTypeOK'
    BY <1>0, <2>1, <2>3, <2>4, <2>5, Sizes DEF LineTypeOK, Lines
  <2>7. AskInv'
    BY <1>0, <1>2, <2>1, <2>4 DEF AskInv
  <2>8. OrderInv'
    BY <1>0, <2>1, <2>3, <2>4 DEF OrderInv, Accounts
  <2>. QED  BY <2>4, <2>6, <2>7, <2>8 DEF IInv, EventsShown
<1>3. CASE ~stopped /\ queued = <<>>
  <2>1. /\ readline' = (IF readline = "none" THEN "open" ELSE readline)
        /\ UNCHANGED <<queued, used, known, buffered>>
        /\ IF readline = "closed" THEN field' = 0 /\ formOutcome' = "rejected" /\ asked' = asked
           ELSE asked' = TRUE /\ field' = i /\ formOutcome' = formOutcome
    BY <1>3 DEF AskLine, InputOver, Settled
  <2>2. LineTypeOK'
    <3>1. asked' \in BOOLEAN
      BY <1>0, <2>1 DEF LineTypeOK
    <3>2. field' \in 0 .. LastField /\ formOutcome' \in {"none", "given", "rejected"}
      BY <1>0, <2>1, Sizes DEF LineTypeOK
    <3>3. readline' \in {"none", "open", "closed"}
      BY <1>0, <2>1 DEF LineTypeOK
    <3>. QED  BY <1>0, <2>1, <3>1, <3>2, <3>3 DEF LineTypeOK
  <2>3. AskInv'
    BY <1>0, <1>3, <2>1 DEF AskInv, LineTypeOK
  <2>4. GivenIsFull'
    BY <1>0, <2>1 DEF GivenIsFull
  <2>5. OrderInv'
    BY <1>0, <2>1 DEF OrderInv, Accounts
  <2>. QED  BY <1>0, <2>1, <2>2, <2>3, <2>4, <2>5 DEF IInv, EventsShown
<1>. QED  BY <1>1, <1>2, <1>3

LEMMA ArrivalKeeps == ASSUME IInv, NEW kind \in LineKinds, LineArrives(kind) PROVE IInv'
<1>. DEFINE l == [line |-> arrived + 1, kind |-> kind]
<1>0. /\ LineTypeOK /\ AskInv /\ EventsShown /\ GivenIsFull /\ OrderInv /\ readline = "open" /\ ~gone
      /\ arrived \in Nat /\ arrived < MaxArrived /\ arrived' = arrived + 1 /\ MaxArrived \in Nat
      /\ queued \in Seq(Lines) /\ used \in Seq(1 .. MaxArrived) /\ arrived' \in 0 .. MaxArrived
      /\ UNCHANGED <<interactive, readline, stopped, gone, forms>>
  BY Sizes DEF IInv, AskInv, LineArrives, LineTypeOK, Lines
<1>1. l \in Lines /\ l.line = arrived + 1
  BY <1>0 DEF Lines
<1>2. CASE asked
  <2>1. TakeLine(field, l) /\ UNCHANGED <<queued, dropped>>
    BY <1>2 DEF LineArrives
  <2>2. field \in 1 .. LastField /\ 1 .. field - 1 \subseteq known /\ queued = <<>>
    BY <1>0, <1>2, Sizes DEF AskInv, LineTypeOK
  <2>. HIDE DEF l
  <2>3. /\ asked' = FALSE /\ buffered' = 0 /\ used' = Append(used, arrived + 1)
        /\ field' \in 0 .. LastField /\ known' \subseteq 1 .. LastField /\ known \subseteq known'
        /\ formOutcome' \in {"none", "given", "rejected"} /\ GivenIsFull'
        /\ field' # 0 => 1 .. field' - 1 \subseteq known'
    BY <1>0, <1>1, <2>1, <2>2, TakeForm
  <2>4. /\ used' \in Seq(1 .. MaxArrived) /\ Rises(used', <<>>, arrived + 1)
        /\ Range(used') = Range(used) \union {arrived + 1}
    BY <1>0, <2>2, <2>3, NextAnswers DEF OrderInv
  <2>5. LineTypeOK'
    <3>1. asked' \in BOOLEAN
      BY <2>3
    <3>2. buffered' \in 0 .. MaxBuffered
      BY <2>3, Sizes
    <3>. QED  BY <1>0, <2>1, <2>3, <2>4, <3>1, <3>2 DEF LineTypeOK
  <2>6. AskInv'
    BY <1>0, <2>1, <2>2, <2>3 DEF AskInv
  <2>7. 1 .. arrived + 1 = (1 .. arrived) \union {arrived + 1}
    BY <1>0
  <2>8. OrderInv'
    BY <1>0, <2>1, <2>2, <2>4, <2>7 DEF OrderInv, Accounts
  <2>. QED  BY <2>3, <2>5, <2>6, <2>8 DEF IInv, EventsShown
<1>3. CASE ~asked
  <2>1. UNCHANGED <<asked, buffered, field, formOutcome, known, used>>
    BY <1>3 DEF LineArrives
  <2>2. 1 .. arrived + 1 = (1 .. arrived) \union {arrived + 1}
    BY <1>0
  <2>3. AskInv'
    BY <1>0, <1>3, <2>1 DEF AskInv
  <2>4. CASE HasRoom
    <3>1. queued' = Append(queued, l) /\ dropped' = dropped
      BY <1>3, <2>4 DEF LineArrives
    <3>2. /\ queued' \in Seq(Lines) /\ Rises(used, queued', arrived + 1)
          /\ Numbers(queued') = Numbers(queued) \union {arrived + 1}
      BY <1>0, <3>1, NextWaits DEF OrderInv
    <3>. HIDE DEF l
    <3>3. Len(queued') <= MaxQueued
      <4>1. Len(queued') = Len(queued) + 1 /\ Len(queued) \in Nat
        BY <1>0, <1>1, <3>1, AppendFacts
      <4>. QED  BY <2>4, <4>1, Sizes DEF HasRoom
    <3>4. LineTypeOK'
      BY <1>0, <2>1, <3>1, <3>2, <3>3, Sizes DEF LineTypeOK, Lines
    <3>5. OrderInv'
      BY <1>0, <2>1, <2>2, <3>1, <3>2 DEF OrderInv, Accounts
    <3>. QED  BY <1>0, <2>1, <2>3, <3>4, <3>5 DEF IInv, EventsShown, GivenIsFull
  <2>5. CASE ~HasRoom
    <3>1. dropped' = dropped \union {arrived + 1} /\ queued' = queued
      BY <1>1, <1>3, <2>5 DEF LineArrives
    <3>2. Rises(used, queued, arrived + 1)
      <4>1. \A i \in DOMAIN used : used[i] \in 1 .. MaxArrived
        BY <1>0, LenProperties, ElementOfSeq
      <4>2. \A j \in DOMAIN queued : queued[j].line \in 1 .. MaxArrived
        <5>1. \A j \in DOMAIN queued : queued[j] \in Lines
          BY <1>0, LenProperties, ElementOfSeq
        <5>. QED  BY <5>1 DEF Lines
      <4>. QED  BY <1>0, <4>1, <4>2 DEF OrderInv, Rises
    <3>3. LineTypeOK'
      BY <1>0, <1>1, <2>1, <3>1, Sizes DEF LineTypeOK
    <3>4. OrderInv'
      BY <1>0, <2>1, <2>2, <3>1, <3>2 DEF OrderInv, Accounts
    <3>. QED  BY <1>0, <2>1, <2>3, <3>3, <3>4 DEF IInv, EventsShown, GivenIsFull
  <2>. QED  BY <2>4, <2>5
<1>. QED  BY <1>2, <1>3

LEMMA NextKeeps == ASSUME IInv, [LineNext]_lineVars PROVE IInv'
<1>0. LineTypeOK /\ AskInv /\ EventsShown /\ GivenIsFull /\ OrderInv
  BY DEF IInv
<1>1. CASE RequestForm
  <2>1. 1 \in 1 .. LastField /\ 1 .. 1 - 1 \subseteq known /\ ~asked /\ forms' \in 0 .. MaxForms
    BY <1>0, <1>1, Sizes DEF RequestForm, AskInv, LineTypeOK
  <2>. QED  BY <1>1, <2>1, AskKeeps DEF RequestForm
<1>2. CASE RequestValues
  <2>1. LineTypeOK'
    <3>1. forms' \in 0 .. MaxForms
      BY <1>0, <1>2, Sizes DEF RequestValues, LineTypeOK
    <3>. QED  BY <1>0, <1>2, <3>1, Sizes DEF RequestValues, Settled, LineTypeOK
  <2>2. AskInv' /\ EventsShown'
    BY <1>0, <1>2 DEF RequestValues, Settled, AskInv, EventsShown
  <2>3. GivenIsFull'
    BY <1>2 DEF RequestValues, Settled, GivenIsFull
  <2>4. OrderInv'
    BY <1>0, <1>2 DEF RequestValues, OrderInv, Accounts
  <2>. QED  BY <2>1, <2>2, <2>3, <2>4 DEF IInv
<1>3. CASE AskNext
  <2>1. field \in 1 .. LastField /\ 1 .. field - 1 \subseteq known /\ ~asked /\ forms' \in 0 .. MaxForms
    BY <1>0, <1>3, Sizes DEF AskNext, AskInv, LineTypeOK
  <2>. QED  BY <1>3, <2>1, AskKeeps DEF AskNext
<1>4. ASSUME NEW kind \in LineKinds, LineArrives(kind) PROVE IInv'
  BY <1>4, ArrivalKeeps
<1>5. CASE InputEnds \/ StopAsking
  <2>1. /\ readline' \in {"none", "open", "closed"} /\ stopped' \in BOOLEAN /\ (stopped => stopped')
        /\ readline' # "open" => readline' = readline \/ readline' = "closed"
        /\ readline' = "open" => readline = "open"
        /\ (readline # "none" => readline' # "none")
        /\ UNCHANGED <<interactive, queued, known, gone, arrived, forms, used, dropped>>
    BY <1>0, <1>5 DEF InputEnds, StopAsking, LineTypeOK
  <2>2. \/ asked /\ asked' = FALSE /\ buffered' = 0 /\ field' = 0 /\ formOutcome' = "rejected"
        \/ ~asked /\ UNCHANGED <<asked, field, formOutcome, buffered>>
    BY <1>5 DEF InputEnds, StopAsking, RejectPending, Flushed, Settled
  <2>3. LineTypeOK'
    <3>1. asked' \in BOOLEAN
      BY <1>0, <2>2 DEF LineTypeOK
    <3>2. field' \in 0 .. LastField /\ formOutcome' \in {"none", "given", "rejected"} /\ buffered' \in 0 .. MaxBuffered
      BY <1>0, <2>2, Sizes DEF LineTypeOK
    <3>. QED  BY <1>0, <2>1, <3>1, <3>2 DEF LineTypeOK
  <2>4. AskInv' /\ EventsShown' /\ GivenIsFull'
    BY <1>0, <2>1, <2>2 DEF AskInv, EventsShown, GivenIsFull
  <2>5. OrderInv'
    BY <1>0, <2>1 DEF OrderInv, Accounts
  <2>. QED  BY <2>3, <2>4, <2>5 DEF IInv
<1>6. CASE Disposes
  <2>1. /\ gone' /\ readline' = (IF readline = "none" THEN "none" ELSE "closed") /\ queued' = <<>> /\ buffered' = 0
        /\ UNCHANGED <<interactive, known, stopped, arrived, forms, used, dropped>>
    BY <1>6 DEF Disposes
  <2>2. \/ asked /\ asked' = FALSE /\ field' = 0 /\ formOutcome' = "rejected"
        \/ ~asked /\ UNCHANGED <<asked, field, formOutcome>>
    BY <1>6 DEF Disposes, Settled
  <2>3. queued' \in Seq(Lines) /\ Len(queued') = 0 /\ DOMAIN queued' = {}
    BY <2>1
  <2>4. LineTypeOK'
    <3>1. gone' \in BOOLEAN /\ readline' \in {"none", "open", "closed"} /\ asked' \in BOOLEAN
      BY <1>0, <1>6, <2>1, <2>2 DEF LineTypeOK, Disposes
    <3>2. Len(queued') <= MaxQueued /\ buffered' \in 0 .. MaxBuffered
      BY <2>1, <2>3, Sizes
    <3>3. field' \in 0 .. LastField /\ formOutcome' \in {"none", "given", "rejected"}
      BY <1>0, <2>2, Sizes DEF LineTypeOK
    <3>. QED  BY <1>0, <2>1, <2>3, <3>1, <3>2, <3>3 DEF LineTypeOK, Lines
  <2>5. AskInv' /\ EventsShown' /\ GivenIsFull'
    BY <1>0, <2>1, <2>2 DEF AskInv, EventsShown, GivenIsFull
  <2>6. OrderInv'
    BY <1>0, <2>1, <2>3 DEF OrderInv, Rises
  <2>. QED  BY <2>4, <2>5, <2>6 DEF IInv
<1>7. CASE LineEvent
  <2>1. LineTypeOK'
    BY <1>0, <1>7, Sizes DEF LineEvent, LineTypeOK
  <2>2. AskInv' /\ EventsShown' /\ GivenIsFull' /\ OrderInv'
    BY <1>0, <1>7 DEF LineEvent, AskInv, EventsShown, GivenIsFull, OrderInv, Accounts
  <2>. QED  BY <2>1, <2>2 DEF IInv
<1>8. CASE UNCHANGED lineVars
  BY <1>0, <1>8 DEF lineVars, IInv, LineTypeOK, AskInv, EventsShown, GivenIsFull, OrderInv, Accounts
<1>. QED  BY <1>1, <1>2, <1>3, <1>4, <1>5, <1>6, <1>7, <1>8 DEF LineNext

\* Lines answer the fields in the order they arrived, each once, no question stays open
\* after the end of the input, the abort or dispose, no event is held back for good, and a
\* form that was given is complete (line-renderer.ts, ask, nextLine and dispose).
THEOREM LinesAreSafe == LineSpec => []LinesSafe
<1>1. LineInit => IInv
  <2>. SUFFICES ASSUME LineInit PROVE IInv
    OBVIOUS
  <2>1. queued \in Seq(Lines) /\ used \in Seq(1 .. MaxArrived) /\ Len(queued) = 0
    BY DEF LineInit
  <2>2. LineTypeOK
    <3>1. interactive \in BOOLEAN /\ asked \in BOOLEAN /\ stopped \in BOOLEAN /\ gone \in BOOLEAN
      BY Zenon DEF LineInit
    <3>2. /\ readline = "none" /\ field = 0 /\ known = {} /\ formOutcome = "none" /\ buffered = 0
          /\ arrived = 0 /\ forms = 0 /\ dropped = {}
      BY DEF LineInit
    <3>. QED  BY <2>1, <3>1, <3>2, Sizes DEF LineTypeOK, Lines
  <2>3. AskInv /\ EventsShown /\ GivenIsFull
    BY DEF LineInit, AskInv, EventsShown, GivenIsFull
  <2>4. DOMAIN queued = {} /\ DOMAIN used = {} /\ arrived = 0 /\ dropped = {}
    BY DEF LineInit
  <2>5. OrderInv
    BY <2>4 DEF OrderInv, Rises, Accounts, Numbers, Range
  <2>. QED  BY <2>2, <2>3, <2>5 DEF IInv
<1>. QED  BY <1>1, Implied, NextKeeps, PTL DEF LineSpec

-----------------------------------------------------------------------------
(* The answer of the program.                                              *)

\* What is known of the arguments while they are read: `open` and a file exclude each
\* other, and every flag is one of the words.
ArgumentsOf(words) ==
  {p \in [open : BOOLEAN, file : Targets \union {"none"}, flags : SUBSET (BooleanOptions \intersect Range(words)),
          wants : ValueOptions \union {"none"}, bad : BOOLEAN] : p.open => p.file = "none"}

LEMMA TakeWordFacts ==
  ASSUME NEW words, NEW w \in Range(words), NEW p \in ArgumentsOf(words)
  PROVE  TakeWord(p, w) \in ArgumentsOf(words)
<1>. USE DEF ArgumentsOf
<1>1. CASE p.bad
  <2>1. TakeWord(p, w) = p
    BY <1>1 DEF TakeWord
  <2>. QED  BY <2>1
<1>2. CASE ~p.bad /\ p.wants # "none"
  <2>1. TakeWord(p, w) = [p EXCEPT !.wants = "none", !.bad = (p.wants = "--vars" /\ w # "{}")]
    BY <1>2 DEF TakeWord
  <2>. QED  BY <2>1
<1>3. CASE ~p.bad /\ p.wants = "none" /\ w \in BooleanOptions
  <2>1. TakeWord(p, w) = [p EXCEPT !.flags = @ \union {w}]
    BY <1>3 DEF TakeWord, BooleanOptions, ValueOptions, Targets
  <2>. QED  BY <1>3, <2>1
<1>4. CASE ~p.bad /\ p.wants = "none" /\ w \in ValueOptions
  <2>1. TakeWord(p, w) = [p EXCEPT !.wants = w]
    BY <1>4 DEF TakeWord, BooleanOptions, ValueOptions, Targets
  <2>. QED  BY <1>4, <2>1
<1>5. CASE ~p.bad /\ p.wants = "none" /\ w \in Targets /\ ~p.open /\ p.file = "none"
  <2>1. TakeWord(p, w) = IF w = "open" THEN [p EXCEPT !.open = TRUE] ELSE [p EXCEPT !.file = w]
    BY <1>5 DEF TakeWord, BooleanOptions, ValueOptions, Targets
  <2>. QED  BY <1>5, <2>1
<1>6. CASE /\ ~p.bad /\ p.wants = "none" /\ w \notin BooleanOptions \union ValueOptions
           /\ ~(w \in Targets /\ ~p.open /\ p.file = "none")
  <2>1. TakeWord(p, w) = [p EXCEPT !.bad = TRUE]
    BY <1>6 DEF TakeWord
  <2>. QED  BY <2>1
<1>. QED  BY <1>1, <1>2, <1>3, <1>4, <1>5, <1>6

LEMMA ParsedFacts ==
  ASSUME NEW words \in Seq(Words)
  PROVE  Parsed(words) \in ArgumentsOf(words)
<1> DEFINE n == Len(words)
           V == ArgumentsOf(words)
           first == [open |-> FALSE, file |-> "none", flags |-> {}, wants |-> "none", bad |-> FALSE]
           h == [x \in (1 .. n) \X V |-> TakeWord(x[2], words[x[1]])]
           IsRun(f) == f = [i \in 0 .. n |-> IF i = 0 THEN first ELSE TakeWord(f[i - 1], words[i])]
           c == CHOOSE f : IsRun(f)
<1>1. n \in Nat /\ first \in V
  BY LenProperties DEF ArgumentsOf
<1>2. \A i \in 1 .. n : words[i] \in Range(words)
  BY LenProperties DEF Range
<1>3. \A i \in 1 .. n : \A p \in V : TakeWord(p, words[i]) \in V
  <2>. HIDE DEF n
  <2>. QED  BY <1>2, TakeWordFacts
<1>. HIDE DEF V
<1>4. IsStep(h, n, V)
  BY <1>3 DEF IsStep
<1>5. PICK f : Follows(f, n, V, first, h)
  <2>. HIDE DEF n, h, first
  <2>. QED  BY <1>1, <1>4, RecursionExists
<1>6. \A i \in 1 .. n : f[i] = TakeWord(f[i - 1], words[i])
  <2>1. ASSUME NEW i \in 1 .. n PROVE f[i] = TakeWord(f[i - 1], words[i])
    <3>1. f[i - 1] \in V
      <4>1. i - 1 \in 0 .. n
        BY <1>1
      <4>. HIDE DEF n, h, first
      <4>. QED  BY <1>5, <4>1 DEF Follows
    <3>2. h[<<i, f[i - 1]>>] = TakeWord(f[i - 1], words[i])
      BY <3>1
    <3>. HIDE DEF h, first
    <3>. QED  BY <1>5, <3>1, <3>2 DEF Follows
  <2>. QED  BY <2>1
<1>7. f \in [0 .. n -> V] /\ f[0] = first
  <2>. HIDE DEF n, h, first
  <2>. QED  BY <1>5 DEF Follows
<1>8. IsRun(f)
  <2>. HIDE DEF first, h
  <2>. QED  BY <1>1, <1>6, <1>7
<1>9. IsRun(c)
  <2>. HIDE DEF IsRun
  <2>. QED  BY <1>8, Zenon
<1>10. Parsed(words) = c[n]
  BY Zenon DEF Parsed
<1> DEFINE T == {i \in 0 .. n : c[i] \in V}
<1>11. 0 \in T
  <2>. HIDE DEF c, first
  <2>. QED  BY <1>1, <1>9
<1>12. \A i \in 0 .. n - 1 : i \in T => i + 1 \in T
  <2>1. ASSUME NEW i \in 0 .. n - 1, c[i] \in V PROVE c[i + 1] \in V
    <3>. HIDE DEF c, first, h
    <3>1. i + 1 \in 1 .. n /\ i + 1 \in 0 .. n /\ i + 1 # 0 /\ (i + 1) - 1 = i
      BY <1>1
    <3>2. c[i + 1] = TakeWord(c[i], words[i + 1])
      BY <1>9, <3>1
    <3>. QED  BY <1>3, <2>1, <3>1, <3>2
  <2>. HIDE DEF c
  <2>. QED  BY <1>1, <2>1
<1>. HIDE DEF T
<1>13. 0 .. n \subseteq T
  BY <1>1, <1>11, <1>12, UpTo
<1>14. n \in T
  BY <1>1, <1>13
<1>15. c[n] \in V
  <2>. HIDE DEF c
  <2>. QED  BY <1>14 DEF T
<1>. QED  BY <1>10, <1>15 DEF V

\* Where the program may be with a package chosen, or none, and what is known of it there.
DaemonRun == argv = <<"gateway", "run">>
DaemonStages == {"daemon-setup", "daemon-start", "daemon-wait", "daemon"}
Closing == {"finally", "over"}
ChosenInv ==
  /\ chosen.open => "--stream" \notin chosen.flags
  /\ "--stream" \in chosen.flags => chosen.file /\ emitStream
  /\ cliStage = "start" \/ DaemonRun => chosen = Nothing
  /\ cliStage \in DaemonStages => DaemonRun
  /\ DaemonRun => cliStage \in DaemonStages \union Closing \union {"start", "caught", "answer"}
  /\ cliStage = "launcher" => ~chosen.file
  /\ cliStage \in {"setup", "load", "consent", "conversation", "run", "exit-key"} => chosen.file
  /\ cliStage \in {"consent", "conversation"} => Shown

\* How the answer will be given: as the flags say once the renderer has been made, as the
\* words say before.
EmitInv ==
  /\ (DaemonRun /\ cliStage # "start") => ~emitJson
  /\ (chosen.file /\ cliStage # "setup") => (emitJson <=> JsonDue)
  /\ (chosen.file /\ cliStage # "setup") => renderer = RendererFor
  /\ ~chosen.file => renderer = "none"
  /\ (~chosen.file /\ cliStage \in {"start", "launcher", "caught", "answer"}) => emitJson \/ emitStream \/ DaemonRun

\* AnswerMeant before the last step too, and that nothing is answered before.
AnswerIs ==
  /\ (chosen.file /\ JsonDue /\ exitCode # 13) => Len(documents) = 1
  /\ (DaemonRun \/ Flag("--stream") \/ (chosen.file /\ Shown)) => documents = <<>>
  /\ documents = <<"ok">> => exitCode = 0
  /\ documents = <<"failed">> => exitCode # 0 \/ error = "help"
  /\ error \in RunFailures => exitCode # 0
  /\ (exitCode \notin {0, 13, 130} /\ renderer # "terminal" /\ ~DaemonRun) => told # {}
EndingInv ==
  /\ cliStage \notin Closing => documents = <<>> /\ exitCode = 0
  /\ cliStage \notin Closing \union {"caught", "answer", "exit-key"} => error = "none"
  /\ cliStage \in Closing => AnswerIs
CliInv == CliTypeOK /\ ChosenInv /\ EmitInv /\ EndingInv

LEMMA CliInitially == CliInit => CliInv
<1>. SUFFICES ASSUME CliInit PROVE CliInv
  OBVIOUS
<1>. USE DEF CliInit, Nothing
<1>1. CliTypeOK
  <2>1. argv \in Seq(Words) /\ tty \in BOOLEAN /\ cliStage \in CliStages
    BY CommandAssumption DEF CliStages
  <2>2. chosen \in [open : BOOLEAN, file : BOOLEAN, flags : SUBSET BooleanOptions]
    OBVIOUS
  <2>3. {managed, emitJson, emitStream, interrupted} \subseteq BOOLEAN
    <3>1. managed = FALSE /\ emitJson = TRUE /\ emitStream = FALSE /\ interrupted = FALSE
      OBVIOUS
    <3>. QED  BY <3>1, Zenon
  <2>4. documents \in Seq({"ok", "failed"}) /\ told \subseteq {"stdout", "stderr", "screen"}
        /\ error \in CliFailures \union {"none", "help"} /\ exitCode \in {0, 2, 3, 4, 13, 130}
        /\ held \subseteq {"runtime", "gateway", "app"} /\ renderer \in {"none", "line", "terminal"}
    OBVIOUS
  <2>. QED  BY <2>1, <2>2, <2>3, <2>4 DEF CliTypeOK
<1>2. ChosenInv
  BY DEF ChosenInv, DaemonStages, Closing
<1>3. EmitInv
  BY DEF EmitInv
<1>4. EndingInv
  BY DEF EndingInv, Closing
<1>. QED  BY <1>1, <1>2, <1>3, <1>4 DEF CliInv

\* The first step: the arguments choose.
LEMMA CliBegins == CliInv /\ Begin => CliInv'
<1>. SUFFICES ASSUME CliInv, Begin PROVE CliInv'
  OBVIOUS
<1>0. /\ cliStage = "start" /\ CliTypeOK /\ ChosenInv /\ EmitInv /\ EndingInv
      /\ UNCHANGED <<argv, tty, renderer, managed, documents, told, exitCode, held, interrupted>>
      /\ argv \in Seq(Words) /\ chosen = Nothing /\ error = "none" /\ documents = <<>> /\ exitCode = 0 /\ renderer = "none"
  BY DEF CliInv, Begin, CliTypeOK, ChosenInv, EmitInv, EndingInv, Closing, Nothing
<1>1. CASE argv = <<"--version">> /\ cliStage' = "finally" /\ UNCHANGED <<chosen, emitJson, emitStream, error>>
  <2>1. CliTypeOK'
    BY <1>0, <1>1 DEF CliTypeOK, CliStages
  <2>2. ChosenInv' /\ EmitInv' /\ EndingInv'
    BY <1>0, <1>1 DEF ChosenInv, EmitInv, EndingInv, AnswerIs, Closing, DaemonRun, DaemonStages, Nothing, RunFailures, CliFailures, Flag, JsonDue, Shown
  <2>. QED  BY <2>1, <2>2 DEF CliInv
<1>2. CASE IsDaemon /\ argv # <<"gateway", "run">> /\ Throws("usage") /\ UNCHANGED <<chosen, emitJson, emitStream>>
  <2>1. CliTypeOK'
    BY <1>0, <1>2 DEF CliTypeOK, CliStages, CliFailures, Throws
  <2>2. ~chosen'.open /\ ~chosen'.file /\ "--stream" \notin chosen'.flags /\ cliStage' = "caught" /\ ~DaemonRun'
    BY <1>0, <1>2 DEF Nothing, Throws, DaemonRun
  <2>3. ChosenInv'
    BY <2>2 DEF ChosenInv, DaemonStages
  <2>4. EmitInv'
    <3>1. renderer' = "none" /\ (emitJson' \/ emitStream')
      BY <1>0, <1>2, <2>2 DEF EmitInv, DaemonRun, Nothing
    <3>. QED  BY <2>2, <3>1 DEF EmitInv
  <2>5. EndingInv'
    BY <1>0, <2>2 DEF EndingInv, Closing
  <2>. QED  BY <2>1, <2>3, <2>4, <2>5 DEF CliInv
<1>3. CASE IsDaemon /\ argv = <<"gateway", "run">> /\ cliStage' = "daemon-setup" /\ emitJson' = FALSE
           /\ UNCHANGED <<chosen, emitStream, error>>
  <2>1. CliTypeOK'
    <3>1. managed \in BOOLEAN /\ emitStream \in BOOLEAN /\ interrupted \in BOOLEAN
      BY <1>0 DEF CliTypeOK
    <3>2. {managed, emitJson, emitStream, interrupted}' \subseteq BOOLEAN
      BY <1>0, <1>3, <3>1, Zenon
    <3>. QED  BY <1>0, <1>3, <3>2 DEF CliTypeOK, CliStages
  <2>2. ChosenInv'
    <3>1. chosen' = chosen /\ ~chosen.open /\ ~chosen.file /\ "--stream" \notin chosen.flags
      BY <1>0, <1>3 DEF Nothing
    <3>2. cliStage' = "daemon-setup" /\ DaemonRun' /\ chosen' = Nothing
      BY <1>0, <1>3 DEF DaemonRun
    <3>. QED  BY <3>1, <3>2 DEF ChosenInv, DaemonStages
  <2>3. EmitInv' /\ EndingInv'
    BY <1>0, <1>3 DEF EmitInv, EndingInv, Closing, DaemonRun, Nothing
  <2>. QED  BY <2>1, <2>2, <2>3 DEF CliInv
<1>4. CASE argv # <<"--version">> /\ ~IsDaemon /\ Parse
  <2> DEFINE p == Parsed(argv)
             streaming == "--stream" \in Range(argv)
             options == [open |-> p.open, file |-> p.file # "none", flags |-> p.flags]
  <2>1. ~DaemonRun
    BY <1>4 DEF IsDaemon, DaemonRun
  <2>2. p \in ArgumentsOf(argv)
    BY <1>0, ParsedFacts
  <2>3. /\ emitStream' = streaming /\ emitJson' = ~streaming
        /\ \/ \E k \in {"help", "usage"} : Throws(k) /\ UNCHANGED chosen
           \/ /\ Valid(p) /\ chosen' = options
              /\ \/ Throws("usage") /\ p.open
                 \/ p.open /\ cliStage' = "launcher" /\ UNCHANGED error
                 \/ ~p.open /\ cliStage' = "setup" /\ UNCHANGED error
    <3>. HIDE DEF p
    <3>. QED  BY <1>4 DEF Parse, p
  <2>4. Valid(p) => /\ options \in [open : BOOLEAN, file : BOOLEAN, flags : SUBSET BooleanOptions]
                    /\ options.open => "--stream" \notin options.flags /\ ~options.file
                    /\ ~options.open => options.file
                    /\ "--stream" \in options.flags => options.file /\ streaming
    <3>. HIDE DEF p
    <3>. QED  BY <2>2 DEF ArgumentsOf, Valid
  <2>. HIDE DEF p, streaming, options
  <2>5. /\ chosen' \in [open : BOOLEAN, file : BOOLEAN, flags : SUBSET BooleanOptions]
        /\ chosen'.open => "--stream" \notin chosen'.flags
        /\ "--stream" \in chosen'.flags => chosen'.file /\ emitStream'
        /\ ~chosen'.file => cliStage' \in {"caught", "launcher"} /\ (cliStage' = "launcher" => error' = "none")
        /\ chosen'.file => cliStage' = "setup" /\ error' = "none"
        /\ error' \in {"none", "help", "usage"} /\ emitStream' \in BOOLEAN /\ (emitJson' <=> ~emitStream')
    <3>1. streaming \in BOOLEAN
      BY DEF streaming
    <3>2. CASE \E k \in {"help", "usage"} : Throws(k) /\ UNCHANGED chosen
      <4>1. PICK k \in {"help", "usage"} : Throws(k) /\ UNCHANGED chosen
        BY <3>2
      <4>2. cliStage' = "caught" /\ error' \in {"help", "usage"} /\ chosen' = chosen
        BY <4>1 DEF Throws
      <4>3. chosen \in [open : BOOLEAN, file : BOOLEAN, flags : SUBSET BooleanOptions]
        BY <1>0 DEF CliTypeOK
      <4>4. ~chosen.open /\ ~chosen.file /\ "--stream" \notin chosen.flags
        BY <1>0 DEF Nothing
      <4>5. emitStream' \in BOOLEAN /\ (emitJson' <=> ~emitStream')
        BY <2>3, <3>1
      <4>. QED  BY <4>2, <4>3, <4>4, <4>5
    <3>3. CASE Valid(p) /\ chosen' = options /\ Throws("usage") /\ p.open
      <4>1. options.open
        BY <3>3 DEF options
      <4>. QED  BY <1>0, <2>3, <2>4, <3>1, <3>3, <4>1 DEF Throws
    <3>4. CASE Valid(p) /\ chosen' = options /\ p.open /\ cliStage' = "launcher" /\ UNCHANGED error
      <4>1. options.open
        BY <3>4 DEF options
      <4>. QED  BY <1>0, <2>3, <2>4, <3>1, <3>4, <4>1
    <3>5. CASE Valid(p) /\ chosen' = options /\ ~p.open /\ cliStage' = "setup" /\ UNCHANGED error
      <4>1. ~options.open
        BY <3>5 DEF options
      <4>. QED  BY <1>0, <2>3, <2>4, <3>1, <3>5, <4>1
    <3>. QED  BY <2>3, <3>2, <3>3, <3>4, <3>5
  <2>6. CliTypeOK'
    <3>1. managed \in BOOLEAN /\ interrupted \in BOOLEAN /\ emitJson' \in BOOLEAN
      BY <1>0, <2>3 DEF CliTypeOK, streaming
    <3>2. {managed, emitJson, emitStream, interrupted}' \subseteq BOOLEAN
      BY <1>0, <2>5, <3>1, Zenon
    <3>3. cliStage' \in CliStages
      BY <2>5 DEF CliStages
    <3>. QED  BY <1>0, <2>5, <3>2, <3>3 DEF CliTypeOK, CliFailures
  <2>7. ChosenInv' /\ EmitInv' /\ EndingInv'
    <3>1. cliStage' \in {"caught", "launcher", "setup"}
      BY <2>5
    <3>2. ChosenInv'
      BY <1>0, <2>1, <2>5, <3>1 DEF ChosenInv, DaemonRun, DaemonStages
    <3>3. EmitInv'
      BY <1>0, <2>1, <2>5, <3>1 DEF EmitInv, DaemonRun
    <3>4. EndingInv'
      BY <1>0, <2>5, <3>1 DEF EndingInv, Closing
    <3>. QED  BY <3>2, <3>3, <3>4
  <2>. QED  BY <2>6, <2>7 DEF CliInv
<1>. QED  BY <1>0, <1>1, <1>2, <1>3, <1>4 DEF Begin

\* Between the first step and the answer the program moves from place to place.
LEMMA CliMoves ==
  ASSUME ChosenInv, EmitInv, UNCHANGED <<argv, tty, chosen, renderer, emitJson, emitStream>>,
         cliStage' = cliStage \/
           /\ cliStage \notin {"start", "setup"} /\ cliStage' \notin {"start", "launcher", "setup"}
           /\ cliStage' \in DaemonStages => cliStage \in DaemonStages
           /\ DaemonRun => cliStage' \in DaemonStages \union Closing \union {"caught", "answer"}
           /\ cliStage' \in {"load", "consent", "conversation", "run", "exit-key"} => chosen.file
           /\ cliStage' \in {"consent", "conversation"} => Shown
           /\ cliStage' \in {"caught", "answer"} =>
                chosen.file \/ DaemonRun \/ cliStage \in {"launcher", "caught", "answer"}
  PROVE  ChosenInv' /\ EmitInv'
<1>1. /\ Shown' = Shown /\ JsonDue' = JsonDue /\ RendererFor' = RendererFor
      /\ DaemonRun' = DaemonRun
  BY DEF Shown, JsonDue, RendererFor, FullScreen, FullScreenFor, Flag, DaemonRun
<1>2. CASE cliStage' = cliStage
  BY <1>1, <1>2 DEF ChosenInv, EmitInv
<1>3. CASE cliStage' # cliStage
  <2>1. ChosenInv'
    BY <1>1, <1>3 DEF ChosenInv
  <2>2. EmitInv'
    BY <1>1, <1>3 DEF EmitInv
  <2>. QED  BY <2>1, <2>2
<1>. QED  BY <1>2, <1>3

\* Nothing is answered yet.
LEMMA CliSilent ==
  ASSUME EndingInv, cliStage \notin Closing, cliStage' \notin Closing, UNCHANGED <<documents, exitCode>>,
         cliStage' \notin {"caught", "answer", "exit-key"} => error' = "none"
  PROVE  EndingInv'
BY DEF EndingInv

\* The program leaves without an answer, which the flags did not ask for.
LEMMA CliLeaves ==
  ASSUME EndingInv, cliStage \notin Closing \union {"caught", "answer", "exit-key"}, cliStage' = "finally",
         UNCHANGED <<documents, exitCode, error>>, ~chosen'.file \/ ~JsonDue'
  PROVE  EndingInv'
<1>1. documents' = <<>> /\ exitCode' = 0 /\ error' = "none"
  BY DEF EndingInv
<1>. QED  BY <1>1 DEF EndingInv, Closing, AnswerIs, RunFailures, CliFailures

LEMMA CliDaemonStep ==
  ASSUME CliInv, DaemonSetup \/ DaemonStart \/ DaemonWait \/ Interrupt
  PROVE  CliInv'
<1>0. /\ CliTypeOK /\ ChosenInv /\ EmitInv /\ EndingInv
      /\ UNCHANGED <<argv, tty, chosen, renderer, managed, emitJson, emitStream, documents, told, exitCode>>
  BY DEF CliInv, DaemonSetup, DaemonStart, DaemonWait, Interrupt, CliWorld, Outputs
<1>1. CASE DaemonSetup \/ DaemonStart \/ DaemonWait
  <2>1. /\ cliStage \in DaemonStages /\ UNCHANGED interrupted /\ held' \subseteq held \union {"gateway"}
        /\ \/ cliStage' = "caught" /\ error' \in {"usage", "runtime", "other"}
           \/ cliStage' \in DaemonStages \union {"finally"} /\ UNCHANGED error
    BY <1>1 DEF DaemonSetup, DaemonStart, DaemonWait, DaemonStages, Throws, WaitsFor, CliWorld
  <2>2. chosen = Nothing /\ error = "none" /\ ~chosen.file
    BY <1>0, <2>1 DEF ChosenInv, EndingInv, DaemonStages, Closing, Nothing
  <2>3. cliStage \notin {"start", "setup", "launcher", "caught", "answer", "exit-key"} \union Closing
    BY <2>1 DEF DaemonStages, Closing
  <2>4. CliTypeOK'
    <3>1. cliStage' \in CliStages
      BY <2>1 DEF CliStages, DaemonStages
    <3>2. error' \in CliFailures \union {"none", "help"} /\ held' \subseteq {"runtime", "gateway", "app"}
      BY <1>0, <2>1 DEF CliTypeOK, CliFailures
    <3>. QED  BY <1>0, <2>1, <3>1, <3>2 DEF CliTypeOK
  <2>5. ChosenInv' /\ EmitInv'
    <3>1. DaemonRun
      BY <1>0, <2>1 DEF ChosenInv
    <3>2. cliStage' \in DaemonStages \union {"caught", "finally"}
      BY <2>1
    <3>. QED  BY <1>0, <2>1, <2>3, <3>1, <3>2, CliMoves DEF DaemonStages, Closing
  <2>6. EndingInv'
    <3>1. CASE cliStage' = "finally"
      BY <1>0, <2>1, <2>2, <2>3, <3>1, CliLeaves
    <3>2. CASE cliStage' # "finally"
      BY <1>0, <2>1, <2>2, <2>3, <3>2, CliSilent DEF Closing, DaemonStages
    <3>. QED  BY <3>1, <3>2
  <2>. QED  BY <2>4, <2>5, <2>6 DEF CliInv
<1>2. CASE Interrupt
  <2>1. /\ interrupted' = TRUE /\ cliStage # "over" /\ UNCHANGED <<held, error>>
        /\ \/ cliStage = "daemon" /\ cliStage' = "finally"
           \/ cliStage' = cliStage
    BY <1>2 DEF Interrupt
  <2>2. CliTypeOK'
    <3>1. managed \in BOOLEAN /\ emitJson \in BOOLEAN /\ emitStream \in BOOLEAN
      BY <1>0 DEF CliTypeOK
    <3>2. {managed, emitJson, emitStream, interrupted}' \subseteq BOOLEAN
      BY <1>0, <2>1, <3>1, Zenon
    <3>3. cliStage' \in CliStages
      BY <1>0, <2>1 DEF CliTypeOK, CliStages
    <3>. QED  BY <1>0, <2>1, <3>2, <3>3 DEF CliTypeOK
  <2>3. CASE cliStage' = cliStage
    <3>1. ChosenInv' /\ EmitInv'
      BY <1>0, <2>3, CliMoves
    <3>2. EndingInv'
      BY <1>0, <2>1, <2>3 DEF EndingInv, AnswerIs, JsonDue, Shown, FullScreen, FullScreenFor, Flag, DaemonRun
    <3>. QED  BY <2>2, <3>1, <3>2 DEF CliInv
  <2>4. CASE cliStage = "daemon" /\ cliStage' = "finally"
    <3>1. ChosenInv' /\ EmitInv'
      BY <1>0, <2>4, CliMoves DEF DaemonStages, Closing
    <3>2. ~chosen'.file
      BY <1>0, <2>4 DEF ChosenInv, DaemonStages, Nothing
    <3>3. EndingInv'
      BY <1>0, <2>1, <2>4, <3>2, CliLeaves DEF Closing
    <3>. QED  BY <2>2, <3>1, <3>3 DEF CliInv
  <2>. QED  BY <2>1, <2>3, <2>4
<1>. QED  BY <1>1, <1>2

\* Before the package is loaded.
LEMMA CliChooses == ASSUME CliInv, Launcher \/ Setup PROVE CliInv'
<1>0. /\ CliTypeOK /\ ChosenInv /\ EmitInv /\ EndingInv
      /\ UNCHANGED <<argv, tty, interrupted, emitStream, documents, told, exitCode>>
      /\ cliStage \in {"launcher", "setup"} /\ ~DaemonRun
  BY DEF CliInv, Launcher, Setup, CliWorld, ChosenInv, DaemonStages, Closing
<1>1. error = "none" /\ documents = <<>> /\ exitCode = 0 /\ {managed, emitStream, interrupted, emitJson} \subseteq BOOLEAN
  BY <1>0 DEF EndingInv, Closing, CliTypeOK
<1>2. CASE Launcher
  <2>1. /\ UNCHANGED <<renderer, managed, held>> /\ chosen'.open = chosen.open /\ chosen'.flags = chosen.flags
        /\ chosen' \in [open : BOOLEAN, file : BOOLEAN, flags : SUBSET BooleanOptions]
        /\ \/ cliStage' = "setup" /\ chosen'.file /\ UNCHANGED <<error, emitJson>>
           \/ cliStage' = "finally" /\ emitJson' = FALSE /\ UNCHANGED <<error, chosen>>
           \/ cliStage' = "caught" /\ error' \in CliFailures /\ UNCHANGED <<emitJson, chosen>>
    <3>1. chosen \in [open : BOOLEAN, file : BOOLEAN, flags : SUBSET BooleanOptions]
      BY <1>0 DEF CliTypeOK
    <3>2. CASE cliStage' = "setup" /\ chosen' = [chosen EXCEPT !.file = TRUE] /\ UNCHANGED <<error, emitJson>>
      BY <1>2, <3>1, <3>2 DEF Launcher
    <3>3. CASE cliStage' = "finally" /\ emitJson' = FALSE /\ UNCHANGED <<error, chosen>>
      BY <1>2, <3>1, <3>3 DEF Launcher
    <3>4. CASE \E k \in {"cancelled", "runtime", "other"} : Throws(k) /\ UNCHANGED <<emitJson, chosen>>
      BY <1>2, <3>1, <3>4 DEF Launcher, Throws, CliFailures
    <3>. QED  BY <1>2, <3>2, <3>3, <3>4 DEF Launcher
  <2>2. cliStage = "launcher" /\ ~chosen.file /\ renderer = "none"
    BY <1>0, <1>2 DEF Launcher, ChosenInv, EmitInv
  <2>3. ~DaemonRun' /\ argv' = argv
    BY <1>0 DEF DaemonRun
  <2>4. CliTypeOK'
    <3>1. {managed, emitJson, emitStream, interrupted}' \subseteq BOOLEAN
      BY <1>0, <1>1, <2>1, Zenon
    <3>. QED  BY <1>0, <2>1, <3>1 DEF CliTypeOK, CliStages
  <2>5. ChosenInv'
    BY <1>0, <2>1, <2>3 DEF ChosenInv, DaemonStages
  <2>6. EmitInv'
    <3>1. (~chosen'.file /\ cliStage' \in {"start", "launcher", "caught", "answer"}) => emitJson' \/ emitStream'
      BY <1>0, <2>1, <2>2 DEF EmitInv
    <3>. QED  BY <1>0, <2>1, <2>2, <2>3, <3>1 DEF EmitInv
  <2>7. EndingInv'
    <3>1. CASE cliStage' = "finally"
      BY <1>0, <2>1, <2>2, <3>1, CliLeaves DEF Closing
    <3>2. CASE cliStage' # "finally"
      BY <1>0, <1>1, <2>1, <2>2, <3>2, CliSilent DEF Closing
    <3>. QED  BY <3>1, <3>2
  <2>. QED  BY <2>4, <2>5, <2>6, <2>7 DEF CliInv
<1>3. CASE Setup
  <2>1. /\ cliStage = "setup" /\ (emitJson' <=> JsonDue) /\ renderer' = RendererFor /\ UNCHANGED chosen
        /\ emitJson' \in BOOLEAN
        /\ \/ cliStage' = "caught" /\ error' \in CliFailures /\ UNCHANGED <<managed, held>>
           \/ cliStage' = "load" /\ managed' = TRUE /\ held' = held \union {"runtime"} /\ UNCHANGED error
    BY <1>3 DEF Setup, Throws, CliFailures, JsonDue
  <2>2. chosen'.file /\ chosen'.open = chosen.open /\ chosen'.flags = chosen.flags
    BY <1>0, <2>1 DEF ChosenInv
  <2>3. ~DaemonRun' /\ JsonDue' = JsonDue /\ RendererFor' = RendererFor
    BY <1>0, <2>1 DEF DaemonRun, JsonDue, RendererFor, FullScreen, FullScreenFor, Flag
  <2>4. CliTypeOK'
    <3>1. managed' \in BOOLEAN /\ emitStream' \in BOOLEAN /\ interrupted' \in BOOLEAN
      BY <1>0, <1>1, <2>1
    <3>2. {managed, emitJson, emitStream, interrupted}' \subseteq BOOLEAN
      BY <2>1, <3>1, Zenon
    <3>3. renderer' \in {"none", "line", "terminal"} /\ held' \subseteq {"runtime", "gateway", "app"}
      BY <1>0, <2>1 DEF RendererFor, CliTypeOK
    <3>. QED  BY <1>0, <2>1, <3>2, <3>3 DEF CliTypeOK, CliStages
  <2>5. ChosenInv'
    BY <1>0, <2>1, <2>2, <2>3 DEF ChosenInv, DaemonStages
  <2>6. EmitInv'
    BY <2>1, <2>2, <2>3 DEF EmitInv
  <2>7. EndingInv'
    BY <1>0, <1>1, <2>1, CliSilent DEF Closing
  <2>. QED  BY <2>4, <2>5, <2>6, <2>7 DEF CliInv
<1>. QED  BY <1>2, <1>3

\* With a package.
LEMMA CliRuns ==
  ASSUME CliInv, Load \/ Consent \/ Conversation \/ RunPackage \/ ResultKey
  PROVE  CliInv'
<1>0. /\ CliTypeOK /\ ChosenInv /\ EmitInv /\ EndingInv
      /\ UNCHANGED <<argv, tty, interrupted, chosen, renderer, managed, emitJson, emitStream, documents, exitCode>>
      /\ cliStage \in {"load", "consent", "conversation", "run", "exit-key"}
  BY DEF CliInv, Load, Consent, Conversation, RunPackage, ResultKey, CliWorld, Outputs
<1>1. /\ chosen.file /\ ~DaemonRun /\ documents = <<>> /\ exitCode = 0
      /\ (cliStage # "exit-key" => error = "none") /\ (cliStage \in {"consent", "conversation"} => Shown)
  BY <1>0 DEF ChosenInv, EndingInv, DaemonStages, Closing
<1>2. /\ cliStage' \in {"consent", "conversation", "run", "exit-key", "caught", "answer", "finally"}
      /\ cliStage' = "finally" => cliStage \in {"consent", "conversation"} /\ UNCHANGED error
      /\ cliStage' \in {"consent", "conversation"} => Shown
      /\ cliStage' \notin {"caught", "answer", "exit-key"} => UNCHANGED error /\ cliStage # "exit-key"
      /\ error' \in CliFailures \union {"none", "help"}
      /\ told' \subseteq {"stdout", "stderr", "screen"} /\ held' \subseteq {"runtime", "gateway", "app"}
  <2>1. CASE Load
    BY <2>1 DEF Load, Throws, CliWorld, Outputs, CliFailures, CliInv, CliTypeOK
  <2>2. CASE Consent
    BY <1>1, <2>2 DEF Consent, Throws, CliWorld, Outputs, CliFailures, CliInv, CliTypeOK
  <2>3. CASE Conversation
    BY <2>3 DEF Conversation, Throws, CliWorld, Outputs, CliFailures, RunFailures, CliInv, CliTypeOK
  <2>4. CASE RunPackage
    BY <2>4 DEF RunPackage, Throws, CliWorld, Outputs, CliFailures, RunFailures, CliInv, CliTypeOK
  <2>5. CASE ResultKey
    BY <2>5 DEF ResultKey, CliWorld, Outputs, CliInv, CliTypeOK
  <2>. QED  BY <2>1, <2>2, <2>3, <2>4, <2>5
<1>3. CliTypeOK'
  BY <1>0, <1>2 DEF CliTypeOK, CliStages
<1>4. ChosenInv' /\ EmitInv'
  BY <1>0, <1>1, <1>2, CliMoves DEF DaemonStages
<1>5. EndingInv'
  <2>1. CASE cliStage' = "finally"
    <3>1. ~JsonDue'
      BY <1>0, <1>1, <1>2, <2>1 DEF JsonDue, Shown, FullScreen, FullScreenFor, Flag
    <3>. QED  BY <1>0, <1>2, <2>1, <3>1, CliLeaves DEF Closing
  <2>2. CASE cliStage' # "finally"
    BY <1>0, <1>1, <1>2, <2>2, CliSilent DEF Closing
  <2>. QED  BY <2>1, <2>2
<1>. QED  BY <1>3, <1>4, <1>5 DEF CliInv

\* What Conclude decides from the error.
LEMMA ClassifiedFacts ==
  ASSUME exitCode = 0, error \in CliFailures \union {"none", "help"}
  PROVE  /\ Classified(error) \in {0, 2, 3, 4, 130}
         /\ error = "none" => Classified(error) = 0
         /\ error \notin {"none", "help"} => Classified(error) # 0
         /\ Classified(error) \notin {0, 130} => error # "none"
<1>1. CASE error = "none"
  BY <1>1 DEF Classified
<1>2. CASE error # "none" /\ (interrupted \/ error = "cancelled")
  BY <1>2 DEF Classified
<1>3. CASE error # "none" /\ ~interrupted /\ error # "cancelled"
  <2>1. CASE error = "help"
    BY <1>3, <2>1 DEF Classified
  <2>2. CASE error \in {"usage", "missing"}
    BY <1>3, <2>2 DEF Classified
  <2>3. CASE error \in {"plugin", "package", "flow"}
    BY <1>3, <2>3 DEF Classified
  <2>4. CASE error \notin {"help", "usage", "missing", "plugin", "package", "flow"}
    BY <1>3, <2>4 DEF Classified
  <2>. QED  BY <2>1, <2>2, <2>3, <2>4
<1>. QED  BY <1>1, <1>2, <1>3

\* The answer, and the ends without one.
LEMMA CliAnswers == ASSUME CliInv, Conclude PROVE CliInv'
<1>0. /\ CliTypeOK /\ ChosenInv /\ EmitInv /\ EndingInv /\ cliStage = "answer" /\ cliStage' = "finally"
      /\ UNCHANGED <<argv, tty, interrupted, chosen, renderer, managed, emitJson, emitStream, error, held>>
      /\ exitCode' = Classified(error)
      /\ documents' = IF emitJson THEN Append(documents, IF error = "none" THEN "ok" ELSE "failed") ELSE documents
      /\ told' = IF error = "none" THEN told
                 ELSE told \union (IF emitJson THEN {"stdout"} ELSE IF emitStream THEN {"stderr"} ELSE {})
  BY DEF CliInv, Conclude, CliWorld
<1>1. documents = <<>> /\ exitCode = 0 /\ error \in CliFailures \union {"none", "help"}
  BY <1>0 DEF EndingInv, Closing, CliTypeOK
<1>2. /\ exitCode' \in {0, 2, 3, 4, 130} /\ (error = "none" => exitCode' = 0)
      /\ (error \notin {"none", "help"} => exitCode' # 0) /\ (exitCode' \notin {0, 130} => error # "none")
  BY <1>0, <1>1, ClassifiedFacts
<1>3. /\ ~emitJson => documents' = <<>>
      /\ emitJson => documents' = IF error = "none" THEN <<"ok">> ELSE <<"failed">>
  BY <1>0, <1>1
<1>4. CliTypeOK'
  <2>1. documents' \in Seq({"ok", "failed"})
    <3>1. <<"ok">> \in Seq({"ok", "failed"}) /\ <<"failed">> \in Seq({"ok", "failed"}) /\ <<>> \in Seq({"ok", "failed"})
      OBVIOUS
    <3>2. documents' \in {<<>>, <<"ok">>, <<"failed">>}
      BY <1>3
    <3>. QED  BY <3>1, <3>2
  <2>2. told' \subseteq {"stdout", "stderr", "screen"}
    BY <1>0 DEF CliTypeOK
  <2>. QED  BY <1>0, <1>2, <2>1, <2>2 DEF CliTypeOK, CliStages
<1>5. ChosenInv' /\ EmitInv'
  BY <1>0, CliMoves DEF DaemonStages, Closing
<1>6. Shown' = Shown /\ JsonDue' = JsonDue /\ DaemonRun' = DaemonRun /\ Flag("--stream")' = Flag("--stream")
  BY <1>0 DEF Shown, JsonDue, FullScreen, FullScreenFor, Flag, DaemonRun
<1>7. /\ (DaemonRun => ~emitJson) /\ (chosen.file => (emitJson <=> JsonDue)) /\ (chosen.file => renderer = RendererFor)
      /\ (~chosen.file => emitJson \/ emitStream \/ DaemonRun) /\ ("--stream" \in chosen.flags => chosen.file /\ emitStream)
      /\ (DaemonRun => chosen = Nothing) /\ (chosen.open => "--stream" \notin chosen.flags)
  BY <1>0 DEF EmitInv, ChosenInv
<1>8. AnswerIs'
  <2>1. (chosen.file /\ JsonDue /\ exitCode # 13)' => Len(documents') = 1
    BY <1>0, <1>3, <1>6, <1>7
  <2>2. (DaemonRun \/ Flag("--stream") \/ (chosen.file /\ Shown))' => documents' = <<>>
    <3>1. Shown => ~JsonDue
      BY DEF Shown, JsonDue
    <3>2. Flag("--stream") => ~emitJson
      BY <1>7 DEF JsonDue, Flag
    <3>. QED  BY <1>0, <1>3, <1>6, <1>7, <3>1, <3>2
  <2>3. documents' = <<"ok">> => exitCode' = 0
    BY <1>2, <1>3
  <2>4. documents' = <<"failed">> => exitCode' # 0 \/ error' = "help"
    BY <1>0, <1>2, <1>3
  <2>5. error' \in RunFailures => exitCode' # 0
    BY <1>0, <1>2 DEF RunFailures, CliFailures
  <2>6. (exitCode \notin {0, 13, 130} /\ renderer # "terminal" /\ ~DaemonRun)' => told' # {}
    <3>1. (chosen.file /\ ~JsonDue /\ renderer # "terminal") => emitStream
      BY <1>7 DEF JsonDue, RendererFor, FullScreen, FullScreenFor, Flag
    <3>2. (renderer # "terminal" /\ ~DaemonRun) => emitJson \/ emitStream
      BY <1>7, <3>1
    <3>. QED  BY <1>0, <1>2, <1>6, <3>2
  <2>. QED  BY <2>1, <2>2, <2>3, <2>4, <2>5, <2>6 DEF AnswerIs
<1>9. EndingInv'
  BY <1>0, <1>8 DEF EndingInv, Closing
<1>. QED  BY <1>4, <1>5, <1>9 DEF CliInv

LEMMA CliEnds == ASSUME CliInv, CatchError \/ Finally PROVE CliInv'
<1>0. /\ CliTypeOK /\ ChosenInv /\ EmitInv /\ EndingInv
      /\ UNCHANGED <<argv, tty, interrupted, chosen, renderer, managed, emitJson, emitStream, documents, error>>
  BY DEF CliInv, CatchError, Finally, CliWorld, Outputs
<1>1. CASE CatchError
  <2>1. /\ cliStage = "caught" /\ held' = held /\ told' \subseteq told \union {"screen"}
        /\ \/ cliStage' = "exit-key" /\ renderer = "terminal" /\ exitCode' = exitCode
           \/ cliStage' = "over" /\ renderer = "terminal" /\ exitCode' = 13
           \/ cliStage' = "answer" /\ exitCode' = exitCode
    BY <1>1 DEF CatchError
  <2>2. documents = <<>> /\ exitCode = 0 /\ (renderer = "terminal" => chosen.file /\ ~DaemonRun)
    <3>1. renderer = "terminal" => chosen.file
      BY <1>0 DEF EmitInv
    <3>. QED  BY <1>0, <2>1, <3>1 DEF EndingInv, Closing, ChosenInv, Nothing
  <2>3. CliTypeOK'
    BY <1>0, <2>1 DEF CliTypeOK, CliStages
  <2>4. ChosenInv' /\ EmitInv'
    BY <1>0, <2>1, <2>2, CliMoves DEF DaemonStages, Closing
  <2>5. EndingInv'
    <3>1. CASE cliStage' = "over"
      <4>1. documents' = <<>> /\ exitCode' = 13
        BY <1>0, <2>1, <2>2, <3>1
      <4>2. AnswerIs'
        BY <4>1 DEF AnswerIs
      <4>. QED  BY <3>1, <4>2 DEF EndingInv, Closing
    <3>2. CASE cliStage' # "over"
      BY <1>0, <2>1, <3>2, CliSilent DEF Closing
    <3>. QED  BY <3>1, <3>2
  <2>. QED  BY <2>3, <2>4, <2>5 DEF CliInv
<1>2. CASE Finally
  <2>1. cliStage = "finally" /\ cliStage' = "over" /\ held' = {} /\ UNCHANGED <<told, exitCode>>
    BY <1>2 DEF Finally, Outputs
  <2>2. CliTypeOK'
    BY <1>0, <2>1 DEF CliTypeOK, CliStages
  <2>3. ChosenInv' /\ EmitInv'
    BY <1>0, <2>1, CliMoves DEF DaemonStages, Closing
  <2>4. EndingInv'
    BY <1>0, <2>1 DEF EndingInv, Closing, AnswerIs, JsonDue, Shown, FullScreen, FullScreenFor, Flag, DaemonRun
  <2>. QED  BY <2>2, <2>3, <2>4 DEF CliInv
<1>. QED  BY <1>1, <1>2

LEMMA CliInductive == CliInv /\ [CliNext]_cliVars => CliInv'
<1>. SUFFICES ASSUME CliInv, [CliNext]_cliVars PROVE CliInv'
  OBVIOUS
<1>1. CASE UNCHANGED cliVars
  <2>1. UNCHANGED <<argv, tty, cliStage, chosen, renderer, managed, emitJson, emitStream>>
        /\ UNCHANGED <<documents, told, error, exitCode, held, interrupted>>
    BY <1>1 DEF cliVars
  <2>2. CliTypeOK'
    BY <2>1 DEF CliInv, CliTypeOK
  <2>3. ChosenInv' /\ EmitInv'
    BY <2>1, CliMoves DEF CliInv
  <2>4. EndingInv'
    BY <2>1 DEF CliInv, EndingInv, AnswerIs, JsonDue, Shown, FullScreen, FullScreenFor, Flag, DaemonRun
  <2>. QED  BY <2>2, <2>3, <2>4 DEF CliInv
<1>. QED  BY <1>1, CliBegins, CliDaemonStep, CliChooses, CliRuns, CliAnswers, CliEnds DEF CliNext, UserScreens

\* For any list of arguments, wherever a step fails and a signal comes: stdout has the one
\* document that was asked for or none, which agrees with the exit code, and a failure is
\* told somewhere.
THEOREM AnswersAreSafe == CliSpec => []AnswerSafe
<1>1. CliInv => AnswerSafe
  <2>. SUFFICES ASSUME CliInv PROVE AnswerSafe
    OBVIOUS
  <2>1. CliTypeOK
    BY DEF CliInv
  <2>2. ASSUME cliStage = "over" PROVE AnswerIs
    BY <2>2 DEF CliInv, EndingInv, Closing
  <2>3. AnswerMeant
    BY <2>2 DEF AnswerMeant, AnswerIs, DaemonRun
  <2>. QED  BY <2>1, <2>3 DEF AnswerSafe
<1>. QED  BY <1>1, CliInitially, CliInductive, PTL DEF CliSpec
=============================================================================
