---------------------------- MODULE TerminalForm ----------------------------
(***************************************************************************)
(* The full-screen renderer of a run: the terminal session with its one    *)
(* key handler, the output view, the form of an INPUT node with its focus, *)
(* its text editor and its viewport, and the wait for a key at the end.    *)
(* A text is its length.  Fields are numbered from 1 and the button that   *)
(* submits the form is Len(FormFields) + 1.                                *)
(***************************************************************************)
EXTENDS Integers, Sequences, FiniteSets

CONSTANTS FormFields,   \* the form: [component, multiline, size] of each field
          Layout,       \* "single", "two-column" or "three-column"
          Screens,      \* sizes of the terminal: [lines, narrow], lines for the fields
          MaxChars,     \* MAX_FIELD_CHARS
          Prefilled,    \* lengths of the text that a variable has when the form opens
          MaxOverrun    \* how far newlines typed into a full text move the cursor behind its end

ASSUME FormAssumption ==
  /\ FormFields \in Seq([component : {"input", "checkbox", "button"}, multiline : BOOLEAN,
                         size : {"small", "medium", "large"}])
  /\ MaxChars \in Nat \ {0} /\ Prefilled \subseteq Nat /\ MaxOverrun \in Nat
  /\ Screens # {} /\ Screens \subseteq [lines : Nat \ (0 .. 4), narrow : BOOLEAN]

VARIABLES session,      \* alternate screen, raw mode, key handler and abort listener
          phase,        \* "new", "running", "waiting", "completed", "failed", "disposed"
          clock,        \* the interval that repaints
          view,         \* what repaint draws: "output" or "form"
          prompt,       \* the promise of requestInput: "none", "pending", "given", "rejected"
          leaving,      \* the promise of waitForExit: "none", "pending", "over"
          editor,       \* [focus, editing, len, cursor, start]: TerminalFormState
          values,       \* values[i]: the length of the text, 0 or 1 for a choice
          screen,       \* the present size of the terminal
          formAborted,  \* the signal of the run
          late,         \* history: the prompt was requested after the abort, or the run ended first
          overrun       \* characters that newlines typed into a full text pushed out

formVars == <<session, phase, clock, view, prompt, leaving, editor, values, screen, formAborted, late, overrun>>

SubmitForm == Len(FormFields) + 1
Away == [entered |-> FALSE, raw |-> FALSE, bound |-> "none", listening |-> FALSE]
EmptyForm == [focus |-> 1, editing |-> FALSE, len |-> 0, cursor |-> 0, start |-> 0]
RunGoesOn == phase \in {"running", "waiting"}

FormTypeOK ==
  /\ session \in [entered : BOOLEAN, raw : BOOLEAN, bound : {"none", "cancel", "form", "exit"},
                  listening : BOOLEAN]
  /\ phase \in {"new", "running", "waiting", "completed", "failed", "disposed"}
  /\ clock \in BOOLEAN /\ view \in {"output", "form"} /\ formAborted \in BOOLEAN /\ late \in BOOLEAN
  /\ prompt \in {"none", "pending", "given", "rejected"} /\ leaving \in {"none", "pending", "over"}
  /\ editor.focus \in 1 .. SubmitForm /\ editor.editing \in BOOLEAN /\ editor.len \in Nat
  /\ editor.cursor \in 0 .. editor.len + overrun /\ editor.start \in Nat
  /\ values \in [1 .. SubmitForm - 1 -> Nat] /\ screen \in Screens /\ overrun \in 0 .. MaxOverrun

FormInit ==
  /\ session = Away /\ phase = "new" /\ clock = FALSE /\ view = "output" /\ prompt = "none" /\ leaving = "none"
  /\ editor = EmptyForm /\ values = [i \in 1 .. SubmitForm - 1 |-> 0] /\ screen \in Screens
  /\ formAborted = FALSE /\ late = FALSE /\ overrun = 0

----------------------------------------------------------------------------
(* The body of the form: rows of six columns, four lines each, and a line  *)
(* for the submit button.                                                  *)

Span(i, s) ==
  LET size == FormFields[i].size IN
  IF s.narrow \/ Layout = "single" \/ size = "large" THEN 6
  ELSE IF Layout = "two-column" THEN 3 ELSE IF size = "medium" THEN 4 ELSE 2

\* The row of each field, and the row and the columns in use after it, on each screen.
Placed ==
  [s \in Screens |->
    LET place[i \in 0 .. SubmitForm - 1] ==
          IF i = 0 THEN [at |-> 0, row |-> 1, used |-> 0]
          ELSE LET p == place[i - 1]
                   wrap == p.used > 0 /\ p.used + Span(i, s) > 6
                   at == IF wrap THEN p.row + 1 ELSE p.row
                   used == Span(i, s) + (IF wrap THEN 0 ELSE p.used)
               IN [at |-> at, row |-> IF used = 6 THEN at + 1 ELSE at, used |-> used % 6]
    IN [i \in 0 .. SubmitForm - 1 |-> place[i]]]

LineCount(s) == LET p == Placed[s][SubmitForm - 1] IN 4 * (IF p.used = 0 THEN p.row - 1 ELSE p.row) + 1
First(i, s) == IF i = SubmitForm THEN LineCount(s) - 1 ELSE 4 * (Placed[s][i].at - 1)
Last(i, s) == IF i = SubmitForm THEN LineCount(s) - 1 ELSE First(i, s) + 3

\* renderTerminalForm leaves one line less while a field is edited.
Available(f, s) == IF f.editing THEN s.lines - 1 ELSE s.lines
AtMost(a, b) == IF a < b THEN a ELSE b
AtLeast(a, b) == IF a < b THEN b ELSE a

\* updateViewport: the focused range moves into the window, the window into the body.
SlipUpOnly(f, s) == AtMost(f.start, First(f.focus, s))
Scrolled(f, s) ==
  LET up == AtMost(f.start, First(f.focus, s))
      last == Last(f.focus, s)
      down == IF last >= up + Available(f, s) THEN last - Available(f, s) + 1 ELSE up
  IN AtLeast(0, AtMost(down, AtLeast(0, LineCount(s) - Available(f, s))))

\* Each of the two marks takes a line of the window.
Painted ==
  LET room == Available(editor, screen)
      marks == (IF editor.start > 0 THEN 1 ELSE 0) + (IF editor.start + room < LineCount(screen) THEN 1 ELSE 0)
  IN editor.start .. editor.start + AtLeast(1, room - marks) - 1

----------------------------------------------------------------------------
(* TerminalSession and the views.                                          *)

Entered(s) == [s EXCEPT !.entered = TRUE, !.raw = TRUE]
Unbound(s) == [s EXCEPT !.bound = "none", !.listening = FALSE]
Bound(s, handler, signal) == [s EXCEPT !.bound = handler, !.listening = signal]

\* paintOutput draws only on a session that was entered and not disposed.
PaintOutput(s) == IF session.entered THEN view' = "output" /\ session' = Entered(s) ELSE session' = s /\ UNCHANGED view
Draw(f, s) == editor' = [f EXCEPT !.start = Scrolled(f, s)] /\ view' = "form"

StartScreen ==
  /\ phase \in {"new", "running"} /\ prompt # "pending"
  /\ phase' = "running" /\ clock' = TRUE /\ view' = "output"
  /\ session' = Bound(Entered(session), "cancel", FALSE)
  /\ UNCHANGED <<prompt, leaving, editor, values, screen, formAborted, late, overrun>>

\* onModelEvent and onStreamEvent say that the run goes on and paint, onRuntimeEvent
\* paints; the colour of the mark after the end is left out.  An event of a parallel
\* branch covers the prompt until the next key.
FlowEvent ==
  /\ phase # "new" /\ PaintOutput(session) /\ phase' \in {phase} \union (IF RunGoesOn THEN {"running"} ELSE {})
  /\ UNCHANGED <<clock, prompt, leaving, editor, values, screen, formAborted, late, overrun>>

\* A resize repaints what was painted last.
Resize ==
  /\ session.entered /\ \E s \in Screens \ {screen} :
       screen' = s /\ IF view = "form" THEN Draw(editor, s) ELSE UNCHANGED <<editor, view>>
  /\ UNCHANGED <<session, phase, clock, prompt, leaving, values, formAborted, late, overrun>>

\* bind with the signal; a listener added after the abort never fires.
SlipNoListener(s) == Bound(Entered(s), "form", FALSE)
Listening(s) == Bound(Entered(s), "form", ~formAborted)

\* The values a form opens with: nothing cuts a text to MaxChars.
Opening == {v \in [1 .. SubmitForm - 1 -> Prefilled \union {0, 1}] :
              \A i \in DOMAIN v : v[i] \in IF FormFields[i].component = "input" THEN Prefilled ELSE {0, 1}}

RequestInput ==
  /\ RunGoesOn /\ prompt # "pending" /\ phase' = "waiting" /\ prompt' = "pending"
  /\ Draw(EmptyForm, screen) /\ session' = Listening(session) /\ late' = formAborted
  /\ values' \in Opening /\ overrun' = 0
  /\ UNCHANGED <<clock, leaving, screen, formAborted>>

Rejects == prompt' = "rejected" /\ session' = Unbound(session) /\ editor' = EmptyForm

\* The handler of the prompt sees a key that ends the promise.
AbortKey ==
  /\ session.bound = "form" /\ Rejects
  /\ UNCHANGED <<phase, clock, view, leaving, values, screen, formAborted, late, overrun>>

\* f10, ctrl+enter and a line feed submit and commit the text in the editor.
Committed == IF editor.editing THEN [values EXCEPT ![editor.focus] = editor.len] ELSE values

\* listenForCancel after the prompt.
ListenForCancel(s) == Bound(Unbound(s), "cancel", FALSE)

SubmitKey ==
  /\ session.bound = "form" /\ ~formAborted /\ prompt' = "given" /\ phase' = "running"
  /\ values' = Committed /\ editor' = EmptyForm
  /\ session' = ListenForCancel(session)
  /\ UNCHANGED <<clock, view, leaving, screen, formAborted, late, overrun>>

----------------------------------------------------------------------------
(* handleEditingKey and handleSelectionKey.                                *)

Typing(f, vals, more) ==
  /\ session.bound = "form" /\ ~formAborted /\ values' = vals /\ overrun' = overrun + more /\ Draw(f, screen)
  /\ UNCHANGED <<session, phase, clock, prompt, leaving, screen, formAborted, late>>
Edit(len, cursor) == Typing([editor EXCEPT !.len = len, !.cursor = cursor], values, 0)
Stop(vals) == Typing([editor EXCEPT !.editing = FALSE, !.len = 0, !.cursor = 0], vals, 0)
Multiline == FormFields[editor.focus].multiline

\* Deleting before and after the cursor, which may stand behind the end of the text.
Backspaced == IF editor.cursor > editor.len THEN editor.len ELSE editor.len - 1
DeletedAfter == IF editor.cursor < editor.len THEN editor.len - 1 ELSE editor.len

\* What is inserted is cut to the room that is left; in a text that is too long to begin
\* with the room is negative, and slice() takes that many characters off the end instead.
Inserted(n) == IF editor.len <= MaxChars THEN AtMost(n, MaxChars - editor.len)
               ELSE AtLeast(0, n - (editor.len - MaxChars))
Insert(n) == Edit(editor.len + Inserted(n), editor.cursor + Inserted(n))

\* A newline cuts the whole text and moves the cursor all the same.
NewLine ==
  LET len == AtMost(editor.len + 1, MaxChars)
      pushed == editor.len + 1 - len
  IN /\ overrun + pushed <= MaxOverrun
     /\ Typing([editor EXCEPT !.len = len, !.cursor = @ + 1], values, pushed)

EditingKey ==
  /\ editor.editing
  /\ \/ Stop(Committed)
     \/ Stop(values)
     \/ Multiline /\ NewLine
     \/ editor.cursor > 0 /\ Edit(Backspaced, editor.cursor - 1)
     \/ Edit(DeletedAfter, editor.cursor)
     \/ Edit(editor.len, AtLeast(0, editor.cursor - 1))
     \/ Edit(editor.len, AtMost(editor.len, editor.cursor + 1))
     \/ Edit(editor.len, 0)
     \/ Edit(editor.len, editor.len)
     \/ \E n \in 1 .. MaxChars : Insert(n)

Move(delta) == Typing([editor EXCEPT !.focus = ((@ - 1 + delta + SubmitForm) % SubmitForm) + 1], values, 0)
Kind == FormFields[editor.focus].component

SelectionKey ==
  /\ ~editor.editing
  /\ \/ Move(1) \/ Move(-1)
     \/ /\ editor.focus # SubmitForm /\ Kind = "checkbox"
        /\ Typing(editor, [values EXCEPT ![editor.focus] = 1 - @], 0)
     \/ /\ editor.focus # SubmitForm /\ Kind = "button"
        /\ Typing(editor, [values EXCEPT ![editor.focus] = 1], 0)
     \/ /\ editor.focus # SubmitForm /\ Kind = "input"
        /\ LET text == values[editor.focus]
           IN Typing([editor EXCEPT !.editing = TRUE, !.len = text, !.cursor = text], values, 0)

EnterOnSubmit == ~editor.editing /\ editor.focus = SubmitForm /\ SubmitKey

----------------------------------------------------------------------------
(* The run around the renderer.                                            *)

\* Ctrl+C while the run goes on, or another reason to cancel it; the abort listener of
\* the prompt rejects its promise.
AbortForm ==
  /\ RunGoesOn /\ ~formAborted /\ formAborted' = TRUE
  /\ IF session.listening THEN Rejects ELSE UNCHANGED <<prompt, session, editor>>
  /\ UNCHANGED <<phase, clock, view, leaving, values, screen, late, overrun>>

\* complete and fail; waitForExit replaces the handler, also that of a prompt that a
\* parallel branch still shows, and an aborted run does not wait.
FormEndsAs(how, waits) ==
  /\ RunGoesOn /\ phase' = how /\ clock' = FALSE
  /\ PaintOutput(IF waits THEN Bound(Unbound(session), "exit", FALSE) ELSE session)
  /\ leaving' = IF waits THEN "pending" ELSE leaving
  /\ late' = (late \/ prompt = "pending")
  /\ UNCHANGED <<prompt, editor, values, screen, formAborted, overrun>>
Complete == prompt # "pending" /\ \E waits \in BOOLEAN : FormEndsAs("completed", waits)
ShowError == \E waits \in BOOLEAN : (waits => ~formAborted) /\ FormEndsAs("failed", waits)

ExitKey ==
  /\ session.bound = "exit" /\ session' = Unbound(session) /\ leaving' = "over"
  /\ UNCHANGED <<phase, clock, view, prompt, editor, values, screen, formAborted, late, overrun>>

\* dispose settles both promises and gives the terminal back.
SettledPrompt == IF prompt = "pending" THEN "rejected" ELSE prompt

Dispose ==
  /\ phase \notin {"new", "disposed"} /\ phase' = "disposed" /\ clock' = FALSE /\ session' = Away
  /\ prompt' = SettledPrompt /\ leaving' = IF leaving = "pending" THEN "over" ELSE leaving
  /\ editor' = EmptyForm /\ UNCHANGED <<view, values, screen, formAborted, late, overrun>>

FormNext ==
  \/ StartScreen \/ FlowEvent \/ Resize \/ RequestInput \/ AbortKey \/ SubmitKey \/ EditingKey \/ SelectionKey
  \/ EnterOnSubmit \/ AbortForm \/ Complete \/ ShowError \/ ExitKey \/ Dispose

FormSpec == FormInit /\ [][FormNext]_formVars

----------------------------------------------------------------------------
(* Properties.                                                             *)

\* A disposed renderer has left the alternate screen and raw mode, no handler reads the
\* keys, nothing repaints, and nobody waits for it; a late event does not bring it back.
TerminalRestored ==
  phase = "disposed" => session = Away /\ ~clock /\ prompt # "pending" /\ leaving # "pending"

\* As long as a run goes on somebody reads Ctrl+C: its handler of cancel, or the prompt;
\* after the prompt was aborted the run is on its way to fail.
CancelHeard == (RunGoesOn /\ prompt # "rejected") => session.bound \in {"cancel", "form"}

\* An abort settles a prompt that is open, unless it came before the prompt did or the run
\* ended under it.
AbortSettles == (formAborted /\ prompt = "pending") => late

\* The label of the field in focus is among the painted lines, whatever was focused,
\* edited and resized before.
FocusLabelled ==
  (view = "form" /\ prompt = "pending" /\ editor.focus # SubmitForm) => First(editor.focus, screen) \in Painted

\* The keys always have a reader while the run goes on, none afterwards, and an abort does
\* not leave a prompt open.
FormSafe == FormTypeOK /\ TerminalRestored /\ CancelHeard /\ AbortSettles
=============================================================================
