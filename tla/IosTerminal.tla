----------------------------- MODULE IosTerminal -----------------------------
(***************************************************************************)
(* ControlledIosExecutor (ios_terminal.py) reading one device: registered  *)
(* queries typed, one after the other, at a terminal that keeps only the   *)
(* end of its text, halts at a pager, answers in its own time, and may     *)
(* lose the first character of what is typed.  Every exchange is a script  *)
(* evaluated in one go; one that is not answered may still be evaluated    *)
(* later, before any that is answered after it.  That the mailbox may      *)
(* evaluate a script again, because its request could not be removed, is   *)
(* modelled in FileBridge and left out here: each script runs once at most.*)
(***************************************************************************)
EXTENDS CommandWindow

CONSTANTS
    Query,        \* the registered queries
    Rows,         \* the rows each of them prints
    Privileged,   \* those that need privileged mode
    Qualified,    \* those whose pager is followed
    Start,        \* where the terminal may be at first
    PageRows,     \* rows on a page
    Retains,      \* tokens the terminal keeps
    MaxPages,     \* pages followed at most
    MaxAttempts,  \* dispatches of one query
    MaxTurns,     \* queries asked (bound)
    MaxLost,      \* exchanges without an answer (bound)
    MaxOverruns,  \* waits that end too early (bound)
    MaxGarbled,   \* commands that lose a character (bound)
    MaxLogs       \* syslog lines (bound)

ASSUME IosAssumption ==
    /\ "none" \notin Query /\ Rows \in [Query -> Nat] /\ Privileged \subseteq Query /\ Qualified \subseteq Query
    /\ Start \subseteq {"booting", "dialog", "return", "exec"}
    /\ {PageRows, Retains, MaxPages, MaxAttempts, MinAnchor} \subseteq Nat \ {0}
    /\ {MaxTurns, MaxLost, MaxOverruns, MaxGarbled, MaxLogs} \subseteq Nat

VARIABLES
    stage,    \* how far the terminal has come: "booting", "dialog", "return", "exec"
    mode,     \* "user" or "privileged"
    text,     \* what getOutput() returns
    job,      \* the command that prints, its next row, the rows on this page, at its pager?
    ahead,    \* keys typed while it prints
    late,     \* scripts that were not answered and are still to run
    typed,    \* history: queries the terminal has been given
    pc, ask,  \* the executor: where it is; the query, its attempt and what was read so far
    quarantine, \* _pager_quarantine
    result,   \* what the last query returned
    count     \* how often each bounded thing has happened

terminal == <<stage, mode, text, job, ahead, typed>>
vars == <<stage, mode, text, job, ahead, late, typed, pc, ask, quarantine, result, count>>

Idle == [of |-> "none", next |-> 0, page |-> 0, paused |-> FALSE]
NoAsk == [of |-> "none", attempt |-> 0, restore |-> FALSE, quiet |-> FALSE, mine |-> 0,
          before |-> <<>>, converged |-> FALSE, window |-> NoWindow, class |-> "none",
          output |-> <<>>, complete |-> TRUE, pages |-> 1, last |-> <<>>, seen |-> <<>>,
          then |-> "none", anchored |-> TRUE]
NoResult == [executed |-> FALSE, of |-> "none", output |-> <<>>, complete |-> FALSE, class |-> "none",
             mine |-> 0, quiet |-> FALSE, anchored |-> TRUE]

\* What the terminal shows on its way to the prompt.
Greeting(s) ==
    CASE s = "booting" -> <<>>               [] s = "dialog" -> <<Mark("dialog")>>
      [] s = "return"  -> <<Mark("press")>>  [] s = "exec" -> <<Mark("prompt")>>

Init ==
    /\ stage \in Start /\ mode = "user" /\ job = Idle /\ ahead = <<>> /\ typed = 0
    /\ text = Greeting(stage)
    /\ late = <<>> /\ pc = "idle" /\ ask = NoAsk /\ quarantine = FALSE /\ result = NoResult
    /\ count = [turns |-> 0, lost |-> 0, overruns |-> 0, garbled |-> 0, logs |-> 0]

Counted(what) == count' = [count EXCEPT ![what] = @ + 1]

-----------------------------------------------------------------------------
(* The terminal of Packet Tracer.                                          *)

Kept(s) == IF Len(s) > Retains THEN After(s, Len(s) - Retains) ELSE s
Shows(tokens) == text' = Kept(text \o tokens)

Key(what) == [what |-> what, of |-> "none", whole |-> TRUE]
CommandKey(q) == [what |-> "command", of |-> q, whole |-> TRUE]

\* The pager erases its mark, unless something has been written after it.
Unpaged == IF text # <<>> /\ Last(text).what = "more" THEN Front(text) ELSE text

\* A key that the pager eats: the rest of what was typed with it waits.
AtPager(key, rest) ==
    IF key.what = "etx"
    THEN /\ text' = Kept(Unpaged \o <<Mark("prompt")>>)
         /\ job' = Idle /\ ahead' = rest /\ UNCHANGED <<stage, mode>>
    ELSE /\ text' = Unpaged
         /\ job' = [job EXCEPT !.page = 0, !.paused = FALSE]
         /\ ahead' = (IF key.what = "command" THEN <<[key EXCEPT !.whole = FALSE]>> ELSE <<>>) \o rest
         /\ UNCHANGED <<stage, mode>>

\* A command or key at a prompt.
AtPrompt(key) ==
    LET echo(what) == Token(what, key.of, 0, 0) IN
    CASE key.what = "command" /\ ~key.whole ->
           /\ Shows(<<echo("bad"), Mark("reject"), Mark("prompt")>>)
           /\ UNCHANGED <<stage, mode, job>>
      [] key.what = "command" /\ key.whole /\ key.of \in Privileged /\ mode = "user" ->
           /\ Shows(<<echo("echo"), Mark("reject"), Mark("prompt")>>)
           /\ UNCHANGED <<stage, mode, job>>
      [] key.what = "command" /\ key.whole /\ ~(key.of \in Privileged /\ mode = "user") ->
           /\ Shows(<<echo("echo")>>)
           /\ job' = [of |-> key.of, next |-> 1, page |-> 0, paused |-> FALSE]
           /\ UNCHANGED <<stage, mode>>
      [] key.what \in {"enable", "disable"} ->
           /\ Shows(<<Mark("word"), Mark("prompt")>>)
           /\ mode' = IF key.what = "enable" THEN "privileged" ELSE "user"
           /\ UNCHANGED <<stage, job>>
      [] OTHER -> Shows(<<Mark("prompt")>>) /\ UNCHANGED <<stage, mode, job>>

\* enterCommand, wherever the terminal is.
Type(key) ==
    CASE stage = "dialog" /\ key.what = "no" ->
           stage' = "return" /\ Shows(Greeting("return")) /\ UNCHANGED <<mode, job, ahead>>
      [] stage = "return" /\ key.what \notin {"space", "etx"} ->
           stage' = "exec" /\ Shows(Greeting("exec")) /\ UNCHANGED <<mode, job, ahead>>
      [] stage = "exec" /\ job.paused /\ ahead = <<>> -> AtPager(key, <<>>)
      [] stage = "exec" /\ job # Idle /\ ~job.paused /\ key.what = "etx" ->
           Shows(<<Mark("prompt")>>) /\ job' = Idle /\ UNCHANGED <<stage, mode, ahead>>
      [] stage = "exec" /\ job = Idle /\ ahead = <<>> -> AtPrompt(key) /\ UNCHANGED ahead
      [] OTHER -> /\ ahead' = IF stage = "exec" THEN Append(ahead, key) ELSE ahead
                  /\ UNCHANGED <<stage, mode, text, job>>

\* A script: all but the keys meant for a pager look for one first.
Guarded(key) == key.what \notin {"space", "etx"}

Evaluate(key) ==
    IF Guarded(key) /\ HasActivePager(text) THEN UNCHANGED terminal
    ELSE /\ Type(key)
         /\ typed' = IF key.what = "command" THEN typed + 1 ELSE typed

EvaluateLate ==
    /\ late # <<>>
    /\ Evaluate(Head(late)) /\ late' = Tail(late)
    /\ UNCHANGED <<pc, ask, quarantine, result, count>>

TakeAhead ==
    /\ stage = "exec" /\ ahead # <<>>
    /\ \/ job.paused /\ AtPager(Head(ahead), Tail(ahead))
       \/ job = Idle /\ AtPrompt(Head(ahead)) /\ ahead' = Tail(ahead)
    /\ UNCHANGED <<late, typed, pc, ask, quarantine, result, count>>

PrintRow ==
    /\ job # Idle /\ ~job.paused /\ job.next <= Rows[job.of] /\ job.page < PageRows
    /\ Shows(<<Token("row", job.of, job.next, typed)>>)
    /\ job' = [job EXCEPT !.next = @ + 1, !.page = @ + 1]
    /\ UNCHANGED <<stage, mode, ahead, late, typed, pc, ask, quarantine, result, count>>

PrintMore ==
    /\ job # Idle /\ ~job.paused /\ job.next <= Rows[job.of] /\ job.page = PageRows
    /\ Shows(<<Mark("more")>>) /\ job' = [job EXCEPT !.paused = TRUE]
    /\ UNCHANGED <<stage, mode, ahead, late, typed, pc, ask, quarantine, result, count>>

PrintPrompt ==
    /\ job # Idle /\ job.next > Rows[job.of]
    /\ Shows(<<Mark("prompt")>>) /\ job' = Idle
    /\ UNCHANGED <<stage, mode, ahead, late, typed, pc, ask, quarantine, result, count>>

PrintLog ==
    /\ stage = "exec" /\ count.logs < MaxLogs
    /\ Shows(<<Mark("log")>>) /\ Counted("logs")
    /\ UNCHANGED <<stage, mode, job, ahead, late, typed, pc, ask, quarantine, result>>

EndBoot ==
    /\ stage = "booting" /\ stage' \in {"dialog", "return"} /\ text' = Greeting(stage')
    /\ UNCHANGED <<mode, job, ahead, late, typed, pc, ask, quarantine, result, count>>

-----------------------------------------------------------------------------
(* The exchanges of the executor.                                          *)

\* The first character is lost on the way, as was seen in the laboratory.
Garbled(key) == [key EXCEPT !.whole = FALSE]

\* A script that is answered has run after every one sent before it.
Sends(key) ==
    /\ late = <<>> /\ UNCHANGED late
    /\ \/ Evaluate(key) /\ UNCHANGED count
       \/ key.what = "command" /\ ~HasActivePager(text) /\ count.garbled < MaxGarbled
          /\ Evaluate(Garbled(key)) /\ Counted("garbled")

\* One that is not answered may be lost, or run later.
SendsInVain(key) ==
    /\ count.lost < MaxLost /\ Counted("lost")
    /\ late' \in {late, Append(late, key)}
    /\ UNCHANGED terminal

Reads == late = <<>> /\ UNCHANGED <<terminal, late, count>>

ReadsInVain == count.lost < MaxLost /\ Counted("lost") /\ UNCHANGED <<terminal, late>>

\* A wait ends in vain when its time is over: before the terminal is done,
\* or because nothing it waits for can come any more.
WaitsInVain(holds) ==
    /\ \/ count.overruns < MaxOverruns /\ Counted("overruns")
       \/ ~holds /\ late = <<>> /\ (job = Idle \/ job.paused) /\ ahead = <<>> /\ UNCHANGED count
    /\ UNCHANGED <<terminal, late>>

Returned(executed, output, complete) ==
    [executed |-> executed, of |-> ask.of, output |-> output, complete |-> complete,
     class |-> ask.class, mine |-> ask.mine, quiet |-> ask.quiet, anchored |-> ask.anchored]

\* The query is over; the mode of the terminal is still to be restored.
Ends(r) == result' = r /\ pc' = "restore" /\ UNCHANGED ask
Fails == Ends(Returned(FALSE, ask.window.output, FALSE))

GoOn(where, a) == pc' = where /\ ask' = a /\ UNCHANGED <<quarantine, result>>
FailsHere == Fails /\ UNCHANGED quarantine

-----------------------------------------------------------------------------
(* execute and _execute_once.                                              *)

Begin(q) ==
    /\ pc = "idle" /\ count.turns < MaxTurns /\ Counted("turns")
    /\ GoOn("prepare", [NoAsk EXCEPT !.of = q, !.attempt = 1])
    /\ UNCHANGED <<terminal, late>>

Has(what) == \E i \in DOMAIN text : text[i].what = what

\* _prepare_session, with what it read.  A dialog that has been answered is
\* still in the text, and is answered again.
Ready ==
    IF stage = "exec" THEN GoOn("mode", ask)
    ELSE IF Has("dialog") THEN GoOn("say_no", ask)
    ELSE IF Has("press") THEN GoOn("say_return", ask)
    ELSE FailsHere

Prepare ==
    /\ pc = "prepare"
    /\ \/ ReadsInVain /\ FailsHere
       \/ Reads /\ stage = "booting" /\ FailsHere
       \/ Reads /\ stage # "booting" /\ (quarantine \/ HasActivePager(text))
          /\ GoOn("cancel", [ask EXCEPT !.seen = text, !.then = "again"])
       \/ Reads /\ stage # "booting" /\ ~(quarantine \/ HasActivePager(text)) /\ Ready

\* After the pager has been cancelled.
PrepareAgain ==
    /\ pc = "again"
    /\ \/ ReadsInVain /\ FailsHere
       \/ Reads /\ HasActivePager(text) /\ quarantine' = TRUE /\ Fails
       \/ Reads /\ ~HasActivePager(text) /\ Ready

\* The setup dialog is declined, and return is pressed; each is waited for.
Answer(what, wait) ==
    \/ Sends(Key(what)) /\ GoOn(wait, ask)
    \/ SendsInVain(Key(what)) /\ FailsHere

Await(holds, where) ==
    \/ holds /\ Reads /\ GoOn(where, ask)
    \/ WaitsInVain(holds) /\ FailsHere

Greet ==
    \/ pc = "say_no"     /\ Answer("no", "said_no")
    \/ pc = "said_no"    /\ Await(Has("press"), "say_return")
    \/ pc = "say_return" /\ Answer("return", "greeted")
    \/ pc = "greeted"    /\ Await(stage = "exec", "mode")

\* _cancel_pager: one ETX, and a prompt that was not there before.
Cancelled == stage = "exec" /\ ~Same(text, ask.seen) /\ ~HasActivePager(text)

Cancel ==
    \/ /\ pc = "cancel"
       /\ \/ Sends(Key("etx")) /\ GoOn("cancelling", ask)
          \/ SendsInVain(Key("etx")) /\ quarantine' = TRUE /\ Fails
    \/ /\ pc = "cancelling"
       /\ \/ /\ Cancelled /\ Reads
             /\ pc' = ask.then /\ quarantine' = (quarantine /\ ask.then # "again")
             /\ UNCHANGED <<ask, result>>
          \/ WaitsInVain(Cancelled) /\ quarantine' = TRUE /\ Fails

\* A mode that could not be read is taken for the right one.
ReadMode ==
    /\ pc = "mode"
    /\ \/ ask.of \notin Privileged /\ UNCHANGED <<terminal, late, count>> /\ GoOn("dispatch", ask)
       \/ ask.of \in Privileged /\ ReadsInVain /\ GoOn("dispatch", ask)
       \/ ask.of \in Privileged /\ Reads
          /\ GoOn(IF mode = "user" THEN "enable" ELSE "dispatch", ask)

Enable ==
    \/ /\ pc = "enable"
       /\ \/ ~HasActivePager(text) /\ Sends(Key("enable")) /\ GoOn("enabling", ask)
          \/ HasActivePager(text) /\ Sends(Key("enable")) /\ FailsHere
          \/ SendsInVain(Key("enable")) /\ FailsHere
    \/ /\ pc = "enabling"
       /\ \/ mode = "privileged" /\ Reads /\ GoOn("dispatch", [ask EXCEPT !.restore = TRUE])
          \/ WaitsInVain(mode = "privileged") /\ FailsHere

\* The script that looks for a pager is the script that types.
Dispatch ==
    /\ pc = "dispatch"
    /\ \/ HasActivePager(text) /\ Sends(CommandKey(ask.of)) /\ quarantine' = TRUE /\ Fails
       \/ /\ ~HasActivePager(text) /\ Sends(CommandKey(ask.of))
          /\ GoOn("converge", [ask EXCEPT !.before = text, !.mine = typed',
                                          !.quiet = (job = Idle /\ ahead = <<>>)])
       \/ SendsInVain(CommandKey(ask.of)) /\ FailsHere

\* Mutant: the output is there as soon as the text has changed.
Converged_AnyChange == ~Same(text, ask.before)

\* observe: the text has changed, and ends at a pager or a prompt.
Converged == ~Same(text, ask.before) /\ (HasActivePager(text) \/ TerminalIsIdle(text))

Converge ==
    /\ pc = "converge"
    /\ \/ Converged /\ Reads /\ GoOn("attribute", [ask EXCEPT !.converged = TRUE])
       \/ WaitsInVain(Converged) /\ GoOn("attribute", [ask EXCEPT !.converged = FALSE])

\* What was read is attributed to the query, and a pager dealt with: followed
\* for a qualified query, otherwise cancelled.
Attributed(output) ==
    LET window == FreshCommandWindow(ask.before, output)
        class  == ClassifyEcho(ask.of, window.output)
        paged  == HasActivePager(window.output)
        follow == paged /\ ask.of \in Qualified /\ ~IsCommandCorrupted(class)
    IN  GoOn(IF follow THEN "advance" ELSE IF paged THEN "cancel" ELSE "conclude",
             [ask EXCEPT !.before = <<>>, !.window = window, !.class = class, !.seen = output,
                         !.output = IF follow THEN DropPagerPrompt(window.output) ELSE window.output,
                         !.complete = ~paged \/ follow, !.then = "conclude"])

Attribute ==
    /\ pc = "attribute"
    /\ \/ Reads /\ Attributed(text)
       \/ ReadsInVain /\ Attributed(<<>>)

-----------------------------------------------------------------------------
(* _capture_registered_pages.                                              *)

CaptureFails(transcript) == GoOn("cancel", [ask EXCEPT !.complete = FALSE, !.seen = transcript])

Advance ==
    /\ pc = "advance"
    /\ \/ ask.pages >= MaxPages /\ UNCHANGED <<terminal, late, count>> /\ CaptureFails(ask.seen)
       \/ ask.pages < MaxPages /\ Sends(Key("space")) /\ GoOn("progress", ask)
       \/ ask.pages < MaxPages /\ SendsInVain(Key("space")) /\ CaptureFails(ask.seen)

\* _await_pager_progress: a page with content that ends at a pager or a prompt.
Page == FreshCommandWindow(ask.seen, text)

Progressed ==
    /\ Page.fresh /\ HasCommandContent(DropPagerPrompt(Page.output))
    /\ HasActivePager(text) \/ TerminalIsIdle(text)

\* For the properties: the end of a page, by which the next one is found in a
\* text that has rolled, is not all syslog lines.
HasRowInAnchor(page) == \E i \in DOMAIN page : IsRow(page[i]) /\ Len(page) - i < MinAnchor

Progress ==
    LET captured == DropPagerPrompt(Page.output) IN
    /\ pc = "progress"
    /\ \/ Progressed /\ Reads /\ Same(captured, ask.last) /\ CaptureFails(text)
       \/ /\ Progressed /\ Reads /\ ~Same(captured, ask.last)
          /\ GoOn(IF HasActivePager(text) THEN "advance" ELSE "conclude",
                  [ask EXCEPT !.output = @ \o captured, !.last = captured, !.seen = text,
                              !.pages = @ + 1,
                              !.anchored = (@ /\ HasRowInAnchor(DropPagerPrompt(ask.seen)))])
       \/ WaitsInVain(Progressed) /\ CaptureFails(IF Page.fresh THEN text ELSE ask.seen)

-----------------------------------------------------------------------------
(* The result, the mode, and the next attempt.                             *)

Conclude ==
    /\ pc = "conclude"
    /\ Ends(IF ask.converged /\ ask.window.fresh /\ ~IsCommandCorrupted(ask.class)
            THEN Returned(TRUE, ask.output, ask.complete)
            ELSE Returned(FALSE, ask.window.output, FALSE))
    /\ UNCHANGED <<terminal, late, count, quarantine>>

\* complete: whether `disable` arrived is not looked at.
Restore ==
    /\ pc = "restore"
    /\ IF ask.restore
       THEN Sends(Key("disable")) \/ SendsInVain(Key("disable"))
       ELSE UNCHANGED <<terminal, late, count>>
    /\ GoOn("done", ask)

\* Again only if the echo shows a corrupted command and IOS rejected it.
IsRetryableCorruption == IsCommandCorrupted(result.class) /\ Rejected(result.output)

Finish ==
    /\ pc = "done"
    /\ IF IsRetryableCorruption /\ ask.attempt < MaxAttempts
       THEN /\ pc' = "prepare"
            /\ ask' = [NoAsk EXCEPT !.of = ask.of, !.attempt = ask.attempt + 1]
       ELSE pc' = "idle" /\ ask' = NoAsk
    /\ result' = NoResult /\ UNCHANGED <<terminal, late, count, quarantine>>

Executor ==
    \/ \E q \in Query : Begin(q)
    \/ Prepare \/ PrepareAgain \/ Greet \/ Cancel \/ ReadMode \/ Enable \/ Dispatch
    \/ Converge \/ Attribute \/ Advance \/ Progress \/ Conclude \/ Restore \/ Finish

Terminal ==
    \/ EvaluateLate \/ TakeAhead \/ PrintRow \/ PrintMore \/ PrintPrompt \/ PrintLog \/ EndBoot

Next == Executor \/ Terminal

Spec == Init /\ [][Next]_vars

-----------------------------------------------------------------------------
(* Properties.                                                             *)

\* The rows among the tokens are those after lo up to hi, each once, in order.
InOrder(tokens, lo, hi) ==
    /\ \A n \in (lo + 1)..hi : \E i \in DOMAIN tokens : IsRow(tokens[i]) /\ tokens[i].n = n
    /\ \A i \in DOMAIN tokens : IsRow(tokens[i]) => tokens[i].n \in (lo + 1)..hi
    /\ \A i, j \in DOMAIN tokens :
          i < j /\ IsRow(tokens[i]) /\ IsRow(tokens[j]) => tokens[i].n < tokens[j].n

\* What an executed query returns was printed since it was dispatched: nothing
\* an earlier query left in the terminal, not when the text has rolled, not
\* when scripts ran late and keys were typed ahead.  Typed at rest, it returns
\* rows of its own only (fresh_command_window, _execute_once).  Typed while
\* another prints, it may return rows of a third that was typed ahead of it.
OwnOutput ==
    result.executed =>
        \A i \in DOMAIN result.output : IsRow(result.output[i]) =>
            /\ result.output[i].at >= result.mine
            /\ result.quiet => result.output[i].of = result.of

\* What is returned as complete is the whole answer, every row of every page
\* once and in order, or IOS rejected the query: an unfinished table is never
\* an authoritative one (_execute_once, _capture_registered_pages).  It is so
\* when three things are: the echo of the query was seen ("dispatched"), while
\* _execute_once returns an answer without it as complete too; the terminal was
\* at rest when the query was typed, which the script of _execute_once does not
\* look at; and the end of every page followed, as much of it as the next one
\* is anchored by (_PAGER_ROLL_MIN_ANCHOR), was not syslog lines only.
CompleteIsWhole ==
    /\ result.executed /\ result.complete
    /\ result.class = "dispatched" /\ result.quiet /\ result.anchored
    => Rejected(result.output) \/ InOrder(result.output, 0, Rows[result.of])
=============================================================================
