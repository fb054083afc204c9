---------------------------- MODULE CommandWindow ----------------------------
(***************************************************************************)
(* What command_dispatch.py reads out of the text of a terminal.  A text   *)
(* is a sequence of tokens: the echo of a command, whole or without its    *)
(* first character ("bad"), a row of its output, the pager's "more", the   *)
(* prompt, a rejection, a syslog line ("log"), or a mode command ("word"). *)
(* The program compares texts only: what a token says of its own history   *)
(* (at) is for the properties.                                             *)
(***************************************************************************)
EXTENDS Naturals, Sequences, SequencesExt, FiniteSetsExt

CONSTANT MinAnchor   \* tokens a paged text keeps in common with the one before it

Token(what, of, n, at) == [what |-> what, of |-> of, n |-> n, at |-> at]
Mark(what) == Token(what, "none", 0, 0)

\* The text as the program sees it.
Shown(text) == [i \in DOMAIN text |-> [text[i] EXCEPT !.at = 0]]
Same(s, t)  == Shown(s) = Shown(t)
StartsWith(t, s) == IsPrefix(Shown(s), Shown(t))
After(t, n) == SubSeq(t, n + 1, Len(t))

IsLog(token) == token.what = "log"
IsRow(token) == token.what = "row"

\* Where the last token that is no syslog line stands, 0 if there is none.
LastSaid(text) == Max({0} \cup {i \in DOMAIN text : ~IsLog(text[i])})
EndsIn(text, what) == LastSaid(text) > 0 /\ text[LastSaid(text)].what = what

HasActivePager(text) == EndsIn(text, "more")
TerminalIsIdle(text) == EndsIn(text, "prompt")

DropPagerPrompt(text) ==
    IF HasActivePager(text) THEN SubSeq(text, 1, LastSaid(text) - 1) ELSE text

HasCommandContent(text) == \E i \in DOMAIN text : text[i].what \notin {"log", "more"}

Rejected(text) == \E i \in DOMAIN text : text[i].what = "reject"

\* The k tokens that end the one text begin the other, k as large as can be.
LongestRetainedSuffix(before, after) ==
    LET k == {i \in 0..Min({Len(before), Len(after)}) :
                 Same(After(before, Len(before) - i), SubSeq(after, 1, i))}
    IN  Max(k)

NoWindow == [fresh |-> FALSE, output |-> <<>>]
Window(text) == IF text = <<>> THEN NoWindow ELSE [fresh |-> TRUE, output |-> text]

\* After a text that ended in a pager, which erases its own mark.
PagedWindow(base, after) ==
    LET k == LongestRetainedSuffix(base, after) IN
    IF StartsWith(after, base) /\ base # <<>> THEN Window(After(after, Len(base)))
    ELSE IF k >= MinAnchor THEN [fresh |-> TRUE, output |-> After(after, k)]
    ELSE NoWindow

\* After any other text: a text that has rolled is anchored where it can be.
PlainWindow(before, after) ==
    LET k == LongestRetainedSuffix(before, after) IN
    IF StartsWith(after, before) THEN Window(After(after, Len(before)))
    ELSE IF k = 0 THEN NoWindow
    ELSE Window(After(after, k))

\* Mutant: a text that has rolled counts as new from its first line on.
FreshCommandWindow_WholeWhenRolled(before, after) ==
    IF after = <<>> \/ Same(before, after) THEN NoWindow
    ELSE IF HasActivePager(before) THEN PagedWindow(DropPagerPrompt(before), after)
    ELSE IF StartsWith(after, before) THEN Window(After(after, Len(before)))
    ELSE Window(after)

FreshCommandWindow(before, after) ==
    IF after = <<>> \/ Same(before, after) THEN NoWindow
    ELSE IF HasActivePager(before) THEN PagedWindow(DropPagerPrompt(before), after)
    ELSE PlainWindow(before, after)

\* The first line that is no syslog line, without the prompt it may begin with.
FirstEcho(window) ==
    LET said == {i \in DOMAIN window : ~IsLog(window[i])}
        i    == Min(said)
    IN  IF said = {} THEN Mark("none")
        ELSE IF window[i].what # "prompt" THEN window[i]
        ELSE IF i < Len(window) THEN window[i + 1] ELSE Mark("none")

\* "lost" when the first character is missing; what is no echo decides nothing.
ClassifyEcho(query, window) ==
    LET echoed == FirstEcho(window) IN
    IF echoed.of # query THEN "unobservable"
    ELSE CASE echoed.what = "echo" -> "dispatched"
           [] echoed.what = "bad"  -> "lost"
           [] OTHER -> "unobservable"

IsCommandCorrupted(class) == class = "lost"
=============================================================================
