-------------------------------- MODULE Terminal --------------------------------
(* The line discipline of the terminal: TerminalSession                        *)
(* (src/src/host/terminal-session.ts).  Keys edit a line, recall and search    *)
(* the history, complete a word, run a command; the screen is what the writes  *)
(* of every key make of the current line.  A completion and a command are       *)
(* awaited, and keys of later chunks come in between.                          *)
(*                                                                             *)
(* A line is a sequence of characters.  Left out: the prompt's text, output of *)
(* commands, banners, the split of chunks into keys, exit, read-only sessions. *)
EXTENDS Integers, Sequences, SequencesExt

CONSTANTS Chars, Space,
          Words,       \* what can be completed: sequences of characters
          MaxLine,     \* bounds: characters in a line, commands run
          MaxHistory,
          None

VARIABLES buffer, cursor,   \* the line, and how many characters are before the cursor
          history, index,   \* historyIndex
          search,           \* the reverse search, or None
          busy, aborted,
          completing,       \* the line that is being completed, or None
          screen,           \* the line shown and the place of its cursor
          raced             \* history: keys came while a line was being completed

vars == <<buffer, cursor, history, index, search, busy, aborted, completing, screen, raced>>

TerminalAssumption ==
    /\ Words \subseteq Seq(Chars \cup {Space})
    /\ None \notin [query : Seq(Chars \cup {Space}), match : Nat, saved : Seq(Chars \cup {Space})]

Shown(text) == [line |-> text, at |-> Len(text)]

Init ==
    /\ buffer = <<>> /\ cursor = 0
    /\ history = <<>> /\ index = 0
    /\ search = None
    /\ busy = FALSE /\ aborted = FALSE
    /\ completing = None
    /\ screen = Shown(<<>>)
    /\ raced = FALSE

-----------------------------------------------------------------------------
(* The screen: characters overwrite what is there, and move the cursor *)

Write(s, text) ==
    [line |-> [i \in 1..(IF s.at + Len(text) > Len(s.line) THEN s.at + Len(text) ELSE Len(s.line)) |->
                 IF i \in (s.at + 1)..(s.at + Len(text)) THEN text[i - s.at]
                 ELSE IF i <= Len(s.line) THEN s.line[i] ELSE Space],
     at |-> s.at + Len(text)]

Left(s, n) == [s EXCEPT !.at = @ - n]

\* Text before and after the cursor.
Before == SubSeq(buffer, 1, cursor)
After == SubSeq(buffer, cursor + 1, Len(buffer))

-----------------------------------------------------------------------------
(* Keys; none but Ctrl+C is heard while a command runs *)

Heard == ~busy /\ search = None /\ raced' = (raced \/ completing # None)

Unchanged == UNCHANGED <<history, index, search, busy, aborted, completing>>

\* A key inserts its character and paints the rest of the line again.
Insert(ch) ==
    /\ Heard
    /\ Len(buffer) < MaxLine
    /\ buffer' = Before \o <<ch>> \o After
    /\ cursor' = cursor + 1
    /\ screen' = Left(Write(screen, <<ch>> \o After), Len(After))
    /\ Unchanged

\* The last character of the old line is not painted over.
Erased_Short(s, tail) == Left(Write(s, tail), Len(tail))

\* A character less: the rest of the line, a blank, and back.
Erased(s, tail) == Left(Write(s, Append(tail, Space)), Len(tail) + 1)

Backspace ==
    /\ Heard
    /\ IF cursor > 0
       THEN /\ buffer' = SubSeq(buffer, 1, cursor - 1) \o After
            /\ cursor' = cursor - 1
            /\ screen' = Erased(Left(screen, 1), After)
       ELSE UNCHANGED <<buffer, cursor, screen>>
    /\ Unchanged

Delete ==
    /\ Heard
    /\ IF cursor < Len(buffer)
       THEN /\ buffer' = Before \o Tail(After)
            /\ screen' = Erased(screen, Tail(After))
       ELSE UNCHANGED <<buffer, screen>>
    /\ UNCHANGED cursor
    /\ Unchanged

\* The arrows, Home and End.
Move(to) ==
    /\ Heard
    /\ to \in {cursor - 1, cursor + 1, 0, Len(buffer)} /\ to \in 0..Len(buffer)
    /\ cursor' = to
    /\ screen' = Left(screen, cursor - to)
    /\ UNCHANGED buffer
    /\ Unchanged

SetLine(text) ==
    /\ buffer' = text
    /\ cursor' = Len(text)
    /\ screen' = Shown(text)

Recall(i) ==
    /\ Heard
    /\ i \in {index - 1, index + 1} /\ i \in 0..Len(history)
    /\ index' = i
    /\ SetLine(IF i = Len(history) THEN <<>> ELSE history[i + 1])
    /\ UNCHANGED <<history, search, busy, aborted, completing>>

\* Enter: a blank line asks again, another one runs.
Run(cmd) ==
    /\ buffer' = <<>> /\ cursor' = 0
    /\ screen' = Shown(<<>>)
    /\ IF \A i \in DOMAIN cmd : cmd[i] = Space
       THEN UNCHANGED <<history, index, busy, aborted>>
       ELSE /\ history' = Append(history, cmd)
            /\ index' = Len(history) + 1
            /\ busy' = TRUE /\ aborted' = FALSE

Enter ==
    /\ ~busy /\ search = None
    /\ Len(history) < MaxHistory
    /\ Run(buffer)
    /\ raced' = (completing # None)
    /\ UNCHANGED <<search, completing>>

ExecEnds ==
    /\ busy
    /\ busy' = FALSE /\ aborted' = FALSE
    /\ screen' = Shown(<<>>)
    /\ UNCHANGED <<buffer, cursor, history, index, search, completing, raced>>

CtrlC ==
    /\ IF busy
       THEN /\ aborted' = TRUE
            /\ UNCHANGED <<buffer, cursor, search, screen, raced>>
       ELSE /\ search' = None
            /\ buffer' = <<>> /\ cursor' = 0
            /\ screen' = Shown(<<>>)
            /\ raced' = (completing # None)
            /\ UNCHANGED aborted
    /\ UNCHANGED <<history, index, busy, completing>>

-----------------------------------------------------------------------------
(* Reverse search *)

Has(line, query) == \E i \in 1..Len(line) : i + Len(query) - 1 <= Len(line)
                                           /\ SubSeq(line, i, i + Len(query) - 1) = query

\* The newest entry at or before "from" with the query in it, 0 for none.
Match(query, from) ==
    LET hits == {i \in 1..from : query # <<>> /\ Has(history[i], query)}
    IN  IF hits = {} THEN 0 ELSE CHOOSE i \in hits : \A j \in hits : j <= i

Searching == ~busy /\ search # None /\ raced' = (raced \/ completing # None)

BeginSearch ==
    /\ Heard
    /\ search' = [query |-> <<>>, match |-> 0, saved |-> buffer]
    /\ UNCHANGED <<buffer, cursor, history, index, busy, aborted, completing, screen>>

Search(query, from) ==
    /\ search' = [search EXCEPT !.query = query, !.match = Match(query, from)]
    /\ UNCHANGED <<buffer, cursor, history, index, busy, aborted, completing, screen>>

SearchType(ch) ==
    /\ Searching
    /\ Len(search.query) < MaxLine
    /\ Search(Append(search.query, ch), IF search.match > 0 THEN search.match ELSE Len(history))

SearchErase ==
    /\ Searching
    /\ Search(IF search.query = <<>> THEN <<>> ELSE Front(search.query), Len(history))

\* Ctrl+R again: the next older match, if there is one.
SearchOlder ==
    /\ Searching
    /\ LET older == Match(search.query, IF search.match > 0 THEN search.match - 1 ELSE Len(history))
       IN  search' = IF older > 0 THEN [search EXCEPT !.match = older] ELSE search
    /\ UNCHANGED <<buffer, cursor, history, index, busy, aborted, completing, screen>>

Adopted == IF search.match > 0 THEN history[search.match] ELSE search.saved

\* A control key adopts the match; Enter runs it.
SearchLeave ==
    /\ Searching
    /\ search' = None
    /\ SetLine(Adopted)
    /\ UNCHANGED <<history, index, busy, aborted, completing>>

SearchEnter ==
    /\ Searching
    /\ Len(history) < MaxHistory
    /\ search' = None
    /\ Run(Adopted)
    /\ UNCHANGED completing

-----------------------------------------------------------------------------
(* Completion *)

\* Bound: a line that was raced once is not completed again.
Tab ==
    /\ ~busy /\ search = None
    /\ completing = None /\ ~raced
    /\ buffer # <<>> /\ cursor = Len(buffer)
    /\ completing' = buffer
    /\ UNCHANGED <<buffer, cursor, history, index, search, busy, aborted, screen, raced>>

Candidates == {w \in Words : IsPrefix(completing, w)}

CommonPrefix(words) ==
    LET ps == {p \in UNION {Prefixes(w) : w \in words} : \A w \in words : IsPrefix(p, w)}
    IN  CHOOSE p \in ps : \A q \in ps : Len(q) <= Len(p)

\* What is added to the line, counted from the length it has by now: nothing
\* for several candidates that differ from there on (they are listed).
Addition ==
    LET lcp == CommonPrefix(Candidates)
        add == SubSeq(lcp, Len(buffer) + 1, Len(lcp))
    IN  IF \E w \in Candidates : Candidates = {w} THEN Append(add, Space) ELSE add

\* The answer goes to the end of the line of the moment, and onto the screen
\* where the cursor is.
Completed ==
    /\ completing # None
    /\ completing' = None
    /\ IF Candidates = {} THEN UNCHANGED <<buffer, cursor, screen>>
       ELSE IF Addition = <<>> THEN screen' = Shown(buffer) /\ UNCHANGED <<buffer, cursor>>
       ELSE /\ buffer' = buffer \o Addition
            /\ cursor' = Len(buffer) + Len(Addition)
            /\ screen' = Write(screen, Addition)
    /\ UNCHANGED <<history, index, search, busy, aborted, raced>>

Next ==
    \/ \E ch \in Chars : Insert(ch) \/ SearchType(ch)
    \/ Backspace \/ Delete \/ \E to \in 0..Len(buffer) : Move(to)
    \/ \E i \in 0..Len(history) : Recall(i)
    \/ Enter \/ ExecEnds \/ CtrlC
    \/ BeginSearch \/ SearchErase \/ SearchOlder \/ SearchLeave \/ SearchEnter
    \/ Tab \/ Completed

Spec == Init /\ [][Next]_vars

-----------------------------------------------------------------------------
(* Properties *)

TypeOK ==
    /\ cursor \in 0..Len(buffer)
    /\ index \in 0..Len(history)
    /\ busy => search = None

Trim(text) ==
    SubSeq(text, 1, CHOOSE n \in 0..Len(text) :
        /\ \A i \in (n + 1)..Len(text) : text[i] = Space
        /\ n = 0 \/ text[n] # Space)

\* What the user sees is what Enter runs: outside a search and a running
\* command the screen shows the line with the cursor in its place, after any
\* sequence of keys, provided that nobody types while a word is completed.
ScreenShowsLine ==
    ~busy /\ search = None /\ ~raced =>
      Trim(screen.line) = Trim(buffer) /\ screen.at = cursor

=============================================================================
