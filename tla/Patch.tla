--------------------------------- MODULE Patch ---------------------------------
(* The apply_patch tool: how an update of one file is placed and applied       *)
(* (src/src/tools/applyPatchParser.ts: peekNextSection, findContext,           *)
(* Parser.parseUpdateFile, getUpdatedFile).  A run takes one file and one       *)
(* patch and computes the result.                                              *)
(*                                                                             *)
(* A line is a text with its outer white space: none, trailing or leading.  A  *)
(* section is an optional @@ header and marked lines; "bare" is a line whose    *)
(* marker is missing.  Left out: escaped tabs and newlines, punctuation, and   *)
(* the framing of the patch.  Indices are from 0, as in the code.              *)
EXTENDS Integers, Sequences, SequencesExt

CONSTANTS Files,      \* the files: sequences of lines
          Patches,    \* the patches: sequences of sections
          Blank,      \* the text of a blank line
          PathText,   \* the text of a line that mentions the file's path
          Distance(_, _),  \* edit distance of two texts
          None

VARIABLES file, patch, result

vars == <<file, patch, result>>

-----------------------------------------------------------------------------
(* peekNextSection *)

\* Counts from the end of the lines that are removed.
Flush_NoDel(s) ==
    IF s.del = <<>> /\ s.ins = <<>> THEN s
    ELSE [s EXCEPT !.chunks = Append(@, [at |-> Len(s.old), del |-> s.del, ins |-> s.ins]),
                   !.del = <<>>, !.ins = <<>>]

\* The pending changes become a chunk, at the line of the section where they begin.
Flush(s) ==
    IF s.del = <<>> /\ s.ins = <<>> THEN s
    ELSE [s EXCEPT !.chunks = Append(@, [at |-> Len(s.old) - Len(s.del), del |-> s.del, ins |-> s.ins]),
                   !.del = <<>>, !.ins = <<>>]

\* The mode of a line; a bare line is kept, unless it is the fuzzMerge-th
\* between two of one kind.
Between(s, next) == s.mode # "keep" /\ next = s.mode

NextMode(ops, i) == IF i < Len(ops) /\ ops[i + 1].mark \in {"add", "del"} THEN ops[i + 1].mark ELSE "keep"

Mode(s, ops, i, fuzzMerge) ==
    IF ops[i].mark # "bare" THEN ops[i].mark
    ELSE IF Between(s, NextMode(ops, i)) /\ s.merges + 1 = fuzzMerge THEN s.mode ELSE "keep"

Taken(s, mode, line, merges) ==
    [s EXCEPT !.mode = mode,
              !.merges = merges,
              !.old = IF mode = "add" THEN @ ELSE Append(@, line),
              !.del = IF mode = "del" THEN Append(@, line) ELSE @,
              !.ins = IF mode = "add" THEN Append(@, line) ELSE @]

InMode(s, mode, op, between) ==
    Taken(IF mode = "keep" /\ s.mode # "keep" THEN Flush(s) ELSE s, mode, op.line,
          IF op.mark = "bare" /\ between THEN s.merges + 1 ELSE s.merges)

Line(s, ops, i, fuzzMerge) ==
    InMode(s, Mode(s, ops, i, fuzzMerge), ops[i], Between(s, NextMode(ops, i)))

\* A blank line that the section ends with is no context.
Trimmed(s) ==
    IF s.mode = "keep" /\ s.old # <<>> /\ Last(s.old).text = Blank THEN [s EXCEPT !.old = Front(@)] ELSE s

\* The section after each of its lines.
Peek(ops, fuzzMerge) ==
    LET read[n \in 0..Len(ops)] ==
            IF n = 0 THEN [mode |-> "keep", old |-> <<>>, del |-> <<>>, ins |-> <<>>, chunks |-> <<>>, merges |-> 0]
            ELSE Line(read[n - 1], ops, n, fuzzMerge)
    IN  Flush(Trimmed(read[Len(ops)]))

-----------------------------------------------------------------------------
(* findContext *)

Found(line, fuzz) == [line |-> line, fuzz |-> fuzz]

\* The comparisons, strictest first; a match of a later one counts as fuzzier.
Same(k, a, b) ==
    CASE k = 0 -> a = b
      [] k = 1 -> a.text = b.text /\ (a.space = b.space \/ {a.space, b.space} = {"none", "trailing"})
      [] k = 2 -> a.text = b.text

MatchesAt(k, lines, ctx, i) ==
    i >= 0 /\ i + Len(ctx) <= Len(lines) /\ \A j \in 1..Len(ctx) : Same(k, lines[i + j], ctx[j])

TextAt(lines, i) == IF i \in 1..Len(lines) THEN lines[i].text ELSE Blank

\* A third of a mistake per line; the sum ends as soon as it is used up.
Allowance(ctx) == (Len(ctx) * 34) \div 100

Sum(lines, ctx, i, n) ==
    FoldLeft(LAMBDA d, j : IF d < Allowance(ctx) THEN d + Distance(TextAt(lines, i + j), ctx[j].text) ELSE d,
             0, [j \in 1..n |-> j])

Near(lines, ctx, i) == Allowance(ctx) > 0 /\ Sum(lines, ctx, i, Len(ctx)) <= Allowance(ctx)

\* findContextCore: the first line at or after start that matches, by the first
\* comparison that has one.
FirstOf(hits) == CHOOSE i \in hits : \A h \in hits : i <= h

Strictest(hits) ==
    IF \A k \in 0..3 : hits[k] = {} THEN None
    ELSE LET k == FirstOf({k \in 0..3 : hits[k] # {}})
         IN  Found(FirstOf(hits[k]), k)

FindCore(lines, ctx, start) ==
    IF ctx = <<>> THEN Found(start, 0)
    ELSE Strictest([k \in 0..3 |-> {i \in start..(Len(lines) - 1) :
                                       IF k = 3 THEN Near(lines, ctx, i) ELSE MatchesAt(k, lines, ctx, i)}])

\* A first line that mentions the path is skipped, in the file and in the
\* context, each by itself.
SkipPath(lines) == IF lines # <<>> /\ Head(lines).text = PathText THEN Tail(lines) ELSE lines

OrElse(first, second) == IF first # None THEN first ELSE second

FindFrom(lines, ctx, start, eof) ==
    OrElse(IF eof THEN FindCore(lines, ctx, Len(lines) - Len(ctx)) ELSE None, FindCore(lines, ctx, start))

FindContext(lines, ctx, start, eof) == FindFrom(SkipPath(lines), SkipPath(ctx), start, eof)

-----------------------------------------------------------------------------
(* parseUpdateFile *)

\* A header moves on to the line after the one that it names, if there is one.
AfterHeader(lines, def, index) ==
    LET exact == {i \in index..(Len(lines) - 1) : lines[i + 1] = def}
        trimmed == {i \in index..(Len(lines) - 1) : lines[i + 1].text = def.text}
        hits == IF exact # {} THEN exact ELSE trimmed
    IN  IF def = None \/ hits = {} THEN index ELSE 1 + FirstOf(hits)

\* From the index, else from the beginning; then again with one more merge.
Attempt(lines, ctx, index, eof) ==
    OrElse(FindContext(lines, ctx, index, eof), FindContext(lines, ctx, 0, eof))

Shifted(chunks, by) == [c \in DOMAIN chunks |-> [chunks[c] EXCEPT !.at = @ + by]]

PlaceAt(s, peek, match) ==
    [s EXCEPT !.index = match.line + Len(peek.old), !.chunks = @ \o Shifted(peek.chunks, match.line)]

PlaceFirst(s, peeks, matches) ==
    LET tries == {n \in DOMAIN matches : matches[n] # None}
    IN  IF ~s.ok \/ tries = {} THEN [s EXCEPT !.ok = FALSE]
        ELSE PlaceAt(s, peeks[FirstOf(tries)], matches[FirstOf(tries)])

PlacePeeked(lines, s, index, eof, peeks) ==
    PlaceFirst(s, peeks, [n \in 0..peeks[0].merges |-> Attempt(lines, peeks[n].old, index, eof)])

\* The merges to try are those that the section has room for.
Place(lines, s, section) ==
    PlacePeeked(lines, s, AfterHeader(lines, section.def, s.index), section.eof,
                [n \in 0..Len(section.ops) |-> Peek(section.ops, n)])

Parse(lines, sections) ==
    LET placed[n \in 0..Len(sections)] ==
            IF n = 0 THEN [ok |-> TRUE, index |-> 0, chunks |-> <<>>]
            ELSE Place(lines, placed[n - 1], sections[n])
    IN  placed[Len(sections)]

-----------------------------------------------------------------------------
(* getUpdatedFile *)

\* Chunks come in the order of the file and do not overlap, or it throws.
ApplyChunk(lines, s, chunk) ==
    IF ~s.ok \/ chunk.at > Len(lines) \/ s.index > chunk.at THEN [s EXCEPT !.ok = FALSE]
    ELSE [s EXCEPT !.out = @ \o SubSeq(lines, s.index + 1, chunk.at) \o chunk.ins,
                   !.index = chunk.at + Len(chunk.del)]

Updated(lines, chunks) ==
    LET s == FoldLeft(LAMBDA s, chunk : ApplyChunk(lines, s, chunk), [ok |-> TRUE, index |-> 0, out |-> <<>>], chunks)
    IN  IF s.ok THEN s.out \o SubSeq(lines, s.index + 1, Len(lines)) ELSE None

-----------------------------------------------------------------------------

Init ==
    /\ file \in Files
    /\ patch \in Patches
    /\ result = [done |-> FALSE, chunks |-> <<>>, out |-> None]

Apply ==
    /\ ~result.done
    /\ \E parsed \in {Parse(file, patch)} :
         result' = [done |-> TRUE, chunks |-> parsed.chunks,
                    out |-> IF parsed.ok THEN Updated(file, parsed.chunks) ELSE None]
    /\ UNCHANGED <<file, patch>>

Spec == Init /\ [][Apply]_vars

-----------------------------------------------------------------------------
(* Properties *)

TypeOK == result.done \in BOOLEAN

Applied == result.done /\ result.out # None

\* The lines that a patch takes away are lines that it names, up to their outer
\* white space; nothing else of the file is lost, whatever sections repeat,
\* move back or end at the end of the file.
RemovesWhatItNames ==
    Applied => \A c \in DOMAIN result.chunks : \A j \in DOMAIN result.chunks[c].del :
      LET at == result.chunks[c].at + j
      IN  at <= Len(file) /\ Same(2, file[at], result.chunks[c].del[j])

\* applyPatchParser.ts: "Max edit distance allowed per line for fuzzy
\* matching".  What a fuzzy match takes away is within that distance in all.
Excess(chunk) ==
    FoldLeft(LAMBDA d, j : d + Distance(TextAt(file, chunk.at + j), chunk.del[j].text),
             0, [j \in 1..Len(chunk.del) |-> j])

WithinAllowance ==
    Applied => \A c \in DOMAIN result.chunks : 3 * Excess(result.chunks[c]) <= Len(result.chunks[c].del) + 2

=============================================================================
