---------------------------- MODULE Normalization ----------------------------
(***************************************************************************)
(* The searchable text of a unit and, for each of its characters, the      *)
(* interval of the source text it stands for (normalization.py).           *)
(*                                                                         *)
(* Abstraction.  A text is a sequence of classes of characters: a lower    *)
(* case letter, any other letter, a hyphen, a blank, a newline.  Positions *)
(* count from 1, intervals are half open.                                  *)
(***************************************************************************)
EXTENDS Naturals, FiniteSets, SequencesExt

Letter == {"a", "A"}
Blank == {" ", "nl"}
Char == Letter \cup Blank \cup {"-"}

\* The physical line that begins at a position, its newline included.
LineFrom(text, k) ==
    k .. Min({m \in k .. Len(text) : text[m] = "nl"} \cup {Len(text)})
FirstLine(text) == LineFrom(text, 1)
LastLine(text) ==
    LineFrom(text, Max({k \in DOMAIN text : k = 1 \/ text[k - 1] = "nl"}))
Stripped(text, line) ==
    LET ink == {k \in line : text[k] \notin Blank}
    IN  IF ink = {} THEN <<>> ELSE SubSeq(text, Min(ink), Max(ink))

\* What recurs, as first lines or as last lines, on enough units of the book.
Recurring(lines, rules) ==
    {s \in Range(lines) : /\ Len(s) \in rules.minChars .. rules.maxChars /\ s # <<>>
                          /\ Cardinality({u \in DOMAIN lines : lines[u] = s}) >= rules.minPages}

\* unit_removed_ranges: the positions of running headers and footers, per unit; never in
\* the sections of an EPUB.
Removed(texts, crossUnit, rules) ==
    LET filled == {u \in DOMAIN texts : texts[u] # <<>>}
        first == [u \in filled |-> Stripped(texts[u], FirstLine(texts[u]))]
        last == [u \in filled |-> Stripped(texts[u], LastLine(texts[u]))]
        Gone(u) == {k \in DOMAIN texts[u] :
                       \/ k \in FirstLine(texts[u]) /\ first[u] \in Recurring(first, rules)
                       \/ k \in LastLine(texts[u]) /\ last[u] \in Recurring(last, rules)}
    IN  [u \in DOMAIN texts |->
            IF rules.headers /\ crossUnit /\ Len(texts) >= 2 THEN Gone(u) ELSE {}]

\* The end of the run of blanks at i, which is not cut at removed lines.
RunEnd(text, i) == Min({k \in i .. Len(text) : text[k] \notin Blank} \cup {Len(text) + 1})

\* What the run of blanks from i to j is replaced by.
Collapsed(text, i, j, gone) ==
    LET newlines == {k \in i .. j - 1 : text[k] = "nl"}
        kept == i = 1 \/ text[i - 1] = "-" \/ j = Len(text) + 1 \/ j \in gone
    IN  IF newlines = {} THEN <<" ">>
        ELSE IF Cardinality(newlines) >= 2 THEN <<"nl">>
        ELSE IF j - 1 \notin newlines THEN <<"nl", " ">>
        ELSE IF kept THEN <<"nl">> ELSE <<" ">>

\* A hyphen at the end of a line, after a letter and before a small one: the fragments
\* are joined.
LineEnd(text, i) == Min({k \in i + 1 .. Len(text) : text[k] # " "} \cup {Len(text) + 1})
Joins(text, i) ==
    LET k == LineEnd(text, i)
    IN  /\ text[i] = "-" /\ i > 1 /\ text[i - 1] \in Letter
        /\ k < Len(text) /\ text[k] = "nl" /\ text[k + 1] = "a"

\* Wrong: the first character of the next line goes with the hyphen.
SlipJoinEnd(text, i) == LineEnd(text, i) + 2
JoinEnd(text, i) == LineEnd(text, i) + 1

\* _normalize_chars: one pass over the text.
Normalized(text, gone, rules) ==
    LET Copied(i) == <<[c |-> text[i], from |-> i, to |-> i + 1]>>
        Replaced(i, j) ==
            LET put == Collapsed(text, i, j, gone)
            IN  [k \in DOMAIN put |-> [c |-> put[k], from |-> i, to |-> j]]
        out[i \in 1 .. Len(text) + 1] ==
            IF i = Len(text) + 1 THEN <<>>
            ELSE IF i \in gone THEN out[i + 1]
            ELSE IF text[i] \in Blank /\ rules.collapse
                 THEN Replaced(i, RunEnd(text, i)) \o out[RunEnd(text, i)]
            ELSE IF rules.dehyphenate /\ rules.collapse /\ Joins(text, i) THEN out[JoinEnd(text, i)]
            ELSE Copied(i) \o out[i + 1]
    IN  out[1]
=============================================================================
