------------------------------ MODULE Chunking ------------------------------
(***************************************************************************)
(* How a book is cut into chunks (chunk_units in chunking.py): its units   *)
(* are normalized, their searchable text is made one stream of tokens, and *)
(* a loop takes chunk after chunk from the stream, each within the token   *)
(* budget, preferably up to the end of a line, the next one overlapping    *)
(* it.  A chunk cites the source by intervals of its units and, on pages   *)
(* read by OCR, by the boxes of their words.                               *)
(***************************************************************************)
EXTENDS Normalization

CONSTANTS
    Books,       \* the books: kind, texts and titles of the units
    Settings,    \* chunking and normalization settings
    MinLookback  \* the shortest window in which a line end is looked for; 20 in the code

Setting == [target : Nat \ {0}, max : Nat \ {0}, overlap : Nat, titlePrefix : BOOLEAN,
            collapse : BOOLEAN, dehyphenate : BOOLEAN, headers : BOOLEAN,
            minPages : Nat, minChars : Nat, maxChars : Nat]
Token == [unit : Nat, from : Nat, to : Nat, preferred : BOOLEAN, first : BOOLEAN, title : Nat]

\* A set of positions in their order: the k-th is at most as great as k of them.
Sorted(S) ==
    [k \in 1 .. Cardinality(S) |-> CHOOSE x \in S : Cardinality({y \in S : y <= x}) = k]

\* The maximal runs without a blank.
Runs(cs) ==
    LET starts == {m \in DOMAIN cs : cs[m] \notin Blank /\ (m = 1 \/ cs[m - 1] \in Blank)}
        End(m) == Min({k \in m .. Len(cs) : cs[k] \in Blank} \cup {Len(cs) + 1})
        begin == Sorted(starts)
    IN  [k \in DOMAIN begin |-> [from |-> begin[k], to |-> End(begin[k])]]
Characters(txt) == [m \in DOMAIN txt |-> txt[m].c]

\* _build_tokens; where a line or the unit ends is a preferred place to cut.
TokensOf(u, txt, title) ==
    LET runs == Runs(Characters(txt))
    IN  [k \in DOMAIN runs |->
           [unit |-> u, from |-> txt[runs[k].from].from, to |-> txt[runs[k].to - 1].to,
            preferred |-> k = Len(runs) \/ txt[runs[k].to].c = "nl",
            first |-> k = 1, title |-> title]]

Searchable(b, s) ==
    LET gone == Removed(b.texts, b.kind # "epub", s)
    IN  [u \in DOMAIN b.texts |-> Normalized(b.texts[u], gone[u], s)]
Stream(b, s) ==
    LET txt == Searchable(b, s)
    IN  FlattenSeq([u \in DOMAIN txt |-> TokensOf(u, txt[u], b.titles[u])])

ASSUME ChunkingAssumption ==
    /\ MinLookback \in Nat \ {0}
    /\ \A s \in Settings : s \in Setting /\ s.overlap < s.target /\ s.target <= s.max
    /\ \A b \in Books : /\ b.kind \in {"native", "ocr", "epub"}
                        /\ b.texts \in Seq(Seq(Char)) /\ b.titles \in [DOMAIN b.texts -> Nat]

VARIABLES
    book, settings,
    text,     \* the searchable text of each unit
    tokens,   \* the stream
    i,        \* where the next chunk begins
    chunks,   \* those made: from and to in the stream, tokens of the title
    at        \* "cutting" or "done"

vars == <<book, settings, text, tokens, i, chunks, at>>

Init ==
    /\ book \in Books /\ settings \in Settings
    /\ text = Searchable(book, settings)
    /\ tokens = Stream(book, settings)
    /\ i = 1 /\ chunks = <<>>
    /\ at = IF tokens = <<>> THEN "done" ELSE "cutting"

-----------------------------------------------------------------------------
(* The loop.                                                               *)

Title == IF settings.titlePrefix /\ tokens[i].first THEN tokens[i].title ELSE 0

\* Where the budget ends: at least one token is taken.
Limit ==
    LET room == IF Title < settings.target THEN settings.target - Title ELSE 1
    IN  IF i + room <= Len(tokens) THEN i + room ELSE Len(tokens) + 1

Lookback ==
    IF MinLookback > settings.target \div 4 THEN MinLookback ELSE settings.target \div 4

\* After the last preferred token of the window, or at the limit.
Cuts ==
    LET window == {k \in i .. Limit - 1 : k + Lookback >= Limit /\ tokens[k].preferred}
    IN  IF Limit > Len(tokens) \/ window = {} THEN {Limit}
        ELSE {k + 1 : k \in {m \in window : \A l \in window : l <= m}}

\* Wrong: with an overlap as long as the chunk the next one begins where this one did.
SlipNextStart(cut) == IF cut > i + settings.overlap THEN cut - settings.overlap ELSE i
NextStart(cut) == IF cut > i + settings.overlap THEN cut - settings.overlap ELSE i + 1

Cut ==
    /\ at = "cutting"
    /\ \E cut \in Cuts :
          /\ chunks' = Append(chunks, [from |-> i, to |-> cut, title |-> Title])
          /\ at' = IF cut > Len(tokens) THEN "done" ELSE "cutting"
          /\ i' = IF cut > Len(tokens) THEN i ELSE NextStart(cut)
    /\ UNCHANGED <<book, settings, text, tokens>>

Next == Cut
Spec == Init /\ [][Next]_vars

-----------------------------------------------------------------------------
(* What a chunk cites.                                                     *)

\* _collapse_spans: one interval of the source per unit.
Span(chunk, u) ==
    LET own == {k \in chunk.from .. chunk.to - 1 : tokens[k].unit = u}
    IN  [unit |-> u, from |-> tokens[Min(own)].from, to |-> Max({tokens[k].to : k \in own})]
Spans(chunk) ==
    {Span(chunk, u) : u \in {tokens[k].unit : k \in chunk.from .. chunk.to - 1}}

\* The words that OCR read, of which it made the text of the page.
Words(u) == IF book.kind = "ocr" THEN Runs(book.texts[u]) ELSE <<>>

\* Wrong: each word is looked for from the beginning.
SlipPlaces(u) ==
    [w \in DOMAIN Words(u) |->
        LET word == Words(u)[w]
            hits == {m \in DOMAIN text[u] : \A k \in word.from .. word.to - 1 :
                        /\ m + k - word.from <= Len(text[u])
                        /\ text[u][m + k - word.from].c = book.texts[u][k]}
        IN  IF hits = {} THEN 0 ELSE Min(hits)]
\* _word_source_offsets: where each word is found in the searchable text, from behind the
\* first character of the one before; 0 if nowhere.
Places(u) ==
    LET Hits(word, m0) ==
            {m \in m0 .. Len(text[u]) : \A k \in word.from .. word.to - 1 :
                /\ m + k - word.from <= Len(text[u])
                /\ text[u][m + k - word.from].c = book.texts[u][k]}
        find[w \in 0 .. Len(Words(u))] ==
            IF w = 0 THEN [at |-> 0, next |-> 1]
            ELSE LET hits == Hits(Words(u)[w], find[w - 1].next)
                 IN  IF hits = {} THEN [at |-> 0, next |-> find[w - 1].next]
                     ELSE [at |-> Min(hits), next |-> Min(hits) + 1]
    IN  [w \in DOMAIN Words(u) |-> find[w].at]

\* _union_word_boxes: the words whose boxes a span takes.  The places are of the
\* searchable text, the span is of the source.
Boxes(s) ==
    {w \in DOMAIN Words(s.unit) :
        LET word == Words(s.unit)[w]
            m == Places(s.unit)[w]
        IN  m # 0 /\ m < s.to /\ m + word.to - word.from > s.from}

-----------------------------------------------------------------------------
(* Properties.                                                             *)

\* "No truncation" and "Progress" (chunking.py): whatever the lines, titles, budget and
\* overlap, every token is in a chunk, each chunk begins after the one before and where it
\* ends at the latest, and it keeps to the cap unless its title alone exceeds it.
NoTruncation ==
    /\ at = "done" => \A k \in DOMAIN tokens :
                        \E m \in DOMAIN chunks : chunks[m].from <= k /\ k < chunks[m].to
    /\ \A m \in DOMAIN chunks :
          /\ chunks[m].from < chunks[m].to
          /\ \/ chunks[m].title + (chunks[m].to - chunks[m].from) <= settings.max
             \/ chunks[m].title >= settings.target /\ chunks[m].to = chunks[m].from + 1
          /\ m > 1 => chunks[m - 1].from < chunks[m].from /\ chunks[m].from <= chunks[m - 1].to

\* What of the source is meant to be searchable: all but blanks, running matter and the
\* hyphens that only break a word.
Breaks(t, k) ==
    /\ t[k] = "-" /\ k > 1 /\ t[k - 1] \in Letter
    /\ \E m \in k + 1 .. Len(t) - 1 :
          t[m] = "nl" /\ t[m + 1] = "a" /\ \A l \in k + 1 .. m - 1 : t[l] = " "
Ink(u) ==
    LET t == book.texts[u]
    IN  {k \in DOMAIN t : /\ t[k] \notin Blank
                          /\ k \notin Removed(book.texts, book.kind # "epub", settings)[u]
                          /\ ~(settings.collapse /\ settings.dehyphenate /\ Breaks(t, k))}

\* A citation is of the source, whole: what is meant to be searchable is cited by some
\* chunk, and the searchable characters of a cited interval are the source's, in order,
\* although blanks were collapsed, words joined and lines taken out before, and chunks go
\* across units.
QuotesAreSource ==
    /\ at = "done" => \A u \in DOMAIN book.texts : \A k \in Ink(u) :
          \E m \in DOMAIN chunks : \E s \in Spans(chunks[m]) :
             s.unit = u /\ s.from <= k /\ k < s.to
    /\ \A m \in DOMAIN chunks : \A s \in Spans(chunks[m]) :
          LET t == text[s.unit]
              cited == {k \in DOMAIN t : /\ t[k].c \notin Blank
                                         /\ s.from <= t[k].from /\ t[k].from < s.to}
              ink == {k \in Ink(s.unit) : s.from <= k /\ k < s.to}
          IN  /\ {t[k] : k \in cited} =
                     {[c |-> book.texts[s.unit][k], from |-> k, to |-> k + 1] : k \in ink}
              /\ \A k, l \in cited : k < l => t[k].from < t[l].from

\* "Losing a box is safe, a wrong box is not" (_word_source_offsets): a span is shown by
\* the boxes of its words and no others.  This holds only where the searchable text has
\* every character at its place in the source, because the two are compared, where no word
\* of it lost a hyphen only, and where no word is part of the last one before it that is
\* searchable.
Unshifted(u) == \A m \in DOMAIN text[u] : text[u][m].from = m
Letters(word) == word.from .. word.to - 1
Halved(u) ==
    \E word \in Range(Words(u)) : Letters(word) \cap Ink(u) \notin {{}, Letters(word)}
Nested(u) ==
    \E v, w \in DOMAIN Words(u) :
        LET before == Words(u)[v]
            word == Words(u)[w]
        IN  /\ v < w /\ \A x \in v + 1 .. w - 1 : Letters(Words(u)[x]) \cap Ink(u) = {}
            /\ \E m \in Letters(before) \ {before.from} : \A k \in Letters(word) :
                  book.texts[u][m + k - word.from] = book.texts[u][k]
BoxesAreOfSpan ==
    \A m \in DOMAIN chunks : \A s \in Spans(chunks[m]) :
        Unshifted(s.unit) /\ ~Halved(s.unit) /\ ~Nested(s.unit) =>
            Boxes(s) = {w \in DOMAIN Words(s.unit) :
                           Words(s.unit)[w].from < s.to /\ Words(s.unit)[w].to > s.from}
=============================================================================
