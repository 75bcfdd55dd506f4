----------------------------- MODULE MCChunking -----------------------------
(* Small books for TLC: any short page, pages with running lines, pages read *)
(* by OCR and sections with titles.                                          *)
EXTENDS Chunking

CONSTANT Length   \* bound on the length of a single page

Pages(kind, texts) == [kind |-> kind, texts |-> texts, titles |-> [u \in DOMAIN texts |-> 0]]
AnyPage == {Pages("native", <<t>>) : t \in UNION {[1 .. k -> Char] : k \in 0 .. Length}}

\* Two pages of three lines; the first and last may recur.
Header == {<<"A", "A">>, <<" ", "A", "A">>, <<"a">>}
Body == {<<"a", "-">>, <<"a", " ", " ", "a">>, <<>>}
Footer == {<<"a", "A">>, <<"a", "A", " ">>, <<"-">>}
Page(h, b, f) == h \o <<"nl">> \o b \o <<"nl">> \o f
Running ==
    LET pages == {Page(h, b, f) : h \in Header, b \in Body, f \in Footer}
    IN  {Pages("native", <<p, q>>) : p \in pages, q \in pages}

\* Words with one blank or newline between them.
Word == {<<"a">>, <<"A">>, <<"a", "-">>, <<"A", "a">>}
Scanned ==
    {Pages("ocr", <<u \o <<x>> \o v \o <<y>> \o w>>) :
        u \in Word, v \in Word, w \in Word, x \in Blank, y \in Blank}

\* Read by OCR as well, over a footer of two words or of one.
Footed ==
    {Pages("ocr", <<u \o <<"nl">> \o f, v \o <<"nl">> \o f>>) :
        u \in Word, v \in Word, f \in {<<"A", " ", "a">>, <<"a", "A">>}}

\* Sections of up to four words, one to a line or not, with titles of up to four tokens.
Prose == {<<>>, <<"a", " ", "a", "nl", "A">>, <<"a", " ", "a", " ", "a", "nl", "a", " ", "a">>}
Sections ==
    {[kind |-> "epub", texts |-> <<p, q>>, titles |-> <<k, l>>] :
        p \in Prose, q \in Prose, k \in 0 .. 4, l \in {0, 1, 3}}

SmallBooks == AnyPage \cup Running \cup Scanned \cup Footed \cup Sections

Rules(target, max, overlap, plain) ==
    [target |-> target, max |-> max, overlap |-> overlap, titlePrefix |-> ~plain,
     collapse |-> ~plain, dehyphenate |-> TRUE, headers |-> ~plain,
     minPages |-> 2, minChars |-> 2, maxChars |-> 3]
SmallSettings ==
    {Rules(3, 3, 2, FALSE), Rules(2, 3, 1, FALSE), Rules(2, 2, 0, FALSE), Rules(2, 2, 0, TRUE)}
=============================================================================
