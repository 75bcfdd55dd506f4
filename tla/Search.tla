------------------------------- MODULE Search -------------------------------
(***************************************************************************)
(* One search (retrieval.py) over what is published, while books are       *)
(* scanned, published anew and removed.                                    *)
(*                                                                         *)
(* Abstraction.  The index ranks the chunks of every publication of a book *)
(* alike; the sparse side knows those that share a word with the question. *)
(* Publication has the switch in full and Library the removal; here they   *)
(* are the steps that a search can see.                                    *)
(***************************************************************************)
EXTENDS Naturals, Sequences, FiniteSets, Functions

CONSTANTS
    Book, None,
    Chunk,         \* numbers of the chunks of a revision
    Length,        \* <<book, chunk>> -> its tokens
    DenseRank,     \* <<book, chunk>> -> its rank by similarity to the question
    SparseRank,    \* the same by BM25 weight, of those that share a word with it
    RrfK,          \* rrf_k
    Top, TopupCap, \* hits asked for: at first, at most
    TopupRounds, RerankMax, MinPassages, MaxPassages, MaxPerBook, TokenBudget,
    MaxChanges     \* bound on scans and publications

ASSUME SearchAssumption ==
    /\ IsFiniteSet(Book) /\ None \notin Book /\ IsFiniteSet(Chunk) /\ RrfK \in Nat
    /\ DenseRank \in Injection(Book \X Chunk, Nat)
    /\ DOMAIN SparseRank \subseteq Book \X Chunk
    /\ SparseRank \in Injection(DOMAIN SparseRank, Nat)
    /\ {Top, TopupCap, RerankMax, MinPassages, MaxPassages, MaxPerBook} \subseteq Nat \ {0}
    /\ MinPassages <= MaxPassages /\ Top <= TopupCap /\ TopupRounds \in Nat
    /\ TokenBudget \in Nat /\ Length \in [Book \X Chunk -> 0 .. TokenBudget] /\ MaxChanges \in Nat

Version == 0 .. MaxChanges
Pub == [book : Book, rev : Version, epoch : Version]
Id == Book \X Version \X Chunk      \* of a chunk: its book, revision and number
Passage == [pub : Pub, chunk : Chunk]

VARIABLES
    current,   \* book -> its active revision
    active,    \* book -> its active publication
    next,      \* book -> the publication that is replacing it, or None
    on,        \* publications whose points are flagged active
    removed,   \* books whose points, rows and original a removal has deleted
    changes,
    search     \* the variables of search(), and moved and seen: what happened meanwhile

library == <<current, active, next, on, removed, changes>>

NoSearch ==
    [step |-> "idle", dense |-> FALSE, only |-> None, visible |-> {}, indexed |-> {},
     todo |-> {}, found |-> <<>>, before |-> None, limit |-> Top, rounds |-> 0,
     passages |-> <<>>, moved |-> FALSE, seen |-> {}]

First(b) == [book |-> b, rev |-> 0, epoch |-> 0]
SearchInit ==
    /\ current = [b \in Book |-> 0]
    /\ active = [b \in Book |-> First(b)]
    /\ next = [b \in Book |-> None]
    /\ on = {First(b) : b \in Book}
    /\ removed = [points |-> {}, rows |-> {}, archive |-> {}]
    /\ changes = 0
    /\ search = NoSearch

-----------------------------------------------------------------------------
(* The library changes: register_source, B2, B3, B4, remove_document.      *)

Reading == {"visible", "epochs", "dense", "sparse", "validate"}
Registered(b) == b \notin removed.rows
Noted == IF search.step \in Reading THEN [search EXCEPT !.moved = TRUE] ELSE search

NewRevision(b) ==
    /\ Registered(b) /\ changes < MaxChanges /\ changes' = changes + 1
    /\ current' = [current EXCEPT ![b] = @ + 1]
    /\ search' = IF search.step \in Reading
                 THEN [Noted EXCEPT !.seen = @ \cup {<<b, current'[b]>>}] ELSE search
    /\ UNCHANGED <<active, next, on, removed>>

\* A publication of the current revision under the next statistics epoch.
PublishB2(b) ==
    /\ next[b] = None /\ b \notin removed.points
    /\ changes < MaxChanges /\ changes' = changes + 1
    /\ next' = [next EXCEPT ![b] = [book |-> b, rev |-> current[b],
                                    epoch |-> active[b].epoch + 1]]
    /\ on' = on \cup {next'[b]}
    /\ search' = Noted
    /\ UNCHANGED <<current, active, removed>>

PublishB3(b) ==
    /\ next[b] # None /\ active[b] \in on
    /\ on' = on \ {active[b]}
    /\ search' = Noted
    /\ UNCHANGED <<current, active, next, removed, changes>>

PublishB4(b) ==
    /\ next[b] # None /\ active[b] \notin on
    /\ active' = [active EXCEPT ![b] = next[b]]
    /\ next' = [next EXCEPT ![b] = None]
    /\ search' = Noted
    /\ UNCHANGED <<current, on, removed, changes>>

\* A removal begins when no job runs, and none of the book is claimed until it is over.
RemovePoints(b) ==
    /\ b \notin removed.points /\ \A d \in Book : next[d] = None
    /\ changes < MaxChanges /\ changes' = changes + 1
    /\ removed' = [removed EXCEPT !.points = @ \cup {b}]
    /\ on' = {q \in on : q.book # b}
    /\ search' = Noted
    /\ UNCHANGED <<current, active, next>>

\* The rows, in one transaction; what current and active keep of the book is history.
RemoveRows(b) ==
    /\ b \in removed.points \ removed.rows
    /\ removed' = [removed EXCEPT !.rows = @ \cup {b}]
    /\ search' = Noted
    /\ UNCHANGED <<current, active, next, on, changes>>

RemoveOriginal(b) ==
    /\ b \in removed.rows \ removed.archive
    /\ removed' = [removed EXCEPT !.archive = @ \cup {b}]
    /\ UNCHANGED <<current, active, next, on, changes, search>>

Changes ==
    \E b \in Book : \/ NewRevision(b) \/ PublishB2(b) \/ PublishB3(b) \/ PublishB4(b)
                    \/ RemovePoints(b) \/ RemoveRows(b) \/ RemoveOriginal(b)

-----------------------------------------------------------------------------
(* What the index returns and how the lists are fused.                     *)

\* The best hits among the flagged points of some publications, with their places.
Hits(pubs, rank, limit) ==
    LET Rank(x) == rank[<<x[1].book, x[2]>>]
        points == {x \in (pubs \cap on) \X Chunk :
                      /\ <<x[1].book, x[2]>> \in DOMAIN rank
                      /\ search.only \in {None, x[1].book}}
        Place(x) == Cardinality({y \in points : Rank(y) <= Rank(x)})
    IN  {<<x[1], x[2], Place(x)>> : x \in {y \in points : Place(y) <= limit}}

Scale == 10000
IdOf(hit) == <<hit[1].book, hit[1].rev, hit[2]>>
\* _add: the scores of a chunk's hits add up, the first hit brings the payload.
Fused(found, hits) ==
    LET ids == {IdOf(h) : h \in hits}
        Gain(id) == Scale \div (RrfK + (CHOOSE h \in hits : IdOf(h) = id)[3])
    IN  [id \in DOMAIN found \cup ids |->
            IF id \notin ids THEN found[id]
            ELSE IF id \in DOMAIN found THEN [found[id] EXCEPT !.score = @ + Gain(id)]
            ELSE [pub |-> (CHOOSE h \in hits : IdOf(h) = id)[1], score |-> Gain(id)]]

\* By score; equal scores by chunk id, which is as good as any fixed order.
Ahead(found, x, y) ==
    \/ found[x].score > found[y].score
    \/ found[x].score = found[y].score /\ DenseRank[<<x[1], x[3]>>] < DenseRank[<<y[1], y[3]>>]
Best(found, ids) == CHOOSE x \in ids : \A y \in ids : ~Ahead(found, y, x)
Ranking(found, ids) ==
    LET best[k \in 0 .. Cardinality(ids)] ==
          IF k = 0 THEN <<>>
          ELSE LET before == best[k - 1]
               IN  Append(before, Best(found, ids \ Range(before)))
    IN  best[Cardinality(ids)]

\* The chunk is there, its revision is the active one, its publication visible.
IsEvidence(pub, visible) ==
    Registered(pub.book) /\ pub.rev = current[pub.book] /\ pub \in visible
\* _validate
Valid(found, visible) ==
    LET ids == {x \in DOMAIN found : IsEvidence(found[x].pub, visible)}
        order == Ranking(found, ids)
    IN  [k \in 1 .. Cardinality(ids) |-> [pub |-> found[order[k]].pub, chunk |-> order[k][3]]]

-----------------------------------------------------------------------------
(* _select: what fits the prompt.                                          *)

OfBook(s, b) == Cardinality({k \in DOMAIN s : s[k].pub.book = b})
Tokens(s) == FoldFunction(LAMBDA p, sum : Length[<<p.pub.book, p.chunk>>] + sum, 0, s)
Fits(s, p) == Tokens(s) + Length[<<p.pub.book, p.chunk>>] <= TokenBudget

\* The first pass: the passages that fit, and those put off for their book's cap.
Taken(pass, p) ==
    IF Len(pass.sel) >= MaxPassages \/ ~Fits(pass.sel, p) THEN pass
    ELSE IF search.only = None /\ OfBook(pass.sel, p.pub.book) >= MaxPerBook
         THEN [pass EXCEPT !.put = Append(@, p)]
    ELSE [pass EXCEPT !.sel = Append(@, p)]
FirstPass(ranked) ==
    LET pass[k \in 0 .. Len(ranked)] ==
          IF k = 0 THEN [sel |-> <<>>, put |-> <<>>] ELSE Taken(pass[k - 1], ranked[k])
    IN  pass[Len(ranked)]
Filled(first, max) ==
    LET fill[k \in 0 .. Len(first.put)] ==
          IF k = 0 THEN first.sel
          ELSE LET s == fill[k - 1]
               IN  IF Len(s) < max /\ Fits(s, first.put[k]) THEN Append(s, first.put[k]) ELSE s
    IN  fill[Len(first.put)]
\* The second pass ignores the cap, up to the minimum.
Selected(ranked) == Filled(FirstPass(ranked), MinPassages)
Reranked(ranked) == SubSeq(ranked, 1, IF Len(ranked) < RerankMax THEN Len(ranked) ELSE RerankMax)

-----------------------------------------------------------------------------
(* search()                                                                *)

Settled ==
    /\ \A b \in Book : next[b] = None /\ active[b].rev = current[b]
    /\ removed.points = removed.rows

\* The query is encoded, or the search degrades to the sparse side; it may be
\* restricted to one book.
Ask ==
    /\ search.step \in {"idle", "done"}
    /\ \E dense \in BOOLEAN, only \in Book \cup {None} :
          search' = [NoSearch EXCEPT !.step = "visible", !.dense = dense, !.only = only,
                                     !.moved = ~Settled,
                                     !.seen = {<<b, current[b]>> : b \in Book}]
    /\ UNCHANGED library

\* Wrong: the flags of the points instead of the rows.
SlipVisibleByFlag == on
\* visible_pub_ids
Visible == {active[b] : b \in {c \in Book : Registered(c)}}
\* search() returns.
Ended(passages) ==
    [NoSearch EXCEPT !.step = "done", !.passages = passages, !.only = search.only,
                     !.seen = search.seen]
ReadVisible ==
    /\ search.step = "visible"
    /\ search' = IF Visible = {} THEN Ended(<<>>)
                 ELSE [search EXCEPT !.step = "epochs", !.visible = Visible]

\* _stats_epochs, a query of its own
ReadEpochs ==
    /\ search.step = "epochs"
    /\ search' = IF Visible = {} THEN Ended(<<>>)
                 ELSE [search EXCEPT !.step = "dense", !.indexed = Visible]

\* Wrong: only the latest statistics.
SlipEpochsLatest(pubs) ==
    {e \in {q.epoch : q \in pubs} : \A q \in pubs : q.epoch <= e}
EpochsOf(pubs) == {q.epoch : q \in pubs}
DenseSearch ==
    /\ search.step = "dense"
    /\ LET hits == IF search.dense THEN Hits(search.visible, DenseRank, search.limit) ELSE {}
       IN  search' = [search EXCEPT !.step = "sparse", !.found = Fused(<<>>, hits),
                                    !.todo = EpochsOf(search.indexed)]

\* One search per statistics epoch, in the order of their ids.
SparseSearch ==
    /\ search.step = "sparse"
    /\ \E e \in search.todo :
          LET pubs == {q \in search.indexed : q.epoch = e}
          IN  /\ \A f \in search.todo : e <= f
              /\ search' = [search EXCEPT
                    !.found = Fused(@, Hits(pubs, SparseRank, search.limit)),
                    !.todo = @ \ {e},
                    !.step = IF search.todo = {e} THEN "validate" ELSE "sparse"]

\* The caps are reached, or the last round found nothing new.
Exhausted ==
    \/ search.limit >= TopupCap \/ search.rounds >= TopupRounds
    \/ search.before # None /\ DOMAIN search.found \subseteq search.before

\* Validation, then another round or the selection.
Validate ==
    /\ search.step = "validate"
    /\ LET valid == Valid(search.found, search.visible)
       IN  search' =
             IF Len(valid) < MinPassages /\ ~Exhausted
             THEN [search EXCEPT !.step = "dense", !.rounds = @ + 1,
                                 !.limit = IF 2 * @ < TopupCap THEN 2 * @ ELSE TopupCap,
                                 !.before = DOMAIN search.found]
             ELSE Ended(Selected(Reranked(valid)))

Searches ==
    /\ UNCHANGED library
    /\ ReadVisible \/ ReadEpochs \/ DenseSearch \/ SparseSearch \/ Validate

-----------------------------------------------------------------------------
(* Properties.                                                             *)

\* Every variable keeps its type.
SearchTypeOK ==
    /\ current \in [Book -> Version] /\ active \in [Book -> Pub]
    /\ next \in [Book -> Pub \cup {None}] /\ on \subseteq Pub /\ changes \in 0 .. MaxChanges
    /\ removed \in [points : SUBSET Book, rows : SUBSET Book, archive : SUBSET Book]
    /\ search.step \in Reading \cup {"idle", "done"} /\ search.only \in Book \cup {None}
    /\ search.visible \subseteq Pub /\ search.indexed \subseteq Pub
    /\ DOMAIN search.found \subseteq Id
    /\ \A p \in Range(search.passages) : p \in Passage
    /\ search.todo \subseteq Version /\ search.limit \in Top .. TopupCap
    /\ search.rounds \in 0 .. TopupRounds /\ search.seen \subseteq Book \X Version

\* Evidence is never obsolete: its revision was the active one at some moment since the
\* question was asked; never uncommitted: its publication was visible; and all the
\* evidence from a book comes from one publication of it.
EvidenceIsCommitted ==
    \A p, q \in Range(search.passages) :
        /\ <<p.pub.book, p.pub.rev>> \in search.seen
        /\ p.pub.epoch < active[p.pub.book].epoch \/ p.pub = active[p.pub.book]
        /\ p.pub.book = q.pub.book => p.pub = q.pub

\* While nothing is scanned, published or removed, a search that may ask for every point finds
\* every passage with a word of the question, however many statistics epochs the
\* publications are spread over.
NoneMissed ==
    search.step = "validate" /\ ~search.moved
       /\ search.limit >= Cardinality(Book) * Cardinality(Chunk) =>
    \A x \in DOMAIN SparseRank : x[1] \notin removed.points /\ search.only \in {None, x[1]} =>
        [pub |-> active[x[1]], chunk |-> x[2]] \in
            Range(Valid(search.found, search.visible))

=============================================================================
