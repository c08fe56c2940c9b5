------------------------------- MODULE Splitter -------------------------------
(***************************************************************************)
(* From a page of text to the rows of document_chunks: the greedy split    *)
(* into chunks that keeps paragraphs whole where they fit and cuts them    *)
(* with an overlap where they do not, the embedding of the chunks batch by *)
(* batch with its retries, and the rows that pair the two.                 *)
(*                                                                         *)
(* A paragraph is what it is to the split: so many characters, and which   *)
(* of them are white.  The characters of a text keep their identity, as    *)
(* the pair of their paragraph and their place in it.                      *)
(***************************************************************************)
EXTENDS Naturals, Sequences, FiniteSets

CONSTANTS
    Size,           \* CHUNK_SIZE_CHARS
    Overlap,        \* CHUNK_OVERLAP_CHARS
    Paragraph,      \* paragraphs of a text, stripped: TRUE for ink
    BatchSize,      \* EMBEDDING_BATCH_SIZE
    MaxAttempts,    \* MAX_EMBEDDING_ATTEMPTS
    MaxParagraphs,  \* bound: paragraphs of a document
    MaxPages        \* bound: pages

ASSUME SplitterAssumption ==
    /\ Size \in Nat /\ Overlap \in Nat /\ Overlap < Size
    /\ Paragraph \subseteq Seq(BOOLEAN)
    /\ \A p \in Paragraph : Len(p) > 0 /\ p[1] /\ p[Len(p)]
    /\ BatchSize \in Nat \ {0} /\ MaxAttempts \in Nat \ {0}
    /\ MaxParagraphs \in Nat /\ MaxPages \in Nat

VARIABLES
    text,      \* the paragraphs split so far, each with its page
    page,      \* the page being split
    current,   \* the chunk being filled
    chunks,    \* the chunks emitted, each with its page_no
    vectors,   \* the texts that have been embedded, in order
    attempt,   \* attempts at the current batch
    rows       \* the document's rows, none before it is ready

splitVars == <<text, page, current, chunks, vectors, attempt, rows>>

Blank == <<0, 0>>
Written(k, p) == [i \in 1..Len(p) |-> IF p[i] THEN <<k, i>> ELSE Blank]

Smaller(a, b) == IF a < b THEN a ELSE b

-------------------------------------------------------------------------------

\* lstrip and strip.
Ink(s)     == {i \in 1..Len(s) : s[i] # Blank}
LeftStrip(s) ==
    IF Ink(s) = {} THEN <<>>
    ELSE SubSeq(s, CHOOSE i \in Ink(s) : \A j \in Ink(s) : i <= j, Len(s))
Strip(s) ==
    IF Ink(s) = {} THEN <<>>
    ELSE SubSeq(s, CHOOSE i \in Ink(s) : \A j \in Ink(s) : i <= j,
                   CHOOSE i \in Ink(s) : \A j \in Ink(s) : j <= i)

\* The last n of a string: s[-n:], which is all of it for n = 0.
LastOf(s, n) == IF n = 0 \/ n > Len(s) THEN s ELSE SubSeq(s, Len(s) - n + 1, Len(s))

Joined(s, t) == s \o <<Blank, Blank>> \o t

\* Mistakes the code could have made in the definitions below.
StepOfSize == Size
JoinedUncounted(s, p) == Len(s) + Len(p) <= Size

\* _hard_split: windows of the chunk size, a step apart, but for the blank ones.
Step == Size - Overlap
Window(s, n) == SubSeq(s, (n - 1) * Step + 1, Smaller((n - 1) * Step + Size, Len(s)))
Kept(s) == {n \in 1..((Len(s) + Step - 1) \div Step) : Strip(Window(s, n)) # <<>>}
HardSplit(s) ==
    LET nth(m) == CHOOSE n \in Kept(s) : Cardinality({k \in Kept(s) : k < n}) = m - 1
    IN  [m \in 1..Cardinality(Kept(s)) |-> Strip(Window(s, nth(m)))]

\* Is there room in a chunk for s, a blank line and p?
Fits(s, p) == Len(s) + 2 + Len(p) <= Size

OnPage(pieces) == [n \in 1..Len(pieces) |-> [text |-> pieces[n], page_no |-> page]]
Flushed == IF current = <<>> THEN <<>> ELSE <<current>>

Reads(p) ==
    /\ page <= MaxPages /\ Len(text) < MaxParagraphs
    /\ text' = Append(text, [words |-> Written(Len(text) + 1, p), page_no |-> page])
    /\ UNCHANGED <<page, vectors, attempt, rows>>

\* A paragraph longer than a chunk: what was being filled goes out, and the
\* paragraph in windows.
TakeLong(p) ==
    /\ Len(p) > Size
    /\ Reads(p)
    /\ chunks' = chunks \o OnPage(Flushed \o HardSplit(Written(Len(text) + 1, p)))
    /\ current' = <<>>

\* One that still fits.
TakeFitting(p) ==
    /\ Len(p) <= Size
    /\ current = <<>> \/ Fits(current, p)
    /\ Reads(p)
    /\ LET words == Written(Len(text) + 1, p) IN
       current' = IF current = <<>> THEN words ELSE Joined(current, words)
    /\ UNCHANGED chunks

\* One that does not: the chunk goes out, and its tail is carried over into
\* the next, if that leaves room for the whole paragraph.
TakeNext(p) ==
    /\ Len(p) <= Size
    /\ current # <<>> /\ ~Fits(current, p)
    /\ Reads(p)
    /\ chunks' = chunks \o OnPage(Flushed)
    /\ LET words == Written(Len(text) + 1, p)
           tail  == LeftStrip(LastOf(current, Overlap))
       IN  current' = IF Fits(tail, p) THEN Joined(tail, words) ELSE words

\* split_pages: no chunk goes on into the next page.
EndPage ==
    /\ page <= MaxPages
    /\ chunks' = chunks \o OnPage(Flushed)
    /\ current' = <<>>
    /\ page' = page + 1
    /\ UNCHANGED <<text, vectors, attempt, rows>>

-------------------------------------------------------------------------------

\* The batches of embed_documents: the texts not embedded yet, cut to size.
Batch == SubSeq(chunks, Len(vectors) + 1, Smaller(Len(vectors) + BatchSize, Len(chunks)))

Embedding == page > MaxPages /\ rows = <<>> /\ Len(vectors) < Len(chunks)

EmbedBatch ==
    /\ Embedding /\ attempt <= MaxAttempts
    /\ vectors' = vectors \o [n \in 1..Len(Batch) |-> Batch[n].text]
    /\ attempt' = 1
    /\ UNCHANGED <<text, page, current, chunks, rows>>

\* The provider is busy; after the last attempt, or an error that no retry
\* will mend, the exception ends the ingestion.
ProviderBusy ==
    /\ Embedding /\ attempt <= MaxAttempts
    /\ attempt' \in {attempt + 1, MaxAttempts + 1}
    /\ UNCHANGED <<text, page, current, chunks, vectors, rows>>

\* The rows pair chunks and vectors by position, all of them or an error.  A
\* document without a chunk has no text and fails.
StoreRows ==
    /\ page > MaxPages /\ rows = <<>>
    /\ chunks # <<>> /\ Len(vectors) = Len(chunks)
    /\ rows' = [n \in 1..Len(chunks) |-> [text |-> chunks[n].text, page_no |-> chunks[n].page_no,
                                          embedding |-> vectors[n]]]
    /\ UNCHANGED <<text, page, current, chunks, vectors, attempt>>

SplitInit ==
    /\ text = <<>> /\ page = 1 /\ current = <<>> /\ chunks = <<>>
    /\ vectors = <<>> /\ attempt = 1 /\ rows = <<>>

SplitNext ==
    \/ \E p \in Paragraph : TakeLong(p) \/ TakeFitting(p) \/ TakeNext(p)
    \/ EndPage \/ EmbedBatch \/ ProviderBusy \/ StoreRows

SplitSpec == SplitInit /\ [][SplitNext]_splitVars

-------------------------------------------------------------------------------

\* No chunk is longer than a chunk may be, the carried tail and the blank
\* lines between its paragraphs included.
WithinSize ==
    /\ Len(current) <= Size
    /\ \A n \in 1..Len(chunks) : Len(chunks[n].text) <= Size

\* What a reader can look for in a text: a run of characters of one paragraph,
\* no longer than the overlap and one more.
Runs(words) ==
    {SubSeq(words, i, j) : i \in Ink(words), j \in Ink(words)} \cap
    {SubSeq(words, i, Smaller(i + n, Len(words))) : i \in Ink(words), n \in 0..Overlap}

Contains(s, t) == \E i \in 0..(Len(s) - Len(t)) : SubSeq(s, i + 1, i + Len(t)) = t

\* Once a document is ready, every such run is in one piece in some row, under
\* the page it stands on and with the vector of that row's own text: no cut of
\* the splitter and no batch of the embedder loses it.
Findable ==
    rows # <<>> =>
        \A k \in 1..Len(text) : \A run \in Runs(text[k].words) :
            \E n \in 1..Len(rows) : /\ Contains(rows[n].text, run)
                                    /\ rows[n].embedding = rows[n].text
                                    /\ rows[n].page_no = text[k].page_no

-------------------------------------------------------------------------------

\* The inductive invariant behind WithinSize: what the split reads and writes are
\* characters, page by page.
Character == Nat \X Nat
Piece == {s \in Seq(Character) : Len(s) <= Size}

SplitInv ==
    /\ text \in Seq([words : Seq(Character), page_no : Nat]) /\ page \in Nat
    /\ current \in Piece
    /\ chunks \in Seq([text : Piece, page_no : Nat])

\* And the one behind Findable: what has been read is in a chunk of its page or
\* in the one being filled, and vectors and rows follow the chunks.
Chunked(run, p) ==
    \E n \in 1..Len(chunks) : chunks[n].page_no = p /\ Contains(chunks[n].text, run)

PlacedInv ==
    /\ \A k \in 1..Len(text) : \A run \in Runs(text[k].words) :
        \/ Chunked(run, text[k].page_no)
        \/ text[k].page_no = page /\ Contains(current, run)
    /\ page > MaxPages => current = <<>>

RowsInv ==
    /\ vectors \in Seq(Piece) /\ Len(vectors) <= Len(chunks)
    /\ \A n \in 1..Len(vectors) : vectors[n] = chunks[n].text
    /\ rows # <<>> =>
        /\ page > MaxPages /\ Len(vectors) = Len(chunks)
        /\ rows = [n \in 1..Len(chunks) |-> [text |-> chunks[n].text, page_no |-> chunks[n].page_no,
                                             embedding |-> vectors[n]]]
================================================================================
