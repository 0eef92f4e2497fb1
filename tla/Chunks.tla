------------------------------- MODULE Chunks -------------------------------
(***************************************************************************)
(* How the text of a chapter becomes the chunks of the search index        *)
(* (src/internal/rag/splitter.go) and how a search finds it again          *)
(* (src/internal/search/service.go), over the text that Edits changes.     *)
(*                                                                         *)
(* A piece of the text is the sequence of the positions of its characters, *)
(* from 1, with Joint for a newline put between two paragraphs.  Every     *)
(* character but blanks and newlines is a token, as in Chinese text.       *)
(***************************************************************************)
EXTENDS Edits

CONSTANTS
  Ends,         \* sentenceRunes: the characters a sentence ends with
  ChunkSizes,   \* tokens of a chunk: any of these (420)
  Overlaps,     \* characters repeated: any of these (50)
  PreviewLen,   \* BriefPreviewLen (280)
  Radius,       \* ContextRadius (15)
  ContentLimit, \* matches of a word that are shown (10)
  TopK,         \* chunks that are shown (8)
  Gram          \* characters the full text table needs to match (3, trigram)

ASSUME ChunksConstants ==
  /\ Ends \subseteq Letters \ Blanks
  /\ ChunkSizes \subseteq Nat \ {0} /\ Overlaps \subseteq Nat
  /\ {PreviewLen, Radius, ContentLimit, TopK, Gram} \subseteq Nat \ {0}

Joint == 0

-----------------------------------------------------------------------------
\* Pieces

Span(from, to) == [i \in 1 .. (IF to < from THEN 0 ELSE to - from + 1) |-> from + i - 1]

\* The full part of the piece from..to, without the blanks at its ends.
TrimSpan(t, from, to) ==
  LET full == {i \in from .. to : t[i] \notin Blanks \cup {NL}}
  IN IF full = {} THEN << >> ELSE Span(Min(full), Max(full))

\* The paragraphs that are not blank.
SplitParagraphs(t) ==
  LET cuts == SetToSortSeq({0, Len(t) + 1} \cup {i \in DOMAIN t : t[i] = NL}, <)
      parts == [i \in 1 .. Len(cuts) - 1 |-> TrimSpan(t, cuts[i] + 1, cuts[i + 1] - 1)]
  IN SelectSeq(parts, LAMBDA part : part # << >>)

\* A paragraph, cut after every character a sentence ends with.
SplitSentences(t, para) ==
  LET cuts == SetToSortSeq({0, Len(para)} \cup {i \in DOMAIN para : t[para[i]] \in Ends}, <)
  IN [i \in 1 .. Len(cuts) - 1 |-> SubSeq(para, cuts[i] + 1, cuts[i + 1])]

TailRunes(piece, n) ==
  IF Len(piece) <= n THEN piece ELSE SubSeq(piece, Len(piece) - n + 1, Len(piece))

TokenCount(t, piece) == Len(SelectSeq(piece, LAMBDA i : i # Joint /\ t[i] \notin Blanks))

-----------------------------------------------------------------------------
\* SplitText: `current' is the chunk being filled, of `len' tokens, `start' where it
\* begins in the text, `prev' the sentence before.

Filling(chunks, piece, len, start) ==
  [chunks |-> chunks, current |-> piece, len |-> len, start |-> start, prev |-> << >>]

Flush(f) ==
  IF f.current = << >> THEN f.chunks
  ELSE Append(f.chunks, [text |-> f.current, start |-> f.start])

\* Mutant: the start of a chunk is that of its sentence, whatever is put before it.
AddSentenceUnmoved(t, size, overlap, f, sentence) ==
  LET len    == TokenCount(t, sentence)
      prefix == TailRunes(f.prev, overlap)
      filled == IF f.len + len <= size /\ f.current = << >>
                THEN Filling(f.chunks, sentence, len, sentence[1])
                ELSE IF f.len + len <= size
                THEN [f EXCEPT !.current = @ \o sentence, !.len = @ + len]
                ELSE Filling(Flush(f), prefix \o sentence, len + TokenCount(t, prefix), sentence[1])
  IN [filled EXCEPT !.prev = sentence]

\* A sentence that does not fit begins a chunk, after the end of the one before it.  A
\* sentence is never cut.
AddSentence(t, size, overlap, f, sentence) ==
  LET len    == TokenCount(t, sentence)
      prefix == TailRunes(f.prev, overlap)
      filled == IF f.len + len <= size /\ f.current = << >>
                THEN Filling(f.chunks, sentence, len, sentence[1])
                ELSE IF f.len + len <= size
                THEN [f EXCEPT !.current = @ \o sentence, !.len = @ + len]
                ELSE Filling(Flush(f), prefix \o sentence, len + TokenCount(t, prefix),
                             sentence[1] - Len(prefix))
  IN [filled EXCEPT !.prev = sentence]

\* A paragraph is added to the chunk if there is room for it and a newline, begins the
\* next one, or is cut into sentences if it is larger than a chunk; what is left of it
\* may be followed by other paragraphs.
AddParagraph(t, size, overlap, f, para) ==
  LET len == TokenCount(t, para)
  IN CASE f.len + len + 1 <= size /\ f.current # << >> ->
            [f EXCEPT !.current = @ \o <<Joint>> \o para, !.len = @ + 1 + len]
       [] f.len + len + 1 <= size /\ f.current = << >> -> Filling(f.chunks, para, len, para[1])
       [] f.len + len + 1 > size /\ len <= size -> Filling(Flush(f), para, len, para[1])
       [] len > size ->
            FoldLeft(LAMBDA g, sentence : AddSentence(t, size, overlap, g, sentence),
                     Filling(Flush(f), << >>, 0, 0), SplitSentences(t, para))

\* The chunks and their rune positions, from 0: each repeats the end of what the one
\* before held without its own repetition, and begins so much earlier.
SplitText(t, size, overlap) ==
  LET filled == FoldLeft(LAMBDA f, para : AddParagraph(t, size, overlap, f, para),
                         Filling(<< >>, << >>, 0, 0), SplitParagraphs(t))
      chunks == Flush(filled)
      Prefix(i) == IF i = 1 THEN << >> ELSE TailRunes(chunks[i - 1].text, overlap)
  IN [i \in DOMAIN chunks |->
        [text |-> Prefix(i) \o chunks[i].text, position |-> chunks[i].start - 1 - Len(Prefix(i))]]

\* The summary and the beginning of the chapter are chunks too, at its first position.
BuildChapterChunks(t, summary, size, overlap) ==
  LET Chunk(type, index, piece, position) ==
        [type |-> type, index |-> index, text |-> piece, position |-> position]
      content == TrimSpan(t, 1, Len(t))
      chunks  == SplitText(t, size, overlap)
  IN (IF summary THEN <<Chunk("summary", 0, << >>, 0)>> ELSE << >>)
       \o <<Chunk("chapter_brief", 0, SubSeq(content, 1, Min({Len(content), PreviewLen})), 0)>>
       \o [i \in DOMAIN chunks |-> Chunk("content", i - 1, chunks[i].text, chunks[i].position)]

-----------------------------------------------------------------------------
\* Search in what was saved last

\* SearchAll: a word has no blanks around it.
Words == {word \in Searches : word # << >> /\ {word[1], Last(word)} \cap (Blanks \cup {NL}) = {}}

\* The places of a word, from the left, that do not overlap.
Occurrences(t, word) ==
  LET from[i \in 1 .. Len(t) + 1] ==
        IF i > Len(t) THEN << >>
        ELSE IF i \in Places(t, word) THEN <<i>> \o from[i + Len(word)] ELSE from[i + 1]
  IN from[1]

\* `radius' characters on both sides of a position.
RuneSlice(t, start, radius) ==
  LET first == IF start < radius THEN 0 ELSE start - radius
      last  == IF start + radius > Len(t) THEN Len(t) ELSE start + radius
  IN Span(first + 1, last)

\* What is shown before a match and after it, each cut around a position of its own: a
\* radius before the match, and its end.
BuildContext(t, place, word) ==
  [prefix |-> RuneSlice(t, place - 1 - Radius, Radius),
   suffix |-> RuneSlice(t, place - 1 + Len(word), Radius)]

SearchCache(t, word) ==
  LET found == Occurrences(t, word)
  IN [i \in 1 .. Min({Len(found), ContentLimit}) |->
        [position |-> found[i] - 1, context |-> BuildContext(t, found[i], word)]]

-----------------------------------------------------------------------------
\* Search in the index: the chunks that are near the word in meaning, in an order no
\* model can tell, and those that hold it.  The table of trigrams knows no shorter
\* words, such as most names.

Holds(t, chunk, word) ==
  Places([i \in DOMAIN chunk.text |-> IF chunk.text[i] = Joint THEN NL ELSE t[chunk.text[i]]],
         word) # {}

Rankings(chunks) ==
  {<< >>} \cup {<<c>> : c \in Range(chunks)}
    \cup {r \in Range(chunks) \X Range(chunks) : r[1] # r[2]}

FtsSearch(t, chunks, word) ==
  LET found == SelectSeq(chunks, LAMBDA c : Len(word) >= Gram /\ Holds(t, c, word))
  IN SubSeq(found, 1, Min({Len(found), 2 * TopK}))

\* mergeRRF: the TopK places of best rank in either list, each with the chunk that was
\* first there, the vector's before the word's; in which order places of one rank come
\* is open.
MergeRRF(vec, fts) ==
  LET places == {c.position : c \in Range(vec) \cup Range(fts)}
      First(list, p) == SelectInSeq(list, LAMBDA c : c.position = p)
      Rank(p) == Min({First(vec, p), First(fts, p)} \ {0})
      Best(p) == IF First(vec, p) = Rank(p) THEN vec[Rank(p)] ELSE fts[Rank(p)]
  IN {{Best(p) : p \in kept} :
        kept \in {k \in SUBSET places :
                    /\ Cardinality(k) = Min({Cardinality(places), TopK})
                    /\ \A p \in k, q \in places \ k : Rank(p) <= Rank(q)}}

SearchVectorRRF(t, chunks, word) ==
  UNION {MergeRRF(vec, FtsSearch(t, chunks, word)) : vec \in Rankings(chunks)}

-----------------------------------------------------------------------------
\* Properties

\* What chunk k holds that no chunk before it holds.
Own(chunks, k) ==
  SelectSeq(chunks[k].text,
            LAMBDA i : i # Joint /\ \A j \in 1 .. k - 1 : i \notin Range(chunks[j].text))

Repeated(chunks, k) ==
  IF k = 1 THEN 0 ELSE SelectInSeq(chunks[k].text, LAMBDA i : i = Own(chunks, k)[1]) - 1

\* Every character is in a chunk, the chunks bring them in the order of the text, and the
\* position of a chunk is where its own text begins, less what it repeats before that.
Whole(t, chunks) ==
  /\ \A i \in DOMAIN t :
       t[i] \notin Blanks \cup {NL} => \E k \in DOMAIN chunks : i \in Range(chunks[k].text)
  /\ \A k \in DOMAIN chunks :
       /\ Own(chunks, k) # << >>
       /\ chunks[k].position + Repeated(chunks, k) = Own(chunks, k)[1] - 1
       /\ \A j \in 1 .. k - 1 : \A i \in Range(chunks[j].text) : i < Own(chunks, k)[1]

\* Positions are in the text and go forward.  Exempt is a chunk that begins in the
\* middle of a paragraph after one that brought no more than twice the overlap: a short
\* sentence before one that does not fit with it.  What is repeated is moved back for
\* twice (:91, :117), and the chunk may begin before the last one, or before the text,
\* where splitter_test.go:28-36 expects neither.
Ordered(t, chunks, overlap) ==
  \A k \in 2 .. Len(chunks) :
    \/ chunks[k - 1].position < chunks[k].position /\ chunks[k].position >= 0
    \/ /\ Len(Own(chunks, k - 1)) <= 2 * overlap
       /\ \E para \in Range(SplitParagraphs(t)) : Own(chunks, k)[1] \in Range(Tail(para))

\* Two sentences that follow each other are not torn apart: a passage from one into the
\* next, with no more than `overlap' characters of the first, stands in a chunk.
Unbroken(t, chunks, overlap) ==
  \A para \in Range(SplitParagraphs(t)) :
    LET sentences == SplitSentences(t, para)
    IN \A s \in 1 .. Len(sentences) - 1 :
         LET passage == TailRunes(sentences[s], overlap) \o sentences[s + 1]
         IN \E k \in DOMAIN chunks : Places(chunks[k].text, passage) # {}

\* A chunk may be larger than its size by what it repeats, twice, or by a sentence.
Bounded(t, chunks, size, overlap) ==
  LET longest == Max({0} \cup {TokenCount(t, sentence) :
                    sentence \in UNION {Range(SplitSentences(t, para)) :
                                          para \in Range(SplitParagraphs(t))}})
  IN \A k \in DOMAIN chunks :
       TokenCount(t, chunks[k].text) <= Max({size, overlap + longest}) + overlap

\* A word of one sentence is found in its place: in what was saved last, under the
\* position of each match, and, if it is not too short, in the index, whatever chunks are
\* near it in meaning, by a chunk that holds it or one that begins at the same place.
Found(t, chunks, word) ==
  LET cached == SearchCache(t, word)
  IN /\ \A i \in Places(t, word) :
          \/ Len(cached) = ContentLimit
          \/ \E m \in DOMAIN cached : cached[m].position + 1 \in i - Len(word) + 1 .. i
     /\ \A m \in DOMAIN cached : cached[m].position + 1 \in Places(t, word)
     /\ /\ Len(word) >= Gram
        /\ \E para \in Range(SplitParagraphs(t)) : \E s \in Range(SplitSentences(t, para)) :
             Places([i \in DOMAIN s |-> t[s[i]]], word) # {}
        => \A shown \in SearchVectorRRF(t, chunks, word) :
             \E c \in shown, d \in Range(chunks) : Holds(t, d, word) /\ c.position = d.position

\* Whatever edits a chapter has been through, its index is true: no text is lost between
\* chunks, none is torn at a sentence's end, no chunk is much too large, positions go
\* forward through the text, but for the exempt ones, and a word is found
\* (src/internal/rag/splitter.go:20, src/internal/search/service.go:164, :242).
IndexTrue ==
  call = NoCall =>
    \A size \in ChunkSizes, overlap \in Overlaps :
      LET pieces == SplitText(text, size, overlap)
      IN /\ Whole(text, pieces)
         /\ Ordered(text, pieces, overlap)
         /\ overlap > 0 => Unbroken(text, pieces, overlap)
         /\ Bounded(text, pieces, size, overlap)
         /\ \A summary \in BOOLEAN, word \in Words :
              Found(text, BuildChapterChunks(text, summary, size, overlap), word)
=============================================================================
