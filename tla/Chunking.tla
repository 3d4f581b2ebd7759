------------------------------ MODULE Chunking ------------------------------
(***************************************************************************)
(* What the workers make of a document between two awaits: the sections    *)
(* the parser finds (ingestion/workers/pdf_worker.py) and the chunks the   *)
(* chunker of its type cuts (ingestion/chunking/).                         *)
(*                                                                         *)
(* A document is a sequence of elements: sentences, titles, tables, blank  *)
(* space and what the parser drops.  The tokens of a text are those of its *)
(* elements, one after the other; separators and labels ("Title: ") count  *)
(* for nothing.                                                            *)
(*                                                                         *)
(* A definition named ...Mutant is a plausible bug of the definition that  *)
(* follows it; no specification uses it.                                   *)
(***************************************************************************)
EXTENDS Lists, SequencesExt

CONSTANTS
    FixedSize,      \* CHUNK_FIXED_SIZE_TOKENS
    FixedOverlap,   \* CHUNK_FIXED_OVERLAP_TOKENS
    ParentTokens,   \* CHUNK_HIER_PARENT_TOKENS
    ChildTokens,    \* CHUNK_HIER_CHILD_TOKENS
    LeastOverlap,   \* the least overlap of children, 30 in the code
    PreviewTokens,  \* tokens of the text in a summary, 200 in the code
    ListedSections, \* sections whose titles a summary lists, 10 in the code
    MaxTokens       \* CHUNK_SEMANTIC_MAX_TOKENS

Kinds == {"sentence", "title", "table", "blank", "dropped"}

\* shift: the next sentence is about something else.
Element == [kind : Kinds, size : Nat \ {0}, shift : BOOLEAN]

Token == [of : Nat, nth : Nat, blank : BOOLEAN]

\* The elements from one position to another that are of the given kinds.
Pick(s, from, to, kinds) ==
    Ascending({e \in from..to : s[e].kind \in kinds})

Tokens(s, parts) ==
    FlattenSeq([i \in DOMAIN parts |->
        [k \in 1..s[parts[i]].size |->
            [of |-> parts[i], nth |-> k, blank |-> s[parts[i]].kind = "blank"]]])

Blank(t) == \A i \in DOMAIN t : t[i].blank

-----------------------------------------------------------------------------
(* Parsing: raw_text and, in a PDF, the sections its titles begin. *)

\* Mutant: the section a document ends with is forgotten.
SectionEndsMutant(s, titles) ==
    [n \in 1..(Len(titles) - 1) |-> titles[n + 1] - 1]

\* A section is added when the next title comes, and after the last element.
SectionEnds(s, titles) ==
    [n \in 1..Len(titles) |-> IF n < Len(titles) THEN titles[n + 1] - 1 ELSE Len(s)]

\* Tables go to the text, not to a section; a title is part of its content too.
Sections(s) ==
    LET titles == Pick(s, 1, Len(s), {"title"})
        ends == SectionEnds(s, titles)
    IN  [n \in DOMAIN ends |->
            [title |-> Tokens(s, <<titles[n]>>),
             content |-> Tokens(s, Pick(s, titles[n], ends[n], {"title", "sentence"}))]]

Parsed(s, type) ==
    IF type = "pdf"
    THEN [parts |-> Pick(s, 1, Len(s), {"title", "sentence", "table"}), sections |-> Sections(s)]
    ELSE [parts |-> Pick(s, 1, Len(s), Kinds \ {"dropped"}), sections |-> <<>>]

-----------------------------------------------------------------------------
(* Sliding windows over tokens. *)

\* while start < len(tokens): ... start += size - overlap
Starts(n, step) == [k \in 1..((n + step - 1) \div step) |-> (k - 1) * step]

\* Mutant: the overlap is skipped, not repeated.
StepMutant(size, overlap) == size + overlap

Step(size, overlap) == size - overlap

Windows(t, size, overlap) ==
    LET starts == Starts(Len(t), Step(size, overlap))
        cut == [k \in DOMAIN starts |->
                    SubSeq(t, starts[k] + 1, Least(starts[k] + size, Len(t)))]
    IN  Take(cut, {k \in DOMAIN cut : ~Blank(cut[k])})

Chunk(level, parent, t) == [level |-> level, parent |-> parent, tokens |-> t]

Flat(texts) == [i \in DOMAIN texts |-> Chunk(0, 0, texts[i])]

-----------------------------------------------------------------------------
(* The three chunkers. *)

FixedChunks(s, doc) == Flat(Windows(Tokens(s, doc.parts), FixedSize, FixedOverlap))

ChildOverlap == IF ChildTokens \div 10 > LeastOverlap THEN ChildTokens \div 10 ELSE LeastOverlap

\* "Section n"
InferredTitle(n) == <<[of |-> 0, nth |-> n, blank |-> FALSE]>>

InferredSections(t) ==
    LET starts == Starts(Len(t), ParentTokens)
    IN  [n \in DOMAIN starts |->
            [title |-> InferredTitle(n),
             content |-> SubSeq(t, starts[n] + 1, Least(starts[n] + ParentTokens, Len(t)))]]

SectionsOf(s, doc) ==
    IF doc.sections # <<>> THEN doc.sections ELSE InferredSections(Tokens(s, doc.parts))

\* Mutant: the children of a section hang on the one before them.
ParentMutant(chunks, section) == Len(chunks)

\* The position of the chunk of the section, which is about to be appended.
Parent(chunks, section) == Len(chunks) + 1

\* The chunk of a section, cut to its size, and the children of that section.
WithSection(chunks, section) ==
    LET children == Windows(section.content, ChildTokens, ChildOverlap)
    IN  Append(chunks, Chunk(1, 1, First(section.title \o section.content, ParentTokens)))
        \o [i \in DOMAIN children |-> Chunk(2, Parent(chunks, section), children[i])]

\* What stands above the preview: the title, of a PDF or a text only an upload
\* has one, and the titles of the first sections.
Header(doc, title) ==
    title \o FlattenSeq([n \in DOMAIN First(doc.sections, ListedSections) |->
                            doc.sections[n].title])

\* _summarize_document(): the preview is cut to its size, the summary is not.
Summary(s, doc, title) == Header(doc, title) \o First(Tokens(s, doc.parts), PreviewTokens)

HierarchicalChunks(s, doc, title) ==
    FoldLeft(WithSection, <<Chunk(0, 0, Summary(s, doc, title))>>, SectionsOf(s, doc))

Sentences(s, doc) == Take(doc.parts, {i \in DOMAIN doc.parts : s[doc.parts[i]].kind # "blank"})

\* _build_segments(): sentences up to a shift of the topic, or to the end.
Segments(s, sentences) ==
    LET ends == Ascending({i \in DOMAIN sentences :
                              i = Len(sentences) \/ s[sentences[i]].shift})
    IN  [n \in DOMAIN ends |->
            Tokens(s, SubSeq(sentences, IF n = 1 THEN 1 ELSE ends[n - 1] + 1, ends[n]))]

\* Mutant: a segment is added to what is buffered, however long both are.
FlushMutant(m, segment) == FALSE

Flush(m, segment) == Len(m.buffer) + Len(segment) > MaxTokens /\ m.buffer # <<>>

\* _merge_segments(): only a segment that meets an empty buffer is cut to size.
\* min_tokens has no effect.
WithSegment(m, segment) ==
    IF Flush(m, segment)
    THEN [merged |-> Append(m.merged, m.buffer), buffer |-> segment]
    ELSE IF m.buffer = <<>> /\ Len(segment) > MaxTokens
    THEN [m EXCEPT !.merged = @ \o Windows(segment, MaxTokens, 0)]
    ELSE [m EXCEPT !.buffer = @ \o segment]

SemanticChunks(s, doc) ==
    LET sentences == Sentences(s, doc)
        m == FoldLeft(WithSegment, [merged |-> <<>>, buffer |-> <<>>], Segments(s, sentences))
    IN  IF Len(sentences) < 2 THEN Flat(<<Tokens(s, doc.parts)>>)
        ELSE Flat(IF m.buffer = <<>> THEN m.merged ELSE Append(m.merged, m.buffer))

Strategy(type) ==
    CASE type \in {"pdf", "docx"} -> "hierarchical"
      [] type \in {"html", "markdown"} -> "semantic"
      [] OTHER -> "fixed"

\* No chunker makes anything of a blank text.
Chunked(s, type, title) ==
    LET doc == Parsed(s, type)
    IN  IF Blank(Tokens(s, doc.parts)) THEN <<>>
        ELSE CASE Strategy(type) = "hierarchical" -> HierarchicalChunks(s, doc, title)
               [] Strategy(type) = "semantic" -> SemanticChunks(s, doc)
               [] OTHER -> FixedChunks(s, doc)
=============================================================================
