------------------------------ MODULE Chunker ------------------------------
(* How one document becomes chunks: the reader that turns a source into     *)
(* text, the split into sections along headings or paragraphs, and the cut  *)
(* of oversized sections by meaning or into windows (src/ingest/reader.rs,   *)
(* url.rs, chunker.rs, chunker_sections.rs, chunker_semantic.rs).            *)
(*                                                                         *)
(* A text is a sequence of fragments, the pieces between punctuation marks. *)
(* Of a fragment the model keeps an identity, its size with the separator   *)
(* behind it, whether the filter's patterns name it (noise), whether it      *)
(* begins like a sentence (capital), ends in an abbreviation (abbreviated)  *)
(* or comes first after a blank line (opens).                              *)
EXTENDS Naturals, FiniteSets, Sequences, SequencesExt

CONSTANTS
  Calls,            \* the documents and settings chunk_document is called with
  MaxChunkChars,    \* MAX_CHUNK_CHARS, the limit of markdown and web pages
  WindowSize,       \* TEXT_WINDOW_SIZE, the limit of any other text
  Overlap,          \* TEXT_WINDOW_OVERLAP
  MinLength,        \* MIN_SENTENCE_LENGTH
  MaxLength,        \* MAX_SENTENCE_LENGTH
  Percentile,       \* the semantic threshold, in hundredths
  Scores            \* the similarities two neighbouring windows may have

GroupSize == 3      \* SENTENCE_GROUP_SIZE

Types == {"markdown", "url", "text", "pdf", "docx", "csv", "json"}

Fragment == [id: Nat, size: Nat \ {0}, noise: BOOLEAN, capital: BOOLEAN,
             abbreviated: BOOLEAN, opens: BOOLEAN]
Block == [level: 0..6, text: Seq(Fragment)]

\* The identity of a fragment is its place in the source.
InOrder(text) == \A i, j \in DOMAIN text : i < j => text[i].id < text[j].id

\* chunk_document runs under a semantic strategy or a fixed one.  The
\* configuration accepts any limit of sentences, 0 as well.
ASSUME CallsAssumption ==
  \A c \in Calls : /\ c.type \in Types
                   /\ c.blocks \in Seq(Block)
                   /\ InOrder(FlattenSeq([i \in DOMAIN c.blocks |-> c.blocks[i].text]))
                   /\ c.strategy \in {"fixed", "semantic"}
                   /\ c.filter \in BOOLEAN
                   /\ c.provider \in {"openai", "ollama"}
                   /\ c.max_sentences \in Nat
ASSUME SizesAssumption ==
  /\ MaxChunkChars \in Nat \ {0}
  /\ WindowSize \in Nat \ {0}
  /\ Overlap \in Nat
  /\ MinLength \in Nat
  /\ MaxLength \in Nat
  /\ Percentile \in 0..100
  /\ Scores \subseteq Nat

VARIABLES
  call,       \* the document and the settings of this call
  phase,      \* where the call is
  block,      \* the next block of the text
  title,      \* the heading whose section is read, 0 before the first
  buffer,     \* current_body or buf: the section read so far
  sections,   \* the sections still to be cut
  sentences,  \* the sentences of the section being cut by meaning
  breaks,     \* break_sentence_indices
  pos,        \* how many of the sentences are in a group
  window,     \* the text being cut into windows
  offset,     \* where in that text the next window begins
  chunks      \* the chunks, whose chunk_index is their place

vars == <<call, phase, block, title, buffer, sections, sentences, breaks, pos, window, offset, chunks>>
reading == <<block, title, buffer>>
cutting == <<sentences, breaks, pos, window, offset>>

----------------------------------------------------------------------------
\* Texts.

Smaller(m, n) == IF m <= n THEN m ELSE n
Larger(m, n) == IF m >= n THEN m ELSE n

Length(text) ==
  LET upto[n \in 0..Len(text)] == IF n = 0 THEN 0 ELSE upto[n - 1] + text[n].size
  IN  upto[Len(text)]

\* The members of seq at the places in I.
Chosen(seq, I) == FlattenSeq([i \in DOMAIN seq |-> IF i \in I THEN <<seq[i]>> ELSE <<>>])

\* What the filter takes for content: neither too short nor too long, no
\* boilerplate, not mostly signs.
Content(text) ==
  /\ Length(text) \in MinLength..MaxLength
  /\ \A i \in DOMAIN text : ~text[i].noise

\* The fragments of a section that pass, or all of them without the filter.
Filtered(text) ==
  IF call.filter THEN Chosen(text, {i \in DOMAIN text : Content(<<text[i]>>)}) ELSE text

\* A boundary is a mark that ends no abbreviation, one blank and a capital: a
\* blank line hides it, unless the filter has joined the fragments anew.
Starts(text) ==
  {i \in DOMAIN text :
     \/ i = 1
     \/ /\ text[i].capital
        /\ ~text[i-1].abbreviated
        /\ text[i].opens => call.filter \/ call.type \in {"docx", "csv"}}

\* The last fragment of the sentence that fragment n is of.
EndOfSentence(text, n) ==
  CHOOSE m \in n..Len(text) :
    /\ (n + 1)..m \cap Starts(text) = {}
    /\ m < Len(text) => m + 1 \in Starts(text)

Sentences(text) ==
  Chosen([n \in DOMAIN text |-> SubSeq(text, n, EndOfSentence(text, n))], Starts(text))

ContentSentences(all) ==
  IF call.filter THEN Chosen(all, {k \in DOMAIN all : Content(all[k])}) ELSE all

\* What the readers make of the blocks of a source: docx and the rows of a
\* csv are joined by line ends, which separate no paragraphs.
Paragraphs ==
  LET texts == [i \in DOMAIN call.blocks |-> call.blocks[i].text]
  IN  CASE call.type = "docx" -> <<FlattenSeq(texts)>>
        [] call.type = "csv" /\ texts # <<>> -> <<Head(texts), FlattenSeq(Tail(texts))>>
        [] OTHER -> texts

Structured == call.type \in {"markdown", "url"}
Limit == IF Structured THEN MaxChunkChars ELSE WindowSize
Blocks == IF Structured THEN call.blocks
          ELSE [i \in DOMAIN Paragraphs |-> [level |-> 0, text |-> Paragraphs[i]]]

----------------------------------------------------------------------------
\* The breakpoints between windows of sentences.

\* The similarity at the percentile, counted from the least: k of them are
\* not above it, where the code's index is one less than k.
Threshold(similarity) ==
  LET n == Len(similarity)
      k == Smaller((n * Percentile + 99) \div 100 + 1, n)
  IN  CHOOSE s \in Range(similarity) :
        /\ Cardinality({i \in 1..n : similarity[i] < s}) < k
        /\ Cardinality({i \in 1..n : similarity[i] <= s}) >= k

Distance(m, n) == IF m <= n THEN n - m ELSE m - n

\* A break, unless one is near.
Spaced(found, b) == found \cup {x \in {b} : \A c \in found : Distance(x, c) >= GroupSize}

Forced(found, similarity) ==
  LET interval == IF call.max_sentences > GroupSize THEN call.max_sentences - GroupSize ELSE 0
      upto[k \in 0..Len(similarity)] == IF k = 0 THEN found ELSE Spaced(upto[k - 1], k * interval)
  IN  IF interval = 0 THEN found ELSE upto[(Len(similarity) - 1) \div interval]

SemanticBreakpoints(similarity) ==
  LET least == Threshold(similarity)
  IN  {i - 1 : i \in {j \in DOMAIN similarity : similarity[j] <= least}}

Breakpoints(similarity) == Forced(SemanticBreakpoints(similarity), similarity)

----------------------------------------------------------------------------

Init ==
  /\ call \in Calls
  /\ phase = IF call.type = "url" THEN "robots" ELSE "file"
  /\ block = 1
  /\ title = 0
  /\ buffer = <<>>
  /\ sections = <<>>
  /\ sentences = <<>>
  /\ breaks = {}
  /\ pos = 0
  /\ window = <<>>
  /\ offset = 0
  /\ chunks = <<>>

\* A read, a download or an embedding that fails ends the call with its error.
Fails ==
  /\ phase \in {"file", "robots", "page", "embed"}
  /\ phase' = "failed"
  /\ UNCHANGED <<call, reading, sections, cutting, chunks>>

\* robots.txt is absent or allows the page; anything else fails.
EnforceRobots ==
  /\ phase = "robots"
  /\ phase' = "page"
  /\ UNCHANGED <<call, reading, sections, cutting, chunks>>

\* A file may hold no text.
ReadFile ==
  /\ phase = "file"
  /\ phase' = "sections"
  /\ UNCHANGED <<call, reading, sections, cutting, chunks>>

\* A page that yields no text is an error.
ReadPage ==
  /\ phase = "page"
  /\ \E i \in DOMAIN Blocks : Blocks[i].text # <<>>
  /\ phase' = "sections"
  /\ UNCHANGED <<call, reading, sections, cutting, chunks>>

----------------------------------------------------------------------------
\* Sections.

Nonblank(text) == text # <<>>

\* A heading of the first three levels ends the section before it, unless
\* that has neither text nor title.
ReadHeading ==
  /\ phase = "sections"
  /\ Structured
  /\ block <= Len(Blocks)
  /\ Blocks[block].level \in 1..3
  /\ sections' = IF Nonblank(buffer) \/ title # 0
                 THEN Append(sections, [title |-> title, text |-> buffer]) ELSE sections
  /\ title' = block
  /\ buffer' = <<>>
  /\ block' = block + 1
  /\ UNCHANGED <<call, phase, cutting, chunks>>

\* Any other block of a structured text, deeper headings too, is body.
ReadBody ==
  /\ phase = "sections"
  /\ Structured
  /\ block <= Len(Blocks)
  /\ Blocks[block].level \notin 1..3
  /\ buffer' = buffer \o Blocks[block].text
  /\ block' = block + 1
  /\ UNCHANGED <<call, phase, title, sections, cutting, chunks>>

\* A paragraph joins those before it while they fit the window together.
ReadParagraph ==
  /\ phase = "sections"
  /\ ~Structured
  /\ block <= Len(Blocks)
  /\ LET text == Blocks[block].text
         full == Nonblank(text) /\ Nonblank(buffer) /\ Length(buffer) + Length(text) > WindowSize
     IN  /\ sections' = IF full THEN Append(sections, [title |-> 0, text |-> buffer]) ELSE sections
         /\ buffer' = IF full THEN text ELSE buffer \o text
  /\ block' = block + 1
  /\ UNCHANGED <<call, phase, title, cutting, chunks>>

EndOfText ==
  /\ phase = "sections"
  /\ block > Len(Blocks)
  /\ sections' = IF Nonblank(buffer) \/ title # 0
                 THEN Append(sections, [title |-> title, text |-> buffer]) ELSE sections
  /\ buffer' = <<>>
  /\ phase' = "cut"
  /\ UNCHANGED <<call, block, title, cutting, chunks>>

----------------------------------------------------------------------------
\* Chunks.  Each keeps its heading, the section it is of, as the number of
\* sections there were still to be cut, the text it is cut from and the part of
\* that text it holds.

Part(text, from, to) ==
  [title |-> IF sections = <<>> THEN 0 ELSE Head(sections).title,
   section |-> Len(sections), text |-> text, from |-> from, to |-> to]
Whole(text) == Part(text, 0, Length(text))

Body == Filtered(Head(sections).text)

\* A section without text left adds nothing, its title included.
SkipSection ==
  /\ phase = "cut"
  /\ sections # <<>>
  /\ ~Nonblank(Body)
  /\ sections' = Tail(sections)
  /\ UNCHANGED <<call, phase, reading, cutting, chunks>>

KeepSection ==
  /\ phase = "cut"
  /\ sections # <<>>
  /\ Nonblank(Body)
  /\ Length(Body) <= Limit
  /\ chunks' = Append(chunks, Whole(Body))
  /\ sections' = Tail(sections)
  /\ UNCHANGED <<call, phase, reading, cutting>>

Oversized ==
  /\ phase = "cut"
  /\ sections # <<>>
  /\ Length(Body) > Limit

WindowSection ==
  /\ Oversized
  /\ call.strategy = "fixed"
  /\ window' = Body
  /\ offset' = 0
  /\ sentences' = <<>>
  /\ pos' = 0
  /\ breaks' = {}
  /\ phase' = "window"
  /\ UNCHANGED <<call, reading, sections, chunks>>

\* semantic_split returns a single sentence, and a text of which the filter
\* leaves none, as it is, however long.
UncutSection ==
  /\ Oversized
  /\ call.strategy = "semantic"
  /\ \E all \in {Sentences(Body)} : Len(all) <= 1 \/ ContentSentences(all) = <<>>
  /\ chunks' = Append(chunks, Whole(Body))
  /\ sections' = Tail(sections)
  /\ UNCHANGED <<call, phase, reading, cutting>>

\* The windows of sentences to embed; at most one if the sentences are few.
StartEmbedding ==
  /\ Oversized
  /\ call.strategy = "semantic"
  /\ \E all \in {Sentences(Body)} : \E kept \in {ContentSentences(all)} :
       /\ Len(all) > 1
       /\ kept # <<>>
       /\ IF Len(kept) <= GroupSize
          THEN /\ chunks' = Append(chunks, Whole(FlattenSeq(kept)))
               /\ sections' = Tail(sections)
               /\ UNCHANGED <<phase, sentences>>
          ELSE /\ sentences' = kept
               /\ phase' = "embed"
               /\ UNCHANGED <<sections, chunks>>
  /\ UNCHANGED <<call, reading, breaks, pos, window, offset>>

\* How many embeddings come back: an OpenAI answer is put in its places, and
\* what it lacks stays an empty vector; an Ollama answer counts as it comes.
Answers == IF call.provider = "openai" THEN {Len(sentences) - GroupSize + 1}
           ELSE 0..(Len(sentences) - GroupSize + 1)

\* Fewer than two embeddings cut nothing.
EmbedNothing ==
  /\ phase = "embed"
  /\ \E n \in Answers : n < 2
  /\ chunks' = Append(chunks, Whole(FlattenSeq(sentences)))
  /\ sections' = Tail(sections)
  /\ sentences' = <<>>
  /\ phase' = "cut"
  /\ UNCHANGED <<call, reading, breaks, pos, window, offset>>

\* Any similarity of neighbouring windows; each breakpoint becomes the end of
\* a group two sentences on.
Embed ==
  /\ phase = "embed"
  /\ \E n \in Answers \ {0, 1} : \E similarity \in [1..(n - 1) -> Scores] :
       breaks' = {Smaller(b + GroupSize \div 2 + 1, Len(sentences)) : b \in Breakpoints(similarity)}
  /\ pos' = 0
  /\ phase' = "group"
  /\ UNCHANGED <<call, reading, sections, sentences, window, offset, chunks>>

\* Mutation of GroupEnd: the limit counts one sentence less, so that under a
\* limit of one no group advances.
GroupEndShort(end) ==
  /\ end \in (pos + 1)..Len(sentences)
  /\ end \in breaks \cup {Len(sentences), pos + call.max_sentences - 1}
  /\ \A b \in breaks : b <= pos \/ end <= b
  /\ end <= pos + call.max_sentences - 1

\* Mutation of GroupEnd: breaks alone end a group.
GroupEndUnlimited(end) ==
  /\ end \in (pos + 1)..Len(sentences)
  /\ end \in breaks \cup {Len(sentences)}
  /\ \A b \in breaks : b <= pos \/ end <= b

\* The group at pos ends at the next break or the last sentence, unless the
\* limit comes before.  Under a limit of 0 no group ends: the loop adds empty
\* groups for ever.
GroupEnd(end) ==
  /\ end \in (pos + 1)..Len(sentences)
  /\ end \in breaks \cup {Len(sentences), pos + call.max_sentences}
  /\ \A b \in breaks : b <= pos \/ end <= b
  /\ end <= pos + call.max_sentences

\* The code forms every group before it looks at the first one's size; a
\* group too long for a chunk is cut into windows.
CutGroup ==
  /\ phase = "group"
  /\ \E end \in 0..Len(sentences) :
       LET text == FlattenSeq(SubSeq(sentences, pos + 1, end))
       IN  /\ GroupEnd(end)
           /\ pos' = end
           /\ IF Length(text) <= Limit
              THEN /\ chunks' = Append(chunks, Whole(text))
                   /\ UNCHANGED <<phase, window, offset>>
              ELSE /\ window' = text
                   /\ offset' = 0
                   /\ phase' = "window"
                   /\ UNCHANGED chunks
  /\ UNCHANGED <<call, reading, sections, sentences, breaks>>

\* Mutation of Step: the overlap is skipped instead of repeated.
StepOver == Limit + Overlap

\* split_with_overlap: windows of the limit, each Overlap before the last
\* one's end.
Step == Larger(IF Limit > Overlap THEN Limit - Overlap ELSE 0, 1)

\* Mutation of CutWindow: the end of the text is looked for with the offset.
CutWindowToOffset ==
  /\ phase = "window"
  /\ chunks' = Append(chunks, Part(window, offset, Smaller(offset + Limit, Length(window))))
  /\ IF offset >= Length(window)
     THEN phase' = "group" /\ window' = <<>> /\ offset' = 0
     ELSE offset' = offset + Step /\ UNCHANGED <<phase, window>>
  /\ UNCHANGED <<call, reading, sections, sentences, breaks, pos>>

\* The window that reaches the end is the last.
CutWindow ==
  /\ phase = "window"
  /\ LET end == Smaller(offset + Limit, Length(window))
     IN  /\ chunks' = Append(chunks, Part(window, offset, end))
         /\ IF end = Length(window)
            THEN phase' = "group" /\ window' = <<>> /\ offset' = 0
            ELSE offset' = offset + Step /\ UNCHANGED <<phase, window>>
  /\ UNCHANGED <<call, reading, sections, sentences, breaks, pos>>

\* Mutation of EndGroups: the sentences after the last break are forgotten.
EndGroupsAtBreaks ==
  /\ phase = "group"
  /\ \A b \in breaks : b <= pos
  /\ sentences' = <<>>
  /\ breaks' = {}
  /\ pos' = 0
  /\ sections' = Tail(sections)
  /\ phase' = "cut"
  /\ UNCHANGED <<call, reading, window, offset, chunks>>

EndGroups ==
  /\ phase = "group"
  /\ pos = Len(sentences)
  /\ sentences' = <<>>
  /\ breaks' = {}
  /\ pos' = 0
  /\ sections' = Tail(sections)
  /\ phase' = "cut"
  /\ UNCHANGED <<call, reading, window, offset, chunks>>

Text == FlattenSeq([i \in DOMAIN Blocks |-> Blocks[i].text])

\* A text none of whose sections gave a chunk still gives one: its beginning.
Finish ==
  /\ phase = "cut"
  /\ sections = <<>>
  /\ chunks' = IF chunks = <<>> /\ Nonblank(Text)
               THEN <<Part(Text, 0, Smaller(Limit, Length(Text)))>> ELSE chunks
  /\ phase' = "done"
  /\ UNCHANGED <<call, reading, sections, cutting>>

Next ==
  \/ Fails
  \/ EnforceRobots
  \/ ReadFile
  \/ ReadPage
  \/ ReadHeading
  \/ ReadBody
  \/ ReadParagraph
  \/ EndOfText
  \/ SkipSection
  \/ KeepSection
  \/ WindowSection
  \/ UncutSection
  \/ StartEmbedding
  \/ EmbedNothing
  \/ Embed
  \/ CutGroup
  \/ CutWindow
  \/ EndGroups
  \/ Finish

Spec == Init /\ [][Next]_vars

\* chunk_document is a computation: it goes on until it returns, except that
\* nothing makes an embedding provider answer (downloads have a timeout).
AwaitsEmbedder == phase = "embed"
FairSpec == Spec /\ WF_vars(~AwaitsEmbedder /\ Next)

----------------------------------------------------------------------------
Texts == Seq(Fragment)

TypeOK ==
  /\ phase \in {"file", "robots", "page", "sections", "cut", "embed", "group", "window", "done", "failed"}
  /\ block \in 1..(Len(Blocks) + 1)
  /\ title \in 0..Len(Blocks)
  /\ buffer \in Texts
  /\ sections \in Seq([title: Nat, text: Texts])
  /\ sentences \in Seq(Texts)
  /\ breaks \subseteq 1..Len(sentences)
  /\ pos \in 0..Len(sentences)
  /\ window \in Texts
  /\ offset \in 0..Length(window)
  /\ chunks \in Seq([title: Nat, section: Nat, text: Texts, from: Nat, to: Nat])
  /\ \A k \in DOMAIN chunks : chunks[k].from < chunks[k].to /\ chunks[k].to <= Length(chunks[k].text)
  /\ phase \in {"embed", "group", "window"} => sections # <<>>

\* What the chunks hold, the overlap of windows once.
Chunked == FlattenSeq([k \in DOMAIN chunks |-> IF chunks[k].from = 0 THEN chunks[k].text ELSE <<>>])
\* The text that belongs to a section, headings are only titles.
BodyText == FlattenSeq([i \in DOMAIN Blocks |->
              IF Structured /\ Blocks[i].level \in 1..3 THEN <<>> ELSE Blocks[i].text])

\* Where sections are windowed, or where nothing is filtered, the chunks hold
\* exactly the text that passes the filter, in its order and once: sections,
\* sentences, groups and windows neither lose nor repeat any.  A text of which
\* nothing passes is taken as it is (extract_*_sections, semantic_split,
\* group_sentences_at_breaks_maxmin).
ContentIsKept ==
  phase = "done" /\ (call.strategy = "fixed" \/ ~call.filter) =>
    Chunked = IF Filtered(BodyText) = <<>> THEN Text ELSE Filtered(BodyText)

\* Whatever is filtered, the chunks hold the rest in the order of the
\* document and no fragment twice, so that chunk_index orders them.
ChunksInOrder == InOrder(Chunked)

\* A text that is not empty gives a chunk, however much of it is filtered.
TextGivesChunks == phase = "done" => (chunks = <<>> <=> Text = <<>>)

\* A search can find what the document says, where it says it.
ChunksKeepText == ContentIsKept /\ ChunksInOrder /\ TextGivesChunks

\* Several chunks of one section are pieces of it.
Piece(k) == \E j \in DOMAIN chunks : j # k /\ chunks[j].section = chunks[k].section

PiecesFit ==
  \A k \in DOMAIN chunks : Piece(k) => chunks[k].to - chunks[k].from <= Limit

PiecesAreShort ==
  call.strategy = "semantic" =>
    \A k \in DOMAIN chunks :
      Piece(k) => Len(Sentences(chunks[k].text)) <= call.max_sentences

\* The limits bind as soon as a section is cut: whatever the similarities, the
\* forced breaks and the number of embeddings, each piece of a section in
\* pieces fits the size limit, and a semantic piece is of a group of no more
\* sentences than max_sentences.  They do not bind a section that stays whole,
\* as one that fits the size limit does with any number of sentences
\* (find_breakpoints_maxmin, group_sentences_at_breaks_maxmin,
\* split_into_max_sentences, split_with_overlap).
CutsObeyLimits == PiecesFit /\ PiecesAreShort

\* Windows fit the limit, and each begins inside the one before it, so that
\* they leave no gap; the last one reaches the end of its text.  Only the
\* chunk taken for want of any other may end early (split_with_overlap).
WindowsCover ==
  \A k \in DOMAIN chunks :
    /\ chunks[k].from > 0 =>
         /\ chunks[k - 1].text = chunks[k].text
         /\ chunks[k].from \in (chunks[k - 1].from + 1)..chunks[k - 1].to
    /\ (chunks[k].from > 0 \/ call.strategy = "fixed") => chunks[k].to - chunks[k].from <= Limit
    /\ \/ chunks[k].to = Length(chunks[k].text)
       \/ k = Len(chunks) /\ phase = "window" /\ offset \in 1..chunks[k].to
       \/ k < Len(chunks) /\ chunks[k + 1].from > 0
       \/ k = 1 /\ phase = "done" /\ Filtered(BodyText) = <<>>

\* Every call returns, whatever breaks and windows it meets: both loops
\* advance (group_sentences_at_breaks_maxmin, split_with_overlap), unless its
\* limit of sentences is 0 and it has come to group, or its embedder never
\* answers.
ChunkingEnds ==
  \/ <>(phase \in {"done", "failed"})
  \/ <>[]AwaitsEmbedder
  \/ <>[](phase = "group" /\ call.max_sentences = 0)
=============================================================================
