---------------------------- MODULE PublishedBook ----------------------------
(***************************************************************************)
(* A book from its normalized html to the open page.  Three programs cut   *)
(* the same document into nodes and blocks, each with a parser and code of *)
(* its own: the importer (ReadingNodes) writes the manifest, the server    *)
(* (NodeSource) and the page (ReaderDom) address the text by its numbers.  *)
(*                                                                         *)
(* A document is written node by node, of one vocabulary, and may be       *)
(* taken at any time: it stands for what the conversion of a book produced *)
(* and the linter let pass.  Comments are left out: the importer takes     *)
(* them for text, the others do not.                                       *)
(***************************************************************************)
EXTENDS LibraryConstants, BookTree

VARIABLES
  vocabulary,  \* what this document is made of
  doc,         \* the document
  stage,       \* "writing", "built", "published", "refused", "open" or "failed"
  manifest     \* reading_manifest.json

vars == <<vocabulary, doc, stage, manifest>>

Core     == INSTANCE ReaderCore
Importer == INSTANCE ReadingNodes
Server   == INSTANCE NodeSource
Page     == INSTANCE ReaderDom

\* What a document is made of, and how many nodes it may have more than MaxTree: structures that
\* are deep need more, and fewer tags.
Vocabularies ==
  {[tags |-> {"chapter", "heading", "p", "text"}, more |-> 1],
   [tags |-> {"chapter", "preface", "p", "text"}, more |-> 0],
   [tags |-> {"p", "text", "space", "br", "em"}, more |-> 0],
   [tags |-> {"figure", "img", "figcaption", "text", "p", "space"}, more |-> 0],
   [tags |-> {"figure", "figcaption", "text", "quote", "p"}, more |-> 1],
   [tags |-> {"unit", "text", "img", "p", "br"}, more |-> 0],
   [tags |-> {"list", "li", "text", "p"}, more |-> 1],
   [tags |-> {"table", "td", "text", "p"}, more |-> 1],
   [tags |-> {"table", "td", "text", "list", "li"}, more |-> 2],
   [tags |-> {"list", "li", "text"}, more |-> 2]}

TypeOK ==
  /\ vocabulary \in Vocabularies
  /\ Len(doc) \in 1 .. MaxTree + vocabulary.more
  /\ \A i \in Nodes(doc) : doc[i].tag \in vocabulary.tags \cup {"bodymatter"} /\ doc[i].depth < i
  /\ stage \in {"writing", "built", "published", "refused", "open", "failed"}
  /\ manifest = IF stage = "writing" THEN None ELSE Importer!BuildManifest(doc)

Init ==
  /\ vocabulary \in Vocabularies
  /\ doc = <<[tag |-> "bodymatter", depth |-> 0]>>
  /\ stage = "writing" /\ manifest = None

\* The next node of the document: two pieces of text are never neighbours.
Write(tag, depth) ==
  LET longer == Append(doc, [tag |-> tag, depth |-> depth])
      end    == Len(longer)
      above  == doc[Parent(longer, end)].tag
      before == Children(longer, Parent(longer, end)) \ {end}
  IN  /\ stage = "writing" /\ end <= MaxTree + vocabulary.more
      /\ depth \in 1 .. Last(doc).depth + 1
      /\ above \in DOMAIN Inside /\ tag \in Inside[above]
      /\ ~(tag \in {"text", "space"} /\ before # {} /\ doc[Max(before)].tag \in {"text", "space"})
      /\ doc' = longer
      /\ UNCHANGED <<vocabulary, stage, manifest>>

\* The importer builds the manifest (twice: it has to come out the same).
BuildManifest ==
  /\ stage = "writing"
  /\ stage' = "built" /\ manifest' = Importer!BuildManifest(doc)
  /\ UNCHANGED <<vocabulary, doc>>

\* Only a valid manifest is published.
PublishNormalizedCandidate ==
  /\ stage = "built"
  /\ stage' = IF Core!ValidManifest(manifest) THEN "published" ELSE "refused"
  /\ UNCHANGED <<vocabulary, doc, manifest>>

\* The page takes the html and the manifest and shows the nodes, or nothing.
OpenBook ==
  /\ stage = "published"
  /\ stage' = IF Page!PrepareBookContent(doc, manifest) = None THEN "failed" ELSE "open"
  /\ UNCHANGED <<vocabulary, doc, manifest>>

Next ==
  \/ \E tag \in vocabulary.tags, depth \in 1 .. MaxTree + vocabulary.more : Write(tag, depth)
  \/ BuildManifest
  \/ PublishNormalizedCandidate
  \/ OpenBook

Spec == Init /\ [][Next]_vars

(***************************************************************************)
(* The headings of the page and the units of its table of contents         *)
(***************************************************************************)
\* The sections whose headings stand before a node, outer ones first.
Depth(section) == Cardinality({i \in Nodes(doc) : section \in Under(doc, i)})
OutlineHeadings(order) ==
  LET at == {manifest.outline[i].section : i \in {k \in DOMAIN manifest.outline :
                                                    manifest.outline[k].first = order}}
  IN  SetToSortSeq(at, LAMBDA s, t : Depth(s) < Depth(t))

\* The innermost sections, each from its first node to that of the next: first nodes and sizes.
BuildChapterUnits ==
  LET parents == {manifest.outline[i].parent : i \in DOMAIN manifest.outline}
      starts  == {manifest.outline[i].first :
                    i \in {k \in DOMAIN manifest.outline : manifest.outline[k].section \notin parents}}
      from    == InOrder(doc, IF starts = {} /\ manifest.nodes # <<>> THEN {1} ELSE starts)
      Size(n) == FoldLeft(LAMBDA sum, k :
                            IF k >= from[n] /\ (n < Len(from) => k < from[n + 1])
                            THEN sum + manifest.nodes[k].count ELSE sum,
                          0, [k \in DOMAIN manifest.nodes |-> k])
  IN  [n \in DOMAIN from |-> [start |-> from[n], count |-> Size(n)]]

(***************************************************************************)
(* Where the three programs are known to differ                            *)
(***************************************************************************)
\* The page takes the text in a figure for text of the figure; the manifest gives it none.
FigureWithText == \E i \in Nodes(doc) : doc[i].tag = "figure" /\ Has(doc, i, Leaves)

\* A heading outside of all sections makes a node of its own for the importer only.
LoneHeading ==
  \E part \in Importer!Parts(doc, 1) :
    /\ Importer!MakeSegment(doc, part)
    /\ ~Importer!MakeSegment(doc, part \ Tagged(doc, part, {"heading"}))

\* The first node of a section without content is null, which the schema does not allow.
EmptySection ==
  \E s \in Importer!Boundaries(doc) :
    \A o \in {s} \cup Tagged(doc, Under(doc, s), Sections) : \A part \in Importer!Parts(doc, o) :
      ~Importer!MakeSegment(doc, part)

\* A block in another one: a list in an item (what is selected in an item of it that is no block
\* counts as selected at the end of the outer one), an item in a cell or a quotation in a
\* caption.  The text of the latter belongs to both.
Nested(blocks) ==
  \E b \in Range(blocks) : /\ doc[b].tag \notin MediaBlocks
                            /\ \/ Page!Skipped(doc, b) # {}
                               \/ Under(doc, b) \cap Range(blocks) # {}
SharedText(blocks) ==
  \E b, c \in Range(blocks) : c \in Under(doc, b) /\ doc[b].tag \in {"td", "figcaption"}

(***************************************************************************)
(* Properties                                                              *)
(***************************************************************************)
Published == stage \in {"published", "open", "failed"}
Segment(node) == Page!OwnerSegments(doc, node.section)[node.segment]
Blocks(node) == Page!AnnotationBlocks(doc, Segment(node))

\* What the importer made is refused, or cannot be opened, for no other reasons than these.
BookOpens ==
  /\ stage \in {"built", "writing"} \/ (stage = "refused" <=> EmptySection)
  /\ stage = "open" => ~FigureWithText /\ ~LoneHeading
  /\ stage = "failed" => FigureWithText \/ LoneHeading

\* The server finds every node of the manifest in the document, with the same blocks, and the
\* nodes that get enhanced content are sources the model may be given.
SourcesAgree ==
  Published /\ ~LoneHeading =>
    /\ \A n \in DOMAIN manifest.nodes :
         LET node   == manifest.nodes[n]
             source == Server!ExtractNodeSource(doc, node.section, node.segment)
         IN  /\ source # None /\ Core!AgreesWithNode(source, node)
             /\ node.eligible =>
                  LET whole == Server!FullRange(source)
                  IN  Server!ValidGenerationInput(Server!SliceNodeSource(source, whole), whole, "formal")
    /\ \A key \in Server!ExtractNodeTexts(doc) : Core!FindNode(manifest, key[1], key[2]) # None

\* A character is at one place in the blocks of a node, and the places of a node are numbered
\* through, without gap or overlap.
TextIsAddressedOnce ==
  stage = "open" => \A n \in DOMAIN manifest.nodes :
    LET node == manifest.nodes[n]
        text == FlattenSeq([k \in DOMAIN Blocks(node) |-> Page!ReaderBlockText(doc, Blocks(node)[k])])
    IN  /\ SharedText(Blocks(node)) \/ IsInjective(text)
        /\ \A place \in node.start .. node.start + node.count :
             node.blocks # <<>> => Core!AbsoluteOffset(node, Core!PointAt(node, place)) = place

\* A stored point is shown where it was taken, whichever way the page gets there.
PointsReturn ==
  stage = "open" => \A n \in DOMAIN manifest.nodes :
    LET blocks == Blocks(manifest.nodes[n])
    IN  ~SharedText(blocks) => \A k \in DOMAIN blocks : \A offset \in 0..Len(Page!ReaderBlockText(doc, blocks[k])) :
          LET Place(bias) == Page!BoundaryAt(doc, blocks[k], offset, bias)
          IN  /\ Page!NearestReaderAnchor(doc, blocks, Place("start"), 0, <<>>, <<>>)
                   = [blockIndex |-> k, offset |-> offset]
              /\ offset > 0 =>
                   Page!PointOf(doc, blocks, Place("end")) = [blockIndex |-> k, offset |-> offset]

\* The places a selection can begin or end at: in text, and between the children of an element.
Places(S) ==
  UNION {{[node |-> i, offset |-> k] :
            k \in 0 .. IF doc[i].tag \in {"text", "space"} THEN Len(Letters(doc, i))
                       ELSE Cardinality(Children(doc, i))} :
           i \in {j \in Whole(doc, S) : doc[j].tag \notin {"br", "img", "heading"}}}

\* A highlight covers what was selected: the server stores it, its quotation is the text of the
\* blocks that the reader saw selected, and the page marks just these characters again, or
\* selects them, unless the selection ended before the first character of a block.
HighlightCoversSelection ==
  stage = "open" => \A n \in DOMAIN manifest.nodes :
    LET node   == manifest.nodes[n]
        blocks == Blocks(node)
        source == Server!ExtractNodeSource(doc, node.section, node.segment)
        text   == UNION {Range(Page!ReaderBlockText(doc, b)) : b \in Range(blocks)}
    IN  ~Nested(blocks) => \A from, to \in Places(Segment(node)) :
          LET range    == Page!RangeFromSelection(doc, blocks, from, to)
              selected == Page!Between(doc, from, to) \cap text
          IN  Page!Edge(doc, from) < Page!Edge(doc, to) /\ range # None =>
                /\ Core!ValidRange(range, Server!Lengths(source))
                /\ Range(FlattenSeq(Core!QuoteFromBlocks(source, range))) = selected
                /\ Page!ApplyMarks(doc, blocks, range) \cap text = selected
                /\ LET restored == Page!DomRangeFor(doc, blocks, range)
                   IN  IF restored = None THEN range.end.offset = 0 ELSE restored \cap text = selected

\* Is a list of the block inside of this piece of its text.
Crosses(b, quote) == \E l \in Page!Skipped(doc, b) : quote[1][1] < l /\ l < Last(quote)[1]

\* An annotation on a quotation of a fragment marks this quotation in the node, and not a list
\* in the same item before or after it.
AnnotationMarksQuote ==
  stage = "open" => \A n \in DOMAIN manifest.nodes :
    LET node   == manifest.nodes[n]
        blocks == Blocks(node)
        source == Server!ExtractNodeSource(doc, node.section, node.segment)
        Points == {p \in [blockIndex : DOMAIN source, offset : 0..node.count] :
                     Core!ValidPoint(p, Server!Lengths(source))}
    IN  \A start, end \in Points : Core!ComparePoints(start, end) < 0 =>
          LET range == [start |-> start, end |-> end]
              slice == Server!SliceNodeSource(source, range)
          IN  /\ Server!ValidGenerationInput(slice, range, "trial")
              /\ \A k \in DOMAIN slice, cut \in {0, 1} :
                   LET index == slice[k].index
                       quote == SubSeq(slice[k].text, 1 + cut, Len(slice[k].text))
                       found == Server!ResolveAnnotation(slice, range, index, quote)
                   IN  quote # <<>> =>
                         /\ found # None
                         /\ Core!QuoteFromBlocks(source, found) = <<quote>>
                         /\ \/ Crosses(blocks[index], quote)
                            \/ Page!ApplyMarks(doc, blocks, found) = Range(quote)

\* Whatever range a question comes with, the server cuts a text out of the node.
QuestionHasText ==
  stage = "open" => \A n \in DOMAIN manifest.nodes :
    LET node   == manifest.nodes[n]
        source == Server!ExtractNodeSource(doc, node.section, node.segment)
        Points == [blockIndex : 1 .. Len(source) + 1, offset : {0, 1, node.count + 1}]
    IN  source # <<>> => \A start, end \in Points, exact, strict \in BOOLEAN :
          LET range == Server!QuestionRange(source, [start |-> start, end |-> end],
                                            start.blockIndex, exact, strict)
          IN  range # None =>
                \/ Core!ValidRange(range, Server!Lengths(source))
                \/ Len(source) = 1 /\ source[1].text = <<>>

\* Every heading stands before one node, inside of those of the sections around it; the units of
\* the table of contents divide what comes after the first of them.
HeadingsNest ==
  Published =>
    /\ \A n \in DOMAIN manifest.nodes :
         LET at == OutlineHeadings(n)
         IN  \A k \in 1 .. Len(at) - 1 : at[k + 1] \in Under(doc, at[k])
    /\ \A i \in DOMAIN manifest.outline :
         \E n \in DOMAIN manifest.nodes : manifest.outline[i].section \in Range(OutlineHeadings(n))
    /\ LET units == BuildChapterUnits
       IN  units # <<>> =>
             FoldLeft(LAMBDA sum, unit : sum + unit.count, manifest.nodes[units[1].start].start, units)
               = manifest.total

\* The line of an offset on a page where only blocks and breaks begin a line; None where it cannot
\* be measured, which may be so beside a break.
Line(blocks, n, offset, measured) ==
  LET text   == Page!ReaderBlockText(doc, blocks[n])
      next   == IF offset < Len(text) THEN text[offset + 1][1]
                ELSE IF text = <<>> THEN blocks[n] + 1 ELSE Last(text)[1] + 1
      breaks == Tagged(doc, Nodes(doc), {"br"})
      beside == {text[k][1] : k \in {offset, offset + 1} \cap DOMAIN text}
  IN  IF ~measured /\ beside \cap breaks # {} THEN None
      ELSE Cardinality({k \in Range(blocks) \cup breaks : k < next})

\* The position that is saved for a line of the page is a point of the node, and one on this line
\* or, where all lines can be measured, on the nearest one.
PositionIsNearest ==
  stage = "open" => \A n \in DOMAIN manifest.nodes,
                        measured \in IF "br" \in vocabulary.tags THEN BOOLEAN ELSE {TRUE} :
    LET blocks == Blocks(manifest.nodes[n])
        Length(k) == Len(Page!ReaderBlockText(doc, blocks[k]))
        top == [k \in DOMAIN blocks |->
                  [o \in 1 .. Length(k) + 1 |-> Line(blocks, k, o - 1, measured)]]
        box == [k \in DOMAIN blocks |-> [first |-> Line(blocks, k, 0, TRUE),
                                         last |-> Line(blocks, k, Length(k), TRUE)]]
        Anchor(y) == Page!NearestReaderAnchor(doc, blocks, None, y, box, top)
        all == UNION {{Line(blocks, k, o, TRUE) : o \in 0..Length(k)} : k \in DOMAIN blocks}
    IN  \A y \in all \cup {line + 1 : line \in all} \cup {0} : \A point \in {Anchor(y)} \ {None} :
          /\ point.blockIndex \in DOMAIN blocks /\ point.offset \in 0..Length(point.blockIndex)
          /\ measured =>
               LET far == Page!Distance(top[point.blockIndex][point.offset + 1], y)
               IN  \A line \in all : far <= Page!Distance(line, y)

Sound ==
  /\ BookOpens /\ SourcesAgree /\ TextIsAddressedOnce /\ PointsReturn
  /\ HighlightCoversSelection /\ AnnotationMarksQuote /\ QuestionHasText /\ HeadingsNest
  /\ PositionIsNearest
=============================================================================
