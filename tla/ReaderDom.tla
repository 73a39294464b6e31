----------------------------- MODULE ReaderDom -----------------------------
(***************************************************************************)
(* The page's view of a book (apps/web/src/reader/content.ts): it cuts the *)
(* document into the nodes of the manifest, numbers their blocks, and      *)
(* maps between places of the DOM and points of the blocks.                *)
(*                                                                         *)
(* A place of the DOM is [node, offset]: in a text node an offset in it,   *)
(* else the number of children before it.                                  *)
(***************************************************************************)
EXTENDS Integers, BookTree

Core == INSTANCE ReaderCore

IsSemanticBoundary(d, i) == d[i].tag \in Sections

HasReadableContent(d, S) == Visible(d, S) \/ Tagged(d, Whole(d, S), MediaNames) # {}

OwnerSegments(d, owner) ==
  LET inner == {c \in Children(d, owner) : IsSemanticBoundary(d, c)}
      pending == {c \in Children(d, owner) \ inner : d[c].tag # "heading"}
      flushed == {{c \in pending : Cardinality({b \in inner : b < c}) = n} : n \in 0..Cardinality(inner)}
  IN  SetToSortSeq({s \in flushed : HasReadableContent(d, s)}, LAMBDA s, t : Min(s) < Min(t))

DirectVisibleInlineContent(d, i) ==
  \E c \in Children(d, i) :
    /\ d[c].tag \notin {"list"} \cup TextTags
    /\ Visible(d, {c}) \/ d[c].tag \in {"img", "br"}

\* An empty role div is no block.
CountsAsUnit(d, i) == Visible(d, {i}) \/ Has(d, i, MediaNames)

AnnotationBlocks(d, S) ==
  LET Counts(i) ==
        \/ d[i].tag \in TextTags /\ ~Has(d, i, TextTags) /\ Visible(d, {i})
        \/ d[i].tag = "li" /\ ~HasChild(d, i, {"p"}) /\ DirectVisibleInlineContent(d, i)
        \/ d[i].tag = "figcaption" /\ ~HasChild(d, i, {"p"}) /\ Visible(d, {i})
        \/ d[i].tag \in MediaBlocks
        \/ /\ d[i].tag = "unit" /\ ~Has(d, i, TextTags \cup {"li", "figcaption"})
           /\ CountsAsUnit(d, i)
  IN  InOrder(d, {i \in Whole(d, S) : Counts(i)})

\* The nodes whose text counts in a block: in an item of a list, not those of a list in it.
Skipped(d, b) == IF d[b].tag = "li" THEN Tagged(d, Under(d, b), {"list"}) ELSE {}
Counted(d, b) == Under(d, b) \ Whole(d, Skipped(d, b))

ReaderBlockText(d, b) == Text(d, Counted(d, b))
ExtractCanonicalBlocks(d, S) ==
  LET blocks == AnnotationBlocks(d, S)
  IN  [n \in DOMAIN blocks |-> [kind |-> d[blocks[n]].tag, text |-> ReaderBlockText(d, blocks[n])]]

\* The nodes of the manifest in this document, each as its segment.  None stands for an error:
\* the page then shows no book at all.
PrepareBookContent(d, manifest) ==
  LET nodes == manifest.nodes
      Segment(n) == OwnerSegments(d, nodes[n].section)[nodes[n].segment]
  IN  IF \A n \in DOMAIN nodes :
           /\ nodes[n].segment \in DOMAIN OwnerSegments(d, nodes[n].section)
           /\ Core!AgreesWithNode(ExtractCanonicalBlocks(d, Segment(n)), nodes[n])
      THEN [n \in DOMAIN nodes |-> Segment(n)]
      ELSE None

Width(d, i) == Len(Letters(d, i))
Cursor(d, b, i) == Len(Text(d, {j \in Counted(d, b) : j < i}))

\* The place of an offset.  Between two text nodes a start goes to the one after it and an end
\* to the one before.
BoundaryAt(d, b, offset, bias) ==
  LET hit == {i \in Tagged(d, Counted(d, b), {"text", "space"}) :
                IF bias = "start"
                THEN offset >= Cursor(d, b, i) /\ offset < Cursor(d, b, i) + Width(d, i)
                ELSE offset > Cursor(d, b, i) /\ offset <= Cursor(d, b, i) + Width(d, i)}
      broken == {i \in Tagged(d, Counted(d, b), {"br"}) : offset - Cursor(d, b, i) \in {0, 1}}
      Index(i) == Cardinality({c \in Children(d, Parent(d, i)) : c < i})
  IN  IF hit \cup broken # {}
      THEN LET i == Min(hit \cup broken)
           IN  IF i \in hit THEN [node |-> i, offset |-> offset - Cursor(d, b, i)]
               ELSE [node |-> Parent(d, i), offset |-> Index(i) + offset - Cursor(d, b, i)]
      ELSE IF offset = Len(ReaderBlockText(d, b))
      THEN [node |-> b, offset |-> Cardinality(Children(d, b))]
      ELSE None

\* The offset of a place in a block; one that is not found counts as the end.
OffsetWithinBlock(d, b, place) ==
  LET i == place.node
      child == InOrder(d, Children(d, i))
  IN  IF i \in Tagged(d, Counted(d, b), {"text", "space"}) THEN Cursor(d, b, i) + place.offset
      ELSE IF i \in {b} \cup Counted(d, b)
      THEN IF place.offset < Len(child) THEN Cursor(d, b, child[place.offset + 1])
           ELSE Len(Text(d, {j \in Counted(d, b) : j < i \/ j \in Under(d, i)}))
      ELSE IF i \in Skipped(d, b) /\ \A l \in Skipped(d, b) : i \notin Under(d, l)
      THEN Cursor(d, b, i)
      ELSE Len(ReaderBlockText(d, b))

\* The innermost block around a place, by its number; None where there is none.
ReadingBlockFor(d, blocks, i) ==
  LET around == {n \in DOMAIN blocks : i \in {blocks[n]} \cup Under(d, blocks[n])}
  IN  IF around = {} THEN None ELSE Max(around)

PointOf(d, blocks, place) ==
  LET n == ReadingBlockFor(d, blocks, place.node)
  IN  [blockIndex |-> n, offset |-> OffsetWithinBlock(d, blocks[n], place)]

\* What the reader selected, as a range of the blocks of one node; None where an end is in no
\* block of this node, and for a mere caret.
RangeFromSelection(d, blocks, from, to) ==
  LET range == Core!NormalizeRange([start |-> PointOf(d, blocks, from),
                                    end |-> PointOf(d, blocks, to)])
  IN  IF /\ None \notin {ReadingBlockFor(d, blocks, from.node), ReadingBlockFor(d, blocks, to.node)}
         /\ range.start # range.end
      THEN range ELSE None

\* The characters between two places, in document order.
Edge(d, place) ==
  LET child == InOrder(d, Children(d, place.node))
  IN  IF d[place.node].tag \in {"text", "space"} THEN 3 * place.node + place.offset
      ELSE IF place.offset < Len(child) THEN 3 * child[place.offset + 1]
      ELSE 3 * (Max({place.node} \cup Under(d, place.node)) + 1)
Between(d, from, to) ==
  {l \in UNION {Range(Letters(d, i)) : i \in Nodes(d)} :
     Edge(d, from) < 3 * l[1] + l[2] /\ 3 * l[1] + l[2] <= Edge(d, to)}

\* The characters that a range of the page covers; None when an end has no place.
DomRangeFor(d, blocks, range) ==
  LET from == BoundaryAt(d, blocks[range.start.blockIndex], range.start.offset, "start")
      to   == BoundaryAt(d, blocks[range.end.blockIndex], range.end.offset, "end")
  IN  IF /\ {range.start.blockIndex, range.end.blockIndex} \subseteq DOMAIN blocks
         /\ None \notin {from, to}
      THEN Between(d, from, to) ELSE None

\* The characters that show a mark: in every block of the range a mark of its own.
ApplyMarks(d, blocks, range) ==
  LET Offset(n, p, other) == IF n = p.blockIndex THEN p.offset ELSE other
      Mark(n) ==
        LET b    == blocks[n]
            from == BoundaryAt(d, b, Offset(n, range.start, 0), "start")
            to   == BoundaryAt(d, b, Offset(n, range.end, Len(ReaderBlockText(d, b))), "end")
        IN  IF None \in {from, to} THEN {} ELSE Between(d, from, to)
  IN  UNION {Mark(n) : n \in (DOMAIN blocks) \cap (range.start.blockIndex .. range.end.blockIndex)}

\* The offset of a block whose line is nearest to y, by halving 0..Len(top) - 1: top[k + 1] is the
\* line of offset k, None where it cannot be measured.
Distance(a, b) == IF a < b THEN b - a ELSE a - b
OffsetNearestLine(top, y) ==
  LET Nearer(best, mid) ==
        IF best = None \/ Distance(top[mid + 1], y) < Distance(top[best + 1], y) THEN mid ELSE best
      search[lo \in 0..Len(top), hi \in -1 .. Len(top) - 1, best \in {None} \cup (0 .. Len(top) - 1)] ==
        LET mid == (lo + hi) \div 2
        IN  IF lo > hi THEN best
            ELSE IF top[mid + 1] = None
            THEN IF mid = lo THEN best ELSE search[lo, mid - 1, best]
            ELSE IF top[mid + 1] = y THEN mid
            ELSE IF top[mid + 1] < y THEN search[mid + 1, hi, Nearer(best, mid)]
            ELSE search[lo, mid - 1, Nearer(best, mid)]
  IN  search[0, Len(top) - 1, None]

\* The point that stands for the line y of the page: at the caret if there is text, else in the
\* nearest block.  box[n] is the first and the last line of block n, top[n] as above.
NearestReaderAnchor(d, blocks, caret, y, box, top) ==
  LET hit == IF caret = None THEN None ELSE ReadingBlockFor(d, blocks, caret.node)
      Far(n) == IF y < box[n].first THEN box[n].first - y
                ELSE IF y > box[n].last THEN y - box[n].last ELSE 0
      nearest == Min({n \in DOMAIN blocks : \A m \in DOMAIN blocks : Far(n) <= Far(m)})
      length  == Len(ReaderBlockText(d, blocks[nearest]))
      offset  == IF length = 0 THEN 0 ELSE OffsetNearestLine(top[nearest], y)
  IN  IF hit # None THEN [blockIndex |-> hit, offset |-> OffsetWithinBlock(d, blocks[hit], caret)]
      ELSE IF blocks = <<>> \/ offset = None THEN None
      ELSE [blockIndex |-> nearest, offset |-> offset]
=============================================================================
