----------------------------- MODULE ReaderCore -----------------------------
(***************************************************************************)
(* The contract of the readers (packages/reader-core): the manifest of a   *)
(* book, and points and ranges in the blocks of a node.                    *)
(***************************************************************************)
EXTENDS Integers, Null, SequencesExt

\* Points and ranges.  lengths[i] is the length of block i.
ComparePoints(p, q) ==
  IF p.blockIndex = q.blockIndex THEN p.offset - q.offset ELSE p.blockIndex - q.blockIndex
NormalizeRange(r) ==
  IF ComparePoints(r.start, r.end) <= 0 THEN r ELSE [start |-> r.end, end |-> r.start]
RangeContains(outer, inner) ==
  ComparePoints(outer.start, inner.start) <= 0 /\ ComparePoints(inner.end, outer.end) <= 0

ValidPoint(p, lengths) == p.blockIndex \in DOMAIN lengths /\ p.offset \in 0..lengths[p.blockIndex]
ValidRange(r, lengths) ==
  /\ ValidPoint(r.start, lengths) /\ ValidPoint(r.end, lengths)
  /\ ComparePoints(r.start, r.end) < 0

\* The text of each block of a range (the code joins them by a line break).
QuoteFromBlocks(blocks, r) ==
  [n \in 1 .. r.end.blockIndex - r.start.blockIndex + 1 |->
     LET i    == r.start.blockIndex + n - 1
         from == IF i = r.start.blockIndex THEN r.start.offset ELSE 0
         to   == IF i = r.end.blockIndex THEN r.end.offset ELSE Len(blocks[i].text)
     IN  SubSeq(blocks[i].text, from + 1, to)]

\* A point of a node as a place in the book, and back.
AbsoluteOffset(node, p) ==
  IF p.blockIndex \in DOMAIN node.blocks /\ p.offset \in 0..node.blocks[p.blockIndex].length
  THEN node.blocks[p.blockIndex].start + p.offset
  ELSE None
PointAt(node, place) ==
  LET reached == {i \in DOMAIN node.blocks :
                    /\ place >= node.blocks[i].start
                    /\ place - node.blocks[i].start <= node.blocks[i].length}
  IN  IF place \notin node.start .. node.start + node.count \/ reached = {} THEN None
      ELSE LET i == Max(reached)
           IN  [blockIndex |-> i, offset |-> place - node.blocks[i].start]

\* The manifest: nodes in order, each with its blocks, and the outline of the sections.
FindNode(manifest, section, segment) ==
  LET found == {i \in DOMAIN manifest.nodes : /\ manifest.nodes[i].section = section
                                              /\ manifest.nodes[i].segment = segment}
  IN  IF found = {} THEN None ELSE manifest.nodes[Max(found)]

LengthsAddUp(manifest) ==
  /\ \A i \in DOMAIN manifest.nodes :
       LET node == manifest.nodes[i]
           Before(b) == FoldLeft(LAMBDA sum, k : sum + node.blocks[k].length, node.start,
                                 [k \in 1 .. b - 1 |-> k])
       IN  /\ node.order = i
           /\ \A j \in 1 .. i - 1 : <<manifest.nodes[j].section, manifest.nodes[j].segment>>
                                      # <<node.section, node.segment>>
           /\ node.start = IF i = 1 THEN 0
                           ELSE manifest.nodes[i - 1].start + manifest.nodes[i - 1].count
           /\ \A b \in DOMAIN node.blocks : node.blocks[b].start = Before(b)
           /\ node.start + node.count = Before(Len(node.blocks) + 1)
  /\ manifest.total = IF manifest.nodes = <<>> THEN 0
                      ELSE Last(manifest.nodes).start + Last(manifest.nodes).count

\* The schema asks for a number in firstNodeOrder.
OutlineIsTree(manifest) ==
  \A i \in DOMAIN manifest.outline :
    LET item == manifest.outline[i]
    IN  /\ item.first # None /\ item.first \in DOMAIN manifest.nodes
        /\ \A j \in 1 .. i - 1 : manifest.outline[j].section # item.section
        /\ item.parent = None
           \/ \E j \in DOMAIN manifest.outline :
                j # i /\ manifest.outline[j].section = item.parent

ValidManifest(manifest) == LengthsAddUp(manifest) /\ OutlineIsTree(manifest)

\* Do the blocks that were found in a document agree with those of a node of the manifest.
AgreesWithNode(blocks, node) ==
  /\ Len(blocks) = Len(node.blocks)
  /\ \A i \in DOMAIN blocks : /\ blocks[i].kind = node.blocks[i].kind
                              /\ Len(blocks[i].text) = node.blocks[i].length
=============================================================================
