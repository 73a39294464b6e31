---------------------------- MODULE ReadingNodes ----------------------------
(***************************************************************************)
(* The manifest of a book as the importer builds it                        *)
(* (tools/build_reading_nodes.py): the content of every section, apart     *)
(* from the sections in it, is cut into nodes, and a node into blocks.     *)
(***************************************************************************)
EXTENDS BookTree

Boundaries(d) == Tagged(d, Nodes(d), Sections)

TextProjection(d, i, skipLists) ==
  Text(d, Under(d, i) \ (IF skipLists THEN Whole(d, Tagged(d, Under(d, i), {"list"})) ELSE {}))

HasInline(d, i) ==
  \E c \in Children(d, i) :
    d[c].tag \notin {"list"} \cup TextTags /\ (Visible(d, {c}) \/ d[c].tag \in {"img", "br"})

IsBlock(d, i) ==
  \/ d[i].tag \in TextTags /\ ~Has(d, i, TextTags) /\ Visible(d, {i})
  \/ d[i].tag = "li" /\ ~HasChild(d, i, {"p"}) /\ HasInline(d, i)
  \/ d[i].tag = "figcaption" /\ ~HasChild(d, i, {"p"}) /\ Visible(d, {i})
  \/ d[i].tag \in MediaBlocks
  \/ /\ d[i].tag = "unit" /\ ~Has(d, i, TextTags \cup {"li", "figcaption"})
     /\ Visible(d, {i}) \/ Has(d, i, MediaNames)

Block(d, i) ==
  [kind |-> d[i].tag,
   text |-> IF d[i].tag \in MediaBlocks THEN <<>> ELSE TextProjection(d, i, d[i].tag = "li")]
ExtractBlocks(d, S) ==
  LET found == InOrder(d, {i \in Whole(d, S) : IsBlock(d, i)})
  IN  [n \in DOMAIN found |-> Block(d, found[n])]

\* The children of a section between two sections in it.  The title of a section is left out,
\* but not that of the region.
Parts(d, owner) ==
  LET inner == Children(d, owner) \cap Boundaries(d)
      Part(n) == {c \in Children(d, owner) \ inner :
                    /\ owner = 1 \/ d[c].tag # "heading"
                    /\ Cardinality({b \in inner : b < c}) = n}
  IN  {Part(n) : n \in 0..Cardinality(inner)}
MakeSegment(d, part) == Visible(d, part) \/ Tagged(d, Whole(d, part), MediaNames) # {}
Segments(d, owner) ==
  SetToSortSeq({part \in Parts(d, owner) : MakeSegment(d, part)}, LAMBDA p, q : Min(p) < Min(q))

Emitted(d) ==
  SetToSortSeq(
    UNION {{[section |-> o, segment |-> n, part |-> Segments(d, o)[n]] : n \in DOMAIN Segments(d, o)}
             : o \in {1} \cup Boundaries(d)},
    LAMBDA a, b : Min(a.part) < Min(b.part))

\* The entry of a node, and the blocks in it, with their places in the book.
AsDict(d, order, node, start) ==
  LET found == ExtractBlocks(d, node.part)
      Length(n) == FoldLeft(LAMBDA sum, k : sum + Len(found[k].text), 0, [k \in 1..n |-> k])
  IN  [section |-> node.section, segment |-> node.segment, order |-> order,
       start |-> start, count |-> Length(Len(found)),
       eligible |-> d[node.section].tag = "chapter"
                      /\ \E n \in DOMAIN found :
                           Tagged(d, {l[1] : l \in Range(found[n].text)}, {"text"}) # {},
       blocks |-> [n \in DOMAIN found |-> [kind |-> found[n].kind, start |-> start + Length(n - 1),
                                           length |-> Len(found[n].text)]]]

\* Sections outside of the region have none to be in.
Outline(d, nodes) ==
  LET sections == InOrder(d, Boundaries(d))
      Entry(s) ==
        LET orders == {n \in DOMAIN nodes : nodes[n].section \in {s} \cup Under(d, s)}
        IN  [section |-> s, type |-> d[s].tag,
             parent |-> IF Parent(d, s) = 1 THEN None ELSE Parent(d, s),
             first |-> IF orders = {} THEN None ELSE Min(orders)]
  IN  [n \in DOMAIN sections |-> Entry(sections[n])]

BuildManifest(d) ==
  LET emitted == Emitted(d)
      Add(nodes, node) ==
        LET start == IF nodes = <<>> THEN 0 ELSE Last(nodes).start + Last(nodes).count
        IN  Append(nodes, AsDict(d, Len(nodes) + 1, node, start))
      nodes == FoldLeft(Add, <<>>, emitted)
  IN  [nodes |-> nodes, outline |-> Outline(d, nodes),
       total |-> IF nodes = <<>> THEN 0 ELSE Last(nodes).start + Last(nodes).count]
=============================================================================
