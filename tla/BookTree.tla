------------------------------ MODULE BookTree ------------------------------
(***************************************************************************)
(* A normalized book as the tree of elements that the programs walk which  *)
(* number its blocks.  A document is a sequence of nodes [tag, depth] in   *)
(* document order; the first one is the region bodymatter.  A text node is *)
(* two characters long; "space" is a text node of one white space.         *)
(***************************************************************************)
EXTENDS Naturals, Null, SequencesExt

Sections    == {"chapter", "preface"}    \* <section data-type>; the first gets enhanced content
TextTags    == {"p", "td"}               \* p, pre, dt | dd, th, td: the latter contain elements
MediaBlocks == {"figure"}                \* figure, audio, video
MediaNames  == {"figure", "img", "table"}
Leaves      == {"text", "space", "br", "heading"}

\* What may be inside what: "unit" is a div with a data-role that makes it a block, "quote" any
\* other element around blocks, "em" one around text.
Inside ==
  [bodymatter |-> {"chapter", "preface", "heading", "p", "list", "table", "figure", "unit",
                   "quote", "space"},
   chapter |-> {"chapter", "heading", "p", "list", "table", "figure", "unit", "quote", "space"},
   preface |-> {"heading", "p", "space"},
   p |-> {"text", "space", "br", "em", "img"}, em |-> {"text", "space", "br"},
   quote |-> {"p", "list", "space"},
   list |-> {"li", "space"}, li |-> {"text", "space", "br", "em", "p", "list", "img"},
   table |-> {"td", "space"}, td |-> {"text", "space", "p", "list", "img"},
   figure |-> {"img", "figcaption", "space"}, figcaption |-> {"text", "p", "quote", "space"},
   unit |-> {"text", "p", "list", "img", "space", "br"}]

Nodes(d) == DOMAIN d

\* The nodes below i, its children, and the nodes of S with all that is below them.
Under(d, i) ==
  i + 1 .. Min({k \in i + 1 .. Len(d) : d[k].depth <= d[i].depth} \cup {Len(d) + 1}) - 1
Children(d, i) == {j \in Under(d, i) : d[j].depth = d[i].depth + 1}
Parent(d, i) == Max({j \in 1 .. i - 1 : d[j].depth < d[i].depth})
Whole(d, S) == S \cup UNION {Under(d, i) : i \in S}

Tagged(d, S, tags) == {i \in S : d[i].tag \in tags}
Has(d, i, tags) == Tagged(d, Under(d, i), tags) # {}
HasChild(d, i, tags) == Tagged(d, Children(d, i), tags) # {}

InOrder(d, S) == SelectSeq([i \in Nodes(d) |-> i], LAMBDA i : i \in S)

\* Characters are known by their node and their place in it.
Letters(d, i) ==
  CASE d[i].tag \in {"text", "heading"} -> <<<<i, 1>>, <<i, 2>>>>
    [] d[i].tag \in {"space", "br"} -> <<<<i, 1>>>>
    [] OTHER -> <<>>
Text(d, S) ==
  LET leaves == InOrder(d, Tagged(d, S, Leaves))
  IN  FlattenSeq([n \in DOMAIN leaves |-> Letters(d, leaves[n])])

\* Is there anything but white space in these nodes.
Visible(d, S) == Tagged(d, Whole(d, S), {"text", "heading"}) # {}
=============================================================================
