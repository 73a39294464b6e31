----------------------------- MODULE NodeSource -----------------------------
(***************************************************************************)
(* The server's view of a book (packages/tailoring/src/source.ts and the   *)
(* callers of it): the source of a node as it is given to the model, what  *)
(* is checked of it, where the answer's annotations belong, and the text   *)
(* that a highlight or a question is about.                                *)
(***************************************************************************)
EXTENDS BookTree

Core == INSTANCE ReaderCore

IsBoundary(d, i) == d[i].tag \in Sections

\* The mutated form: the text of the lists in an item belongs to it as well.
TextProjectionOfAll(d, i, skipLists) == Text(d, Under(d, i))

TextProjection(d, i, skipLists) ==
  LET lists == IF skipLists THEN Tagged(d, Under(d, i), {"list"}) ELSE {}
  IN  Text(d, {j \in Under(d, i) : \A l \in lists : j \notin Under(d, l)})

HasInline(d, i) ==
  \E c \in Children(d, i) :
    \/ d[c].tag = "text"
    \/ d[c].tag \notin {"list"} \cup TextTags /\ (Visible(d, {c}) \/ d[c].tag \in {"img", "br"})

ProjectedBlock(d, i) ==
  LET tag == d[i].tag
  IN  \/ tag \in TextTags /\ ~Has(d, i, TextTags) /\ Visible(d, {i})
      \/ tag = "li" /\ ~HasChild(d, i, {"p"}) /\ HasInline(d, i)
      \/ tag = "figcaption" /\ ~HasChild(d, i, {"p"}) /\ Visible(d, {i})
      \/ /\ tag = "unit" /\ ~Has(d, i, TextTags \cup {"li", "figcaption"})
         /\ Visible(d, {i}) \/ Has(d, i, MediaNames)

\* The numbered blocks of a fragment: kind, text, and the characters its html shows.
ExtractBlocks(d, S) ==
  LET found == InOrder(d, {i \in Whole(d, S) : ProjectedBlock(d, i) \/ d[i].tag \in MediaBlocks})
  IN  [n \in DOMAIN found |->
         [kind |-> d[found[n]].tag, element |-> found[n], html |-> Text(d, Under(d, found[n])),
          text |-> IF d[found[n]].tag \in MediaBlocks THEN <<>>
                   ELSE TextProjection(d, found[n], d[found[n]].tag = "li")]]

HasReadableContent(d, S) == Visible(d, S) \/ Tagged(d, Whole(d, S), MediaNames) # {}

OwnedSegments(d, owner) ==
  LET inner    == {c \in Children(d, owner) : IsBoundary(d, c)}
      Gap(c)   == Cardinality({b \in inner : b < c})
      owned    == {c \in Children(d, owner) \ inner : d[c].tag # "heading"}
      segments == {{c \in owned : Gap(c) = n} : n \in 0..Cardinality(inner)}
  IN  SetToSortSeq({s \in segments : HasReadableContent(d, s)}, LAMBDA s, t : Min(s) < Min(t))

\* None stands for the error invalid_input.
ExtractNodeSource(d, section, segment) ==
  IF section \in {1} \cup {i \in Nodes(d) : IsBoundary(d, i)}
     /\ segment \in DOMAIN OwnedSegments(d, section)
  THEN ExtractBlocks(d, OwnedSegments(d, section)[segment])
  ELSE None

\* The entries of the index that questions and the setup agent search.
ExtractNodeTexts(d) ==
  {at \in ({1} \cup {i \in Nodes(d) : IsBoundary(d, i)}) \X Nodes(d) :
     at[2] \in DOMAIN OwnedSegments(d, at[1]) /\ Visible(d, OwnedSegments(d, at[1])[at[2]])}

\* The blocks of a range, the first and the last one cut.  Cut html shows the same characters as
\* the text; a whole block keeps its html.
SliceNodeSource(blocks, range) ==
  LET first == range.start.blockIndex
      last  == Min({range.end.blockIndex, Len(blocks)})
      Cut(i) ==
        LET from == IF i = first THEN range.start.offset ELSE 0
            to   == IF i = range.end.blockIndex THEN range.end.offset ELSE Len(blocks[i].text)
            text == SubSeq(blocks[i].text, from + 1, to)
        IN  [index |-> i, offset |-> from, text |-> text,
             html |-> IF from # 0 \/ to # Len(blocks[i].text) THEN text ELSE blocks[i].html]
  IN  [n \in 1 .. last - first + 1 |-> Cut(first + n - 1)]

\* May this slice be given to the model, for a trial or for the whole node.
ValidGenerationInput(slice, range, scope) ==
  /\ slice # <<>>
  /\ \A n \in 1 .. Len(slice) - 1 : slice[n + 1].index = slice[n].index + 1
  /\ \A p \in {range.start, range.end} : \E n \in DOMAIN slice :
       /\ slice[n].index = p.blockIndex
       /\ p.offset \in slice[n].offset .. slice[n].offset + Len(slice[n].text)
  /\ Core!ComparePoints(range.start, range.end) < 0
  /\ range.start.blockIndex = slice[1].index /\ range.end.blockIndex = Last(slice).index
  /\ scope = "formal" =>
       /\ slice[1].index = 1 /\ range.start.offset = 0
       /\ range.end.offset = Last(slice).offset + Len(Last(slice).text)

\* The range of a node as a whole.
FullRange(blocks) == [start |-> [blockIndex |-> 1, offset |-> 0],
                      end |-> [blockIndex |-> Len(blocks), offset |-> Len(Last(blocks).text)]]

\* The model quotes a block of the slice; None stands for invalid_anchor.
ResolveAnnotation(slice, range, index, quote) ==
  LET n == CHOOSE k \in DOMAIN slice : slice[k].index = index
      at == {k \in 0..Len(slice[n].text) :
               IsPrefix(quote, SubSeq(slice[n].text, k + 1, Len(slice[n].text)))}
      start == slice[n].offset + Min(at)
      found == [start |-> [blockIndex |-> index, offset |-> start],
                end |-> [blockIndex |-> index, offset |-> start + Len(quote)]]
  IN  IF \A k \in DOMAIN slice : slice[k].index # index THEN None
      ELSE IF at = {} THEN None
      ELSE IF Core!RangeContains(range, found) THEN found ELSE None

\* What a question is about: the range the reader selected if it is exact and valid, else what
\* is left of it when its ends are moved into their blocks, else the blocks around the focus.
\* An exact range that is not valid is an error (None), or stands for the node where the question
\* is one of an earlier version of the page.
Lengths(blocks) == [i \in DOMAIN blocks |-> Len(blocks[i].text)]
Clamped(blocks, p) == [p EXCEPT !.offset = Min({p.offset, Len(blocks[p.blockIndex].text)})]
Around(blocks, at) ==
  LET last == Min({Len(blocks), at + 1})
  IN  [start |-> [blockIndex |-> Max({1, at - 1}), offset |-> 0],
       end |-> [blockIndex |-> last, offset |-> Len(blocks[last].text)]]
QuestionRange(blocks, range, focus, exact, strict) ==
  LET known  == {range.start.blockIndex, range.end.blockIndex} \subseteq DOMAIN blocks
      within == [start |-> Clamped(blocks, range.start), end |-> Clamped(blocks, range.end)]
      usable == known /\ Core!ComparePoints(within.start, within.end) < 0
  IN  CASE exact /\ Core!ValidRange(range, Lengths(blocks)) -> range
        [] exact /\ ~Core!ValidRange(range, Lengths(blocks)) ->
             IF strict THEN None ELSE FullRange(blocks)
        [] ~exact /\ usable -> within
        [] OTHER -> Around(blocks, IF focus \in DOMAIN blocks THEN focus ELSE 1)
=============================================================================
