----------------------------- MODULE ChapterTree -----------------------------
(* The outline of a proposal is kept twice: as the headings of proposal.md    *)
(* and as the section index (stable ids, parents, orders, heading locators).  *)
(* Every structure operation of services/chapter-structure-service.ts edits   *)
(* the headings (shared/chapter-markdown.ts) and, apart from them, the tree   *)
(* (shared/chapter-identity.ts), and then pairs the two by position.          *)
(*                                                                            *)
(* A document is the sequence of its headings; the text under a heading goes  *)
(* where the heading goes.  "id" is the section a heading was written for:    *)
(* the code cannot see it, the properties can.  Operations do not overlap     *)
(* (the renderer's mutation lock); how they reach the disk is in              *)
(* DocumentAutosave and StructureDelete.  An operation the code refuses is    *)
(* not enabled.                                                               *)
EXTENDS Integers, SequencesExt, FiniteSetsExt

CONSTANTS MaxSections,     \* bound: sections at a time
          Titles, NewTitle \* titles; the one an inserted section is given

\* A new proposal has two sections.
ASSUME TreeAssumption == MaxSections \in Nat \ {0, 1} /\ NewTitle \in Titles

MaxHeadingLevel == 4
Sections_ == 1..MaxSections

VARIABLES
  outline,   \* proposal.md: a sequence of [id, level, title]
  index,     \* sectionIndex: a sequence of entries, in the order of the array
  undoable,  \* the deleted subtree while its window is open, or NoUndo
  touched,   \* another operation has run in that window
  tangled    \* an operation has met one of the cases it does not handle

treeVars == <<outline, index, undoable, touched, tangled>>

Heading == [id : Sections_, level : 1..MaxHeadingLevel, title : Titles]

IndexEntry == [id : Sections_, parent : 0..MaxSections, order : Nat,
               level : 1..MaxHeadingLevel, title : Titles, occ : Nat]

NoUndo == [block |-> <<>>, entries |-> <<>>, prev |-> <<>>, parent |-> 0,
           doc |-> <<>>, kids |-> <<>>]

-----------------------------------------------------------------------------
(* The headings.                                                              *)

\* How many headings of the same level and title come before.
Occurrence(doc, i) ==
  Cardinality({j \in 1..(i - 1) : doc[j].level = doc[i].level /\ doc[j].title = doc[i].title})

\* findMarkdownHeading: where a locator points, 0 when nowhere.
Find(doc, loc) ==
  Max({0} \cup {i \in DOMAIN doc : /\ doc[i].level = loc.level /\ doc[i].title = loc.title
                                   /\ Occurrence(doc, i) = loc.occ})

\* Mutant: up to the next heading of a smaller level.
BlockEndMutant(doc, i) ==
  Min({Len(doc) + 1} \cup {j \in (i + 1)..Len(doc) : doc[j].level < doc[i].level})

\* getSectionSubtreeBlock: the first position after a heading's subtree.
BlockEnd(doc, i) == Min({Len(doc) + 1} \cup {j \in (i + 1)..Len(doc) : doc[j].level <= doc[i].level})

Block(doc, i) == SubSeq(doc, i, BlockEnd(doc, i) - 1)

CutBlock(doc, i) == SubSeq(doc, 1, i - 1) \o SubSeq(doc, BlockEnd(doc, i), Len(doc))

Splice(doc, at, block) == SubSeq(doc, 1, at - 1) \o block \o SubSeq(doc, at, Len(doc))

Shifted(block, delta) == [k \in DOMAIN block |-> [block[k] EXCEPT !.level = @ + delta]]

LegalLevels(block) == \A k \in DOMAIN block : block[k].level \in 1..MaxHeadingLevel

\* findParentHeading: the last heading before with a smaller level.
ParentHeading(doc, i) == Max({0} \cup {j \in 1..(i - 1) : doc[j].level < doc[i].level})

\* findPreviousSiblingHeading: the last one of the same level since then.
PreviousHeading(doc, i) ==
  Max({0} \cup {j \in 1..(i - 1) : /\ doc[j].level = doc[i].level
                                   /\ \A k \in j..i : doc[k].level >= doc[i].level})

-----------------------------------------------------------------------------
(* The tree: the children of each section, those of 0 are the roots.          *)

Row(idx, id) == CHOOSE e \in ToSet(idx) : e.id = id

IdsOf(idx) == {e.id : e \in ToSet(idx)}

\* A finite set in a strict order: the k-th has k - 1 before it.
Arranged(S, Before(_, _)) ==
  [k \in 1..Cardinality(S) |-> CHOOSE x \in S : Cardinality({y \in S : Before(y, x)}) = k - 1]

\* The rows of these sections, in the order of the array.
RowsOf(idx, ids) ==
  LET at == Arranged({k \in DOMAIN idx : idx[k].id \in ids}, <)
  IN [k \in DOMAIN at |-> idx[at[k]]]

\* buildChapterTree: children by order, entries of an unknown parent are roots.
Kids(idx) ==
  LET parentOf(e)  == IF e.parent \in IdsOf(idx) THEN e.parent ELSE 0
      before(j, k) == \/ idx[j].order < idx[k].order
                      \/ idx[j].order = idx[k].order /\ j < k
      children(p)  == Arranged({k \in DOMAIN idx : parentOf(idx[k]) = p}, before)
  IN [p \in {0} \cup IdsOf(idx) |-> [k \in DOMAIN children(p) |-> idx[children(p)[k]].id]]

Preorder(kids) ==
  LET walk[p \in DOMAIN kids] ==
        FlattenSeq([k \in DOMAIN kids[p] |-> <<kids[p][k]>> \o walk[kids[p][k]]])
  IN walk[0]

ParentIn(kids, id) == CHOOSE p \in DOMAIN kids : Contains(kids[p], id)

Place(kids, p, id) == CHOOSE k \in DOMAIN kids[p] : kids[p][k] = id

Detached(kids, id) ==
  LET p == ParentIn(kids, id)
  IN [kids EXCEPT ![p] = RemoveAt(@, Place(kids, p, id))]

Attached(kids, p, at, id) ==
  [q \in DOMAIN kids \cup {id} |->
     IF q = p THEN InsertAt(kids[p], at, id) ELSE IF q \in DOMAIN kids THEN kids[q] ELSE <<>>]

SubtreeIds(kids, id) ==
  LET below[p \in DOMAIN kids] == {p} \cup UNION {below[c] : c \in ToSet(kids[p])}
  IN below[id]

\* rebuildSectionIndex: the tree in preorder, paired with the headings by
\* position; it throws when their numbers differ.
Rebuilt(doc, kids) ==
  LET ids == Preorder(kids)
  IN [k \in DOMAIN doc |->
        [id |-> ids[k], parent |-> ParentIn(kids, ids[k]),
         order |-> Place(kids, ParentIn(kids, ids[k]), ids[k]) - 1,
         level |-> doc[k].level, title |-> doc[k].title, occ |-> Occurrence(doc, k)]]

\* applyStructureMutation and the tail of moveSubtree.
Mutate(doc, kids) ==
  /\ Len(Preorder(kids)) = Len(doc)
  /\ outline' = doc /\ index' = Rebuilt(doc, kids)
  /\ touched' = (undoable # NoUndo) /\ UNCHANGED undoable

-----------------------------------------------------------------------------
(* The operations, each on the heading its index row's locator finds.         *)

FreeIds == Sections_ \ (IdsOf(index) \cup {h.id : h \in ToSet(outline) \cup ToSet(undoable.block)})

NewHeading(level) == <<[id |-> Min(FreeIds), level |-> level, title |-> NewTitle]>>

InsertSibling(id) ==
  LET i    == Find(outline, Row(index, id))
      kids == Kids(index)
      p    == ParentIn(kids, id)
  IN /\ FreeIds # {} /\ i # 0 /\ UNCHANGED tangled
     /\ Mutate(Splice(outline, BlockEnd(outline, i), NewHeading(outline[i].level)),
               Attached(kids, p, Place(kids, p, id) + 1, Min(FreeIds)))

InsertChild(id) ==
  LET i    == Find(outline, Row(index, id))
      kids == Kids(index)
  IN /\ FreeIds # {} /\ i # 0 /\ UNCHANGED tangled
     /\ outline[i].level < MaxHeadingLevel
     /\ Mutate(Splice(outline, BlockEnd(outline, i), NewHeading(outline[i].level + 1)),
               Attached(kids, id, Len(kids[id]) + 1, Min(FreeIds)))

\* The levels change in place: the subtree is next to its previous sibling's.
Indent(id) ==
  LET i     == Find(outline, Row(index, id))
      block == Shifted(Block(outline, i), 1)
      kids  == Kids(index)
      p     == ParentIn(kids, id)
      new   == kids[p][Place(kids, p, id) - 1]
  IN /\ i # 0 /\ UNCHANGED tangled
     /\ PreviousHeading(outline, i) # 0 /\ Place(kids, p, id) > 1
     /\ LegalLevels(block)
     /\ Mutate(Splice(CutBlock(outline, i), i, block),
               Attached(Detached(kids, id), new, Len(kids[new]) + 1, id))

\* Mutant: the heading stays where it is, only its level changes.
OutdentMutant(id) ==
  LET i     == Find(outline, Row(index, id))
      block == Shifted(Block(outline, i), -1)
      kids  == Kids(index)
      p     == ParentIn(kids, id)
      grand == ParentIn(kids, p)
  IN /\ i # 0 /\ UNCHANGED tangled
     /\ ParentHeading(outline, i) # 0 /\ p # 0 /\ LegalLevels(block)
     /\ Mutate(Splice(CutBlock(outline, i), i, block),
               Attached(Detached(kids, id), grand, Place(kids, grand, p) + 1, id))

\* The subtree moves to the end of its parent's, one level up.
Outdent(id) ==
  LET i      == Find(outline, Row(index, id))
      parent == ParentHeading(outline, i)
      block  == Shifted(Block(outline, i), -1)
      kids   == Kids(index)
      p      == ParentIn(kids, id)
      grand  == ParentIn(kids, p)
  IN /\ i # 0 /\ UNCHANGED tangled
     /\ parent # 0 /\ p # 0 /\ LegalLevels(block)
     /\ Mutate(Splice(CutBlock(outline, i), BlockEnd(outline, parent) - Len(block), block),
               Attached(Detached(kids, id), grand, Place(kids, grand, p) + 1, id))

Placements == {"before", "after", "inside"}

Twin(h, g) == h.level = g.level /\ h.title = g.title

\* moveSubtree: the drop heading is looked up again, by the same locator, in
\* the document without the dragged subtree.
Move(id, drop, placement) ==
  LET i     == Find(outline, Row(index, id))
      d     == Find(outline, Row(index, drop))
      level == outline[d].level + (IF placement = "inside" THEN 1 ELSE 0)
      block == Shifted(Block(outline, i), level - outline[i].level)
      rest  == CutBlock(outline, i)
      d2    == Find(rest, Row(index, drop))
      doc   == Splice(rest, IF placement = "before" THEN d2 ELSE BlockEnd(rest, d2), block)
      kids  == Detached(Kids(index), id)
      p     == IF placement = "inside" THEN drop ELSE ParentIn(kids, drop)
      at    == CASE placement = "inside" -> Len(kids[drop]) + 1
                 [] placement = "before" -> Place(kids, p, drop)
                 [] placement = "after"  -> Place(kids, p, drop) + 1
  IN /\ id # drop /\ i # 0 /\ d # 0
     /\ d \notin i..(BlockEnd(outline, i) - 1)
     /\ LegalLevels(block) /\ d2 # 0 /\ doc # outline
     /\ drop \notin SubtreeIds(Kids(index), id)
     /\ Mutate(doc, Attached(kids, p, at, id))
     /\ tangled' = (tangled \/ \E h \in ToSet(Block(outline, i)) : Twin(h, outline[d]))

\* updateTitle: the heading line and the row; then the occurrences are counted
\* again, in the order of the array.
UpdateTitle(id, title) ==
  LET i       == Find(outline, Row(index, id))
      renamed == [k \in DOMAIN index |->
                    IF index[k].id = id THEN [index[k] EXCEPT !.title = title] ELSE index[k]]
  IN /\ Row(index, id).title # title
     /\ outline' = IF i = 0 THEN outline ELSE [outline EXCEPT ![i].title = title]
     /\ index' = [k \in DOMAIN renamed |-> [renamed[k] EXCEPT !.occ = Occurrence(renamed, k)]]
     /\ touched' = (undoable # NoUndo) /\ UNCHANGED undoable
     /\ tangled' = (tangled \/
          /\ Preorder(Kids(index)) # [k \in DOMAIN index |-> index[k].id]
          /\ \E e \in ToSet(index) : e.id # id /\ e.level = Row(index, id).level)

\* requestSoftDelete: the rows that stay are not counted again.
SoftDelete(id) ==
  LET i    == Find(outline, Row(index, id))
      kids == Kids(index)
      ids  == SubtreeIds(kids, id)
      p    == ParentIn(kids, id)
      prev == Place(kids, p, id) - 1
  IN /\ i # 0
     /\ outline' = CutBlock(outline, i)
     /\ index' = RowsOf(index, IdsOf(index) \ ids)
     /\ undoable' = [block |-> Block(outline, i), parent |-> p,
                     entries |-> RowsOf(index, ids),
                     prev |-> IF prev = 0 THEN <<>> ELSE <<Row(index, kids[p][prev])>>,
                     doc |-> outline, kids |-> kids]
     /\ touched' = FALSE
     /\ tangled' = (tangled \/ \E h \in ToSet(Block(outline, i)), g \in ToSet(CutBlock(outline, i)) :
                                  Twin(h, g))

\* Mutant: right after the heading of the previous sibling.
RestoreAtMutant ==
  LET prev   == IF undoable.prev = <<>> THEN 0 ELSE Find(outline, undoable.prev[1])
      parent == IF undoable.parent \in IdsOf(index)
                THEN Find(outline, Row(index, undoable.parent)) ELSE 0
  IN IF prev # 0 THEN prev + 1 ELSE IF parent # 0 THEN parent + 1 ELSE 1

\* restoreSectionSubtree: after the previous sibling, else before the parent's
\* first descendant, else first of all.
RestoreAt ==
  LET prev   == IF undoable.prev = <<>> THEN 0 ELSE Find(outline, undoable.prev[1])
      parent == IF undoable.parent \in IdsOf(index)
                THEN Find(outline, Row(index, undoable.parent)) ELSE 0
  IN IF prev # 0 THEN BlockEnd(outline, prev)
     ELSE IF parent # 0 THEN parent + 1 ELSE 1

\* runUndo: the deleted rows are appended as they were.
UndoDelete ==
  /\ undoable # NoUndo
  /\ outline' = Splice(outline, RestoreAt, undoable.block)
  /\ index' = index \o undoable.entries
  /\ undoable' = NoUndo /\ touched' = FALSE
  /\ tangled' = (tangled \/ touched)

FinalizeWindow ==
  /\ undoable # NoUndo /\ undoable' = NoUndo /\ touched' = FALSE
  /\ UNCHANGED <<outline, index, tangled>>

-----------------------------------------------------------------------------
\* A new proposal: its sections in this order, all at the first level.
TreeInit ==
  LET doc == [k \in 1..2 |-> [id |-> k, level |-> 1, title |-> NewTitle]]
  IN /\ \E title \in Titles : outline = [doc EXCEPT ![1].title = title]
     /\ index = Rebuilt(outline, [p \in 0..2 |-> IF p = 0 THEN <<1, 2>> ELSE <<>>])
     /\ undoable = NoUndo /\ touched = FALSE /\ tangled = FALSE

\* Nothing is claimed of a tangled outline, so nothing more is done to it.
TreeNext ==
  \/ /\ ~tangled
     /\ \E id \in IdsOf(index) :
          \/ InsertSibling(id) \/ InsertChild(id) \/ Indent(id) \/ Outdent(id) \/ SoftDelete(id)
          \/ \E drop \in IdsOf(index), placement \in Placements : Move(id, drop, placement)
          \/ \E title \in Titles : UpdateTitle(id, title)
  \/ ~tangled /\ (UndoDelete \/ FinalizeWindow)

TreeSpec == TreeInit /\ [][TreeNext]_treeVars

-----------------------------------------------------------------------------
TreeTypeOK ==
  /\ outline \in Seq(Heading) /\ index \in Seq(IndexEntry)
  /\ undoable.block \in Seq(Heading) /\ undoable.entries \in Seq(IndexEntry)
  /\ touched \in BOOLEAN /\ tangled \in BOOLEAN

\* The section that the headings make the parent of the heading at i.
HeadingParent(doc, i) == IF ParentHeading(doc, i) = 0 THEN 0 ELSE doc[ParentHeading(doc, i)].id

\* The index describes the headings: every row's locator finds the heading of
\* its own section, the tree lists the sections in the order of the document,
\* and a section's parent is the one its level makes it.
Described ==
  /\ Preorder(Kids(index)) = [i \in DOMAIN outline |-> outline[i].id]
  /\ \A e \in ToSet(index) :
       LET i == Find(outline, e)
       IN i # 0 /\ outline[i].id = e.id /\ HeadingParent(outline, i) = e.parent

\* Whatever is inserted, indented, moved, renamed, deleted and undone in turn,
\* no section is given another section's heading - unless twins (same level,
\* same title) were torn apart or an undo came after another operation.
SectionsKeepHeadings == ~tangled => Described

\* Where a section's heading is, 0 when nowhere.
PositionOf(doc, id) == Max({0} \cup {i \in DOMAIN doc : doc[i].id = id})

ParentOf(doc, id) == HeadingParent(doc, PositionOf(doc, id))

\* An operation takes one subtree somewhere else and nothing with it: of the
\* sections there before and after, one at most has another parent.
OneSubtreeMoves ==
  [][~tangled' =>
       Cardinality({id \in IdsOf(index) \cap IdsOf(index)' :
                      ParentOf(outline, id) # ParentOf(outline', id)}) <= 1]_treeVars

\* An undo with nothing in between restores the outline to the letter: the
\* headings and the tree are the ones before the deletion.
UndoIsExact ==
  [][(undoable # NoUndo /\ undoable' = NoUndo /\ index' # index /\ ~touched) =>
       outline' = undoable.doc /\ Kids(index)' = undoable.kids]_treeVars

\* "A pre-order walk of the tree produces nodes in the same order the markdown
\* headings appear": always.
TreeFollowsMarkdown == Preorder(Kids(index)) = [i \in DOMAIN outline |-> outline[i].id]
=============================================================================
