------------------------------ MODULE Chunking ------------------------------
(* How a document is cut into the pieces that are embedded and indexed       *)
(* (chunker.py, structural_chunker.py, structure.py), and how its text is    *)
(* put together again from the index (startup_ingest.py).  A character is    *)
(* one of "w" (of a word), "." (ends a sentence), "q" (a closing quote) and  *)
(* "_" (white space, line ends among it); offsets count from 0 and a window  *)
(* holds what lies from start to before end.  What is put before and after a *)
(* piece (its section's title, a table's header, a code's fences) counts by  *)
(* its length.                                                               *)
EXTENDS Integers, Sequences, SequencesExt, FiniteSetsExt, FiniteSets

CONSTANTS
  Documents,  \* [structured |-> a flag, blocks |-> what the parser has found]
  Limits      \* [size, overlap] of a piece

Characters == {"w", ".", "q", "_"}

\* A structured block begins with text: prose and code are stripped, a code's
\* first line is its fence; a row of a table has its bars.
ASSUME ChunkAssumption ==
  /\ \A b \in Limits : b.size \in Nat \ {0} /\ b.overlap \in 0..b.size - 1
  /\ \A doc \in Documents :
       /\ doc.blocks \in Seq(ToSet(doc.blocks)) /\ doc.blocks # <<>>
       /\ \A raw \in ToSet(doc.blocks) :
            /\ raw.title \in Nat
            /\ raw.lines \in Seq(Seq(Characters)) /\ raw.lines # <<>>
            /\ doc.structured =>
                 /\ raw.kind \in {"paragraph", "heading", "table", "code"}
                 /\ \E i \in DOMAIN raw.lines[1] : raw.lines[1][i] # "_"
                 /\ raw.kind = "table" => <<>> \notin ToSet(raw.lines)

VARIABLES
  document,
  parents,    \* the pieces that the answers quote, if there are two levels
  pieces,     \* the pieces that are embedded
  pieceLimit, \* the budget of the pieces
  readBack,   \* the offsets that were read back from the index
  cutting     \* "idle", "cut" or "read"

chunkVars == <<document, parents, pieces, pieceLimit, readBack, cutting>>

Window(from, to) == [start |-> from, end |-> to]
Width(w) == w.end - w.start

-----------------------------------------------------------------------------
(* The canonical text *)

JoinedText(parts, gap) ==
  FlattenSeq([n \in DOMAIN parts |-> IF n = 1 THEN parts[n] ELSE [g \in 1..gap |-> "_"] \o parts[n]])

BlockText(raw) == JoinedText(raw.lines, 1)
Content(doc) == JoinedText([n \in DOMAIN doc.blocks |-> BlockText(doc.blocks[n])], 2)

\* Where the n-th of parts starts, if gap characters are between them.
OffsetOf(parts, n, gap) == IF n = 1 THEN 0 ELSE Len(JoinedText(SubSeq(parts, 1, n - 1), gap)) + gap

\* A table is cut between its rows, code between its lines; the fences stay
\* with the first and the last line.
UnitsOf(raw, start) ==
  LET n == Len(raw.lines)
      line(i) == LET from == start + OffsetOf(raw.lines, i, 1)
                 IN Window(from, from + Len(raw.lines[i]))
      ended(i) == line(i).end + IF i = n THEN 0 ELSE 1
  IN CASE raw.kind = "table" -> [i \in 1..n - 1 |-> line(i + 1)]
       [] raw.kind = "code" /\ n > 2 ->
            [i \in 1..n - 2 |-> Window(IF i = 1 THEN start ELSE line(i + 1).start,
                                       IF i = n - 2 THEN line(n).end ELSE ended(i + 1))]
       [] OTHER -> <<Window(start, start + Len(BlockText(raw)))>>

AssembledBlocks(doc) ==
  LET texts == [n \in DOMAIN doc.blocks |-> BlockText(doc.blocks[n])]
  IN [n \in DOMAIN texts |->
        LET raw == doc.blocks[n]
            start == OffsetOf(texts, n, 2)
        IN [kind |-> raw.kind, section |-> raw.section, title |-> raw.title,
            start |-> start, end |-> start + Len(texts[n]), units |-> UnitsOf(raw, start),
            opening |-> Len(raw.lines[1]) + 1,
            closing |-> Len(Last(raw.lines)) + 1]]

-----------------------------------------------------------------------------
(* Sentences *)

\* From first on, each place says what it adds and which place is next.
Chain(first, last, made, next) ==
  LET from[k \in first..last] == IF k = last THEN <<>> ELSE made[k] \o from[next[k]]
  IN from[first]

Inked(content, w) == {i \in w.start..w.end - 1 : content[i + 1] # "_"}

\* Without the white space around them; blank windows are left out.
Trimmed(content, windows) ==
  LET tight(inked) == IF inked = {} THEN <<>> ELSE <<Window(Min(inked), Max(inked) + 1)>>
  IN FlattenSeq([n \in DOMAIN windows |-> tight(Inked(content, windows[n]))])

SentenceSpans(content) ==
  LET n == Len(content)
      stops(p) == {i \in p + 1..n - 1 : content[i + 1] = "."}
      behind(i) == Min({e \in i + 1..n : e = n \/ content[e + 1] # "q"})
      cut == [p \in 0..n - 1 |-> behind(Min({n - 1} \cup stops(p)))]
  IN Trimmed(content, Chain(0, n, [p \in 0..n - 1 |-> <<Window(p, cut[p])>>], cut))

FixedLength(content, span, size, overlap) ==
  LET step == size - overlap
      last == Min({k \in 0..Width(span) : k * step + size >= Width(span)})
      piece(k) == LET from == span.start + k * step IN Window(from, Min({span.end, from + size}))
  IN Trimmed(content, [k \in 1..last + 1 |-> piece(k - 1)])

PreparedSpans(content, size, overlap) ==
  LET bounded(spans) ==
        [n \in DOMAIN spans |-> IF Width(spans[n]) <= size THEN <<spans[n]>>
                                ELSE FixedLength(content, spans[n], size, overlap)]
  IN FlattenSeq(bounded(SentenceSpans(content)))

\* The furthest of first..n up to which everything fits behind first.
Packed(first, n, Fits(_)) == Max({e \in first..n : \A i \in first + 1..e : Fits(i)})

\* The last sentences of a piece, but never its first, begin the next one.
NextCursor(spans, first, last, overlap) ==
  Min({last + 1} \cup
      {i \in first + 1..last : MapThenSumSet(LAMBDA n : Width(spans[n]), i..last) <= overlap})

\* Sentences are joined as far as they fit, from the first on.
JoinedSentences(content, spans, size, overlap) ==
  LET n == Len(spans)
      last == [c \in 1..n |-> Packed(c, n, LAMBDA i : spans[i].end - spans[c].start <= size)]
      joined == [c \in 1..n |-> <<Window(spans[c].start, spans[last[c]].end)>>]
      next == [c \in 1..n |-> IF last[c] = n THEN n + 1 ELSE NextCursor(spans, c, last[c], overlap)]
  IN Trimmed(content, Chain(1, n + 1, joined, next))

ContentSpans(content, size, overlap) ==
  JoinedSentences(content, PreparedSpans(content, size, overlap), size, overlap)

(* Mutant: the offsets of the part are taken for the text's. *)
SpansWithin_Relative(content, w, size, overlap) ==
  ContentSpans(SubSeq(content, w.start + 1, w.end), size, overlap)

\* The spans of the part of the text that lies in w.
SpansWithin(content, w, size, overlap) ==
  LET moved(spans) == [n \in DOMAIN spans |-> Window(w.start + spans[n].start, w.start + spans[n].end)]
  IN moved(ContentSpans(SubSeq(content, w.start + 1, w.end), size, overlap))

-----------------------------------------------------------------------------
(* Structure *)

Piece(w, kind, section, prefix, suffix, units) ==
  [start |-> w.start, end |-> w.end, kind |-> kind, section |-> section,
   prefix |-> prefix, suffix |-> suffix, units |-> units, parent |-> 0]

Plain(w) == Piece(w, "paragraph", 0, 0, 0, 1)

Prefix(block, w) == block.title + IF w.start > block.start THEN block.opening ELSE 0
Suffix(block, w) == IF block.kind = "code" /\ w.end < block.end THEN block.closing ELSE 0

\* Paragraphs of a section and page are kept together as far as they fit.
ProsePieces(content, block, paragraphs, size, overlap) ==
  LET room == Max({1, size - block.title})
      n == Len(paragraphs)
      wide(p) == Width(paragraphs[p]) > room
      last == [p \in 1..n |->
                 IF wide(p) THEN p
                 ELSE Packed(p, n, LAMBDA i : paragraphs[i].end - paragraphs[p].start <= room)]
      spans == [p \in 1..n |->
                  IF wide(p) THEN SpansWithin(content, paragraphs[p], room, Min({overlap, room - 1}))
                  ELSE <<Window(paragraphs[p].start, paragraphs[last[p]].end)>>]
      made(ws) == [k \in DOMAIN ws |-> Piece(ws[k], block.kind, block.section, block.title, 0, 1)]
  IN made(Chain(1, n + 1, spans, [p \in 1..n |-> last[p] + 1]))

\* Rows or lines are kept together as far as they fit with what is around them.
PackedUnits(block, units, size) ==
  LET n == Len(units)
      upTo(i, k) == Window(units[i].start, units[k].end)
      whole(w) == Prefix(block, w) + Width(w) + Suffix(block, w)
      last == [i \in 1..n |-> Packed(i, n, LAMBDA k : whole(upTo(i, k)) <= size)]
      piece(w, held) == Piece(w, block.kind, block.section, Prefix(block, w), Suffix(block, w), held)
      packed == [i \in 1..n |-> <<piece(upTo(i, last[i]), last[i] - i + 1)>>]
  IN Chain(1, n + 1, packed, [i \in 1..n |-> last[i] + 1])

UnitPieces(block, size, bounds) ==
  LET headed(units) ==
        IF block.kind = "table" /\ units # <<>> /\ bounds.start <= block.start
        THEN [units EXCEPT ![1].start = block.start] ELSE units
      whole(w) == IF w.start >= bounds.start /\ w.end <= bounds.end THEN <<w>> ELSE <<>>
  IN IF block.kind = "table" /\ block.units = <<>>
     THEN <<Piece(Window(Max({bounds.start, block.start}), Min({bounds.end, block.end})),
                  "table", block.section, block.title, 0, 0)>>
     ELSE PackedUnits(block, headed(FlattenSeq([i \in DOMAIN block.units |-> whole(block.units[i])])), size)

StructuralPieces(content, blocks, size, overlap, bounds) ==
  LET n == Len(blocks)
      clipped(k) == Window(Max({bounds.start, blocks[k].start}), Min({bounds.end, blocks[k].end}))
      prose(k) == blocks[k].kind \in {"paragraph", "heading"}
      run(k) == Packed(k, n, LAMBDA i : prose(i) /\ blocks[i].section = blocks[k].section
                                          /\ blocks[i].start < bounds.end)
      last == [k \in 1..n |-> IF Width(clipped(k)) > 0 /\ prose(k) THEN run(k) ELSE k]
      made == [k \in 1..n |->
                 IF Width(clipped(k)) <= 0 THEN <<>>
                 ELSE IF prose(k)
                      THEN ProsePieces(content, blocks[k],
                                       [i \in 1..last[k] - k + 1 |-> clipped(k + i - 1)], size, overlap)
                      ELSE UnitPieces(blocks[k], size, bounds)]
  IN Chain(1, n + 1, made, [k \in 1..n |-> last[k] + 1])

-----------------------------------------------------------------------------
(* The operations *)

CutUp(doc, budget, bounds) ==
  LET plain(spans) == [n \in DOMAIN spans |-> Plain(spans[n])]
  IN IF doc.structured
     THEN StructuralPieces(Content(doc), AssembledBlocks(doc), budget.size, budget.overlap, bounds)
     ELSE plain(SpansWithin(Content(doc), bounds, budget.size, budget.overlap))

ChunkInit ==
  /\ document = [structured |-> FALSE, blocks |-> <<>>]
  /\ parents = <<>> /\ pieces = <<>> /\ readBack = <<>>
  /\ pieceLimit \in Limits /\ cutting = "idle"

ChunkDocument ==
  /\ cutting = "idle"
  /\ document' \in Documents
  /\ pieces' = CutUp(document', pieceLimit, Window(0, Len(Content(document'))))
  /\ cutting' = "cut"
  /\ UNCHANGED <<parents, pieceLimit, readBack>>

\* Each parent is cut up once more; a child names its parent.
ChunkParentsAndChildren ==
  /\ cutting = "idle"
  /\ document' \in Documents
  /\ \E larger \in {b \in Limits : b.size >= pieceLimit.size} :
       parents' = CutUp(document', larger, Window(0, Len(Content(document'))))
  /\ pieces' = FlattenSeq([p \in DOMAIN parents' |->
                 LET children == CutUp(document', pieceLimit, Window(parents'[p].start, parents'[p].end))
                 IN [c \in DOMAIN children |-> [children[c] EXCEPT !.parent = p]]])
  /\ cutting' = "cut"
  /\ UNCHANGED <<pieceLimit, readBack>>

\* _read_indexed_content: by their starts, and of each what is new.
ReadIndexed ==
  /\ cutting = "cut"
  /\ LET before == {p \in (DOMAIN pieces) \X (DOMAIN pieces) :
                      \/ pieces[p[1]].start < pieces[p[2]].start
                      \/ pieces[p[1]].start = pieces[p[2]].start /\ p[1] < p[2]}
         nth == [n \in DOMAIN pieces |->
                   pieces[CHOOSE i \in DOMAIN pieces :
                            Cardinality({j \in DOMAIN pieces : <<j, i>> \in before}) + 1 = n]]
         readTo(n) == Max({0} \cup {nth[m].end : m \in 1..n - 1})
         new(n) == LET from == Max({readTo(n), nth[n].start})
                   IN [k \in 1..nth[n].end - from |-> from + k - 1]
     IN readBack' = FlattenSeq([n \in DOMAIN pieces |-> new(n)])
  /\ cutting' = "read"
  /\ UNCHANGED <<document, parents, pieces, pieceLimit>>

ChunkNext == ChunkDocument \/ ChunkParentsAndChildren \/ ReadIndexed

ChunkSpec == ChunkInit /\ [][ChunkNext]_chunkVars

-----------------------------------------------------------------------------
(* Properties *)

InkOf(doc) == Inked(Content(doc), Window(0, Len(Content(doc))))

Length(p) == p.prefix + Width(p) + p.suffix

\* A row or a line is never cut, and a title may leave no room.
MayExceed(p) ==
  (p.kind \in {"table", "code"} /\ p.units <= 1) \/ p.prefix >= pieceLimit.size

ChunkTypeOK ==
  /\ cutting \in {"idle", "cut", "read"} /\ pieceLimit \in Limits
  /\ cutting # "idle" => document \in Documents
  /\ \A p \in ToSet(pieces) \cup ToSet(parents) :
       p.start \in Nat /\ p.end \in p.start + 1..Len(Content(document))

(* However a document is cut, the pieces in the index hold all its text, in  *)
(* its order, so that it can be read back from them; none is blank, which    *)
(* the embedder would drop and with it the document; none is longer than the *)
(* budget, unless it is one row, one line or all title; and a child lies in  *)
(* its parent, in the parent's section, and no parent has none.              *)
(* chunk_documents, chunk_documents_parent_child, _read_indexed_content      *)
PiecesHoldTheText ==
  /\ ChunkTypeOK
  /\ cutting = "read" =>
       /\ InkOf(document) \subseteq ToSet(readBack)
       /\ \A m, n \in DOMAIN readBack : m < n => readBack[m] < readBack[n]
  /\ \A p \in ToSet(pieces) :
       /\ Inked(Content(document), p) # {} \/ p.prefix + p.suffix > 0
       /\ Length(p) <= pieceLimit.size \/ MayExceed(p)
       /\ p.parent # 0 =>
            LET q == parents[p.parent]
            IN q.start <= p.start /\ p.end <= q.end /\ q.section = p.section
  /\ \A q \in DOMAIN parents : \E p \in ToSet(pieces) : p.parent = q
=============================================================================
