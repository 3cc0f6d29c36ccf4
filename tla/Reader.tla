------------------------------- MODULE Reader -------------------------------
(***************************************************************************)
(* XML::Reader (ruby_xml_reader.c): a cursor that moves over a document,   *)
(* beside the Ruby wrappers of that document and of its nodes.             *)
(*                                                                         *)
(* A reader made of a string, a file or an IO object builds the tree of    *)
(* its document as it reads and frees each node when the cursor leaves it. *)
(* A reader made of a Document (xmlReaderWalker) frees nothing.  Node      *)
(* wraps the node under the cursor, expand in addition the document, which *)
(* its wrapper then owns.                                                  *)
(*                                                                         *)
(* Every document has the same small tree, given by Parent; its nodes are  *)
(* numbered in document order, 0 is the document itself.  That libxml2     *)
(* parses ahead of the cursor piece by piece is left out: it changes       *)
(* nothing about who frees a node.  The program does not edit the tree     *)
(* while a reader is on it.                                                *)
(***************************************************************************)
EXTENDS Naturals, Sequences, FiniteSets

CONSTANTS
  Readers,       \* slots of the Ruby heap for Reader objects
  Doc,           \* memory cells for documents with their trees
  NULL,
  Parent,        \* the parent of each node, 0 for the root element
  Attributed,    \* the nodes that have attributes
  MaxPreserves,  \* bound: expand calls of one reader whose node it is still in
  Rules          \* the usage rules, defined below, that the program keeps

ASSUME CellsDistinct ==
  Readers \cap (Doc \cup (Doc \X Nat)) = {} /\ NULL \notin Readers \cup Doc

ASSUME DocumentOrder ==
  /\ Parent \in Seq(Nat)
  /\ Parent # <<>> /\ Parent[1] = 0
  /\ \A p \in 2..Len(Parent) : Parent[p] \in 1..p - 1

ASSUME AttributedAreNodes == Attributed \subseteq DOMAIN Parent

ASSUME BoundIsNat == MaxPreserves \in Nat

ASSUME RulesAreKnown == Rules \subseteq {"keeps_walked", "keeps_expanded", "momentary", "sole_reader"}

VARIABLES
  reader,   \* the Reader in each slot
  alive,    \* of each document, the cells in use
  marked,   \* of each document, the nodes libxml2 has flagged as preserved
  claimed,  \* of each document, the nodes xmlTextReaderPreserve was called for
  wrapped,  \* the documents and nodes that have a wrapper
  held,     \* the wrappers and readers the program's variables refer to
  garbage   \* during a sweep, those still to be finalized

tree == <<alive, marked, claimed>>

vars == <<reader, tree, wrapped, held, garbage>>

Pos == DOMAIN Parent

Cell == {0} \cup Pos

\* The cell of document d at position p, as what a wrapper refers to.
Cells(d, P) == {d} \X P

ReaderRecord ==
  [kind : {"none", "stream", "walker"}, mode : {"start", "reading", "error", "end", "closed"},
   doc : Doc \cup {NULL}, node : Cell, back : BOOLEAN, attr : BOOLEAN,
   preserves : 0..MaxPreserves, preserve : BOOLEAN]

Blank(k, d) ==
  [kind |-> k, mode |-> "start", doc |-> d, node |-> 0, back |-> FALSE, attr |-> FALSE,
   preserves |-> 0, preserve |-> FALSE]

NoReader == Blank("none", NULL)

Live == {r \in Readers : reader[r].kind # "none"}

Init ==
  /\ reader = [r \in Readers |-> NoReader]
  /\ alive = [d \in Doc |-> {}]
  /\ marked = [d \in Doc |-> {}]
  /\ claimed = [d \in Doc |-> {}]
  /\ wrapped = {}
  /\ held = {}
  /\ garbage = {}

Running == garbage = {} /\ UNCHANGED garbage

-----------------------------------------------------------------------------
(* The tree.                                                               *)

\* p and the nodes it is in.
Above[p \in Pos] == {p} \cup IF Parent[p] = 0 THEN {} ELSE Above[Parent[p]]

Below(p) == {q \in Pos : p \in Above[q]}

Children(d, p) == {q \in Pos \cap alive[d] : Parent[q] = p}

NextSiblings(d, p) == {q \in Children(d, Parent[p]) : q > p}

First(S) == CHOOSE q \in S : \A s \in S : q <= s

\* Where the cursor goes when it leaves node p.
After(d, p) ==
  IF NextSiblings(d, p) # {} THEN [node |-> First(NextSiblings(d, p)), back |-> FALSE]
                             ELSE [node |-> Parent[p], back |-> TRUE]

\* Mutant of deregisterNode: the wrappers are left as they are.
deregisterNode_not(W, freed) == W

\* rxml_node_deregisterNode, called for each structure that is freed: its
\* wrapper loses its pointer and is of no account any more.
deregisterNode(W, freed) == W \ freed

\* libxml2 frees the cells P of document d.
Free(d, P) ==
  /\ alive' = [alive EXCEPT ![d] = @ \ P]
  /\ marked' = [marked EXCEPT ![d] = @ \ P]
  /\ claimed' = [claimed EXCEPT ![d] = @ \ P]
  /\ wrapped' = deregisterNode(wrapped, Cells(d, P))

\* The new tree in the cell of document d.
Build(d) == alive' = [alive EXCEPT ![d] = Cell] /\ UNCHANGED <<marked, claimed>>

-----------------------------------------------------------------------------
(* Making documents and readers.                                           *)

\* A Document made by other means: Parser#parse.
document_parse(d) ==
  /\ Running
  /\ alive[d] = {}
  /\ Build(d)
  /\ wrapped' = wrapped \cup {<<d, 0>>}
  /\ held' = held \cup {<<d, 0>>}
  /\ UNCHANGED reader

\* "sole_reader": a document is not walked while another reader builds it.
SoleReader(d) ==
  "sole_reader" \in Rules =>
    ~\E r \in Live : /\ reader[r].kind = "stream" /\ reader[r].doc = d
                     /\ reader[r].mode \notin {"closed", "end"}

\* Reader.document(doc): the wrapper of the document is not remembered.
reader_document(r, d) ==
  /\ Running
  /\ r \notin Live
  /\ <<d, 0>> \in held
  /\ SoleReader(d)
  /\ reader' = [reader EXCEPT ![r] = Blank("walker", d)]
  /\ held' = held \cup {r}
  /\ UNCHANGED <<tree, wrapped>>

\* Reader.string, Reader.file and Reader.io: nothing is parsed yet.
reader_stream(r) ==
  /\ Running
  /\ r \notin Live
  /\ reader' = [reader EXCEPT ![r] = Blank("stream", NULL)]
  /\ held' = held \cup {r}
  /\ UNCHANGED <<tree, wrapped>>

-----------------------------------------------------------------------------
(* Moving the cursor.                                                      *)

Stream(r) == reader[r].kind = "stream"

On(r) == Running /\ r \in held /\ r \in Live

Put(r, p, mode) ==
  reader' = [reader EXCEPT ![r] =
               [@ EXCEPT !.mode = mode, !.node = p, !.back = FALSE, !.attr = FALSE]]

\* The stream leaves the node under the cursor.  The claim on it is over;
\* it is freed unless it is preserved or inside another claim.
LeaveStream(r) ==
  LET d    == reader[r].doc
      p    == reader[r].node
      left == IF p \in claimed[d] /\ reader[r].preserves > 0
              THEN reader[r].preserves - 1 ELSE reader[r].preserves
      to   == After(d, p)
  IN /\ IF left = 0 /\ p \notin marked[d]
        THEN Free(d, Below(p) \cap alive[d]) ELSE UNCHANGED <<tree, wrapped>>
     /\ reader' = [reader EXCEPT ![r] =
                     [@ EXCEPT !.mode = IF to.node = 0 THEN "end" ELSE "reading",
                               !.node = to.node, !.back = to.back /\ to.node # 0,
                               !.preserves = left, !.attr = FALSE]]

\* A walker leaves it: at the end it stays on the root element.
LeaveWalker(r) ==
  LET to == After(reader[r].doc, reader[r].node)
  IN /\ IF to.node = 0 THEN Put(r, reader[r].node, "end")
        ELSE reader' = [reader EXCEPT ![r] = [@ EXCEPT !.node = to.node, !.back = to.back,
                                                       !.attr = FALSE]]
     /\ UNCHANGED <<tree, wrapped>>

\* The first step: to the root element.
Enter(r, d) ==
  reader' = [reader EXCEPT ![r] = [@ EXCEPT !.mode = "reading", !.doc = d, !.node = 1]]

\* Reader#read, when it returns true or false.
reader_read(r) ==
  /\ On(r)
  /\ \/ /\ reader[r].mode = "start" /\ Stream(r)
        /\ \E d \in Doc : alive[d] = {} /\ Enter(r, d) /\ Build(d)
        /\ UNCHANGED wrapped
     \/ /\ reader[r].mode \in {"start", "closed"} /\ ~Stream(r)
        /\ IF Children(reader[r].doc, 0) = {} THEN Put(r, 0, "end") ELSE Enter(r, reader[r].doc)
        /\ UNCHANGED <<tree, wrapped>>
     \/ /\ reader[r].mode = "reading"
        /\ IF ~reader[r].back /\ Children(reader[r].doc, reader[r].node) # {}
           THEN /\ Put(r, First(Children(reader[r].doc, reader[r].node)), "reading")
                /\ UNCHANGED <<tree, wrapped>>
           ELSE IF Stream(r) THEN LeaveStream(r) ELSE LeaveWalker(r)
  /\ held' = held \cap (Readers \cup wrapped')

\* Reader#read of a stream, when it raises: the input is not well-formed.
\* A reader that failed, or was closed, fails again.
reader_read_fails(r) ==
  /\ On(r)
  /\ Stream(r)
  /\ \/ /\ reader[r].mode = "start"
        /\ \/ reader' = [reader EXCEPT ![r].mode = "error"] /\ UNCHANGED tree
           \/ \E d \in Doc :
                /\ alive[d] = {}
                /\ Build(d)
                /\ reader' = [reader EXCEPT ![r].mode = "error", ![r].doc = d]
     \/ /\ reader[r].mode = "reading"
        /\ reader' = [reader EXCEPT ![r].mode = "error", ![r].attr = FALSE]
        /\ UNCHANGED tree
  /\ UNCHANGED <<wrapped, held>>

\* Reader#next: past the subtree under the cursor.  Where a walker that has
\* no next sibling ends up is left open.
reader_next(r) ==
  /\ On(r)
  /\ reader[r].mode = "reading"
  /\ IF Stream(r) THEN LeaveStream(r)
     ELSE /\ IF NextSiblings(reader[r].doc, reader[r].node) # {} THEN LeaveWalker(r)
             ELSE \E p \in Pos \cap alive[reader[r].doc], m \in {"reading", "end"} : Put(r, p, m)
          /\ UNCHANGED <<tree, wrapped>>
  /\ held' = held \cap (Readers \cup wrapped')

\* Reader#next_sibling, which libxml2 has only for documents.
reader_next_sibling(r) ==
  /\ On(r)
  /\ ~Stream(r)
  /\ reader[r].mode = "reading"
  /\ NextSiblings(reader[r].doc, reader[r].node) # {}
  /\ LeaveWalker(r)
  /\ UNCHANGED held

\* Reader#move_to_attribute, _first_attribute, _next_attribute, and
\* Reader#move_to_element.
reader_move_to_attr(r, b) ==
  /\ On(r)
  /\ reader[r].mode = "reading" /\ ~reader[r].back
  /\ reader[r].node \in Attributed
  /\ reader' = [reader EXCEPT ![r].attr = b]
  /\ UNCHANGED <<tree, wrapped, held>>

-----------------------------------------------------------------------------
(* Handing out nodes.                                                      *)

\* rxml_node_wrap, rxml_document_wrap: bound, and held by the program.
Wrap(S) == wrapped' = wrapped \cup S

\* Reader#node.  Without a current node it dereferences NULL: no step.
reader_node(r) ==
  /\ On(r)
  /\ reader[r].node # 0 /\ ~reader[r].attr
  /\ Wrap({<<reader[r].doc, reader[r].node>>})
  /\ held' = held \cup {<<reader[r].doc, reader[r].node>>}
  /\ UNCHANGED <<reader, tree>>

\* xmlTextReaderPreserve and xmlTextReaderCurrentDoc: the node, unless an
\* attribute is under the cursor, is claimed, what it is in is preserved,
\* and the reader will not free its document.
Preserve(r) ==
  LET d == reader[r].doc
      p == reader[r].node
  IN /\ reader[r].preserves < MaxPreserves
     /\ marked' = [marked EXCEPT ![d] = @ \cup Above[p]]
     /\ claimed' = [claimed EXCEPT ![d] = IF reader[r].attr THEN @ ELSE @ \cup {p}]
     /\ reader' = [reader EXCEPT ![r].preserves = IF Stream(r) THEN @ + 1 ELSE 0,
                                ![r].preserve = Stream(r)]
     /\ UNCHANGED alive

\* Mutants of reader_expand: without xmlTextReaderCurrentDoc, without
\* xmlTextReaderPreserve.
reader_expand_owning(r) ==
  /\ On(r)
  /\ reader[r].node # 0
  /\ Wrap({<<reader[r].doc, 0>>, <<reader[r].doc, reader[r].node>>})
  /\ held' = held \cup {<<reader[r].doc, reader[r].node>>}
  /\ UNCHANGED <<reader, tree>>

reader_expand_passing(r) ==
  /\ On(r)
  /\ reader[r].node # 0
  /\ reader' = [reader EXCEPT ![r].preserve = Stream(r)]
  /\ claimed' = [claimed EXCEPT ![reader[r].doc] = @ \cup {reader[r].node}]
  /\ Wrap({<<reader[r].doc, 0>>, <<reader[r].doc, reader[r].node>>})
  /\ held' = held \cup {<<reader[r].doc, reader[r].node>>}
  /\ UNCHANGED <<alive, marked>>

\* Reader#expand.  It returns nil, and does nothing, without a current node
\* or when the rest of the node is not well-formed.
reader_expand(r) ==
  /\ On(r)
  /\ reader[r].node # 0
  /\ Preserve(r)
  /\ Wrap({<<reader[r].doc, 0>>, <<reader[r].doc, reader[r].node>>})
  /\ held' = held \cup {<<reader[r].doc, reader[r].node>>}

\* Reader#expand when the rest of the node is not well-formed.
reader_expand_fails(r) ==
  /\ On(r)
  /\ Stream(r)
  /\ reader[r].mode = "reading"
  /\ reader' = [reader EXCEPT ![r].mode = "error"]
  /\ UNCHANGED <<tree, wrapped, held>>

Related(p) == {q \in Pos : q = Parent[p] \/ Parent[q] = p \/ Parent[q] = Parent[p]}

\* The getters of a Node: to a node linked to it, or to its document, which
\* raises when it has no wrapper.
node_get(d, p) ==
  /\ Running
  /\ <<d, p>> \in held /\ p # 0
  /\ \/ \E q \in Related(p) \cap alive[d] : Wrap({<<d, q>>}) /\ held' = held \cup {<<d, q>>}
     \/ <<d, 0>> \in wrapped /\ UNCHANGED wrapped /\ held' = held \cup {<<d, 0>>}
  /\ UNCHANGED <<reader, tree>>

-----------------------------------------------------------------------------
(* Closing and collecting.                                                 *)

\* Mutant of Owns: a reader frees the document it walks.
Owns_walked(r) == reader[r].doc # NULL /\ ~reader[r].preserve

\* Whether the reader frees its document, when closed or finalized.
Owns(r) == Stream(r) /\ reader[r].doc # NULL /\ ~reader[r].preserve

\* Reader#close
reader_close(r) ==
  /\ On(r)
  /\ reader[r].mode # "closed"
  /\ reader' = [reader EXCEPT ![r] =
                  [Blank(@.kind, IF Stream(r) THEN NULL ELSE @.doc) EXCEPT
                     !.mode = IF ~Stream(r) /\ reader[r].mode = "end" THEN "end" ELSE "closed"]]
  /\ IF Owns(r) THEN Free(reader[r].doc, Cell) ELSE UNCHANGED <<tree, wrapped>>
  /\ held' = held \cap (Readers \cup wrapped')

drop(o) ==
  /\ Running
  /\ o \in held
  /\ held' = held \ {o}
  /\ UNCHANGED <<reader, tree, wrapped>>

\* rxml_node_mark: a node keeps the wrapper of its document, which has to
\* exist; the wrapper of a reader is made without a mark function.
node_mark(d, p) == {<<d, 0>>}

Marked ==
  held \cup UNION {node_mark(c[1], c[2]) : c \in {w \in held \ Readers : w[2] # 0}}

Keeps(r) == reader[r].doc # NULL => <<reader[r].doc, 0>> \in Marked

\* "keeps_walked": the program keeps the document a reader it uses walks.
KeepsWalked ==
  "keeps_walked" \in Rules => \A r \in held \cap Live : ~Stream(r) => Keeps(r)

\* "keeps_expanded": while a reader is used that has handed out its document
\* with expand, the program keeps that document, or a node of it.
KeepsExpanded ==
  "keeps_expanded" \in Rules => \A r \in held \cap Live : reader[r].preserve => Keeps(r)

\* "momentary": a node from Reader#node is not kept until a collection if
\* the document has no wrapper: rxml_node_mark_common calls rb_bug.
Momentary ==
  "momentary" \in Rules => Marked \ Readers \subseteq wrapped

gc_mark ==
  /\ garbage = {}
  /\ KeepsWalked /\ KeepsExpanded /\ Momentary
  /\ garbage' = (wrapped \cup Live) \ Marked
  /\ UNCHANGED <<reader, tree, wrapped, held>>

\* xmlFreeTextReader, rxml_document_free, rxml_node_free, in any order.  A
\* node whose document is not NULL is not freed with its wrapper.
sweep(o) ==
  /\ o \in garbage
  /\ IF o \in Readers
     THEN /\ reader' = [reader EXCEPT ![o] = NoReader]
          /\ IF Owns(o) THEN Free(reader[o].doc, Cell) ELSE UNCHANGED <<tree, wrapped>>
     ELSE /\ UNCHANGED reader
          /\ IF o[2] = 0 THEN Free(o[1], Cell)
             ELSE UNCHANGED tree /\ wrapped' = wrapped \ {o}
  /\ garbage' = (garbage \ {o}) \cap (Readers \cup wrapped')
  /\ held' = held \cap (Readers \cup wrapped')

-----------------------------------------------------------------------------

Make ==
  \/ \E d \in Doc : document_parse(d)
  \/ \E r \in Readers, d \in Doc : reader_document(r, d)
  \/ \E r \in Readers : reader_stream(r)

Move ==
  \E r \in Readers :
    \/ reader_read(r) \/ reader_read_fails(r) \/ reader_next(r) \/ reader_next_sibling(r)
    \/ \E b \in BOOLEAN : reader_move_to_attr(r, b)

HandOut ==
  \/ \E r \in Readers : reader_node(r) \/ reader_expand(r) \/ reader_expand_fails(r)
  \/ \E d \in Doc, p \in Pos : node_get(d, p)

Collect == gc_mark \/ \E o \in Readers \cup (Doc \X Cell) : sweep(o)

Next ==
  \/ Make \/ Move \/ HandOut \/ Collect
  \/ \E r \in Readers : reader_close(r)
  \/ \E o \in held : drop(o)

Spec == Init /\ [][Next]_vars

-----------------------------------------------------------------------------
(* What the query methods read, apart from the reader itself.              *)

\* node_type, name, local_name, prefix, namespace_uri, value, has_value?,
\* attribute_count, [], default?, empty_element? and the like.
node_queries(r) == {reader[r].node} \ {0}

\* base_uri, xml_lang and lookup_namespace also look at what the node is in.
scope_queries(r) == IF reader[r].node = 0 THEN {} ELSE Above[reader[r].node] \cup {0}

\* encoding, standalone, xml_version and valid? look at the document.
document_queries(r) == IF reader[r].doc = NULL THEN {} ELSE {0}

\* read_inner_xml, read_outer_xml and read_string go over the subtree, if
\* the cursor of a stream is not on its way back through it.
subtree_queries(r) ==
  IF reader[r].node = 0 \/ reader[r].back \/ ~Stream(r) THEN {} ELSE Below(reader[r].node)

Queries(r) ==
  node_queries(r) \cup scope_queries(r) \cup document_queries(r) \cup subtree_queries(r)

-----------------------------------------------------------------------------
(* Properties.                                                             *)

\* The variables are typed; only structures in use have a wrapper, and what
\* the program holds has not been finalized.
ReaderTypeOK ==
  /\ reader \in [Readers -> ReaderRecord]
  /\ \A d \in Doc : claimed[d] \cup marked[d] \subseteq alive[d] \cap Pos
  /\ \A w \in wrapped : w[2] \in alive[w[1]]
  /\ held \subseteq wrapped \cup Live
  /\ garbage \subseteq (wrapped \cup Live) \ held

\* "By accessing the returned node, we take ownership of the reader's
\* document [...] Otherwise it will be freed twice" (ruby_xml_reader.c:783):
\* in every order of reads, closes and finalizers a document has one owner,
\* its wrapper or one reader; so it is freed once, and never forgotten.
OneOwner ==
  \A d \in Doc : alive[d] # {} =>
    Cardinality({r \in Live : Owns(r) /\ reader[r].doc = d}
                  \cup {w \in wrapped : w = <<d, 0>>}) = 1

\* The cursor of a reader the program holds, and all a query about it looks
\* at, is in use: the tree is freed behind the cursor only.
QueriesInUse ==
  \A r \in held \cap Live :
    Queries(r) \subseteq IF reader[r].doc = NULL THEN {} ELSE alive[reader[r].doc]

\* A node from expand stays as it is for as long as the program holds it,
\* with all of its subtree: reading on, closing or collecting the reader,
\* letting go of the document takes nothing away from it.
ExpandedStays ==
  [][\A w \in held \ Readers :
       w[2] \in claimed[w[1]] => Below(w[2]) \cap alive[w[1]] \subseteq alive'[w[1]]]_vars
=============================================================================
