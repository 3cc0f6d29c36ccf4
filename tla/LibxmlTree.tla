----------------------------- MODULE LibxmlTree -----------------------------
(***************************************************************************)
(* The part of libxml2 that libxml-ruby builds on: the heap of xmlNode and *)
(* xmlDoc structures, with the pointers that link them, and the functions  *)
(* the extension calls to edit it.  libxml2 is not part of the repository: *)
(* each function is modelled from how src/ext/libxml uses it and from      *)
(* libxml2's documented effect on the pointers.                            *)
(*                                                                         *)
(* A heap maps every cell to the record of its fields.  A cell whose type  *)
(* is "free" holds no structure.  Names, content and attributes are left   *)
(* out; text nodes are told apart because libxml2 merges adjacent ones and *)
(* frees one of them, comments and CDATA sections, both called "comment",  *)
(* because they are not merged and are nobody's root element.              *)
(***************************************************************************)
EXTENDS FiniteSets

CONSTANTS
  Node,    \* memory cells for xmlNode structures
  Doc,     \* memory cells for xmlDoc structures
  Object,  \* slots of the Ruby heap: what a _private field can refer to
  NULL

ASSUME CellsDistinct == /\ Node \cap Doc = {}
                        /\ NULL \notin Node \cup Doc \cup Object

Cell == Node \cup Doc

XmlRecord ==
  [type : {"free", "element", "text", "comment", "document"},
   parent : Cell \cup {NULL},   doc : Doc \cup {NULL},
   next : Node \cup {NULL},     prev : Node \cup {NULL},
   children : Node \cup {NULL}, last : Node \cup {NULL},
   private : Object \cup {NULL}]

Heap == [Cell -> XmlRecord]

\* The structure xmlNewNode, xmlNewText, xmlNewComment, xmlNewCDataBlock or
\* xmlNewDoc returns: unlinked.
Blank(t) ==
  [type |-> t, parent |-> NULL, doc |-> NULL, next |-> NULL, prev |-> NULL,
   children |-> NULL, last |-> NULL, private |-> NULL]

InUse(h) == {c \in Cell : h[c].type # "free"}

FreeNodes(h) == Node \ InUse(h)

\* No memory that has been given back is bound to a Ruby object.
FreeIsUnbound(h) == \A c \in Cell : h[c].type = "free" => h[c].private = NULL

-----------------------------------------------------------------------------
(* Walking the heap.                                                       *)

\* The smallest set that contains seed and is closed under the successors:
\* a cell is outside it if some closed set that contains seed avoids it.
Closure(seed, succ) ==
  {c \in Cell : \A S \in SUBSET (Cell \ {c}) :
     seed \subseteq S => \E x \in S : ~(succ[x] \subseteq S)}

\* What a walk of the child list of c reaches: its children, following
\* next, and everything below them.
Below(h, c) ==
  Closure({h[c].children} \ {NULL},
          [x \in Cell |-> {h[x].children, h[x].next} \ {NULL}])

Subtree(h, c) == {c} \cup Below(h, c)

\* c and the cells a walk of parent pointers from it visits.
Ancestors(h, c) == Closure({c}, [x \in Cell |-> {h[x].parent} \ {NULL}])

\* Whether that walk ends, and where.
HasTop(h, c) == \E t \in Ancestors(h, c) : h[t].parent = NULL

Top(h, c) == CHOOSE t \in Ancestors(h, c) : h[t].parent = NULL

Siblings(h, c) ==
  Closure({h[c].children} \ {NULL}, [x \in Cell |-> {h[x].next} \ {NULL}])

-----------------------------------------------------------------------------
(* Editing the heap.                                                       *)

\* xmlUnlinkNode
Unlink(h, n) ==
  [m \in Cell |->
     IF m = n
     THEN [h[n] EXCEPT !.parent = NULL, !.next = NULL, !.prev = NULL]
     ELSE [h[m] EXCEPT
             !.children = IF m = h[n].parent /\ @ = n THEN h[n].next ELSE @,
             !.last     = IF m = h[n].parent /\ @ = n THEN h[n].prev ELSE @,
             !.next     = IF m = h[n].prev THEN h[n].next ELSE @,
             !.prev     = IF m = h[n].next THEN h[n].prev ELSE @]]

\* xmlSetTreeDoc: the node and everything below it.
SetTreeDoc(h, n, d) ==
  LET S == Subtree(h, n)
  IN [m \in Cell |-> IF m \in S THEN [h[m] EXCEPT !.doc = d] ELSE h[m]]

\* The heap once the cells of dead have been given back.
Release(h, dead) == [m \in Cell |-> IF m \in dead THEN Blank("free") ELSE h[m]]

\* What an edit leaves: the heap, the cells freed, the node it returns.
Edited(h, r) == [heap |-> h, dead |-> {}, ret |-> r]

\* A text node (or, under a text parent, any node) whose content is merged
\* into another node is freed with its children; the other one is returned.
Merged(h, n, into) ==
  [heap |-> Release(h, Subtree(h, n)), dead |-> Subtree(h, n), ret |-> into]

IsText(h, c) == c # NULL /\ h[c].type = "text"

\* Link n, already unlinked, under parent p between its siblings a and b.
Splice(h, n, p, a, b) ==
  [m \in Cell |->
     IF m = n
     THEN [h[n] EXCEPT !.parent = p, !.prev = a, !.next = b]
     ELSE [h[m] EXCEPT
             !.next     = IF m = a THEN n ELSE @,
             !.prev     = IF m = b THEN n ELSE @,
             !.children = IF m = p /\ a = NULL THEN n ELSE @,
             !.last     = IF m = p /\ b = NULL THEN n ELSE @]]

\* xmlAddChild appends n to the children of p.  Unlike the functions below
\* it does not unlink n first: siblings n came with stay linked to it.
AddChild(h, p, n) ==
  LET g == SetTreeDoc(h, n, h[p].doc)
      a == h[p].last
  IN IF IsText(h, p) /\ p # n THEN Merged(h, n, p)
     ELSE IF IsText(h, n) /\ IsText(h, a) /\ a # n THEN Merged(h, n, a)
     ELSE Edited([m \in Cell |-> [g[m] EXCEPT
                    !.parent   = IF m = n THEN p ELSE @,
                    !.prev     = IF m = n /\ a # NULL THEN a ELSE @,
                    !.next     = IF m = a THEN n ELSE @,
                    !.children = IF m = p /\ @ = NULL THEN n ELSE @,
                    !.last     = IF m = p THEN n ELSE @]], n)

\* xmlAddNextSibling: move n behind s.
AddNextSibling(h, s, n) ==
  LET u == Unlink(h, n)
  IN IF IsText(u, n) /\ IsText(u, s) THEN Merged(u, n, s)
     ELSE IF IsText(u, n) /\ IsText(u, u[s].next) THEN Merged(u, n, u[s].next)
     ELSE Edited(Splice(SetTreeDoc(u, n, u[s].doc), n, u[s].parent, s, u[s].next), n)

\* xmlAddSibling: move n behind s, the last sibling; a node that is the last
\* one itself it takes from its parent and links to itself.
AddSibling(h, s, n) ==
  IF n = s /\ ~IsText(h, n)
  THEN Edited([Unlink(h, n) EXCEPT ![n].prev = n, ![n].next = n], n)
  ELSE AddNextSibling(h, s, n)

\* xmlAddPrevSibling: move n before s.
AddPrevSibling(h, s, n) ==
  LET u == Unlink(h, n)
  IN IF IsText(u, n) /\ IsText(u, s) THEN Merged(u, n, s)
     ELSE IF IsText(u, n) /\ IsText(u, u[s].prev) THEN Merged(u, n, u[s].prev)
     ELSE Edited(Splice(SetTreeDoc(u, n, u[s].doc), n, u[s].parent, u[s].prev, s), n)

\* xmlDocGetRootElement: the first element among the children of d.
RootElement(h, d) ==
  LET elements  == {n \in Siblings(h, d) \cap Node : h[n].type = "element"}
      upTo(n)   == Closure({n}, [x \in Cell |-> {h[x].prev} \ {NULL}])
      first     == {n \in elements : upTo(n) \cap elements = {n}}
  IN IF first = {} THEN NULL ELSE CHOOSE n \in first : TRUE

\* xmlDocSetRootElement: n takes the place of the root element of d, which
\* is returned unlinked, its doc pointer left as it is; without a root
\* element n is appended to the children of d.
DocSetRootElement(h, d, n) ==
  LET u   == SetTreeDoc(Unlink(h, n), n, d)
      old == RootElement(u, d)
  IN IF old # NULL
     THEN Edited([Splice(u, n, d, u[old].prev, u[old].next) EXCEPT
                    ![old].parent = NULL, ![old].next = NULL, ![old].prev = NULL], old)
     ELSE IF IsText(u, n) /\ IsText(u, u[d].last) THEN Merged(u, n, NULL)
     ELSE Edited(Splice(u, n, d, u[d].last, NULL), NULL)

\* xmlNodeSetContent: an element's children are freed and replaced by one
\* text node c, or by none when the content is empty (c = NULL).
NodeSetContent(h, n, c) ==
  LET dead == Below(h, n)
      g    == Release(h, dead)
  IN IF h[n].type # "element" THEN Edited(h, n)
     ELSE [heap |-> [m \in Cell |->
                       IF m = c THEN [Blank("text") EXCEPT !.parent = n, !.doc = h[n].doc]
                       ELSE IF m = n THEN [g[n] EXCEPT !.children = c, !.last = c]
                       ELSE g[m]],
           dead |-> dead, ret |-> n]

\* What xmlParseDocument builds: document d with a root element n, whose
\* content is the text node c unless NULL.
ParseDocument(h, d, n, c) ==
  [m \in Cell |->
     IF m = d THEN [Blank("document") EXCEPT !.children = n, !.last = n]
     ELSE IF m = n THEN [Blank("element") EXCEPT !.parent = d, !.doc = d,
                                                 !.children = c, !.last = c]
     ELSE IF m = c THEN [Blank("text") EXCEPT !.parent = n, !.doc = d]
     ELSE h[m]]

\* xmlNodeAddContent with text that has to become a text node c of its own.
NodeAddContent(h, n, c) == AddChild([h EXCEPT ![c] = Blank("text")], n, c)

\* xmlCopyNode: the structures of S copied to the cells f maps them to;
\* links that lead out of S are NULL in the copy.
CopyNode(h, S, f) ==
  LET image(x) == IF x \in S THEN f[x] ELSE NULL
      copy(x)  == [Blank(h[x].type) EXCEPT
                     !.parent = image(h[x].parent), !.next = image(h[x].next),
                     !.prev = image(h[x].prev),     !.children = image(h[x].children),
                     !.last = image(h[x].last)]
  IN [m \in Cell |-> IF \E x \in S : f[x] = m
                     THEN copy(CHOOSE x \in S : f[x] = m) ELSE h[m]]

-----------------------------------------------------------------------------
(* What a heap that can be walked safely looks like.                       *)

Links(h, c) ==
  {h[c].parent, h[c].doc, h[c].next, h[c].prev, h[c].children, h[c].last} \ {NULL}

\* The sibling pointers agree with each other and with the parent's.
LinkedInPlace(h, n) ==
  LET p == h[n].parent
  IN /\ h[n].next # NULL => h[h[n].next].prev = n /\ h[h[n].next].parent = p
     /\ h[n].prev # NULL => h[h[n].prev].next = n /\ h[h[n].prev].parent = p
     /\ p # NULL => /\ (h[n].prev = NULL) <=> (h[p].children = n)
                    /\ (h[n].next = NULL) <=> (h[p].last = n)
     /\ p = NULL => h[n].next = NULL /\ h[n].prev = NULL
     /\ n \notin Below(h, n)
=============================================================================
