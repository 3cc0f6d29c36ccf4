-------------------------- MODULE NodeMemory_proofs --------------------------
(***************************************************************************)
(* Proofs about NodeMemory, for any number of nodes, documents and Ruby    *)
(* objects.  Whichever usage rules the program keeps: the types, that a    *)
(* structure and its wrapper always refer to each other, and that nothing  *)
(* but its own end parts a structure from an object the program holds      *)
(* (IInv).  If it keeps them all: that trees stay trees, that nothing      *)
(* dangles or leaks, that a collection is exact, and the refinement of     *)
(* NodeIdentity (IInv /\ TInv).                                            *)
(***************************************************************************)
EXTENDS NodeMemory, LibxmlTree_proofs

\* The two heaps are typed, and _private and DATA_PTR are inverse; freed
\* structures and empty slots take no part in that; wrappers are of the
\* class their structure has.
Consistent(h, r) ==
  /\ h \in Heap
  /\ r \in [Object -> RubyRecord]
  /\ FreeIsUnbound(h)
  /\ \A o \in Object : r[o].class = "none" => r[o].ptr = NULL
  /\ \A o \in Object : r[o].ptr # NULL => (r[o].class = "Node" <=> r[o].ptr \in Node)
  /\ \A o \in Object : r[o].ptr # NULL => h[r[o].ptr].private = o
  /\ \A c \in Cell : h[c].private # NULL => r[h[c].private].ptr = c

\* The objects that exist.
LiveIn(r) == {o \in Object : r[o].class # "none"}

\* A document has a wrapper from the moment the program can reach it until
\* it is freed: this is what keeps rxml_node_wrap from wrapping one as a
\* Node, to be freed by rxml_node_free.
DocsBound(h) == \A d \in Doc : h[d].type # "free" => h[d].private # NULL

\* What is bound to an object stays bound to it until it is freed.
BindingsKept(h, g) ==
  \A c \in Cell : (h[c].private # NULL /\ g[c].type # "free")
                     => g[c].private = h[c].private

IInv == /\ Consistent(xml, ruby)
        /\ DocsBound(xml)
        /\ held \subseteq LiveIn(ruby)
        /\ garbage \subseteq LiveIn(ruby) \ held

-----------------------------------------------------------------------------
\* Relinking, and allocating unbound structures, keeps the two heaps consistent.
LEMMA RebindingKeepsConsistent ==
  ASSUME NEW h, NEW r, NEW g, Consistent(h, r), Rebound(h, g, {})
  PROVE  Consistent(g, r)
<1>1. \A c \in Cell : g[c].private = h[c].private
  BY DEF Rebound
<1>2. g \in Heap /\ FreeIsUnbound(g)
  BY DEF Rebound
<1>3. \A o \in Object : r[o].ptr # NULL => r[o].ptr \in Cell
  BY DEF Consistent, RubyRecord
<1> QED BY <1>1, <1>2, <1>3 DEF Consistent

\* Freeing structures keeps the two heaps consistent when libxml2 calls
\* rxml_node_deregisterNode for each of them.
LEMMA DeregisteringKeepsConsistent ==
  ASSUME NEW h, NEW r, NEW g, NEW dead, Consistent(h, r), Rebound(h, g, dead)
  PROVE  /\ Consistent(g, deregisterNode(h, r, dead))
         /\ LiveIn(deregisterNode(h, r, dead)) = LiveIn(r)
<1> DEFINE q == deregisterNode(h, r, dead)
<1>1. \A o \in Object : r[o] \in RubyRecord
  BY DEF Consistent
<1>2. ASSUME NEW o \in Object
      PROVE  /\ q[o] \in RubyRecord
             /\ q[o].class = r[o].class
             /\ q[o].ptr = IF \E c \in dead : h[c].private = o THEN NULL ELSE r[o].ptr
  BY <1>1 DEF deregisterNode, RubyRecord
<1>3. q \in [Object -> RubyRecord]
  BY <1>2 DEF deregisterNode
<1> HIDE DEF q
<1>4. g \in Heap /\ FreeIsUnbound(g) /\ dead \subseteq Cell
  BY DEF Rebound
<1>5. \A o \in Object : q[o].class = "none" => q[o].ptr = NULL
  BY <1>2 DEF Consistent
<1>6. ASSUME NEW o \in Object, q[o].ptr # NULL PROVE g[q[o].ptr].private = o
  <2>1. q[o].ptr = r[o].ptr /\ r[o].ptr \in Cell
    BY <1>1, <1>2, <1>6 DEF RubyRecord
  <2>2. h[r[o].ptr].private = o
    BY <1>6, <2>1 DEF Consistent
  <2>3. r[o].ptr \notin dead
    BY <1>2, <1>6, <2>2
  <2> QED BY <2>1, <2>2, <2>3 DEF Rebound
<1>7. ASSUME NEW c \in Cell, g[c].private # NULL PROVE q[g[c].private].ptr = c
  <2>1. c \notin dead /\ g[c].private = h[c].private
    BY <1>7 DEF Rebound
  <2>2. h[c].private \in Object /\ r[h[c].private].ptr = c
    BY <1>7, <2>1, Fields DEF Consistent, Heap, XmlRecord
  <2>3. ASSUME NEW d \in dead, h[d].private = h[c].private PROVE FALSE
    BY <1>4, <1>7, <2>1, <2>2, <2>3 DEF Consistent
  <2> QED BY <1>2, <2>1, <2>2, <2>3
<1>8. LiveIn(q) = LiveIn(r)
  BY <1>2 DEF LiveIn
<1>9. \A o \in Object : q[o].ptr # NULL => (q[o].class = "Node" <=> q[o].ptr \in Node)
  BY <1>2 DEF Consistent
<1> QED BY <1>3, <1>4, <1>5, <1>6, <1>7, <1>8, <1>9 DEF Consistent, q

\* Wrapping a structure binds it to an object of its own, or finds the one
\* it is bound to, which has its slot (rxml_node_wrap, rxml_document_wrap).
LEMMA WrapKeepsConsistent ==
  ASSUME NEW h, NEW r, NEW c, NEW class \in {"Node", "Document"},
         Consistent(h, r), held \subseteq LiveIn(r), Wrap(h, r, c, class),
         h[c].private = NULL => (class = "Node" <=> c \in Node)
  PROVE  /\ Consistent(xml', ruby') /\ held' \subseteq LiveIn(ruby')
         /\ \A d \in Cell : xml'[d].type = h[d].type
         /\ \A d \in Cell : xml'[d].private = NULL => d # c /\ h[d].private = NULL
         /\ \A d \in Cell : h[d].private # NULL => xml'[d].private = h[d].private
<1>1. c \in Cell /\ h[c].type # "free" /\ h[c] \in XmlRecord /\ c # NULL
  BY CellsDistinct DEF Wrap, InUse, Consistent, Heap, Cell
<1>2. CASE h[c].private # NULL
  <2>1. xml' = h /\ ruby' = r /\ held' = held \cup {h[c].private}
    BY <1>2 DEF Wrap
  <2>2. h[c].private \in Object /\ r[h[c].private].ptr = c
    BY <1>1, <1>2 DEF Consistent, XmlRecord
  <2>3. h[c].private \in LiveIn(r)
    BY <1>1, <2>2 DEF Consistent, LiveIn
  <2> QED BY <1>2, <2>1, <2>3
<1>3. CASE h[c].private = NULL
  <2>1. PICK o \in Object : /\ r[o] = NoObject
                            /\ xml' = [h EXCEPT ![c].private = o]
                            /\ ruby' = [r EXCEPT ![o] = [class |-> class, ptr |-> c]]
                            /\ held' = held \cup {o}
    BY <1>3 DEF Wrap
  <2>2. r[o].class = "none" /\ r[o].ptr = NULL
    BY <2>1 DEF NoObject
  <2>3. /\ h \in Heap /\ r \in [Object -> RubyRecord] /\ o # NULL
    BY CellsDistinct DEF Consistent
  <2>4. /\ xml' \in Heap
        /\ \A d \in Cell : /\ xml'[d].type = h[d].type
                           /\ xml'[d].private = IF d = c THEN o ELSE h[d].private
    BY <1>1, <2>1, <2>3 DEF Heap, XmlRecord
  <2>5. /\ ruby' \in [Object -> RubyRecord]
        /\ \A p \in Object : ruby'[p] = IF p = o THEN [class |-> class, ptr |-> c] ELSE r[p]
    BY <1>1, <2>1, <2>3 DEF RubyRecord
  <2>6. FreeIsUnbound(xml')
    BY <1>1, <2>4 DEF FreeIsUnbound, Consistent
  <2>7. \A p \in Object : ruby'[p].class = "none" => ruby'[p].ptr = NULL
    BY <2>5 DEF Consistent
  <2>11. \A p \in Object : ruby'[p].ptr # NULL => (ruby'[p].class = "Node" <=> ruby'[p].ptr \in Node)
    BY <1>3, <2>5 DEF Consistent
  <2>12. o # NULL
    BY CellsDistinct
  <2>8. ASSUME NEW p \in Object, ruby'[p].ptr # NULL PROVE xml'[ruby'[p].ptr].private = p
    <3>1. CASE p = o
      BY <1>1, <2>4, <2>5, <3>1
    <3>2. CASE p # o
      <4>1. ruby'[p] = r[p] /\ r[p].ptr \in Cell
        BY <2>3, <2>5, <2>8, <3>2 DEF RubyRecord
      <4>2. h[r[p].ptr].private = p
        BY <2>8, <4>1 DEF Consistent
      <4>3. r[p].ptr # c
        BY <1>3, <4>2, CellsDistinct
      <4> QED BY <2>4, <4>1, <4>2, <4>3
    <3> QED BY <3>1, <3>2
  <2>9. ASSUME NEW d \in Cell, xml'[d].private # NULL PROVE ruby'[xml'[d].private].ptr = d
    <3>1. CASE d = c
      BY <2>4, <2>5, <3>1
    <3>2. CASE d # c
      <4>1. xml'[d].private = h[d].private /\ h[d].private \in Object
        BY <2>3, <2>4, <2>9, <3>2 DEF Heap, XmlRecord
      <4>2. r[h[d].private].ptr = d /\ d # NULL
        BY <2>9, <4>1, CellsDistinct DEF Consistent, Cell
      <4>3. h[d].private # o
        BY <2>2, <4>2
      <4> QED BY <2>5, <4>1, <4>2, <4>3
    <3> QED BY <3>1, <3>2
  <2>10. held' \subseteq LiveIn(ruby')
    BY <2>1, <2>5 DEF LiveIn
  <2>13. Consistent(xml', ruby')
    BY <2>4, <2>5, <2>6, <2>7, <2>8, <2>9, <2>11 DEF Consistent
  <2> QED BY <1>3, <2>4, <2>10, <2>12, <2>13
<1> QED BY <1>2, <1>3

-----------------------------------------------------------------------------
(* One step at a time.                                                     *)

\* A method receives a wrapper of a structure in use.
LEMMA ReceiverInUse ==
  ASSUME IInv, NEW o, IsNode(o) \/ IsDocument(o)
  PROVE  /\ o \in Object /\ X(o) \in Cell /\ X(o) \in InUse(xml)
         /\ xml[X(o)].private = o
         /\ IsNode(o) => X(o) \in Node
         /\ IsDocument(o) => X(o) \in Doc
BY CellsDistinct DEF IInv, Consistent, IsNode, IsDocument, X, LiveIn, RubyRecord,
                     FreeIsUnbound, InUse, Cell

\* What was in use is as it was.
Grown(h, g) == \A x \in InUse(h) : g[x] = h[x]

\* Structure c of heap h, in which structures have been allocated, is wrapped.
Wrapped(h, c, class) ==
  /\ class \in {"Node", "Document"}
  /\ Rebound(xml, h, {}) /\ Grown(xml, h) /\ Running /\ Wrap(h, ruby, c, class)
  /\ \A d \in Doc \ {c} : h[d].type # "free" => xml[d].type # "free"
  /\ class = "Node" => SameDocs(xml, h)
  /\ class = "Document" => c \in Doc

\* Wrapping what an allocation left keeps the invariant.
LEMMA NewWrapped ==
  ASSUME IInv, NEW h, NEW c, NEW class, Wrapped(h, c, class)
  PROVE  IInv' /\ BindingsKept(xml, xml')
<1> USE DEF Wrapped
<1>1. Consistent(h, ruby)
  BY RebindingKeepsConsistent DEF IInv
<1>2. c \in Cell /\ h[c].type # "free"
  BY DEF Wrap, InUse
<1>3. \A d \in Cell : h[d].private = xml[d].private
  BY DEF Rebound
<1>4. h[c].private = NULL => (class = "Node" <=> c \in Node)
  BY <1>2, <1>3, CellsDistinct DEF IInv, DocsBound, SameDocs, Cell
<1>5. /\ Consistent(xml', ruby') /\ held' \subseteq LiveIn(ruby')
      /\ \A d \in Cell : xml'[d].type = h[d].type
      /\ \A d \in Cell : xml'[d].private = NULL => d # c /\ h[d].private = NULL
      /\ \A d \in Cell : h[d].private # NULL => xml'[d].private = h[d].private
  BY <1>1, <1>4, WrapKeepsConsistent DEF IInv
<1>6. DocsBound(xml')
  BY <1>3, <1>5 DEF DocsBound, IInv, Cell
<1>7. BindingsKept(xml, xml')
  BY <1>3, <1>5 DEF BindingsKept
<1> QED BY <1>5, <1>6, <1>7 DEF IInv, Running

\* Allocating in two steps.
LEMMA ReboundTwice ==
  ASSUME NEW f, NEW g, NEW h, Rebound(f, g, {}), Rebound(g, h, {}),
         SameDocs(f, g), SameDocs(g, h)
  PROVE  Rebound(f, h, {}) /\ SameDocs(f, h)
BY DEF Rebound, SameDocs

\* An edit leaves every document bound.
LEMMA HarmlessKeepsDocsBound ==
  ASSUME NEW h, NEW e, Harmless(h, e), DocsBound(h)
  PROVE  DocsBound(e.heap)
BY CellsDistinct DEF Harmless, Rebound, SameDocs, DocsBound, Cell

\* An edit that libxml2 makes keeps the invariant, wrapped node and all.
LEMMA FinishKeepsIInv ==
  ASSUME IInv, NEW e, Harmless(xml, e), Running, Finish(e)
  PROVE  IInv' /\ BindingsKept(xml, xml')
<1> DEFINE r == deregisterNode(xml, ruby, e.dead)
<1>1. Consistent(e.heap, r) /\ LiveIn(r) = LiveIn(ruby)
  BY DeregisteringKeepsConsistent DEF IInv, Harmless
<1>2. DocsBound(e.heap)
  BY HarmlessKeepsDocsBound DEF IInv
<1>3. BindingsKept(xml, e.heap)
  BY DEF Harmless, Rebound, BindingsKept
<1>4. CASE e.ret = NULL /\ xml' = e.heap /\ ruby' = r /\ UNCHANGED held
  <2> HIDE DEF r
  <2> QED BY <1>2, <1>1, <1>4, <1>3 DEF IInv, Running
<1>5. CASE node_wrap(e.heap, r, e.ret)
  <2> HIDE DEF r
  <2>1. Wrap(e.heap, r, e.ret, "Node") /\ e.ret \in Cell /\ e.heap[e.ret].type # "free"
    BY <1>5 DEF node_wrap, Wrap, InUse
  <2>2. e.heap[e.ret].private = NULL => e.ret \in Node
    BY <1>2, <2>1 DEF DocsBound, Cell
  <2>3. /\ Consistent(xml', ruby') /\ held' \subseteq LiveIn(ruby')
        /\ \A d \in Cell : xml'[d].type = e.heap[d].type
        /\ \A d \in Cell : xml'[d].private = NULL => d # e.ret /\ e.heap[d].private = NULL
        /\ \A d \in Cell : e.heap[d].private # NULL => xml'[d].private = e.heap[d].private
    BY <1>1, <2>1, <2>2, WrapKeepsConsistent DEF IInv
  <2>4. DocsBound(xml')
    BY <1>2, <2>3 DEF DocsBound, Cell
  <2>5. BindingsKept(xml, xml')
    BY <1>3, <2>3 DEF BindingsKept
  <2> QED BY <2>3, <2>4, <2>5 DEF IInv, Running
<1> QED BY <1>4, <1>5 DEF Finish

\* Replacing the content of a structure that is not an element, or of one
\* without children, frees nothing.
LEMMA FreshContent ==
  ASSUME NEW h \in Heap, FreeIsUnbound(h), NEW n \in Node,
         h[n].children = NULL, NEW c \in FreeNodes(h) \cup {NULL}
  PROVE  /\ Rebound(h, NodeSetContent(h, n, c).heap, {})
         /\ SameDocs(h, NodeSetContent(h, n, c).heap)
         /\ \A x \in Cell \ {n, c} : NodeSetContent(h, n, c).heap[x] = h[x]
<1>1. Harmless(h, NodeSetContent(h, n, c))
  BY NodeSetContentHarmless
<1>2. Below(h, n) = {}
  <2>1. {h[n].children} \ {NULL} \subseteq {}
    OBVIOUS
  <2>2. {} \in SUBSET Cell
    OBVIOUS
  <2>3. ASSUME NEW x \in Below(h, n) PROVE FALSE
    BY <2>1, <2>2 DEF Below, Closure
  <2> QED BY <2>3
<1>3. NodeSetContent(h, n, c).dead = {}
  BY <1>2 DEF NodeSetContent, Edited
<1>4. \A x \in Cell \ {n, c} : NodeSetContent(h, n, c).heap[x] = h[x]
  BY <1>2 DEF NodeSetContent, Edited, Release
<1> QED BY <1>1, <1>3, <1>4 DEF Harmless

\* Making nodes and documents allocates, and wraps one of them.
LEMMA MakeWraps ==
  ASSUME IInv, Make
  PROVE  \E h, c, class : Wrapped(h, c, class)
<1>0. xml \in Heap /\ FreeIsUnbound(xml)
  BY DEF IInv, Consistent
<1>1. ASSUME NEW n \in Node, node_new_text(n)
      PROVE  \E h, b, class : Wrapped(h, b, class)
  <2>1. /\ Rebound(xml, [xml EXCEPT ![n] = Blank("text")], {})
        /\ SameDocs(xml, [xml EXCEPT ![n] = Blank("text")])
    BY <1>0, <1>1, NewStructureRebinds DEF node_new_text, FreeNodes, Cell
  <2>2. Grown(xml, [xml EXCEPT ![n] = Blank("text")])
    BY <1>0, <1>1 DEF node_new_text, FreeNodes, Grown, InUse, Heap
  <2> QED BY <1>1, <2>1, <2>2 DEF Wrapped, node_new_text, node_wrap, SameDocs
<1>2. ASSUME NEW n \in Node, NEW c \in Node \cup {NULL}, node_initialize(n, c)
      PROVE  \E h, b, class : Wrapped(h, b, class)
  <2> DEFINE h == [xml EXCEPT ![n] = Blank("element")]
             k == NodeSetContent(h, n, c).heap
  <2>1. n \in FreeNodes(xml) /\ c \in (FreeNodes(xml) \ {n}) \cup {NULL}
    BY <1>2 DEF node_initialize
  <2>2. Rebound(xml, h, {}) /\ SameDocs(xml, h)
    BY <1>0, <2>1, NewStructureRebinds DEF FreeNodes, Cell
  <2>3. c \in FreeNodes(h) \cup {NULL} /\ h[n].children = NULL
    BY <1>0, <2>1 DEF FreeNodes, InUse, Heap, Cell, Blank
  <2>4. h \in Heap /\ FreeIsUnbound(h)
    BY <2>2 DEF Rebound
  <2>5. /\ Rebound(h, k, {}) /\ SameDocs(h, k)
        /\ \A x \in Cell \ {n, c} : k[x] = h[x]
    <3> HIDE DEF h
    <3> QED BY <2>3, <2>4, FreshContent
  <2>8. \A x \in InUse(xml) : x \in Cell \ {n, c} /\ h[x] = xml[x]
    BY <1>0, <2>1, CellsDistinct DEF FreeNodes, InUse, Heap, Cell
  <2>6. Running /\ node_wrap(k, ruby, n)
    BY <1>2 DEF node_initialize
  <2> HIDE DEF h, k
  <2>7. Rebound(xml, k, {}) /\ SameDocs(xml, k)
    BY <2>2, <2>5, ReboundTwice
  <2>9. Grown(xml, k)
    BY <2>5, <2>8 DEF Grown
  <2> QED BY <2>6, <2>7, <2>9 DEF Wrapped, node_wrap, SameDocs
<1>3. ASSUME NEW d \in Doc, document_initialize(d)
      PROVE  \E h, b, class : Wrapped(h, b, class)
  <2>1. Rebound(xml, [xml EXCEPT ![d] = Blank("document")], {})
    BY <1>0, <1>3, NewStructureRebinds DEF document_initialize, Cell
  <2>2. \A b \in Doc \ {d} : [xml EXCEPT ![d] = Blank("document")][b].type = xml[b].type
    BY <1>0 DEF Heap, Cell
  <2>3. Grown(xml, [xml EXCEPT ![d] = Blank("document")])
    BY <1>0, <1>3 DEF document_initialize, Grown, InUse, Heap
  <2> QED BY <1>3, <2>1, <2>2, <2>3 DEF Wrapped, document_initialize, document_wrap
<1>4. ASSUME NEW d \in Doc, NEW n \in Node, NEW c \in Node \cup {NULL}, parser_parse(d, n, c)
      PROVE  \E h, b, class : Wrapped(h, b, class)
  <2>1. /\ Rebound(xml, ParseDocument(xml, d, n, c), {})
        /\ \A b \in Doc \ {d} : ParseDocument(xml, d, n, c)[b].type = xml[b].type
    BY <1>0, <1>4, ParseDocumentRebinds DEF parser_parse
  <2>2. Grown(xml, ParseDocument(xml, d, n, c))
    <3>1. \A x \in InUse(xml) : x \in Cell /\ x # d /\ x # n /\ x # c
      BY <1>4, CellsDistinct DEF parser_parse, FreeNodes, InUse, Cell
    <3> QED BY <3>1 DEF Grown, ParseDocument
  <2> QED BY <1>4, <2>1, <2>2 DEF Wrapped, parser_parse, document_wrap
<1>5. ASSUME NEW o \in held, node_copy(o)
      PROVE  \E h, b, class : Wrapped(h, b, class)
  <2>0. PICK S \in {{X(o)}, Subtree(xml, X(o))} :
           \E f \in [S -> FreeNodes(xml)] : node_wrap(CopyNode(xml, S, f), ruby, f[X(o)])
    BY <1>5 DEF node_copy
  <2>1. PICK f \in [S -> FreeNodes(xml)] : node_wrap(CopyNode(xml, S, f), ruby, f[X(o)])
    BY <2>0
  <2>2. X(o) \in Cell
    BY <1>5, ReceiverInUse DEF node_copy
  <2>3. S \subseteq Cell
    BY <1>0, <2>2, BelowTyped DEF Subtree, Cell
  <2>4. Rebound(xml, CopyNode(xml, S, f), {}) /\ SameDocs(xml, CopyNode(xml, S, f))
    BY <1>0, <2>3, CopyNodeRebinds
  <2>5. Grown(xml, CopyNode(xml, S, f))
    BY DEF Grown, CopyNode, FreeNodes, InUse
  <2> QED BY <1>5, <2>1, <2>4, <2>5 DEF Wrapped, node_copy, node_wrap, SameDocs
<1>6. ASSUME NEW n \in Node, node_new_comment(n)
      PROVE  \E h, b, class : Wrapped(h, b, class)
  <2>1. /\ Rebound(xml, [xml EXCEPT ![n] = Blank("comment")], {})
        /\ SameDocs(xml, [xml EXCEPT ![n] = Blank("comment")])
    BY <1>0, <1>6, NewStructureRebinds DEF node_new_comment, FreeNodes, Cell
  <2>2. Grown(xml, [xml EXCEPT ![n] = Blank("comment")])
    BY <1>0, <1>6 DEF node_new_comment, FreeNodes, Grown, InUse, Heap
  <2> QED BY <1>6, <2>1, <2>2 DEF Wrapped, node_new_comment, node_wrap, SameDocs
<1> QED BY <1>1, <1>2, <1>3, <1>4, <1>5, <1>6 DEF Make

\* Making nodes and documents keeps the invariant.
LEMMA MakeKeepsIInv ==
  ASSUME IInv, Make
  PROVE  IInv' /\ BindingsKept(xml, xml')
BY MakeWraps, NewWrapped

\* Retrieving a structure keeps the invariant.
LEMMA MoveKeepsIInv ==
  ASSUME IInv, Move
  PROVE  IInv' /\ BindingsKept(xml, xml')
<1>1. PICK o \in held :
        \/ first_get(o) \/ last_get(o) \/ next_get(o) \/ prev_get(o) \/ parent_get(o)
        \/ document_child_get(o) \/ document_last_get(o) \/ document_root_get(o)
        \/ node_doc(o)
  BY DEF Move
<1>2. Rebound(xml, xml, {}) /\ SameDocs(xml, xml) /\ Grown(xml, xml)
  BY DEF Rebound, IInv, Consistent, SameDocs, Grown
<1>3. ASSUME NEW c, Running, Follow(c) PROVE IInv' /\ BindingsKept(xml, xml')
  BY <1>2, <1>3, NewWrapped DEF Wrapped, Follow, node_wrap, SameDocs
<1>4. CASE node_doc(o)
  <2> DEFINE d == xml[X(o)].doc
  <2>1. X(o) \in Cell
    BY <1>4, ReceiverInUse DEF node_doc
  <2>2. d \in Doc /\ xml[d].private # NULL /\ d # NULL
    BY <1>4, <2>1, Fields DEF node_doc, IInv, Consistent
  <2>3. d \in Cell /\ xml[d].private \in Object
    BY <2>2 DEF IInv, Consistent, Heap, XmlRecord, Cell
  <2>4. ruby[xml[d].private].ptr = d
    BY <2>2, <2>3 DEF IInv, Consistent
  <2>5. xml[d].private \in LiveIn(ruby)
    BY <2>2, <2>3, <2>4 DEF IInv, Consistent, LiveIn
  <2>6. /\ xml' = xml /\ ruby' = ruby /\ held' = held \cup {xml[d].private}
        /\ garbage = {} /\ garbage' = garbage
    BY <1>4 DEF node_doc, Running
  <2> HIDE DEF d
  <2> QED BY <2>5, <2>6 DEF IInv, BindingsKept
<1> QED
  BY <1>1, <1>3, <1>4 DEF first_get, last_get, next_get, prev_get, parent_get,
       document_child_get, document_last_get, document_root_get

\* What an edit that wraps nothing and frees nothing leaves.
LEMMA RelinkingKeepsIInv ==
  ASSUME IInv, Running, Rebound(xml, xml', {}), SameDocs(xml, xml'), UNCHANGED <<ruby, held>>
  PROVE  IInv' /\ BindingsKept(xml, xml')
<1>1. Consistent(xml', ruby)
  BY RebindingKeepsConsistent DEF IInv
<1>2. DocsBound(xml')
  BY DEF IInv, DocsBound, Rebound, SameDocs, Cell
<1>3. BindingsKept(xml, xml')
  BY DEF Rebound, BindingsKept
<1> QED BY <1>1, <1>2, <1>3 DEF IInv, Running

\* Node#<< with a string links one new text node and frees none.
LEMMA ContentAddRebinds ==
  ASSUME IInv, NEW o, NEW c, content_add(o, c)
  PROVE  Rebound(xml, xml', {}) /\ SameDocs(xml, xml')
<1> DEFINE n == X(o)
           g == [xml EXCEPT ![c] = Blank("text")]
<1>1. /\ Running /\ c \in FreeNodes(xml) /\ UNCHANGED <<ruby, held>>
      /\ ~IsText(xml, n) /\ ~IsText(xml, xml[n].last)
      /\ xml' = AddChild(g, n, c).heap
  BY DEF content_add, NodeAddContent, IsText
<1>2. n \in Node /\ n \in InUse(xml) /\ n \in Cell /\ n # NULL
  BY ReceiverInUse, CellsDistinct DEF content_add
<1>3. xml \in Heap /\ FreeIsUnbound(xml) /\ c \in Cell \ InUse(xml) /\ c \in Node
  BY <1>1 DEF IInv, Consistent, FreeNodes, Cell
<1>4. Rebound(xml, g, {}) /\ SameDocs(xml, g)
  BY <1>3, NewStructureRebinds
<1>5. g \in Heap /\ FreeIsUnbound(g)
  BY <1>4 DEF Rebound
<1>6. n # c /\ g[n] = xml[n] /\ \A x \in Cell : x # c => g[x] = xml[x]
  BY <1>2, <1>3 DEF Heap
<1>7. xml[n].last \in Node \cup {NULL}
  BY <1>2, <1>3, Fields
<1>8. ~IsText(g, n) /\ ~(IsText(g, g[n].last) /\ g[n].last # c)
  BY <1>1, <1>6, <1>7 DEF IsText, Cell
<1> HIDE DEF n, g
<1>9. AddChild(g, n, c).dead = {}
  BY <1>8 DEF AddChild, Edited
<1>10. Harmless(g, AddChild(g, n, c))
  BY <1>2, <1>3, <1>5, AddChildHarmless
<1>11. Rebound(g, xml', {}) /\ SameDocs(g, xml')
  BY <1>1, <1>9, <1>10 DEF Harmless
<1> QED BY <1>4, <1>11, ReboundTwice

\* Node#content= frees the children and unbinds their wrappers.
LEMMA ContentSetKeepsIInv ==
  ASSUME IInv, NEW o, NEW c, content_set(o, c)
  PROVE  IInv' /\ BindingsKept(xml, xml')
<1> DEFINE e == NodeSetContent(xml, X(o), c)
<1>1. /\ Running /\ c \in FreeNodes(xml) \cup {NULL} /\ UNCHANGED held
      /\ xml' = e.heap /\ ruby' = deregisterNode(xml, ruby, e.dead)
  BY DEF content_set
<1>2. X(o) \in Node /\ xml \in Heap /\ FreeIsUnbound(xml)
  BY ReceiverInUse DEF content_set, IInv, Consistent
<1>3. Harmless(xml, e)
  BY <1>1, <1>2, NodeSetContentHarmless
<1> HIDE DEF e
<1>4. Consistent(xml', ruby') /\ LiveIn(ruby') = LiveIn(ruby)
  BY <1>1, <1>3, DeregisteringKeepsConsistent DEF IInv, Harmless
<1>5. DocsBound(xml')
  BY <1>1, <1>3, HarmlessKeepsDocsBound DEF IInv
<1>6. BindingsKept(xml, xml')
  BY <1>1, <1>3 DEF Harmless, Rebound, BindingsKept
<1> QED BY <1>1, <1>4, <1>5, <1>6 DEF IInv, Running

\* Node#remove! relinks only.
LEMMA RemoveRebinds ==
  ASSUME IInv, NEW o, remove_ex(o)
  PROVE  Rebound(xml, xml', {}) /\ SameDocs(xml, xml')
<1>1. X(o) \in Node /\ xml \in Heap /\ FreeIsUnbound(xml)
  BY ReceiverInUse DEF remove_ex, IInv, Consistent
<1>2. Relinked(xml, Unlink(xml, X(o))) /\ Unlink(xml, X(o)) \in Heap
  BY <1>1, UnlinkRelinks DEF Relinked
<1>3. Relinked(Unlink(xml, X(o)), xml')
  BY <1>1, <1>2, SetTreeDocRelinks DEF remove_ex
<1> QED BY <1>1, <1>2, <1>3, RelinkedTransitive, RelinkedRebinds

\* What an edit makes of the heap, unless it wraps nothing.
Finishes == \E e : Harmless(xml, e) /\ Running /\ Finish(e)

\* Moving a node frees no document and wraps the node libxml2 returns.
LEMMA EditFinishes ==
  ASSUME IInv, Edit
  PROVE  \/ Finishes
         \/ \E o, c : content_add(o, c) \/ content_set(o, c)
         \/ \E o : remove_ex(o)
<1>1. xml \in Heap /\ FreeIsUnbound(xml)
  BY DEF IInv, Consistent
<1>2. ASSUME NEW o, NEW p, IsNode(o), IsNode(p)
      PROVE  X(o) \in Node /\ X(o) \in Cell /\ X(p) \in Node
  BY <1>2, ReceiverInUse
<1>3. ASSUME NEW o, NEW p, child_set_aux(o, p) PROVE Finishes
  <2>1. Harmless(xml, AddChild(xml, X(o), X(p)))
    BY <1>1, <1>2, <1>3, AddChildHarmless DEF child_set_aux
  <2> QED BY <1>3, <2>1 DEF child_set_aux, Finishes
<1>4. ASSUME NEW o, NEW p, next_set(o, p) PROVE Finishes
  <2>1. Harmless(xml, AddNextSibling(xml, X(o), X(p)))
    BY <1>1, <1>2, <1>4, AddNextSiblingHarmless DEF next_set
  <2> QED BY <1>4, <2>1 DEF next_set, Finishes
<1>5. ASSUME NEW o, NEW p, prev_set(o, p) PROVE Finishes
  <2>1. Harmless(xml, AddPrevSibling(xml, X(o), X(p)))
    BY <1>1, <1>2, <1>5, AddPrevSiblingHarmless DEF prev_set
  <2> QED BY <1>5, <2>1 DEF prev_set, Finishes
<1>6. ASSUME NEW o, NEW p, document_root_set(o, p) PROVE Finishes
  <2>1. X(o) \in Doc /\ X(p) \in Node
    BY <1>6, ReceiverInUse DEF document_root_set
  <2>2. Harmless(xml, DocSetRootElement(xml, X(o), X(p)))
    BY <1>1, <2>1, DocSetRootElementHarmless
  <2> QED BY <1>6, <2>2 DEF document_root_set, Finishes
<1>7. ASSUME NEW o, NEW p, sibling_set(o, p) PROVE Finishes
  <2>1. PICK l \in Node : Finish(AddSibling(xml, l, X(p)))
    BY <1>7 DEF sibling_set, LastSibling
  <2>2. Harmless(xml, AddSibling(xml, l, X(p)))
    BY <1>1, <1>2, <1>7, AddSiblingHarmless DEF sibling_set
  <2> QED BY <1>7, <2>1, <2>2 DEF sibling_set, Finishes
<1> QED BY <1>3, <1>4, <1>5, <1>6, <1>7 DEF Edit

\* Editing a tree keeps the invariant.
LEMMA EditKeepsIInv ==
  ASSUME IInv, Edit
  PROVE  IInv' /\ BindingsKept(xml, xml')
<1>1. CASE Finishes
  BY <1>1, FinishKeepsIInv DEF Finishes
<1>2. ASSUME NEW o, NEW c, content_add(o, c) PROVE IInv' /\ BindingsKept(xml, xml')
  BY <1>2, ContentAddRebinds, RelinkingKeepsIInv DEF content_add
<1>3. ASSUME NEW o, remove_ex(o) PROVE IInv' /\ BindingsKept(xml, xml')
  BY <1>3, RemoveRebinds, RelinkingKeepsIInv DEF remove_ex
<1> QED BY <1>1, <1>2, <1>3, EditFinishes, ContentSetKeepsIInv

-----------------------------------------------------------------------------
(* Garbage collection.                                                     *)

\* Everything a finalizer frees is a structure, and a document is freed
\* by its own finalizer only.
LEMMA FreedTyped ==
  ASSUME IInv, NEW c \in Cell
  PROVE  /\ node_free(c) \in SUBSET Cell
         /\ c \in Node => node_free(c) \subseteq Node
         /\ document_free(c) \in SUBSET Cell
         /\ document_free(c) \cap Doc \subseteq {c}
<1>1. Below(xml, c) \subseteq Node
  BY BelowTyped DEF IInv, Consistent
<1> QED BY <1>1, CellsDistinct DEF node_free, document_free, Subtree, Cell

\* Finalizing a wrapper unbinds its structure and frees what it owns.
LEMMA SweepKeepsIInv ==
  ASSUME IInv, NEW o \in Object, sweep(o)
  PROVE  IInv'
<1>1. o \in garbage /\ garbage' = garbage \ {o} /\ held' = held /\ o \notin held
  BY DEF sweep, IInv
<1>2. ruby \in [Object -> RubyRecord] /\ xml \in Heap /\ FreeIsUnbound(xml)
  BY DEF IInv, Consistent
<1>3. NoObject \in RubyRecord /\ NoObject.class = "none" /\ NoObject.ptr = NULL
  BY DEF NoObject, RubyRecord
<1>4. CASE X(o) = NULL
  <2>1. xml' = xml /\ ruby' = [ruby EXCEPT ![o] = NoObject]
    BY <1>4 DEF sweep
  <2>2. \A p \in Object : ruby'[p] = IF p = o THEN NoObject ELSE ruby[p]
    BY <1>2, <2>1
  <2>3. ruby' \in [Object -> RubyRecord]
    BY <1>2, <1>3, <2>1
  <2>4. \A c \in Cell : xml[c].private # NULL => xml[c].private # o
    BY <1>4, CellsDistinct DEF IInv, Consistent, X, Cell
  <2>5. Consistent(xml', ruby')
    <3>1. \A c \in Cell : xml'[c].private # NULL => ruby'[xml'[c].private].ptr = c
      <4>1. \A c \in Cell : xml[c].private \in Object \cup {NULL}
        BY <1>2 DEF Heap, XmlRecord
      <4> QED BY <2>1, <2>2, <2>4, <4>1 DEF IInv, Consistent
    <3>2. /\ \A p \in Object : ruby'[p].class = "none" => ruby'[p].ptr = NULL
          /\ \A p \in Object : ruby'[p].ptr # NULL => (ruby'[p].class = "Node" <=> ruby'[p].ptr \in Node)
          /\ \A p \in Object : ruby'[p].ptr # NULL => xml'[ruby'[p].ptr].private = p
      BY <1>3, <2>1, <2>2 DEF IInv, Consistent
    <3> QED BY <1>2, <2>1, <2>3, <3>1, <3>2 DEF Consistent
  <2>6. \A p \in LiveIn(ruby) : p # o => p \in LiveIn(ruby')
    BY <2>2 DEF LiveIn
  <2> QED BY <1>1, <2>1, <2>5, <2>6 DEF IInv
<1>5. CASE X(o) # NULL
  <2> DEFINE c    == X(o)
             dead == IF ruby[o].class = "Node" THEN node_free(c) ELSE document_free(c)
             u    == [xml EXCEPT ![c].private = NULL]
             r    == deregisterNode(xml, ruby, dead)
  <2>1. xml' = Release(u, dead) /\ ruby' = [r EXCEPT ![o] = NoObject]
    BY <1>5 DEF sweep, Finalized
  <2>2. c \in Cell /\ xml[c].private = o /\ (ruby[o].class = "Node" <=> c \in Node)
    BY <1>2, <1>5 DEF IInv, Consistent, X, RubyRecord
  <2>3. dead \in SUBSET Cell /\ dead \cap Doc \subseteq {c}
    BY <2>2, FreedTyped, CellsDistinct
  <2> HIDE DEF dead, c
  <2>4. /\ u \in Heap
        /\ \A m \in Cell : /\ u[m].type = xml[m].type
                           /\ u[m].private = IF m = c THEN NULL ELSE xml[m].private
    BY <1>2, <2>2 DEF Heap, XmlRecord
  <2>5. FreeIsUnbound(u)
    BY <1>2, <2>4 DEF FreeIsUnbound
  <2> HIDE DEF u
  <2>6. /\ xml' \in Heap /\ FreeIsUnbound(xml')
        /\ \A m \in Cell : xml'[m].private = IF m \in dead THEN NULL ELSE u[m].private
    BY <2>1, <2>3, <2>4, <2>5, ReleaseRebinds DEF Rebound
  <2>7. \A p \in Object : /\ r[p] \in RubyRecord
                          /\ r[p].class = ruby[p].class
                          /\ r[p].ptr = IF \E m \in dead : xml[m].private = p
                                        THEN NULL ELSE ruby[p].ptr
    BY <1>2 DEF deregisterNode, RubyRecord
  <2>8. r \in [Object -> RubyRecord]
    BY <2>7 DEF deregisterNode
  <2> HIDE DEF r
  <2>9. /\ ruby' \in [Object -> RubyRecord]
        /\ \A p \in Object : ruby'[p] = IF p = o THEN NoObject ELSE r[p]
    BY <1>3, <2>1, <2>8
  <2>10. \A p \in Object : ruby'[p].class = "none" => ruby'[p].ptr = NULL
    BY <1>3, <2>7, <2>9 DEF IInv, Consistent
  <2>11. \A p \in Object : ruby'[p].ptr # NULL => (ruby'[p].class = "Node" <=> ruby'[p].ptr \in Node)
    BY <1>3, <2>7, <2>9 DEF IInv, Consistent
  <2>12. ASSUME NEW p \in Object, ruby'[p].ptr # NULL PROVE xml'[ruby'[p].ptr].private = p
    <3>1. p # o /\ ruby'[p].ptr = ruby[p].ptr /\ ~\E m \in dead : xml[m].private = p
      BY <1>3, <2>7, <2>9, <2>12
    <3>2. ruby[p].ptr \in Cell /\ xml[ruby[p].ptr].private = p
      BY <1>2, <2>12, <3>1 DEF IInv, Consistent, RubyRecord
    <3>3. ruby[p].ptr # c /\ ruby[p].ptr \notin dead
      BY <2>2, <3>1, <3>2
    <3> QED BY <2>4, <2>6, <3>1, <3>2, <3>3
  <2>13. ASSUME NEW m \in Cell, xml'[m].private # NULL PROVE ruby'[xml'[m].private].ptr = m
    <3> DEFINE p == xml[m].private
    <3>1. m \notin dead /\ m # c /\ xml'[m].private = p /\ p # NULL
      BY <2>4, <2>6, <2>13
    <3>2. p \in Object /\ ruby[p].ptr = m
      BY <1>2, <3>1 DEF IInv, Consistent, Heap, XmlRecord
    <3>3. p # o
      BY <3>1, <3>2 DEF X, c
    <3>4. ~\E b \in dead : xml[b].private = p
      BY <2>3, <3>1, <3>2 DEF IInv, Consistent
    <3> QED BY <2>7, <2>9, <3>1, <3>2, <3>3, <3>4
  <2>14. DocsBound(xml')
    <3> SUFFICES ASSUME NEW d \in Doc, xml'[d].type # "free" PROVE xml'[d].private # NULL
      BY DEF DocsBound
    <3>1. d \in Cell /\ xml'[d].type = IF d \in dead THEN "free" ELSE u[d].type
      BY <2>1 DEF Release, Blank, Cell
    <3>2. d \notin dead /\ xml[d].type # "free"
      BY <2>4, <3>1
    <3>3. d # c
      BY <2>2, <3>2, CellsDistinct DEF dead, c, document_free, Subtree
    <3>4. xml[d].private # NULL
      BY <3>2 DEF IInv, DocsBound
    <3> QED BY <2>4, <2>6, <3>1, <3>2, <3>3, <3>4
  <2>15. \A p \in LiveIn(ruby) : p # o => p \in LiveIn(ruby')
    BY <2>7, <2>9 DEF LiveIn
  <2>16. Consistent(xml', ruby')
    BY <2>6, <2>9, <2>10, <2>11, <2>12, <2>13 DEF Consistent
  <2> QED BY <1>1, <2>14, <2>15, <2>16 DEF IInv
<1> QED BY <1>4, <1>5

\* A finalizer parts its own wrapper from its structure, and no held one.
LEMMA SweepKeepsHeld ==
  ASSUME IInv, NEW o \in Object, sweep(o), NEW p \in held,
         ruby[p].ptr # NULL, xml'[ruby[p].ptr].type # "free"
  PROVE  xml'[ruby[p].ptr].private = p
<1> DEFINE c == ruby[p].ptr
<1>1. p \in Object /\ p # o
  BY DEF sweep, IInv, LiveIn
<1>2. c \in Cell /\ xml[c].private = p /\ xml \in Heap
  BY <1>1 DEF IInv, Consistent, RubyRecord
<1>3. CASE X(o) = NULL
  BY <1>2, <1>3 DEF sweep
<1>4. CASE X(o) # NULL
  <2> DEFINE dead == IF ruby[o].class = "Node" THEN node_free(X(o)) ELSE document_free(X(o))
             u    == [xml EXCEPT ![X(o)].private = NULL]
  <2>1. xml' = Release(u, dead)
    BY <1>4 DEF sweep, Finalized
  <2>2. c # X(o)
    BY <1>1, <1>2, <1>4 DEF IInv, Consistent, X
  <2>3. u[c] = xml[c]
    BY <1>2, <2>2 DEF Heap
  <2> HIDE DEF dead, u, c
  <2>4. xml'[c] = IF c \in dead THEN Blank("free") ELSE u[c]
    BY <1>2, <2>1 DEF Release
  <2> QED BY <1>2, <2>3, <2>4 DEF Blank, c
<1> QED BY <1>3, <1>4

\* The invariant is inductive.
LEMMA NextKeepsIInv ==
  ASSUME IInv, [Next]_vars
  PROVE  IInv'
<1>1. CASE Make
  BY <1>1, MakeKeepsIInv
<1>2. CASE Move
  BY <1>2, MoveKeepsIInv
<1>3. CASE Edit
  BY <1>3, EditKeepsIInv
<1>4. CASE gc_mark
  BY <1>4 DEF gc_mark, IInv, Live, LiveIn, Marked
<1>5. ASSUME NEW o \in Object, sweep(o) PROVE IInv'
  BY <1>5, SweepKeepsIInv
<1>6. ASSUME NEW o \in held, drop(o) PROVE IInv'
  BY <1>6 DEF drop, Running, IInv
<1>7. CASE UNCHANGED vars
  BY <1>7 DEF vars, IInv
<1> QED BY <1>1, <1>2, <1>3, <1>4, <1>5, <1>6, <1>7 DEF Next, Collect

\* At first there are neither structures nor wrappers.
LEMMA InitIInv ==
  ASSUME Init
  PROVE  IInv
<1>1. xml \in Heap /\ \A c \in Cell : xml[c].type = "free" /\ xml[c].private = NULL
  BY BlankTyped DEF Init, Heap
<1>2. ruby \in [Object -> RubyRecord] /\ \A o \in Object : ruby[o] = NoObject
  BY DEF Init, NoObject, RubyRecord
<1>3. held = {} /\ garbage = {}
  BY DEF Init
<1> QED BY <1>1, <1>2, <1>3 DEF IInv, Consistent, FreeIsUnbound, DocsBound, LiveIn, NoObject, Cell

-----------------------------------------------------------------------------
(* The theorems.                                                           *)

\* Whatever the program does, wrappers and structures refer to each other
\* as rxml_node_wrap and the free functions mean them to: IInv is inductive.
THEOREM Invariance == Spec => []IInv
<1>1. Init => IInv
  BY InitIInv
<1>2. IInv /\ [Next]_vars => IInv'
  BY NextKeepsIInv
<1> QED BY <1>1, <1>2, PTL DEF Spec

\* The two heaps keep their types, an object the program holds keeps its
\* slot, and the collector finalizes only objects that exist and that no
\* variable refers to.
THEOREM TypeCorrect == Spec => []TypeOK
<1>1. IInv => TypeOK
  BY DEF IInv, Consistent, TypeOK, Live, LiveIn
<1> QED BY <1>1, Invariance, PTL

\* One wrapper per structure: _private and DATA_PTR are always inverse.
THEOREM WrappersBound == Spec => []WrapperBijection
<1>1. IInv => WrapperBijection
  BY DEF IInv, Consistent, WrapperBijection
<1> QED BY <1>1, Invariance, PTL

\* A structure that lives on stays bound to the object the program holds for
\* it, through every edit, collection and order of finalization.
THEOREM HeldStaysBound == Spec => HeldIdentity
<1>1. ASSUME IInv, [Next]_vars, NEW o \in held,
             ruby[o].ptr # NULL, ruby[o].ptr \in InUse(xml')
      PROVE  xml'[ruby[o].ptr].private = o
  <2>1. /\ o \in Object /\ o # NULL /\ ruby[o].ptr \in Cell
        /\ xml[ruby[o].ptr].private = o /\ xml'[ruby[o].ptr].type # "free"
    BY <1>1, CellsDistinct DEF IInv, Consistent, LiveIn, RubyRecord, InUse
  <2>2. CASE Make \/ Move \/ Edit
    BY <1>1, <2>1, <2>2, MakeKeepsIInv, MoveKeepsIInv, EditKeepsIInv DEF BindingsKept
  <2>3. ASSUME NEW q \in Object, sweep(q) PROVE xml'[ruby[o].ptr].private = o
    BY <1>1, <2>1, <2>3, SweepKeepsHeld
  <2>4. CASE gc_mark \/ (\E q \in held : drop(q)) \/ UNCHANGED vars
    BY <2>1, <2>4 DEF gc_mark, drop, vars
  <2> QED BY <1>1, <2>2, <2>3, <2>4 DEF Next, Collect
<1>2. IInv /\ [Next]_vars
        => [\A o \in held : (ruby[o].ptr # NULL /\ ruby[o].ptr \in InUse(xml'))
                              => xml'[ruby[o].ptr].private = o]_vars
  BY <1>1
<1> QED BY <1>2, Invariance, PTL DEF Spec, HeldIdentity

-----------------------------------------------------------------------------
(* The trees.                                                              *)

\* The program keeps all the usage rules.
LawAbiding == {"outside", "anchored", "first_root", "other_sibling"} \subseteq Rules

\* A structure without a parent has a wrapper, which will free its tree.
RootsBound(h) == \A c \in InUse(h) : h[c].parent = NULL => h[c].private # NULL

\* During a sweep no tree the program holds a wrapper in will be freed ...
HeldSafe ==
  \A o \in held : X(o) # NULL => xml[Top(xml, X(o))].private \notin garbage

\* ... and every other tree will be.
RestDoomed ==
  \A c \in InUse(xml) : xml[c].parent = NULL =>
     xml[c].private \in garbage \/ \E o \in held : X(o) # NULL /\ Top(xml, X(o)) = c

\* Every tree is linked as libxml2 links trees, and a wrapper will free it:
\* during a sweep, none of a tree in which the program holds one.
HeldTrees ==
  /\ Trees(xml)
  /\ RootsBound(xml)
  /\ garbage # {} => HeldSafe

TInv == HeldTrees /\ (garbage # {} => RestDoomed)

\* Wrapping a structure leaves the trees as they are; it may be the one
\* structure without a parent that had no wrapper.
LEMMA WrapKeepsTrees ==
  ASSUME NEW h, Trees(h), NEW r, NEW c, NEW class, Wrap(h, r, c, class),
         \A d \in InUse(h) : h[d].parent = NULL => d = c \/ h[d].private # NULL
  PROVE  Trees(xml') /\ RootsBound(xml')
<1>1. h \in Heap /\ c \in Cell
  BY DEF Trees, Forest, Wrap, InUse
<1>2. CASE h[c].private # NULL
  BY <1>2 DEF Wrap, RootsBound
<1>3. CASE h[c].private = NULL
  <2>1. PICK o \in Object : xml' = [h EXCEPT ![c].private = o]
    BY <1>3 DEF Wrap
  <2>2. o # NULL /\ h[c] \in XmlRecord
    BY <1>1, CellsDistinct DEF Heap
  <2>3. /\ xml' \in Heap
        /\ \A x \in Cell : /\ xml'[x].parent = h[x].parent /\ xml'[x].doc = h[x].doc
                           /\ xml'[x].next = h[x].next /\ xml'[x].prev = h[x].prev
                           /\ xml'[x].children = h[x].children /\ xml'[x].last = h[x].last
                           /\ xml'[x].type = h[x].type
                           /\ xml'[x].private = IF x = c THEN o ELSE h[x].private
    BY <1>1, <2>1, <2>2 DEF Heap, XmlRecord
  <2>4. Trees(xml') /\ InUse(xml') = InUse(h)
    BY <2>3, SameTrees
  <2>5. RootsBound(xml')
    BY <2>2, <2>3, <2>4 DEF RootsBound, InUse
  <2> QED BY <2>4, <2>5
<1> QED BY <1>2, <1>3

\* Outside a sweep the last conjunct says nothing.
LEMMA RunningTInv ==
  ASSUME Running, Trees(xml'), RootsBound(xml')
  PROVE  TInv'
BY DEF Running, TInv, HeldTrees

\* An edit that makes no new top leaves every top bound.
LEMMA EditedRootsBound ==
  ASSUME NEW h, NEW e, Harmless(h, e), RootsBound(h), NoNewTop(h, e.heap)
  PROVE  RootsBound(e.heap)
BY DEF Harmless, Rebound, RootsBound, NoNewTop, InUse

\* An operation whose edit keeps the trees and makes no new top keeps TInv,
\* whether or not it wraps the node it returns.
LEMMA FinishKeepsTInv ==
  ASSUME TInv, Running, NEW e, Harmless(xml, e), Finish(e),
         Trees(e.heap), NoNewTop(xml, e.heap)
  PROVE  TInv'
<1>1. RootsBound(e.heap)
  BY EditedRootsBound DEF TInv, HeldTrees
<1>2. CASE xml' = e.heap
  BY <1>1, <1>2, RunningTInv
<1>3. CASE node_wrap(e.heap, deregisterNode(xml, ruby, e.dead), e.ret)
  <2>1. Trees(xml') /\ RootsBound(xml')
    BY <1>1, <1>3, WrapKeepsTrees DEF node_wrap, RootsBound
  <2> QED BY <2>1, RunningTInv
<1> QED BY <1>2, <1>3 DEF Finish

\* An edit that takes a node from the tops makes no new top.
LEMMA TopsButNoNewTop ==
  ASSUME NEW h, NEW g, NEW n, TopsBut(h, g, n)
  PROVE  NoNewTop(h, g)
BY DEF TopsBut, NoNewTop

\* A sibling of a node outside a tree is outside it.
LEMMA SiblingOutside ==
  ASSUME NEW h, Forest(h), NEW s \in InUse(h), NEW n \in InUse(h), NEW l \in InUse(h),
         s \notin Subtree(h, n), h[l].parent = h[s].parent, l # n
  PROVE  l \notin Subtree(h, n)
BY SubtreeUp, SubtreeDown DEF Subtree

\* Making nodes and documents adds a tree, whose top gets a wrapper.
LEMMA MakeKeepsTInv ==
  ASSUME IInv, TInv, Make
  PROVE  TInv'
<1>0. /\ Trees(xml) /\ RootsBound(xml) /\ xml \in Heap /\ NULL \notin Cell
      /\ \A n \in FreeNodes(xml) : n \in Cell \ InUse(xml) /\ n \in Node
  BY CellsDistinct DEF TInv, HeldTrees, Trees, Forest, FreeNodes, Cell
<1>1. ASSUME NEW c \in Cell \ InUse(xml), NEW t \in {"element", "text", "comment", "document"},
             NEW class, Running, Wrap([xml EXCEPT ![c] = Blank(t)], ruby, c, class)
      PROVE  TInv'
  <2> DEFINE h == [xml EXCEPT ![c] = Blank(t)]
  <2>1. h \in Heap /\ h[c] = Blank(t) /\ \A x \in Cell \ {c} : h[x] = xml[x]
    <3>1. Blank(t) \in XmlRecord
      BY BlankTyped
    <3> QED BY <1>0, <3>1 DEF Heap
  <2>2. Wrap(h, ruby, c, class)
    BY <1>1
  <2> HIDE DEF h
  <2>3. Trees(h) /\ InUse(h) = InUse(xml) \cup {c}
    BY <1>0, <2>1, FreshTrees
  <2>4. \A d \in InUse(h) : h[d].parent = NULL => d = c \/ h[d].private # NULL
    BY <1>0, <2>1, <2>3 DEF RootsBound, InUse
  <2> QED BY <1>1, <2>2, <2>3, <2>4, WrapKeepsTrees, RunningTInv
<1>2. ASSUME NEW n \in Node, node_initialize(n, NULL) \/ \E c \in Node : node_initialize(n, c)
      PROVE  TInv'
  <2>1. PICK c \in (FreeNodes(xml) \ {n}) \cup {NULL} :
           /\ Running /\ n \in FreeNodes(xml)
           /\ node_wrap(NodeSetContent([xml EXCEPT ![n] = Blank("element")], n, c).heap, ruby, n)
    BY <1>2 DEF node_initialize
  <2> DEFINE h == [xml EXCEPT ![n] = Blank("element")]
             k == NodeSetContent(h, n, c).heap
  <2>2. n \in Cell \ InUse(xml)
    BY <1>0, <2>1
  <2>3. h \in Heap /\ h[n] = Blank("element") /\ \A x \in Cell \ {n} : h[x] = xml[x]
    <3>1. Blank("element") \in XmlRecord
      BY BlankTyped
    <3> QED BY <1>0, <2>2, <3>1 DEF Heap
  <2>4. Wrap(k, ruby, n, "Node")
    BY <2>1 DEF node_wrap
  <2>5. Rebound(xml, h, {})
    BY <1>0, <2>2, NewStructureRebinds DEF IInv, Consistent
  <2> HIDE DEF h
  <2>6. Trees(h) /\ InUse(h) = InUse(xml) \cup {n}
    BY <1>0, <2>2, <2>3, FreshTrees
  <2>7. c \in FreeNodes(h) \cup {NULL} /\ h[n].children = NULL
    BY <2>1, <2>3, <2>6, BlankFields DEF FreeNodes
  <2>8. Trees(k) /\ NoNewTop(h, k)
    BY <2>2, <2>6, <2>7, NodeSetContentTrees
  <2>9. Rebound(h, k, {})
    BY <2>3, <2>5, <2>7, FreshContent DEF Rebound
  <2> HIDE DEF k
  <2>10. \A d \in InUse(k) : k[d].parent = NULL => d = n \/ k[d].private # NULL
    BY <1>0, <2>3, <2>6, <2>8, <2>9 DEF RootsBound, NoNewTop, Rebound, InUse
  <2> QED BY <2>1, <2>4, <2>8, <2>10, WrapKeepsTrees, RunningTInv
<1>3. ASSUME NEW d \in Doc, NEW n \in Node, NEW c \in Node \cup {NULL}, parser_parse(d, n, c)
      PROVE  TInv'
  <2> DEFINE k == ParseDocument(xml, d, n, c)
  <2>1. /\ Running /\ d \in Doc \ InUse(xml) /\ n \in FreeNodes(xml)
        /\ c \in (FreeNodes(xml) \ {n}) \cup {NULL} /\ Wrap(k, ruby, d, "Document")
    BY <1>3 DEF parser_parse, document_wrap
  <2>2. Rebound(xml, k, {})
    BY <1>0, <2>1, ParseDocumentRebinds DEF IInv, Consistent
  <2>3. /\ Trees(k)
        /\ \A x \in InUse(k) : k[x].parent = NULL =>
              x = d \/ (x \in InUse(xml) /\ xml[x].parent = NULL)
    BY <1>0, <2>1, ParseDocumentTrees
  <2> HIDE DEF k
  <2>4. \A x \in InUse(k) : k[x].parent = NULL => x = d \/ k[x].private # NULL
    BY <1>0, <2>2, <2>3 DEF RootsBound, Rebound, InUse
  <2> QED BY <2>1, <2>3, <2>4, WrapKeepsTrees, RunningTInv
<1>4. ASSUME NEW o \in held, node_copy(o) PROVE TInv'
  <2>1. Running /\ X(o) \in InUse(xml) \cap Node /\ X(o) \in Cell
    BY <1>4, ReceiverInUse DEF node_copy
  <2>2. PICK S \in {{X(o)}, Subtree(xml, X(o))} : \E f \in [S -> FreeNodes(xml)] :
           /\ \A x, y \in S : f[x] = f[y] => x = y
           /\ node_wrap(CopyNode(xml, S, f), ruby, f[X(o)])
    BY <1>4 DEF node_copy
  <2>3. PICK f \in [S -> FreeNodes(xml)] :
           /\ \A x, y \in S : f[x] = f[y] => x = y
           /\ node_wrap(CopyNode(xml, S, f), ruby, f[X(o)])
    BY <2>2
  <2> DEFINE k == CopyNode(xml, S, f)
  <2>4. S \subseteq Cell
    BY <1>0, <2>1, BelowTyped DEF Subtree, Cell
  <2>5. Rebound(xml, k, {})
    BY <1>0, <2>4, CopyNodeRebinds DEF IInv, Consistent
  <2>6. /\ Trees(k)
        /\ \A x \in InUse(k) : k[x].parent = NULL =>
              x = f[X(o)] \/ (x \in InUse(xml) /\ xml[x].parent = NULL)
    <3> DEFINE n == X(o)
    <3>1. n \in InUse(xml) \cap Node /\ Copies(xml, n, S, f)
      BY <2>1, <2>3 DEF Copies
    <3> HIDE DEF n, k
    <3>2. /\ Trees(CopyNode(xml, S, f))
          /\ \A x \in InUse(CopyNode(xml, S, f)) : CopyNode(xml, S, f)[x].parent = NULL =>
                x = f[n] \/ (x \in InUse(xml) /\ xml[x].parent = NULL)
      BY <1>0, <3>1, CopyNodeTrees
    <3> QED BY <3>2 DEF n, k
  <2>7. Wrap(k, ruby, f[X(o)], "Node")
    BY <2>3 DEF node_wrap
  <2> HIDE DEF k
  <2>8. \A x \in InUse(k) : k[x].parent = NULL => x = f[X(o)] \/ k[x].private # NULL
    BY <1>0, <2>5, <2>6 DEF RootsBound, Rebound, InUse
  <2> QED BY <2>1, <2>6, <2>7, <2>8, WrapKeepsTrees, RunningTInv
<1>5. ASSUME NEW n \in Node, node_new_text(n) \/ node_new_comment(n) PROVE TInv'
  BY <1>0, <1>1, <1>5 DEF node_new_text, node_new_comment, node_wrap
<1>6. ASSUME NEW d \in Doc, document_initialize(d) PROVE TInv'
  BY <1>1, <1>6 DEF document_initialize, document_wrap, Cell
<1> QED BY <1>2, <1>3, <1>4, <1>5, <1>6 DEF Make

\* Editing a tree keeps it a tree, if the program keeps the usage rules.
LEMMA EditKeepsTInv ==
  ASSUME LawAbiding, IInv, TInv, Edit
  PROVE  TInv'
<1>0. /\ Trees(xml) /\ Forest(xml) /\ RootsBound(xml) /\ xml \in Heap /\ FreeIsUnbound(xml)
      /\ \A o : IsNode(o) => X(o) \in InUse(xml) \cap Node /\ X(o) \in Node
      /\ \A o : IsDocument(o) => X(o) \in InUse(xml) \cap Doc /\ X(o) \in Doc
  BY ReceiverInUse DEF TInv, HeldTrees, Trees, Forest, IInv, Consistent
<1>1. ASSUME NEW o, NEW p, Outside(o, p), child_set_aux(o, p) PROVE TInv'
  <2> DEFINE e == AddChild(xml, X(o), X(p))
  <2>1. /\ IsNode(o) /\ IsNode(p) /\ Running /\ Finish(e) /\ xml[X(p)].parent = NULL
        /\ X(o) \notin Subtree(xml, X(p))
    BY <1>1 DEF child_set_aux, Outside, LawAbiding
  <2>2. Trees(e.heap) /\ NoNewTop(xml, e.heap)
    BY <1>0, <2>1, AddChildTrees, TopsButNoNewTop
  <2>3. Harmless(xml, e)
    BY <1>0, <2>1, AddChildHarmless DEF Cell
  <2> HIDE DEF e
  <2> QED BY <2>1, <2>2, <2>3, FinishKeepsTInv
<1>2. ASSUME NEW o, NEW p, NEW s \in Node, IsNode(o), IsNode(p), Running, Outside(o, p), Anchored(o),
             s \in InUse(xml), xml[s].parent = xml[X(o)].parent, s # X(p),
             \/ Finish(AddNextSibling(xml, s, X(p)))
             \/ Finish(AddPrevSibling(xml, s, X(p)))
      PROVE  TInv'
  <2>1. /\ X(o) \notin Subtree(xml, X(p)) /\ xml[X(o)].parent # NULL
        /\ X(p) \in InUse(xml) \cap Node /\ X(o) \in InUse(xml)
    BY <1>0, <1>2 DEF Outside, Anchored, LawAbiding
  <2>2. s \notin Subtree(xml, X(p)) /\ xml[s].parent # NULL
    BY <1>0, <1>2, <2>1, SiblingOutside
  <2>3. /\ Trees(AddNextSibling(xml, s, X(p)).heap) /\ NoNewTop(xml, AddNextSibling(xml, s, X(p)).heap)
        /\ Trees(AddPrevSibling(xml, s, X(p)).heap) /\ NoNewTop(xml, AddPrevSibling(xml, s, X(p)).heap)
    BY <1>0, <1>2, <2>1, <2>2, AddSiblingTrees, TopsButNoNewTop
  <2>4. /\ Harmless(xml, AddNextSibling(xml, s, X(p)))
        /\ Harmless(xml, AddPrevSibling(xml, s, X(p)))
    BY <1>0, <2>1, AddNextSiblingHarmless, AddPrevSiblingHarmless
  <2> QED BY <1>2, <2>3, <2>4, FinishKeepsTInv
<1>3. ASSUME NEW o, NEW p, IsNode(o), IsNode(p), Outside(o, p), Anchored(o),
             next_set(o, p) \/ prev_set(o, p)
      PROVE  TInv'
  <2>1. X(o) # X(p)
    BY <1>3, ReceiverInUse DEF next_set, prev_set
  <2> QED BY <1>0, <1>2, <1>3, <2>1 DEF next_set, prev_set
<1>4. ASSUME NEW o, NEW p, IsNode(o), IsNode(p), Outside(o, p), Anchored(o), OtherSibling(o, p),
             sibling_set(o, p)
      PROVE  TInv'
  <2>1. PICK l \in Node \ {X(p)} :
           /\ l \in Closure({X(o)}, [x \in Cell |-> {xml[x].next} \ {NULL}])
           /\ Finish(AddNextSibling(xml, l, X(p)))
    BY <1>4 DEF sibling_set, LastSibling, AddSibling, OtherSibling, LawAbiding
  <2>2. l \in InUse(xml) /\ xml[l].parent = xml[X(o)].parent
    BY <1>0, <1>4, <2>1, NextWalk
  <2> QED BY <1>2, <1>4, <2>1, <2>2 DEF sibling_set
<1>5. ASSUME NEW o, NEW p, IsDocument(o), IsNode(p), FirstRoot(o, p), document_root_set(o, p)
      PROVE  TInv'
  <2> DEFINE e == DocSetRootElement(xml, X(o), X(p))
  <2>1. Running /\ Finish(e) /\ RootElement(Unlink(xml, X(p)), X(o)) = NULL
    BY <1>5 DEF document_root_set, FirstRoot, LawAbiding
  <2>2. Trees(e.heap) /\ NoNewTop(xml, e.heap)
    BY <1>0, <1>5, <2>1, DocSetRootElementTrees, TopsButNoNewTop
  <2>3. Harmless(xml, e)
    BY <1>0, <1>5, DocSetRootElementHarmless
  <2> HIDE DEF e
  <2> QED BY <2>1, <2>2, <2>3, FinishKeepsTInv
<1>6. ASSUME NEW o, remove_ex(o) PROVE TInv'
  <2>1. /\ IsNode(o) /\ Running /\ xml' = SetTreeDoc(Unlink(xml, X(o)), X(o), NULL)
    BY <1>6 DEF remove_ex
  <2>2. /\ Trees(xml') /\ InUse(xml') = InUse(xml)
        /\ \A c \in InUse(xml') \ {X(o)} : xml'[c].parent = xml[c].parent
    BY <1>0, <2>1, RemoveTrees
  <2>3. \A c \in InUse(xml') : xml'[c].private = xml[c].private
    BY <1>6, RemoveRebinds DEF Rebound, InUse
  <2>4. xml[X(o)].private # NULL
    BY <2>1, ReceiverInUse, CellsDistinct
  <2>5. RootsBound(xml')
    BY <1>0, <2>2, <2>3, <2>4 DEF RootsBound
  <2> QED BY <2>1, <2>2, <2>5, RunningTInv
<1>7. ASSUME NEW o, NEW c, content_set(o, c) PROVE TInv'
  <2> DEFINE e == NodeSetContent(xml, X(o), c)
  <2>1. IsNode(o) /\ Running /\ c \in FreeNodes(xml) \cup {NULL} /\ xml' = e.heap
    BY <1>7 DEF content_set
  <2>2. Trees(e.heap) /\ NoNewTop(xml, e.heap)
    BY <1>0, <2>1, NodeSetContentTrees
  <2>3. Harmless(xml, e)
    BY <1>0, <2>1, NodeSetContentHarmless
  <2> HIDE DEF e
  <2> QED BY <1>0, <2>1, <2>2, <2>3, EditedRootsBound, RunningTInv
<1>8. ASSUME NEW o, NEW c, content_add(o, c) PROVE TInv'
  <2>1. IsNode(o) /\ Running /\ c \in FreeNodes(xml) /\ xml' = NodeAddContent(xml, X(o), c).heap
    BY <1>8 DEF content_add
  <2>2. Trees(xml') /\ NoNewTop(xml, xml')
    BY <1>0, <2>1, NodeAddContentTrees
  <2>3. Rebound(xml, xml', {})
    BY <1>8, ContentAddRebinds
  <2>4. RootsBound(xml')
    BY <1>0, <2>2, <2>3 DEF RootsBound, NoNewTop, Rebound, InUse
  <2> QED BY <2>1, <2>2, <2>4, RunningTInv
<1> QED BY <1>1, <1>3, <1>4, <1>5, <1>6, <1>7, <1>8 DEF Edit

\* Retrieving a structure changes no links.
LEMMA MoveKeepsTInv ==
  ASSUME TInv, Move
  PROVE  TInv'
<1>1. PICK o \in held :
        \/ first_get(o) \/ last_get(o) \/ next_get(o) \/ prev_get(o) \/ parent_get(o)
        \/ document_child_get(o) \/ document_last_get(o) \/ document_root_get(o)
        \/ node_doc(o)
  BY DEF Move
<1>2. ASSUME NEW c, Running, Follow(c) PROVE TInv'
  <2>1. Trees(xml') /\ RootsBound(xml')
    BY <1>2, WrapKeepsTrees DEF Follow, node_wrap, TInv, HeldTrees, RootsBound
  <2> QED BY <1>2, <2>1, RunningTInv
<1>3. CASE node_doc(o)
  BY <1>3, RunningTInv DEF node_doc, TInv, HeldTrees
<1> QED
  BY <1>1, <1>2, <1>3 DEF first_get, last_get, next_get, prev_get, parent_get,
       document_child_get, document_last_get, document_root_get

\* The structure of a wrapper that has one is in use, and bound to it.
LEMMA PointerInUse ==
  ASSUME IInv, NEW o \in Object, X(o) # NULL
  PROVE  X(o) \in Cell /\ X(o) \in InUse(xml) /\ xml[X(o)].private = o
BY CellsDistinct DEF IInv, Consistent, X, RubyRecord, FreeIsUnbound, InUse

\* The wrapper of the top of what is held, as rxml_node_mark finds it, is
\* the one that is marked.
LEMMA MarkedTops ==
  ASSUME IInv, Trees(xml), RootsBound(xml), NEW o \in held, X(o) # NULL
  PROVE  /\ Top(xml, X(o)) \in InUse(xml)
         /\ xml[Top(xml, X(o))].private \in Marked
         /\ IsNode(o) => \A q \in node_mark(X(o)) : q = xml[Top(xml, X(o))].private
<1> DEFINE x == X(o)
           t == Top(xml, x)
<1>1. Forest(xml) /\ held \subseteq Object
  BY DEF Trees, IInv, LiveIn
<1>2. x \in Cell /\ x \in InUse(xml) /\ xml[x].private = o /\ o \in Object
  BY <1>1, PointerInUse
<1>3. t \in InUse(xml) /\ xml[t].parent = NULL /\ (xml[x].parent = NULL => t = x)
  BY <1>1, <1>2, Tops
<1>4. xml[t].private # NULL
  BY <1>3 DEF RootsBound
<1>5. CASE x \in Doc
  <2>1. xml[x].parent = NULL /\ ~IsNode(o)
    BY <1>1, <1>2, <1>5, CellsDistinct DEF Forest, LinkedAt, IsNode, IInv, Consistent, X
  <2> QED BY <1>2, <1>3, <2>1 DEF Marked
<1>6. CASE x \in Node
  <2>1. IsNode(o)
    BY <1>2, <1>6 DEF IsNode, IInv, Consistent, X
  <2>2. xml[x].doc # NULL => t = xml[x].doc
    BY <1>2, DocBelow
  <2>3. node_mark(x) \subseteq Marked
    BY <2>1 DEF Marked
  <2>4. CASE xml[x].parent = NULL
    BY <1>2, <1>3, <2>4 DEF Marked, node_mark
  <2>5. CASE xml[x].parent # NULL
    <3>1. node_mark(x) = {xml[t].private}
      BY <1>4, <2>2, <2>5 DEF node_mark
    <3> QED BY <1>3, <2>3, <3>1
  <2> QED BY <2>4, <2>5
<1> QED BY <1>2, <1>5, <1>6 DEF Cell

\* A mark dooms exactly the trees the program holds no wrapper in.
LEMMA MarkKeepsTInv ==
  ASSUME IInv, TInv, gc_mark
  PROVE  TInv'
<1>1. /\ garbage' = Live \ Marked /\ UNCHANGED <<xml, ruby, held>>
      /\ Trees(xml) /\ Forest(xml) /\ RootsBound(xml)
      /\ held \subseteq Object /\ NULL \notin Object
  BY CellsDistinct DEF gc_mark, TInv, HeldTrees, Trees, IInv, LiveIn
<1>2. ASSUME NEW o \in held, X(o) # NULL
      PROVE  /\ Top(xml, X(o)) \in InUse(xml)
             /\ xml[Top(xml, X(o))].private \in Marked
             /\ IsNode(o) => \A q \in node_mark(X(o)) : q = xml[Top(xml, X(o))].private
  BY <1>1, <1>2, MarkedTops
<1>3. HeldSafe'
  BY <1>1, <1>2 DEF HeldSafe, X
<1>4. ASSUME NEW c \in InUse(xml), xml[c].parent = NULL, xml[c].private \notin garbage'
      PROVE  \E o \in held : X(o) # NULL /\ Top(xml, X(o)) = c
  <2> DEFINE q == xml[c].private
  <2>1. /\ c \in Cell /\ c # NULL /\ q # NULL /\ q \in Object
        /\ ruby[q].ptr = c /\ q \in Live /\ Top(xml, c) = c
    BY <1>1, <1>4, Tops, ForestFields, CellsDistinct
       DEF RootsBound, IInv, Consistent, Live, Heap, XmlRecord
  <2>2. q \in Marked
    BY <1>1, <1>4, <2>1
  <2>3. CASE q \in held
    BY <2>1, <2>3 DEF X
  <2>4. CASE q \notin held
    <3>1. PICK o \in held : IsNode(o) /\ q \in node_mark(X(o))
      BY <2>2, <2>4 DEF Marked
    <3>2. X(o) # NULL
      BY <3>1 DEF IsNode, X
    <3>3. /\ Top(xml, X(o)) \in InUse(xml) /\ xml[Top(xml, X(o))].private = q
      BY <1>2, <3>1, <3>2
    <3>4. Top(xml, X(o)) = c
      BY <2>1, <3>3 DEF IInv, Consistent, InUse
    <3> QED BY <3>2, <3>4
  <2> QED BY <2>3, <2>4
<1>5. RestDoomed'
  <2> SUFFICES ASSUME NEW c \in InUse(xml), xml[c].parent = NULL
               PROVE  xml[c].private \in garbage' \/ \E o \in held : X(o) # NULL /\ Top(xml, X(o)) = c
    BY <1>1 DEF RestDoomed, X
  <2> QED BY <1>4
<1> QED BY <1>1, <1>3, <1>5 DEF TInv, HeldTrees

\* What finalizing the wrapper of structure c frees: all of its tree, if c
\* is the top of one, and else nothing.
LEMMA FreedTree ==
  ASSUME IInv, Trees(xml), NEW o \in Object, X(o) # NULL
  PROVE  LET c == X(o)
             dead == IF ruby[o].class = "Node" THEN node_free(c) ELSE document_free(c)
         IN /\ xml[c].parent = NULL => dead = Subtree(xml, c)
            /\ xml[c].parent # NULL => dead = {}
<1>1. /\ X(o) \in Cell /\ X(o) \in InUse(xml) /\ Trees(xml) /\ Forest(xml)
      /\ ruby[o].class = "Node" <=> X(o) \in Node
  BY PointerInUse DEF Trees, IInv, Consistent, X
<1>2. CASE ruby[o].class = "Node"
  <2>1. xml[X(o)].parent = NULL => xml[X(o)].doc = NULL
    BY <1>1, <1>2 DEF Trees, DocRight, DocUnder
  <2> QED BY <1>2, <2>1 DEF node_free
<1>3. CASE ruby[o].class # "Node"
  <2>1. X(o) \in Doc
    BY <1>1, <1>3 DEF Cell
  <2>2. xml[X(o)].parent = NULL
    BY <1>1, <2>1 DEF Forest, LinkedAt
  <2> QED BY <1>3, <2>2 DEF document_free
<1> QED BY <1>2, <1>3

\* Finalizing o keeps the trees and frees none in which a wrapper is held;
\* it frees only the tree whose top was bound to o.
LEMMA SweepFreesOwn ==
  ASSUME IInv, HeldTrees, NEW o \in Object, sweep(o)
  PROVE  /\ HeldTrees'
         /\ \A t \in InUse(xml') : xml'[t].parent = NULL =>
              /\ t \in InUse(xml) /\ xml[t].parent = NULL
              /\ xml'[t].private = xml[t].private /\ xml[t].private # o
         /\ \A p \in held : X(p) # NULL =>
              X(p)' = X(p) /\ X(p) \in InUse(xml') /\ Top(xml', X(p)) = Top(xml, X(p))
         /\ \A x \in InUse(xml) :
              xml[Top(xml, x)].private # o => x \in InUse(xml')
         /\ \A x \in InUse(xml') : x \in InUse(xml) /\ xml'[x].parent = xml[x].parent
         /\ \A x \in InUse(xml') : xml[x].private # o => xml'[x].private = xml[x].private
<1>1. /\ o \in garbage /\ garbage' = garbage \ {o} /\ held' = held /\ o \notin held
      /\ held \subseteq Object /\ garbage # {}
  BY DEF sweep, IInv, LiveIn
<1>2. /\ Trees(xml) /\ Forest(xml) /\ RootsBound(xml) /\ HeldSafe
      /\ xml \in Heap /\ NULL \notin Object
  BY <1>1, CellsDistinct DEF HeldTrees, Trees, Forest
<1>3. CASE X(o) = NULL
  <2>1. xml' = xml /\ \A p \in Object : p # o => ruby'[p] = ruby[p]
    BY <1>3 DEF sweep, IInv, Consistent
  <2>2. \A p \in held : X(p)' = X(p)
    BY <1>1, <2>1 DEF X
  <2>3. \A c \in InUse(xml) : xml[c].parent = NULL => xml[c].private # o
    BY <1>2, <1>3, CellsDistinct DEF IInv, Consistent, InUse, X, Cell
  <2>4. HeldTrees'
    BY <1>1, <1>2, <2>1, <2>2 DEF HeldTrees, HeldSafe
  <2>5. \A p \in held : X(p) # NULL => X(p) \in InUse(xml)
    BY <1>1, PointerInUse
  <2> QED BY <1>1, <2>1, <2>2, <2>3, <2>4, <2>5
<1>4. CASE X(o) # NULL
  <2> DEFINE c    == X(o)
             dead == IF ruby[o].class = "Node" THEN node_free(c) ELSE document_free(c)
             u    == [xml EXCEPT ![c].private = NULL]
  <2>1. /\ xml' = Release(u, dead)
        /\ ruby' = [deregisterNode(xml, ruby, dead) EXCEPT ![o] = NoObject]
    BY <1>4 DEF sweep, Finalized
  <2>2. c \in Cell /\ c \in InUse(xml) /\ xml[c].private = o
    BY <1>4, PointerInUse
  <2>3. /\ xml[c].parent = NULL => dead = Subtree(xml, c)
        /\ xml[c].parent # NULL => dead = {}
    BY <1>2, <1>4, FreedTree
  <2>4. ASSUME NEW p \in held
        PROVE  p # o /\ p \in Object /\ (X(p)' = IF \E m \in dead : xml[m].private = p
                                                THEN NULL ELSE X(p))
    BY <1>1, <2>1 DEF X, deregisterNode, IInv, Consistent, RubyRecord
  <2> HIDE DEF c, dead
  <2>5. /\ u \in Heap
        /\ \A x \in Cell : /\ u[x].parent = xml[x].parent /\ u[x].doc = xml[x].doc
                           /\ u[x].next = xml[x].next /\ u[x].prev = xml[x].prev
                           /\ u[x].children = xml[x].children /\ u[x].last = xml[x].last
                           /\ u[x].type = xml[x].type
                           /\ u[x].private = IF x = c THEN NULL ELSE xml[x].private
    BY <1>2, <2>2 DEF Heap, XmlRecord
  <2> HIDE DEF u
  <2>6. Trees(u) /\ InUse(u) = InUse(xml)
    BY <1>2, <2>5, SameTrees
  <2>7. Subtree(u, c) = Subtree(xml, c)
    BY <2>2, <2>5, SameSubtree
  \* The trees that are left.
  <2>8. /\ Trees(xml') /\ InUse(xml') = InUse(xml) \ dead
        /\ \A x \in InUse(xml') : xml'[x] = u[x]
    <3>1. CASE xml[c].parent # NULL
      <4>1. dead = {}
        BY <2>3, <3>1
      <4>2. xml' = u
        <5>1. u = [x \in Cell |-> u[x]]
          BY <2>5 DEF Heap
        <5> QED BY <2>1, <4>1, <5>1 DEF Release
      <4> QED BY <2>6, <4>1, <4>2
    <3>2. CASE xml[c].parent = NULL
      <4>1. dead = Subtree(u, c) /\ c \in InUse(u) /\ u[c].parent = NULL /\ Forest(u)
        BY <2>2, <2>3, <2>5, <2>6, <2>7, <3>2 DEF Trees
      <4>2. ASSUME NEW x \in InUse(u) \ Subtree(u, c)
            PROVE  u[x].doc \notin Subtree(u, c) /\ (x \in Node => DocRight(u, x))
        <5>1. x \in Node => DocRight(u, x)
          BY <2>6 DEF Trees
        <5>2. ASSUME u[x].doc \in Subtree(u, c) PROVE FALSE
          <6>1. u[x].doc \in InUse(u) /\ u[x].doc # NULL
            BY <4>1, <5>2, SubtreeUp, ForestFields
          <6>2. u[x].doc \in Doc /\ x \in Subtree(u, u[x].doc)
            BY <2>6, <6>1, DocBelow
          <6>3. u[x].doc = c
            BY <4>1, <5>2, <6>2, SubtreeUp, CellsDistinct DEF Subtree
          <6> QED BY <6>2, <6>3
        <5> QED BY <5>1, <5>2
      <4>3. /\ Trees(Release(u, Subtree(u, c)))
            /\ InUse(Release(u, Subtree(u, c))) = InUse(u) \ Subtree(u, c)
            /\ \A x \in InUse(Release(u, Subtree(u, c))) : Release(u, Subtree(u, c))[x] = u[x]
        BY <4>1, <4>2, ReleaseTrees
      <4> QED BY <2>1, <2>6, <4>1, <4>3
    <3> QED BY <3>1, <3>2
  <2>9. ASSUME NEW x \in InUse(xml')
        PROVE  /\ x \in InUse(xml) /\ x \in Cell /\ x \notin dead
               /\ xml'[x].parent = xml[x].parent
               /\ xml'[x].private = IF x = c THEN NULL ELSE xml[x].private
    BY <2>5, <2>8 DEF InUse
  <2>10. \A x \in InUse(xml') : Top(xml', x) = Top(xml, x)
    BY <1>2, <2>8, <2>9, TopsKept DEF Trees
  \* The top that was bound to o is gone.
  <2>11. ASSUME NEW t \in InUse(xml'), xml'[t].parent = NULL
         PROVE  /\ t \in InUse(xml) /\ xml[t].parent = NULL /\ xml[t].private # NULL
                /\ xml'[t].private = xml[t].private /\ t # c /\ xml[t].private # o
    <3>1. t \in InUse(xml) /\ xml[t].parent = NULL /\ t \notin dead /\ t \in Cell
      BY <2>9, <2>11
    <3>2. t # c
      BY <2>3, <3>1 DEF Subtree
    <3>3. xml[t].private # NULL
      BY <1>2, <3>1 DEF RootsBound
    <3>4. xml[t].private # o
      BY <2>2, <3>1, <3>2, <3>3 DEF IInv, Consistent
    <3> QED BY <2>9, <3>1, <3>2, <3>3, <3>4
  <2>12. RootsBound(xml')
    BY <2>11 DEF RootsBound
  \* What is held is not in the tree that was freed.
  <2>13. ASSUME NEW p \in held, X(p) # NULL
         PROVE  X(p)' = X(p) /\ X(p) \in InUse(xml')
    <3>1. p \in Object /\ X(p) \in InUse(xml) /\ X(p) \in Cell /\ xml[X(p)].private = p
      BY <1>1, <2>13, PointerInUse
    <3>2. X(p) \notin dead
      <4>1. CASE xml[c].parent = NULL
        <5>1. Top(xml, X(p)) # c
          BY <1>1, <1>2, <2>2, <2>13 DEF HeldSafe
        <5>2. X(p) \notin Subtree(xml, c)
          BY <1>2, <2>2, <3>1, <4>1, <5>1, TopSubtree
        <5> QED BY <2>3, <4>1, <5>2
      <4>2. CASE xml[c].parent # NULL
        BY <2>3, <4>2
      <4> QED BY <4>1, <4>2
    <3>3. ~\E m \in dead : xml[m].private = p
      <4>1. dead \subseteq Cell
        BY <1>2, <2>2, <2>3, SubtreeUp DEF InUse
      <4>2. ruby[p].ptr = X(p) /\ p # NULL
        BY <1>2, <3>1 DEF X
      <4> QED BY <3>2, <4>1, <4>2 DEF IInv, Consistent
    <3> QED BY <2>4, <2>8, <3>1, <3>2, <3>3
  <2>14. \A p \in held : X(p)' # NULL => X(p) # NULL
    BY <2>4
  <2>15. HeldSafe'
    <3> SUFFICES ASSUME NEW p \in held, X(p)' # NULL
                 PROVE  xml'[Top(xml', X(p)')].private \notin garbage'
      BY <1>1 DEF HeldSafe
    <3>1. X(p) # NULL /\ X(p)' = X(p) /\ X(p) \in InUse(xml')
      BY <2>13, <2>14
    <3>2. Top(xml', X(p)) = Top(xml, X(p)) /\ Top(xml', X(p)) \in InUse(xml')
          /\ xml'[Top(xml', X(p))].parent = NULL
      BY <2>8, <2>10, <3>1, Tops DEF Trees
    <3>3. xml'[Top(xml', X(p))].private = xml[Top(xml, X(p))].private
      BY <2>11, <3>2
    <3>4. xml[Top(xml, X(p))].private \notin garbage
      BY <1>2, <3>1 DEF HeldSafe
    <3> QED BY <1>1, <3>1, <3>3, <3>4
  <2>16. ASSUME NEW x \in InUse(xml), xml[Top(xml, x)].private # o
         PROVE  x \in InUse(xml')
    <3>1. xml[c].parent = NULL => x \notin Subtree(xml, c)
      BY <1>2, <2>2, <2>16, TopSubtree
    <3> QED BY <2>3, <2>8, <3>1
  <2>17. HeldTrees'
    BY <2>8, <2>12, <2>15 DEF HeldTrees
  <2> QED BY <2>2, <2>9, <2>10, <2>11, <2>13, <2>16, <2>17
<1> QED BY <1>3, <1>4

\* It leaves the wrappers of the other doomed tops to be finalized.
LEMMA SweepKeepsTInv ==
  ASSUME IInv, TInv, NEW o \in Object, sweep(o)
  PROVE  TInv' /\ RestDoomed'
<1>1. /\ HeldTrees /\ RestDoomed /\ garbage' = garbage \ {o} /\ held' = held
  BY DEF TInv, sweep
<1>2. /\ HeldTrees'
      /\ \A t \in InUse(xml') : xml'[t].parent = NULL =>
           /\ t \in InUse(xml) /\ xml[t].parent = NULL
           /\ xml'[t].private = xml[t].private /\ xml[t].private # o
      /\ \A p \in held : X(p) # NULL =>
           X(p)' = X(p) /\ X(p) \in InUse(xml') /\ Top(xml', X(p)) = Top(xml, X(p))
  BY <1>1, SweepFreesOwn
<1>3. ASSUME NEW t \in InUse(xml'), xml'[t].parent = NULL
      PROVE  \/ xml'[t].private \in garbage'
             \/ \E p \in held : X(p)' # NULL /\ Top(xml', X(p)') = t
  <2>1. /\ t \in InUse(xml) /\ xml[t].parent = NULL
        /\ xml'[t].private = xml[t].private /\ xml[t].private # o
    BY <1>2, <1>3
  <2>2. CASE xml[t].private \in garbage
    BY <1>1, <2>1, <2>2
  <2>3. ASSUME NEW p \in held, X(p) # NULL, Top(xml, X(p)) = t
        PROVE  X(p)' # NULL /\ Top(xml', X(p)') = t
    BY <1>2, <2>3
  <2> QED BY <1>1, <2>1, <2>2, <2>3 DEF RestDoomed
<1>4. RestDoomed'
  BY <1>1, <1>3 DEF RestDoomed
<1> QED BY <1>2, <1>4 DEF TInv

\* The trees stay trees.
LEMMA NextKeepsTInv ==
  ASSUME LawAbiding, IInv, TInv, [Next]_vars
  PROVE  TInv'
<1>1. CASE Make
  BY <1>1, MakeKeepsTInv
<1>2. CASE Move
  BY <1>2, MoveKeepsTInv
<1>3. CASE Edit
  BY <1>3, EditKeepsTInv
<1>4. CASE gc_mark
  BY <1>4, MarkKeepsTInv
<1>5. ASSUME NEW o \in Object, sweep(o) PROVE TInv'
  BY <1>5, SweepKeepsTInv
<1>6. ASSUME NEW o \in held, drop(o) PROVE TInv'
  BY <1>6 DEF drop, Running, TInv, HeldTrees
<1>7. CASE UNCHANGED vars
  BY <1>7 DEF vars, TInv, HeldTrees, HeldSafe, RestDoomed, X
<1> QED BY <1>1, <1>2, <1>3, <1>4, <1>5, <1>6, <1>7 DEF Next, Collect

\* No structure is in use at first: there is no tree to be wrong.
LEMMA InitTInv ==
  ASSUME Init
  PROVE  TInv
<1>1. xml \in Heap /\ InUse(xml) = {} /\ garbage = {}
  BY BlankTyped, BlankFields DEF Init, Heap, InUse
<1> QED BY <1>1 DEF TInv, HeldTrees, Trees, Forest, Grounded, Ordered, RootsBound

\* Everything a query of a structure reads is in use.
LEMMA QueriesInUse ==
  ASSUME Forest(xml), NEW c \in InUse(xml)
  PROVE  Queries(c) \subseteq InUse(xml)
<1>1. ASSUME NEW n \in InUse(xml)
      PROVE  /\ Subtree(xml, n) \subseteq InUse(xml) /\ Ancestors(xml, n) \subseteq InUse(xml)
             /\ Siblings(xml, n) \subseteq InUse(xml)
             /\ Closure({n}, [x \in Cell |-> {xml[x].prev} \ {NULL}]) \subseteq InUse(xml)
             /\ xml[n].parent = NULL \/ xml[n].parent \in InUse(xml)
             /\ xml[n].doc = NULL \/ xml[n].doc \in InUse(xml)
  BY WalksInUse
<1>2. CASE c \in Doc
  <2>1. document_neighbours(c) = {}
    BY <1>2 DEF document_neighbours, Forest, LinkedAt
  <2> QED BY <1>1, <1>2, <2>1 DEF Queries, document_save, document_to_s, document_fields
<1>3. CASE c \notin Doc
  <2>1. /\ name_get(c) \subseteq InUse(xml) /\ content_get(c) \subseteq InUse(xml)
        /\ content_stripped_get(c) \subseteq InUse(xml) /\ base_uri_get(c) \subseteq InUse(xml)
        /\ lang_get(c) \subseteq InUse(xml) /\ space_preserve_get(c) \subseteq InUse(xml)
        /\ xlink_q(c) \subseteq InUse(xml)
    BY <1>1 DEF name_get, content_get, content_stripped_get, base_uri_get, lang_get,
                space_preserve_get, xlink_q
  <2>2. path(c) \subseteq InUse(xml)
    BY <1>1 DEF path
  <2>3. line_num(c) \subseteq InUse(xml)
    BY <1>1 DEF line_num
  <2>4. node_to_s(c) \subseteq InUse(xml) /\ eql_q(c) \subseteq InUse(xml)
    BY <1>1 DEF node_to_s, eql_q
  <2> QED BY <1>3, <2>1, <2>2, <2>3, <2>4 DEF Queries
<1> QED BY <1>2, <1>3

\* A program that keeps the usage rules never spoils a tree: whatever it
\* edits, wraps and drops, and in whichever order the sweep finalizes, the
\* trees stay trees and each top has the wrapper that will free it.
THEOREM TreeInvariance == ASSUME LawAbiding PROVE Spec => [](IInv /\ TInv)
<1>1. Init => IInv /\ TInv
  BY InitIInv, InitTInv
<1>2. IInv /\ TInv /\ [Next]_vars => IInv' /\ TInv'
  BY NextKeepsIInv, NextKeepsTInv
<1> QED BY <1>1, <1>2, PTL DEF Spec

\* The links of every structure agree with those of its neighbours after
\* any sequence of adds, removes, copies and texts; no walk of them, such as
\* the loop of rxml_node_mark_common, runs in a circle.
THEOREM TreesWellLinked == ASSUME LawAbiding PROVE Spec => []WellLinked
<1>1. TInv => WellLinked
  BY ForestLinkedInPlace DEF TInv, HeldTrees, Trees, WellLinked
<1> QED BY <1>1, TreeInvariance, PTL

\* A node's doc pointer always names the document of its tree, and is NULL
\* in a detached tree: rxml_node_mark_common and rxml_node_free decide
\* rightly what to keep and what to free.
THEOREM DocPointersRight == ASSUME LawAbiding PROVE Spec => []DocOfTree
<1>1. TInv => DocOfTree
  BY DocOfTop DEF TInv, HeldTrees, DocOfTree
<1> QED BY <1>1, TreeInvariance, PTL

\* No structure is left without a wrapper whose free function will free it,
\* also while a collection is under way.
THEOREM NothingLeaks == ASSUME LawAbiding PROVE Spec => []Owned
<1>1. TInv => Owned
  BY Tops DEF TInv, HeldTrees, Trees, RootsBound, Owned
<1> QED BY <1>1, TreeInvariance, PTL

\* No structure in use points at a freed one, and nothing the program can
\* read from an object it holds has been freed, at any point of a sweep.
THEOREM NothingDangles == ASSUME LawAbiding PROVE Spec => []NoDangling
<1>1. ASSUME IInv, TInv PROVE NoDangling
  <2>1. Forest(xml) /\ held \subseteq Object
    BY <1>1 DEF TInv, HeldTrees, Trees, IInv, LiveIn
  <2>2. \A c \in InUse(xml) : Links(xml, c) \subseteq InUse(xml)
    BY <2>1 DEF Forest, LinkedAt
  <2>3. \A o \in held : X(o) # NULL => Queries(X(o)) \subseteq InUse(xml)
    BY <1>1, <2>1, PointerInUse, QueriesInUse
  <2> QED BY <2>2, <2>3 DEF NoDangling
<1> QED BY <1>1, TreeInvariance, PTL

\* When a sweep ends, the free functions have freed every tree that the
\* program held nothing of.  (That they freed no other: NothingDangles.)
THEOREM CollectionsExact == ASSUME LawAbiding PROVE Spec => CollectionIsExact
<1> DEFINE Exact == \A c \in InUse(xml') :
              \E o \in held : ruby'[o].ptr # NULL /\ Top(xml', ruby'[o].ptr) = Top(xml', c)
<1>1. ASSUME IInv, TInv, [Next]_vars, garbage # {}, garbage' = {} PROVE Exact
  <2>1. PICK q \in Object : sweep(q)
    BY <1>1 DEF Next, Make, Move, Edit, Collect, vars, Running, drop, gc_mark,
       node_new_text, node_new_comment, node_initialize, document_initialize, parser_parse,
       node_copy, first_get, last_get, next_get, prev_get, parent_get, document_child_get,
       document_last_get, document_root_get, node_doc, content_add, content_set, remove_ex,
       child_set_aux, next_set, prev_set, sibling_set, document_root_set
  <2>2. Trees(xml') /\ RestDoomed' /\ held' = held
    BY <1>1, <2>1, SweepKeepsTInv DEF sweep, TInv, HeldTrees
  <2>3. ASSUME NEW c \in InUse(xml')
        PROVE  \E o \in held : ruby'[o].ptr # NULL /\ Top(xml', ruby'[o].ptr) = Top(xml', c)
    <3>1. Top(xml', c) \in InUse(xml') /\ xml'[Top(xml', c)].parent = NULL
      BY <2>2, Tops DEF Trees
    <3> QED BY <1>1, <2>2, <3>1 DEF RestDoomed, X
  <2> QED BY <2>3
<1>2. IInv /\ TInv /\ [Next]_vars => [(garbage # {} /\ garbage' = {}) => Exact]_vars
  BY <1>1
<1> QED BY <1>2, TreeInvariance, PTL DEF Spec, CollectionIsExact

-----------------------------------------------------------------------------
(* The refinement of NodeIdentity.                                         *)

\* Structures of dead are freed, and nothing is wrapped.
LEMMA EditIsCall ==
  ASSUME Running, NEW dead, Rebound(xml, xml', dead), UNCHANGED held
  PROVE  Promise!Next
<1>1. dead \in SUBSET Cell /\ \A c \in Cell : xml'[c].private = IF c \in dead THEN NULL ELSE xml[c].private
  BY DEF Rebound
<1>2. (garbage # {}) = FALSE /\ (garbage' # {}) = FALSE
  BY DEF Running
<1>3. Promise!Call(dead, NULL)
  BY <1>1, <1>2 DEF Promise!Call, Promise!Without
<1> QED BY <1>1, <1>3 DEF Promise!Next

\* Structures of dead are freed, and c is wrapped.
LEMMA WrapIsCall ==
  ASSUME IInv, Running, NEW dead, NEW h, Rebound(xml, h, dead),
         NEW r, \A o \in Object : r[o] = NoObject => ruby[o].class = "none",
         NEW c, NEW class, Wrap(h, r, c, class)
  PROVE  Promise!Next
<1> DEFINE left == Promise!Without(dead)
<1>1. /\ dead \in SUBSET Cell /\ h \in Heap /\ c \in Cell /\ c # NULL
      /\ \A d \in Cell : h[d].private = IF d \in dead THEN NULL ELSE xml[d].private
  BY CellsDistinct DEF Rebound, Wrap, InUse, Cell
<1>2. (garbage # {}) = FALSE /\ (garbage' # {}) = FALSE
  BY DEF Running
<1>3. left = [d \in Cell |-> h[d].private]
  BY <1>1 DEF Promise!Without
<1> HIDE DEF left
<1>4. CASE h[c].private # NULL
  <2>1. xml' = h /\ held' = held \cup {h[c].private}
    BY <1>4 DEF Wrap
  <2>2. Promise!Call(dead, c)
    BY <1>1, <1>2, <1>3, <1>4, <2>1 DEF Promise!Call, left
  <2> QED BY <1>1, <2>2 DEF Promise!Next
<1>5. CASE h[c].private = NULL
  <2>1. PICK o \in Object : /\ r[o] = NoObject
                            /\ xml' = [h EXCEPT ![c].private = o]
                            /\ held' = held \cup {o}
    BY <1>5 DEF Wrap
  <2>2. ruby[o].class = "none" /\ o # NULL /\ ruby[o].ptr = NULL
    BY <2>1, CellsDistinct DEF IInv, Consistent
  <2>3. o \notin held
    BY <2>2 DEF IInv, LiveIn
  <2>4. \A d \in Cell : left[d] # o
    <3>1. \A d \in Cell : xml[d].private # o
      BY <2>2, CellsDistinct DEF IInv, Consistent, Cell
    <3> QED BY <1>1, <1>3, <2>2, <3>1
  <2>5. [d \in Cell |-> xml'[d].private] = [left EXCEPT ![c] = o]
    <3>1. \A d \in Cell : xml'[d].private = IF d = c THEN o ELSE h[d].private
      BY <1>1, <2>1 DEF Heap, XmlRecord
    <3> QED BY <1>1, <1>3, <3>1
  <2>6. Promise!Call(dead, c)
    BY <1>1, <1>2, <1>3, <1>5, <2>1, <2>3, <2>4, <2>5 DEF Promise!Call, left
  <2> QED BY <1>1, <2>6 DEF Promise!Next
<1> QED BY <1>4, <1>5

\* A mark begins a collection, if it leaves anything to collect.
LEMMA MarkIsBegin ==
  ASSUME gc_mark
  PROVE  Promise!Next \/ UNCHANGED Promise!vars
<1>1. /\ (garbage # {}) = FALSE /\ xml' = xml /\ held' = held
  BY DEF gc_mark
<1>2. CASE garbage' = {}
  BY <1>1, <1>2 DEF Promise!vars, gc_mark
<1>3. CASE garbage' # {}
  BY <1>1, <1>3 DEF Promise!Next, Promise!Begin
<1> QED BY <1>2, <1>3

\* A finalizer does away with its own structure and with a tree that
\* nothing is held of.
LEMMA SweepIsReclaim ==
  ASSUME IInv, TInv, NEW o \in Object, sweep(o)
  PROVE  Promise!Next
<1>1. /\ o \in garbage /\ garbage # {} /\ held' = held /\ o \notin held /\ held \subseteq Object
      /\ (garbage # {}) = TRUE /\ (garbage' # {}) \in BOOLEAN
  BY DEF sweep, IInv, LiveIn
<1>2. /\ xml \in Heap /\ Trees(xml) /\ Forest(xml) /\ HeldSafe /\ NULL \notin Object
  BY <1>1, CellsDistinct DEF TInv, HeldTrees, Trees, Forest
<1>3. CASE X(o) = NULL
  <2>1. xml' = xml
    BY <1>3 DEF sweep
  <2>2. Promise!Reclaim({})
    BY <1>1, <2>1 DEF Promise!Reclaim, Promise!Without
  <2> QED BY <2>2 DEF Promise!Next
<1>4. CASE X(o) # NULL
  <2> DEFINE c    == X(o)
             dead == IF ruby[o].class = "Node" THEN node_free(c) ELSE document_free(c)
             gone == dead \cup {c}
  <2>1. xml' = Release([xml EXCEPT ![c].private = NULL], dead)
    BY <1>4 DEF sweep, Finalized
  <2>2. c \in Cell /\ c \in InUse(xml) /\ xml[c].private = o
    BY <1>4, PointerInUse
  <2>3. /\ xml[c].parent = NULL => dead = Subtree(xml, c)
        /\ xml[c].parent # NULL => dead = {}
    BY <1>2, <1>4, FreedTree
  <2> HIDE DEF c, dead
  <2>4. gone \in SUBSET Cell /\ dead \subseteq InUse(xml)
    BY <1>2, <2>2, <2>3, SubtreeUp DEF InUse
  <2>5. \A d \in Cell : xml'[d].private = IF d \in gone THEN NULL ELSE xml[d].private
    <3>1. \A d \in Cell : [xml EXCEPT ![c].private = NULL][d].private
                             = IF d = c THEN NULL ELSE xml[d].private
      BY <1>2, <2>2 DEF Heap, XmlRecord
    <3> QED BY <2>1, <3>1 DEF Release, Blank
  <2>6. ASSUME NEW d \in gone, xml[d].private \in held PROVE FALSE
    <3> DEFINE p == xml[d].private
    <3>1. d # c /\ d \in dead /\ d \in Cell /\ p \in Object /\ p # NULL
      BY <1>1, <1>2, <2>2, <2>4, <2>6
    <3>2. X(p) = d /\ d # NULL
      BY <3>1, CellsDistinct DEF IInv, Consistent, X, Cell
    <3>3. xml[c].parent = NULL /\ Top(xml, d) = c
      BY <1>2, <2>2, <2>3, <2>4, <3>1, TopSubtree
    <3> QED BY <1>1, <1>2, <2>2, <2>6, <3>2, <3>3 DEF HeldSafe
  <2>7. PICK S \in SUBSET Cell : S = gone
    BY <2>4
  <2> HIDE DEF gone
  <2>8. \A d \in S : [x \in Cell |-> xml[x].private][d] \notin held
    BY <2>6, <2>7
  <2>9. [x \in Cell |-> xml'[x].private] = Promise!Without(S)
    BY <2>5, <2>7 DEF Promise!Without
  <2>10. Promise!Reclaim(S)
    BY <1>1, <2>8, <2>9 DEF Promise!Reclaim
  <2> QED BY <2>10 DEF Promise!Next
<1> QED BY <1>3, <1>4

\* Every step of the protocol is one that the promise allows, or none.
LEMMA NextRefines ==
  ASSUME IInv, TInv, [Next]_vars
  PROVE  Promise!Next \/ UNCHANGED Promise!vars
<1>0. Rebound(xml, xml, {})
  BY DEF Rebound, IInv, Consistent
<1>1. CASE Make
  <2>1. PICK h, c, class : Wrapped(h, c, class)
    BY <1>1, MakeWraps
  <2>2. \A o \in Object : ruby[o] = NoObject => ruby[o].class = "none"
    BY DEF NoObject
  <2> QED BY <2>1, <2>2, WrapIsCall DEF Wrapped
<1>2. CASE Move
  <2>1. PICK o \in held :
          \/ first_get(o) \/ last_get(o) \/ next_get(o) \/ prev_get(o) \/ parent_get(o)
          \/ document_child_get(o) \/ document_last_get(o) \/ document_root_get(o)
          \/ node_doc(o)
    BY <1>2 DEF Move
  <2>2. \A p \in Object : ruby[p] = NoObject => ruby[p].class = "none"
    BY DEF NoObject
  <2>3. ASSUME NEW c, Running, Follow(c) PROVE Promise!Next
    BY <1>0, <2>2, <2>3, WrapIsCall DEF Follow, node_wrap
  <2>4. CASE node_doc(o)
    <3>1. X(o) \in Cell
      BY <2>4, ReceiverInUse DEF node_doc
    <3>2. PICK d \in Doc : d = xml[X(o)].doc
      BY <2>4, <3>1, Fields DEF node_doc, IInv, Consistent
    <3>3. d \in Cell /\ xml[d].private # NULL /\ d # NULL
      BY <2>4, <3>2, CellsDistinct DEF node_doc, Cell
    <3>4. /\ xml' = xml /\ held' = held \cup {xml[d].private}
          /\ (garbage # {}) = FALSE /\ (garbage' # {}) = FALSE
      BY <2>4, <3>2 DEF node_doc, Running
    <3>5. Promise!Call({}, d)
      BY <3>3, <3>4 DEF Promise!Call, Promise!Without
    <3> QED BY <3>3, <3>5 DEF Promise!Next
  <2> QED
    BY <2>1, <2>3, <2>4 DEF first_get, last_get, next_get, prev_get, parent_get,
         document_child_get, document_last_get, document_root_get
<1>3. CASE Edit
  <2>1. CASE Finishes
    <3>1. PICK e : Harmless(xml, e) /\ Running /\ Finish(e)
      BY <2>1 DEF Finishes
    <3>2. Rebound(xml, e.heap, e.dead)
      BY <3>1 DEF Harmless
    <3>3. CASE xml' = e.heap /\ UNCHANGED held
      BY <3>1, <3>2, <3>3, EditIsCall
    <3>4. CASE node_wrap(e.heap, deregisterNode(xml, ruby, e.dead), e.ret)
      <4>1. \A o \in Object : deregisterNode(xml, ruby, e.dead)[o] = NoObject
                                => ruby[o].class = "none"
        BY DEF deregisterNode, NoObject, IInv, Consistent, RubyRecord
      <4> QED BY <3>1, <3>2, <3>4, <4>1, WrapIsCall DEF node_wrap
    <3> QED BY <3>1, <3>3, <3>4 DEF Finish
  <2>2. ASSUME NEW o, NEW c, content_add(o, c) PROVE Promise!Next
    BY <2>2, ContentAddRebinds, EditIsCall DEF content_add
  <2>3. ASSUME NEW o, NEW c, content_set(o, c) PROVE Promise!Next
    <3>1. Harmless(xml, NodeSetContent(xml, X(o), c))
      BY <2>3, ReceiverInUse, NodeSetContentHarmless DEF content_set, IInv, Consistent
    <3> QED BY <2>3, <3>1, EditIsCall DEF content_set, Harmless
  <2>4. ASSUME NEW o, remove_ex(o) PROVE Promise!Next
    BY <2>4, RemoveRebinds, EditIsCall DEF remove_ex
  <2> QED BY <1>3, <2>1, <2>2, <2>3, <2>4, EditFinishes
<1>4. CASE gc_mark
  BY <1>4, MarkIsBegin
<1>5. ASSUME NEW o \in Object, sweep(o) PROVE Promise!Next
  BY <1>5, SweepIsReclaim
<1>6. ASSUME NEW o \in held, drop(o) PROVE Promise!Next
  <2>1. Promise!Drop(o)
    BY <1>6 DEF drop, Running, Promise!Drop
  <2> QED BY <2>1 DEF Promise!Next
<1>7. CASE UNCHANGED vars
  BY <1>7 DEF vars, Promise!vars
<1> QED BY <1>1, <1>2, <1>3, <1>4, <1>5, <1>6, <1>7 DEF Next, Collect

\* The mark and free functions keep what NodeIdentity promises: every step
\* maps to a step of it, or to none.
THEOREM ImplementsPromise == ASSUME LawAbiding PROVE Spec => PromiseKept
<1>1. Init => Promise!Init
  BY DEF Init, Promise!Init, Blank
<1>2. IInv /\ TInv /\ [Next]_vars => [Promise!Next]_(Promise!vars)
  BY NextRefines
<1> QED BY <1>1, <1>2, TreeInvariance, PTL DEF Spec, PromiseKept, Promise!Spec
=============================================================================
