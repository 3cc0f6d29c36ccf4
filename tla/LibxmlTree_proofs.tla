-------------------------- MODULE LibxmlTree_proofs --------------------------
(***************************************************************************)
(* What the edits of the libxml2 heap leave alone, and what they keep.     *)
(* Every edit relinks nodes and frees some, but it neither creates, loses  *)
(* nor moves the binding of a structure that survives to its Ruby object.  *)
(* The second part is about the trees.  That the structures in use form    *)
(* trees (Forest) says of each that its links agree with its neighbours',  *)
(* and of all together that no set of them is closed under the parent or   *)
(* the prev pointer: so no walk goes round, and no induction over chains   *)
(* of pointers is needed.  Trees adds that doc pointers are right.         *)
(***************************************************************************)
EXTENDS LibxmlTree, TLAPS

\* The heap g has the structures of h, bound as in h, linked in some way.
Relinked(h, g) ==
  /\ g \in Heap
  /\ \A c \in Cell : g[c].private = h[c].private /\ g[c].type = h[c].type

\* The structures of dead have been freed; the others are bound as in h.
Rebound(h, g, dead) ==
  /\ dead \subseteq Cell
  /\ g \in Heap
  /\ FreeIsUnbound(g)
  /\ \A c \in Cell : g[c].private = IF c \in dead THEN NULL ELSE h[c].private

\* No document has come into being.
SameDocs(h, g) == \A d \in Doc : g[d].type # "free" => h[d].type # "free"

\* An edit that frees no document and makes none.
Harmless(h, e) ==
  /\ Rebound(h, e.heap, e.dead)
  /\ SameDocs(h, e.heap)
  /\ e.dead \subseteq Node
  /\ \A m \in e.dead : h[m].private # NULL => e.heap[m].type = "free"
  /\ e.ret \in Cell \cup {NULL}

\* The fields of a structure are typed.
LEMMA Fields ==
  ASSUME NEW h \in Heap, NEW c \in Cell
  PROVE  /\ h[c] \in XmlRecord
         /\ h[c].parent \in Cell \cup {NULL}   /\ h[c].doc \in Doc \cup {NULL}
         /\ h[c].next \in Node \cup {NULL}     /\ h[c].prev \in Node \cup {NULL}
         /\ h[c].children \in Node \cup {NULL} /\ h[c].last \in Node \cup {NULL}
BY DEF Heap, XmlRecord

\* Unlinking a node touches links only (xmlUnlinkNode in Node#remove!).
LEMMA UnlinkRelinks ==
  ASSUME NEW h \in Heap, NEW n \in Node
  PROVE  Relinked(h, Unlink(h, n))
<1> DEFINE g == Unlink(h, n)
<1>1. ASSUME NEW m \in Cell
      PROVE  g[m] \in XmlRecord /\ g[m].private = h[m].private /\ g[m].type = h[m].type
  <2>1. h[m] \in XmlRecord /\ h[n] \in XmlRecord
    BY DEF Heap, Cell
  <2>2. CASE m = n
    BY <2>1, <2>2 DEF Unlink, XmlRecord
  <2>3. CASE m # n
    <3> DEFINE ch == IF m = h[n].parent /\ h[m].children = n THEN h[n].next ELSE h[m].children
               la == IF m = h[n].parent /\ h[m].last = n THEN h[n].prev ELSE h[m].last
               nx == IF m = h[n].prev THEN h[n].next ELSE h[m].next
               pv == IF m = h[n].next THEN h[n].prev ELSE h[m].prev
    <3>1. /\ ch \in Node \cup {NULL} /\ la \in Node \cup {NULL}
          /\ nx \in Node \cup {NULL} /\ pv \in Node \cup {NULL}
      BY <2>1 DEF XmlRecord
    <3>2. g[m] = [h[m] EXCEPT !.children = ch, !.last = la, !.next = nx, !.prev = pv]
      BY <2>3 DEF Unlink
    <3> HIDE DEF ch, la, nx, pv, g
    <3> QED BY <2>1, <3>1, <3>2, ZenonT(60) DEF XmlRecord
  <2> QED BY <2>2, <2>3
<1>2. g \in Heap
  BY <1>1 DEF Unlink, Heap
<1> QED BY <1>1, <1>2 DEF Relinked

\* Giving a tree to another document touches doc pointers only.
LEMMA SetTreeDocRelinks ==
  ASSUME NEW h \in Heap, NEW n \in Node, NEW d \in Doc \cup {NULL}
  PROVE  Relinked(h, SetTreeDoc(h, n, d))
BY DEF SetTreeDoc, Heap, XmlRecord, Relinked

\* Linking a node between two siblings touches links only.
LEMMA SpliceRelinks ==
  ASSUME NEW h \in Heap, NEW n \in Node, NEW p \in Cell \cup {NULL},
         NEW a \in Node \cup {NULL}, NEW b \in Node \cup {NULL}
  PROVE  Relinked(h, Splice(h, n, p, a, b))
<1> DEFINE g == Splice(h, n, p, a, b)
<1>1. ASSUME NEW m \in Cell
      PROVE  g[m] \in XmlRecord /\ g[m].private = h[m].private /\ g[m].type = h[m].type
  <2>1. h[m] \in XmlRecord /\ h[n] \in XmlRecord
    BY DEF Heap, Cell
  <2>2. CASE m = n
    BY <2>1, <2>2, ZenonT(60) DEF Splice, XmlRecord
  <2>3. CASE m # n
    <3> DEFINE ch == IF m = p /\ a = NULL THEN n ELSE h[m].children
               la == IF m = p /\ b = NULL THEN n ELSE h[m].last
               nx == IF m = a THEN n ELSE h[m].next
               pv == IF m = b THEN n ELSE h[m].prev
    <3>1. /\ ch \in Node \cup {NULL} /\ la \in Node \cup {NULL}
          /\ nx \in Node \cup {NULL} /\ pv \in Node \cup {NULL}
      BY <2>1 DEF XmlRecord
    <3>2. g[m] = [h[m] EXCEPT !.next = nx, !.prev = pv, !.children = ch, !.last = la]
      BY <2>3 DEF Splice
    <3> HIDE DEF ch, la, nx, pv, g
    <3> QED BY <2>1, <3>1, <3>2, ZenonT(60) DEF XmlRecord
  <2> QED BY <2>2, <2>3
<1>2. g \in Heap
  BY <1>1 DEF Splice, Heap
<1> QED BY <1>1, <1>2 DEF Relinked

\* Relinking twice is relinking.
LEMMA RelinkedTransitive ==
  ASSUME NEW f, NEW g, NEW h, Relinked(f, g), Relinked(g, h)
  PROVE  Relinked(f, h)
BY DEF Relinked

\* Relinking binds as before; after relinking, freeing only unbinds the dead.
LEMMA RelinkedRebinds ==
  ASSUME NEW h, NEW g, FreeIsUnbound(h), Relinked(h, g)
  PROVE  /\ FreeIsUnbound(g)
         /\ Rebound(h, g, {})
         /\ SameDocs(h, g)
         /\ \A k, dead : Rebound(g, k, dead) => Rebound(h, k, dead)
         /\ \A k : SameDocs(g, k) => SameDocs(h, k)
BY DEF Relinked, Rebound, FreeIsUnbound, SameDocs, Cell

\* A blank structure is well typed and unbound.
LEMMA BlankTyped ==
  ASSUME NEW t \in {"free", "element", "text", "comment", "document"}
  PROVE  Blank(t) \in XmlRecord /\ Blank(t).private = NULL /\ Blank(t).type = t
BY DEF Blank, XmlRecord

\* Freeing structures unbinds them and no other (xmlFreeNode, xmlFreeDoc).
LEMMA ReleaseRebinds ==
  ASSUME NEW h \in Heap, FreeIsUnbound(h), NEW dead \in SUBSET Cell
  PROVE  Rebound(h, Release(h, dead), dead) /\ SameDocs(h, Release(h, dead))
BY BlankTyped DEF Release, Rebound, FreeIsUnbound, Heap, SameDocs, Cell

\* Below a structure there are only nodes.
LEMMA BelowTyped ==
  ASSUME NEW h \in Heap, NEW c \in Cell
  PROVE  Below(h, c) \subseteq Node
<1> DEFINE seed == {h[c].children} \ {NULL}
           succ == [x \in Cell |-> {h[x].children, h[x].next} \ {NULL}]
<1>1. Node \in SUBSET Cell
  BY DEF Cell
<1>2. seed \subseteq Node
  BY Fields
<1>3. ASSUME NEW x \in Node PROVE succ[x] \subseteq Node
  BY Fields DEF Cell
<1>4. Below(h, c) = Closure(seed, succ)
  BY DEF Below
<1> HIDE DEF seed, succ
<1>5. ASSUME NEW x \in Closure(seed, succ) PROVE x \in Node
  BY <1>1, <1>2, <1>3 DEF Closure
<1> QED BY <1>4, <1>5

\* Merging a text node into another frees that node and nothing else.
LEMMA MergedHarmless ==
  ASSUME NEW h \in Heap, FreeIsUnbound(h), NEW n \in Node, NEW t \in Cell \cup {NULL}
  PROVE  Harmless(h, Merged(h, n, t))
<1>1. Subtree(h, n) \subseteq Node /\ Subtree(h, n) \subseteq Cell
  BY BelowTyped DEF Cell, Subtree
<1>2. /\ Rebound(h, Release(h, Subtree(h, n)), Subtree(h, n))
      /\ SameDocs(h, Release(h, Subtree(h, n)))
  BY <1>1, ReleaseRebinds
<1>3. \A m \in Subtree(h, n) : Release(h, Subtree(h, n))[m].type = "free"
  BY <1>1 DEF Release, Blank
<1> QED BY <1>1, <1>2, <1>3 DEF Merged, Harmless

\* Relinking before an edit does no harm.
LEMMA HarmlessAfterRelinking ==
  ASSUME NEW h, NEW u, NEW e, FreeIsUnbound(h), Relinked(h, u), Harmless(u, e)
  PROVE  Harmless(h, e)
<1>1. \A m \in Cell : u[m].private = h[m].private
  BY DEF Relinked
<1> QED BY <1>1, RelinkedRebinds DEF Harmless, Cell

\* xmlAddChild, under Node#child=, #child_add and #<<.
LEMMA AddChildHarmless ==
  ASSUME NEW h \in Heap, FreeIsUnbound(h), NEW p \in Cell, NEW n \in Node
  PROVE  Harmless(h, AddChild(h, p, n))
<1> DEFINE g == SetTreeDoc(h, n, h[p].doc)
           a == h[p].last
           k == [m \in Cell |-> [g[m] EXCEPT
                    !.parent   = IF m = n THEN p ELSE @,
                    !.prev     = IF m = n /\ a # NULL THEN a ELSE @,
                    !.next     = IF m = a THEN n ELSE @,
                    !.children = IF m = p /\ @ = NULL THEN n ELSE @,
                    !.last     = IF m = p THEN n ELSE @]]
<1>1. a \in Node \cup {NULL} /\ p \in Cell \cup {NULL} /\ n \in Cell \cup {NULL}
  BY Fields DEF Cell
<1>2. Relinked(h, g)
  BY Fields, SetTreeDocRelinks
<1>3. Relinked(g, k)
  <2>1. ASSUME NEW m \in Cell
        PROVE  k[m] \in XmlRecord /\ k[m].private = g[m].private /\ k[m].type = g[m].type
    <3> DEFINE pa == IF m = n THEN p ELSE g[m].parent
               pv == IF m = n /\ a # NULL THEN a ELSE g[m].prev
               nx == IF m = a THEN n ELSE g[m].next
               ch == IF m = p /\ g[m].children = NULL THEN n ELSE g[m].children
               la == IF m = p THEN n ELSE g[m].last
    <3>0. g \in Heap
      BY <1>2 DEF Relinked
    <3>1. g[m] \in XmlRecord
      BY <3>0, Fields
    <3>2. /\ pa \in Cell \cup {NULL} /\ pv \in Node \cup {NULL} /\ nx \in Node \cup {NULL}
          /\ ch \in Node \cup {NULL} /\ la \in Node \cup {NULL}
      BY <1>1, <3>0, Fields
    <3>3. k[m] = [g[m] EXCEPT !.parent = pa, !.prev = pv, !.next = nx,
                              !.children = ch, !.last = la]
      OBVIOUS
    <3> HIDE DEF pa, pv, nx, ch, la, k, g
    <3> QED BY <3>1, <3>2, <3>3, ZenonT(60) DEF XmlRecord
  <2>2. k \in Heap
    BY <2>1 DEF Heap
  <2> QED BY <2>1, <2>2 DEF Relinked
<1>4. Harmless(h, Edited(k, n))
  <2>1. Relinked(h, k)
    BY <1>2, <1>3, RelinkedTransitive
  <2> HIDE DEF k
  <2> QED BY <2>1, <1>1, RelinkedRebinds DEF Harmless, Edited
<1>5. Harmless(h, Merged(h, n, p)) /\ Harmless(h, Merged(h, n, a))
  BY <1>1, MergedHarmless DEF Cell
<1> QED BY <1>4, <1>5 DEF AddChild

\* Unlinking a node and splicing it in elsewhere, with the doc pointer of
\* its new place: how xmlAddNextSibling and xmlAddPrevSibling move a node.
LEMMA MoveHarmless ==
  ASSUME NEW h \in Heap, FreeIsUnbound(h), NEW n \in Node, NEW d \in Doc \cup {NULL},
         NEW p \in Cell \cup {NULL}, NEW a \in Node \cup {NULL}, NEW b \in Node \cup {NULL},
         NEW r \in Cell \cup {NULL}
  PROVE  Harmless(h, Edited(Splice(SetTreeDoc(Unlink(h, n), n, d), n, p, a, b), r))
<1> DEFINE u == Unlink(h, n)
           v == SetTreeDoc(u, n, d)
           w == Splice(v, n, p, a, b)
<1>1. Relinked(h, u)
  BY UnlinkRelinks
<1>2. Relinked(u, v)
  BY <1>1, SetTreeDocRelinks DEF Relinked
<1>3. Relinked(v, w)
  <2>1. v \in Heap
    BY <1>2 DEF Relinked
  <2> HIDE DEF v
  <2> QED BY <2>1, SpliceRelinks
<1>4. Relinked(h, w)
  <2> HIDE DEF u, v, w
  <2> QED BY <1>1, <1>2, <1>3, RelinkedTransitive
<1>5. Rebound(h, w, {}) /\ SameDocs(h, w)
  BY <1>4, RelinkedRebinds
<1> QED BY <1>5 DEF Harmless, Edited

\* Merging an unlinked text node frees that node and nothing else.
LEMMA UnlinkedMergeHarmless ==
  ASSUME NEW h \in Heap, FreeIsUnbound(h), NEW n \in Node, NEW t \in Cell \cup {NULL}
  PROVE  Harmless(h, Merged(Unlink(h, n), n, t))
<1> DEFINE u == Unlink(h, n)
<1>1. Relinked(h, u)
  BY UnlinkRelinks
<1>2. FreeIsUnbound(u) /\ u \in Heap
  BY <1>1, RelinkedRebinds DEF Relinked
<1>3. Harmless(u, Merged(u, n, t))
  BY <1>2, MergedHarmless
<1> QED BY <1>1, <1>3, HarmlessAfterRelinking

\* xmlAddNextSibling, under Node#next=.
LEMMA AddNextSiblingHarmless ==
  ASSUME NEW h \in Heap, FreeIsUnbound(h), NEW s \in Node, NEW n \in Node
  PROVE  Harmless(h, AddNextSibling(h, s, n))
<1> DEFINE u == Unlink(h, n)
<1>1. u \in Heap /\ s \in Cell /\ n \in Cell
  BY UnlinkRelinks DEF Relinked, Cell
<1>2. /\ u[s].next \in Node \cup {NULL} /\ u[s].parent \in Cell \cup {NULL}
      /\ u[s].doc \in Doc \cup {NULL}
  BY <1>1, Fields
<1>3. Harmless(h, Merged(u, n, s)) /\ Harmless(h, Merged(u, n, u[s].next))
  BY <1>1, <1>2, UnlinkedMergeHarmless DEF Cell
<1>4. Harmless(h, Edited(Splice(SetTreeDoc(u, n, u[s].doc), n, u[s].parent, s, u[s].next), n))
  BY <1>1, <1>2, MoveHarmless
<1> QED BY <1>3, <1>4 DEF AddNextSibling

\* xmlAddSibling, under Node#sibling=, also of a node that is the last sibling.
LEMMA AddSiblingHarmless ==
  ASSUME NEW h \in Heap, FreeIsUnbound(h), NEW s \in Node, NEW n \in Node
  PROVE  Harmless(h, AddSibling(h, s, n))
<1> DEFINE u == Unlink(h, n)
           g == [u EXCEPT ![n].prev = n, ![n].next = n]
<1>1. Relinked(h, u) /\ n \in Cell
  BY UnlinkRelinks DEF Cell
<1> HIDE DEF u
<1>2. Relinked(u, g)
  <2>1. ASSUME NEW m \in Cell
        PROVE  g[m] \in XmlRecord /\ g[m].private = u[m].private /\ g[m].type = u[m].type
    <3>1. u[m] \in XmlRecord /\ u \in Heap
      BY <1>1 DEF Relinked, Heap
    <3>2. CASE m = n
      <4>1. PICK r \in XmlRecord : r = u[m]
        BY <3>1
      <4>2. g[m] = [r EXCEPT !.prev = n, !.next = n]
        BY <1>1, <3>1, <3>2, <4>1 DEF Heap
      <4> HIDE DEF g
      <4>3. /\ [r EXCEPT !.prev = n, !.next = n] \in XmlRecord
            /\ [r EXCEPT !.prev = n, !.next = n].private = r.private
            /\ [r EXCEPT !.prev = n, !.next = n].type = r.type
        BY DEF XmlRecord
      <4> QED BY <4>1, <4>2, <4>3
    <3>3. CASE m # n
      BY <1>1, <3>1, <3>3 DEF Heap
    <3> QED BY <3>2, <3>3
  <2>2. g = [m \in Cell |-> g[m]]
    BY <1>1 DEF Relinked, Heap
  <2> QED BY <2>1, <2>2 DEF Relinked, Heap
<1> HIDE DEF g
<1>3. Relinked(h, g)
  BY <1>1, <1>2, RelinkedTransitive
<1>4. Harmless(h, Edited(g, n))
  BY <1>1, <1>3, RelinkedRebinds DEF Harmless, Edited
<1>5. Harmless(h, AddNextSibling(h, s, n))
  BY AddNextSiblingHarmless
<1> QED BY <1>4, <1>5 DEF AddSibling, g, u

\* xmlAddPrevSibling, under Node#prev=.
LEMMA AddPrevSiblingHarmless ==
  ASSUME NEW h \in Heap, FreeIsUnbound(h), NEW s \in Node, NEW n \in Node
  PROVE  Harmless(h, AddPrevSibling(h, s, n))
<1> DEFINE u == Unlink(h, n)
<1>1. u \in Heap /\ s \in Cell /\ n \in Cell
  BY UnlinkRelinks DEF Relinked, Cell
<1>2. /\ u[s].prev \in Node \cup {NULL} /\ u[s].parent \in Cell \cup {NULL}
      /\ u[s].doc \in Doc \cup {NULL}
  BY <1>1, Fields
<1>3. Harmless(h, Merged(u, n, s)) /\ Harmless(h, Merged(u, n, u[s].prev))
  BY <1>1, <1>2, UnlinkedMergeHarmless DEF Cell
<1>4. Harmless(h, Edited(Splice(SetTreeDoc(u, n, u[s].doc), n, u[s].parent, u[s].prev, s), n))
  BY <1>1, <1>2, MoveHarmless
<1> QED BY <1>3, <1>4 DEF AddPrevSibling

\* xmlDocGetRootElement returns a node or nothing.
LEMMA RootElementTyped ==
  ASSUME NEW h, NEW d
  PROVE  RootElement(h, d) \in Node \cup {NULL}
BY DEF RootElement

\* xmlDocSetRootElement, under Document#root=.
LEMMA DocSetRootElementHarmless ==
  ASSUME NEW h \in Heap, FreeIsUnbound(h), NEW d \in Doc, NEW n \in Node
  PROVE  Harmless(h, DocSetRootElement(h, d, n))
<1> DEFINE u   == SetTreeDoc(Unlink(h, n), n, d)
           old == RootElement(u, d)
           w   == Splice(u, n, d, u[old].prev, u[old].next)
           z   == [w EXCEPT ![old].parent = NULL, ![old].next = NULL, ![old].prev = NULL]
<1>1. Relinked(h, u) /\ u \in Heap /\ FreeIsUnbound(u)
  <2>1. Relinked(h, Unlink(h, n))
    BY UnlinkRelinks
  <2>2. Relinked(Unlink(h, n), u)
    BY <2>1, SetTreeDocRelinks DEF Relinked
  <2>3. Relinked(h, u)
    BY <2>1, <2>2, RelinkedTransitive
  <2> QED BY <2>3, RelinkedRebinds DEF Relinked
<1>2. /\ d \in Cell /\ n \in Cell
      /\ u[d].last \in Node \cup {NULL}
      /\ old \in Node \cup {NULL}
  BY <1>1, Fields, RootElementTyped DEF Cell
<1>3. ASSUME old # NULL PROVE Harmless(h, Edited(z, old))
  <2>1. old \in Node /\ old \in Cell
    BY <1>2, <1>3 DEF Cell
  <2>2. u[old].prev \in Node \cup {NULL} /\ u[old].next \in Node \cup {NULL}
    BY <1>1, <2>1, Fields
  <2>3. Relinked(u, w)
    BY <1>1, <1>2, <2>2, SpliceRelinks
  <2>4. w \in Heap /\ w[old] \in XmlRecord
    BY <2>1, <2>3, Fields DEF Relinked
  <2> HIDE DEF u, old, w
  <2>5. z = [w EXCEPT ![old] = [w[old] EXCEPT !.parent = NULL, !.next = NULL, !.prev = NULL]]
    BY <2>1, <2>4 DEF Heap, XmlRecord
  <2>6. /\ [w[old] EXCEPT !.parent = NULL, !.next = NULL, !.prev = NULL] \in XmlRecord
        /\ [w[old] EXCEPT !.parent = NULL, !.next = NULL, !.prev = NULL].private = w[old].private
        /\ [w[old] EXCEPT !.parent = NULL, !.next = NULL, !.prev = NULL].type = w[old].type
    BY <2>4 DEF XmlRecord
  <2>7. Relinked(w, z)
    <3> HIDE DEF z
    <3> QED BY <2>1, <2>4, <2>5, <2>6 DEF Relinked, Heap
  <2>8. Relinked(h, z)
    <3> HIDE DEF z
    <3> QED BY <1>1, <2>3, <2>7, RelinkedTransitive
  <2>9. Rebound(h, z, {}) /\ SameDocs(h, z)
    BY <2>8, RelinkedRebinds
  <2> QED BY <2>1, <2>9 DEF Harmless, Edited
<1>4. Harmless(h, Merged(u, n, NULL))
  <2>1. Harmless(u, Merged(u, n, NULL))
    BY <1>1, MergedHarmless
  <2> QED BY <1>1, <2>1, HarmlessAfterRelinking
<1>5. Harmless(h, Edited(Splice(u, n, d, u[d].last, NULL), NULL))
  BY <1>2, MoveHarmless
<1> HIDE DEF u, old, w
<1> QED BY <1>3, <1>4, <1>5 DEF DocSetRootElement, u, old, w

\* xmlNodeSetContent, under Node#content= and Node.new.
LEMMA NodeSetContentHarmless ==
  ASSUME NEW h \in Heap, FreeIsUnbound(h), NEW n \in Node,
         NEW c \in FreeNodes(h) \cup {NULL}
  PROVE  Harmless(h, NodeSetContent(h, n, c))
<1> DEFINE dead == Below(h, n)
           g    == Release(h, dead)
           t    == [Blank("text") EXCEPT !.parent = n, !.doc = h[n].doc]
           k    == [m \in Cell |-> IF m = c THEN t
                                   ELSE IF m = n THEN [g[n] EXCEPT !.children = c, !.last = c]
                                   ELSE g[m]]
<1>1. Rebound(h, g, dead) /\ SameDocs(h, g) /\ dead \subseteq Node
  BY BelowTyped, ReleaseRebinds DEF Cell
<1>2. /\ n \in Cell /\ c \in Node \cup {NULL} /\ NULL \notin Cell
      /\ c # NULL => c \in Cell /\ h[c].type = "free"
      /\ h[n].doc \in Doc \cup {NULL}
  BY Fields, CellsDistinct DEF FreeNodes, InUse, Cell
<1>3. t \in XmlRecord /\ t.private = NULL /\ t.type = "text"
  BY <1>2, BlankTyped DEF XmlRecord
<1>4. g \in Heap /\ g[n] \in XmlRecord
  BY <1>1, <1>2, Fields DEF Rebound
<1>5. LET r == [g[n] EXCEPT !.children = c, !.last = c]
      IN r \in XmlRecord /\ r.private = g[n].private /\ r.type = g[n].type
  BY <1>2, <1>4 DEF XmlRecord
<1>6. k \in Heap /\ FreeIsUnbound(k)
  <2> HIDE DEF g, t
  <2> QED BY <1>1, <1>3, <1>4, <1>5 DEF Heap, FreeIsUnbound, Rebound
<1>7. \A m \in Cell : k[m].private = IF m \in dead THEN NULL ELSE h[m].private
  <2> HIDE DEF g, t, dead
  <2> QED BY <1>1, <1>2, <1>3, <1>5 DEF FreeIsUnbound, Rebound
<1>8. SameDocs(h, k)
  <2>1. \A d \in Doc : d # c /\ d # n /\ d \in Cell
    BY <1>2, CellsDistinct DEF Cell
  <2> HIDE DEF g, t
  <2> QED BY <1>1, <2>1 DEF SameDocs
<1>9. ASSUME NEW m \in dead, h[m].private # NULL PROVE k[m].type = "free"
  <2>1. m \in Cell /\ m # c
    BY <1>1, <1>2, <1>9 DEF FreeIsUnbound, Cell
  <2>2. g[m].type = "free"
    BY <2>1 DEF Release, Blank
  <2> HIDE DEF g, t, dead
  <2> QED BY <1>5, <2>1, <2>2
<1>10. Harmless(h, [heap |-> k, dead |-> dead, ret |-> n])
  <2> HIDE DEF k, dead
  <2> QED BY <1>1, <1>2, <1>6, <1>7, <1>8, <1>9 DEF Harmless, Rebound
<1>11. Harmless(h, Edited(h, n))
  BY <1>2 DEF Harmless, Edited, Rebound, SameDocs
<1> QED BY <1>10, <1>11 DEF NodeSetContent

\* A structure allocated in free memory is unbound, like the memory was.
LEMMA NewStructureRebinds ==
  ASSUME NEW h \in Heap, FreeIsUnbound(h), NEW c \in Cell \ InUse(h),
         NEW t \in {"element", "text", "comment", "document"}
  PROVE  /\ Rebound(h, [h EXCEPT ![c] = Blank(t)], {})
         /\ c \in Node => SameDocs(h, [h EXCEPT ![c] = Blank(t)])
BY BlankTyped, CellsDistinct DEF Rebound, FreeIsUnbound, Heap, InUse, SameDocs, Cell

\* xmlCopyNode, under Node#copy: the copies start unbound.
LEMMA CopyNodeRebinds ==
  ASSUME NEW h \in Heap, FreeIsUnbound(h), NEW S \in SUBSET Cell,
         NEW f \in [S -> FreeNodes(h)]
  PROVE  Rebound(h, CopyNode(h, S, f), {}) /\ SameDocs(h, CopyNode(h, S, f))
<1> DEFINE image(x) == IF x \in S THEN f[x] ELSE NULL
           copy(x)  == [Blank(h[x].type) EXCEPT
                          !.parent = image(h[x].parent), !.next = image(h[x].next),
                          !.prev = image(h[x].prev),     !.children = image(h[x].children),
                          !.last = image(h[x].last)]
<1>1. \A x : image(x) \in Node \cup {NULL}
  BY DEF FreeNodes
<1>2. ASSUME NEW x \in S PROVE copy(x) \in XmlRecord /\ copy(x).private = NULL
  <2>1. h[x].type \in {"free", "element", "text", "comment", "document"}
    BY DEF Heap, XmlRecord
  <2>2. Blank(h[x].type) \in XmlRecord /\ Blank(h[x].type).private = NULL
    BY <2>1, BlankTyped
  <2> HIDE DEF image
  <2> QED BY <1>1, <2>2, ZenonT(60) DEF XmlRecord, Cell
<1>3. ASSUME NEW m \in Cell, NEW x \in S, f[x] = m
      PROVE  h[m].private = NULL
  BY <1>3 DEF FreeNodes, InUse, FreeIsUnbound, Cell
<1> DEFINE k == CopyNode(h, S, f)
<1>4. ASSUME NEW m \in Cell
      PROVE  /\ k[m] \in XmlRecord
             /\ k[m].private = h[m].private
             /\ k[m].type = "free" => k[m].private = NULL
  <2>1. CASE \E x \in S : f[x] = m
    <3> DEFINE y == CHOOSE x \in S : f[x] = m
    <3>1. y \in S /\ f[y] = m
      BY <2>1
    <3>2. k[m] = copy(y)
      BY <2>1 DEF CopyNode
    <3> HIDE DEF y, copy, k
    <3> QED BY <3>1, <3>2, <1>2, <1>3
  <2>2. CASE ~ \E x \in S : f[x] = m
    BY <2>2, Fields DEF CopyNode, FreeIsUnbound
  <2> QED BY <2>1, <2>2
<1>5. k \in Heap
  BY <1>4 DEF CopyNode, Heap
<1>6. SameDocs(h, k)
  <2>1. ASSUME NEW d \in Doc PROVE k[d] = h[d]
    <3>1. d \in Cell /\ ~ \E x \in S : f[x] = d
      BY CellsDistinct DEF FreeNodes, Cell
    <3> QED BY <3>1 DEF CopyNode
  <2> QED BY <2>1 DEF SameDocs
<1> QED BY <1>4, <1>5, <1>6 DEF Rebound, FreeIsUnbound

\* A parsed document is allocated in free memory, and starts unbound.
LEMMA ParseDocumentRebinds ==
  ASSUME NEW h \in Heap, FreeIsUnbound(h), NEW d \in Doc \ InUse(h),
         NEW n \in FreeNodes(h), NEW c \in FreeNodes(h) \cup {NULL}
  PROVE  /\ Rebound(h, ParseDocument(h, d, n, c), {})
         /\ \A b \in Doc \ {d} : ParseDocument(h, d, n, c)[b].type = h[b].type
<1> DEFINE D == [Blank("document") EXCEPT !.children = n, !.last = n]
           N == [Blank("element") EXCEPT !.parent = d, !.doc = d, !.children = c, !.last = c]
           C == [Blank("text") EXCEPT !.parent = n, !.doc = d]
           k == ParseDocument(h, d, n, c)
<1>1. /\ n \in Node /\ c \in Node \cup {NULL} /\ n \in Cell /\ d \in Cell
      /\ h[d].private = NULL /\ h[n].private = NULL
      /\ c \in Cell => h[c].private = NULL
  BY CellsDistinct DEF FreeNodes, InUse, Cell, FreeIsUnbound
<1>2. /\ D \in XmlRecord /\ D.private = NULL
      /\ N \in XmlRecord /\ N.private = NULL
      /\ C \in XmlRecord /\ C.private = NULL
  BY <1>1, BlankTyped, ZenonT(60) DEF XmlRecord
<1>3. \A m \in Cell : k[m] = IF m = d THEN D ELSE IF m = n THEN N
                             ELSE IF m = c THEN C ELSE h[m]
  BY DEF ParseDocument
<1>4. k = [m \in Cell |-> k[m]]
  BY DEF ParseDocument
<1> HIDE DEF D, N, C, k
<1>5. \A m \in Cell : k[m] \in XmlRecord /\ k[m].private = h[m].private
  BY <1>1, <1>2, <1>3, Fields
<1>6. \A m \in Cell : k[m].type = "free" => k[m].private = NULL
  BY <1>2, <1>3 DEF FreeIsUnbound
<1>7. k \in Heap
  BY <1>4, <1>5 DEF Heap
<1>8. \A b \in Doc \ {d} : k[b].type = h[b].type
  <2>1. \A b \in Doc : b # n /\ b # c /\ b \in Cell
    BY <1>1, CellsDistinct DEF Cell
  <2> QED BY <1>3, <2>1
<1> QED BY <1>5, <1>6, <1>7, <1>8 DEF Rebound, FreeIsUnbound, k

-----------------------------------------------------------------------------
(* What a walk reaches.  The chains of pointers have no bound, and nothing  *)
(* is proved by induction along them: a set that is closed under a step of  *)
(* the walk contains all it reaches, and a set of structures in which each  *)
(* one's parent, or previous sibling, is again in the set is empty.         *)

\* A walk stays in every set that is closed under its steps.
LEMMA ClosureLeast ==
  ASSUME NEW seed, NEW succ, NEW T \in SUBSET Cell, seed \subseteq T,
         \A x \in T : succ[x] \subseteq T
  PROVE  Closure(seed, succ) \subseteq T
<1> SUFFICES ASSUME NEW c \in Closure(seed, succ), c \notin T PROVE FALSE
  OBVIOUS
<1>1. T \in SUBSET (Cell \ {c})
  OBVIOUS
<1> QED BY <1>1 DEF Closure

\* It starts where it is told to.
LEMMA ClosureSeed ==
  ASSUME NEW seed \in SUBSET Cell, NEW succ
  PROVE  seed \subseteq Closure(seed, succ) /\ Closure(seed, succ) \subseteq Cell
BY DEF Closure

\* It goes on to the successors of what it reaches.
LEMMA ClosureClosed ==
  ASSUME NEW seed, NEW succ, NEW x \in Closure(seed, succ), NEW y \in Cell, y \in succ[x]
  PROVE  y \in Closure(seed, succ)
<1> SUFFICES ASSUME NEW S \in SUBSET (Cell \ {y}), seed \subseteq S,
                    \A z \in S : succ[z] \subseteq S
             PROVE  FALSE
  BY DEF Closure
<1>1. x \in Cell /\ x \notin S
  BY DEF Closure
<1>2. S \in SUBSET (Cell \ {x})
  BY <1>1
<1> QED BY <1>2 DEF Closure

-----------------------------------------------------------------------------
(* Heaps whose structures form trees.                                      *)

\* The pointers of structure c and of its neighbours agree.
LinkedAt(h, c) ==
  /\ c \in Doc => /\ h[c].parent = NULL /\ h[c].doc = NULL
                  /\ h[c].next = NULL /\ h[c].prev = NULL
  /\ Links(h, c) \subseteq InUse(h)
  /\ h[c].children # NULL => h[h[c].children].parent = c /\ h[h[c].children].prev = NULL
  /\ h[c].last # NULL => h[h[c].last].parent = c /\ h[h[c].last].next = NULL
  /\ (h[c].children = NULL) <=> (h[c].last = NULL)
  /\ h[c].next # NULL => h[h[c].next].prev = c /\ h[h[c].next].parent = h[c].parent
  /\ h[c].prev # NULL => h[h[c].prev].next = c /\ h[h[c].prev].parent = h[c].parent
  /\ h[c].parent # NULL => /\ h[c].prev = NULL => h[h[c].parent].children = c
                           /\ h[c].next = NULL => h[h[c].parent].last = c
  /\ h[c].parent = NULL => h[c].next = NULL /\ h[c].prev = NULL

\* No structures are each other's ancestors.
Grounded(h) == \A S \in SUBSET InUse(h) : S # {} => \E c \in S : h[c].parent \notin S

\* No siblings come before each other.
Ordered(h) == \A S \in SUBSET InUse(h) : S # {} => \E c \in S : h[c].prev \notin S

\* The structures in use are linked into trees.
Forest(h) ==
  /\ h \in Heap
  /\ \A c \in InUse(h) : LinkedAt(h, c)
  /\ Grounded(h)
  /\ Ordered(h)

\* The pointers of a structure in a forest lead to structures in use.
LEMMA ForestFields ==
  ASSUME NEW h, Forest(h), NEW c \in InUse(h)
  PROVE  /\ c \in Cell /\ c # NULL /\ h[c] \in XmlRecord
         /\ h[c].parent = NULL \/ h[c].parent \in InUse(h)
         /\ h[c].doc = NULL \/ h[c].doc \in InUse(h) \cap Doc
         /\ h[c].next = NULL \/ h[c].next \in InUse(h) \cap Node
         /\ h[c].prev = NULL \/ h[c].prev \in InUse(h) \cap Node
         /\ h[c].children = NULL \/ h[c].children \in InUse(h) \cap Node
         /\ h[c].last = NULL \/ h[c].last \in InUse(h) \cap Node
         /\ NULL \notin Cell
<1>1. c \in Cell /\ h \in Heap /\ NULL \notin Cell
  BY CellsDistinct DEF InUse, Forest, Cell
<1>2. Links(h, c) \subseteq InUse(h)
  BY DEF Forest, LinkedAt
<1> QED BY <1>1, <1>2, Fields DEF Links

\* What is below a structure, by one step: down to a child, along to the
\* next sibling.
LEMMA BelowSteps ==
  ASSUME NEW h \in Heap, NEW c \in Cell
  PROVE  /\ h[c].children # NULL => h[c].children \in Below(h, c)
         /\ \A x \in Below(h, c) : /\ h[x].children # NULL => h[x].children \in Below(h, c)
                                   /\ h[x].next # NULL => h[x].next \in Below(h, c)
<1> DEFINE seed == {h[c].children} \ {NULL}
           succ == [x \in Cell |-> {h[x].children, h[x].next} \ {NULL}]
<1>1. seed \in SUBSET Cell
  BY Fields DEF Cell
<1>2. Below(h, c) = Closure(seed, succ)
  BY DEF Below
<1>3. ASSUME NEW x \in Cell
      PROVE  /\ h[x].children # NULL => h[x].children \in succ[x] /\ h[x].children \in Cell
             /\ h[x].next # NULL => h[x].next \in succ[x] /\ h[x].next \in Cell
  BY Fields DEF Cell
<1>4. h[c].children # NULL => h[c].children \in seed
  OBVIOUS
<1> HIDE DEF seed, succ
<1>5. seed \subseteq Closure(seed, succ) /\ Closure(seed, succ) \subseteq Cell
  BY <1>1, ClosureSeed
<1> QED BY <1>2, <1>3, <1>4, <1>5, ClosureClosed

\* A set with the children of c and what follows in it has all that is below c.
LEMMA BelowLeast ==
  ASSUME NEW h \in Heap, NEW c \in Cell, NEW T \in SUBSET Cell,
         h[c].children # NULL => h[c].children \in T,
         \A x \in T : /\ h[x].children # NULL => h[x].children \in T
                      /\ h[x].next # NULL => h[x].next \in T
  PROVE  Below(h, c) \subseteq T
<1> DEFINE seed == {h[c].children} \ {NULL}
           succ == [x \in Cell |-> {h[x].children, h[x].next} \ {NULL}]
<1>1. seed \subseteq T /\ \A x \in T : succ[x] \subseteq T
  OBVIOUS
<1>2. Below(h, c) = Closure(seed, succ)
  BY DEF Below
<1> HIDE DEF seed, succ
<1> QED BY <1>1, <1>2, ClosureLeast

\* Everything below a structure is in use and has its parent in the subtree.
LEMMA SubtreeUp ==
  ASSUME NEW h, Forest(h), NEW c \in InUse(h)
  PROVE  /\ Below(h, c) \subseteq InUse(h) \cap Node
         /\ Subtree(h, c) \subseteq InUse(h)
         /\ \A x \in Below(h, c) : h[x].parent \in Subtree(h, c)
<1> DEFINE B == Below(h, c)
           T == {x \in B \cap InUse(h) : h[x].parent \in {c} \cup B}
<1>1. h \in Heap /\ c \in Cell /\ B \subseteq Node
  BY BelowTyped, ForestFields DEF Forest
<1>2. /\ h[c].children # NULL => h[c].children \in B
      /\ \A x \in B : /\ h[x].children # NULL => h[x].children \in B
                      /\ h[x].next # NULL => h[x].next \in B
  BY <1>1, BelowSteps
<1>3. h[c].children # NULL => h[c].children \in InUse(h) /\ h[h[c].children].parent = c
  BY ForestFields DEF Forest, LinkedAt
<1>4. ASSUME NEW x \in InUse(h)
      PROVE  /\ h[x].children # NULL => h[x].children \in InUse(h) /\ h[h[x].children].parent = x
             /\ h[x].next # NULL => h[x].next \in InUse(h) /\ h[h[x].next].parent = h[x].parent
  BY ForestFields DEF Forest, LinkedAt
<1>5. T \in SUBSET Cell
  BY DEF InUse
<1> HIDE DEF B
<1>6. h[c].children # NULL => h[c].children \in T
  BY <1>2, <1>3
<1>7. \A x \in T : /\ h[x].children # NULL => h[x].children \in T
                   /\ h[x].next # NULL => h[x].next \in T
  BY <1>2, <1>4
<1> HIDE DEF T
<1>8. B \subseteq T
  BY <1>1, <1>5, <1>6, <1>7, BelowLeast DEF B
<1> QED BY <1>1, <1>8 DEF T, B, Subtree

\* A child of what is in a subtree is in it.
LEMMA SubtreeDown ==
  ASSUME NEW h, Forest(h), NEW c \in InUse(h), NEW x \in InUse(h),
         h[x].parent \in Subtree(h, c)
  PROVE  x \in Below(h, c)
<1> DEFINE B == Below(h, c)
           S == {y \in InUse(h) : h[y].parent \in Subtree(h, c) /\ y \notin B}
<1>0. h \in Heap /\ c \in Cell /\ Subtree(h, c) \subseteq InUse(h) /\ NULL \notin Cell
  BY ForestFields, SubtreeUp DEF Forest
<1>1. SUFFICES S = {}
  OBVIOUS
<1>2. SUFFICES ASSUME S # {} PROVE FALSE
  OBVIOUS
<1>3. PICK y \in S : h[y].prev \notin S
  <2>1. S \in SUBSET InUse(h)
    OBVIOUS
  <2> HIDE DEF S
  <2> QED BY <1>2, <2>1 DEF Forest, Ordered
<1>4. y \in InUse(h) /\ h[y].parent \in Subtree(h, c) /\ y \notin B
  OBVIOUS
<1>5. h[y].parent \in InUse(h) /\ h[y].parent # NULL
  BY <1>0, <1>4 DEF InUse
<1>6. CASE h[y].prev = NULL
  <2>1. h[h[y].parent].children = y /\ y # NULL
    BY <1>4, <1>5, <1>6, ForestFields DEF Forest, LinkedAt
  <2>2. h[y].parent = c \/ h[y].parent \in B
    BY <1>4 DEF Subtree
  <2> QED BY <1>0, <1>4, <2>1, <2>2, BelowSteps
<1>7. CASE h[y].prev # NULL
  <2>1. /\ h[y].prev \in InUse(h) /\ h[h[y].prev].next = y /\ y # NULL
        /\ h[h[y].prev].parent = h[y].parent
    BY <1>4, <1>7, ForestFields DEF Forest, LinkedAt
  <2>2. h[y].prev \in B
    BY <1>3, <1>4, <2>1
  <2> QED BY <1>0, <1>4, <2>1, <2>2, BelowSteps
<1> QED BY <1>6, <1>7

\* A structure is not below itself, nor is its parent in its subtree.
LEMMA TopOutside ==
  ASSUME NEW h, Forest(h), NEW c \in InUse(h)
  PROVE  h[c].parent \notin Subtree(h, c) /\ c \notin Below(h, c)
<1>1. Subtree(h, c) \in SUBSET InUse(h) /\ c \in Subtree(h, c)
  BY SubtreeUp DEF Subtree
<1>2. PICK x \in Subtree(h, c) : h[x].parent \notin Subtree(h, c)
  BY <1>1 DEF Forest, Grounded
<1>3. x = c /\ x \notin Below(h, c)
  BY <1>2, SubtreeUp DEF Subtree
<1> QED BY <1>2, <1>3

\* The neighbours of what is below c are below c, and of nothing else.
LEMMA SubtreeSiblings ==
  ASSUME NEW h, Forest(h), NEW c \in InUse(h), NEW x \in InUse(h)
  PROVE  /\ x \in Below(h, c) =>
              /\ h[x].next # NULL => h[x].next \in Below(h, c)
              /\ h[x].prev # NULL => h[x].prev \in Below(h, c)
         /\ x \notin Below(h, c) =>
              /\ h[x].next \notin Below(h, c) /\ h[x].prev \notin Below(h, c)
         /\ x \in Subtree(h, c) =>
              /\ h[x].children # NULL => h[x].children \in Below(h, c)
              /\ h[x].last # NULL => h[x].last \in Below(h, c)
         /\ x \notin Subtree(h, c) =>
              /\ h[x].parent \notin Subtree(h, c)
              /\ h[x].children \notin Below(h, c) /\ h[x].last \notin Below(h, c)
         /\ h[x].next # x /\ h[x].prev # x /\ h[x].parent # x
         /\ h[x].children # x /\ h[x].last # x
<1>1. /\ Subtree(h, c) = {c} \cup Below(h, c)
      /\ Subtree(h, c) \subseteq InUse(h) /\ NULL \notin InUse(h)
      /\ c \notin Below(h, c)
  BY CellsDistinct, SubtreeUp, TopOutside DEF Subtree, InUse, Cell
<1>2. ASSUME NEW y \in InUse(h)
      PROVE  y \in Below(h, c) <=> h[y].parent \in Subtree(h, c)
  BY SubtreeUp, SubtreeDown
<1>3. /\ h[x].next # NULL => h[x].next \in InUse(h) /\ h[h[x].next].parent = h[x].parent
      /\ h[x].prev # NULL => h[x].prev \in InUse(h) /\ h[h[x].prev].parent = h[x].parent
      /\ h[x].children # NULL => h[x].children \in InUse(h) /\ h[h[x].children].parent = x
      /\ h[x].last # NULL => h[x].last \in InUse(h) /\ h[h[x].last].parent = x
      /\ h[x].parent = NULL => h[x].next = NULL /\ h[x].prev = NULL
      /\ h[x].next # NULL => h[h[x].next].prev = x
      /\ x # NULL
  BY ForestFields DEF Forest, LinkedAt
<1>4. h[x].prev # x /\ h[x].parent # x
  <2>1. {x} \in SUBSET InUse(h) /\ {x} # {}
    OBVIOUS
  <2> QED BY <2>1 DEF Forest, Grounded, Ordered
<1>5. h[x].next # x /\ h[x].children # x /\ h[x].last # x
  BY <1>3, <1>4
<1> QED BY <1>1, <1>2, <1>3, <1>4, <1>5

\* No pointer but a doc pointer leads into the tree of a structure without a parent.
LEMMA RootApart ==
  ASSUME NEW h, Forest(h), NEW c \in InUse(h), h[c].parent = NULL,
         NEW x \in InUse(h), x \notin Subtree(h, c)
  PROVE  {h[x].parent, h[x].next, h[x].prev, h[x].children, h[x].last} \cap Subtree(h, c) = {}
<1>1. /\ h[x].next # NULL => h[h[x].next].parent = h[x].parent
      /\ h[x].next # NULL => h[h[x].next].prev = x
      /\ h[x].prev # NULL => h[h[x].prev].parent = h[x].parent
      /\ h[x].prev # NULL => h[h[x].prev].next = x
      /\ h[x].children # NULL => h[h[x].children].parent = x
      /\ h[x].last # NULL => h[h[x].last].parent = x
      /\ h[c].next = NULL /\ h[c].prev = NULL
      /\ x # NULL /\ c # NULL
  BY ForestFields DEF Forest, LinkedAt
<1> QED BY <1>1, SubtreeSiblings DEF Subtree

-----------------------------------------------------------------------------
(* Edits keep a forest a forest.                                           *)

\* The fields of the heap after xmlUnlinkNode.
LEMMA UnlinkFields ==
  ASSUME NEW h \in Heap, NEW n \in Node, NEW m \in Cell
  PROVE  LET g == Unlink(h, n)
         IN /\ g[m].parent = IF m = n THEN NULL ELSE h[m].parent
            /\ g[m].doc = h[m].doc
            /\ g[m].next = IF m = n THEN NULL ELSE IF m = h[n].prev THEN h[n].next ELSE h[m].next
            /\ g[m].prev = IF m = n THEN NULL ELSE IF m = h[n].next THEN h[n].prev ELSE h[m].prev
            /\ g[m].children = IF m # n /\ m = h[n].parent /\ h[m].children = n
                               THEN h[n].next ELSE h[m].children
            /\ g[m].last = IF m # n /\ m = h[n].parent /\ h[m].last = n
                           THEN h[n].prev ELSE h[m].last
<1>1. h[m] \in XmlRecord /\ h[n] \in XmlRecord
  BY DEF Heap, Cell
<1>2. CASE m = n
  BY <1>1, <1>2 DEF Unlink, XmlRecord
<1>3. CASE m # n
  <2> DEFINE ch == IF m = h[n].parent /\ h[m].children = n THEN h[n].next ELSE h[m].children
             la == IF m = h[n].parent /\ h[m].last = n THEN h[n].prev ELSE h[m].last
             nx == IF m = h[n].prev THEN h[n].next ELSE h[m].next
             pv == IF m = h[n].next THEN h[n].prev ELSE h[m].prev
  <2>1. Unlink(h, n)[m] = [h[m] EXCEPT !.children = ch, !.last = la, !.next = nx, !.prev = pv]
    BY <1>3 DEF Unlink
  <2>2. LET r == [h[m] EXCEPT !.children = ch, !.last = la, !.next = nx, !.prev = pv]
        IN /\ r.parent = h[m].parent /\ r.doc = h[m].doc /\ r.next = nx /\ r.prev = pv
           /\ r.children = ch /\ r.last = la
    <3> HIDE DEF ch, la, nx, pv
    <3> QED BY <1>1 DEF XmlRecord
  <2> QED BY <1>3, <2>1, <2>2
<1> QED BY <1>2, <1>3

\* The structures of a relinked heap are those of the heap it came from.
LEMMA RelinkedInUse ==
  ASSUME NEW h, NEW g, Relinked(h, g)
  PROVE  g \in Heap /\ InUse(g) = InUse(h)
BY DEF Relinked, InUse

\* xmlUnlinkNode leaves the node at the top of a tree of its own.
LEMMA UnlinkForest ==
  ASSUME NEW h, Forest(h), NEW n \in InUse(h) \cap Node
  PROVE  /\ Forest(Unlink(h, n)) /\ InUse(Unlink(h, n)) = InUse(h)
         /\ Unlink(h, n)[n].parent = NULL
         /\ Below(Unlink(h, n), n) \subseteq Below(h, n)
<1> DEFINE g == Unlink(h, n)
<1>1. Relinked(h, g) /\ g \in Heap /\ InUse(g) = InUse(h) /\ n \in Cell
  BY UnlinkRelinks, RelinkedInUse DEF Forest, Cell
<1>2. ASSUME NEW m \in InUse(h)
      PROVE /\ g[m].parent = IF m = n THEN NULL ELSE h[m].parent
            /\ g[m].doc = h[m].doc
            /\ g[m].next = IF m = n THEN NULL ELSE IF m = h[n].prev THEN h[n].next ELSE h[m].next
            /\ g[m].prev = IF m = n THEN NULL ELSE IF m = h[n].next THEN h[n].prev ELSE h[m].prev
            /\ g[m].children = IF m # n /\ m = h[n].parent /\ h[m].children = n
                               THEN h[n].next ELSE h[m].children
            /\ g[m].last = IF m # n /\ m = h[n].parent /\ h[m].last = n
                           THEN h[n].prev ELSE h[m].last
  BY UnlinkFields DEF Forest, InUse
<1> HIDE DEF g
<1>3. ASSUME NEW m \in InUse(h)
      PROVE  /\ h[m].parent = NULL \/ h[m].parent \in InUse(h)
             /\ h[m].doc = NULL \/ h[m].doc \in InUse(h)
             /\ h[m].next = NULL \/ h[m].next \in InUse(h) \cap Node
             /\ h[m].prev = NULL \/ h[m].prev \in InUse(h) \cap Node
             /\ h[m].children = NULL \/ h[m].children \in InUse(h) \cap Node
             /\ h[m].last = NULL \/ h[m].last \in InUse(h) \cap Node
             /\ m # NULL /\ h[m].parent # m
             /\ m \in Doc => m # n
  BY ForestFields, SubtreeSiblings, CellsDistinct
<1>4. ASSUME NEW m \in InUse(h)
      PROVE  /\ m \in Doc => /\ h[m].parent = NULL /\ h[m].doc = NULL
                             /\ h[m].next = NULL /\ h[m].prev = NULL
             /\ h[m].children # NULL => h[h[m].children].parent = m /\ h[h[m].children].prev = NULL
             /\ h[m].last # NULL => h[h[m].last].parent = m /\ h[h[m].last].next = NULL
             /\ (h[m].children = NULL) <=> (h[m].last = NULL)
             /\ h[m].next # NULL => h[h[m].next].prev = m /\ h[h[m].next].parent = h[m].parent
             /\ h[m].prev # NULL => h[h[m].prev].next = m /\ h[h[m].prev].parent = h[m].parent
             /\ h[m].parent # NULL => /\ h[m].prev = NULL => h[h[m].parent].children = m
                                      /\ h[m].next = NULL => h[h[m].parent].last = m
             /\ h[m].parent = NULL => h[m].next = NULL /\ h[m].prev = NULL
  BY DEF Forest, LinkedAt
<1>5. ASSUME NEW c \in InUse(h) PROVE LinkedAt(g, c)
  <2>1. Links(g, c) \subseteq InUse(g)
    BY <1>1, <1>2, <1>3 DEF Links
  <2>2. c \in Doc => g[c].parent = NULL /\ g[c].doc = NULL /\ g[c].next = NULL /\ g[c].prev = NULL
    BY <1>2, <1>3, <1>4
  <2>3. /\ g[c].children # NULL => g[g[c].children].parent = c /\ g[g[c].children].prev = NULL
        /\ g[c].last # NULL => g[g[c].last].parent = c /\ g[g[c].last].next = NULL
    <3>1. ASSUME g[c].children # NULL
          PROVE  g[g[c].children].parent = c /\ g[g[c].children].prev = NULL
      BY <1>2, <1>3, <1>4, <3>1, SMTT(30)
    <3>2. ASSUME g[c].last # NULL
          PROVE  g[g[c].last].parent = c /\ g[g[c].last].next = NULL
      BY <1>2, <1>3, <1>4, <3>2, SMTT(30)
    <3> QED BY <3>1, <3>2
  <2>4. (g[c].children = NULL) <=> (g[c].last = NULL)
    BY <1>2, <1>3, <1>4
  <2>5. /\ g[c].next # NULL => g[g[c].next].prev = c /\ g[g[c].next].parent = g[c].parent
        /\ g[c].prev # NULL => g[g[c].prev].next = c /\ g[g[c].prev].parent = g[c].parent
    <3>1. ASSUME g[c].next # NULL
          PROVE  g[g[c].next].prev = c /\ g[g[c].next].parent = g[c].parent
      BY <1>2, <1>3, <1>4, <3>1, SMTT(30)
    <3>2. ASSUME g[c].prev # NULL
          PROVE  g[g[c].prev].next = c /\ g[g[c].prev].parent = g[c].parent
      BY <1>2, <1>3, <1>4, <3>2, SMTT(30)
    <3> QED BY <3>1, <3>2
  <2>6. g[c].parent # NULL => /\ g[c].prev = NULL => g[g[c].parent].children = c
                              /\ g[c].next = NULL => g[g[c].parent].last = c
    BY <1>2, <1>3, <1>4
  <2>7. g[c].parent = NULL => g[c].next = NULL /\ g[c].prev = NULL
    BY <1>2, <1>3, <1>4
  <2> QED BY <2>1, <2>2, <2>3, <2>4, <2>5, <2>6, <2>7 DEF LinkedAt
<1>6. Grounded(g)
  <2> SUFFICES ASSUME NEW S \in SUBSET InUse(h), S # {}
               PROVE  \E c \in S : g[c].parent \notin S
    BY <1>1 DEF Grounded
  <2>1. CASE n \in S
    BY <1>2, <1>3, <2>1
  <2>2. CASE n \notin S
    <3>1. PICK c \in S : h[c].parent \notin S
      BY DEF Forest, Grounded
    <3> QED BY <1>2, <2>2, <3>1
  <2> QED BY <2>1, <2>2
<1>7. Ordered(g)
  <2> SUFFICES ASSUME NEW S \in SUBSET InUse(h), S # {}
               PROVE  \E c \in S : g[c].prev \notin S
    BY <1>1 DEF Ordered
  <2>1. CASE n \in S
    BY <1>2, <1>3, <2>1
  <2>2. CASE n \notin S /\ h[n].next \notin S
    <3>1. PICK c \in S : h[c].prev \notin S
      BY DEF Forest, Ordered
    <3> QED BY <1>2, <2>2, <3>1
  <2>3. CASE n \notin S /\ h[n].next \in S
    <3>1. PICK c \in S \cup {n} : h[c].prev \notin S \cup {n}
      <4>1. S \cup {n} \in SUBSET InUse(h) /\ S \cup {n} # {}
        OBVIOUS
      <4> QED BY <4>1 DEF Forest, Ordered
    <3>2. h[n].next \in InUse(h) /\ h[h[n].next].prev = n /\ h[n].next # n
      BY <1>3, <1>4, <2>3
    <3> QED BY <1>2, <2>3, <3>1, <3>2
  <2> QED BY <2>1, <2>2, <2>3
<1>8. Forest(g)
  BY <1>1, <1>5, <1>6, <1>7 DEF Forest
<1>9. Below(g, n) \subseteq Below(h, n)
  <2>1. Below(h, n) \in SUBSET Cell /\ Below(h, n) \subseteq InUse(h)
    BY SubtreeUp DEF InUse
  <2>2. g[n].children # NULL => g[n].children \in Below(h, n)
    BY <1>1, <1>2, BelowSteps DEF Forest
  <2>3. n \notin Below(h, n) /\ h[n].prev \notin Below(h, n) /\ h[n].parent \notin Below(h, n)
    BY TopOutside, SubtreeSiblings DEF Subtree
  <2>4. ASSUME NEW x \in Below(h, n)
        PROVE  /\ g[x].children # NULL => g[x].children \in Below(h, n)
               /\ g[x].next # NULL => g[x].next \in Below(h, n)
    BY <1>1, <1>2, <2>1, <2>3, BelowSteps DEF Forest
  <2> QED BY <1>1, <2>1, <2>2, <2>4, BelowLeast
<1> QED BY <1>1, <1>2, <1>8, <1>9 DEF g

\* The heap g is h with n, which was unlinked, under p between a and b.
Spliced(h, g, n, p, a, b) ==
  /\ Relinked(h, g)
  /\ \A m \in Cell :
       /\ g[m].parent = IF m = n THEN p ELSE h[m].parent
       /\ g[m].doc = h[m].doc
       /\ g[m].next = IF m = n THEN b ELSE IF m = a THEN n ELSE h[m].next
       /\ g[m].prev = IF m = n THEN a ELSE IF m = b THEN n ELSE h[m].prev
       /\ g[m].children = IF m # n /\ m = p /\ a = NULL THEN n ELSE h[m].children
       /\ g[m].last = IF m # n /\ m = p /\ b = NULL THEN n ELSE h[m].last

\* Siblings a and b are neighbours among the children of p; NULL stands for
\* the end of the list.
Gap(h, p, a, b) ==
  /\ p \in InUse(h)
  /\ a = NULL => h[p].children = b
  /\ a # NULL => a \in InUse(h) \cap Node /\ h[a].parent = p /\ h[a].next = b
  /\ b = NULL => h[p].last = a
  /\ b # NULL => b \in InUse(h) \cap Node /\ h[b].parent = p /\ h[b].prev = a

\* What linking n between a and b under p does to each field.
LEMMA SpliceFields ==
  ASSUME NEW h \in Heap, NEW n \in Node, NEW p \in Cell \cup {NULL},
         NEW a \in Node \cup {NULL}, NEW b \in Node \cup {NULL}
  PROVE  Spliced(h, Splice(h, n, p, a, b), n, p, a, b)
<1> DEFINE g == Splice(h, n, p, a, b)
<1>1. ASSUME NEW m \in Cell
      PROVE  /\ g[m].parent = IF m = n THEN p ELSE h[m].parent
             /\ g[m].doc = h[m].doc
             /\ g[m].next = IF m = n THEN b ELSE IF m = a THEN n ELSE h[m].next
             /\ g[m].prev = IF m = n THEN a ELSE IF m = b THEN n ELSE h[m].prev
             /\ g[m].children = IF m # n /\ m = p /\ a = NULL THEN n ELSE h[m].children
             /\ g[m].last = IF m # n /\ m = p /\ b = NULL THEN n ELSE h[m].last
  <2>1. h[m] \in XmlRecord /\ h[n] \in XmlRecord
    BY DEF Heap, Cell
  <2>2. CASE m = n
    BY <2>1, <2>2 DEF Splice, XmlRecord
  <2>3. CASE m # n
    <3> DEFINE ch == IF m = p /\ a = NULL THEN n ELSE h[m].children
               la == IF m = p /\ b = NULL THEN n ELSE h[m].last
               nx == IF m = a THEN n ELSE h[m].next
               pv == IF m = b THEN n ELSE h[m].prev
    <3>1. g[m] = [h[m] EXCEPT !.next = nx, !.prev = pv, !.children = ch, !.last = la]
      BY <2>3 DEF Splice
    <3>2. LET r == [h[m] EXCEPT !.next = nx, !.prev = pv, !.children = ch, !.last = la]
          IN /\ r.parent = h[m].parent /\ r.doc = h[m].doc /\ r.next = nx /\ r.prev = pv
             /\ r.children = ch /\ r.last = la
      <4> HIDE DEF ch, la, nx, pv
      <4> QED BY <2>1 DEF XmlRecord
    <3> HIDE DEF g
    <3> QED BY <2>3, <3>1, <3>2
  <2> QED BY <2>2, <2>3
<1>2. Relinked(h, g)
  BY SpliceRelinks
<1> HIDE DEF g
<1>3. Spliced(h, g, n, p, a, b)
  BY <1>1, <1>2 DEF Spliced
<1> QED BY <1>3 DEF g

\* Linking the top of one tree between two siblings that are not in it
\* makes it a part of theirs.
LEMMA SplicedForest ==
  ASSUME NEW h, NEW g, Forest(h), NEW n \in InUse(h) \cap Node, h[n].parent = NULL,
         NEW p, NEW a, NEW b, Gap(h, p, a, b), p \notin Subtree(h, n),
         Spliced(h, g, n, p, a, b)
  PROVE  Forest(g) /\ InUse(g) = InUse(h)
<1>1. g \in Heap /\ InUse(g) = InUse(h) /\ NULL \notin InUse(h)
  BY RelinkedInUse, CellsDistinct DEF Spliced, InUse, Cell
<1>2. ASSUME NEW m \in InUse(h)
      PROVE  /\ g[m].parent = IF m = n THEN p ELSE h[m].parent
             /\ g[m].doc = h[m].doc
             /\ g[m].next = IF m = n THEN b ELSE IF m = a THEN n ELSE h[m].next
             /\ g[m].prev = IF m = n THEN a ELSE IF m = b THEN n ELSE h[m].prev
             /\ g[m].children = IF m # n /\ m = p /\ a = NULL THEN n ELSE h[m].children
             /\ g[m].last = IF m # n /\ m = p /\ b = NULL THEN n ELSE h[m].last
  BY DEF Spliced, InUse
<1>3. ASSUME NEW m \in InUse(h)
      PROVE  /\ h[m].parent = NULL \/ h[m].parent \in InUse(h)
             /\ h[m].doc = NULL \/ h[m].doc \in InUse(h)
             /\ h[m].next = NULL \/ h[m].next \in InUse(h) \cap Node
             /\ h[m].prev = NULL \/ h[m].prev \in InUse(h) \cap Node
             /\ h[m].children = NULL \/ h[m].children \in InUse(h) \cap Node
             /\ h[m].last = NULL \/ h[m].last \in InUse(h) \cap Node
             /\ m # NULL
             /\ m \in Doc => m # n /\ m # a /\ m # b
  BY ForestFields, CellsDistinct DEF Gap
<1>4. ASSUME NEW m \in InUse(h)
      PROVE  /\ m \in Doc => /\ h[m].parent = NULL /\ h[m].doc = NULL
                             /\ h[m].next = NULL /\ h[m].prev = NULL
             /\ h[m].children # NULL => h[h[m].children].parent = m /\ h[h[m].children].prev = NULL
             /\ h[m].last # NULL => h[h[m].last].parent = m /\ h[h[m].last].next = NULL
             /\ (h[m].children = NULL) <=> (h[m].last = NULL)
             /\ h[m].next # NULL => h[h[m].next].prev = m /\ h[h[m].next].parent = h[m].parent
             /\ h[m].prev # NULL => h[h[m].prev].next = m /\ h[h[m].prev].parent = h[m].parent
             /\ h[m].parent # NULL => /\ h[m].prev = NULL => h[h[m].parent].children = m
                                      /\ h[m].next = NULL => h[h[m].parent].last = m
             /\ h[m].parent = NULL => h[m].next = NULL /\ h[m].prev = NULL
  BY DEF Forest, LinkedAt
<1>5. /\ p \in InUse(h) /\ p # NULL /\ p # n /\ n # NULL
      /\ a = NULL => h[p].children = b
      /\ a # NULL => a \in InUse(h) \cap Node /\ h[a].parent = p /\ h[a].next = b /\ a # n
      /\ b = NULL => h[p].last = a
      /\ b # NULL => b \in InUse(h) \cap Node /\ h[b].parent = p /\ h[b].prev = a /\ b # n
      /\ h[n].next = NULL /\ h[n].prev = NULL
  BY <1>1, <1>3, <1>4 DEF Gap, Subtree
<1>6. ASSUME NEW c \in InUse(h) PROVE LinkedAt(g, c)
  <2>1. Links(g, c) \subseteq InUse(g)
    BY <1>1, <1>2, <1>3, <1>5 DEF Links
  <2>2. c \in Doc => g[c].parent = NULL /\ g[c].doc = NULL /\ g[c].next = NULL /\ g[c].prev = NULL
    BY <1>2, <1>3, <1>4
  <2>3. /\ g[c].children # NULL => g[g[c].children].parent = c /\ g[g[c].children].prev = NULL
        /\ g[c].last # NULL => g[g[c].last].parent = c /\ g[g[c].last].next = NULL
    BY <1>2, <1>3, <1>4, <1>5
  <2>4. (g[c].children = NULL) <=> (g[c].last = NULL)
    BY <1>2, <1>3, <1>4, <1>5
  <2>5. /\ g[c].next # NULL => g[g[c].next].prev = c /\ g[g[c].next].parent = g[c].parent
        /\ g[c].prev # NULL => g[g[c].prev].next = c /\ g[g[c].prev].parent = g[c].parent
    BY <1>2, <1>3, <1>4, <1>5
  <2>6. g[c].parent # NULL => /\ g[c].prev = NULL => g[g[c].parent].children = c
                              /\ g[c].next = NULL => g[g[c].parent].last = c
    BY <1>2, <1>3, <1>4, <1>5
  <2>7. g[c].parent = NULL => g[c].next = NULL /\ g[c].prev = NULL
    BY <1>2, <1>3, <1>4, <1>5
  <2> QED BY <2>1, <2>2, <2>3, <2>4, <2>5, <2>6, <2>7 DEF LinkedAt
<1>7. Grounded(g)
  <2> SUFFICES ASSUME NEW S \in SUBSET InUse(h), S # {}
               PROVE  \E c \in S : g[c].parent \notin S
    BY <1>1 DEF Grounded
  <2> DEFINE T == S \ Subtree(h, n)
  <2>1. CASE T # {}
    <3>1. T \in SUBSET InUse(h)
      OBVIOUS
    <3> HIDE DEF T
    <3>2. PICK c \in T : h[c].parent \notin T
      BY <2>1, <3>1 DEF Forest, Grounded
    <3>3. c \in S /\ c \in InUse(h) /\ c \notin Subtree(h, n) /\ c # n
      BY <3>2 DEF T, Subtree
    <3>4. h[c].parent \notin Subtree(h, n)
      BY <3>3, SubtreeSiblings
    <3> QED BY <1>2, <3>2, <3>3, <3>4 DEF T
  <2>2. CASE T = {} /\ n \in S
    BY <1>2, <2>2
  <2>3. CASE n \notin S
    <3>1. PICK c \in S : h[c].parent \notin S
      BY DEF Forest, Grounded
    <3> QED BY <1>2, <2>3, <3>1
  <2> QED BY <2>1, <2>2, <2>3
<1>8. Ordered(g)
  <2> SUFFICES ASSUME NEW S \in SUBSET InUse(h), S # {}
               PROVE  \E c \in S : g[c].prev \notin S
    BY <1>1 DEF Ordered
  <2> DEFINE T == S \ {n}
  <2>1. CASE n \notin S
    <3>1. PICK c \in S : h[c].prev \notin S
      BY DEF Forest, Ordered
    <3> QED BY <1>2, <2>1, <3>1
  <2>2. CASE n \in S /\ T = {}
    BY <1>1, <1>2, <1>5, <2>2
  <2>3. CASE n \in S /\ T # {}
    <3>1. PICK c \in T : h[c].prev \notin T
      <4>1. T \in SUBSET InUse(h)
        OBVIOUS
      <4> HIDE DEF T
      <4> QED BY <2>3, <4>1 DEF Forest, Ordered
    <3>2. h[c].prev # n
      BY <1>1, <1>4, <1>5, <3>1
    <3>3. CASE c # b
      BY <1>2, <3>1, <3>2, <3>3
    <3>4. CASE c = b
      <4>1. h[b].prev = a /\ a # n
        BY <1>1, <1>5, <3>1, <3>4
      <4> QED BY <1>2, <2>3, <3>1, <3>4, <4>1
    <3> QED BY <3>3, <3>4
  <2> QED BY <2>1, <2>2, <2>3
<1> QED BY <1>1, <1>6, <1>7, <1>8 DEF Forest

\* The fields of the heap after xmlSetTreeDoc.
LEMMA SetTreeDocFields ==
  ASSUME NEW h \in Heap, NEW n \in Node, NEW d \in Doc \cup {NULL}, NEW m \in Cell
  PROVE  LET g == SetTreeDoc(h, n, d)
         IN /\ g[m].parent = h[m].parent /\ g[m].next = h[m].next /\ g[m].prev = h[m].prev
            /\ g[m].children = h[m].children /\ g[m].last = h[m].last
            /\ g[m].doc = IF m \in Subtree(h, n) THEN d ELSE h[m].doc
BY DEF SetTreeDoc, Heap, XmlRecord

\* Where a walk gets depends on the pointers it follows only.
LEMMA SameSubtree ==
  ASSUME NEW h, NEW g, NEW c \in Cell,
         \A x \in Cell : g[x].children = h[x].children /\ g[x].next = h[x].next
  PROVE  Below(g, c) = Below(h, c) /\ Subtree(g, c) = Subtree(h, c)
<1>1. [x \in Cell |-> {g[x].children, g[x].next} \ {NULL}]
        = [x \in Cell |-> {h[x].children, h[x].next} \ {NULL}]
  OBVIOUS
<1> QED BY <1>1 DEF Below, Subtree

\* Changing doc pointers alone, to documents in use, keeps a forest.
LEMMA SetTreeDocForest ==
  ASSUME NEW h, Forest(h), NEW n \in InUse(h) \cap Node, NEW d,
         d = NULL \/ d \in InUse(h) \cap Doc
  PROVE  LET g == SetTreeDoc(h, n, d)
         IN /\ Forest(g) /\ InUse(g) = InUse(h)
            /\ \A x \in Cell : Below(g, x) = Below(h, x) /\ Subtree(g, x) = Subtree(h, x)
<1> DEFINE g == SetTreeDoc(h, n, d)
<1>1. h \in Heap /\ d \in Doc \cup {NULL} /\ n \in Cell
  BY DEF Forest, Cell
<1>2. g \in Heap /\ InUse(g) = InUse(h)
  BY <1>1, SetTreeDocRelinks, RelinkedInUse
<1>3. ASSUME NEW m \in Cell
      PROVE  /\ g[m].parent = h[m].parent /\ g[m].next = h[m].next /\ g[m].prev = h[m].prev
             /\ g[m].children = h[m].children /\ g[m].last = h[m].last
             /\ g[m].doc = IF m \in Subtree(h, n) THEN d ELSE h[m].doc
  BY <1>1, SetTreeDocFields
<1> HIDE DEF g
<1>4. ASSUME NEW c \in InUse(h) PROVE LinkedAt(g, c)
  <2>1. c \in Cell /\ LinkedAt(h, c)
    BY DEF InUse, Forest
  <2>2. /\ h[c].parent = NULL \/ h[c].parent \in Cell
        /\ h[c].next = NULL \/ h[c].next \in Cell
        /\ h[c].prev = NULL \/ h[c].prev \in Cell
        /\ h[c].children = NULL \/ h[c].children \in Cell
        /\ h[c].last = NULL \/ h[c].last \in Cell
    BY <1>1, <2>1, Fields DEF Cell
  <2>3. c \in Doc => c \notin Subtree(h, n)
    BY <1>1, BelowTyped, CellsDistinct DEF Subtree
  <2>4. Links(g, c) \subseteq InUse(g)
    BY <1>2, <1>3, <2>1 DEF LinkedAt, Links
  <2> HIDE DEF Links
  <2> QED BY <1>3, <2>1, <2>2, <2>3, <2>4 DEF LinkedAt
<1>5. Grounded(g) /\ Ordered(g)
  BY <1>2, <1>3 DEF Forest, Grounded, Ordered, InUse
<1>6. \A x \in Cell : Below(g, x) = Below(h, x) /\ Subtree(g, x) = Subtree(h, x)
  BY <1>3, SameSubtree
<1>7. Forest(g)
  BY <1>2, <1>4, <1>5 DEF Forest
<1> QED BY <1>2, <1>6, <1>7 DEF g

-----------------------------------------------------------------------------
(* Doc pointers.                                                           *)

\* The document of what is linked below p: p, or the one p names.
DocUnder(h, p) == IF p = NULL THEN NULL ELSE IF p \in Doc THEN p ELSE h[p].doc

\* The doc pointer of x is that of what it hangs on.
DocRight(h, x) == h[x].doc = DocUnder(h, h[x].parent)

\* A forest in which every doc pointer agrees with the parent's.
Trees(h) == Forest(h) /\ \A x \in InUse(h) \cap Node : DocRight(h, x)

\* The same, but for the doc pointer of n, which is at the top of a tree.
TreesBut(h, n) ==
  /\ Forest(h)
  /\ n \in InUse(h) \cap Node
  /\ h[n].parent = NULL
  /\ \A x \in (InUse(h) \cap Node) \ {n} : DocRight(h, x)

\* Every top of a tree of g was one in h.
NoNewTop(h, g) == \A c \in InUse(g) : g[c].parent = NULL => c \in InUse(h) /\ h[c].parent = NULL

\* xmlUnlinkNode changes no parent but the node's.
LEMMA UnlinkTrees ==
  ASSUME NEW h, Trees(h), NEW n \in InUse(h) \cap Node
  PROVE  /\ TreesBut(Unlink(h, n), n)
         /\ \A c \in InUse(h) \ {n} : Unlink(h, n)[c].parent = h[c].parent
<1> DEFINE g == Unlink(h, n)
<1>1. Forest(h) /\ h \in Heap
  BY DEF Trees, Forest
<1>2. Forest(g) /\ InUse(g) = InUse(h) /\ g[n].parent = NULL
  BY <1>1, UnlinkForest
<1>3. ASSUME NEW c \in InUse(h)
      PROVE  g[c].parent = (IF c = n THEN NULL ELSE h[c].parent) /\ g[c].doc = h[c].doc
  BY <1>1, UnlinkFields DEF InUse
<1> HIDE DEF g
<1>4. ASSUME NEW x \in (InUse(g) \cap Node) \ {n} PROVE DocRight(g, x)
  <2>1. x \in InUse(h) /\ h[x].doc = DocUnder(h, h[x].parent) /\ g[x].parent = h[x].parent
    BY <1>2, <1>3, <1>4 DEF Trees, DocRight
  <2>2. h[x].parent = NULL \/ h[x].parent \in InUse(h)
    BY <1>1, <2>1, ForestFields
  <2> QED BY <1>3, <2>1, <2>2 DEF DocRight, DocUnder
<1> QED BY <1>2, <1>3, <1>4 DEF TreesBut, g

\* xmlSetTreeDoc passes the document on to all that is below n.
LEMMA SetTreeDocTrees ==
  ASSUME NEW h, NEW n, TreesBut(h, n), NEW d, d = NULL \/ d \in InUse(h) \cap Doc
  PROVE  LET g == SetTreeDoc(h, n, d)
         IN /\ TreesBut(g, n) /\ g[n].doc = d
            /\ InUse(g) = InUse(h)
            /\ \A x \in Cell : Below(g, x) = Below(h, x) /\ Subtree(g, x) = Subtree(h, x)
            /\ \A x \in Cell : g[x].parent = h[x].parent
            /\ \A x \in Cell \ Subtree(h, n) : g[x].doc = h[x].doc
<1> DEFINE g == SetTreeDoc(h, n, d)
<1>1. Forest(h) /\ h \in Heap /\ n \in InUse(h) \cap Node /\ n \in Subtree(h, n) /\ n \in Cell
  BY DEF TreesBut, Forest, Subtree, Cell
<1>2. /\ Forest(g) /\ InUse(g) = InUse(h)
      /\ \A x \in Cell : Below(g, x) = Below(h, x) /\ Subtree(g, x) = Subtree(h, x)
  BY <1>1, SetTreeDocForest
<1>3. ASSUME NEW m \in Cell
      PROVE  /\ g[m].parent = h[m].parent
             /\ g[m].doc = IF m \in Subtree(h, n) THEN d ELSE h[m].doc
  BY <1>1, SetTreeDocFields
<1> HIDE DEF g
<1>4. ASSUME NEW x \in (InUse(g) \cap Node) \ {n} PROVE DocRight(g, x)
  <2>1. x \in InUse(h) /\ x \in Cell /\ h[x].doc = DocUnder(h, h[x].parent)
    BY <1>2, <1>4 DEF TreesBut, DocRight, InUse
  <2>2. h[x].parent = NULL \/ h[x].parent \in InUse(h)
    BY <1>1, <2>1, ForestFields
  <2>3. CASE x \in Below(h, n)
    <3>1. h[x].parent \in Subtree(h, n) /\ Subtree(h, n) \subseteq Node /\ x \in Subtree(h, n)
      BY <1>1, <2>3, SubtreeUp DEF Subtree
    <3>2. h[x].parent # NULL /\ h[x].parent \notin Doc /\ h[x].parent \in Cell
      BY <3>1, CellsDistinct DEF Cell
    <3> QED BY <1>3, <2>1, <3>1, <3>2 DEF DocRight, DocUnder
  <2>4. CASE x \notin Below(h, n)
    <3>1. x \notin Subtree(h, n)
      BY <1>4, <2>4 DEF Subtree
    <3>2. h[x].parent \notin Subtree(h, n)
      BY <1>1, <2>1, <3>1, SubtreeSiblings
    <3> QED BY <1>3, <2>1, <2>2, <3>1, <3>2 DEF DocRight, DocUnder, InUse
  <2> QED BY <2>3, <2>4
<1>5. TreesBut(g, n)
  BY <1>1, <1>2, <1>3, <1>4 DEF TreesBut
<1> QED BY <1>1, <1>2, <1>3, <1>5 DEF g

\* A tree is linked into a gap, with the document of its new place.
LEMMA PlacedTrees ==
  ASSUME NEW h, NEW n, TreesBut(h, n),
         NEW p, NEW a, NEW b, Gap(h, p, a, b), p \notin Subtree(h, n),
         NEW g, Spliced(SetTreeDoc(h, n, DocUnder(h, p)), g, n, p, a, b)
  PROVE  /\ Trees(g) /\ InUse(g) = InUse(h)
         /\ \A c \in InUse(g) : g[c].parent = NULL => c # n /\ h[c].parent = NULL
<1> DEFINE d == DocUnder(h, p)
           v == SetTreeDoc(h, n, d)
<1>1. Forest(h) /\ n \in InUse(h) \cap Node /\ p \in InUse(h) /\ p # NULL /\ p \in Cell
  BY ForestFields DEF TreesBut, Gap
<1>2. d = NULL \/ d \in InUse(h) \cap Doc
  BY <1>1, ForestFields DEF DocUnder
<1>3. /\ TreesBut(v, n) /\ v[n].doc = d /\ InUse(v) = InUse(h)
      /\ \A x \in Cell : Subtree(v, x) = Subtree(h, x)
      /\ \A x \in Cell : v[x].parent = h[x].parent
      /\ \A x \in Cell \ Subtree(h, n) : v[x].doc = h[x].doc
  BY <1>2, SetTreeDocTrees
<1>4. ASSUME NEW m \in Cell
      PROVE  /\ v[m].next = h[m].next /\ v[m].prev = h[m].prev
             /\ v[m].children = h[m].children /\ v[m].last = h[m].last
  <2>1. d \in Doc \cup {NULL} /\ h \in Heap
    BY <1>1, <1>2 DEF Forest
  <2> HIDE DEF d
  <2> QED BY <1>1, <2>1, SetTreeDocFields
<1> HIDE DEF d, v
<1>5. Gap(v, p, a, b)
  BY <1>1, <1>3, <1>4 DEF Gap, InUse
<1>6. p \notin Subtree(v, n) /\ n \in Cell
  BY <1>1, <1>3 DEF Cell
<1>7. Spliced(v, g, n, p, a, b)
  BY DEF v, d
<1>8. Forest(g) /\ InUse(g) = InUse(v)
  BY <1>3, <1>5, <1>6, <1>7, SplicedForest DEF TreesBut
<1>9. ASSUME NEW m \in Cell
      PROVE  g[m].parent = (IF m = n THEN p ELSE h[m].parent) /\ g[m].doc = v[m].doc
  BY <1>3, <1>7 DEF Spliced
<1>10. ASSUME NEW x \in InUse(g) \cap Node PROVE DocRight(g, x)
  <2>1. x \in InUse(v) /\ x \in Cell
    BY <1>8 DEF InUse
  <2>2. CASE x = n
    <3>1. v[p].doc = h[p].doc
      BY <1>1, <1>3
    <3> QED BY <1>1, <1>3, <1>9, <2>1, <2>2, <3>1 DEF DocRight, DocUnder, d
  <2>3. CASE x # n
    <3>1. DocRight(v, x)
      BY <1>10, <2>1, <2>3, <1>3 DEF TreesBut
    <3>2. v[x].parent = NULL \/ v[x].parent \in Cell
      BY <1>3, <2>1, ForestFields DEF TreesBut, InUse
    <3> QED BY <1>3, <1>9, <2>1, <2>3, <3>1, <3>2 DEF DocRight, DocUnder
  <2> QED BY <2>2, <2>3
<1>11. \A c \in InUse(g) : g[c].parent = NULL => c # n /\ h[c].parent = NULL
  BY <1>1, <1>9 DEF InUse
<1> QED BY <1>3, <1>8, <1>10, <1>11 DEF Trees

\* Freeing a whole tree leaves the others, if no doc pointer leads into it.
LEMMA ReleaseTrees ==
  ASSUME NEW h, Forest(h), NEW n \in InUse(h), h[n].parent = NULL,
         \A x \in InUse(h) \ Subtree(h, n) :
            h[x].doc \notin Subtree(h, n) /\ (x \in Node => DocRight(h, x))
  PROVE  LET g == Release(h, Subtree(h, n))
         IN /\ Trees(g) /\ InUse(g) = InUse(h) \ Subtree(h, n)
            /\ \A x \in InUse(g) : g[x] = h[x]
<1> DEFINE dead == Subtree(h, n)
           g == Release(h, dead)
<1>1. h \in Heap /\ dead \subseteq InUse(h) /\ dead \subseteq Cell
  BY SubtreeUp DEF Forest, InUse
<1>2. \A m \in Cell : g[m] = IF m \in dead THEN Blank("free") ELSE h[m]
  BY DEF Release
<1>3. g \in Heap
  BY <1>1, BlankTyped DEF Release, Heap
<1>4. InUse(g) = InUse(h) \ dead
  BY <1>1, <1>2 DEF InUse, Blank
<1>5. \A x \in InUse(g) : g[x] = h[x]
  BY <1>2, <1>4 DEF InUse
<1> HIDE DEF g, dead
<1>6. ASSUME NEW x \in InUse(g)
      PROVE  /\ x \in InUse(h)
             /\ h[x].parent = NULL \/ h[x].parent \in InUse(g)
             /\ h[x].doc = NULL \/ h[x].doc \in InUse(g)
             /\ h[x].next = NULL \/ h[x].next \in InUse(g)
             /\ h[x].prev = NULL \/ h[x].prev \in InUse(g)
             /\ h[x].children = NULL \/ h[x].children \in InUse(g)
             /\ h[x].last = NULL \/ h[x].last \in InUse(g)
  <2>1. x \in InUse(h) /\ x \notin dead
    BY <1>4
  <2>2. /\ {h[x].parent, h[x].next, h[x].prev, h[x].children, h[x].last} \cap dead = {}
        /\ h[x].doc \notin dead
    BY <2>1, RootApart DEF dead
  <2> QED BY <1>4, <2>1, <2>2, ForestFields
<1>7. ASSUME NEW c \in InUse(g) PROVE LinkedAt(g, c)
  <2>1. LinkedAt(h, c)
    BY <1>6 DEF Forest
  <2>2. Links(g, c) \subseteq InUse(g)
    BY <1>5, <1>6 DEF Links
  <2> HIDE DEF Links
  <2> QED BY <1>5, <1>6, <2>1, <2>2 DEF LinkedAt
<1>8. Grounded(g) /\ Ordered(g)
  <2> SUFFICES ASSUME NEW S \in SUBSET InUse(g), S # {}
               PROVE  /\ \E c \in S : g[c].parent \notin S
                      /\ \E c \in S : g[c].prev \notin S
    BY DEF Grounded, Ordered
  <2>1. S \in SUBSET InUse(h)
    BY <1>4
  <2> QED BY <1>5, <2>1 DEF Forest, Grounded, Ordered
<1>9. ASSUME NEW x \in InUse(g) \cap Node PROVE DocRight(g, x)
  <2>1. DocRight(h, x)
    BY <1>4 DEF dead
  <2> QED BY <1>5, <1>6, <2>1 DEF DocRight, DocUnder
<1> QED BY <1>3, <1>4, <1>5, <1>7, <1>8, <1>9 DEF Trees, Forest, g, dead

\* Freeing the tree of a node, which no doc pointer leads into.
LEMMA ReleaseNodeTrees ==
  ASSUME NEW h, NEW n, TreesBut(h, n)
  PROVE  LET g == Release(h, Subtree(h, n))
         IN Trees(g) /\ InUse(g) = InUse(h) \ Subtree(h, n) /\ NoNewTop(h, g)
<1>1. Forest(h) /\ n \in InUse(h) /\ n \in Cell /\ h[n].parent = NULL /\ n \in Subtree(h, n)
  BY DEF TreesBut, InUse, Subtree
<1>2. Subtree(h, n) \subseteq Node
  BY <1>1, BelowTyped DEF Subtree, TreesBut, Forest
<1>3. ASSUME NEW x \in InUse(h) \ Subtree(h, n)
      PROVE  h[x].doc \notin Subtree(h, n) /\ (x \in Node => DocRight(h, x))
  <2>1. h[x].doc \notin Node
    BY <1>1, ForestFields, CellsDistinct
  <2> QED BY <1>1, <1>2, <2>1 DEF TreesBut
<1> QED BY <1>1, <1>3, ReleaseTrees DEF NoNewTop

-----------------------------------------------------------------------------
(* The edits, one by one.                                                  *)

\* Every top of a tree of g was one in h, and n is none.
TopsBut(h, g, n) ==
  \A c \in InUse(g) : g[c].parent = NULL => c # n /\ c \in InUse(h) /\ h[c].parent = NULL

\* xmlAddChild of a node without a parent, below a node outside its tree.
LEMMA AddChildTrees ==
  ASSUME NEW h, Trees(h), NEW p \in InUse(h) \cap Node, NEW n \in InUse(h) \cap Node,
         h[n].parent = NULL, p \notin Subtree(h, n)
  PROVE  Trees(AddChild(h, p, n).heap) /\ TopsBut(h, AddChild(h, p, n).heap, n)
<1> DEFINE d == h[p].doc
           g == SetTreeDoc(h, n, d)
           a == h[p].last
           k == [m \in Cell |-> [g[m] EXCEPT
                    !.parent   = IF m = n THEN p ELSE @,
                    !.prev     = IF m = n /\ a # NULL THEN a ELSE @,
                    !.next     = IF m = a THEN n ELSE @,
                    !.children = IF m = p /\ @ = NULL THEN n ELSE @,
                    !.last     = IF m = p THEN n ELSE @]]
<1>1. /\ Forest(h) /\ h \in Heap /\ TreesBut(h, n)
      /\ p \in Cell /\ n \in Cell /\ p # n /\ n # NULL /\ p # NULL /\ p \notin Doc
  BY CellsDistinct DEF Trees, TreesBut, Forest, Cell, Subtree
<1>2. /\ a = NULL \/ a \in InUse(h) \cap Node
      /\ a # NULL => h[a].parent = p /\ h[a].next = NULL
      /\ (h[p].children = NULL) <=> (a = NULL)
      /\ h[n].next = NULL /\ h[n].prev = NULL
      /\ d = NULL \/ d \in InUse(h) \cap Doc
  BY <1>1, ForestFields DEF Forest, LinkedAt
<1>3. a # n /\ Gap(h, p, a, NULL)
  BY <1>1, <1>2 DEF Gap
<1>4. /\ Relinked(h, g) /\ g \in Heap
      /\ \A m \in Cell : g[m].next = h[m].next /\ g[m].prev = h[m].prev
                         /\ g[m].children = h[m].children /\ g[m].last = h[m].last
  BY <1>1, <1>2, SetTreeDocRelinks, SetTreeDocFields DEF Relinked
<1>5. Spliced(g, k, n, p, a, NULL)
  <2>1. ASSUME NEW m \in Cell
        PROVE  /\ k[m] \in XmlRecord /\ k[m].private = g[m].private /\ k[m].type = g[m].type
               /\ k[m].parent = IF m = n THEN p ELSE g[m].parent
               /\ k[m].doc = g[m].doc
               /\ k[m].next = IF m = n THEN NULL ELSE IF m = a THEN n ELSE g[m].next
               /\ k[m].prev = IF m = n THEN a ELSE IF m = NULL THEN n ELSE g[m].prev
               /\ k[m].children = IF m # n /\ m = p /\ a = NULL THEN n ELSE g[m].children
               /\ k[m].last = IF m # n /\ m = p /\ NULL = NULL THEN n ELSE g[m].last
    <3> DEFINE pa == IF m = n THEN p ELSE g[m].parent
               pv == IF m = n /\ a # NULL THEN a ELSE g[m].prev
               nx == IF m = a THEN n ELSE g[m].next
               ch == IF m = p /\ g[m].children = NULL THEN n ELSE g[m].children
               la == IF m = p THEN n ELSE g[m].last
    <3>1. g[m] \in XmlRecord /\ m # NULL
      BY <1>4, Fields, CellsDistinct DEF Cell
    <3>2. /\ pa \in Cell \cup {NULL} /\ pv \in Node \cup {NULL} /\ nx \in Node \cup {NULL}
          /\ ch \in Node \cup {NULL} /\ la \in Node \cup {NULL}
      BY <1>1, <1>2, <1>4, Fields
    <3>3. /\ pv = IF m = n THEN a ELSE IF m = NULL THEN n ELSE g[m].prev
          /\ nx = IF m = n THEN NULL ELSE IF m = a THEN n ELSE g[m].next
          /\ ch = IF m # n /\ m = p /\ a = NULL THEN n ELSE g[m].children
          /\ la = IF m # n /\ m = p /\ NULL = NULL THEN n ELSE g[m].last
      BY <1>1, <1>2, <1>3, <1>4, <3>1
    <3>4. k[m] = [g[m] EXCEPT !.parent = pa, !.prev = pv, !.next = nx,
                              !.children = ch, !.last = la]
      OBVIOUS
    <3>5. k[m] \in XmlRecord /\ k[m].private = g[m].private /\ k[m].type = g[m].type
      <4> HIDE DEF pa, pv, nx, ch, la, k, g
      <4> QED BY <3>1, <3>2, <3>4, ZenonT(60) DEF XmlRecord
    <3>7. k[m].parent = pa /\ k[m].doc = g[m].doc /\ k[m].next = nx
      <4> HIDE DEF pa, pv, nx, ch, la, k, g
      <4> QED BY <3>1, <3>4 DEF XmlRecord
    <3>8. k[m].prev = pv /\ k[m].children = ch /\ k[m].last = la
      <4> HIDE DEF pa, pv, nx, ch, la, k, g
      <4> QED BY <3>1, <3>4 DEF XmlRecord
    <3>6. pa = IF m = n THEN p ELSE g[m].parent
      OBVIOUS
    <3> HIDE DEF pa, pv, nx, ch, la, k, g
    <3> QED BY <3>3, <3>5, <3>6, <3>7, <3>8
  <2>2. k = [m \in Cell |-> k[m]]
    OBVIOUS
  <2> HIDE DEF k, g
  <2>3. k \in Heap
    BY <2>1, <2>2 DEF Heap
  <2> QED BY <2>1, <2>3 DEF Spliced, Relinked
<1>6. Trees(k) /\ TopsBut(h, k, n)
  <2>1. d = DocUnder(h, p)
    BY <1>1 DEF DocUnder
  <2>2. Spliced(SetTreeDoc(h, n, DocUnder(h, p)), k, n, p, a, NULL)
    BY <1>5, <2>1
  <2> HIDE DEF k, a
  <2> QED BY <1>1, <1>3, <2>2, PlacedTrees DEF TopsBut
<1>7. LET r == Release(h, Subtree(h, n)) IN Trees(r) /\ TopsBut(h, r, n)
  BY <1>1, ReleaseNodeTrees DEF NoNewTop, TopsBut, Subtree
<1> HIDE DEF k
<1> QED BY <1>6, <1>7 DEF AddChild, Merged, Edited, k

\* xmlUnlinkNode followed by xmlSetTreeDoc, under Node#remove!.
LEMMA RemoveTrees ==
  ASSUME NEW h, Trees(h), NEW n \in InUse(h) \cap Node
  PROVE  LET g == SetTreeDoc(Unlink(h, n), n, NULL)
         IN Trees(g) /\ InUse(g) = InUse(h) /\ \A c \in InUse(g) \ {n} : g[c].parent = h[c].parent
<1> DEFINE u == Unlink(h, n)
           g == SetTreeDoc(u, n, NULL)
<1>1. TreesBut(u, n) /\ InUse(u) = InUse(h) /\ \A c \in InUse(h) \ {n} : u[c].parent = h[c].parent
  BY UnlinkTrees, UnlinkForest DEF Trees
<1> HIDE DEF u
<1>2. /\ TreesBut(g, n) /\ g[n].doc = NULL /\ InUse(g) = InUse(u)
      /\ \A x \in Cell : g[x].parent = u[x].parent
  BY <1>1, SetTreeDocTrees
<1> HIDE DEF g
<1>3. DocRight(g, n)
  BY <1>2 DEF TreesBut, DocRight, DocUnder
<1>4. Trees(g)
  BY <1>2, <1>3 DEF TreesBut, Trees
<1> QED BY <1>1, <1>2, <1>4 DEF g, u, InUse

\* Unlinking a node leaves another one where it is, outside its tree.
LEMMA UnlinkApart ==
  ASSUME NEW h, Trees(h), NEW n \in InUse(h) \cap Node, NEW s \in InUse(h) \cap Node,
         s \notin Subtree(h, n), h[s].parent # NULL
  PROVE  LET u == Unlink(h, n)
         IN /\ u[s].parent = h[s].parent /\ u[s].parent \in InUse(u)
            /\ u[s].parent \notin Subtree(u, n)
            /\ u[s].doc = DocUnder(u, u[s].parent)
            /\ Gap(u, u[s].parent, s, u[s].next) /\ Gap(u, u[s].parent, u[s].prev, s)
<1> DEFINE u == Unlink(h, n)
<1>1. /\ Forest(u) /\ InUse(u) = InUse(h) /\ TreesBut(u, n)
      /\ Below(u, n) \subseteq Below(h, n)
      /\ s # n /\ s # NULL
  BY UnlinkForest, UnlinkTrees, ForestFields DEF Trees, Subtree
<1>2. u[s].parent = h[s].parent
  BY <1>1, UnlinkTrees
<1> HIDE DEF u
<1>3. s \notin Subtree(u, n)
  BY <1>1 DEF Subtree
<1>4. u[s].parent \notin Subtree(u, n)
  BY <1>1, <1>3, SubtreeSiblings DEF TreesBut
<1>5. u[s].parent \in InUse(u)
  BY <1>1, <1>2, ForestFields
<1>6. u[s].doc = DocUnder(u, u[s].parent)
  BY <1>1 DEF TreesBut, DocRight
<1>7. /\ u[s].next = NULL \/ u[s].next \in InUse(u) \cap Node
      /\ u[s].prev = NULL \/ u[s].prev \in InUse(u) \cap Node
      /\ u[s].next # NULL => u[u[s].next].prev = s /\ u[u[s].next].parent = u[s].parent
      /\ u[s].prev # NULL => u[u[s].prev].next = s /\ u[u[s].prev].parent = u[s].parent
      /\ u[s].prev = NULL => u[u[s].parent].children = s
      /\ u[s].next = NULL => u[u[s].parent].last = s
  BY <1>1, <1>2, ForestFields DEF Forest, LinkedAt
<1>8. Gap(u, u[s].parent, s, u[s].next) /\ Gap(u, u[s].parent, u[s].prev, s)
  BY <1>1, <1>5, <1>7 DEF Gap
<1> QED BY <1>2, <1>4, <1>5, <1>6, <1>8 DEF u

\* A node moved into a gap, or freed by a merge.
LEMMA MovedTrees ==
  ASSUME NEW h, Trees(h), NEW n \in InUse(h) \cap Node
  PROVE  /\ \A p, a, b : (/\ Gap(Unlink(h, n), p, a, b)
                          /\ p \notin Subtree(Unlink(h, n), n))
              => LET u == Unlink(h, n)
                     g == Splice(SetTreeDoc(u, n, DocUnder(u, p)), n, p, a, b)
                 IN Trees(g) /\ TopsBut(h, g, n)
         /\ LET g == Release(Unlink(h, n), Subtree(Unlink(h, n), n))
            IN Trees(g) /\ TopsBut(h, g, n)
<1> DEFINE u == Unlink(h, n)
<1>1. /\ TreesBut(u, n) /\ Forest(u) /\ InUse(u) = InUse(h)
      /\ \A c \in InUse(h) \ {n} : u[c].parent = h[c].parent
  BY UnlinkForest, UnlinkTrees DEF Trees
<1> HIDE DEF u
<1>2. ASSUME NEW p, NEW a, NEW b, Gap(u, p, a, b), p \notin Subtree(u, n)
      PROVE  LET g == Splice(SetTreeDoc(u, n, DocUnder(u, p)), n, p, a, b)
             IN Trees(g) /\ TopsBut(h, g, n)
  <2> DEFINE v == SetTreeDoc(u, n, DocUnder(u, p))
             g == Splice(v, n, p, a, b)
  <2>1. p \in Cell \cup {NULL} /\ a \in Node \cup {NULL} /\ b \in Node \cup {NULL} /\ p \in InUse(u)
    BY <1>2 DEF Gap, InUse
  <2>2. v \in Heap
    <3>1. DocUnder(u, p) \in Doc \cup {NULL}
      BY <1>1, <2>1, ForestFields DEF DocUnder
    <3> QED BY <1>1, <3>1, SetTreeDocRelinks DEF Forest, Relinked
  <2> HIDE DEF v
  <2>3. Spliced(v, g, n, p, a, b)
    BY <2>1, <2>2, SpliceFields
  <2> HIDE DEF g
  <2>4. /\ Trees(g) /\ InUse(g) = InUse(u)
        /\ \A c \in InUse(g) : g[c].parent = NULL => c # n /\ u[c].parent = NULL
    BY <1>1, <1>2, <2>3, PlacedTrees DEF v
  <2> QED BY <1>1, <2>4 DEF TopsBut, g, v
<1>3. LET g == Release(u, Subtree(u, n)) IN Trees(g) /\ TopsBut(h, g, n)
  <2>1. LET g == Release(u, Subtree(u, n))
        IN Trees(g) /\ InUse(g) = InUse(u) \ Subtree(u, n) /\ NoNewTop(u, g)
    BY <1>1, ReleaseNodeTrees
  <2> QED BY <1>1, <2>1 DEF NoNewTop, TopsBut, Subtree
<1> QED BY <1>2, <1>3 DEF u

\* xmlAddNextSibling and xmlAddPrevSibling, beside a node that has a parent
\* and is outside the tree of the one moved.
LEMMA AddSiblingTrees ==
  ASSUME NEW h, Trees(h), NEW s \in InUse(h) \cap Node, NEW n \in InUse(h) \cap Node,
         s \notin Subtree(h, n), h[s].parent # NULL
  PROVE  /\ Trees(AddNextSibling(h, s, n).heap) /\ TopsBut(h, AddNextSibling(h, s, n).heap, n)
         /\ Trees(AddPrevSibling(h, s, n).heap) /\ TopsBut(h, AddPrevSibling(h, s, n).heap, n)
<1> DEFINE u == Unlink(h, n)
<1>1. /\ u[s].parent \notin Subtree(u, n) /\ u[s].doc = DocUnder(u, u[s].parent)
      /\ Gap(u, u[s].parent, s, u[s].next) /\ Gap(u, u[s].parent, u[s].prev, s)
  BY UnlinkApart
<1>2. LET g == Release(u, Subtree(u, n)) IN Trees(g) /\ TopsBut(h, g, n)
  BY MovedTrees
<1>3. LET g == Splice(SetTreeDoc(u, n, u[s].doc), n, u[s].parent, s, u[s].next)
      IN Trees(g) /\ TopsBut(h, g, n)
  BY <1>1, MovedTrees
<1>4. LET g == Splice(SetTreeDoc(u, n, u[s].doc), n, u[s].parent, u[s].prev, s)
      IN Trees(g) /\ TopsBut(h, g, n)
  BY <1>1, MovedTrees
<1> HIDE DEF u
<1> QED BY <1>2, <1>3, <1>4 DEF AddNextSibling, AddPrevSibling, Merged, Edited, u

\* The root element depends on the siblings and their types only.
LEMMA SameRootElement ==
  ASSUME NEW h, NEW g, NEW d \in Cell,
         \A x \in Cell : /\ g[x].children = h[x].children /\ g[x].next = h[x].next
                         /\ g[x].prev = h[x].prev /\ g[x].type = h[x].type
  PROVE  RootElement(g, d) = RootElement(h, d)
<1> DEFINE before(k)   == [x \in Cell |-> {k[x].prev} \ {NULL}]
           elements(k) == {n \in Siblings(k, d) \cap Node : k[n].type = "element"}
           first(k)    == {n \in elements(k) : Closure({n}, before(k)) \cap elements(k) = {n}}
<1>1. /\ [x \in Cell |-> {g[x].next} \ {NULL}] = [x \in Cell |-> {h[x].next} \ {NULL}]
      /\ before(g) = before(h)
  OBVIOUS
<1>2. Siblings(g, d) = Siblings(h, d)
  BY <1>1 DEF Siblings
<1>3. elements(g) = elements(h)
  BY <1>2 DEF Cell
<1> HIDE DEF before, elements
<1>4. first(g) = first(h)
  BY <1>1, <1>3
<1>5. \A k : RootElement(k, d) = IF first(k) = {} THEN NULL ELSE CHOOSE n \in first(k) : TRUE
  BY DEF RootElement, before, elements
<1> HIDE DEF first
<1> QED BY <1>4, <1>5

\* xmlDocSetRootElement on a document without a root element.
LEMMA DocSetRootElementTrees ==
  ASSUME NEW h, Trees(h), NEW d \in InUse(h) \cap Doc, NEW n \in InUse(h) \cap Node,
         RootElement(Unlink(h, n), d) = NULL
  PROVE  LET g == DocSetRootElement(h, d, n).heap IN Trees(g) /\ TopsBut(h, g, n)
<1> DEFINE u == Unlink(h, n)
           v == SetTreeDoc(u, n, d)
<1>1. /\ TreesBut(u, n) /\ Forest(u) /\ u \in Heap /\ InUse(u) = InUse(h)
      /\ \A c \in InUse(h) \ {n} : u[c].parent = h[c].parent
      /\ d \in Cell /\ d # NULL /\ d # n
  BY UnlinkForest, UnlinkTrees, CellsDistinct DEF Trees, Forest, Cell
<1> HIDE DEF u
<1>2. /\ Relinked(u, v) /\ v \in Heap
      /\ \A m \in Cell : /\ v[m].next = u[m].next /\ v[m].prev = u[m].prev
                         /\ v[m].children = u[m].children /\ v[m].last = u[m].last
  BY <1>1, SetTreeDocRelinks, SetTreeDocFields DEF Relinked
<1>3. RootElement(v, d) = NULL
  <2>1. RootElement(v, d) = RootElement(u, d)
    <3>1. \A x \in Cell : v[x].type = u[x].type
      BY <1>2 DEF Relinked
    <3> HIDE DEF v
    <3> QED BY <1>1, <1>2, <3>1, SameRootElement
  <2> QED BY <2>1 DEF u
<1>4. /\ TreesBut(v, n) /\ InUse(v) = InUse(u)
      /\ \A x \in Cell : v[x].parent = u[x].parent
  BY <1>1, SetTreeDocTrees
<1>5. LET g == Release(v, Subtree(v, n)) IN Trees(g) /\ TopsBut(h, g, n)
  <2> HIDE DEF v
  <2>1. LET g == Release(v, Subtree(v, n))
        IN Trees(g) /\ InUse(g) = InUse(v) \ Subtree(v, n) /\ NoNewTop(v, g)
    BY <1>4, ReleaseNodeTrees
  <2> QED BY <1>1, <1>4, <2>1 DEF NoNewTop, TopsBut, Subtree, InUse
<1>6. LET g == Splice(v, n, d, v[d].last, NULL) IN Trees(g) /\ TopsBut(h, g, n)
  <2> DEFINE a == u[d].last
  <2>1. d = DocUnder(u, d) /\ v[d].last = a
    BY <1>1, <1>2 DEF DocUnder
  <2>2. d \notin Subtree(u, n)
    BY <1>1, BelowTyped, CellsDistinct DEF Subtree, Cell
  <2>3. Gap(u, d, a, NULL)
    <3>1. /\ a = NULL \/ a \in InUse(u) \cap Node
          /\ a # NULL => u[a].parent = d /\ u[a].next = NULL
          /\ (u[d].children = NULL) <=> (a = NULL)
      BY <1>1, ForestFields DEF Forest, LinkedAt
    <3> QED BY <1>1, <3>1 DEF Gap
  <2> QED BY <2>1, <2>2, <2>3, MovedTrees DEF u
<1> HIDE DEF v
<1>7. DocSetRootElement(h, d, n) =
        IF IsText(v, n) /\ IsText(v, v[d].last) THEN Merged(v, n, NULL)
        ELSE Edited(Splice(v, n, d, v[d].last, NULL), NULL)
  BY <1>3 DEF DocSetRootElement, v, u
<1> QED BY <1>5, <1>6, <1>7 DEF Merged, Edited

\* A blank structure has no links.
LEMMA BlankFields ==
  ASSUME NEW t
  PROVE  LET r == Blank(t)
         IN /\ r.type = t /\ r.parent = NULL /\ r.doc = NULL /\ r.next = NULL
            /\ r.prev = NULL /\ r.children = NULL /\ r.last = NULL /\ r.private = NULL
BY DEF Blank

\* The heap in which a structure has been allocated.
LEMMA FreshFields ==
  ASSUME NEW h \in Heap, NEW c \in Cell, NEW t \in {"element", "text", "comment", "document"}
  PROVE  LET g == [h EXCEPT ![c] = Blank(t)]
         IN g \in Heap /\ g[c] = Blank(t) /\ \A x \in Cell \ {c} : g[x] = h[x]
<1>1. Blank(t) \in XmlRecord
  BY BlankTyped
<1> QED BY <1>1 DEF Heap

\* A structure allocated in free memory is a tree of its own.
LEMMA FreshTrees ==
  ASSUME NEW h, Trees(h), NEW c \in Cell \ InUse(h),
         NEW t \in {"element", "text", "comment", "document"},
         NEW g \in Heap, g[c] = Blank(t), \A x \in Cell \ {c} : g[x] = h[x]
  PROVE  /\ Trees(g) /\ InUse(g) = InUse(h) \cup {c}
         /\ Below(g, c) = {} /\ g[c].parent = NULL
<1>1. /\ Forest(h) /\ h \in Heap /\ c \in Cell /\ c # NULL
      /\ g[c].type = t /\ t # "free"
  BY BlankFields, CellsDistinct DEF Trees, Forest, Cell
<1>2. g \in Heap /\ g[c] = Blank(t) /\ \A x \in Cell \ {c} : g[x] = h[x]
  OBVIOUS
<1>3. InUse(g) = InUse(h) \cup {c}
  BY <1>1, <1>2 DEF InUse
<1>4. /\ g[c].parent = NULL /\ g[c].doc = NULL /\ g[c].next = NULL
      /\ g[c].prev = NULL /\ g[c].children = NULL /\ g[c].last = NULL
  BY <1>2, BlankFields
<1>5. ASSUME NEW x \in InUse(h)
      PROVE  /\ x # c /\ g[x] = h[x]
             /\ h[x].parent = NULL \/ h[x].parent \in InUse(h)
             /\ h[x].doc = NULL \/ h[x].doc \in InUse(h)
             /\ h[x].next = NULL \/ h[x].next \in InUse(h)
             /\ h[x].prev = NULL \/ h[x].prev \in InUse(h)
             /\ h[x].children = NULL \/ h[x].children \in InUse(h)
             /\ h[x].last = NULL \/ h[x].last \in InUse(h)
  BY <1>1, <1>2, ForestFields DEF InUse
<1>6. ASSUME NEW x \in InUse(g) PROVE LinkedAt(g, x)
  <2>1. Links(g, x) \subseteq InUse(g)
    BY <1>3, <1>4, <1>5 DEF Links
  <2>2. CASE x = c
    BY <1>4, <2>1, <2>2 DEF LinkedAt
  <2>3. CASE x # c
    <3>1. x \in InUse(h) /\ LinkedAt(h, x)
      BY <1>1, <1>3, <2>3 DEF Forest
    <3> HIDE DEF Links
    <3> QED BY <1>5, <2>1, <3>1 DEF LinkedAt
  <2> QED BY <2>2, <2>3
<1>7. Grounded(g) /\ Ordered(g)
  <2> SUFFICES ASSUME NEW S \in SUBSET InUse(g), S # {}
               PROVE  /\ \E x \in S : g[x].parent \notin S
                      /\ \E x \in S : g[x].prev \notin S
    BY DEF Grounded, Ordered
  <2>1. CASE c \in S
    BY <1>1, <1>4, <2>1, CellsDistinct DEF InUse, Cell
  <2>2. CASE c \notin S
    <3>1. S \in SUBSET InUse(h)
      BY <1>3, <2>2
    <3> QED BY <1>1, <1>5, <3>1 DEF Forest, Grounded, Ordered
  <2> QED BY <2>1, <2>2
<1>8. ASSUME NEW x \in InUse(g) \cap Node PROVE DocRight(g, x)
  BY <1>3, <1>4, <1>5 DEF DocRight, DocUnder, Trees
<1>9. Below(g, c) = {}
  <2> DEFINE T == {}
  <2>1. /\ T \in SUBSET Cell
        /\ g[c].children # NULL => g[c].children \in T
        /\ \A x \in T : /\ g[x].children # NULL => g[x].children \in T
                        /\ g[x].next # NULL => g[x].next \in T
    BY <1>4
  <2> HIDE DEF T
  <2>2. Below(g, c) \subseteq T
    BY <1>1, <1>2, <2>1, BelowLeast
  <2> QED BY <2>2 DEF T
<1> QED BY <1>2, <1>3, <1>4, <1>6, <1>7, <1>8, <1>9 DEF Trees, Forest

\* Freeing all that is below a node.
LEMMA EmptiedTrees ==
  ASSUME NEW h, Trees(h), NEW n \in InUse(h) \cap Node, NEW g \in Heap,
         InUse(g) = InUse(h) \ Below(h, n),
         \A x \in InUse(g) : /\ g[x].parent = h[x].parent /\ g[x].doc = h[x].doc
                             /\ g[x].next = h[x].next /\ g[x].prev = h[x].prev
                             /\ g[x].children = IF x = n THEN NULL ELSE h[x].children
                             /\ g[x].last = IF x = n THEN NULL ELSE h[x].last
  PROVE  Trees(g) /\ n \in InUse(g)
<1>1. /\ Forest(h) /\ n \notin Below(h, n) /\ NULL \notin InUse(h)
      /\ Below(h, n) \subseteq Node
  BY TopOutside, SubtreeUp, CellsDistinct DEF Trees, InUse, Cell
<1>2. n \in InUse(g)
  BY <1>1
<1>3. ASSUME NEW x \in InUse(g)
      PROVE  /\ x \in InUse(h)
             /\ h[x].parent = NULL \/ h[x].parent \in InUse(g)
             /\ h[x].doc = NULL \/ h[x].doc \in InUse(g)
             /\ h[x].next = NULL \/ h[x].next \in InUse(g)
             /\ h[x].prev = NULL \/ h[x].prev \in InUse(g)
             /\ h[x].children = NULL \/ x = n \/ h[x].children \in InUse(g)
             /\ h[x].last = NULL \/ x = n \/ h[x].last \in InUse(g)
             /\ h[x].parent = n => FALSE
  <2>1. x \in InUse(h) /\ x \notin Below(h, n)
    OBVIOUS
  <2>2. /\ h[x].next \notin Below(h, n) /\ h[x].prev \notin Below(h, n)
        /\ x # n => h[x].children \notin Below(h, n) /\ h[x].last \notin Below(h, n)
        /\ h[x].parent \notin Below(h, n) /\ h[x].parent # n
    <3>1. x = n => h[x].parent \notin Subtree(h, n)
      BY <1>1, TopOutside
    <3>2. x # n => x \notin Subtree(h, n)
      BY <2>1 DEF Subtree
    <3> QED BY <1>1, <2>1, <3>1, <3>2, SubtreeSiblings DEF Subtree
  <2>3. h[x].doc \notin Below(h, n)
    BY <1>1, <2>1, ForestFields, CellsDistinct
  <2> QED BY <1>1, <2>1, <2>2, <2>3, ForestFields
<1>4. ASSUME NEW c \in InUse(g) PROVE LinkedAt(g, c)
  <2>1. LinkedAt(h, c)
    BY <1>1, <1>3 DEF Forest
  <2>2. Links(g, c) \subseteq InUse(g)
    BY <1>3 DEF Links
  <2> HIDE DEF Links
  <2> QED BY <1>3, <2>1, <2>2 DEF LinkedAt
<1>5. Grounded(g) /\ Ordered(g)
  <2> SUFFICES ASSUME NEW S \in SUBSET InUse(g), S # {}
               PROVE  /\ \E c \in S : g[c].parent \notin S
                      /\ \E c \in S : g[c].prev \notin S
    BY DEF Grounded, Ordered
  <2>1. S \in SUBSET InUse(h)
    OBVIOUS
  <2>2. /\ \E c \in S : h[c].parent \notin S
        /\ \E c \in S : h[c].prev \notin S
    BY <1>1, <2>1 DEF Forest, Grounded, Ordered
  <2> QED BY <2>2
<1>6. ASSUME NEW x \in InUse(g) \cap Node PROVE DocRight(g, x)
  BY <1>3 DEF DocRight, DocUnder, Trees
<1> QED BY <1>2, <1>4, <1>5, <1>6 DEF Trees, Forest

\* xmlNodeSetContent.
LEMMA NodeSetContentTrees ==
  ASSUME NEW h, Trees(h), NEW n \in InUse(h) \cap Node, NEW c \in FreeNodes(h) \cup {NULL}
  PROVE  LET g == NodeSetContent(h, n, c).heap IN Trees(g) /\ NoNewTop(h, g)
<1> DEFINE dead == Below(h, n)
           r == Release(h, dead)
           e == [m \in Cell |-> IF m = n THEN [r[n] EXCEPT !.children = NULL, !.last = NULL]
                                ELSE r[m]]
           k(t) == [m \in Cell |-> IF m = t THEN [Blank("text") EXCEPT !.parent = n, !.doc = h[n].doc]
                                   ELSE IF m = n THEN [r[n] EXCEPT !.children = t, !.last = t]
                                   ELSE r[m]]
<1>1. /\ Forest(h) /\ h \in Heap /\ n \in Cell /\ n # NULL /\ n \notin dead
      /\ dead \in SUBSET Cell /\ dead \subseteq InUse(h) /\ NULL \notin Cell
  BY TopOutside, SubtreeUp, CellsDistinct DEF Trees, Forest, Cell, InUse
<1>2. \A m \in Cell : r[m] = IF m \in dead THEN Blank("free") ELSE h[m]
  BY DEF Release
<1> HIDE DEF r, dead
<1>3. r[n] = h[n] /\ h[n] \in XmlRecord
  BY <1>1, <1>2 DEF Heap
<1>4. /\ e[n] \in XmlRecord /\ e[n].type = h[n].type /\ e[n].private = h[n].private
      /\ e[n].parent = h[n].parent /\ e[n].doc = h[n].doc /\ e[n].next = h[n].next
      /\ e[n].prev = h[n].prev /\ e[n].children = NULL /\ e[n].last = NULL
  BY <1>1, <1>3 DEF XmlRecord
<1>5. /\ \A m \in Cell : m # n => e[m] = IF m \in dead THEN Blank("free") ELSE h[m]
      /\ e = [m \in Cell |-> e[m]]
  BY <1>2
<1>6. e \in Heap
  <2>1. \A m \in Cell : e[m] \in XmlRecord
    <3>1. Blank("free") \in XmlRecord
      BY BlankTyped
    <3> HIDE DEF e
    <3> QED BY <1>1, <1>4, <1>5, <3>1 DEF Heap
  <2> QED BY <2>1 DEF Heap
<1> HIDE DEF e
<1>7. InUse(e) = InUse(h) \ dead
  BY <1>1, <1>4, <1>5, BlankFields DEF InUse
<1>8. Trees(e) /\ n \in InUse(e)
  <2>1. \A x \in InUse(e) : /\ e[x].parent = h[x].parent /\ e[x].doc = h[x].doc
                            /\ e[x].next = h[x].next /\ e[x].prev = h[x].prev
                            /\ e[x].children = IF x = n THEN NULL ELSE h[x].children
                            /\ e[x].last = IF x = n THEN NULL ELSE h[x].last
    BY <1>4, <1>5, <1>7 DEF InUse
  <2> QED BY <1>6, <1>7, <2>1, EmptiedTrees DEF dead
<1>9. NoNewTop(h, e)
  BY <1>4, <1>5, <1>7 DEF NoNewTop, InUse
<1>10. CASE h[n].type # "element"
  BY <1>10 DEF NodeSetContent, Edited, NoNewTop
<1>11. CASE h[n].type = "element" /\ c = NULL
  <2>1. NodeSetContent(h, n, c).heap = k(NULL)
    BY <1>11 DEF NodeSetContent, r, dead
  <2>2. k(NULL) = e
    BY <1>1 DEF e
  <2> QED BY <1>8, <1>9, <2>1, <2>2
<1>12. CASE h[n].type = "element" /\ c # NULL
  <2> DEFINE f == [e EXCEPT ![c] = Blank("text")]
             v == SetTreeDoc(f, c, DocUnder(f, n))
  <2>1. NodeSetContent(h, n, c).heap = k(c)
    BY <1>12 DEF NodeSetContent, r, dead
  <2>2. c \in Node /\ c \in Cell \ InUse(h) /\ c \in Cell \ InUse(e) /\ c # n
    BY <1>7, <1>12 DEF FreeNodes, Cell
  <2>3. /\ Trees(f) /\ InUse(f) = InUse(e) \cup {c}
        /\ f[c] = Blank("text") /\ \A x \in Cell \ {c} : f[x] = e[x]
        /\ Below(f, c) = {} /\ f[c].parent = NULL
    <3>1. "text" \in {"element", "text", "comment", "document"}
      OBVIOUS
    <3>2. f \in Heap /\ f[c] = Blank("text") /\ \A x \in Cell \ {c} : f[x] = e[x]
      BY <1>6, <2>2, <3>1, FreshFields
    <3> HIDE DEF f
    <3> QED BY <1>8, <2>2, <3>1, <3>2, FreshTrees, SMTT(30)
  <2> HIDE DEF f
  <2>4. f[c].next = NULL /\ f[c].prev = NULL /\ f[c].children = NULL /\ f[c].last = NULL
        /\ f[c].doc = NULL /\ f[c].private = NULL /\ f[c].type = "text"
    BY <2>3, BlankFields
  <2>5. /\ f[n] = e[n] /\ n \in InUse(f) /\ DocUnder(f, n) = h[n].doc /\ Subtree(f, c) = {c}
        /\ h[n].doc \in Doc \cup {NULL} /\ f \in Heap /\ c \in InUse(f)
    BY <1>1, <1>4, <1>8, <2>2, <2>3, Fields, CellsDistinct DEF DocUnder, Subtree, Trees, Forest
  <2>6. ASSUME NEW m \in Cell
        PROVE  /\ v[m].parent = f[m].parent /\ v[m].next = f[m].next /\ v[m].prev = f[m].prev
               /\ v[m].children = f[m].children /\ v[m].last = f[m].last
               /\ v[m].doc = IF m = c THEN h[n].doc ELSE f[m].doc
               /\ v[m].type = f[m].type /\ v[m].private = f[m].private
    BY <2>2, <2>5, SetTreeDocFields, SetTreeDocRelinks DEF Relinked
  <2> HIDE DEF v
  <2>7. /\ k(c)[c].parent = n /\ k(c)[c].doc = h[n].doc /\ k(c)[c].next = NULL
        /\ k(c)[c].prev = NULL /\ k(c)[c].children = NULL /\ k(c)[c].last = NULL
        /\ k(c)[c].type = "text" /\ k(c)[c].private = NULL /\ k(c)[c] \in XmlRecord
    <3>1. k(c)[c] = [Blank("text") EXCEPT !.parent = n, !.doc = h[n].doc]
      BY <2>2
    <3>2. Blank("text") \in XmlRecord
      BY BlankTyped
    <3> HIDE DEF k
    <3> QED BY <1>1, <2>5, <3>1, <3>2, BlankFields, ZenonT(60) DEF XmlRecord
  <2>8. /\ k(c)[n].parent = h[n].parent /\ k(c)[n].doc = h[n].doc /\ k(c)[n].next = h[n].next
        /\ k(c)[n].prev = h[n].prev /\ k(c)[n].children = c /\ k(c)[n].last = c
        /\ k(c)[n].type = h[n].type /\ k(c)[n].private = h[n].private /\ k(c)[n] \in XmlRecord
    <3>1. k(c)[n] = [h[n] EXCEPT !.children = c, !.last = c]
      BY <1>1, <1>3, <2>2
    <3> HIDE DEF k
    <3> QED BY <1>3, <2>2, <3>1, ZenonT(60) DEF XmlRecord
  <2>9. /\ \A m \in Cell : m # c /\ m # n => k(c)[m] = f[m]
        /\ k(c) = [m \in Cell |-> k(c)[m]]
    BY <1>2, <1>5, <2>3
  <2> HIDE DEF k
  <2>10. k(c) \in Heap
    <3>1. \A m \in Cell : k(c)[m] \in XmlRecord
      BY <2>5, <2>7, <2>8, <2>9 DEF Heap
    <3> QED BY <2>9, <3>1 DEF Heap
  <2>11. Relinked(v, k(c))
    <3>1. \A m \in Cell : k(c)[m].private = v[m].private /\ k(c)[m].type = v[m].type
      BY <1>4, <2>2, <2>4, <2>5, <2>6, <2>7, <2>8, <2>9
    <3> QED BY <2>10, <3>1 DEF Relinked
  <2>12. Spliced(v, k(c), c, n, NULL, NULL)
    <3>1. ASSUME NEW m \in Cell
          PROVE  /\ k(c)[m].parent = IF m = c THEN n ELSE v[m].parent
                 /\ k(c)[m].doc = v[m].doc
                 /\ k(c)[m].next = IF m = c THEN NULL ELSE IF m = NULL THEN c ELSE v[m].next
                 /\ k(c)[m].prev = IF m = c THEN NULL ELSE IF m = NULL THEN c ELSE v[m].prev
                 /\ k(c)[m].children = IF m # c /\ m = n /\ NULL = NULL THEN c ELSE v[m].children
                 /\ k(c)[m].last = IF m # c /\ m = n /\ NULL = NULL THEN c ELSE v[m].last
      BY <1>1, <1>4, <2>2, <2>4, <2>5, <2>6, <2>7, <2>8, <2>9
    <3> QED BY <2>11, <3>1 DEF Spliced
  <2>13. TreesBut(f, c) /\ n \notin Subtree(f, c)
    BY <2>2, <2>3, <2>5 DEF Trees, TreesBut
  <2>14. Gap(f, n, NULL, NULL)
    BY <1>4, <2>5 DEF Gap
  <2>15. /\ Trees(k(c)) /\ InUse(k(c)) = InUse(f)
         /\ \A x \in InUse(k(c)) : k(c)[x].parent = NULL => x # c /\ f[x].parent = NULL
    BY <2>12, <2>13, <2>14, PlacedTrees DEF v
  <2>16. NoNewTop(h, k(c))
    BY <1>9, <2>3, <2>15 DEF NoNewTop, InUse
  <2> QED BY <2>1, <2>15, <2>16
<1> QED BY <1>10, <1>11, <1>12

\* xmlNodeAddContent, when the text becomes a node of its own.
LEMMA NodeAddContentTrees ==
  ASSUME NEW h, Trees(h), NEW n \in InUse(h) \cap Node, NEW c \in FreeNodes(h)
  PROVE  LET g == NodeAddContent(h, n, c).heap IN Trees(g) /\ NoNewTop(h, g)
<1> DEFINE f == [h EXCEPT ![c] = Blank("text")]
           g == AddChild(f, n, c).heap
<1>1. c \in Cell \ InUse(h) /\ c \in Node /\ c # n
  BY DEF FreeNodes, Cell
<1>2. /\ Trees(f) /\ InUse(f) = InUse(h) \cup {c}
      /\ \A x \in Cell \ {c} : f[x] = h[x]
      /\ Below(f, c) = {} /\ f[c].parent = NULL
  <2>1. "text" \in {"element", "text", "comment", "document"}
    OBVIOUS
  <2>2. f \in Heap /\ f[c] = Blank("text") /\ \A x \in Cell \ {c} : f[x] = h[x]
    BY <1>1, <2>1, FreshFields DEF Trees, Forest
  <2> HIDE DEF f
  <2> QED BY <1>1, <2>1, <2>2, FreshTrees, SMTT(30)
<1>3. NodeAddContent(h, n, c).heap = g
  BY DEF NodeAddContent
<1> HIDE DEF f
<1>4. Trees(g) /\ TopsBut(f, g, c)
  BY <1>1, <1>2, AddChildTrees DEF Subtree
<1> HIDE DEF g
<1>5. NoNewTop(h, g)
  BY <1>2, <1>4 DEF TopsBut, NoNewTop, InUse
<1> QED BY <1>3, <1>4, <1>5

\* What xmlParseDocument builds is a tree beside the others.
LEMMA ParseDocumentTrees ==
  ASSUME NEW h, Trees(h), NEW d \in Doc \ InUse(h), NEW n \in FreeNodes(h),
         NEW c \in (FreeNodes(h) \ {n}) \cup {NULL}
  PROVE  LET g == ParseDocument(h, d, n, c)
         IN Trees(g) /\ \A x \in InUse(g) : g[x].parent = NULL =>
                           x = d \/ (x \in InUse(h) /\ h[x].parent = NULL)
<1> DEFINE D == [Blank("document") EXCEPT !.children = n, !.last = n]
           N == [Blank("element") EXCEPT !.parent = d, !.doc = d, !.children = c, !.last = c]
           C == [Blank("text") EXCEPT !.parent = n, !.doc = d]
           g == ParseDocument(h, d, n, c)
           new == {d, n} \cup ({c} \ {NULL})
<1>1. /\ Forest(h) /\ h \in Heap /\ NULL \notin Cell /\ d # n /\ d # c /\ c # n /\ n # NULL
      /\ d # NULL /\ d \in Cell /\ n \in Cell /\ n \in Node /\ n \notin Doc
      /\ new \cap InUse(h) = {} /\ new \subseteq Cell
      /\ c # NULL => c \in Node /\ c \in Cell /\ c \notin Doc
  BY CellsDistinct DEF Trees, Forest, FreeNodes, Cell
<1>2. /\ D \in XmlRecord /\ D.type = "document" /\ D.parent = NULL /\ D.doc = NULL
      /\ D.next = NULL /\ D.prev = NULL /\ D.children = n /\ D.last = n
  BY <1>1, BlankTyped, BlankFields, ZenonT(60) DEF XmlRecord
<1>3. /\ N \in XmlRecord /\ N.type = "element" /\ N.parent = d /\ N.doc = d
      /\ N.next = NULL /\ N.prev = NULL /\ N.children = c /\ N.last = c
  BY <1>1, BlankTyped, BlankFields, ZenonT(60) DEF XmlRecord
<1>4. /\ C \in XmlRecord /\ C.type = "text" /\ C.parent = n /\ C.doc = d
      /\ C.next = NULL /\ C.prev = NULL /\ C.children = NULL /\ C.last = NULL
  BY <1>1, BlankTyped, BlankFields, ZenonT(60) DEF XmlRecord
<1>5. /\ \A m \in Cell : g[m] = IF m = d THEN D ELSE IF m = n THEN N
                                ELSE IF m = c THEN C ELSE h[m]
      /\ g = [m \in Cell |-> g[m]]
  BY DEF ParseDocument
<1> HIDE DEF D, N, C, g
<1>6. g \in Heap
  <2>1. \A m \in Cell : g[m] \in XmlRecord
    BY <1>1, <1>2, <1>3, <1>4, <1>5, Fields
  <2> QED BY <1>5, <2>1 DEF Heap
<1>7. InUse(g) = InUse(h) \cup new
  BY <1>1, <1>2, <1>3, <1>4, <1>5 DEF InUse
<1>8. g[d] = D /\ g[n] = N /\ (c # NULL => g[c] = C)
  BY <1>1, <1>5
<1>9. ASSUME NEW x \in InUse(h)
      PROVE  /\ g[x] = h[x]
             /\ h[x].parent = NULL \/ h[x].parent \in InUse(h)
             /\ h[x].doc = NULL \/ h[x].doc \in InUse(h)
             /\ h[x].next = NULL \/ h[x].next \in InUse(h)
             /\ h[x].prev = NULL \/ h[x].prev \in InUse(h)
             /\ h[x].children = NULL \/ h[x].children \in InUse(h)
             /\ h[x].last = NULL \/ h[x].last \in InUse(h)
  <2>1. x # d /\ x # n /\ x # c /\ x \in Cell
    BY <1>1 DEF InUse
  <2> QED BY <1>1, <1>5, <2>1, ForestFields
<1>10. ASSUME NEW x \in InUse(g) PROVE LinkedAt(g, x)
  <2>1. CASE x = d
    BY <1>1, <1>2, <1>3, <1>7, <1>8, <2>1 DEF LinkedAt, Links
  <2>2. CASE x = n
    BY <1>1, <1>2, <1>3, <1>4, <1>7, <1>8, <2>2 DEF LinkedAt, Links
  <2>3. CASE x = c
    <3>1. c # NULL
      BY <1>1, <2>3 DEF InUse
    <3> QED BY <1>1, <1>3, <1>4, <1>7, <1>8, <2>3, <3>1 DEF LinkedAt, Links
  <2>4. CASE x \in InUse(h)
    <3>1. LinkedAt(h, x)
      BY <1>1, <2>4 DEF Forest
    <3>2. Links(g, x) \subseteq InUse(g)
      BY <1>7, <1>9, <2>4 DEF Links
    <3> HIDE DEF Links
    <3> QED BY <1>9, <2>4, <3>1, <3>2 DEF LinkedAt
  <2> QED BY <1>7, <2>1, <2>2, <2>3, <2>4
<1>11. Grounded(g) /\ Ordered(g)
  <2> SUFFICES ASSUME NEW S \in SUBSET InUse(g), S # {}
               PROVE  /\ \E x \in S : g[x].parent \notin S
                      /\ \E x \in S : g[x].prev \notin S
    BY DEF Grounded, Ordered
  <2>0. NULL \notin S
    BY <1>1 DEF InUse
  <2>1. CASE d \in S
    BY <1>2, <1>8, <2>0, <2>1
  <2>2. CASE d \notin S /\ n \in S
    BY <1>3, <1>8, <2>0, <2>2
  <2>3. CASE d \notin S /\ n \notin S /\ c \in S
    BY <1>4, <1>8, <2>0, <2>3
  <2>4. CASE S \cap new = {}
    <3>1. S \in SUBSET InUse(h)
      BY <1>7, <2>4
    <3> QED BY <1>1, <1>9, <3>1 DEF Forest, Grounded, Ordered
  <2> QED BY <2>1, <2>2, <2>3, <2>4
<1>12. ASSUME NEW x \in InUse(g) \cap Node PROVE DocRight(g, x)
  <2>1. CASE x \in InUse(h)
    BY <1>9, <2>1 DEF DocRight, DocUnder, Trees
  <2>2. CASE x = n
    BY <1>1, <1>3, <1>8, <2>2 DEF DocRight, DocUnder
  <2>3. CASE x = c
    BY <1>1, <1>3, <1>4, <1>8, <2>3 DEF DocRight, DocUnder, InUse
  <2>4. x # d
    BY CellsDistinct
  <2> QED BY <1>7, <2>1, <2>2, <2>3, <2>4
<1>13. \A x \in InUse(g) : g[x].parent = NULL => x = d \/ (x \in InUse(h) /\ h[x].parent = NULL)
  BY <1>1, <1>3, <1>4, <1>7, <1>8, <1>9
<1> QED BY <1>6, <1>10, <1>11, <1>12, <1>13 DEF Trees, Forest, g

\* The copy of a node alone has no links.
LEMMA CopyOneFields ==
  ASSUME NEW h, Forest(h), NEW n \in InUse(h), NEW f \in [{n} -> FreeNodes(h)]
  PROVE  CopyNode(h, {n}, f) = [h EXCEPT ![f[n]] = Blank(h[n].type)]
<1>1. /\ h \in Heap /\ f[n] \in Cell
      /\ h[n].parent # n /\ h[n].next # n /\ h[n].prev # n /\ h[n].children # n /\ h[n].last # n
  BY SubtreeSiblings DEF Forest, FreeNodes, Cell
<1> DEFINE image(x) == IF x \in {n} THEN f[x] ELSE NULL
           copy(x)  == [Blank(h[x].type) EXCEPT
                          !.parent = image(h[x].parent), !.next = image(h[x].next),
                          !.prev = image(h[x].prev),     !.children = image(h[x].children),
                          !.last = image(h[x].last)]
<1>2. copy(n) = Blank(h[n].type)
  <2>1. /\ image(h[n].parent) = NULL /\ image(h[n].next) = NULL /\ image(h[n].prev) = NULL
        /\ image(h[n].children) = NULL /\ image(h[n].last) = NULL
    BY <1>1
  <2> DEFINE b == Blank(h[n].type)
  <2>2. copy(n) = [b EXCEPT !.parent = NULL, !.next = NULL, !.prev = NULL,
                            !.children = NULL, !.last = NULL]
    BY <2>1
  <2>3. b \in XmlRecord
    BY <1>1, BlankTyped DEF Heap, XmlRecord, InUse
  <2>4. /\ b.parent = NULL /\ b.next = NULL /\ b.prev = NULL
        /\ b.children = NULL /\ b.last = NULL
    BY BlankFields
  <2> HIDE DEF b, copy
  <2>5. [b EXCEPT !.parent = NULL] = b /\ [b EXCEPT !.next = NULL] = b
    BY <2>3, <2>4 DEF XmlRecord
  <2>6. [b EXCEPT !.prev = NULL] = b /\ [b EXCEPT !.children = NULL] = b
    BY <2>3, <2>4 DEF XmlRecord
  <2>7. [b EXCEPT !.last = NULL] = b
    BY <2>3, <2>4 DEF XmlRecord
  <2> QED BY <2>2, <2>5, <2>6, <2>7 DEF b
<1>3. CopyNode(h, {n}, f) = [m \in Cell |-> IF \E x \in {n} : f[x] = m
                                            THEN copy(CHOOSE x \in {n} : f[x] = m) ELSE h[m]]
  BY DEF CopyNode
<1> HIDE DEF copy, image
<1>4. CopyNode(h, {n}, f) = [m \in Cell |-> IF m = f[n] THEN Blank(h[n].type) ELSE h[m]]
  BY <1>2, <1>3
<1>5. [h EXCEPT ![f[n]] = Blank(h[n].type)]
         = [m \in Cell |-> IF m = f[n] THEN Blank(h[n].type) ELSE h[m]]
  BY <1>1 DEF Heap
<1> QED BY <1>4, <1>5

\* The fields of the copy of a subtree.
LEMMA CopyNodeFields ==
  ASSUME NEW h \in Heap, NEW S \in SUBSET Cell, NEW f \in [S -> FreeNodes(h)],
         \A x, y \in S : f[x] = f[y] => x = y
  PROVE  LET g == CopyNode(h, S, f)
             image(x) == IF x \in S THEN f[x] ELSE NULL
         IN /\ \A m \in Cell : (\A x \in S : f[x] # m) => g[m] = h[m]
            /\ \A x \in S : /\ g[f[x]].type = h[x].type /\ g[f[x]].doc = NULL
                            /\ g[f[x]].parent = image(h[x].parent)
                            /\ g[f[x]].next = image(h[x].next)
                            /\ g[f[x]].prev = image(h[x].prev)
                            /\ g[f[x]].children = image(h[x].children)
                            /\ g[f[x]].last = image(h[x].last)
<1> DEFINE image(x) == IF x \in S THEN f[x] ELSE NULL
           copy(x)  == [Blank(h[x].type) EXCEPT
                          !.parent = image(h[x].parent), !.next = image(h[x].next),
                          !.prev = image(h[x].prev),     !.children = image(h[x].children),
                          !.last = image(h[x].last)]
           g == CopyNode(h, S, f)
<1>1. \A m \in Cell : g[m] = IF \E x \in S : f[x] = m
                             THEN copy(CHOOSE x \in S : f[x] = m) ELSE h[m]
  BY DEF CopyNode
<1>2. \A x : /\ copy(x).type = h[x].type /\ copy(x).doc = NULL
             /\ copy(x).parent = image(h[x].parent) /\ copy(x).next = image(h[x].next)
             /\ copy(x).prev = image(h[x].prev) /\ copy(x).children = image(h[x].children)
             /\ copy(x).last = image(h[x].last)
  <2> HIDE DEF image
  <2> QED BY DEF Blank
<1> HIDE DEF copy, g
<1>3. ASSUME NEW x \in S PROVE g[f[x]] = copy(x)
  <2>1. f[x] \in Cell
    BY DEF FreeNodes, Cell
  <2>2. (CHOOSE y \in S : f[y] = f[x]) = x
    OBVIOUS
  <2> QED BY <1>1, <2>1, <2>2
<1>4. \A m \in Cell : (\A x \in S : f[x] # m) => g[m] = h[m]
  BY <1>1
<1> QED BY <1>2, <1>3, <1>4 DEF g

\* The ways xmlCopyNode chooses memory for the copy of n, or of its subtree.
Copies(h, n, S, f) ==
  /\ S \in {{n}, Subtree(h, n)}
  /\ f \in [S -> FreeNodes(h)]
  /\ \A x, y \in S : f[x] = f[y] => x = y

\* xmlCopyNode: the copy of a subtree is a tree of its own, without a
\* document; the copy of a node alone is a structure without links.
LEMMA CopyNodeTrees ==
  ASSUME NEW h, Trees(h), NEW n \in InUse(h) \cap Node, NEW S, NEW f, Copies(h, n, S, f)
  PROVE  LET g == CopyNode(h, S, f)
         IN /\ Trees(g) /\ f[n] \in InUse(g)
            /\ \A x \in InUse(g) : g[x].parent = NULL =>
                  x = f[n] \/ (x \in InUse(h) /\ h[x].parent = NULL)
<1> USE DEF Copies
<1> DEFINE g == CopyNode(h, S, f)
           image(x) == IF x \in S THEN f[x] ELSE NULL
           new == {f[x] : x \in S}
<1>1. /\ Forest(h) /\ h \in Heap /\ n \in S /\ S \subseteq InUse(h) /\ S \in SUBSET Cell
      /\ NULL \notin Cell
  <2>1. Forest(h) /\ h \in Heap
    BY DEF Trees, Forest
  <2>2. Subtree(h, n) \subseteq InUse(h) /\ n \in Subtree(h, n) /\ n \in InUse(h)
    BY <2>1, SubtreeUp DEF Subtree
  <2>3. S = {n} \/ S = Subtree(h, n)
    OBVIOUS
  <2> QED BY <2>1, <2>2, <2>3, CellsDistinct DEF InUse, Cell
<1>2. CASE S = {n}
  <2>1. g = [h EXCEPT ![f[n]] = Blank(h[n].type)] /\ f[n] \in Cell \ InUse(h)
    BY <1>1, <1>2, CopyOneFields DEF FreeNodes, Cell
  <2>2. h[n].type \in {"element", "text", "comment", "document"}
    BY <1>1 DEF Heap, XmlRecord, InUse
  <2>3. g \in Heap /\ g[f[n]] = Blank(h[n].type) /\ \A x \in Cell \ {f[n]} : g[x] = h[x]
    <3> DEFINE t == h[n].type
               c == f[n]
    <3>1. /\ t \in {"element", "text", "comment", "document"} /\ c \in Cell /\ h \in Heap
          /\ g = [h EXCEPT ![c] = Blank(t)]
      BY <1>1, <2>1, <2>2
    <3> HIDE DEF t, c, g
    <3>2. Blank(t) \in XmlRecord
      BY <3>1, BlankTyped
    <3>3. g \in Heap /\ g[c] = Blank(t) /\ \A x \in Cell \ {c} : g[x] = h[x]
      BY ONLY <3>1, <3>2 DEF Heap
    <3> QED BY <3>3 DEF t, c
  <2> HIDE DEF g
  <2>4. /\ Trees(g) /\ InUse(g) = InUse(h) \cup {f[n]}
        /\ \A x \in Cell \ {f[n]} : g[x] = h[x]
    <3> DEFINE t == h[n].type
               c == f[n]
    <3>1. /\ t \in {"element", "text", "comment", "document"} /\ c \in Cell \ InUse(h)
          /\ g \in Heap /\ g[c] = Blank(t) /\ \A x \in Cell \ {c} : g[x] = h[x]
      BY <2>1, <2>2, <2>3
    <3> HIDE DEF t, c
    <3>2. Trees(g) /\ InUse(g) = InUse(h) \cup {c}
      BY <3>1, FreshTrees
    <3> QED BY <2>3, <3>2 DEF c
  <2> QED BY <2>4 DEF g, InUse
<1>3. CASE S = Subtree(h, n)
  <2>1. /\ \A m \in Cell : (\A x \in S : f[x] # m) => g[m] = h[m]
        /\ \A x \in S : /\ g[f[x]].type = h[x].type /\ g[f[x]].doc = NULL
                        /\ g[f[x]].parent = image(h[x].parent)
                        /\ g[f[x]].next = image(h[x].next)
                        /\ g[f[x]].prev = image(h[x].prev)
                        /\ g[f[x]].children = image(h[x].children)
                        /\ g[f[x]].last = image(h[x].last)
    BY <1>1, CopyNodeFields
  <2>2. g \in Heap
    <3>1. SUFFICES Forest(h) => g \in Heap
      BY <1>1
    <3>2. ASSUME NEW m \in Cell PROVE g[m] \in XmlRecord
      <4> DEFINE copy(x) == [Blank(h[x].type) EXCEPT
                                !.parent = image(h[x].parent), !.next = image(h[x].next),
                                !.prev = image(h[x].prev),     !.children = image(h[x].children),
                                !.last = image(h[x].last)]
      <4>1. \A x : image(x) \in Node \cup {NULL}
        BY DEF FreeNodes
      <4>2. ASSUME NEW x \in S PROVE copy(x) \in XmlRecord
        <5>1. Blank(h[x].type) \in XmlRecord
          BY <1>1, BlankTyped DEF Heap, XmlRecord
        <5> HIDE DEF image
        <5> QED BY <4>1, <5>1 DEF XmlRecord, Cell
      <4>3. g[m] = IF \E x \in S : f[x] = m THEN copy(CHOOSE x \in S : f[x] = m) ELSE h[m]
        BY DEF CopyNode
      <4> HIDE DEF copy, g
      <4> QED BY <1>1, <4>2, <4>3, Fields
    <3> QED BY <3>2 DEF CopyNode, Heap
  <2> HIDE DEF g, image
  <2>3. /\ \A x : x \in S => image(x) = f[x]
        /\ \A x : x \notin S => image(x) = NULL
    BY DEF image
  <2>4. \A x \in S : f[x] \in Node /\ f[x] \in Cell /\ f[x] \notin InUse(h) /\ f[x] # NULL
                     /\ f[x] \notin Doc
    BY <1>1, CellsDistinct DEF FreeNodes, Cell
  <2>5. InUse(g) = InUse(h) \cup new
    <3>1. \A x \in S : h[x].type # "free"
      BY <1>1 DEF InUse
    <3> QED BY <2>1, <2>4, <3>1 DEF InUse
  <2>6. ASSUME NEW x \in InUse(h)
        PROVE  /\ g[x] = h[x]
               /\ h[x].parent = NULL \/ h[x].parent \in InUse(h)
               /\ h[x].doc = NULL \/ h[x].doc \in InUse(h)
               /\ h[x].next = NULL \/ h[x].next \in InUse(h)
               /\ h[x].prev = NULL \/ h[x].prev \in InUse(h)
               /\ h[x].children = NULL \/ h[x].children \in InUse(h)
               /\ h[x].last = NULL \/ h[x].last \in InUse(h)
    BY <1>1, <2>1, <2>4, ForestFields DEF InUse
  <2>7. ASSUME NEW x \in S
        PROVE  /\ x \in InUse(h) /\ NULL \notin S
               /\ h[x].children = NULL \/ h[x].children \in S
               /\ h[x].last = NULL \/ h[x].last \in S
               /\ x # n => /\ h[x].parent \in S
                           /\ h[x].next = NULL \/ h[x].next \in S
                           /\ h[x].prev = NULL \/ h[x].prev \in S
               /\ x = n => h[x].parent \notin S /\ h[x].next \notin S /\ h[x].prev \notin S
    <3>1. x \in InUse(h) /\ NULL \notin S
      BY <1>1 DEF InUse
    <3>2. S = {n} \cup Below(h, n) /\ n \notin Below(h, n) /\ h[n].parent \notin S
      BY <1>1, <1>3, TopOutside DEF Subtree
    <3> QED BY <1>1, <1>3, <3>1, <3>2, SubtreeSiblings, SubtreeUp
  <2>8. ASSUME NEW x \in S
        PROVE  /\ h[x].children # NULL => h[h[x].children].parent = x /\ h[h[x].children].prev = NULL
               /\ h[x].last # NULL => h[h[x].last].parent = x /\ h[h[x].last].next = NULL
               /\ (h[x].children = NULL) <=> (h[x].last = NULL)
               /\ h[x].next # NULL => h[h[x].next].prev = x /\ h[h[x].next].parent = h[x].parent
               /\ h[x].prev # NULL => h[h[x].prev].next = x /\ h[h[x].prev].parent = h[x].parent
               /\ h[x].parent # NULL => /\ h[x].prev = NULL => h[h[x].parent].children = x
                                        /\ h[x].next = NULL => h[h[x].parent].last = x
               /\ h[x].parent = NULL => h[x].next = NULL /\ h[x].prev = NULL
    BY <1>1, <2>7 DEF Forest, LinkedAt
  <2>9. ASSUME NEW x \in InUse(g) PROVE LinkedAt(g, x)
    <3>1. CASE x \in InUse(h)
      <4>1. LinkedAt(h, x)
        BY <1>1, <3>1 DEF Forest
      <4>2. Links(g, x) \subseteq InUse(g)
        BY <2>5, <2>6, <3>1 DEF Links
      <4> HIDE DEF Links
      <4> QED BY <2>6, <3>1, <4>1, <4>2 DEF LinkedAt
    <3>2. ASSUME NEW y \in S, x = f[y] PROVE LinkedAt(g, x)
      <4>1. Links(g, x) \subseteq InUse(g)
        BY <2>1, <2>3, <2>5, <3>2 DEF Links
      <4>2. x \notin Doc
        BY <2>4, <3>2
      <4>3. /\ g[x].children # NULL => g[g[x].children].parent = x /\ g[g[x].children].prev = NULL
            /\ g[x].last # NULL => g[g[x].last].parent = x /\ g[g[x].last].next = NULL
        BY <2>1, <2>3, <2>4, <2>7, <2>8, <3>2
      <4>4. (g[x].children = NULL) <=> (g[x].last = NULL)
        BY <2>1, <2>3, <2>4, <2>7, <2>8, <3>2
      <4>5. /\ g[x].next # NULL => g[g[x].next].prev = x /\ g[g[x].next].parent = g[x].parent
            /\ g[x].prev # NULL => g[g[x].prev].next = x /\ g[g[x].prev].parent = g[x].parent
        BY <2>1, <2>3, <2>4, <2>7, <2>8, <3>2
      <4>6. g[x].parent # NULL => /\ g[x].prev = NULL => g[g[x].parent].children = x
                                  /\ g[x].next = NULL => g[g[x].parent].last = x
        BY <2>1, <2>3, <2>4, <2>7, <2>8, <3>2
      <4>7. g[x].parent = NULL => g[x].next = NULL /\ g[x].prev = NULL
        BY <2>1, <2>3, <2>4, <2>7, <2>8, <3>2
      <4> HIDE DEF Links
      <4> QED BY <4>1, <4>2, <4>3, <4>4, <4>5, <4>6, <4>7 DEF LinkedAt
    <3> QED BY <2>5, <3>1, <3>2
  <2>10. Grounded(g) /\ Ordered(g)
    <3> SUFFICES ASSUME NEW T \in SUBSET InUse(g), T # {}
                 PROVE  /\ \E x \in T : g[x].parent \notin T
                        /\ \E x \in T : g[x].prev \notin T
      BY DEF Grounded, Ordered
    <3> DEFINE A == T \cap InUse(h)
               B == {x \in S : f[x] \in T}
    <3>0. NULL \notin T /\ A \in SUBSET InUse(h) /\ B \in SUBSET InUse(h)
      BY <1>1 DEF InUse
    <3>1. CASE A # {}
      <4> HIDE DEF A
      <4>1. (\E x \in A : h[x].parent \notin A) /\ (\E x \in A : h[x].prev \notin A)
        BY <1>1, <3>0, <3>1 DEF Forest, Grounded, Ordered
      <4> QED BY <2>6, <3>0, <4>1 DEF A
    <3>2. CASE A = {}
      <4>1. B # {}
        BY <2>5, <3>2
      <4> HIDE DEF B
      <4>2. (\E x \in B : h[x].parent \notin B) /\ (\E x \in B : h[x].prev \notin B)
        BY <1>1, <3>0, <4>1 DEF Forest, Grounded, Ordered
      <4> QED BY <2>1, <2>3, <3>0, <4>2 DEF B
    <3> QED BY <3>1, <3>2
  <2>11. ASSUME NEW x \in InUse(g) \cap Node PROVE DocRight(g, x)
    <3>1. CASE x \in InUse(h)
      BY <2>6, <3>1 DEF DocRight, DocUnder, Trees
    <3>2. ASSUME NEW y \in S, x = f[y] PROVE DocRight(g, x)
      BY <2>1, <2>3, <2>4, <3>2 DEF DocRight, DocUnder
    <3> QED BY <2>5, <3>1, <3>2
  <2>12. ASSUME NEW x \in InUse(g), g[x].parent = NULL
         PROVE  x = f[n] \/ (x \in InUse(h) /\ h[x].parent = NULL)
    <3>1. CASE x \in InUse(h)
      BY <2>6, <2>12, <3>1
    <3>2. ASSUME NEW y \in S, x = f[y] PROVE y = n
      BY <2>1, <2>3, <2>4, <2>7, <2>12, <3>2
    <3> QED BY <2>5, <3>1, <3>2
  <2>13. f[n] \in InUse(g)
    BY <1>1, <2>5
  <2> QED BY <2>2, <2>9, <2>10, <2>11, <2>12, <2>13 DEF Trees, Forest, g
<1> QED BY <1>2, <1>3

-----------------------------------------------------------------------------
(* The tops of the trees.                                                  *)

\* The walk of parent pointers, by one step.
LEMMA AncestorsSteps ==
  ASSUME NEW h \in Heap, NEW c \in Cell
  PROVE  /\ c \in Ancestors(h, c) /\ Ancestors(h, c) \subseteq Cell
         /\ \A x \in Ancestors(h, c) : h[x].parent # NULL => h[x].parent \in Ancestors(h, c)
<1> DEFINE succ == [x \in Cell |-> {h[x].parent} \ {NULL}]
           A == Closure({c}, succ)
<1>1. Ancestors(h, c) = A
  BY DEF Ancestors
<1>2. ASSUME NEW x \in Cell, h[x].parent # NULL
      PROVE  h[x].parent \in Cell /\ h[x].parent \in succ[x]
  BY <1>2, Fields
<1> HIDE DEF succ
<1>3. c \in A /\ A \subseteq Cell
  BY ClosureSeed
<1>4. ASSUME NEW x \in A, h[x].parent # NULL PROVE h[x].parent \in A
  BY <1>2, <1>3, <1>4, ClosureClosed
<1> QED BY <1>1, <1>3, <1>4

\* A set that has the parents of what is in it has all their ancestors.
LEMMA AncestorsLeast ==
  ASSUME NEW h \in Heap, NEW T \in SUBSET Cell, NEW c \in T,
         \A x \in T : h[x].parent # NULL => h[x].parent \in T
  PROVE  Ancestors(h, c) \subseteq T
<1> DEFINE succ == [x \in Cell |-> {h[x].parent} \ {NULL}]
<1>1. Ancestors(h, c) = Closure({c}, succ) /\ \A x \in T : succ[x] \subseteq T
  BY DEF Ancestors
<1> HIDE DEF succ
<1> QED BY <1>1, ClosureLeast

\* The ancestors of a structure are itself and those of its parent.
LEMMA AncestorsUp ==
  ASSUME NEW h, Forest(h), NEW c \in InUse(h)
  PROVE  /\ Ancestors(h, c) \subseteq InUse(h)
         /\ h[c].parent = NULL => Ancestors(h, c) = {c}
         /\ h[c].parent # NULL => Ancestors(h, c) = {c} \cup Ancestors(h, h[c].parent)
<1>1. h \in Heap /\ c \in Cell /\ InUse(h) \in SUBSET Cell /\ {c} \in SUBSET Cell
  BY DEF Forest, InUse
<1>2. Ancestors(h, c) \subseteq InUse(h)
  <2>1. \A x \in InUse(h) : h[x].parent # NULL => h[x].parent \in InUse(h)
    BY ForestFields
  <2> QED BY <1>1, <2>1, AncestorsLeast
<1>3. CASE h[c].parent = NULL
  <2>1. Ancestors(h, c) \subseteq {c}
    BY <1>1, <1>3, AncestorsLeast
  <2> QED BY <1>1, <1>2, <1>3, <2>1, AncestorsSteps
<1>4. CASE h[c].parent # NULL
  <2> DEFINE p == h[c].parent
             A == Ancestors(h, c)
             B == Ancestors(h, p)
             T == {c} \cup B
  <2>1. p \in Cell
    BY <1>4, ForestFields DEF InUse
  <2> HIDE DEF p
  <2>2. /\ p \in B /\ B \subseteq Cell /\ c \in A /\ A \subseteq Cell
        /\ \A x \in A : h[x].parent # NULL => h[x].parent \in A
        /\ \A x \in B : h[x].parent # NULL => h[x].parent \in B
    BY <1>1, <2>1, AncestorsSteps
  <2>3. p \in A
    BY <1>4, <2>2 DEF p
  <2> HIDE DEF A, B
  <2>4. T \in SUBSET Cell /\ c \in T /\ \A x \in T : h[x].parent # NULL => h[x].parent \in T
    BY <1>1, <2>2 DEF p
  <2> HIDE DEF T
  <2>5. A \subseteq T
    BY <1>1, <2>4, AncestorsLeast DEF A
  <2>6. B \subseteq A
    <3>1. A \in SUBSET Cell
      BY <2>2
    <3> QED BY <1>1, <2>2, <2>3, <3>1, AncestorsLeast DEF B
  <2> QED BY <1>2, <1>4, <2>2, <2>5, <2>6 DEF A, B, T, p
<1> QED BY <1>2, <1>3, <1>4

\* Every walk upwards ends, at the one top of the tree.
LEMMA Tops ==
  ASSUME NEW h, Forest(h), NEW c \in InUse(h)
  PROVE  /\ HasTop(h, c) /\ Top(h, c) \in InUse(h) /\ h[Top(h, c)].parent = NULL
         /\ h[c].parent = NULL => Top(h, c) = c
         /\ h[c].parent # NULL => Top(h, c) = Top(h, h[c].parent)
<1> DEFINE ends(x) == {t \in Ancestors(h, x) : h[t].parent = NULL}
           S == {x \in InUse(h) : \A t : ends(x) # {t}}
<1>1. \A x \in InUse(h) :
         /\ h[x].parent = NULL => ends(x) = {x}
         /\ h[x].parent # NULL => h[x].parent \in InUse(h) /\ ends(x) = ends(h[x].parent)
  BY AncestorsUp, ForestFields
<1>2. \A x : ends(x) \subseteq Ancestors(h, x)
  OBVIOUS
<1>3. \A x : Top(h, x) = CHOOSE t \in ends(x) : TRUE
  <2> SUFFICES ASSUME NEW x PROVE Top(h, x) = CHOOSE t \in ends(x) : TRUE
    OBVIOUS
  <2>1. \A t : (t \in Ancestors(h, x) /\ h[t].parent = NULL) <=> t \in ends(x)
    OBVIOUS
  <2> QED BY <2>1 DEF Top
<1>4. \A x, t : ends(x) = {t} => t \in Ancestors(h, x) /\ h[t].parent = NULL
  OBVIOUS
<1> HIDE DEF ends
<1>5. S = {}
  <2> SUFFICES ASSUME S # {} PROVE FALSE
    OBVIOUS
  <2>1. S \in SUBSET InUse(h)
    OBVIOUS
  <2>2. \A x \in S : (\A t : ends(x) # {t}) /\ x \in InUse(h)
    OBVIOUS
  <2>3. \A x \in InUse(h) \ S : \E t : ends(x) = {t}
    OBVIOUS
  <2> HIDE DEF S
  <2>4. PICK x \in S : h[x].parent \notin S
    BY <2>1 DEF Forest, Grounded
  <2>5. x \in InUse(h) /\ \A t : ends(x) # {t}
    BY <2>2
  <2>6. h[x].parent \in InUse(h) \ S /\ ends(x) = ends(h[x].parent)
    BY <1>1, <2>4, <2>5
  <2>7. PICK t : ends(h[x].parent) = {t}
    BY <2>3, <2>6
  <2> QED BY <2>5, <2>6, <2>7
<1>6. PICK t : ends(c) = {t}
  BY <1>5
<1>7. Top(h, c) = t
  BY <1>3, <1>6
<1>8. h[c].parent # NULL => Top(h, c) = Top(h, h[c].parent)
  BY <1>1, <1>3
<1>9. h[c].parent = NULL => Top(h, c) = c
  BY <1>1, <1>6, <1>7
<1>10. t \in Ancestors(h, c) /\ h[t].parent = NULL /\ t \in InUse(h)
  BY <1>4, <1>6, AncestorsUp
<1> QED BY <1>7, <1>8, <1>9, <1>10 DEF HasTop

\* The tree of a top is what has it as its top.
LEMMA TopSubtree ==
  ASSUME NEW h, Forest(h), NEW c \in InUse(h), h[c].parent = NULL, NEW x \in InUse(h)
  PROVE  x \in Subtree(h, c) <=> Top(h, x) = c
<1> DEFINE S == {y \in InUse(h) : ~(y \in Subtree(h, c) <=> Top(h, y) = c)}
<1>1. SUFFICES ASSUME S # {} PROVE FALSE
  OBVIOUS
<1>2. S \in SUBSET InUse(h)
  OBVIOUS
<1>3. PICK y \in S : h[y].parent \notin S
  <2> HIDE DEF S
  <2> QED BY <1>1, <1>2 DEF Forest, Grounded
<1>4. y \in InUse(h) /\ ~(y \in Subtree(h, c) <=> Top(h, y) = c)
  OBVIOUS
<1>5. /\ Subtree(h, c) = {c} \cup Below(h, c)
      /\ Subtree(h, c) \subseteq InUse(h) /\ NULL \notin InUse(h)
      /\ y \in Below(h, c) <=> h[y].parent \in Subtree(h, c)
  BY <1>4, CellsDistinct, SubtreeUp, SubtreeDown DEF Subtree, InUse, Cell
<1>6. CASE h[y].parent = NULL
  BY <1>4, <1>5, <1>6, Tops
<1>7. CASE h[y].parent # NULL
  <2>1. h[y].parent \in InUse(h) /\ Top(h, y) = Top(h, h[y].parent) /\ y # c
    BY <1>4, <1>7, Tops, ForestFields
  <2>2. h[y].parent \in Subtree(h, c) <=> Top(h, h[y].parent) = c
    BY <1>3, <2>1
  <2> QED BY <1>4, <1>5, <2>1, <2>2
<1> QED BY <1>6, <1>7

\* The doc pointers name the tops.
LEMMA DocOfTop ==
  ASSUME NEW h, Trees(h), NEW n \in InUse(h) \cap Node
  PROVE  h[n].doc = IF Top(h, n) \in Doc THEN Top(h, n) ELSE NULL
<1> DEFINE S == {y \in InUse(h) \cap Node :
                   h[y].doc # IF Top(h, y) \in Doc THEN Top(h, y) ELSE NULL}
<1>1. SUFFICES ASSUME S # {} PROVE FALSE
  OBVIOUS
<1>2. S \in SUBSET InUse(h) /\ Forest(h)
  BY DEF Trees
<1>3. PICK y \in S : h[y].parent \notin S
  <2> HIDE DEF S
  <2> QED BY <1>1, <1>2 DEF Forest, Grounded
<1>4. /\ y \in InUse(h) \cap Node /\ y \notin Doc /\ DocRight(h, y)
      /\ h[y].doc # IF Top(h, y) \in Doc THEN Top(h, y) ELSE NULL
  BY CellsDistinct DEF Trees
<1>5. CASE h[y].parent = NULL
  BY <1>2, <1>4, <1>5, Tops DEF DocRight, DocUnder
<1>6. CASE h[y].parent # NULL
  <2> DEFINE p == h[y].parent
  <2>1. p \in InUse(h) /\ Top(h, y) = Top(h, p) /\ p # NULL /\ h[y].doc = DocUnder(h, p)
    BY <1>2, <1>4, <1>6, Tops, ForestFields DEF DocRight
  <2>2. p \notin S
    BY <1>3
  <2>3. CASE p \in Doc
    <3>1. h[p].parent = NULL
      BY <1>2, <2>1, <2>3 DEF Forest, LinkedAt
    <3>2. Top(h, p) = p
      BY <1>2, <2>1, <3>1, Tops
    <3> QED BY <1>4, <2>1, <2>3, <3>2 DEF DocUnder
  <2>4. CASE p \notin Doc
    <3>1. p \in InUse(h) \cap Node
      BY <2>1, <2>4 DEF InUse, Cell
    <3>2. h[p].doc = IF Top(h, p) \in Doc THEN Top(h, p) ELSE NULL
      BY <2>2, <3>1
    <3> QED BY <1>4, <2>1, <2>4, <3>2 DEF DocUnder
  <2> QED BY <2>3, <2>4
<1> QED BY <1>5, <1>6

\* A structure whose doc pointer names d is in the tree of d.
LEMMA DocBelow ==
  ASSUME NEW h, Trees(h), NEW n \in InUse(h), h[n].doc # NULL
  PROVE  /\ n \in Node /\ Top(h, n) = h[n].doc /\ h[n].doc \in InUse(h) \cap Doc
         /\ h[h[n].doc].parent = NULL /\ n \in Subtree(h, h[n].doc)
<1>1. Forest(h) /\ n \in Cell
  BY DEF Trees, InUse
<1>2. n \in Node
  <2>1. n \in Doc => h[n].doc = NULL
    BY <1>1 DEF Forest, LinkedAt
  <2> QED BY <1>1, <2>1 DEF Cell
<1>3. Top(h, n) = h[n].doc /\ h[n].doc \in Doc
  BY <1>2, DocOfTop
<1>4. Top(h, n) \in InUse(h) /\ h[Top(h, n)].parent = NULL
  BY <1>1, Tops
<1>5. n \in Subtree(h, Top(h, n))
  BY <1>1, <1>4, TopSubtree
<1> QED BY <1>2, <1>3, <1>4, <1>5

\* What stays in place keeps its top.
LEMMA TopsKept ==
  ASSUME NEW h, Forest(h), NEW g, Forest(g), InUse(g) \subseteq InUse(h),
         \A x \in InUse(g) : g[x].parent = h[x].parent,
         NEW c \in InUse(g)
  PROVE  Top(g, c) = Top(h, c)
<1> DEFINE S == {y \in InUse(g) : Top(g, y) # Top(h, y)}
<1>1. SUFFICES ASSUME S # {} PROVE FALSE
  OBVIOUS
<1>2. S \in SUBSET InUse(g)
  OBVIOUS
<1>3. PICK y \in S : g[y].parent \notin S
  <2> HIDE DEF S
  <2> QED BY <1>1, <1>2 DEF Forest, Grounded
<1>4. y \in InUse(g) /\ y \in InUse(h) /\ Top(g, y) # Top(h, y) /\ g[y].parent = h[y].parent
  OBVIOUS
<1>5. CASE g[y].parent = NULL
  BY <1>4, <1>5, Tops
<1>6. CASE g[y].parent # NULL
  <2>1. g[y].parent \in InUse(g)
    BY <1>4, <1>6, ForestFields
  <2>2. Top(g, g[y].parent) = Top(h, g[y].parent)
    BY <1>3, <2>1
  <2>3. Top(g, y) = Top(g, g[y].parent) /\ Top(h, y) = Top(h, h[y].parent)
    BY <1>4, <1>6, Tops
  <2> QED BY <1>4, <2>2, <2>3
<1> QED BY <1>5, <1>6

\* The trees do not depend on what the structures are bound to.
LEMMA SameTrees ==
  ASSUME NEW h, Trees(h), NEW g \in Heap,
         \A x \in Cell : /\ g[x].parent = h[x].parent /\ g[x].doc = h[x].doc
                         /\ g[x].next = h[x].next /\ g[x].prev = h[x].prev
                         /\ g[x].children = h[x].children /\ g[x].last = h[x].last
                         /\ g[x].type = h[x].type
  PROVE  /\ Trees(g) /\ InUse(g) = InUse(h)
         /\ \A c \in InUse(h) : Top(g, c) = Top(h, c)
<1>1. InUse(g) = InUse(h) /\ Forest(h)
  BY DEF InUse, Trees
<1>2. ASSUME NEW x \in InUse(h)
      PROVE  /\ x \in Cell /\ NULL \notin Cell
             /\ h[x].parent = NULL \/ h[x].parent \in Cell
             /\ h[x].next = NULL \/ h[x].next \in Cell
             /\ h[x].prev = NULL \/ h[x].prev \in Cell
             /\ h[x].children = NULL \/ h[x].children \in Cell
             /\ h[x].last = NULL \/ h[x].last \in Cell
  BY <1>1, ForestFields DEF InUse
<1>3. ASSUME NEW x \in InUse(g) PROVE LinkedAt(g, x)
  <2>1. LinkedAt(h, x) /\ Links(g, x) = Links(h, x)
    BY <1>1, <1>2 DEF Forest, Links
  <2> HIDE DEF Links
  <2> QED BY <1>1, <1>2, <2>1 DEF LinkedAt
<1>4. Grounded(g) /\ Ordered(g)
  <2> SUFFICES ASSUME NEW S \in SUBSET InUse(g), S # {}
               PROVE  /\ \E c \in S : g[c].parent \notin S
                      /\ \E c \in S : g[c].prev \notin S
    BY DEF Grounded, Ordered
  <2>1. (\E c \in S : h[c].parent \notin S) /\ (\E c \in S : h[c].prev \notin S)
    BY <1>1 DEF Forest, Grounded, Ordered
  <2>2. S \subseteq Cell
    BY DEF InUse
  <2> QED BY <2>1, <2>2
<1>5. ASSUME NEW x \in InUse(g) \cap Node PROVE DocRight(g, x)
  <2>1. DocRight(h, x) /\ x \in InUse(h)
    BY <1>1 DEF Trees
  <2> QED BY <1>2, <2>1 DEF DocRight, DocUnder
<1>6. Forest(g)
  BY <1>3, <1>4 DEF Forest
<1>7. \A c \in InUse(h) : Top(g, c) = Top(h, c)
  <2>1. \A x \in InUse(g) : g[x].parent = h[x].parent
    BY DEF InUse
  <2> QED BY <1>1, <1>6, <2>1, TopsKept
<1> QED BY <1>1, <1>5, <1>6, <1>7 DEF Trees

-----------------------------------------------------------------------------
(* What walking a forest promises.                                         *)

\* All a walk along siblings reaches is in use and has the same parent.
LEMMA NextWalk ==
  ASSUME NEW h, Forest(h), NEW n \in InUse(h),
         NEW l \in Closure({n}, [x \in Cell |-> {h[x].next} \ {NULL}])
  PROVE  l \in InUse(h) /\ h[l].parent = h[n].parent
<1> DEFINE succ == [x \in Cell |-> {h[x].next} \ {NULL}]
           T == {y \in InUse(h) : h[y].parent = h[n].parent}
<1>1. T \in SUBSET Cell /\ {n} \subseteq T
  BY DEF InUse
<1>2. ASSUME NEW y \in T PROVE succ[y] \subseteq T
  <2>1. h[y].next # NULL => h[y].next \in InUse(h) /\ h[h[y].next].parent = h[y].parent
    BY ForestFields DEF Forest, LinkedAt
  <2> QED BY <1>1, <2>1
<1> HIDE DEF succ
<1>3. Closure({n}, succ) \subseteq T
  <2> HIDE DEF T
  <2> QED BY <1>1, <1>2, ClosureLeast
<1> QED BY <1>3 DEF succ

\* The walks of the queries stay in use.
LEMMA WalksInUse ==
  ASSUME NEW h, Forest(h), NEW n \in InUse(h)
  PROVE  /\ Subtree(h, n) \subseteq InUse(h) /\ Ancestors(h, n) \subseteq InUse(h)
         /\ Siblings(h, n) \subseteq InUse(h)
         /\ Closure({n}, [x \in Cell |-> {h[x].prev} \ {NULL}]) \subseteq InUse(h)
         /\ h[n].parent = NULL \/ h[n].parent \in InUse(h)
         /\ h[n].doc = NULL \/ h[n].doc \in InUse(h)
<1> DEFINE next == [x \in Cell |-> {h[x].next} \ {NULL}]
           prev == [x \in Cell |-> {h[x].prev} \ {NULL}]
           first == {h[n].children} \ {NULL}
           T == InUse(h)
<1>1. T \in SUBSET Cell /\ first \subseteq T /\ {n} \subseteq T
  BY ForestFields DEF InUse
<1>2. \A y \in T : next[y] \subseteq T /\ prev[y] \subseteq T
  BY <1>1, ForestFields
<1>3. Siblings(h, n) = Closure(first, next)
  BY DEF Siblings
<1> HIDE DEF next, prev, first, T
<1>4. Closure(first, next) \subseteq T /\ Closure({n}, prev) \subseteq T
  BY <1>1, <1>2, ClosureLeast
<1> QED BY <1>3, <1>4, SubtreeUp, AncestorsUp, ForestFields DEF prev, T

\* The sibling and parent pointers of a forest agree.
LEMMA ForestLinkedInPlace ==
  ASSUME NEW h, Forest(h), NEW n \in InUse(h)
  PROVE  LinkedInPlace(h, n)
<1>1. n \notin Below(h, n) /\ n # NULL
  BY TopOutside, ForestFields DEF Forest
<1>2. LinkedAt(h, n)
  BY DEF Forest
<1>3. h[n].parent # NULL => h[n].parent \in InUse(h) /\ LinkedAt(h, h[n].parent)
  BY ForestFields DEF Forest
<1>4. /\ h[n].next # NULL => h[h[n].next].prev = n /\ h[h[n].next].parent = h[n].parent
      /\ h[n].prev # NULL => h[h[n].prev].next = n /\ h[h[n].prev].parent = h[n].parent
      /\ h[n].parent = NULL => h[n].next = NULL /\ h[n].prev = NULL
  BY <1>2 DEF LinkedAt
<1>5. h[n].parent # NULL => /\ (h[n].prev = NULL) <=> (h[h[n].parent].children = n)
                            /\ (h[n].next = NULL) <=> (h[h[n].parent].last = n)
  BY <1>1, <1>2, <1>3, SMTT(30) DEF LinkedAt
<1> QED BY <1>1, <1>4, <1>5 DEF LinkedInPlace
=============================================================================
