-------------------------- MODULE Companions_proofs --------------------------
(***************************************************************************)
(* Proofs about what runs beside NodeMemory, for any number of structures, *)
(* objects, contexts, results, attributes and namespaces: Node#each        *)
(* (NodeEach), XPath searches (XPathMemory), attributes (AttrMemory) and   *)
(* namespaces (NsMemory).  All rest on what NodeMemory_proofs shows of one *)
(* step of NodeMemory; the lemmas that come first say what such a step     *)
(* leaves as it was.                                                       *)
(***************************************************************************)
EXTENDS NodeMemory_proofs, NodeEach, XPathMemory, AttrMemory, NsMemory, FiniteSetTheorems

\* Wrapping a structure touches its _private field, the slot of the new
\* wrapper, and nothing else.
LEMMA WrapFrame ==
  ASSUME NEW h \in Heap, NEW r, NEW c, NEW class, Wrap(h, r, c, class)
  PROVE  /\ \A x \in Cell : /\ xml'[x].type = h[x].type /\ xml'[x].parent = h[x].parent
                            /\ xml'[x].doc = h[x].doc
                            /\ h[x].private # NULL => xml'[x].private = h[x].private
         /\ \A p : r[p] # NoObject => ruby'[p] = r[p]
         /\ held \subseteq held'
<1>1. c \in Cell /\ c \in InUse(h)
  BY DEF Wrap, InUse
<1>2. CASE h[c].private # NULL
  BY <1>2 DEF Wrap
<1>3. CASE h[c].private = NULL
  <2>1. PICK o \in Object : /\ r[o] = NoObject
                            /\ xml' = [h EXCEPT ![c].private = o]
                            /\ ruby' = [r EXCEPT ![o] = [class |-> class, ptr |-> c]]
                            /\ held' = held \cup {o}
    BY <1>3 DEF Wrap
  <2>2. h[c] \in XmlRecord
    BY <1>1 DEF Heap
  <2>3. ASSUME NEW x \in Cell
        PROVE  /\ xml'[x].type = h[x].type /\ xml'[x].parent = h[x].parent
               /\ xml'[x].doc = h[x].doc
               /\ h[x].private # NULL => xml'[x].private = h[x].private
    BY <1>1, <1>3, <2>1, <2>2 DEF Heap, XmlRecord
  <2>4. \A p : r[p] # NoObject => ruby'[p] = r[p]
    BY <2>1
  <2> QED BY <2>1, <2>3, <2>4
<1> QED BY <1>2, <1>3

\* What a step that retrieves something leaves as it was.
Kept == /\ \A x \in InUse(xml) : /\ x \in InUse(xml') /\ xml'[x].parent = xml[x].parent
                                 /\ xml'[x].doc = xml[x].doc
                                 /\ xml[x].private # NULL => xml'[x].private = xml[x].private
        /\ \A p \in held : p \in held' /\ ruby'[p] = ruby[p]
        /\ garbage = {} /\ garbage' = {}

\* Making a node and retrieving one leave what there was as it was.
LEMMA MakeKeeps ==
  ASSUME IInv, Make
  PROVE  Kept
<1>1. PICK h, c, class : Wrapped(h, c, class)
  BY MakeWraps
<1>2. /\ h \in Heap /\ Wrap(h, ruby, c, class) /\ garbage = {} /\ garbage' = {}
      /\ \A x \in InUse(xml) : h[x] = xml[x] /\ x \in Cell
  BY <1>1 DEF Wrapped, Rebound, Running, Grown, InUse
<1>3. /\ \A x \in Cell : /\ xml'[x].type = h[x].type /\ xml'[x].parent = h[x].parent
                         /\ xml'[x].doc = h[x].doc
                         /\ h[x].private # NULL => xml'[x].private = h[x].private
      /\ \A p : ruby[p] # NoObject => ruby'[p] = ruby[p]
      /\ held \subseteq held'
  BY <1>2, WrapFrame
<1>4. \A p \in held : ruby[p] # NoObject
  BY DEF IInv, LiveIn, NoObject
<1>5. \A x \in InUse(xml) : x \in InUse(xml')
  BY <1>2, <1>3 DEF InUse
<1> QED BY <1>2, <1>3, <1>4, <1>5 DEF Kept

\* Retrieving one structure leaves what there was, and both invariants.
LEMMA FollowKeeps ==
  ASSUME IInv, Running, NEW c, Follow(c)
  PROVE  Kept /\ IInv' /\ (TInv => TInv')
<1>1. xml \in Heap /\ Wrap(xml, ruby, c, "Node") /\ garbage = {} /\ garbage' = {}
  BY DEF IInv, Consistent, Follow, node_wrap, Running
<1>2. /\ \A x \in Cell : /\ xml'[x].type = xml[x].type /\ xml'[x].parent = xml[x].parent
                         /\ xml'[x].doc = xml[x].doc
                         /\ xml[x].private # NULL => xml'[x].private = xml[x].private
      /\ \A p : ruby[p] # NoObject => ruby'[p] = ruby[p]
      /\ held \subseteq held'
  BY <1>1, WrapFrame
<1>3. \A p \in held : ruby[p] # NoObject
  BY DEF IInv, LiveIn, NoObject
<1>4. \A x \in InUse(xml) : x \in Cell /\ x \in InUse(xml')
  BY <1>2 DEF InUse
<1>5. Kept
  BY <1>1, <1>2, <1>3, <1>4 DEF Kept
<1>6. Rebound(xml, xml, {}) /\ SameDocs(xml, xml) /\ Grown(xml, xml)
  BY DEF Rebound, IInv, Consistent, SameDocs, Grown
<1>7. IInv'
  BY <1>1, <1>6, NewWrapped DEF Wrapped, SameDocs
<1>8. TInv => TInv'
  BY <1>1, WrapKeepsTrees, RunningTInv DEF TInv, HeldTrees, RootsBound
<1> QED BY <1>5, <1>7, <1>8

\* The getters leave what there was as it was.
LEMMA MoveKeeps ==
  ASSUME IInv, Move
  PROVE  Kept
<1>1. PICK o \in held :
        \/ first_get(o) \/ last_get(o) \/ next_get(o) \/ prev_get(o) \/ parent_get(o)
        \/ document_child_get(o) \/ document_last_get(o) \/ document_root_get(o)
        \/ node_doc(o)
  BY DEF Move
<1>2. CASE node_doc(o)
  BY <1>2 DEF node_doc, Kept, Running
<1> QED
  BY <1>1, <1>2, FollowKeeps DEF first_get, last_get, next_get, prev_get, parent_get,
       document_child_get, document_last_get, document_root_get

\* An edit forgets nothing that is held, and frees no document.
LEMMA EditKeeps ==
  ASSUME IInv, Edit
  PROVE  /\ held \subseteq held' /\ garbage = {} /\ garbage' = {}
         /\ \A d \in Doc \cap InUse(xml) :
              d \in InUse(xml') /\ xml'[d].private = xml[d].private
<1>1. ASSUME NEW dead, dead \subseteq Node, Rebound(xml, xml', dead)
      PROVE  \A d \in Doc \cap InUse(xml) :
               d \in InUse(xml') /\ xml'[d].private = xml[d].private
  BY <1>1, CellsDistinct DEF Rebound, IInv, DocsBound, FreeIsUnbound, InUse, Cell
<1>2. CASE Finishes
  <2>1. PICK e : Harmless(xml, e) /\ Running /\ Finish(e)
    BY <1>2 DEF Finishes
  <2> DEFINE r == deregisterNode(xml, ruby, e.dead)
  <2>2. \A d \in Doc \cap InUse(xml) :
          /\ d \in Cell /\ e.heap[d].private = xml[d].private /\ xml[d].private # NULL
          /\ e.heap[d].type # "free"
    BY <2>1, CellsDistinct DEF Harmless, Rebound, IInv, DocsBound, FreeIsUnbound, InUse, Cell
  <2>3. e.heap \in Heap
    BY <2>1 DEF Harmless, Rebound
  <2>4. CASE xml' = e.heap /\ UNCHANGED held
    BY <2>1, <2>2, <2>4 DEF Running, InUse
  <2>5. CASE node_wrap(e.heap, r, e.ret)
    <3> HIDE DEF r
    <3>1. /\ \A x \in Cell : /\ xml'[x].type = e.heap[x].type
                             /\ e.heap[x].private # NULL => xml'[x].private = e.heap[x].private
          /\ held \subseteq held'
      BY <2>3, <2>5, WrapFrame DEF node_wrap
    <3> QED BY <2>1, <2>2, <3>1 DEF Running, InUse
  <2> QED BY <2>1, <2>4, <2>5 DEF Finish
<1>3. ASSUME NEW o, NEW c, content_add(o, c)
      PROVE  held = held' /\ Running /\ Rebound(xml, xml', {})
  BY <1>3, ContentAddRebinds DEF content_add
<1>4. ASSUME NEW o, NEW c, content_set(o, c)
      PROVE  held = held' /\ Running /\ \E dead : dead \subseteq Node /\ Rebound(xml, xml', dead)
  <2>1. X(o) \in Node /\ xml \in Heap /\ FreeIsUnbound(xml)
    BY <1>4, ReceiverInUse DEF content_set, IInv, Consistent
  <2>2. Harmless(xml, NodeSetContent(xml, X(o), c))
    BY <1>4, <2>1, NodeSetContentHarmless DEF content_set
  <2> QED BY <1>4, <2>2 DEF content_set, Harmless
<1>5. ASSUME NEW o, remove_ex(o)
      PROVE  held = held' /\ Running /\ Rebound(xml, xml', {})
  BY <1>5, RemoveRebinds DEF remove_ex
<1>6. CASE \E o, c : content_add(o, c) \/ content_set(o, c)
  BY <1>1, <1>3, <1>4, <1>6 DEF Running
<1>7. CASE \E o : remove_ex(o)
  BY <1>1, <1>5, <1>7 DEF Running
<1> QED BY <1>2, <1>6, <1>7, EditFinishes

LEMMA WrapKeepsLinks ==
  ASSUME NEW h \in Heap, NEW r, NEW c, NEW class, Wrap(h, r, c, class)
  PROVE  \A x \in Cell : xml'[x].next = h[x].next /\ xml'[x].children = h[x].children
<1>1. c \in Cell
  BY DEF Wrap, InUse
<1>2. CASE xml' = h
  BY <1>2
<1>3. ASSUME NEW o, xml' = [h EXCEPT ![c].private = o]
      PROVE  \A x \in Cell : xml'[x].next = h[x].next /\ xml'[x].children = h[x].children
  BY <1>1, <1>3 DEF Heap, XmlRecord
<1> QED BY <1>2, <1>3 DEF Wrap

LEMMA FollowKeepsLinks ==
  ASSUME IInv, NEW c, Follow(c)
  PROVE  \A x \in Cell : xml'[x].next = xml[x].next /\ xml'[x].children = xml[x].children
BY WrapKeepsLinks DEF IInv, Consistent, Follow, node_wrap

\* Making a node and retrieving one leave the child lists that there were.
LEMMA MakeKeepsLinks ==
  ASSUME IInv, Make \/ Move
  PROVE  \A x \in InUse(xml) : xml'[x].next = xml[x].next /\ xml'[x].children = xml[x].children
<1>1. InUse(xml) \subseteq Cell
  BY DEF InUse
<1>2. CASE Make
  <2>1. PICK h, c, class : Wrapped(h, c, class)
    BY <1>2, MakeWraps
  <2>2. h \in Heap /\ Wrap(h, ruby, c, class) /\ \A x \in InUse(xml) : h[x] = xml[x]
    BY <2>1 DEF Wrapped, Rebound, Grown
  <2> QED BY <1>1, <2>2, WrapKeepsLinks
<1>3. CASE Move
  <2>1. PICK o \in held :
          \/ first_get(o) \/ last_get(o) \/ next_get(o) \/ prev_get(o) \/ parent_get(o)
          \/ document_child_get(o) \/ document_last_get(o) \/ document_root_get(o)
          \/ node_doc(o)
    BY <1>3 DEF Move
  <2>2. xml' = xml \/ \E c : Follow(c)
    BY <2>1 DEF first_get, last_get, next_get, prev_get, parent_get,
       document_child_get, document_last_get, document_root_get, node_doc
  <2> QED BY <1>1, <2>2, FollowKeepsLinks
<1> QED BY <1>2, <1>3

\* A finalizer leaves the pointers of what it does not free.
LEMMA SweepKeepsFields ==
  ASSUME IInv, NEW o \in Object, sweep(o)
  PROVE  \A x \in InUse(xml') : /\ xml'[x].doc = xml[x].doc /\ xml'[x].next = xml[x].next
                                /\ xml'[x].children = xml[x].children /\ x \in InUse(xml)
<1>1. CASE X(o) = NULL
  BY <1>1 DEF sweep
<1>2. CASE X(o) # NULL
  <2>1. PICK dead : xml' = Finalized(X(o), dead)
    BY <1>2 DEF sweep
  <2>2. X(o) \in Cell /\ xml \in Heap
    BY <1>2, PointerInUse DEF IInv, Consistent
  <2> DEFINE h == [xml EXCEPT ![X(o)].private = NULL]
  <2>3. \A x \in Cell : /\ h[x].doc = xml[x].doc /\ h[x].type = xml[x].type
                        /\ h[x].next = xml[x].next /\ h[x].children = xml[x].children
    BY <2>2 DEF Heap, XmlRecord
  <2>4. xml' = Release(h, dead)
    BY <2>1 DEF Finalized
  <2> HIDE DEF h
  <2>5. \A x \in Cell : xml'[x] = IF x \in dead THEN Blank("free") ELSE h[x]
    BY <2>4 DEF Release
  <2> QED BY <2>3, <2>5 DEF InUse, Blank
<1> QED BY <1>1, <1>2

-----------------------------------------------------------------------------
(* Node#each.                                                              *)

\* While each runs, its receiver is held and has its node, and the child it
\* will go on from is a child of that node.
CursorPlaced ==
  receiver # NULL => /\ IsNode(receiver)
                     /\ xchild \in InUse(xml)
                     /\ xml[xchild].parent = X(receiver)

EachInv == IInv /\ TInv /\ CursorPlaced

\* The program's own steps on the way to a child keep the trees.
LEMMA EachKeepsTrees ==
  ASSUME LawAbiding, EachInv, [EachNext]_<<vars, eachVars>>
  PROVE  IInv' /\ TInv'
<1> USE DEF EachInv
<1>1. ASSUME NEW o, node_each(o) PROVE IInv' /\ TInv'
  BY <1>1, FollowKeeps DEF node_each
<1>2. CASE each_next
  <2>1. CASE following # NULL
    BY <1>2, <2>1, FollowKeeps DEF each_next
  <2>2. CASE following = NULL
    <3>1. UNCHANGED vars
      BY <1>2, <2>2 DEF each_next, vars, Running
    <3> QED BY <3>1, NextKeepsIInv, NextKeepsTInv
  <2> QED BY <2>1, <2>2
<1>3. CASE each_break
  <2>1. UNCHANGED vars
    BY <1>3 DEF each_break, vars, Running
  <2> QED BY <2>1, NextKeepsIInv, NextKeepsTInv
<1>4. CASE [Next]_vars
  BY <1>4, NextKeepsIInv, NextKeepsTInv
<1>5. CASE UNCHANGED <<vars, eachVars>>
  BY <1>4, <1>5
<1> QED BY <1>1, <1>2, <1>3, <1>4, <1>5 DEF EachNext, Next

\* What leaves the child in use and linked, and the receiver its node.
LEMMA CursorKept ==
  ASSUME EachInv, receiver # NULL, UNCHANGED eachVars, receiver \in held',
         ruby'[receiver].ptr = ruby[receiver].ptr, IInv',
         xchild \in InUse(xml'), xml'[xchild].parent = xml[xchild].parent
  PROVE  CursorPlaced'
<1>1. /\ receiver' = receiver /\ xchild' = xchild /\ receiver \in Object
      /\ ruby[receiver].ptr \in Node /\ ruby'[receiver].ptr = ruby[receiver].ptr
      /\ X(receiver) = ruby[receiver].ptr /\ X(receiver)' = ruby'[receiver'].ptr
      /\ ruby[receiver].ptr # NULL
  BY ReceiverInUse DEF EachInv, CursorPlaced, eachVars, X, IsNode
<1>2. ruby'[receiver].class = "Node"
  BY <1>1 DEF IInv, Consistent
<1> QED BY <1>1, <1>2 DEF CursorPlaced, EachInv, IsNode, X

\* Neither the program's other steps nor a collection takes the child away.
LEMMA BlockKeepsCursor ==
  ASSUME "still" \in EachRules, EachInv, IInv', TInv', receiver # NULL, UNCHANGED eachVars,
         \/ Make \/ Move \/ (Edit /\ Still) \/ \E o \in held \ {receiver} : drop(o)
         \/ Collect
  PROVE  CursorPlaced'
<1>1. /\ receiver \in held /\ receiver \in Object /\ IsNode(receiver)
      /\ X(receiver) \in Node /\ X(receiver) \in InUse(xml) /\ X(receiver) # NULL
      /\ xml[X(receiver)].private = receiver
      /\ xchild \in InUse(xml) /\ xml[xchild].parent = X(receiver)
      /\ xchild \in Cell
  <2>1. IsNode(receiver) /\ xchild \in InUse(xml) /\ xml[xchild].parent = X(receiver)
    BY DEF EachInv, CursorPlaced
  <2>2. receiver \in held /\ X(receiver) # NULL
    BY <2>1 DEF IsNode, X
  <2> QED BY <2>1, <2>2, ReceiverInUse DEF EachInv, InUse
<1>2. CASE Make \/ Move
  <2>1. Kept
    BY <1>2, MakeKeeps, MoveKeeps DEF EachInv
  <2> QED BY <1>1, <2>1, CursorKept DEF Kept
<1>3. CASE Edit /\ Still
  <2>1. xchild \in Node
    <3>1. Forest(xml)
      BY DEF EachInv, TInv, HeldTrees, Trees
    <3> QED BY <1>1, <3>1 DEF Forest, LinkedAt, Cell
  <2>2. Children(xml', X(receiver)) = Children(xml, X(receiver))
    BY <1>3 DEF Still
  <2>3. xchild \in InUse(xml') /\ xml'[xchild].parent = X(receiver)
    BY <1>1, <2>1, <2>2 DEF Children
  <2>4. X(receiver) \in InUse(xml')
    <3>1. Forest(xml')
      BY DEF TInv, HeldTrees, Trees
    <3>2. xml'[xchild].parent = NULL \/ xml'[xchild].parent \in InUse(xml')
      BY <2>3, <3>1, ForestFields
    <3> QED BY <1>1, <2>3, <3>2
  <2>5. xml'[X(receiver)].private = receiver
    BY <1>1, <1>3, <2>4, EditKeepsIInv, CellsDistinct DEF BindingsKept, EachInv, InUse
  <2>6. ruby'[receiver].ptr = X(receiver)
    BY <1>1, <2>5, CellsDistinct DEF IInv, Consistent, Cell
  <2>7. receiver \in held'
    BY <1>1, <1>3, EditKeeps DEF EachInv
  <2> QED BY <1>1, <2>3, <2>6, <2>7, CursorKept DEF X
<1>4. ASSUME NEW o \in held \ {receiver}, drop(o) PROVE CursorPlaced'
  BY <1>1, <1>4, CursorKept DEF drop
<1>5. CASE gc_mark
  BY <1>1, <1>5, CursorKept DEF gc_mark
<1>6. ASSUME NEW o \in Object, sweep(o) PROVE CursorPlaced'
  <2>1. HeldTrees /\ o \in garbage /\ held' = held
    BY <1>6 DEF EachInv, TInv, sweep
  <2>2. /\ X(receiver)' = X(receiver) /\ receiver' = receiver
        /\ \A x \in InUse(xml) : xml[Top(xml, x)].private # o => x \in InUse(xml')
        /\ \A x \in InUse(xml') : xml'[x].parent = xml[x].parent
    BY <1>1, <1>6, <2>1, SweepFreesOwn DEF EachInv, eachVars
  <2>3. Top(xml, xchild) = Top(xml, X(receiver))
    BY <1>1, <2>1, Tops DEF HeldTrees, Trees
  <2>4. xml[Top(xml, X(receiver))].private # o
    BY <1>1, <2>1 DEF HeldTrees, HeldSafe
  <2> QED BY <1>1, <2>1, <2>2, <2>3, <2>4, CursorKept DEF X
<1> QED BY <1>2, <1>3, <1>4, <1>5, <1>6 DEF Collect

\* Whatever runs between two rounds of each, the child is where it was.
LEMMA EachKeepsCursor ==
  ASSUME "still" \in EachRules, EachInv, IInv', TInv', [EachNext]_<<vars, eachVars>>
  PROVE  CursorPlaced'
<1>1. Forest(xml)
  BY DEF EachInv, TInv, HeldTrees, Trees
<1>2. ASSUME NEW o \in held, node_each(o) PROVE CursorPlaced'
  <2>1. IsNode(o) /\ Running /\ Follow(xml[X(o)].children) /\ receiver' = o
    BY <1>2 DEF node_each
  <2>2. Kept
    BY <2>1, FollowKeeps DEF EachInv
  <2>3. /\ X(o) \in InUse(xml) /\ xml[X(o)].children \in InUse(xml)
        /\ xml[X(o)].children # NULL
    BY <2>1, ReceiverInUse, CellsDistinct DEF EachInv, Follow, node_wrap, Wrap, InUse, Cell
  <2>4. xml[xml[X(o)].children].parent = X(o)
    BY <1>1, <2>3 DEF Forest, LinkedAt
  <2>5. IsNode(o)' /\ X(o)' = X(o)
    BY <2>1, <2>2 DEF IsNode, Kept, X
  <2> QED BY <1>2, <2>2, <2>3, <2>4, <2>5 DEF CursorPlaced, Kept, node_each
<1>3. CASE each_next
  <2>1. CASE following = NULL
    BY <1>3, <2>1 DEF each_next, CursorPlaced
  <2>2. CASE following # NULL
    <3>1. /\ Follow(following) /\ Running /\ receiver # NULL /\ xchild' = following
          /\ receiver' = receiver
      BY <1>3, <2>2 DEF each_next
    <3>2. Kept
      BY <3>1, FollowKeeps DEF EachInv
    <3>3. /\ xchild \in InUse(xml) /\ xml[xchild].parent = X(receiver) /\ IsNode(receiver)
          /\ receiver \in held
      BY <3>1 DEF EachInv, CursorPlaced, IsNode
    <3>4. following \in InUse(xml) /\ xml[following].parent = X(receiver)
      BY <1>1, <2>2, <3>1, <3>3 DEF Follow, node_wrap, Wrap, Forest, LinkedAt, following
    <3>5. IsNode(receiver)' /\ X(receiver)' = X(receiver)
      BY <3>1, <3>2, <3>3 DEF IsNode, Kept, X
    <3> HIDE DEF following
    <3> QED BY <3>1, <3>2, <3>4, <3>5 DEF CursorPlaced, Kept
  <2> QED BY <2>1, <2>2
<1>4. CASE each_break
  BY <1>4 DEF each_break, CursorPlaced
<1>5. CASE /\ \/ Make \/ Move \/ (Edit /\ Still) \/ \E o \in held \ {receiver} : drop(o)
              \/ Collect
           /\ UNCHANGED eachVars
  <2>1. CASE receiver = NULL
    BY <1>5, <2>1 DEF CursorPlaced, eachVars
  <2>2. CASE receiver # NULL
    BY <1>5, <2>2, BlockKeepsCursor
  <2> QED BY <2>1, <2>2
<1>6. CASE UNCHANGED <<vars, eachVars>>
  BY <1>6 DEF vars, eachVars, EachInv, CursorPlaced, IsNode, X
<1> QED BY <1>2, <1>3, <1>4, <1>5, <1>6 DEF EachNext

\* The child each goes on from stays alive, and the receiver's.
THEOREM EachCursor ==
  ASSUME LawAbiding, "still" \in EachRules PROVE EachSpec => []CursorInUse
<1>1. EachInit => EachInv
  BY InitIInv, InitTInv DEF EachInit, EachInv, CursorPlaced
<1>2. EachInv /\ [EachNext]_<<vars, eachVars>> => EachInv'
  BY EachKeepsTrees, EachKeepsCursor DEF EachInv
<1>3. EachInv => CursorInUse
  BY DEF EachInv, CursorPlaced, CursorInUse
<1> QED BY <1>1, <1>2, <1>3, PTL DEF EachSpec

-----------------------------------------------------------------------------
(* What each yields.                                                       *)

\* What has been yielded is the child list up to the child whose block runs.
ListYielded ==
  receiver # NULL =>
    LET n == X(receiver)
    IN /\ yielded \in Seq(Cell) /\ Len(yielded) >= 1
       /\ yielded[1] = xml[n].children /\ yielded[Len(yielded)] = xchild
       /\ \A i \in 1..Len(yielded) : yielded[i] \in Children(xml, n)
       /\ \A i \in 1..Len(yielded) - 1 : xml[yielded[i]].next = yielded[i + 1]
       /\ \A i, j \in 1..Len(yielded) : yielded[i] = yielded[j] => i = j

YieldInv == EachInv /\ ListYielded

\* What leaves the receiver's list leaves what has been yielded of it.
LEMMA ListStays ==
  ASSUME ListYielded, UNCHANGED eachVars,
         receiver # NULL =>
           LET n == X(receiver)
           IN /\ X(receiver)' = n /\ xml'[n].children = xml[n].children
              /\ \A c \in Children(xml, n) : c \in Children(xml', n) /\ xml'[c].next = xml[c].next
  PROVE  ListYielded'
<1>1. CASE receiver = NULL
  BY <1>1 DEF ListYielded, eachVars
<1>2. CASE receiver # NULL
  <2>1. PICK n : n = X(receiver)
    OBVIOUS
  <2>2. /\ yielded \in Seq(Cell) /\ Len(yielded) >= 1
        /\ yielded[1] = xml[n].children /\ yielded[Len(yielded)] = xchild
        /\ \A i \in 1..Len(yielded) : yielded[i] \in Children(xml, n)
        /\ \A i \in 1..Len(yielded) - 1 : xml[yielded[i]].next = yielded[i + 1]
        /\ \A i, j \in 1..Len(yielded) : yielded[i] = yielded[j] => i = j
    BY <1>2, <2>1 DEF ListYielded
  <2>3. /\ X(receiver)' = n /\ xml'[n].children = xml[n].children
        /\ \A c \in Children(xml, n) : c \in Children(xml', n) /\ xml'[c].next = xml[c].next
    BY <1>2, <2>1
  <2>4. receiver' = receiver /\ xchild' = xchild /\ yielded' = yielded
    BY DEF eachVars
  <2>5. \A i \in 1..Len(yielded) - 1 : i \in 1..Len(yielded)
    BY <2>2
  <2>6. \A i \in 1..Len(yielded) - 1 : xml'[yielded[i]].next = yielded[i + 1]
    BY <2>2, <2>3, <2>5
  <2> QED BY <2>2, <2>3, <2>4, <2>6 DEF ListYielded
<1> QED BY <1>1, <1>2

LEMMA EachYields ==
  ASSUME YieldInv, NEW o \in held, node_each(o)
  PROVE  ListYielded'
<1> DEFINE n == X(o)
           c == xml[X(o)].children
<1>1. /\ IsNode(o) /\ Running /\ Follow(c) /\ receiver' = o /\ xchild' = c /\ yielded' = <<c>>
      /\ IInv /\ Forest(xml)
  BY DEF node_each, YieldInv, EachInv, TInv, HeldTrees, Trees
<1>2. n \in InUse(xml) /\ c \in InUse(xml)
  BY <1>1, ReceiverInUse DEF Follow, node_wrap, Wrap
<1>3. c \in Node /\ xml[c].parent = n /\ n \in Cell
  BY <1>1, <1>2, ForestFields DEF Forest, LinkedAt
<1>4. /\ X(o)' = n /\ xml'[n].children = c
      /\ c \in InUse(xml') /\ xml'[c].parent = n
  <2>1. Kept
    BY <1>1, FollowKeeps
  <2>2. xml'[n].children = c
    BY <1>1, <1>3, FollowKeepsLinks
  <2> QED BY <1>2, <1>3, <2>1, <2>2 DEF Kept, X
<1> HIDE DEF n, c
<1>5. c \in Children(xml', n)
  BY <1>3, <1>4 DEF Children
<1>6. /\ yielded' \in Seq(Cell) /\ Len(yielded') = 1 /\ yielded'[1] = c
  BY <1>1, <1>3 DEF Cell
<1> QED BY <1>1, <1>4, <1>5, <1>6 DEF ListYielded

\* The next child has not been yielded yet.
LEMMA NextYields ==
  ASSUME YieldInv, each_next, following # NULL
  PROVE  ListYielded'
<1> DEFINE n == X(receiver)
           f == following
           l == Len(yielded)
<1>1. /\ Running /\ receiver # NULL /\ xchild \in InUse(xml) /\ Follow(f)
      /\ xchild' = f /\ yielded' = Append(yielded, f) /\ receiver' = receiver
      /\ IInv /\ Forest(xml)
  BY DEF each_next, YieldInv, EachInv, TInv, HeldTrees, Trees
<1>2. /\ receiver \in held /\ IsNode(receiver) /\ n \in InUse(xml) /\ n \in Cell /\ xml[xchild].parent = n
  <2>1. IsNode(receiver) /\ xml[xchild].parent = n
    BY <1>1 DEF YieldInv, EachInv, CursorPlaced
  <2> QED BY <1>1, <2>1, ReceiverInUse DEF IsNode
<1>3. /\ yielded \in Seq(Cell) /\ l >= 1 /\ l \in Nat
      /\ yielded[1] = xml[n].children /\ yielded[l] = xchild
      /\ \A i \in 1..l : yielded[i] \in Children(xml, n)
      /\ \A i \in 1..l - 1 : xml[yielded[i]].next = yielded[i + 1]
      /\ \A i, j \in 1..l : yielded[i] = yielded[j] => i = j
  BY <1>1 DEF YieldInv, ListYielded
<1>4. /\ f \in InUse(xml) /\ f \in Node /\ xml[f].prev = xchild /\ xml[f].parent = n
      /\ xml[xchild].next = f /\ xchild # NULL /\ f # NULL
  <2>1. f = xml[xchild].next
    BY DEF following
  <2> QED BY <1>1, <1>2, <2>1, ForestFields DEF Forest, LinkedAt
<1>5. /\ X(receiver)' = n
      /\ \A x \in InUse(xml) : /\ x \in InUse(xml') /\ xml'[x].parent = xml[x].parent
                               /\ xml'[x].next = xml[x].next /\ xml'[x].children = xml[x].children
  <2>1. Kept
    BY <1>1, FollowKeeps
  <2>2. \A x \in InUse(xml) : xml'[x].next = xml[x].next /\ xml'[x].children = xml[x].children
    BY <1>1, FollowKeepsLinks DEF InUse
  <2>3. X(receiver)' = n
    BY <1>1, <1>2, <2>1 DEF Kept, X
  <2> QED BY <2>1, <2>2, <2>3 DEF Kept
<1> HIDE DEF n, f, l
<1>6. ASSUME NEW i \in 1..l PROVE yielded[i] # f
  <2>1. SUFFICES ASSUME yielded[i] = f PROVE FALSE
    OBVIOUS
  <2>2. CASE i = 1
    <3>1. xml[f].prev = NULL
      BY <1>1, <1>2, <1>3, <1>4, <2>1, <2>2 DEF Forest, LinkedAt
    <3> QED BY <1>4, <3>1
  <2>3. CASE i # 1
    <3>1. i - 1 \in 1..l - 1 /\ i - 1 \in 1..l /\ l \in 1..l /\ i - 1 # l /\ (i - 1) + 1 = i
      BY <1>3, <2>3
    <3>2. xml[yielded[i - 1]].next = f
      BY <1>3, <2>1, <3>1
    <3>3. yielded[i - 1] \in InUse(xml)
      BY <1>3, <3>1 DEF Children
    <3>4. xml[f].prev = yielded[i - 1]
      BY <1>1, <1>4, <3>2, <3>3 DEF Forest, LinkedAt
    <3> QED BY <1>3, <1>4, <3>1, <3>4
  <2> QED BY <2>2, <2>3
<1>7. /\ yielded' \in Seq(Cell) /\ Len(yielded') = l + 1 /\ yielded'[l + 1] = f
      /\ \A i \in 1..l : yielded'[i] = yielded[i]
  BY <1>1, <1>3, <1>4 DEF Cell, l
<1>8. \A i \in 1..l + 1 : i \in 1..l \/ i = l + 1
  BY <1>3
<1>9. \A i \in 1..l + 1 : yielded'[i] \in Children(xml', n)
  <2>1. f \in Children(xml', n)
    BY <1>4, <1>5 DEF Children
  <2>2. \A i \in 1..l : yielded[i] \in Children(xml', n)
    BY <1>3, <1>5 DEF Children
  <2> QED BY <1>7, <1>8, <2>1, <2>2
<1>10. \A i, j \in 1..l + 1 : yielded'[i] = yielded'[j] => i = j
  BY <1>3, <1>6, <1>7, <1>8
<1>11. ASSUME NEW i \in 1..l PROVE xml'[yielded'[i]].next = yielded'[i + 1]
  <2>1. yielded[i] \in InUse(xml)
    BY <1>3 DEF Children
  <2>2. CASE i = l
    BY <1>3, <1>4, <1>5, <1>7, <2>1, <2>2
  <2>3. CASE i # l
    <3>1. i \in 1..l - 1 /\ i + 1 \in 1..l
      BY <1>3, <2>3
    <3> QED BY <1>3, <1>5, <1>7, <2>1, <3>1
  <2> QED BY <2>2, <2>3
<1>12. yielded'[1] = xml'[n].children
  BY <1>2, <1>3, <1>5, <1>7
<1>13. (l + 1) - 1 = l /\ l + 1 >= 1
  BY <1>3
<1> QED BY <1>1, <1>5, <1>7, <1>9, <1>10, <1>11, <1>12, <1>13 DEF ListYielded

\* Neither the block nor a collection changes the list.
LEMMA BlockKeepsList ==
  ASSUME "still" \in EachRules, YieldInv, IInv', CursorPlaced', UNCHANGED eachVars,
         \/ Make \/ Move \/ (Edit /\ Still) \/ \E o \in held \ {receiver} : drop(o)
         \/ Collect
  PROVE  ListYielded'
<1>1. CASE receiver = NULL
  BY <1>1, ListStays DEF YieldInv
<1>2. CASE receiver # NULL
  <2> DEFINE n == X(receiver)
             Good == /\ X(receiver)' = n /\ xml'[n].children = xml[n].children
                     /\ \A c \in Children(xml, n) : c \in Children(xml', n) /\ xml'[c].next = xml[c].next
  <2>1. /\ IInv /\ HeldTrees /\ Forest(xml) /\ receiver \in held /\ IsNode(receiver)
        /\ n \in Node /\ n \in InUse(xml) /\ n # NULL
    <3>1. /\ IInv /\ HeldTrees /\ Forest(xml) /\ IsNode(receiver)
      BY <1>2 DEF YieldInv, EachInv, TInv, HeldTrees, Trees, CursorPlaced
    <3> QED BY <3>1, ReceiverInUse, CellsDistinct DEF IsNode
  <2> HIDE DEF n
  <2>2. ASSUME Make \/ Move PROVE Good
    <3>1. Kept /\ \A x \in InUse(xml) : xml'[x].next = xml[x].next /\ xml'[x].children = xml[x].children
      BY <2>1, <2>2, MakeKeeps, MoveKeeps, MakeKeepsLinks
    <3>2. X(receiver)' = n
      BY <2>1, <3>1 DEF Kept, X, eachVars, n
    <3> QED BY <2>1, <3>1, <3>2 DEF Kept, Children
  <2>3. ASSUME Edit /\ Still PROVE Good
    <3>1. /\ xml'[n].children = xml[n].children /\ Children(xml', n) = Children(xml, n)
          /\ \A c \in Children(xml, n) : xml'[c].next = xml[c].next
      BY <1>2, <2>3 DEF Still, n
    <3>2. xchild \in InUse(xml) /\ xml[xchild].parent = n
      BY <1>2 DEF YieldInv, EachInv, CursorPlaced, n
    <3>3. xchild \in Children(xml, n)
      BY <2>1, <3>2, ForestFields DEF Children, Forest, LinkedAt, Cell
    <3>4. xml'[xchild].parent = n
      BY <3>1, <3>3 DEF Children
    <3>5. xml'[xchild].parent = X(receiver)'
      BY <1>2 DEF CursorPlaced, eachVars
    <3> QED BY <3>1, <3>4, <3>5
  <2>4. ASSUME UNCHANGED <<xml, ruby>> PROVE Good
    BY <2>4 DEF X, eachVars, n
  <2>5. ASSUME NEW o \in held, drop(o) PROVE Good
    BY <2>4, <2>5 DEF drop
  <2>6. ASSUME gc_mark PROVE Good
    BY <2>4, <2>6 DEF gc_mark
  <2>7. ASSUME NEW o \in Object, sweep(o) PROVE Good
    <3>1. o \in garbage
      BY <2>7 DEF sweep
    <3>2. /\ X(receiver)' = n /\ n \in InUse(xml')
          /\ \A x \in InUse(xml) : xml[Top(xml, x)].private # o => x \in InUse(xml')
          /\ \A x \in InUse(xml') : xml'[x].parent = xml[x].parent
      BY <2>1, <2>7, SweepFreesOwn DEF eachVars, n
    <3>3. xml[Top(xml, n)].private # o
      BY <2>1, <3>1 DEF HeldTrees, HeldSafe, n
    <3>4. ASSUME NEW c \in Children(xml, n) PROVE c \in Children(xml', n)
      <4>1. c \in InUse(xml) /\ c \in Node /\ xml[c].parent = n
        BY <3>4 DEF Children
      <4>2. Top(xml, c) = Top(xml, n)
        BY <2>1, <4>1, Tops
      <4> QED BY <3>2, <3>3, <4>1, <4>2 DEF Children
    <3>5. /\ xml'[n].children = xml[n].children
          /\ \A x \in InUse(xml') : xml'[x].next = xml[x].next
      BY <2>1, <2>7, <3>2, SweepKeepsFields
    <3> QED BY <3>2, <3>4, <3>5 DEF Children
  <2>8. Good
    BY <2>2, <2>3, <2>5, <2>6, <2>7 DEF Collect
  <2> QED BY <2>8, ListStays DEF YieldInv, n
<1> QED BY <1>1, <1>2

LEMMA EachKeepsYielded ==
  ASSUME LawAbiding, "still" \in EachRules, YieldInv, [EachNext]_<<vars, eachVars>>
  PROVE  YieldInv'
<1>1. EachInv' /\ IInv' /\ CursorPlaced'
  BY EachKeepsTrees, EachKeepsCursor DEF YieldInv, EachInv
<1>2. CASE each_next /\ following = NULL
  BY <1>1, <1>2 DEF each_next, YieldInv, ListYielded
<1>3. CASE each_break
  BY <1>1, <1>3 DEF each_break, YieldInv, ListYielded
<1>4. CASE UNCHANGED <<vars, eachVars>>
  <2>1. receiver # NULL => /\ X(receiver)' = X(receiver) /\ xml' = xml
    BY <1>4 DEF vars, eachVars, X
  <2>2. ListYielded'
    BY <1>4, <2>1, ListStays DEF YieldInv
  <2> QED BY <1>1, <2>2 DEF YieldInv
<1>5. CASE /\ \/ Make \/ Move \/ (Edit /\ Still) \/ \E o \in held \ {receiver} : drop(o)
              \/ Collect
           /\ UNCHANGED eachVars
  BY <1>1, <1>5, BlockKeepsList DEF YieldInv
<1> QED BY <1>1, <1>2, <1>3, <1>4, <1>5, EachYields, NextYields DEF YieldInv, EachNext

\* A list that begins with the first child and ends with one that has no
\* next has all children.
LEMMA ListIsComplete ==
  ASSUME YieldInv, receiver # NULL, xml[xchild].next = NULL
  PROVE  Children(xml, X(receiver)) = {yielded[i] : i \in 1..Len(yielded)}
<1> DEFINE n == X(receiver)
           l == Len(yielded)
           R == {yielded[i] : i \in 1..l}
           S == Children(xml, n) \ R
<1>1. /\ l \in Nat /\ l >= 1
      /\ yielded[1] = xml[n].children /\ yielded[l] = xchild
      /\ \A i \in 1..l : yielded[i] \in Children(xml, n)
      /\ \A i \in 1..l - 1 : xml[yielded[i]].next = yielded[i + 1]
  BY DEF YieldInv, ListYielded
<1>2. /\ Forest(xml) /\ n # NULL
  BY DEF YieldInv, EachInv, TInv, HeldTrees, Trees, CursorPlaced, IsNode, X
<1>3. \A x \in R : xml[x].next # NULL => xml[x].next \in R
  <2>1. SUFFICES ASSUME NEW i \in 1..l, xml[yielded[i]].next # NULL
                 PROVE  xml[yielded[i]].next \in R
    OBVIOUS
  <2>2. i # l
    BY <1>1, <2>1
  <2>3. i \in 1..l - 1 /\ i + 1 \in 1..l
    BY <1>1, <2>2
  <2> QED BY <1>1, <2>3
<1>4. yielded[1] \in R /\ R \subseteq Children(xml, n)
  BY <1>1
<1> HIDE DEF R, l, n
<1>5. SUFFICES ASSUME S # {} PROVE FALSE
  BY <1>4 DEF R, l, n
<1>6. S \in SUBSET InUse(xml)
  BY DEF Children
<1>7. PICK c \in S : xml[c].prev \notin S
  BY <1>2, <1>5, <1>6 DEF Forest, Ordered
<1>8. c \in InUse(xml) /\ xml[c].parent = n /\ c \notin R
  BY <1>7 DEF Children
<1>9. CASE xml[c].prev = NULL
  <2>1. xml[n].children = c
    BY <1>2, <1>8, <1>9 DEF Forest, LinkedAt
  <2> QED BY <1>1, <1>4, <1>8, <2>1
<1>10. CASE xml[c].prev # NULL
  <2>1. PICK p : p = xml[c].prev
    OBVIOUS
  <2>2. p \in InUse(xml) /\ p \in Node /\ xml[p].next = c /\ xml[p].parent = n /\ c # NULL
    BY <1>2, <1>8, <1>10, <2>1, ForestFields DEF Forest, LinkedAt
  <2>3. p \in R
    BY <1>7, <2>1, <2>2 DEF Children
  <2> QED BY <1>3, <1>8, <2>2, <2>3
<1> QED BY <1>9, <1>10

\* When Node#each returns, it has yielded every child of its receiver once
\* and in order, whatever else the block did meanwhile (rxml_node_each).
THEOREM EveryChildYielded ==
  ASSUME LawAbiding, "still" \in EachRules PROVE EachSpec => YieldsAll
<1>1. EachInit => YieldInv
  BY InitIInv, InitTInv DEF EachInit, EachInv, CursorPlaced, YieldInv, ListYielded
<1>2. YieldInv /\ [EachNext]_<<vars, eachVars>> => YieldInv'
  BY EachKeepsYielded
<1> DEFINE Whole == /\ Len(yielded) = Cardinality(Children(xml, X(receiver)))
                    /\ yielded[1] = xml[X(receiver)].children
                    /\ \A i \in 1..Len(yielded) - 1 : xml[yielded[i]].next = yielded[i + 1]
<1>3. ASSUME YieldInv, each_next, receiver' = NULL PROVE Whole
  <2>1. receiver # NULL /\ xml[xchild].next = NULL
    BY <1>3 DEF each_next, following
  <2>2. PICK l, S : l = Len(yielded) /\ S = Children(xml, X(receiver))
    OBVIOUS
  <2>3. /\ yielded \in Seq(Cell) /\ l \in Nat /\ DOMAIN yielded = 1..l
        /\ yielded[1] = xml[X(receiver)].children
        /\ \A i \in 1..l : yielded[i] \in S
        /\ \A i \in 1..l - 1 : xml[yielded[i]].next = yielded[i + 1]
        /\ \A i, j \in 1..l : yielded[i] = yielded[j] => i = j
    BY <1>3, <2>1, <2>2 DEF YieldInv, ListYielded
  <2>4. \A x \in S : \E i \in 1..l : yielded[i] = x
    BY <1>3, <2>1, <2>2, ListIsComplete
  <2>5. yielded \in [1..l -> S]
    BY <2>3
  <2>6. yielded \in Bijection(1..l, S)
    BY <2>3, <2>4, <2>5 DEF Bijection, Injection, Surjection, IsInjective
  <2>7. Cardinality(S) = l
    BY <2>3, <2>6, FS_CountingElements DEF ExistsBijection
  <2> QED BY <2>2, <2>3, <2>7
<1>4. YieldInv /\ [EachNext]_<<vars, eachVars>> =>
        [each_next /\ receiver' = NULL => Whole]_<<vars, eachVars>>
  BY <1>3
<1> QED BY <1>1, <1>2, <1>4, PTL DEF EachSpec, YieldsAll

-----------------------------------------------------------------------------
(* XPath searches.                                                         *)

\* The types, and why they hold: a result keeps the copies it has still to
\* wrap; only one result is being made; a context that exists has a document.
XPathTyped ==
  /\ XPathTypeOK
  /\ \A k \in LiveContext : context[k].doc # NULL
  /\ \A x, y \in In("wrapping") : x = y
  /\ \A x \in Result : /\ result[x].todo \subseteq copies \ wrapped
                       /\ result[x].state # "wrapping" => result[x].todo = {}
  /\ \A k \in copies : k \in wrapped \/ \E x \in In("wrapping") : k \in result[x].todo

\* The slots of the Ruby heap do not overlap.
LEMMA Slots ==
  ASSUME XPathTyped
  PROVE  /\ found \cap Context \subseteq LiveContext /\ found \cap Result \subseteq In("ready")
         /\ found \cap Ns \subseteq wrapped
         /\ trash \cap Context \subseteq LiveContext /\ trash \cap Result \subseteq In("ready")
         /\ trash \cap Ns \subseteq wrapped
BY SlotsDistinct DEF XPathTyped, XPathTypeOK, LiveContext, In

\* Structures and wrappers are as consistent beside searches as without.
LEMMA XPathKeepsIInv ==
  ASSUME IInv, [XPathNext]_allVars
  PROVE  IInv'
<1>1. CASE [Next]_vars
  BY <1>1, NextKeepsIInv
<1>2. ASSUME NEW x \in Result, object_tabref(x) PROVE IInv'
  <2>1. CASE \E n \in result[x].nodes : Follow(n) /\ UNCHANGED garbage
    BY <1>2, <2>1, FollowKeeps DEF object_tabref, Running, Idle
  <2>2. CASE UNCHANGED vars
    BY <1>1, <2>2
  <2> QED BY <1>2, <2>1, <2>2 DEF object_tabref
<1>3. ASSUME NEW lost, collect(lost) PROVE IInv'
  BY <1>3 DEF collect, IInv, Live, LiveIn, Marked
<1>4. CASE UNCHANGED vars
  BY <1>1, <1>4
<1> QED
  BY <1>1, <1>2, <1>3, <1>4 DEF XPathNext, allVars, NodeStep, Next, Collect,
       context_initialize, context_node_set, context_find, object_wrap_ns, object_wrap_end,
       drop_found, context_free, object_free, namespace_xpath_free

\* What a step leaves if it changes none of the variables of the searches.
LEMMA SearchesUnchanged ==
  ASSUME XPathTyped, UNCHANGED xpathVars
  PROVE  XPathTyped'
BY DEF XPathTyped, XPathTypeOK, xpathVars, LiveContext, In

\* A step that changes only what is found or doomed.
LEMMA FoundTyped ==
  ASSUME XPathTyped, UNCHANGED <<context, result, copies, wrapped>>,
         found' \subseteq LiveContext \cup In("ready") \cup wrapped,
         trash' \subseteq (LiveContext \cup In("ready") \cup wrapped) \ found'
  PROVE  XPathTyped'
BY DEF XPathTyped, XPathTypeOK, LiveContext, In

\* The document a context is made for is one.
LEMMA SearchedTyped ==
  ASSUME IInv, NEW o, SearchedDoc(o) # NULL
  PROVE  SearchedDoc(o) \in Doc
<1>1. CASE IsDocument(o)
  BY <1>1, ReceiverInUse DEF SearchedDoc
<1>2. CASE ~IsDocument(o) /\ IsNode(o)
  BY <1>2, ReceiverInUse, Fields DEF SearchedDoc, IInv, Consistent
<1> QED BY <1>1, <1>2 DEF SearchedDoc

\* Contexts come, change and go.
LEMMA ContextTyped ==
  ASSUME XPathTyped, UNCHANGED <<result, copies, wrapped>>, NEW k \in Context,
         \A j \in Context \ {k} : context'[j] = context[j],
         context' \in [Context -> ContextRecord],
         context'[k] # NoContext => context'[k].doc # NULL,
         found' \subseteq (found \ {k}) \cup (IF context'[k] = NoContext THEN {} ELSE {k}),
         trash' \subseteq trash \ {k}, found' \cap trash' = {}
  PROVE  XPathTyped'
<1>1. LiveContext' = (LiveContext \ {k}) \cup (IF context'[k] = NoContext THEN {} ELSE {k})
  BY DEF LiveContext
<1>2. In("ready")' = In("ready") /\ In("wrapping")' = In("wrapping")
  BY DEF In
<1>3. XPathTypeOK'
  BY <1>1, <1>2 DEF XPathTyped, XPathTypeOK
<1>4. \A j \in LiveContext' : context'[j].doc # NULL
  BY <1>1 DEF XPathTyped, LiveContext
<1> QED BY <1>2, <1>3, <1>4 DEF XPathTyped

\* Searches, wrapping and finalizers keep the types.
LEMMA XPathKeepsTyped ==
  ASSUME IInv, XPathTyped, [XPathNext]_allVars
  PROVE  XPathTyped'
<1>1. CASE UNCHANGED xpathVars
  BY <1>1, SearchesUnchanged
<1>2. ASSUME NEW o \in held, NEW k \in Context, context_initialize(o, k) PROVE XPathTyped'
  <2>1. /\ SearchedDoc(o) \in Doc /\ k \notin found /\ found' = found \cup {k} /\ trash' = {}
        /\ trash = {} /\ UNCHANGED <<result, copies, wrapped>>
        /\ context' = [context EXCEPT ![k] = [doc |-> SearchedDoc(o), node |-> NULL]]
    BY <1>2, SearchedTyped, Slots DEF context_initialize, Idle
  <2>2. context \in [Context -> ContextRecord] /\ NULL \notin Doc
    BY CellsDistinct DEF XPathTyped, XPathTypeOK
  <2>3. context'[k] = [doc |-> SearchedDoc(o), node |-> NULL]
    BY <2>1, <2>2
  <2>4. context' \in [Context -> ContextRecord] /\ context'[k] # NoContext /\ context'[k].doc # NULL
    BY <2>1, <2>2, <2>3 DEF ContextRecord, NoContext
  <2> QED BY <2>1, <2>2, <2>4, ContextTyped
<1>3. ASSUME NEW o \in held, NEW k \in Context, context_node_set(k, o) PROVE XPathTyped'
  <2>1. /\ X(o) \in Node /\ k \in LiveContext /\ UNCHANGED <<result, copies, wrapped, found, trash>>
        /\ trash = {} /\ k \in found
        /\ context' = [context EXCEPT ![k].node = X(o)]
    BY <1>3, ReceiverInUse, Slots DEF context_node_set, Idle
  <2>2. context \in [Context -> ContextRecord] /\ context[k].doc # NULL
    BY <2>1 DEF XPathTyped, XPathTypeOK
  <2>3. /\ context' \in [Context -> ContextRecord] /\ context'[k].doc = context[k].doc
        /\ context'[k] # NoContext
    BY <2>1, <2>2 DEF ContextRecord, NoContext
  <2> QED BY <2>1, <2>2, <2>3, ContextTyped
<1>4. ASSUME NEW k \in Context, NEW x \in Result, NEW S \in SUBSET Node,
             NEW K \in SUBSET (Ns \ copies), context_find(k, x, S, K)
      PROVE  XPathTyped'
  <2> DEFINE r == [state |-> "wrapping", doc |-> context[k].doc, nodes |-> S, ns |-> K,
                   todo |-> K, nsnodes |-> {}, missed |-> FALSE]
  <2>1. /\ result[x].state = "none" /\ In("wrapping") = {} /\ trash = {}
        /\ result' = [result EXCEPT ![x] = r] /\ copies' = copies \cup K
        /\ UNCHANGED <<context, wrapped, found, trash>>
    BY <1>4 DEF context_find, Idle
  <2>2. /\ result \in [Result -> ResultRecord] /\ context \in [Context -> ContextRecord]
        /\ wrapped \subseteq copies /\ copies \subseteq Ns
    BY DEF XPathTyped, XPathTypeOK
  <2>3. r \in ResultRecord
    BY <2>2 DEF ResultRecord, ContextRecord
  <2>4. /\ result' \in [Result -> ResultRecord]
        /\ \A y \in Result : result'[y] = IF y = x THEN r ELSE result[y]
    BY <2>1, <2>2, <2>3
  <2>5. In("ready")' = In("ready") /\ In("wrapping")' = {x} /\ LiveContext' = LiveContext
    BY <2>1, <2>4 DEF In, LiveContext
  <2>6. XPathTypeOK'
    BY <2>1, <2>2, <2>4, <2>5 DEF XPathTyped, XPathTypeOK
  <2> QED BY <2>1, <2>2, <2>4, <2>5, <2>6 DEF XPathTyped, LiveContext
<1>5. ASSUME NEW x \in Result, NEW k \in Ns, NEW pushed \in BOOLEAN, object_wrap_ns(x, k, pushed)
      PROVE  XPathTyped'
  <2>1. /\ result[x].state = "wrapping" /\ k \in result[x].todo /\ trash = {}
        /\ wrapped' = wrapped \cup {k}
        /\ result' = [result EXCEPT ![x].todo = @ \ {k},
                                    ![x].nsnodes = IF pushed THEN @ \cup {k} ELSE @]
        /\ UNCHANGED <<context, copies, found, trash>>
    BY <1>5 DEF object_wrap_ns
  <2>2. result \in [Result -> ResultRecord]
    BY DEF XPathTyped, XPathTypeOK
  <2>3. /\ result' \in [Result -> ResultRecord]
        /\ \A y \in Result : /\ result'[y].state = result[y].state
                             /\ result'[y].todo = IF y = x THEN result[y].todo \ {k}
                                                           ELSE result[y].todo
    <3> DEFINE array == IF pushed THEN result[x].nsnodes \cup {k} ELSE result[x].nsnodes
               r == [result[x] EXCEPT !.todo = @ \ {k}, !.nsnodes = array]
    <3>1. result[x] \in ResultRecord /\ array \in SUBSET Ns
      BY <2>2 DEF ResultRecord
    <3>2. result' = [result EXCEPT ![x] = r]
      BY <2>1, <2>2
    <3> HIDE DEF array
    <3>3. r \in ResultRecord /\ r.state = result[x].state /\ r.todo = result[x].todo \ {k}
      BY <3>1 DEF ResultRecord
    <3> HIDE DEF r
    <3> QED BY <2>2, <3>2, <3>3
  <2>4. /\ In("ready")' = In("ready") /\ In("wrapping")' = In("wrapping")
        /\ LiveContext' = LiveContext /\ x \in In("wrapping")
    BY <2>1, <2>3 DEF In, LiveContext
  <2>5. k \in copies
    BY <2>1 DEF XPathTyped
  <2>6. XPathTypeOK'
    BY <2>1, <2>3, <2>4, <2>5 DEF XPathTyped, XPathTypeOK
  <2>7. ASSUME NEW y \in Result
        PROVE  /\ result'[y].todo \subseteq copies' \ wrapped'
               /\ result'[y].state # "wrapping" => result'[y].todo = {}
    <3>1. y # x => result[y].todo = {}
      BY <2>4 DEF XPathTyped, In
    <3> QED BY <2>1, <2>3, <3>1 DEF XPathTyped
  <2>8. \A j \in copies' : j \in wrapped' \/ \E y \in In("wrapping")' : j \in result'[y].todo
    <3>1. \A y \in In("wrapping") : y \in Result
      BY DEF In
    <3> QED BY <2>1, <2>3, <2>4, <3>1 DEF XPathTyped
  <2> QED BY <2>1, <2>4, <2>6, <2>7, <2>8 DEF XPathTyped
<1>6. ASSUME NEW x \in Result, object_wrap_end(x) PROVE XPathTyped'
  <2>1. /\ result[x].state = "wrapping" /\ result[x].todo = {} /\ trash = {}
        /\ result' = [result EXCEPT ![x].state = "ready"] /\ found' = found \cup {x}
        /\ UNCHANGED <<context, copies, wrapped, trash>>
    BY <1>6 DEF object_wrap_end
  <2>2. result \in [Result -> ResultRecord]
    BY DEF XPathTyped, XPathTypeOK
  <2>3. /\ result' \in [Result -> ResultRecord]
        /\ \A y \in Result : /\ result'[y].state = IF y = x THEN "ready" ELSE result[y].state
                             /\ result'[y].todo = result[y].todo
    BY <2>1, <2>2 DEF ResultRecord
  <2>4. /\ In("ready")' = In("ready") \cup {x} /\ In("wrapping")' = {}
        /\ LiveContext' = LiveContext /\ In("wrapping") = {x}
    BY <2>1, <2>3 DEF In, LiveContext, XPathTyped
  <2>5. XPathTypeOK'
    BY <2>1, <2>3, <2>4 DEF XPathTyped, XPathTypeOK
  <2> QED BY <2>1, <2>3, <2>4, <2>5 DEF XPathTyped
<1>7. ASSUME NEW x \in Result, object_tabref(x), ~UNCHANGED xpathVars PROVE XPathTyped'
  <2>1. PICK k \in result[x].ns \cap copies : found' = found \cup {k}
    BY <1>7 DEF object_tabref
  <2>2. /\ In("wrapping") = {} /\ trash = {} /\ UNCHANGED <<context, result, copies, wrapped, trash>>
    BY <1>7 DEF object_tabref, Idle
  <2>3. k \in wrapped
    BY <2>2 DEF XPathTyped
  <2> QED BY <2>1, <2>2, <2>3, FoundTyped DEF XPathTyped, XPathTypeOK
<1>8. ASSUME NEW q \in found, drop_found(q) PROVE XPathTyped'
  BY <1>8, FoundTyped DEF drop_found, Idle, XPathTyped, XPathTypeOK
<1>9. ASSUME NEW lost, collect(lost) PROVE XPathTyped'
  <2>1. /\ result \in [Result -> ResultRecord]
        /\ UNCHANGED <<context, copies, wrapped, found>>
        /\ trash' \subseteq (LiveContext \cup In("ready") \cup wrapped) \ found
    BY <1>9 DEF collect, XPathTyped, XPathTypeOK
  <2>2. /\ result' \in [Result -> ResultRecord]
        /\ \A y \in Result : /\ result'[y].state = result[y].state
                             /\ result'[y].todo = result[y].todo
    <3>1. ASSUME NEW y \in Result
          PROVE  /\ result'[y] \in ResultRecord
                 /\ result'[y].state = result[y].state /\ result'[y].todo = result[y].todo
      <4>1. result[y] \in ResultRecord
        BY <2>1
      <4>2. \/ result'[y] = result[y]
            \/ result'[y] = [result[y] EXCEPT !.nsnodes = {}, !.missed = TRUE]
        BY <1>9, Zenon DEF collect
      <4> QED BY <4>1, <4>2 DEF ResultRecord
    <3>2. result' = [y \in Result |-> result'[y]]
      BY <1>9, Zenon DEF collect
    <3> QED BY <3>1, <3>2
  <2>3. /\ In("ready")' = In("ready") /\ In("wrapping")' = In("wrapping")
        /\ LiveContext' = LiveContext
    BY <2>1, <2>2 DEF In, LiveContext
  <2>4. XPathTypeOK'
    BY <2>1, <2>2, <2>3 DEF XPathTyped, XPathTypeOK
  <2>5. \A j \in copies' : j \in wrapped' \/ \E y \in In("wrapping")' : j \in result'[y].todo
    <3>1. \A y \in In("wrapping") : y \in Result
      BY DEF In
    <3> QED BY <2>1, <2>2, <2>3, <3>1 DEF XPathTyped
  <2>6. \A y \in Result : /\ result'[y].todo \subseteq copies' \ wrapped'
                          /\ result'[y].state # "wrapping" => result'[y].todo = {}
    BY <2>1, <2>2 DEF XPathTyped
  <2>7. \A k \in LiveContext' : context'[k].doc # NULL
    BY <2>1, <2>3 DEF XPathTyped
  <2> QED BY <2>3, <2>4, <2>5, <2>6, <2>7 DEF XPathTyped
<1>10. ASSUME NEW k \in Context, context_free(k) PROVE XPathTyped'
  <2>1. /\ k \in trash /\ trash' = trash \ {k} /\ context' = [context EXCEPT ![k] = NoContext]
        /\ UNCHANGED <<result, copies, wrapped, found>>
    BY <1>10 DEF context_free
  <2>2. /\ context \in [Context -> ContextRecord] /\ NoContext \in ContextRecord
        /\ found \cap trash = {}
    BY DEF XPathTyped, XPathTypeOK, NoContext, ContextRecord
  <2> QED BY <2>1, <2>2, ContextTyped
<1>11. ASSUME NEW x \in Result, object_free(x) PROVE XPathTyped'
  <2>1. /\ x \in trash /\ trash' = trash \ {x} /\ result' = [result EXCEPT ![x] = NoResult]
        /\ UNCHANGED <<context, copies, wrapped, found>>
    BY <1>11 DEF object_free
  <2>2. /\ result \in [Result -> ResultRecord] /\ NoResult \in ResultRecord
        /\ x \notin found /\ x \in In("ready")
    BY <2>1, Slots DEF XPathTyped, XPathTypeOK, NoResult, ResultRecord
  <2>3. /\ result' \in [Result -> ResultRecord]
        /\ \A y \in Result : result'[y] = IF y = x THEN NoResult ELSE result[y]
    BY <2>1, <2>2
  <2>4. /\ In("ready")' = In("ready") \ {x} /\ In("wrapping")' = In("wrapping")
        /\ LiveContext' = LiveContext /\ x \notin In("wrapping")
    BY <2>1, <2>2, <2>3 DEF In, LiveContext, NoResult
  <2>5. XPathTypeOK'
    BY <2>1, <2>2, <2>3, <2>4 DEF XPathTyped, XPathTypeOK
  <2>6. \A y \in In("wrapping") : y \in Result
    BY DEF In
  <2> QED BY <2>1, <2>3, <2>4, <2>5, <2>6 DEF XPathTyped, NoResult
<1>12. ASSUME NEW k \in Ns, namespace_xpath_free(k) PROVE XPathTyped'
  <2>1. /\ k \in trash /\ trash' = trash \ {k} /\ copies' = copies \ {k} /\ wrapped' = wrapped \ {k}
        /\ UNCHANGED <<context, result, found>>
    BY <1>12 DEF namespace_xpath_free
  <2>2. k \notin found /\ k \in wrapped
    BY <2>1, Slots DEF XPathTyped, XPathTypeOK
  <2>3. /\ In("ready")' = In("ready") /\ In("wrapping")' = In("wrapping")
        /\ LiveContext' = LiveContext
    BY <2>1 DEF In, LiveContext
  <2>4. XPathTypeOK'
    BY <2>1, <2>2, <2>3 DEF XPathTyped, XPathTypeOK
  <2> QED BY <2>1, <2>2, <2>3, <2>4 DEF XPathTyped
<1>13. CASE UNCHANGED allVars
  BY <1>1, <1>13 DEF allVars
<1> QED
  BY <1>1, <1>2, <1>3, <1>4, <1>5, <1>6, <1>7, <1>8, <1>9, <1>10, <1>11, <1>12, <1>13
     DEF XPathNext, NodeStep

\* There are no contexts and no results at first.
LEMMA InitXPathTyped ==
  ASSUME XPathInit
  PROVE  XPathTyped
<1>1. NoContext \in ContextRecord /\ NoResult \in ResultRecord
  BY DEF NoContext, ContextRecord, NoResult, ResultRecord
<1>2. \A x \in Result : result[x] = NoResult
  BY DEF XPathInit
<1>3. In("ready") = {} /\ In("wrapping") = {} /\ LiveContext = {}
  BY <1>2 DEF XPathInit, In, NoResult, LiveContext
<1> QED BY <1>1, <1>2, <1>3 DEF XPathInit, XPathTyped, XPathTypeOK, NoResult

\* In whatever order contexts, results and namespace wrappers are finalized:
\* a wrapper never outlives its copy, and none that is held is to go.
THEOREM XPathTypes == XPathSpec => []XPathTypeOK
<1>1. XPathInit => IInv /\ XPathTyped
  BY InitIInv, InitXPathTyped DEF XPathInit
<1>2. IInv /\ XPathTyped /\ [XPathNext]_allVars => (IInv /\ XPathTyped)'
  BY XPathKeepsIInv, XPathKeepsTyped
<1>3. XPathTyped => XPathTypeOK
  BY DEF XPathTyped
<1> QED BY <1>1, <1>2, <1>3, PTL DEF XPathSpec

\* The results whose namespace nodes the collector leaves alone: those whose
\* array it has found each time.
Guarded == {x \in (found \cap Result) \cup In("wrapping") : ~result[x].missed}

\* Each namespace node of such a result is still to be wrapped, or its
\* wrapper is in the array, and no wrapper in the array is doomed.
NsGuarded ==
  \A x \in Guarded : /\ result[x].ns \subseteq result[x].todo \cup result[x].nsnodes
                     /\ result[x].nsnodes \subseteq wrapped \ trash

\* What a step leaves if it adds no such result and dooms no wrapper.
LEMMA GuardedFewer ==
  ASSUME NsGuarded, UNCHANGED <<result, wrapped>>, Guarded' \subseteq Guarded,
         trash' \cap wrapped \subseteq trash
  PROVE  NsGuarded'
BY DEF NsGuarded

\* The array keeps the wrappers of the namespace nodes alive until the
\* program has let go of the result or a collection has missed the array.
LEMMA NsGuardedKept ==
  ASSUME XPathTyped, NsGuarded, [XPathNext]_allVars
  PROVE  NsGuarded'
<1>0. \A y \in Guarded : y \in Result
  BY DEF Guarded, In
<1>1. CASE UNCHANGED <<result, wrapped, trash>> /\ found' \cap Result \subseteq found
  <2>1. Guarded' \subseteq Guarded
    BY <1>1 DEF Guarded, In
  <2> QED BY <1>1, <2>1, GuardedFewer
<1>2. ASSUME NEW o, NEW k \in Context, context_initialize(o, k) \/ context_node_set(k, o)
      PROVE  NsGuarded'
  BY <1>1, <1>2, SlotsDistinct DEF context_initialize, context_node_set
<1>3. ASSUME NEW k, NEW x \in Result, NEW S, NEW K, context_find(k, x, S, K)
      PROVE  NsGuarded'
  <2> DEFINE r == [state |-> "wrapping", doc |-> context[k].doc, nodes |-> S, ns |-> K,
                   todo |-> K, nsnodes |-> {}, missed |-> FALSE]
  <2>1. /\ result' = [result EXCEPT ![x] = r] /\ result \in [Result -> ResultRecord]
        /\ UNCHANGED <<wrapped, found, trash>>
    BY <1>3 DEF context_find, XPathTyped, XPathTypeOK
  <2>2. \A y \in Result : result'[y] = IF y = x THEN r ELSE result[y]
    BY <2>1
  <2>3. Guarded' \subseteq Guarded \cup {x}
    BY <2>1, <2>2 DEF Guarded, In
  <2> QED BY <1>0, <2>1, <2>2, <2>3 DEF NsGuarded
<1>4. ASSUME NEW x \in Result, NEW k \in Ns, NEW pushed \in BOOLEAN, object_wrap_ns(x, k, pushed)
      PROVE  NsGuarded'
  <2>1. /\ result[x].state = "wrapping" /\ k \in result[x].todo /\ trash = {} /\ trash' = trash
        /\ pushed \/ result[x].missed
        /\ wrapped' = wrapped \cup {k} /\ found' = found
        /\ result' = [result EXCEPT ![x].todo = @ \ {k},
                                    ![x].nsnodes = IF pushed THEN @ \cup {k} ELSE @]
        /\ result \in [Result -> ResultRecord]
    BY <1>4 DEF object_wrap_ns, XPathTyped, XPathTypeOK
  <2>2. /\ \A y \in Result \ {x} : result'[y] = result[y]
        /\ result'[x].ns = result[x].ns /\ result'[x].state = result[x].state
        /\ result'[x].missed = result[x].missed
        /\ result'[x].todo = result[x].todo \ {k}
        /\ pushed => result'[x].nsnodes = result[x].nsnodes \cup {k}
    BY <2>1 DEF ResultRecord
  <2>3. Guarded' = Guarded /\ (x \in Guarded => pushed)
    BY <2>1, <2>2 DEF Guarded, In
  <2> QED BY <1>0, <2>1, <2>2, <2>3 DEF NsGuarded
<1>5. ASSUME NEW x \in Result, object_wrap_end(x) PROVE NsGuarded'
  <2>1. /\ result[x].state = "wrapping" /\ UNCHANGED <<wrapped, trash>> /\ found' = found \cup {x}
        /\ result' = [result EXCEPT ![x].state = "ready"] /\ result \in [Result -> ResultRecord]
    BY <1>5 DEF object_wrap_end, XPathTyped, XPathTypeOK
  <2>2. \A y \in Result : /\ result'[y].state = IF y = x THEN "ready" ELSE result[y].state
                          /\ result'[y].ns = result[y].ns /\ result'[y].todo = result[y].todo
                          /\ result'[y].nsnodes = result[y].nsnodes
                          /\ result'[y].missed = result[y].missed
    BY <2>1 DEF ResultRecord
  <2>3. Guarded' \subseteq Guarded
    BY <2>1, <2>2 DEF Guarded, In
  <2> QED BY <1>0, <2>1, <2>2, <2>3 DEF NsGuarded
<1>6. ASSUME NEW x \in Result, object_tabref(x) PROVE NsGuarded'
  <2>1. CASE UNCHANGED xpathVars
    BY <1>1, <2>1 DEF xpathVars
  <2>2. CASE ~UNCHANGED xpathVars
    <3>1. PICK k \in result[x].ns \cap copies : found' = found \cup {k}
      BY <1>6, <2>2 DEF object_tabref
    <3>2. UNCHANGED <<result, wrapped, trash>> /\ k \in Ns
      BY <1>6, <2>2 DEF object_tabref, XPathTyped, XPathTypeOK
    <3> QED BY <1>1, <3>1, <3>2, SlotsDistinct
  <2> QED BY <2>1, <2>2
<1>7. ASSUME NEW q \in found, drop_found(q) PROVE NsGuarded'
  BY <1>1, <1>7 DEF drop_found
<1>8. ASSUME NEW lost, collect(lost) PROVE NsGuarded'
  <2> DEFINE marked == UNION {object_mark_ns(x) : x \in found \cap Result}
             made   == UNION {result[x].nsnodes : x \in In("wrapping") \ lost}
  <2>1. result \in [Result -> ResultRecord] /\ UNCHANGED <<wrapped, found>>
    BY <1>8 DEF collect, XPathTyped, XPathTypeOK
  <2>2. /\ \A x \in Result : x \notin lost => result'[x] = result[x]
        /\ \A x \in Result : /\ result'[x].state = result[x].state
                             /\ x \in lost => result'[x].missed
    <3>1. \A x \in Result \ lost : result'[x] = result[x]
      BY <1>8, Zenon DEF collect
    <3>2. ASSUME NEW x \in Result, x \in lost
          PROVE  result'[x].state = result[x].state /\ result'[x].missed
      <4>1. result'[x] = [result[x] EXCEPT !.nsnodes = {}, !.missed = TRUE]
        BY <1>8, <3>2, Zenon DEF collect
      <4> QED BY <2>1, <4>1 DEF ResultRecord
    <3> QED BY <3>1, <3>2
  <2>3. Guarded' \subseteq Guarded \ lost
    BY <2>1, <2>2 DEF Guarded, In
  <2>4. trash' = (LiveContext \cup In("ready") \cup wrapped) \ (found \cup marked \cup made)
    BY <1>8, Zenon DEF collect
  <2>5. /\ \A x \in found \cap Result : result[x].nsnodes \subseteq marked
        /\ \A x \in In("wrapping") \ lost : result[x].nsnodes \subseteq made
    BY DEF object_mark_ns
  <2> HIDE DEF marked, made
  <2>6. \A x \in Guarded \ lost : result[x].nsnodes \cap trash' = {}
    BY <2>4, <2>5 DEF Guarded
  <2> QED BY <1>0, <2>1, <2>2, <2>3, <2>6 DEF NsGuarded
<1>9. ASSUME NEW k, context_free(k) PROVE NsGuarded'
  <2>1. UNCHANGED <<result, wrapped, found>> /\ trash' \subseteq trash
    BY <1>9 DEF context_free
  <2>2. Guarded' = Guarded
    BY <2>1 DEF Guarded, In
  <2> QED BY <2>1, <2>2, GuardedFewer
<1>10. ASSUME NEW x \in Result, object_free(x) PROVE NsGuarded'
  <2>1. /\ x \in trash /\ trash' = trash \ {x} /\ result' = [result EXCEPT ![x] = NoResult]
        /\ UNCHANGED <<wrapped, found>> /\ result \in [Result -> ResultRecord]
    BY <1>10 DEF object_free, XPathTyped, XPathTypeOK
  <2>2. \A y \in Result : result'[y] = IF y = x THEN NoResult ELSE result[y]
    BY <2>1
  <2>3. x \notin found
    BY <2>1 DEF XPathTyped, XPathTypeOK
  <2>4. Guarded' \subseteq Guarded \ {x}
    BY <2>1, <2>2, <2>3 DEF Guarded, In, NoResult
  <2> QED BY <1>0, <2>1, <2>2, <2>4 DEF NsGuarded
<1>11. ASSUME NEW k \in Ns, namespace_xpath_free(k) PROVE NsGuarded'
  <2>1. /\ k \in trash /\ trash' = trash \ {k} /\ wrapped' = wrapped \ {k}
        /\ UNCHANGED <<result, found>>
    BY <1>11 DEF namespace_xpath_free
  <2>2. Guarded' = Guarded
    BY <2>1 DEF Guarded, In
  <2> QED BY <2>1, <2>2 DEF NsGuarded
<1>12. CASE UNCHANGED xpathVars
  BY <1>1, <1>12 DEF xpathVars
<1> QED
  BY <1>2, <1>3, <1>4, <1>5, <1>6, <1>7, <1>8, <1>9, <1>10, <1>11, <1>12
     DEF XPathNext, NodeStep, allVars

\* The namespace nodes the program can still ask for have not been freed, as
\* long as no collection in the middle of rxml_xpath_object_wrap has missed
\* the array they are in; and even if one has, every copy has a wrapper that
\* is going to free it, and those the program holds are there.
THEOREM NamespacesKept == XPathSpec => []NsKept
<1>1. XPathInit => IInv /\ XPathTyped /\ NsGuarded
  <2>1. XPathInit => Guarded = {}
    BY DEF XPathInit, Guarded, In, NoResult
  <2> QED BY <2>1, InitIInv, InitXPathTyped DEF XPathInit, NsGuarded
<1>2. IInv /\ XPathTyped /\ NsGuarded /\ [XPathNext]_allVars
         => (IInv /\ XPathTyped /\ NsGuarded)'
  BY XPathKeepsIInv, XPathKeepsTyped, NsGuardedKept
<1>3. ASSUME XPathTyped, NsGuarded PROVE NsKept
  <2>1. wrapped \subseteq copies
    BY <1>3 DEF XPathTyped, XPathTypeOK
  <2>2. copies \subseteq wrapped \cup UNION {result[x].todo : x \in In("wrapping")}
    BY <1>3 DEF XPathTyped
  <2>3. \A x \in found \cap Result : result[x].ns \subseteq copies \/ result[x].missed
    BY <1>3, <2>1 DEF NsGuarded, Guarded, XPathTyped
  <2>4. found \cap Ns \subseteq copies
    BY <1>3, <2>1, Slots
  <2> QED BY <2>2, <2>3, <2>4 DEF NsKept
<1> QED BY <1>1, <1>2, <1>3, PTL DEF XPathSpec

-----------------------------------------------------------------------------

\* The documents that searches keep: of the contexts and results the program
\* holds, and of the result being made, whose context it holds.
KeptDocs ==
  {context[k].doc : k \in found \cap Context} \cup {result[x].doc : x \in found \cap Result}

DocsKept ==
  /\ \A d \in KeptDocs : /\ d \in InUse(xml) \cap Doc
                         /\ xml[d].private \notin garbage
  /\ \A x \in In("wrapping") : \E k \in found \cap Context : result[x].doc = context[k].doc

\* While nothing is collected, an edit is one of NodeMemory.
LEMMA StepKeepsTrees ==
  ASSUME LawAbiding, IInv, HeldTrees, garbage = {}, [Next]_vars
  PROVE  HeldTrees'
BY NextKeepsTInv DEF TInv

\* The trees stay trees: a collection beside searches spares more of them.
LEMMA XPathKeepsTrees ==
  ASSUME LawAbiding, IInv, HeldTrees, [XPathNext]_allVars
  PROVE  HeldTrees'
<1>1. CASE NodeStep
  BY <1>1, StepKeepsTrees DEF NodeStep, Idle, Next
<1>2. ASSUME NEW x \in Result, object_tabref(x) PROVE HeldTrees'
  <2>1. CASE \E n \in result[x].nodes : Follow(n) /\ UNCHANGED garbage
    BY <1>2, <2>1, FollowKeeps DEF object_tabref, Running, Idle, TInv
  <2>2. CASE UNCHANGED vars
    BY <1>2, <2>2, StepKeepsTrees DEF object_tabref, Idle
  <2> QED BY <1>2, <2>1, <2>2 DEF object_tabref
<1>3. ASSUME NEW lost, collect(lost) PROVE HeldTrees'
  <2>1. UNCHANGED <<xml, ruby, held>> /\ garbage' \subseteq Live \ Marked
    BY <1>3 DEF collect
  <2>2. ASSUME NEW o \in held, X(o) # NULL
        PROVE  xml[Top(xml, X(o))].private \in Marked
    BY <2>2, MarkedTops DEF HeldTrees
  <2> QED BY <2>1, <2>2 DEF HeldTrees, HeldSafe, X
<1>4. ASSUME NEW o \in Object, sweep(o) PROVE HeldTrees'
  BY <1>4, SweepFreesOwn
<1>5. CASE UNCHANGED vars
  BY <1>5 DEF vars, HeldTrees, HeldSafe, X
<1> QED
  BY <1>1, <1>2, <1>3, <1>4, <1>5 DEF XPathNext, allVars,
       context_initialize, context_node_set, context_find, object_wrap_ns, object_wrap_end,
       drop_found, context_free, object_free, namespace_xpath_free

\* What a finalizer leaves of a document that is kept.
LEMMA SweepKeepsDoc ==
  ASSUME IInv, HeldTrees, NEW o \in Object, sweep(o),
         NEW d \in InUse(xml) \cap Doc, xml[d].private \notin garbage
  PROVE  /\ d \in InUse(xml') /\ xml'[d].private = xml[d].private
         /\ \A n \in InUse(xml) : xml[n].doc = d => n \in InUse(xml')
<1>1. Trees(xml) /\ Forest(xml) /\ o \in garbage
  BY DEF HeldTrees, Trees, sweep
<1>2. /\ \A x \in InUse(xml) : xml[Top(xml, x)].private # o => x \in InUse(xml')
      /\ \A x \in InUse(xml') : xml[x].private # o => xml'[x].private = xml[x].private
  BY SweepFreesOwn
<1>3. Top(xml, d) = d
  <2>1. xml[d].parent = NULL
    BY <1>1 DEF Forest, LinkedAt
  <2> QED BY <1>1, <2>1, Tops
<1>4. \A n \in InUse(xml) : xml[n].doc = d => Top(xml, n) = d
  BY <1>1, DocBelow, CellsDistinct
<1> QED BY <1>1, <1>2, <1>3, <1>4

\* What a step does to the structures.
LEMMA XPathSteps ==
  ASSUME IInv, [XPathNext]_allVars
  PROVE  \/ garbage' = {} /\ (Kept \/ Edit)
         \/ \E lost : collect(lost)
         \/ \E o \in Object : sweep(o)
         \/ UNCHANGED <<xml, garbage>>
<1>1. CASE NodeStep
  BY <1>1, MakeKeeps, MoveKeeps, EditKeeps DEF NodeStep, Kept, drop, Running
<1>2. ASSUME NEW x \in Result, object_tabref(x)
      PROVE  (garbage' = {} /\ Kept) \/ UNCHANGED <<xml, garbage>>
  BY <1>2, FollowKeeps DEF object_tabref, Running, Idle, vars
<1>3. CASE UNCHANGED vars
  BY <1>3 DEF vars
<1> QED
  BY <1>1, <1>2, <1>3 DEF XPathNext, allVars,
       context_initialize, context_node_set, context_find, object_wrap_ns, object_wrap_end,
       drop_found, context_free, object_free, namespace_xpath_free

\* A document that is kept stays.
LEMMA KeptDocStays ==
  ASSUME IInv, HeldTrees, DocsKept, [XPathNext]_allVars, NEW d \in KeptDocs
  PROVE  d \in InUse(xml') /\ xml'[d].private \notin garbage'
<1>1. d \in InUse(xml) \cap Doc /\ xml[d].private \notin garbage
  BY DEF DocsKept
<1>2. CASE garbage' = {} /\ (Kept \/ Edit)
  BY <1>1, <1>2, EditKeeps DEF Kept
<1>3. ASSUME NEW o \in Object, sweep(o)
      PROVE  d \in InUse(xml') /\ xml'[d].private \notin garbage'
  BY <1>1, <1>3, SweepKeepsDoc DEF sweep
<1>4. ASSUME NEW lost, collect(lost)
      PROVE  d \in InUse(xml') /\ xml'[d].private \notin garbage'
  <2> DEFINE contexts == UNION {context_mark(k) : k \in found \cap Context}
             results  == UNION {object_mark_doc(x) : x \in found \cap Result}
  <2>1. /\ garbage' = Live \ (Marked \cup contexts \cup results)
        /\ xml' = xml
    BY <1>4, Zenon DEF collect
  <2>2. /\ \A k \in found \cap Context : xml[context[k].doc].private \in contexts
        /\ \A x \in found \cap Result : xml[result[x].doc].private \in results \cup {NULL}
    BY DEF context_mark, object_mark_doc
  <2> HIDE DEF contexts, results
  <2>3. NULL \notin Live
    BY CellsDistinct DEF Live
  <2> QED BY <1>1, <2>1, <2>2, <2>3 DEF KeptDocs
<1> QED BY <1>1, <1>2, <1>3, <1>4, XPathSteps

\* The documents to be kept stay, and those that join them are in use.
LEMMA XPathKeepsDocs ==
  ASSUME IInv, HeldTrees, XPathTyped, DocsKept, [XPathNext]_allVars
  PROVE  DocsKept'
<1> DEFINE Named == \A x \in In("wrapping") :
                      \E k \in found \cap Context : result[x].doc = context[k].doc
<1>1. ASSUME \A k \in found' \cap Context : k \in found /\ context'[k].doc = context[k].doc,
             \A x \in found' \cap Result : x \in found /\ result'[x].doc = result[x].doc,
             Named'
      PROVE  DocsKept'
  <2>1. KeptDocs' \subseteq KeptDocs
    BY <1>1 DEF KeptDocs
  <2> QED BY <1>1, <2>1, KeptDocStays DEF DocsKept
<1>2. ASSUME UNCHANGED <<context, result>>,
             found' \cap (Context \cup Result) \subseteq found,
             found \cap Context \subseteq found' \/ In("wrapping") = {}
      PROVE  DocsKept'
  <2>1. Named'
    BY <1>2 DEF DocsKept, In
  <2> QED BY <1>1, <1>2, <2>1
<1>3. /\ result \in [Result -> ResultRecord] /\ context \in [Context -> ContextRecord]
      /\ found \cap trash = {} /\ copies \subseteq Ns
  BY DEF XPathTyped, XPathTypeOK
<1>4. ASSUME NEW o \in held, NEW k \in Context, context_initialize(o, k) PROVE DocsKept'
  <2> DEFINE d == SearchedDoc(o)
  <2>1. /\ d # NULL /\ k \notin found /\ found' = found \cup {k} /\ garbage = {}
        /\ In("wrapping") = {} /\ UNCHANGED <<result, xml, garbage>>
        /\ context' = [context EXCEPT ![k] = [doc |-> d, node |-> NULL]]
    BY <1>4, Slots DEF context_initialize, Idle, vars
  <2>2. d \in Doc /\ d \in InUse(xml)
    <3>1. CASE IsDocument(o)
      BY <3>1, ReceiverInUse DEF SearchedDoc
    <3>2. CASE ~IsDocument(o) /\ IsNode(o)
      BY <2>1, <3>2, ReceiverInUse, DocBelow DEF SearchedDoc, HeldTrees
    <3> QED BY <2>1, <3>1, <3>2 DEF SearchedDoc
  <2> HIDE DEF d
  <2>3. \A j \in Context : context'[j].doc = IF j = k THEN d ELSE context[j].doc
    BY <1>3, <2>1
  <2>4. KeptDocs' \subseteq KeptDocs \cup {d}
    BY <2>1, <2>3, SlotsDistinct DEF KeptDocs
  <2>5. In("wrapping")' = {}
    BY <2>1 DEF In
  <2> QED BY <2>1, <2>2, <2>4, <2>5, KeptDocStays DEF DocsKept
<1>5. ASSUME NEW o \in held, NEW k \in Context, context_node_set(k, o) PROVE DocsKept'
  <2>1. /\ context' = [context EXCEPT ![k].node = X(o)] /\ In("wrapping") = {}
        /\ UNCHANGED <<found, result>>
    BY <1>5 DEF context_node_set, Idle
  <2>2. \A j \in Context : context'[j].doc = context[j].doc
    BY <1>3, <2>1 DEF ContextRecord
  <2>3. Named'
    BY <2>1 DEF In
  <2> QED BY <1>1, <2>1, <2>2, <2>3
<1>6. ASSUME NEW k \in Context, NEW x \in Result, NEW S, NEW K, context_find(k, x, S, K)
      PROVE  DocsKept'
  <2> DEFINE r == [state |-> "wrapping", doc |-> context[k].doc, nodes |-> S, ns |-> K,
                   todo |-> K, nsnodes |-> {}, missed |-> FALSE]
  <2>1. /\ result' = [result EXCEPT ![x] = r] /\ k \in found /\ In("wrapping") = {}
        /\ UNCHANGED <<found, context>> /\ result[x].state = "none"
    BY <1>6 DEF context_find, Idle
  <2>2. /\ \A y \in Result \ {x} : result'[y] = result[y]
        /\ result'[x].doc = context[k].doc
    BY <1>3, <2>1
  <2>3. x \notin found
    BY <2>1, Slots DEF In
  <2>4. In("wrapping")' \subseteq {x}
    BY <2>1, <2>2 DEF In
  <2> QED BY <1>1, <2>1, <2>2, <2>3, <2>4
<1>7. ASSUME \A y \in Result : result'[y].doc = result[y].doc /\ result'[y].state = result[y].state,
             UNCHANGED <<context, found>>
      PROVE  DocsKept'
  <2>1. Named'
    BY <1>7 DEF DocsKept, In
  <2> QED BY <1>1, <1>7, <2>1
<1>8. ASSUME NEW x \in Result, NEW k \in Ns, NEW pushed \in BOOLEAN, object_wrap_ns(x, k, pushed)
      PROVE  DocsKept'
  <2>1. \A y \in Result : result'[y].doc = result[y].doc /\ result'[y].state = result[y].state
    BY <1>3, <1>8 DEF object_wrap_ns, ResultRecord
  <2> QED BY <1>7, <1>8, <2>1 DEF object_wrap_ns
<1>9. ASSUME NEW x \in Result, object_wrap_end(x) PROVE DocsKept'
  <2>1. /\ result' = [result EXCEPT ![x].state = "ready"] /\ found' = found \cup {x}
        /\ UNCHANGED <<xml, garbage, context>> /\ x \in In("wrapping") /\ garbage = {}
    BY <1>9 DEF object_wrap_end, In, vars
  <2>2. \A y \in Result : /\ result'[y].doc = result[y].doc
                          /\ result'[y].state = IF y = x THEN "ready" ELSE result[y].state
    BY <1>3, <2>1 DEF ResultRecord
  <2>3. result[x].doc \in KeptDocs
    BY <2>1 DEF DocsKept, KeptDocs
  <2>4. KeptDocs' \subseteq KeptDocs
    BY <2>1, <2>2, <2>3, SlotsDistinct DEF KeptDocs
  <2>5. Named'
    BY <2>1, <2>2 DEF DocsKept, In
  <2> QED BY <2>4, <2>5, KeptDocStays DEF DocsKept
<1>10. ASSUME NEW x \in Result, object_tabref(x) PROVE DocsKept'
  <2>1. CASE UNCHANGED xpathVars
    BY <1>2, <2>1 DEF xpathVars
  <2>2. CASE ~UNCHANGED xpathVars
    <3>1. PICK k \in result[x].ns \cap copies : found' = found \cup {k}
      BY <1>10, <2>2 DEF object_tabref
    <3>2. UNCHANGED <<result, context>> /\ k \in Ns
      BY <1>3, <1>10, <2>2 DEF object_tabref
    <3> QED BY <1>2, <3>1, <3>2, SlotsDistinct
  <2> QED BY <2>1, <2>2
<1>11. ASSUME NEW q \in found, drop_found(q) PROVE DocsKept'
  BY <1>2, <1>11 DEF drop_found, Idle
<1>12. ASSUME NEW lost, collect(lost) PROVE DocsKept'
  <2>1. \A y \in Result : result'[y].doc = result[y].doc /\ result'[y].state = result[y].state
    BY <1>3, <1>12 DEF collect, ResultRecord
  <2> QED BY <1>7, <1>12, <2>1 DEF collect
<1>13. ASSUME NEW k \in Context, context_free(k) PROVE DocsKept'
  <2>1. /\ k \in trash /\ context' = [context EXCEPT ![k] = NoContext] /\ UNCHANGED <<found, result>>
    BY <1>13 DEF context_free
  <2>2. \A j \in found \cap Context : context'[j] = context[j]
    BY <1>3, <2>1
  <2>3. Named'
    BY <2>1, <2>2 DEF DocsKept, In
  <2> QED BY <1>1, <2>1, <2>2, <2>3
<1>14. ASSUME NEW x \in Result, object_free(x) PROVE DocsKept'
  <2>1. /\ x \in trash /\ result' = [result EXCEPT ![x] = NoResult] /\ UNCHANGED <<found, context>>
    BY <1>14 DEF object_free
  <2>2. \A y \in Result : result'[y] = IF y = x THEN NoResult ELSE result[y]
    BY <1>3, <2>1
  <2>3. x \notin found
    BY <1>3, <2>1
  <2>4. Named'
    BY <2>1, <2>2 DEF DocsKept, In, NoResult
  <2> QED BY <1>1, <2>1, <2>2, <2>3, <2>4
<1>15. ASSUME NEW k \in Ns, namespace_xpath_free(k) PROVE DocsKept'
  BY <1>2, <1>15 DEF namespace_xpath_free
<1>16. CASE UNCHANGED xpathVars
  BY <1>2, <1>16 DEF xpathVars
<1> QED
  BY <1>4, <1>5, <1>6, <1>8, <1>9, <1>10, <1>11, <1>12, <1>13, <1>14, <1>15, <1>16
     DEF XPathNext, NodeStep, allVars

\* While the program holds a result or a context, a collection takes away
\* neither its document nor the nodes that are in that document's tree.
THEOREM CollectionsKeepResults == ASSUME LawAbiding PROVE XPathSpec => CollectionKeepsResult
<1> DEFINE Inv == IInv /\ HeldTrees /\ XPathTyped /\ DocsKept
           Safe == /\ \A x \in found \cap Result : \A n \in result[x].nodes :
                        (n \in InUse(xml) /\ xml[n].doc = result[x].doc) => n \in InUse(xml')
                   /\ \A k \in found \cap Context :
                        LET n == context[k].node
                        IN /\ context[k].doc \in InUse(xml')
                           /\ (n \in InUse(xml) /\ xml[n].doc = context[k].doc) => n \in InUse(xml')
<1>1. XPathInit => Inv
  <2>1. ASSUME XPathInit PROVE IInv /\ HeldTrees /\ XPathTyped /\ found = {} /\ In("wrapping") = {}
    BY <2>1, InitIInv, InitTInv, InitXPathTyped DEF XPathInit, TInv, In, NoResult
  <2> QED BY <2>1 DEF DocsKept, KeptDocs
<1>2. Inv /\ [XPathNext]_allVars => Inv'
  BY XPathKeepsIInv, XPathKeepsTrees, XPathKeepsTyped, XPathKeepsDocs
<1>3. ASSUME Inv, [XPathNext]_allVars, garbage # {} PROVE Safe
  <2>1. (\E o \in Object : sweep(o)) \/ UNCHANGED xml
    BY <1>3 DEF XPathNext, allVars, vars, NodeStep, Idle, collect, context_initialize,
         context_node_set, context_find, object_wrap_ns, object_wrap_end, object_tabref,
         drop_found, context_free, object_free, namespace_xpath_free
  <2>2. ASSUME NEW d \in KeptDocs
        PROVE  \A n \in InUse(xml) : xml[n].doc = d => n \in InUse(xml')
    BY <1>3, <2>1, SweepKeepsDoc DEF DocsKept
  <2>3. \A d \in KeptDocs : d \in InUse(xml')
    BY <1>3, KeptDocStays
  <2> QED BY <2>2, <2>3 DEF KeptDocs
<1>4. Inv /\ [XPathNext]_allVars => [garbage # {} => Safe]_allVars
  BY <1>3
<1> QED BY <1>1, <1>2, <1>4, PTL DEF XPathSpec, CollectionKeepsResult

-----------------------------------------------------------------------------
(* What the steps of attributes and namespaces do to the structures.       *)

CompanionStep ==
  \/ garbage = {} /\ [Next]_vars
  \/ \E c : Running /\ Follow(c)
  \/ \E d \in Doc : Running /\ document_wrap(xml, ruby, d)
  \/ \E o \in Object : sweep(o)
  \/ garbage = {} /\ UNCHANGED <<xml, ruby, held>> /\ garbage' \subseteq Live \ Marked
  \/ UNCHANGED vars

\* A document in use has its wrapper: retrieving it changes no structure.
LEMMA DocumentRetrieved ==
  ASSUME IInv, NEW d \in Doc, Running, document_wrap(xml, ruby, d)
  PROVE  /\ UNCHANGED <<xml, ruby>> /\ IInv' /\ Kept
         /\ held' = held \cup {xml[d].private} /\ X(xml[d].private) = d
<1>1. d \in InUse(xml) /\ d \in Cell /\ xml[d].private # NULL
  BY DEF document_wrap, Wrap, IInv, DocsBound, InUse
<1>2. UNCHANGED <<xml, ruby>> /\ held' = held \cup {xml[d].private}
  BY <1>1 DEF document_wrap, Wrap
<1>3. xml[d].private \in Object /\ ruby[xml[d].private].ptr = d /\ d # NULL
  BY <1>1, CellsDistinct DEF IInv, Consistent, Heap, XmlRecord
<1>4. xml[d].private \in LiveIn(ruby)
  BY <1>3 DEF IInv, Consistent, LiveIn
<1>5. garbage = {} /\ garbage' = {}
  BY DEF Running
<1> QED BY <1>2, <1>3, <1>4, <1>5 DEF IInv, LiveIn, Kept, X

LEMMA CompanionKeepsIInv ==
  ASSUME IInv, CompanionStep
  PROVE  IInv'
<1>1. CASE garbage = {} /\ UNCHANGED <<xml, ruby, held>> /\ garbage' \subseteq Live \ Marked
  BY <1>1 DEF IInv, Live, LiveIn, Marked
<1>2. CASE UNCHANGED vars
  BY <1>2, NextKeepsIInv
<1>3. CASE garbage = {} /\ [Next]_vars
  BY <1>3, NextKeepsIInv
<1> QED BY <1>1, <1>2, <1>3, FollowKeeps, DocumentRetrieved, SweepKeepsIInv DEF CompanionStep

LEMMA CompanionKeepsTrees ==
  ASSUME LawAbiding, IInv, HeldTrees, CompanionStep
  PROVE  HeldTrees'
<1>1. CASE garbage = {} /\ [Next]_vars
  BY <1>1, StepKeepsTrees
<1>2. ASSUME NEW c, Running, Follow(c) PROVE HeldTrees'
  BY <1>2, FollowKeeps DEF TInv, Running
<1>3. ASSUME NEW d \in Doc, Running, document_wrap(xml, ruby, d) PROVE HeldTrees'
  <2>1. xml' = xml /\ garbage' = {}
    BY <1>3, DocumentRetrieved DEF Running
  <2> QED BY <2>1 DEF HeldTrees
<1>4. ASSUME NEW o \in Object, sweep(o) PROVE HeldTrees'
  BY <1>4, SweepFreesOwn
<1>5. CASE garbage = {} /\ UNCHANGED <<xml, ruby, held>> /\ garbage' \subseteq Live \ Marked
  <2>1. ASSUME NEW o \in held, X(o) # NULL
        PROVE  xml[Top(xml, X(o))].private \in Marked
    BY <2>1, MarkedTops DEF HeldTrees
  <2> QED BY <1>5, <2>1 DEF HeldTrees, HeldSafe, X
<1>6. CASE UNCHANGED vars
  BY <1>6 DEF vars, HeldTrees, HeldSafe, X
<1> QED BY <1>1, <1>2, <1>3, <1>4, <1>5, <1>6 DEF CompanionStep

-----------------------------------------------------------------------------
(* Attributes.                                                             *)

LEMMA AttrSteps ==
  ASSUME AttrTypeOK, [AttrNext]_allAttrVars
  PROVE  CompanionStep
<1>1. CASE AttrNodeStep
  BY <1>1 DEF AttrNodeStep, AttrIdle, MakeNode, Make, Next, CompanionStep
<1>2. ASSUME NEW o \in held, attr_node_copy(o) PROVE CompanionStep
  <2>1. Running /\ IsNode(o)
    BY <1>2 DEF attr_node_copy, AttrIdle, Running
  <2>2. \E S \in {{X(o)}, Subtree(xml, X(o))} : \E f \in [S -> FreeNodes(xml)] :
           /\ \A x, y \in S : f[x] = f[y] => x = y
           /\ node_wrap(CopyNode(xml, S, f), ruby, f[X(o)])
    <3>1. PICK deep \in BOOLEAN :
             \E f \in [(IF deep THEN Subtree(xml, X(o)) ELSE {X(o)}) -> FreeNodes(xml)] :
                /\ \A x, y \in (IF deep THEN Subtree(xml, X(o)) ELSE {X(o)}) : f[x] = f[y] => x = y
                /\ node_wrap(CopyNode(xml, IF deep THEN Subtree(xml, X(o)) ELSE {X(o)}, f), ruby, f[X(o)])
      BY <1>2, Zenon DEF attr_node_copy
    <3> QED BY <3>1
  <2>3. node_copy(o)
    BY <2>1, <2>2 DEF node_copy
  <2> QED BY <2>1, <2>3 DEF Make, Next, CompanionStep, Running
<1>3. ASSUME NEW a \in attrHeld, attr_doc_get(a) PROVE CompanionStep
  <2>1. a \in Attr
    BY <1>3 DEF AttrTypeOK, UsedAttrs
  <2>2. attr[a].doc \in Doc
    BY <1>3, <2>1 DEF attr_doc_get, AttrTypeOK, AttrRecord
  <2> QED BY <1>3, <2>2 DEF attr_doc_get, AttrIdle, Running, CompanionStep
<1>4. ASSUME NEW c, AttrIdle, UNCHANGED garbage, Follow(c) PROVE CompanionStep
  BY <1>4 DEF AttrIdle, Running, CompanionStep
<1>5. CASE attr_collect
  <2>1. Live \ AttrMarked \subseteq Live \ Marked
    BY DEF AttrMarked
  <2> QED BY <1>5, <2>1 DEF attr_collect, AttrIdle, CompanionStep
<1>6. CASE UNCHANGED vars
  BY <1>6 DEF CompanionStep
<1>7. ASSUME NEW o \in Object, attr_node_sweep(o) PROVE CompanionStep
  BY <1>7 DEF attr_node_sweep, CompanionStep
<1> QED
  BY <1>1, <1>2, <1>3, <1>4, <1>5, <1>6, <1>7 DEF AttrNext, AttrStep, allAttrVars, attr_initialize, lang_set,
      space_preserve_set, base_uri_set, attributes_get, attributes_node_get, get_attribute,
      attribute_set, attr_next_get, attr_prev_get, attr_parent_get, attr_drop, attr_remove_ex,
      attributes_each, attributes_each_next, attributes_each_break, attributes_drop, attr_sweep

\* The attributes of the nodes that are freed are freed, those of the others
\* have the doc pointers of their nodes.
LEMMA FollowTyped ==
  ASSUME AttrTypeOK, xml \in Heap, xml' \in Heap, AttrsFollow
  PROVE  /\ AttrTypeOK'
         /\ \A a \in UsedAttrs : (attr[a].parent = NULL \/ attr[a].parent \in InUse(xml'))
                => /\ a \in UsedAttrs' /\ attr'[a].parent = attr[a].parent
                   /\ a \in attrHeld => a \in attrHeld'
<1> DEFINE gone  == {n \in Node : xml[n].type # "free" /\ xml'[n].type = "free"}
           freed == {a \in UsedAttrs : attr[a].parent \in gone}
<1>1. /\ attr \in [Attr -> AttrRecord] /\ props \in [Node -> Seq(Attr)]
      /\ attrHeld \subseteq bound /\ bound \subseteq UsedAttrs
      /\ attrTrash \subseteq bound \ attrHeld
      /\ \A n \in Node : /\ \A i, j \in DOMAIN props[n] : props[n][i] = props[n][j] => i = j
                         /\ ListOf(n) = {a \in UsedAttrs : attr[a].parent = n}
                         /\ props[n] # <<>> => n \in InUse(xml)
  BY DEF AttrTypeOK
<1>2. /\ attr' = [a \in Attr |->
                   IF a \in freed THEN NoAttr
                   ELSE IF attr[a].parent = NULL THEN attr[a]
                   ELSE [attr[a] EXCEPT !.doc = xml'[attr[a].parent].doc]]
      /\ props' = [n \in Node |-> IF n \in gone THEN <<>> ELSE props[n]]
      /\ bound' = bound \ freed /\ attrHeld' = attrHeld \ freed /\ attrTrash' = attrTrash \ freed
  BY Zenon DEF AttrsFollow, deregisterAttrs
<1>3. /\ NULL \notin Node /\ \A n \in Node : n \in Cell /\ xml'[n].doc \in Doc \cup {NULL}
      /\ \A n \in Node : n \in gone <=> n \in InUse(xml) /\ n \notin InUse(xml')
  BY CellsDistinct DEF Heap, XmlRecord, Cell, InUse
<1>4. /\ NoAttr \in AttrRecord /\ NoAttr.used = FALSE /\ NoAttr.parent = NULL
      /\ \A a \in freed : a \in UsedAttrs /\ a \in Attr /\ attr[a].parent \in gone
      /\ \A a \in UsedAttrs : attr[a].parent \in gone => a \in freed
      /\ \A a \in UsedAttrs : a \in Attr /\ attr[a].used
      /\ gone \subseteq Node
  BY DEF NoAttr, AttrRecord, UsedAttrs
<1> HIDE DEF freed, gone
<1>5. ASSUME NEW a \in Attr
      PROVE  /\ attr'[a] \in AttrRecord
             /\ a \in freed => ~attr'[a].used /\ attr'[a].parent = NULL
             /\ a \notin freed => attr'[a].used = attr[a].used /\ attr'[a].parent = attr[a].parent
             /\ (a \notin freed /\ attr[a].parent # NULL)
                   => attr'[a].doc = xml'[attr[a].parent].doc
  BY <1>1, <1>2, <1>3, <1>4 DEF AttrRecord
<1>6. UsedAttrs' = UsedAttrs \ freed
  BY <1>4, <1>5 DEF UsedAttrs
<1>7. attr' \in [Attr -> AttrRecord] /\ props' \in [Node -> Seq(Attr)]
  BY <1>1, <1>2, <1>5
<1>8. ASSUME NEW n \in Node
      PROVE  /\ \A i, j \in DOMAIN props'[n] : props'[n][i] = props'[n][j] => i = j
             /\ ListOf(n)' = {a \in UsedAttrs' : attr'[a].parent = n}
             /\ props'[n] # <<>> => n \in InUse(xml')
  <2>1. CASE n \in gone
    <3>1. props'[n] = <<>>
      BY <1>2, <2>1
    <3>2. \A a \in UsedAttrs' : attr'[a].parent # n
      BY <1>3, <1>4, <1>5, <1>6, <2>1
    <3> QED BY <3>1, <3>2 DEF ListOf
  <2>2. CASE n \notin gone
    <3>1. props'[n] = props[n]
      BY <1>2, <2>2
    <3>2. \A a \in UsedAttrs : attr[a].parent = n => a \notin freed
      BY <1>4, <2>2
    <3>3. {a \in UsedAttrs' : attr'[a].parent = n} = {a \in UsedAttrs : attr[a].parent = n}
      BY <1>3, <1>4, <1>5, <1>6, <3>2
    <3>4. ListOf(n)' = ListOf(n)
      BY <3>1 DEF ListOf
    <3>5. n \in InUse(xml) => n \in InUse(xml')
      BY <1>3, <2>2
    <3> QED BY <1>1, <3>1, <3>3, <3>4, <3>5
  <2> QED BY <2>1, <2>2
<1>9. \A a \in UsedAttrs' : attr'[a].parent # NULL => attr'[a].doc = xml'[attr'[a].parent].doc
  BY <1>4, <1>5, <1>6
<1>10. attrHeld' \subseteq bound' /\ bound' \subseteq UsedAttrs' /\ attrTrash' \subseteq bound' \ attrHeld'
  BY <1>1, <1>2, <1>6
<1>11. AttrTypeOK'
  BY <1>7, <1>8, <1>9, <1>10 DEF AttrTypeOK
<1>12. ASSUME NEW a \in UsedAttrs, attr[a].parent = NULL \/ attr[a].parent \in InUse(xml')
       PROVE  /\ a \in UsedAttrs' /\ attr'[a].parent = attr[a].parent
              /\ a \in attrHeld => a \in attrHeld'
  <2>1. a \notin freed
    BY <1>3, <1>4, <1>12
  <2> QED BY <1>2, <1>4, <1>5, <1>6, <2>1
<1> QED BY <1>11, <1>12

\* What the structures of nodes have to keep for the attributes to be right.
NodesAsBefore == \A n \in Node : /\ n \in InUse(xml) => n \in InUse(xml')
                                 /\ n \in InUse(xml) => xml'[n].doc = xml[n].doc

\* Some of the attributes get wrappers, or lose the program's interest.
LEMMA WrappersTyped ==
  ASSUME AttrTypeOK, NodesAsBefore, UNCHANGED <<attr, props>>,
         attrHeld' \subseteq bound', bound' \subseteq UsedAttrs, attrTrash' \subseteq bound' \ attrHeld'
  PROVE  AttrTypeOK'
<1>1. /\ attr \in [Attr -> AttrRecord] /\ props \in [Node -> Seq(Attr)]
      /\ \A n \in Node : /\ \A i, j \in DOMAIN props[n] : props[n][i] = props[n][j] => i = j
                         /\ ListOf(n) = {a \in UsedAttrs : attr[a].parent = n}
                         /\ props[n] # <<>> => n \in InUse(xml)
      /\ \A a \in UsedAttrs : attr[a].parent # NULL => attr[a].doc = xml[attr[a].parent].doc
  BY DEF AttrTypeOK
<1>2. UsedAttrs' = UsedAttrs /\ \A n : ListOf(n)' = ListOf(n)
  BY DEF UsedAttrs, ListOf
<1>3. ASSUME NEW a \in UsedAttrs, attr[a].parent # NULL
      PROVE  attr[a].doc = xml'[attr[a].parent].doc
  <2>1. a \in Attr /\ attr[a].parent \in Node
    BY <1>1, <1>3 DEF UsedAttrs, AttrRecord
  <2>2. a \in ListOf(attr[a].parent)
    BY <1>1, <2>1
  <2>3. props[attr[a].parent] # <<>>
    BY <2>2 DEF ListOf
  <2> QED BY <1>1, <1>3, <2>1, <2>3 DEF NodesAsBefore
<1> QED BY <1>1, <1>2, <1>3 DEF AttrTypeOK, NodesAsBefore

\* A new attribute is the last of its node.
LEMMA NewPropTyped ==
  ASSUME AttrTypeOK, IInv, NodesAsBefore, NEW n \in Node \cap InUse(xml), NEW a \in Attr, NewProp(n, a),
         attrTrash = {}, attrTrash' = {},
         attrHeld' \subseteq bound', bound' \subseteq bound \cup {a}
  PROVE  AttrTypeOK'
<1>1. /\ attr \in [Attr -> AttrRecord] /\ props \in [Node -> Seq(Attr)]
      /\ bound \subseteq UsedAttrs
      /\ \A m \in Node : /\ \A i, j \in DOMAIN props[m] : props[m][i] = props[m][j] => i = j
                         /\ ListOf(m) = {b \in UsedAttrs : attr[b].parent = m}
                         /\ props[m] # <<>> => m \in InUse(xml)
      /\ \A b \in UsedAttrs : attr[b].parent # NULL => attr[b].doc = xml[attr[b].parent].doc
  BY DEF AttrTypeOK
<1> DEFINE r == [used |-> TRUE, parent |-> n, doc |-> xml[n].doc]
<1>2. r \in AttrRecord /\ r.used /\ r.parent = n /\ r.doc = xml[n].doc
  BY Fields DEF AttrRecord, IInv, Consistent, Cell
<1>3. /\ a \notin UsedAttrs /\ attr' = [attr EXCEPT ![a] = r]
      /\ props' = [props EXCEPT ![n] = Append(@, a)]
  BY DEF NewProp
<1> HIDE DEF r
<1>4. attr' \in [Attr -> AttrRecord] /\ \A b \in Attr : attr'[b] = IF b = a THEN r ELSE attr[b]
  BY <1>1, <1>2, <1>3
<1>5. /\ props' \in [Node -> Seq(Attr)]
      /\ \A m \in Node : m # n => props'[m] = props[m]
      /\ props'[n] = Append(props[n], a)
  BY <1>1, <1>3
<1>6. UsedAttrs' = UsedAttrs \cup {a}
  BY <1>2, <1>4 DEF UsedAttrs
<1>7. /\ DOMAIN props'[n] = DOMAIN props[n] \cup {Len(props[n]) + 1}
      /\ Len(props[n]) + 1 \notin DOMAIN props[n]
      /\ \A i \in DOMAIN props[n] : props'[n][i] = props[n][i]
      /\ props'[n][Len(props[n]) + 1] = a
      /\ DOMAIN props[n] = 1..Len(props[n]) /\ Len(props[n]) \in Nat
  <2>1. props[n] \in Seq(Attr)
    BY <1>1
  <2> QED BY <1>5, <2>1
<1>8. ListOf(n)' = ListOf(n) \cup {a}
  BY <1>7 DEF ListOf
<1>9. \A i \in DOMAIN props[n] : props[n][i] # a
  BY <1>1, <1>3 DEF ListOf
<1>10. ASSUME NEW m \in Node
       PROVE  /\ \A i, j \in DOMAIN props'[m] : props'[m][i] = props'[m][j] => i = j
              /\ ListOf(m)' = {b \in UsedAttrs' : attr'[b].parent = m}
              /\ props'[m] # <<>> => m \in InUse(xml')
  <2>1. {b \in UsedAttrs' : attr'[b].parent = m} = {b \in UsedAttrs : attr[b].parent = m}
                                                      \cup (IF m = n THEN {a} ELSE {})
    BY <1>2, <1>3, <1>4, <1>6 DEF UsedAttrs
  <2>2. CASE m = n
    <3>1. \A i, j \in DOMAIN props'[n] : props'[n][i] = props'[n][j] => i = j
      BY <1>1, <1>7, <1>9
    <3> QED BY <1>1, <1>8, <2>1, <2>2, <3>1 DEF NodesAsBefore
  <2>3. CASE m # n
    <3>1. props'[m] = props[m] /\ ListOf(m)' = ListOf(m)
      BY <1>5, <2>3 DEF ListOf
    <3> QED BY <1>1, <2>1, <2>3, <3>1 DEF NodesAsBefore
  <2> QED BY <2>2, <2>3
<1>11. ASSUME NEW b \in UsedAttrs', attr'[b].parent # NULL
       PROVE  attr'[b].doc = xml'[attr'[b].parent].doc
  <2>1. CASE b = a
    BY <1>2, <1>4, <2>1 DEF NodesAsBefore
  <2>2. CASE b # a
    <3>1. b \in UsedAttrs /\ b \in Attr /\ attr'[b] = attr[b]
      BY <1>4, <1>6, <2>2 DEF UsedAttrs
    <3>2. attr[b].parent \in Node
      BY <1>1, <1>11, <3>1 DEF AttrRecord
    <3>3. b \in ListOf(attr[b].parent)
      BY <1>1, <3>1, <3>2
    <3>4. props[attr[b].parent] # <<>>
      BY <3>3 DEF ListOf
    <3> QED BY <1>1, <1>11, <3>1, <3>2, <3>4 DEF NodesAsBefore
  <2> QED BY <2>1, <2>2
<1>12. bound' \subseteq UsedAttrs'
  BY <1>1, <1>6
<1> QED BY <1>4, <1>5, <1>10, <1>11, <1>12 DEF AttrTypeOK

\* Where an attribute stands among those of its node.
LEMMA PlaceOf ==
  ASSUME AttrTypeOK, NEW a \in UsedAttrs, attr[a].parent # NULL
  PROVE  LET n == attr[a].parent
         IN /\ n \in Node /\ n \in InUse(xml) /\ props[n] \in Seq(Attr)
            /\ Place(a) \in 1..Len(props[n]) /\ props[n][Place(a)] = a
            /\ Len(props[n]) \in Nat /\ DOMAIN props[n] = 1..Len(props[n])
<1> DEFINE n == attr[a].parent
<1>1. n \in Node /\ a \in Attr
  BY DEF AttrTypeOK, AttrRecord, UsedAttrs
<1>2. a \in ListOf(n)
  BY <1>1 DEF AttrTypeOK
<1>3. \E i \in DOMAIN props[n] : props[n][i] = a
  BY <1>2 DEF ListOf
<1>4. Place(a) \in DOMAIN props[n] /\ props[n][Place(a)] = a
  BY <1>3 DEF Place
<1>5. props[n] \in Seq(Attr)
  BY <1>1 DEF AttrTypeOK
<1>6. DOMAIN props[n] = 1..Len(props[n]) /\ Len(props[n]) \in Nat
  BY <1>5
<1>7. props[n] # <<>>
  BY <1>3
<1>8. n \in InUse(xml)
  BY <1>1, <1>7 DEF AttrTypeOK
<1> QED BY <1>1, <1>4, <1>5, <1>6, <1>8

\* Attr#remove! takes an attribute from the list of its node.
LEMMA RemoveTyped ==
  ASSUME AttrTypeOK, NEW a \in attrHeld, attr_remove_ex(a)
  PROVE  /\ AttrTypeOK'
         /\ \A b \in UsedAttrs : /\ b \in UsedAttrs'
                                 /\ b # a => attr'[b] = attr[b]
         /\ LET n == attr[a].parent IN Len(props'[n]) < Len(props[n])
<1>1. /\ attr \in [Attr -> AttrRecord] /\ props \in [Node -> Seq(Attr)]
      /\ attrHeld \subseteq bound /\ bound \subseteq UsedAttrs
      /\ \A m \in Node : /\ \A i, j \in DOMAIN props[m] : props[m][i] = props[m][j] => i = j
                         /\ ListOf(m) = {b \in UsedAttrs : attr[b].parent = m}
                         /\ props[m] # <<>> => m \in InUse(xml)
      /\ \A b \in UsedAttrs : attr[b].parent # NULL => attr[b].doc = xml[attr[b].parent].doc
  BY DEF AttrTypeOK
<1>2. /\ a \in UsedAttrs /\ a \in Attr /\ attr[a].parent # NULL /\ NULL \notin Node
      /\ attr' = [attr EXCEPT ![a].parent = NULL] /\ props' = Unlinked(a)
      /\ UNCHANGED <<xml, bound, attrHeld, attrTrash>>
  BY <1>1, CellsDistinct DEF attr_remove_ex, UsedAttrs, vars
<1> DEFINE n == attr[a].parent
           l == props[n]
           k == Place(a)
           s == [i \in 1..(Len(l) - 1) |-> IF i < k THEN l[i] ELSE l[i + 1]]
<1>3. /\ n \in Node /\ n \in InUse(xml) /\ l \in Seq(Attr) /\ k \in 1..Len(l) /\ l[k] = a
      /\ Len(l) \in Nat /\ DOMAIN l = 1..Len(l)
  BY <1>2, PlaceOf
<1>4. props' = [props EXCEPT ![n] = s]
  BY <1>2 DEF Unlinked
<1>5. \A i \in 1..Len(l) : l[i] \in Attr
  BY <1>3
<1>6. \A i, j \in 1..Len(l) : l[i] = l[j] => i = j
  BY <1>1, <1>3
<1> HIDE DEF n, l, k
<1>7. s \in Seq(Attr) /\ Len(s) = Len(l) - 1 /\ DOMAIN s = 1..(Len(l) - 1)
  <2>1. s \in [1..(Len(l) - 1) -> Attr] /\ Len(l) - 1 \in Nat
    BY <1>3, <1>5
  <2> HIDE DEF s
  <2> QED BY <2>1
<1>8. \A i, j \in DOMAIN s : s[i] = s[j] => i = j
  BY <1>3, <1>6, <1>7
<1>9. {s[i] : i \in DOMAIN s} = {l[i] : i \in DOMAIN l} \ {a}
  <2>1. ASSUME NEW i \in DOMAIN s PROVE \E j \in DOMAIN l : s[i] = l[j] /\ j # k
    BY <1>3, <1>7
  <2>2. ASSUME NEW j \in DOMAIN l, j # k PROVE \E i \in DOMAIN s : s[i] = l[j]
    <3>1. CASE j < k
      <4>1. j \in DOMAIN s /\ s[j] = l[j]
        BY <1>3, <1>7, <2>2, <3>1
      <4> QED BY <4>1
    <3>2. CASE j > k
      <4>1. j - 1 \in DOMAIN s /\ s[j - 1] = l[j]
        BY <1>3, <1>7, <2>2, <3>2
      <4> QED BY <4>1
    <3> QED BY <1>3, <2>2, <3>1, <3>2
  <2>3. \A j \in DOMAIN l : j # k => l[j] # a
    BY <1>3, <1>6
  <2> HIDE DEF s
  <2> QED BY <1>3, <2>1, <2>2, <2>3
<1> HIDE DEF s
<1>10. /\ attr' \in [Attr -> AttrRecord]
       /\ \A b \in Attr : b # a => attr'[b] = attr[b]
       /\ attr'[a].used /\ attr'[a].parent = NULL
  BY <1>1, <1>2 DEF AttrRecord, UsedAttrs
<1>11. UsedAttrs' = UsedAttrs
  BY <1>2, <1>10 DEF UsedAttrs
<1>12. /\ props' \in [Node -> Seq(Attr)] /\ props'[n] = s
       /\ \A m \in Node : m # n => props'[m] = props[m]
  BY <1>1, <1>3, <1>4, <1>7
<1>13. ASSUME NEW m \in Node
       PROVE  /\ \A i, j \in DOMAIN props'[m] : props'[m][i] = props'[m][j] => i = j
              /\ ListOf(m)' = {b \in UsedAttrs' : attr'[b].parent = m}
              /\ props'[m] # <<>> => m \in InUse(xml')
  <2>1. {b \in UsedAttrs' : attr'[b].parent = m} = {b \in UsedAttrs : attr[b].parent = m} \ {a}
    BY <1>2, <1>10, <1>11 DEF UsedAttrs
  <2>2. CASE m = n
    <3>1. props'[m] = s /\ props[m] = l
      BY <1>12, <2>2 DEF l
    <3>2. ListOf(m)' = ListOf(m) \ {a}
      BY <1>9, <3>1 DEF ListOf
    <3>3. InUse(xml') = InUse(xml)
      BY <1>2
    <3>4. ListOf(m) = {b \in UsedAttrs : attr[b].parent = m}
      BY <1>1
    <3> QED BY <1>3, <1>8, <2>1, <2>2, <3>1, <3>2, <3>3, <3>4
  <2>3. CASE m # n
    <3>1. props'[m] = props[m] /\ ListOf(m)' = ListOf(m) /\ InUse(xml') = InUse(xml)
      BY <1>2, <1>12, <2>3 DEF ListOf
    <3>2. a \notin ListOf(m)
      BY <1>1, <2>3 DEF n
    <3> QED BY <1>1, <2>1, <3>1, <3>2
  <2> QED BY <2>2, <2>3
<1>14. \A b \in UsedAttrs' : attr'[b].parent # NULL => attr'[b].doc = xml'[attr'[b].parent].doc
  BY <1>1, <1>2, <1>10, <1>11 DEF UsedAttrs
<1>15. attrHeld' \subseteq bound' /\ bound' \subseteq UsedAttrs' /\ attrTrash' \subseteq bound' \ attrHeld'
  BY <1>2, <1>11 DEF AttrTypeOK
<1>16. AttrTypeOK'
  BY <1>10, <1>12, <1>13, <1>14, <1>15 DEF AttrTypeOK
<1>17. Len(props'[n]) < Len(props[n])
  BY <1>3, <1>7, <1>12 DEF l
<1> QED BY <1>10, <1>11, <1>16, <1>17 DEF UsedAttrs, n

\* A deep copy of S has copies of its attributes A, in the same order.
AttrsCopied(S, A, f, g) ==
  /\ S \in SUBSET Node /\ A = UNION {ListOf(n) : n \in S}
  /\ f \in [S -> FreeNodes(xml)] /\ \A x, y \in S : f[x] = f[y] => x = y
  /\ g \in [A -> Attr \ UsedAttrs] /\ \A x, y \in A : g[x] = g[y] => x = y
  /\ \A x \in S \cap InUse(xml) : f[x] \in InUse(xml') /\ xml'[f[x]].doc = NULL
  /\ attr' = [a \in Attr |->
                IF \E x \in A : g[x] = a
                THEN [used |-> TRUE, doc |-> NULL, parent |-> f[attr[CHOOSE x \in A : g[x] = a].parent]]
                ELSE attr[a]]
  /\ props' = [n \in Node |->
                 IF \E x \in S : f[x] = n
                 THEN LET l == props[CHOOSE x \in S : f[x] = n] IN [i \in DOMAIN l |-> g[l[i]]]
                 ELSE props[n]]
  /\ UNCHANGED <<bound, attrHeld, attrTrash>>

LEMMA CopyTyped ==
  ASSUME AttrTypeOK, NodesAsBefore, NEW S, NEW A, NEW f, NEW g, AttrsCopied(S, A, f, g)
  PROVE  AttrTypeOK' /\ \A b \in UsedAttrs : b \in UsedAttrs' /\ attr'[b] = attr[b]
<1>1. /\ attr \in [Attr -> AttrRecord] /\ props \in [Node -> Seq(Attr)]
      /\ attrHeld \subseteq bound /\ bound \subseteq UsedAttrs /\ attrTrash \subseteq bound \ attrHeld
      /\ \A m \in Node : /\ \A i, j \in DOMAIN props[m] : props[m][i] = props[m][j] => i = j
                         /\ ListOf(m) = {b \in UsedAttrs : attr[b].parent = m}
                         /\ props[m] # <<>> => m \in InUse(xml)
      /\ \A b \in UsedAttrs : attr[b].parent # NULL => attr[b].doc = xml[attr[b].parent].doc
  BY DEF AttrTypeOK
<1>2. ASSUME NEW b \in UsedAttrs, attr[b].parent # NULL
      PROVE  /\ b \in Attr /\ attr[b].parent \in Node /\ attr[b].parent \in InUse(xml)
             /\ b \in ListOf(attr[b].parent)
  <2>1. b \in Attr /\ attr[b].parent \in Node
    BY <1>1, <1>2 DEF UsedAttrs, AttrRecord
  <2>2. b \in ListOf(attr[b].parent)
    BY <1>1, <2>1
  <2>3. props[attr[b].parent] # <<>>
    BY <2>2 DEF ListOf
  <2> QED BY <1>1, <2>1, <2>2, <2>3
<1>3. \A x \in A : x \in UsedAttrs /\ attr[x].parent \in S /\ attr[x].parent \in InUse(xml)
  <2>1. ASSUME NEW n \in S, NEW x \in ListOf(n)
        PROVE  x \in UsedAttrs /\ attr[x].parent = n /\ n # NULL
    <3>1. n \in Node
      BY DEF AttrsCopied
    <3> QED BY <1>1, <3>1, CellsDistinct
  <2>2. A = UNION {ListOf(n) : n \in S}
    BY DEF AttrsCopied
  <2> QED BY <1>2, <2>1, <2>2
<1>4. \A b \in UsedAttrs : attr[b].parent \in S => b \in A
  <2>1. S \subseteq Node /\ A = UNION {ListOf(n) : n \in S}
    BY DEF AttrsCopied
  <2> QED BY <1>1, <2>1
<1>5. /\ g \in [A -> Attr \ UsedAttrs] /\ \A x, y \in A : g[x] = g[y] => x = y
      /\ S \subseteq Node /\ f \in [S -> FreeNodes(xml)] /\ \A x, y \in S : f[x] = f[y] => x = y
      /\ A = UNION {ListOf(n) : n \in S}
      /\ \A x \in S \cap InUse(xml) : f[x] \in InUse(xml') /\ xml'[f[x]].doc = NULL
      /\ UNCHANGED <<bound, attrHeld, attrTrash>>
  BY DEF AttrsCopied
<1>a. attr' = [a \in Attr |->
                IF \E x \in A : g[x] = a
                THEN [used |-> TRUE, doc |-> NULL, parent |-> f[attr[CHOOSE x \in A : g[x] = a].parent]]
                ELSE attr[a]]
  BY DEF AttrsCopied
<1>b. props' = [n \in Node |->
                 IF \E x \in S : f[x] = n
                 THEN LET l == props[CHOOSE x \in S : f[x] = n] IN [i \in DOMAIN l |-> g[l[i]]]
                 ELSE props[n]]
  BY DEF AttrsCopied
<1>6. ASSUME NEW x \in A
      PROVE  /\ g[x] \in Attr /\ g[x] \notin UsedAttrs
             /\ attr'[g[x]] \in AttrRecord /\ attr'[g[x]].used /\ attr'[g[x]].doc = NULL
             /\ attr'[g[x]].parent = f[attr[x].parent]
             /\ f[attr[x].parent] \in Node /\ f[attr[x].parent] \notin InUse(xml)
  <2>1. g[x] \in Attr /\ g[x] \notin UsedAttrs
    BY <1>5
  <2>2. (CHOOSE y \in A : g[y] = g[x]) = x
    BY <1>5
  <2>3. f[attr[x].parent] \in Node /\ f[attr[x].parent] \notin InUse(xml)
    BY <1>3, <1>5 DEF FreeNodes
  <2>4. attr'[g[x]] = [used |-> TRUE, doc |-> NULL, parent |-> f[attr[x].parent]]
    BY <1>a, <2>1, <2>2
  <2> QED BY <2>1, <2>3, <2>4 DEF AttrRecord
<1>7. \A b \in Attr : (\A x \in A : g[x] # b) => attr'[b] = attr[b]
  BY <1>a
<1>8. ASSUME NEW b \in Attr
      PROVE  attr'[b] \in AttrRecord
  <2>1. CASE \E x \in A : g[x] = b
    BY <1>6, <2>1 DEF AttrRecord
  <2>2. CASE \A x \in A : g[x] # b
    BY <1>1, <1>7, <2>2
  <2> QED BY <2>1, <2>2
<1>9. attr' \in [Attr -> AttrRecord]
  BY <1>a, <1>8
<1>10. UsedAttrs' = UsedAttrs \cup {g[x] : x \in A}
  <2>1. ASSUME NEW b \in Attr
        PROVE  attr'[b].used <=> b \in UsedAttrs \/ \E x \in A : g[x] = b
    <3>1. CASE \E x \in A : g[x] = b
      BY <1>6, <3>1
    <3>2. CASE \A x \in A : g[x] # b
      BY <1>7, <3>2 DEF UsedAttrs
    <3> QED BY <3>1, <3>2
  <2>2. \A x \in A : g[x] \in Attr
    BY <1>6
  <2> QED BY <2>1, <2>2 DEF UsedAttrs
<1>11. \A b \in UsedAttrs : attr'[b] = attr[b]
  BY <1>6, <1>7 DEF UsedAttrs
<1>12. ASSUME NEW n \in S
       PROVE  LET l == props[n]
              IN /\ f[n] \in Node /\ f[n] \notin InUse(xml)
                 /\ l \in Seq(Attr) /\ \A i \in DOMAIN l : l[i] \in A
                 /\ props'[f[n]] = [i \in DOMAIN l |-> g[l[i]]]
                 /\ \A i, j \in DOMAIN l : l[i] = l[j] => i = j
  <2>1. n \in Node /\ f[n] \in Node /\ f[n] \notin InUse(xml)
    BY <1>5 DEF FreeNodes
  <2>2. (CHOOSE x \in S : f[x] = f[n]) = n
    BY <1>5
  <2>3. \A i \in DOMAIN props[n] : props[n][i] \in A
    BY <1>5 DEF ListOf
  <2>4. props'[f[n]] = [i \in DOMAIN props[n] |-> g[props[n][i]]]
    BY <1>b, <2>1, <2>2
  <2> QED BY <1>1, <2>1, <2>3, <2>4
<1>13. \A m \in Node : (\A x \in S : f[x] # m) => props'[m] = props[m]
  BY <1>b
<1>14. ASSUME NEW m \in Node
       PROVE  /\ props'[m] \in Seq(Attr)
              /\ \A i, j \in DOMAIN props'[m] : props'[m][i] = props'[m][j] => i = j
              /\ ListOf(m)' = {b \in UsedAttrs' : attr'[b].parent = m}
              /\ props'[m] # <<>> => m \in InUse(xml')
  <2>1. ASSUME NEW n \in S, f[n] = m
        PROVE  /\ props'[m] \in Seq(Attr)
               /\ \A i, j \in DOMAIN props'[m] : props'[m][i] = props'[m][j] => i = j
               /\ ListOf(m)' = {b \in UsedAttrs' : attr'[b].parent = m}
               /\ props'[m] # <<>> => m \in InUse(xml')
    <3> DEFINE l == props[n]
    <3>1. /\ l \in Seq(Attr) /\ \A i \in DOMAIN l : l[i] \in A
          /\ props'[m] = [i \in DOMAIN l |-> g[l[i]]]
          /\ \A i, j \in DOMAIN l : l[i] = l[j] => i = j
          /\ ListOf(n) = {l[i] : i \in DOMAIN l}
          /\ m \notin InUse(xml)
      BY <1>12, <2>1 DEF ListOf
    <3>2. n \in Node /\ (props[n] # <<>> => n \in InUse(xml))
      BY <1>1, <1>5
    <3> HIDE DEF l
    <3>3. DOMAIN props'[m] = DOMAIN l /\ \A i \in DOMAIN l : props'[m][i] = g[l[i]] /\ g[l[i]] \in Attr
      BY <1>6, <3>1
    <3>4. props'[m] \in Seq(Attr)
      <4>1. DOMAIN l = 1..Len(l) /\ Len(l) \in Nat
        BY <3>1
      <4>2. props'[m] \in [1..Len(l) -> Attr]
        BY <3>1, <3>3, <4>1
      <4> QED BY <4>1, <4>2
    <3>5. \A i, j \in DOMAIN props'[m] : props'[m][i] = props'[m][j] => i = j
      BY <1>5, <3>1, <3>3
    <3>6. ListOf(m)' = {g[l[i]] : i \in DOMAIN l}
      BY <3>3 DEF ListOf
    <3>7. ASSUME NEW b \in UsedAttrs', attr'[b].parent = m
          PROVE  \E i \in DOMAIN l : b = g[l[i]]
      <4>1. CASE b \in UsedAttrs
        <5>1. attr[b].parent = m /\ m # NULL
          BY <1>11, <3>1, <4>1, <3>7, CellsDistinct
        <5> QED BY <1>2, <3>1, <4>1, <5>1
      <4>2. CASE b \notin UsedAttrs
        <5>1. PICK x \in A : b = g[x]
          BY <1>10, <4>2
        <5>2. f[attr[x].parent] = f[n] /\ attr[x].parent \in S
          BY <1>3, <1>6, <2>1, <3>7, <5>1
        <5>3. attr[x].parent = n /\ x \in UsedAttrs
          BY <1>3, <1>5, <5>1, <5>2
        <5>4. x \in ListOf(n)
          BY <1>1, <3>2, <5>3
        <5> QED BY <3>1, <5>1, <5>4
      <4> QED BY <4>1, <4>2
    <3>8. ASSUME NEW i \in DOMAIN l
          PROVE  g[l[i]] \in UsedAttrs' /\ attr'[g[l[i]]].parent = m
      <4>1. l[i] \in A /\ l[i] \in ListOf(n)
        BY <3>1
      <4>2. attr[l[i]].parent = n
        BY <1>1, <3>2, <4>1
      <4> QED BY <1>6, <1>10, <2>1, <4>1, <4>2
    <3>9. ListOf(m)' = {b \in UsedAttrs' : attr'[b].parent = m}
      BY <3>6, <3>7, <3>8
    <3>10. props'[m] # <<>> => m \in InUse(xml')
      <4>1. ASSUME props'[m] # <<>> PROVE l # <<>>
        BY <3>1, <3>3, <4>1
      <4> QED BY <1>5, <2>1, <3>2, <4>1 DEF l
    <3> QED BY <3>4, <3>5, <3>9, <3>10
  <2>2. CASE \A x \in S : f[x] # m
    <3>1. props'[m] = props[m] /\ ListOf(m)' = ListOf(m)
      BY <1>13, <2>2 DEF ListOf
    <3>2. \A x \in A : attr'[g[x]].parent # m
      BY <1>3, <1>6, <2>2
    <3>3. {b \in UsedAttrs' : attr'[b].parent = m} = {b \in UsedAttrs : attr[b].parent = m}
      BY <1>10, <1>11, <3>2
    <3> QED BY <1>1, <3>1, <3>3 DEF NodesAsBefore
  <2> QED BY <2>1, <2>2
<1>15. ASSUME NEW b \in UsedAttrs', attr'[b].parent # NULL
       PROVE  attr'[b].doc = xml'[attr'[b].parent].doc
  <2>1. CASE b \in UsedAttrs
    BY <1>1, <1>2, <1>11, <1>15, <2>1 DEF NodesAsBefore
  <2>2. CASE b \notin UsedAttrs
    <3>1. PICK x \in A : b = g[x]
      BY <1>10, <2>2
    <3> QED BY <1>3, <1>5, <1>6, <3>1
  <2> QED BY <2>1, <2>2
<1>16. props' \in [Node -> Seq(Attr)]
  BY <1>b, <1>14
<1>17. attrHeld' \subseteq bound' /\ bound' \subseteq UsedAttrs' /\ attrTrash' \subseteq bound' \ attrHeld'
  BY <1>1, <1>5, <1>10
<1>18. AttrTypeOK'
  BY <1>9, <1>14, <1>15, <1>16, <1>17 DEF AttrTypeOK
<1> QED BY <1>10, <1>11, <1>18

\* Attr's free function.
LEMMA AttrSweepTyped ==
  ASSUME AttrTypeOK, NEW a \in Attr, attr_sweep(a)
  PROVE  /\ AttrTypeOK'
         /\ \A b \in attrHeld : attr'[b] = attr[b]
         /\ \A b \in UsedAttrs : attr[b].parent # NULL => b \in UsedAttrs' /\ attr'[b] = attr[b]
<1>1. /\ attr \in [Attr -> AttrRecord] /\ props \in [Node -> Seq(Attr)]
      /\ attrHeld \subseteq bound /\ bound \subseteq UsedAttrs /\ attrTrash \subseteq bound \ attrHeld
      /\ \A m \in Node : /\ \A i, j \in DOMAIN props[m] : props[m][i] = props[m][j] => i = j
                         /\ ListOf(m) = {b \in UsedAttrs : attr[b].parent = m}
                         /\ props[m] # <<>> => m \in InUse(xml)
      /\ \A b \in UsedAttrs : attr[b].parent # NULL => attr[b].doc = xml[attr[b].parent].doc
  BY DEF AttrTypeOK
<1>2. /\ a \in attrTrash /\ attrTrash' = attrTrash \ {a} /\ bound' = bound \ {a}
      /\ attr' = IF attr[a].parent = NULL /\ attr[a].doc = NULL THEN [attr EXCEPT ![a] = NoAttr] ELSE attr
      /\ UNCHANGED <<xml, props, attrHeld>>
  BY DEF attr_sweep, attr_free, vars
<1>3. NoAttr \in AttrRecord /\ NoAttr.used = FALSE
  BY DEF NoAttr, AttrRecord
<1>4. /\ attr' \in [Attr -> AttrRecord]
      /\ \A b \in Attr : b # a => attr'[b] = attr[b]
      /\ attr'[a] = attr[a] \/ (attr[a].parent = NULL /\ attr'[a].used = FALSE)
  BY <1>1, <1>2, <1>3
<1>5. /\ UsedAttrs' \subseteq UsedAttrs /\ UsedAttrs \subseteq UsedAttrs' \cup {a}
      /\ attr[a].parent # NULL => UsedAttrs' = UsedAttrs
  BY <1>4 DEF UsedAttrs
<1>6. \A b \in UsedAttrs' : attr'[b] = attr[b]
  BY <1>4 DEF UsedAttrs
<1>7. ASSUME NEW m \in Node
      PROVE  {b \in UsedAttrs' : attr'[b].parent = m} = {b \in UsedAttrs : attr[b].parent = m}
  <2>1. attr[a].parent = NULL => attr[a].parent # m
    BY CellsDistinct
  <2> QED BY <1>5, <1>6, <2>1
<1>8. \A m \in Node : ListOf(m)' = ListOf(m)
  BY <1>2 DEF ListOf
<1>9. attrHeld' \subseteq bound' /\ bound' \subseteq UsedAttrs' /\ attrTrash' \subseteq bound' \ attrHeld'
  BY <1>1, <1>2, <1>5
<1>10. AttrTypeOK'
  BY <1>1, <1>2, <1>4, <1>5, <1>6, <1>7, <1>8, <1>9 DEF AttrTypeOK
<1>11. a \notin attrHeld
  BY <1>1, <1>2
<1>12. ASSUME NEW b \in attrHeld PROVE attr'[b] = attr[b]
  BY <1>1, <1>4, <1>11 DEF UsedAttrs
<1>13. ASSUME NEW b \in UsedAttrs, attr[b].parent # NULL PROVE b \in UsedAttrs' /\ attr'[b] = attr[b]
  BY <1>4, <1>13 DEF UsedAttrs
<1> QED BY <1>10, <1>12, <1>13

AttrTyped == AttrTypeOK /\ lists \subseteq Node

\* The attributes stay, at their nodes.
AttrsStay == \A a \in UsedAttrs : a \in UsedAttrs' /\ attr'[a].parent = attr[a].parent

LEMMA AttrCopyTyped ==
  ASSUME IInv, AttrTypeOK, NEW o \in held, attr_node_copy(o)
  PROVE  AttrTypeOK' /\ AttrsStay
<1>0. IsNode(o) /\ UNCHANGED <<bound, attrHeld, attrTrash>>
  BY DEF attr_node_copy
<1>1. X(o) \in Node /\ xml \in Heap /\ FreeIsUnbound(xml)
  BY <1>0, ReceiverInUse DEF IInv, Consistent
<1>2. PICK deep \in BOOLEAN :
        LET S == IF deep THEN Subtree(xml, X(o)) ELSE {X(o)}
            A == IF deep THEN UNION {ListOf(n) : n \in S} ELSE {}
        IN \E f \in [S -> FreeNodes(xml)], g \in [A -> Attr \ UsedAttrs] :
             /\ \A x, y \in S : f[x] = f[y] => x = y
             /\ \A x, y \in A : g[x] = g[y] => x = y
             /\ node_wrap(CopyNode(xml, S, f), ruby, f[X(o)])
             /\ attr' = [a \in Attr |->
                           IF \E x \in A : g[x] = a
                           THEN [used |-> TRUE, doc |-> NULL,
                                 parent |-> f[attr[CHOOSE x \in A : g[x] = a].parent]]
                           ELSE attr[a]]
             /\ props' = [n \in Node |->
                            IF deep /\ \E x \in S : f[x] = n
                            THEN LET l == props[CHOOSE x \in S : f[x] = n]
                                 IN [i \in DOMAIN l |-> g[l[i]]]
                            ELSE props[n]]
  BY Zenon DEF attr_node_copy
<1> DEFINE S == IF deep THEN Subtree(xml, X(o)) ELSE {X(o)}
           A == IF deep THEN UNION {ListOf(n) : n \in S} ELSE {}
<1>3. PICK f \in [S -> FreeNodes(xml)], g \in [A -> Attr \ UsedAttrs] :
             /\ \A x, y \in S : f[x] = f[y] => x = y
             /\ \A x, y \in A : g[x] = g[y] => x = y
             /\ node_wrap(CopyNode(xml, S, f), ruby, f[X(o)])
             /\ attr' = [a \in Attr |->
                           IF \E x \in A : g[x] = a
                           THEN [used |-> TRUE, doc |-> NULL,
                                 parent |-> f[attr[CHOOSE x \in A : g[x] = a].parent]]
                           ELSE attr[a]]
             /\ props' = [n \in Node |->
                            IF deep /\ \E x \in S : f[x] = n
                            THEN LET l == props[CHOOSE x \in S : f[x] = n]
                                 IN [i \in DOMAIN l |-> g[l[i]]]
                            ELSE props[n]]
  BY <1>2
<1>4. S \subseteq Node
  BY <1>1, BelowTyped DEF Subtree, Cell
<1>5. deep => A = UNION {ListOf(n) : n \in S}
  OBVIOUS
<1>6. ~deep => A = {}
  OBVIOUS
<1> HIDE DEF S, A
<1>7. S \in SUBSET Cell
  BY <1>4 DEF Cell
<1>8. /\ \A m \in Cell : (\A x \in S : f[x] # m) => CopyNode(xml, S, f)[m] = xml[m]
      /\ \A x \in S : /\ CopyNode(xml, S, f)[f[x]].type = xml[x].type
                      /\ CopyNode(xml, S, f)[f[x]].doc = NULL
      /\ CopyNode(xml, S, f) \in Heap
  <2>1. CopyNode(xml, S, f) \in Heap
    BY <1>1, <1>7, CopyNodeRebinds DEF Rebound
  <2>2. \A x, y \in S : f[x] = f[y] => x = y
    BY <1>3
  <2>3. f \in [S -> FreeNodes(xml)]
    OBVIOUS
  <2>4. /\ \A m \in Cell : (\A x \in S : f[x] # m) => CopyNode(xml, S, f)[m] = xml[m]
        /\ \A x \in S : /\ CopyNode(xml, S, f)[f[x]].type = xml[x].type
                        /\ CopyNode(xml, S, f)[f[x]].doc = NULL
    BY <1>1, <1>7, <2>2, <2>3, CopyNodeFields
  <2> QED BY <2>1, <2>4
<1>9. \A x \in Cell : /\ xml'[x].type = CopyNode(xml, S, f)[x].type
                      /\ xml'[x].doc = CopyNode(xml, S, f)[x].doc
  BY <1>3, <1>8, WrapFrame DEF node_wrap
<1>10. \A x \in S : f[x] \in Node /\ f[x] \in Cell /\ f[x] \notin InUse(xml)
  BY DEF FreeNodes, Cell
<1>11. NodesAsBefore
  BY <1>8, <1>9, <1>10 DEF NodesAsBefore, InUse, Cell
<1>12. \A x \in S \cap InUse(xml) : f[x] \in InUse(xml') /\ xml'[f[x]].doc = NULL
  BY <1>8, <1>9, <1>10 DEF InUse
<1>13. CASE deep
  <2>1. AttrsCopied(S, A, f, g)
    BY <1>0, <1>3, <1>4, <1>5, <1>12, <1>13, Zenon DEF AttrsCopied
  <2>2. AttrTypeOK' /\ \A b \in UsedAttrs : b \in UsedAttrs' /\ attr'[b] = attr[b]
    BY <1>11, <2>1, CopyTyped
  <2> QED BY <2>2 DEF AttrsStay
<1>14. CASE ~deep
  <2>1. attr' = [a \in Attr |-> attr[a]] /\ props' = [n \in Node |-> props[n]]
    BY <1>3, <1>6, <1>14
  <2>2. attr' = attr /\ props' = props
    BY <2>1 DEF AttrTypeOK
  <2>3. AttrTypeOK'
    BY <1>0, <1>11, <2>2, WrappersTyped DEF AttrTypeOK, UsedAttrs
  <2> QED BY <2>2, <2>3 DEF AttrsStay, UsedAttrs
<1> QED BY <1>13, <1>14

\* Attributes that only get wrappers, or are forgotten, are as before.
LEMMA SameAttrs ==
  ASSUME AttrTypeOK, xml' = xml \/ Kept, UNCHANGED <<attr, props>>,
         attrHeld' \subseteq bound', bound' \subseteq UsedAttrs, attrTrash' \subseteq bound' \ attrHeld'
  PROVE  AttrTypeOK' /\ AttrsStay
<1>1. NodesAsBefore
  BY DEF NodesAsBefore, Kept
<1> QED BY <1>1, WrappersTyped DEF AttrsStay, UsedAttrs

LEMMA NewAttr ==
  ASSUME IInv, AttrTypeOK, xml' = xml \/ Kept, NEW n \in Node \cap InUse(xml), NEW a \in Attr, NewProp(n, a),
         attrTrash = {}, attrTrash' = {},
         \/ UNCHANGED <<bound, attrHeld>>
         \/ bound' = bound \cup {a} /\ attrHeld' = attrHeld \cup {a}
  PROVE  AttrTypeOK' /\ AttrsStay
<1>1. NodesAsBefore
  BY DEF NodesAsBefore, Kept
<1>2. attrHeld' \subseteq bound' /\ bound' \subseteq bound \cup {a}
  BY DEF AttrTypeOK
<1>3. AttrTypeOK'
  BY <1>1, <1>2, NewPropTyped
<1>4. \A b \in UsedAttrs : attr'[b] = attr[b] /\ b \in Attr
  BY DEF NewProp, AttrTypeOK, UsedAttrs
<1> QED BY <1>3, <1>4 DEF AttrsStay, UsedAttrs

LEMMA AttrStepTyped ==
  ASSUME IInv, AttrTyped, AttrStep
  PROVE  /\ AttrTypeOK' /\ lists' \subseteq Node
         /\ AttrsStay \/ \E a \in attrHeld : attr_remove_ex(a) /\ StillList
<1>1. /\ AttrTypeOK /\ lists \subseteq Node
      /\ attrHeld \subseteq bound /\ bound \subseteq UsedAttrs
  BY DEF AttrTyped, AttrTypeOK
<1>2. ASSUME NEW o \in held, IsNode(o) PROVE X(o) \in Node \cap InUse(xml)
  BY <1>2, ReceiverInUse
<1>3. ASSUME NEW o \in held, NEW a \in Attr,
             attr_initialize(o, a) \/ lang_set(o, a) \/ space_preserve_set(o, a) \/ base_uri_set(o, a)
      PROVE  AttrTypeOK' /\ lists' \subseteq Node /\ AttrsStay
  <2>1. /\ IsNode(o) /\ NewProp(X(o), a) /\ attrTrash = {} /\ attrTrash' = {}
        /\ xml' = xml /\ lists' = lists
        /\ \/ UNCHANGED <<bound, attrHeld>>
           \/ bound' = bound \cup {a} /\ attrHeld' = attrHeld \cup {a}
    BY <1>3 DEF attr_initialize, lang_set, space_preserve_set, base_uri_set, AttrIdle, vars
  <2> QED BY <1>1, <1>2, <2>1, NewAttr
<1>4. ASSUME NEW n \in lists, NEW a \in Attr, attribute_set(n, a)
      PROVE  AttrTypeOK' /\ lists' \subseteq Node /\ AttrsStay
  <2>1. /\ Running /\ NewProp(n, a) /\ Follow(n) /\ attrTrash = {} /\ attrTrash' = {}
        /\ lists' = lists /\ bound' = bound \cup {a} /\ attrHeld' = attrHeld \cup {a}
    BY <1>4 DEF attribute_set, AttrIdle, Running
  <2>2. n \in InUse(xml) /\ Kept
    BY <2>1, FollowKeeps DEF Follow, node_wrap, Wrap
  <2> QED BY <1>1, <2>1, <2>2, NewAttr
<1>5. ASSUME xml' = xml \/ Kept, UNCHANGED <<attr, props>>, attrTrash = {}, attrTrash' = {},
             \/ \E a : attr_wrap(a)
             \/ bound' = bound /\ attrHeld' \subseteq attrHeld,
             lists' \subseteq Node
      PROVE  AttrTypeOK' /\ lists' \subseteq Node /\ AttrsStay
  <2>1. attrHeld' \subseteq bound' /\ bound' \subseteq UsedAttrs
    BY <1>1, <1>5 DEF attr_wrap
  <2> QED BY <1>1, <1>5, <2>1, SameAttrs
<1>6. ASSUME NEW o \in held, attributes_get(o)
      PROVE  AttrTypeOK' /\ lists' \subseteq Node /\ AttrsStay
  BY <1>1, <1>2, <1>5, <1>6 DEF attributes_get, AttrIdle, vars
<1>7. ASSUME NEW c, AttrIdle, UNCHANGED <<garbage, attrVars>>,
             Follow(c) \/ \E d \in Doc : document_wrap(xml, ruby, d)
      PROVE  AttrTypeOK' /\ lists' \subseteq Node /\ AttrsStay
  <2>1. Running
    BY <1>7 DEF AttrIdle, Running
  <2>2. Kept
    BY <1>7, <2>1, FollowKeeps, DocumentRetrieved
  <2> QED BY <1>1, <1>5, <1>7, <2>2 DEF AttrIdle, attrVars
<1>8. ASSUME NEW a \in attrHeld, attr_doc_get(a)
      PROVE  AttrTypeOK' /\ lists' \subseteq Node /\ AttrsStay
  <2>1. attr[a].doc \in Doc
    BY <1>1, <1>8 DEF attr_doc_get, AttrTypeOK, AttrRecord, UsedAttrs
  <2> QED BY <1>7, <1>8, <2>1 DEF attr_doc_get
<1>9. ASSUME NEW a \in attrHeld, attr_remove_ex(a)
      PROVE  AttrTypeOK' /\ lists' \subseteq Node
  BY <1>1, <1>9, RemoveTyped DEF attr_remove_ex
<1>10. ASSUME \/ \E a \in attrHeld : attr_next_get(a) \/ attr_prev_get(a) \/ attr_drop(a)
              \/ \E n \in lists : get_attribute(n) \/ attributes_each(n) \/ attributes_drop(n)
              \/ attributes_each_next \/ attributes_each_break
      PROVE  AttrTypeOK' /\ lists' \subseteq Node /\ AttrsStay
  <2>1. xml' = xml /\ UNCHANGED <<attr, props, attrTrash>> /\ attrTrash = {} /\ lists' \subseteq lists
    BY <1>10 DEF attr_next_get, attr_prev_get, attr_drop, get_attribute, attributes_each, attributes_drop,
                 attributes_each_next, attributes_each_break, AttrIdle, vars
  <2>2. \/ \E a : attr_wrap(a)
        \/ bound' = bound /\ attrHeld' \subseteq attrHeld
    BY <1>10 DEF attr_next_get, attr_prev_get, attr_drop, get_attribute, attributes_each, attributes_drop,
                 attributes_each_next, attributes_each_break
  <2> QED BY <1>1, <1>5, <2>1, <2>2
<1>11. ASSUME NEW o \in held, attr_node_copy(o)
       PROVE  AttrTypeOK' /\ lists' \subseteq Node /\ AttrsStay
  BY <1>1, <1>11, AttrCopyTyped DEF attr_node_copy
<1> QED BY <1>3, <1>4, <1>6, <1>7, <1>8, <1>9, <1>10, <1>11
        DEF AttrStep, attributes_node_get, attr_parent_get

\* What the steps of nodes leave of the attributes.
AttrsFollowed ==
  \A a \in UsedAttrs : (attr[a].parent = NULL \/ attr[a].parent \in InUse(xml'))
     => /\ a \in UsedAttrs' /\ attr'[a].parent = attr[a].parent
        /\ a \in attrHeld => a \in attrHeld'

LEMMA NodesTyped ==
  ASSUME IInv, IInv', AttrTyped, AttrNodeStep \/ \E o \in Object : attr_node_sweep(o)
  PROVE  AttrTyped' /\ AttrsFollowed /\ UNCHANGED <<lists, attrCursor>>
<1>1. AttrsFollow /\ UNCHANGED <<lists, attrCursor>>
  BY DEF AttrNodeStep, attr_node_sweep
<1>2. xml \in Heap /\ xml' \in Heap
  BY DEF IInv, Consistent
<1> QED BY <1>1, <1>2, FollowTyped DEF AttrTyped, AttrsFollowed

LEMMA AttrKeepsTyped ==
  ASSUME IInv, AttrTyped, [AttrNext]_allAttrVars
  PROVE  IInv' /\ AttrTyped'
<1>0. AttrTypeOK /\ lists \subseteq Node
  BY DEF AttrTyped
<1>1. IInv'
  BY <1>0, AttrSteps, CompanionKeepsIInv
<1>2. CASE AttrNodeStep \/ \E o \in Object : attr_node_sweep(o)
  BY <1>1, <1>2, NodesTyped
<1>3. CASE AttrStep
  BY <1>1, <1>3, AttrStepTyped DEF AttrTyped
<1>4. CASE attr_collect
  <2>1. AttrTypeOK'
    BY <1>0, <1>4, SameAttrs DEF attr_collect, AttrTypeOK
  <2> QED BY <1>0, <1>1, <1>4, <2>1 DEF attr_collect, AttrTyped
<1>5. ASSUME NEW a \in Attr, attr_sweep(a) PROVE AttrTyped'
  BY <1>0, <1>5, AttrSweepTyped DEF attr_sweep, AttrTyped
<1>6. CASE UNCHANGED allAttrVars
  <2>1. AttrTypeOK'
    BY <1>0, <1>6, SameAttrs DEF allAttrVars, vars, attrVars, AttrTypeOK
  <2> QED BY <1>0, <1>1, <1>6, <2>1 DEF allAttrVars, attrVars, AttrTyped
<1> QED BY <1>1, <1>2, <1>3, <1>4, <1>5, <1>6 DEF AttrNext

LEMMA InitAttrTyped ==
  ASSUME AttrInit
  PROVE  IInv /\ AttrTyped
<1>1. IInv
  BY InitIInv DEF AttrInit
<1>2. NoAttr \in AttrRecord /\ NoAttr.used = FALSE
  BY DEF NoAttr, AttrRecord
<1>3. \A a \in Attr : ~attr[a].used
  BY <1>2 DEF AttrInit
<1>4. UsedAttrs = {} /\ \A n \in Node : props[n] = <<>> /\ ListOf(n) = {}
  BY <1>3 DEF UsedAttrs, AttrInit, ListOf
<1>5. attr \in [Attr -> AttrRecord] /\ props \in [Node -> Seq(Attr)]
  BY <1>2 DEF AttrInit
<1> QED BY <1>1, <1>4, <1>5 DEF AttrInit, AttrTyped, AttrTypeOK

\* Every attribute in use is in the list of its parent, once, and has the
\* doc pointer of its parent, by which the mark and free functions decide:
\* no copy, move or removal of nodes or attributes, and no sweep, leaves it
\* otherwise.
THEOREM AttrTypes == AttrSpec => []AttrTypeOK
<1>1. AttrInit => IInv /\ AttrTyped
  BY InitAttrTyped
<1>2. (IInv /\ AttrTyped) /\ [AttrNext]_allAttrVars => (IInv /\ AttrTyped)'
  BY AttrKeepsTyped
<1>3. AttrTyped => AttrTypeOK
  BY DEF AttrTyped
<1> QED BY <1>1, <1>2, <1>3, PTL DEF AttrSpec

\* The nodes that Attr and Attributes objects hold on to.
Anchors == lists \cup ({attr[a].parent : a \in attrHeld} \ {NULL})

\* They are in use, a collection under way leaves their trees alone, and the
\* attribute an each stands on is one of its node.
AttrsKept ==
  /\ lists \subseteq InUse(xml)
  /\ \/ attrCursor = NoAttrCursor
     \/ \E n \in lists, a \in UsedAttrs : attrCursor = [node |-> n, attr |-> a] /\ attr[a].parent = n
  /\ garbage # {} => \A n \in Anchors : xml[Top(xml, n)].private \notin garbage

AttrRulesKept == {"rooted_list", "listed_stays", "still_list"} \subseteq AttrRules

AttrInv == IInv /\ HeldTrees /\ AttrTyped /\ AttrsKept

LEMMA AttachedInUse ==
  ASSUME AttrTypeOK, NEW a \in UsedAttrs, attr[a].parent # NULL
  PROVE  /\ a \in Attr /\ attr[a].parent \in Node \cap InUse(xml) /\ a \in ListOf(attr[a].parent)
         /\ attr[a].doc = xml[attr[a].parent].doc
<1>1. a \in Attr /\ attr[a].parent \in Node
  BY DEF AttrTypeOK, AttrRecord, UsedAttrs
<1>2. a \in ListOf(attr[a].parent)
  BY <1>1 DEF AttrTypeOK
<1>3. props[attr[a].parent] # <<>>
  BY <1>2 DEF ListOf
<1> QED BY <1>1, <1>2, <1>3 DEF AttrTypeOK

LEMMA AnchorsInUse ==
  ASSUME AttrInv
  PROVE  Anchors \subseteq Node \cap InUse(xml)
BY AttachedInUse DEF AttrInv, AttrTyped, AttrsKept, Anchors, AttrTypeOK

LEMMA AttrKeepsTrees ==
  ASSUME LawAbiding, AttrInv, [AttrNext]_allAttrVars
  PROVE  IInv' /\ HeldTrees' /\ AttrTyped'
<1>1. IInv' /\ AttrTyped'
  BY AttrKeepsTyped DEF AttrInv
<1>2. CompanionStep
  BY AttrSteps DEF AttrInv, AttrTyped
<1> QED BY <1>1, <1>2, CompanionKeepsTrees DEF AttrInv

\* Between collections: the node an each runs over is held.
LEMMA CursorStays ==
  ASSUME AttrInv, garbage' = {}, lists' \subseteq InUse(xml'), UNCHANGED attrCursor,
         attrCursor = NoAttrCursor \/ attrCursor.node \in lists',
         AttrsFollowed \/ AttrsStay
  PROVE  AttrsKept'
<1>1. CASE attrCursor = NoAttrCursor
  BY <1>1 DEF AttrsKept, NoAttrCursor
<1>2. CASE attrCursor # NoAttrCursor
  <2>1. PICK n \in lists, a \in UsedAttrs : attrCursor = [node |-> n, attr |-> a] /\ attr[a].parent = n
    BY <1>2 DEF AttrInv, AttrsKept
  <2>2. n \in lists' /\ n \in InUse(xml')
    BY <1>2, <2>1
  <2>3. a \in UsedAttrs' /\ attr'[a].parent = n
    BY <2>1, <2>2 DEF AttrsFollowed, AttrsStay
  <2> QED BY <2>1, <2>2, <2>3 DEF AttrsKept
<1> QED BY <1>1, <1>2

\* The steps of nodes; only an edit frees a node.
LEMMA NodeStepKeeps ==
  ASSUME AttrRulesKept, AttrInv, IInv', AttrNodeStep
  PROVE  AttrsKept'
<1>1. AttrTyped' /\ AttrsFollowed /\ UNCHANGED <<lists, attrCursor>>
  BY NodesTyped DEF AttrInv
<1>2. lists \subseteq InUse(xml) /\ (attrCursor = NoAttrCursor \/ attrCursor.node \in lists)
  BY DEF AttrInv, AttrsKept
<1>3. IInv
  BY DEF AttrInv
<1>4. CASE MakeNode
  <2>1. Make
    BY <1>4 DEF MakeNode, Make
  <2> QED BY <1>1, <1>2, <1>3, <2>1, MakeKeeps, CursorStays DEF Kept
<1>5. CASE Move
  BY <1>1, <1>2, <1>3, <1>5, MoveKeeps, CursorStays DEF Kept
<1>6. ASSUME NEW o \in held, drop(o) PROVE AttrsKept'
  <2>1. xml' = xml /\ garbage' = {}
    BY <1>6 DEF drop, Running
  <2> QED BY <1>1, <1>2, <2>1, CursorStays
<1>7. CASE Edit /\ ListedStays
  <2>1. lists \subseteq InUse(xml')
    BY <1>7 DEF ListedStays, AttrRulesKept
  <2> QED BY <1>1, <1>2, <1>3, <1>7, <2>1, EditKeeps, CursorStays
<1> QED BY <1>4, <1>5, <1>6, <1>7 DEF AttrNodeStep

\* An attribute of the node each runs over is not removed.
LEMMA RemoveKeeps ==
  ASSUME AttrRulesKept, AttrInv, NEW a \in attrHeld, attr_remove_ex(a), StillList
  PROVE  AttrsKept'
<1>1. /\ UNCHANGED <<lists, attrCursor, xml>> /\ garbage' = {} /\ attr[a].parent # NULL
      /\ AttrTypeOK /\ a \in UsedAttrs
  BY DEF attr_remove_ex, AttrIdle, vars, AttrInv, AttrTyped, AttrTypeOK
<1>2. \A b \in UsedAttrs : /\ b \in UsedAttrs'
                           /\ b # a => attr'[b] = attr[b]
  BY <1>1, RemoveTyped
<1>3. CASE attrCursor = NoAttrCursor
  BY <1>1, <1>3 DEF AttrsKept, AttrInv
<1>4. CASE attrCursor # NoAttrCursor
  <2>1. lists \subseteq InUse(xml)
    BY DEF AttrInv, AttrsKept
  <2>0. PICK m \in lists, b \in UsedAttrs : attrCursor = [node |-> m, attr |-> b] /\ attr[b].parent = m
    BY <1>4 DEF AttrInv, AttrsKept
  <2>2. b # a
    <3>1. SUFFICES ASSUME b = a PROVE FALSE
      OBVIOUS
    <3>2. PICK n : n = attr[a].parent
      OBVIOUS
    <3>3. /\ Len(props[n]) \in Nat /\ DOMAIN props[n] = 1..Len(props[n]) /\ Place(a) \in 1..Len(props[n])
      BY <1>1, <3>2, PlaceOf
    <3>4. Len(props'[n]) < Len(props[n])
      BY <1>1, <3>2, RemoveTyped
    <3>5. attrCursor.node = n
      BY <2>0, <3>1, <3>2
    <3>6. \A i \in DOMAIN props[n] : i <= Len(props'[n])
      BY <1>4, <3>5 DEF StillList, AttrRulesKept
    <3>7. Len(props[n]) \in DOMAIN props[n]
      BY <3>3
    <3>8. Len(props[n]) <= Len(props'[n])
      BY <3>6, <3>7
    <3>9. Len(props'[n]) \in Nat
      <4>1. AttrTypeOK' /\ n \in Node
        BY <1>1, <3>2, RemoveTyped, PlaceOf
      <4>2. props'[n] \in Seq(Attr)
        BY <4>1 DEF AttrTypeOK
      <4> QED BY <4>2
    <3> QED BY <3>3, <3>4, <3>8, <3>9
  <2>3. b \in UsedAttrs' /\ attr'[b].parent = m
    BY <1>2, <2>0, <2>2
  <2>4. lists' \subseteq InUse(xml')
    BY <1>1, <2>1
  <2> QED BY <1>1, <2>0, <2>3, <2>4 DEF AttrsKept
<1> QED BY <1>3, <1>4

\* The attribute behind another one has the same parent.
LEMMA NextOfSame ==
  ASSUME AttrTypeOK, NEW a \in UsedAttrs, attr[a].parent # NULL, NextAttr(a) # NULL
  PROVE  NextAttr(a) \in UsedAttrs /\ attr[NextAttr(a)].parent = attr[a].parent
<1>1. PICK n : n = attr[a].parent
  OBVIOUS
<1>2. /\ n \in Node /\ Place(a) \in 1..Len(props[n])
      /\ Len(props[n]) \in Nat /\ DOMAIN props[n] = 1..Len(props[n])
  BY <1>1, PlaceOf
<1>3. Place(a) < Len(props[n]) /\ NextAttr(a) = props[n][Place(a) + 1]
  BY <1>1 DEF NextAttr
<1>4. Place(a) + 1 \in DOMAIN props[n]
  BY <1>2, <1>3
<1>5. NextAttr(a) \in ListOf(n)
  BY <1>3, <1>4 DEF ListOf
<1> QED BY <1>1, <1>2, <1>5 DEF AttrTypeOK

LEMMA AttrStepKeeps ==
  ASSUME AttrRulesKept, AttrInv, AttrStep
  PROVE  AttrsKept'
<1>1. /\ IInv /\ AttrTyped /\ AttrTypeOK /\ lists \subseteq InUse(xml)
      /\ attrCursor = NoAttrCursor \/ attrCursor.node \in lists
  BY DEF AttrInv, AttrTyped, AttrsKept
<1>2. AttrsStay \/ \E a \in attrHeld : attr_remove_ex(a) /\ StillList
  BY <1>1, AttrStepTyped
<1>3. CASE \E a \in attrHeld : attr_remove_ex(a) /\ StillList
  BY <1>3, RemoveKeeps
<1>4. ASSUME AttrsStay, UNCHANGED attrCursor, xml' = xml \/ Kept, garbage' = {},
             lists' \subseteq InUse(xml), attrCursor = NoAttrCursor \/ attrCursor.node \in lists'
      PROVE  AttrsKept'
  <2>1. lists' \subseteq InUse(xml')
    BY <1>4 DEF Kept
  <2> QED BY <1>4, <2>1, CursorStays
<1>5. ASSUME AttrsStay, NEW o \in held, NEW a \in Attr,
             attr_initialize(o, a) \/ lang_set(o, a) \/ space_preserve_set(o, a) \/ base_uri_set(o, a)
      PROVE  AttrsKept'
  <2>1. UNCHANGED <<attrCursor, lists, xml>> /\ garbage' = {}
    BY <1>5 DEF attr_initialize, lang_set, space_preserve_set, base_uri_set, AttrIdle, vars
  <2> QED BY <1>1, <1>4, <1>5, <2>1
<1>6. ASSUME AttrsStay, NEW o \in held, attributes_get(o) PROVE AttrsKept'
  <2>1. /\ UNCHANGED <<attrCursor, xml>> /\ garbage' = {} /\ lists' = lists \cup {X(o)}
        /\ X(o) \in InUse(xml)
    BY <1>1, <1>6, ReceiverInUse DEF attributes_get, AttrIdle, vars
  <2> QED BY <1>1, <1>4, <1>6, <2>1
<1>7. ASSUME AttrsStay, NEW o \in held, attr_node_copy(o) PROVE AttrsKept'
  <2>1. AttrNext
    BY <1>7 DEF AttrNext, AttrStep
  <2>2. Make /\ UNCHANGED <<attrCursor, lists>>
    <3>1. /\ Running /\ IsNode(o) /\ UNCHANGED <<attrCursor, lists>>
      BY <1>7 DEF attr_node_copy, AttrIdle, Running
    <3>2. PICK deep \in BOOLEAN :
             \E f \in [(IF deep THEN Subtree(xml, X(o)) ELSE {X(o)}) -> FreeNodes(xml)] :
                /\ \A x, y \in (IF deep THEN Subtree(xml, X(o)) ELSE {X(o)}) : f[x] = f[y] => x = y
                /\ node_wrap(CopyNode(xml, IF deep THEN Subtree(xml, X(o)) ELSE {X(o)}, f), ruby, f[X(o)])
      BY <1>7, Zenon DEF attr_node_copy
    <3>3. \E S \in {{X(o)}, Subtree(xml, X(o))} : \E f \in [S -> FreeNodes(xml)] :
             /\ \A x, y \in S : f[x] = f[y] => x = y
             /\ node_wrap(CopyNode(xml, S, f), ruby, f[X(o)])
      BY <3>2
    <3> QED BY <3>1, <3>3 DEF node_copy, Make
  <2> QED BY <1>1, <1>4, <1>7, <2>2, MakeKeeps DEF Kept
<1>8. ASSUME AttrsStay, NEW c, Running, Follow(c) \/ \E d \in Doc : document_wrap(xml, ruby, d),
             UNCHANGED <<attrCursor, lists>>
      PROVE  AttrsKept'
  BY <1>1, <1>4, <1>8, FollowKeeps, DocumentRetrieved DEF Kept
<1>9. ASSUME AttrsStay, \/ \E n \in lists : attributes_node_get(n) \/ \E a \in Attr : attribute_set(n, a)
                        \/ \E a \in attrHeld : attr_parent_get(a)
      PROVE  AttrsKept'
  BY <1>8, <1>9 DEF attributes_node_get, attribute_set, attr_parent_get, AttrIdle, Running, attrVars
<1>10. ASSUME AttrsStay, NEW a \in attrHeld, attr_doc_get(a) PROVE AttrsKept'
  <2>1. attr[a].doc \in Doc
    BY <1>1, <1>10 DEF attr_doc_get, AttrTypeOK, AttrRecord, UsedAttrs
  <2> QED BY <1>8, <1>10, <2>1 DEF attr_doc_get, AttrIdle, Running, attrVars
<1>11. ASSUME AttrsStay,
              \/ \E n \in lists : get_attribute(n) \/ attributes_drop(n)
              \/ \E a \in attrHeld : attr_next_get(a) \/ attr_prev_get(a) \/ attr_drop(a)
       PROVE  AttrsKept'
  <2>1. /\ UNCHANGED <<attrCursor, xml>> /\ garbage' = {} /\ lists' \subseteq lists
        /\ attrCursor.node \in lists => attrCursor.node \in lists'
    BY <1>11 DEF get_attribute, attributes_drop, attr_next_get, attr_prev_get, attr_drop, AttrIdle, vars
  <2> QED BY <1>1, <1>4, <1>11, <2>1
<1>12. ASSUME NEW n \in lists, attributes_each(n) PROVE AttrsKept'
  <2>1. /\ UNCHANGED <<lists, xml, attr>> /\ garbage' = {}
        /\ attrCursor' = [node |-> n, attr |-> props[n][1]] /\ props[n] # <<>>
    BY <1>12 DEF attributes_each, AttrIdle, vars
  <2>2. n \in Node /\ props[n] \in Seq(Attr)
    BY <1>1 DEF AttrTyped, AttrTypeOK
  <2>3. 1 \in DOMAIN props[n]
    BY <2>1, <2>2
  <2>4. props[n][1] \in ListOf(n)
    BY <2>3 DEF ListOf
  <2>5. props[n][1] \in UsedAttrs /\ attr[props[n][1]].parent = n
    BY <1>1, <2>2, <2>4 DEF AttrTypeOK
  <2> QED BY <1>1, <2>1, <2>5 DEF AttrsKept, UsedAttrs
<1>13. CASE attributes_each_next
  <2>1. /\ UNCHANGED <<lists, xml, attr>> /\ garbage' = {} /\ attrCursor.attr \in UsedAttrs
    BY <1>13 DEF attributes_each_next, AttrIdle, vars
  <2>2. CASE attrCursor' = NoAttrCursor
    BY <1>1, <2>1, <2>2 DEF AttrsKept
  <2>3. CASE NextAttr(attrCursor.attr) # NULL
    <3>1. attrCursor' = [attrCursor EXCEPT !.attr = NextAttr(@)]
      BY <1>13, <2>3 DEF attributes_each_next
    <3>2. attrCursor # NoAttrCursor
      <4>1. NULL \notin Attr
        BY AttrsDistinct
      <4> QED BY <2>1, <4>1 DEF NoAttrCursor, UsedAttrs
    <3>3. PICK n \in lists, a \in UsedAttrs : attrCursor = [node |-> n, attr |-> a] /\ attr[a].parent = n
      BY <3>2 DEF AttrInv, AttrsKept
    <3>4. NextAttr(a) # NULL /\ attr[a].parent # NULL
      BY <2>3, <3>3 DEF NextAttr
    <3>5. NextAttr(a) \in UsedAttrs /\ attr[NextAttr(a)].parent = n
      BY <1>1, <3>3, <3>4, NextOfSame
    <3>6. attrCursor' = [node |-> n, attr |-> NextAttr(a)]
      BY <3>1, <3>3
    <3>7. UsedAttrs' = UsedAttrs
      BY <2>1 DEF UsedAttrs
    <3>8. lists' \subseteq InUse(xml')
      BY <1>1, <2>1
    <3> QED BY <2>1, <3>5, <3>6, <3>7, <3>8 DEF AttrsKept
  <2> QED BY <1>13, <2>2, <2>3 DEF attributes_each_next
<1>14. CASE attributes_each_break
  BY <1>1, <1>14 DEF attributes_each_break, AttrIdle, vars, AttrsKept
<1> QED
  BY <1>2, <1>3, <1>5, <1>6, <1>7, <1>9, <1>10, <1>11, <1>12, <1>13, <1>14 DEF AttrStep

\* What marks the top of a tree keeps the tree.
LEMMA MarkedAnchors ==
  ASSUME AttrRulesKept, AttrInv, attr_collect, NEW n \in Anchors
  PROVE  xml[Top(xml, n)].private \notin garbage'
<1>1. /\ garbage' = Live \ AttrMarked /\ RootedList
      /\ Trees(xml) /\ Forest(xml) /\ IInv /\ AttrTypeOK
  BY DEF attr_collect, AttrInv, HeldTrees, Trees, AttrTyped
<1>2. n \in Node /\ n \in InUse(xml)
  BY AnchorsInUse
<1>3. NULL \notin Live
  BY CellsDistinct DEF Live
<1>4. xml[n].parent = NULL => Top(xml, n) = n
  BY <1>1, <1>2, Tops
<1>5. xml[n].doc # NULL => Top(xml, n) = xml[n].doc
  BY <1>1, <1>2, DocBelow
<1>6. CASE n \in lists
  <2>1. xml[n].parent = NULL => xml[n].private \in AttrMarked
    BY <1>1, <1>6 DEF RootedList, AttrRulesKept
  <2>2. xml[n].parent # NULL => xml[Top(xml, n)].private \in AttrMarked \cup {NULL}
    <3>1. attributes_mark(n) \subseteq AttrMarked
      BY <1>6 DEF AttrMarked
    <3>2. xml[n].parent # NULL => xml[Top(xml, n)].private \in attributes_mark(n) \cup {NULL}
      BY <1>5 DEF attributes_mark, node_mark
    <3> QED BY <3>1, <3>2
  <2> QED BY <1>1, <1>3, <1>4, <2>1, <2>2
<1>7. ASSUME NEW a \in attrHeld, attr[a].parent = n
      PROVE  xml[Top(xml, n)].private \notin garbage'
  <2>1. a \in UsedAttrs /\ n # NULL
    BY <1>1, <1>2, CellsDistinct DEF AttrTypeOK
  <2>2. attr[a].doc = xml[n].doc
    BY <1>1, <1>7, <2>1 DEF AttrTypeOK
  <2>3. attr_mark(a) \subseteq AttrMarked
    BY DEF AttrMarked
  <2>4. xml[Top(xml, n)].private \in attr_mark(a) \cup {NULL}
    BY <1>5, <1>7, <2>1, <2>2 DEF attr_mark
  <2> QED BY <1>1, <1>3, <2>3, <2>4
<1> QED BY <1>6, <1>7 DEF Anchors

LEMMA CollectKeeps ==
  ASSUME AttrRulesKept, AttrInv, attr_collect
  PROVE  AttrsKept'
<1>1. UNCHANGED <<xml, attr, attrHeld, lists, attrCursor>>
  BY DEF attr_collect
<1>2. UsedAttrs' = UsedAttrs /\ Anchors' = Anchors
  BY <1>1 DEF UsedAttrs, Anchors
<1>3. \A n \in Anchors' : xml'[Top(xml', n)].private \notin garbage'
  BY <1>1, <1>2, MarkedAnchors
<1> QED BY <1>1, <1>2, <1>3 DEF AttrInv, AttrsKept

\* A node's free function leaves the other trees alone.
LEMMA SweepKeepsTree ==
  ASSUME IInv, HeldTrees, NEW o \in Object, sweep(o), HeldTrees',
         NEW n \in InUse(xml), xml[Top(xml, n)].private \notin garbage
  PROVE  /\ n \in InUse(xml') /\ xml'[n].doc = xml[n].doc
         /\ xml'[Top(xml', n)].private \notin garbage'
<1>1. Forest(xml) /\ Forest(xml')
  BY DEF HeldTrees, Trees
<1>2. o \in garbage /\ garbage' = garbage \ {o}
  BY DEF sweep
<1>3. /\ \A x \in InUse(xml) : xml[Top(xml, x)].private # o => x \in InUse(xml')
      /\ \A x \in InUse(xml') : x \in InUse(xml) /\ xml'[x].parent = xml[x].parent
      /\ \A x \in InUse(xml') : xml[x].private # o => xml'[x].private = xml[x].private
  BY SweepFreesOwn
<1>4. n \in InUse(xml')
  BY <1>2, <1>3
<1>5. Top(xml', n) = Top(xml, n)
  <2>1. InUse(xml') \subseteq InUse(xml)
    BY <1>3
  <2> QED BY <1>1, <1>3, <1>4, <2>1, TopsKept
<1>6. Top(xml', n) \in InUse(xml')
  BY <1>1, <1>4, Tops
<1> QED BY <1>2, <1>3, <1>4, <1>5, <1>6, SweepKeepsFields

LEMMA AttrNodeSweepKeeps ==
  ASSUME AttrInv, IInv', HeldTrees', NEW o \in Object, attr_node_sweep(o)
  PROVE  /\ AttrsKept'
         /\ \A a \in attrHeld : attr'[a] = attr[a] /\ a \in bound'
<1>1. sweep(o) /\ AttrsFollow
  BY DEF attr_node_sweep
<1>2. /\ IInv /\ AttrTyped /\ AttrTypeOK
  BY DEF AttrInv, AttrTyped
<1>3. AttrTyped' /\ AttrsFollowed /\ UNCHANGED <<lists, attrCursor>>
  BY <1>2, NodesTyped
<1>4. \A n \in Anchors : /\ n \in InUse(xml') /\ xml'[n].doc = xml[n].doc
                         /\ xml'[Top(xml', n)].private \notin garbage'
  <2>1. \A n \in Anchors : n \in InUse(xml) /\ xml[Top(xml, n)].private \notin garbage
    BY <1>1, AnchorsInUse DEF AttrInv, AttrsKept, sweep
  <2>2. IInv /\ HeldTrees
    BY DEF AttrInv
  <2> QED BY <1>1, <2>1, <2>2, SweepKeepsTree
<1>5. ASSUME NEW a \in attrHeld
      PROVE  attr'[a] = attr[a] /\ a \in attrHeld' /\ a \in bound'
  <2>1. a \in UsedAttrs /\ a \in Attr /\ attr[a] \in AttrRecord
    BY <1>2 DEF AttrTypeOK, UsedAttrs
  <2>2. CASE attr[a].parent = NULL
    <3>1. a \in UsedAttrs' /\ a \in attrHeld'
      BY <1>3, <2>1, <2>2 DEF AttrsFollowed
    <3>2. attr'[a] = NoAttr \/ attr'[a] = attr[a]
      BY <1>1, <2>1, <2>2 DEF AttrsFollow
    <3>3. attr'[a] = attr[a]
      BY <3>1, <3>2 DEF UsedAttrs, NoAttr
    <3> QED BY <1>3, <3>1, <3>3 DEF AttrTyped, AttrTypeOK
  <2>3. CASE attr[a].parent # NULL
    <3>1. PICK n : n = attr[a].parent
      OBVIOUS
    <3>2. n \in Anchors
      BY <2>3, <3>1 DEF Anchors
    <3>3. n \in InUse(xml') /\ xml'[n].doc = xml[n].doc
      BY <1>4, <3>2
    <3>4. a \in UsedAttrs' /\ attr'[a].parent = n /\ a \in attrHeld'
      BY <1>3, <2>1, <3>1, <3>3 DEF AttrsFollowed
    <3>5. attr[a].doc = xml[n].doc
      BY <1>2, <2>1, <2>3, <3>1, AttachedInUse
    <3>6. attr'[a].doc = xml'[n].doc
      BY <1>3, <2>3, <3>1, <3>4 DEF AttrTyped, AttrTypeOK
    <3>7. attr'[a] \in AttrRecord
      BY <1>3, <2>1 DEF AttrTyped, AttrTypeOK
    <3>8. attr'[a].used = attr[a].used
      <4>1. attr[a].used /\ attr'[a].used
        BY <2>1, <3>4 DEF UsedAttrs
      <4>2. attr[a].used \in BOOLEAN /\ attr'[a].used \in BOOLEAN
        BY <2>1, <3>7 DEF AttrRecord
      <4> QED BY <4>1, <4>2
    <3>9. attr'[a] = attr[a]
      BY <2>1, <3>1, <3>3, <3>4, <3>5, <3>6, <3>7, <3>8 DEF AttrRecord
    <3> QED BY <1>3, <3>4, <3>9 DEF AttrTyped, AttrTypeOK
  <2> QED BY <2>2, <2>3
<1>6. Anchors' \subseteq Anchors
  <2>1. attrHeld' \subseteq attrHeld
    BY <1>1 DEF AttrsFollow, deregisterAttrs
  <2> QED BY <1>3, <1>5, <2>1 DEF Anchors
<1>7. lists' \subseteq InUse(xml')
  BY <1>3, <1>4 DEF Anchors
<1>10. \A n \in Anchors' : xml'[Top(xml', n)].private \notin garbage'
  BY <1>4, <1>6
<1>8. CASE attrCursor = NoAttrCursor
  BY <1>3, <1>5, <1>7, <1>8, <1>10 DEF AttrsKept
<1>9. CASE attrCursor # NoAttrCursor
  <2>1. PICK n \in lists, a \in UsedAttrs : attrCursor = [node |-> n, attr |-> a] /\ attr[a].parent = n
    BY <1>9 DEF AttrInv, AttrsKept
  <2>2. a \in UsedAttrs' /\ attr'[a].parent = n
    BY <1>3, <1>7, <2>1 DEF AttrsFollowed
  <2> QED BY <1>3, <1>5, <1>7, <1>10, <2>1, <2>2 DEF AttrsKept
<1> QED BY <1>5, <1>8, <1>9

LEMMA AttrSweepKeeps ==
  ASSUME AttrInv, NEW a \in Attr, attr_sweep(a)
  PROVE  /\ AttrsKept'
         /\ \A b \in attrHeld : attr'[b] = attr[b] /\ b \in bound'
<1>1. AttrTypeOK /\ NULL \notin Node /\ lists \subseteq Node /\ lists \subseteq InUse(xml)
  BY CellsDistinct DEF AttrInv, AttrTyped, AttrsKept
<1>2. /\ AttrTypeOK'
      /\ \A b \in attrHeld : attr'[b] = attr[b]
      /\ \A b \in UsedAttrs : attr[b].parent # NULL => b \in UsedAttrs' /\ attr'[b] = attr[b]
  BY <1>1, AttrSweepTyped
<1>3. /\ UNCHANGED <<xml, garbage, attrHeld, lists, attrCursor>>
  BY DEF attr_sweep, vars
<1>4. Anchors' = Anchors
  BY <1>2, <1>3 DEF Anchors
<1>5. attrHeld \subseteq bound'
  BY <1>2, <1>3 DEF AttrTypeOK
<1>6. CASE attrCursor = NoAttrCursor
  BY <1>2, <1>3, <1>4, <1>5, <1>6 DEF AttrInv, AttrsKept
<1>7. CASE attrCursor # NoAttrCursor
  <2>1. PICK n \in lists, b \in UsedAttrs : attrCursor = [node |-> n, attr |-> b] /\ attr[b].parent = n
    BY <1>7 DEF AttrInv, AttrsKept
  <2>2. b \in UsedAttrs' /\ attr'[b].parent = n
    BY <1>1, <1>2, <2>1
  <2>3. garbage' # {} => \A m \in Anchors' : xml'[Top(xml', m)].private \notin garbage'
    BY <1>3, <1>4 DEF AttrInv, AttrsKept
  <2>4. lists' \subseteq InUse(xml')
    BY <1>1, <1>3
  <2>5. AttrsKept'
    BY <1>3, <2>1, <2>2, <2>3, <2>4 DEF AttrsKept
  <2> QED BY <1>2, <1>5, <2>5
<1> QED BY <1>6, <1>7

LEMMA AttrKeepsInv ==
  ASSUME LawAbiding, AttrRulesKept, AttrInv, [AttrNext]_allAttrVars
  PROVE  AttrInv'
<1>1. IInv' /\ HeldTrees' /\ AttrTyped'
  BY AttrKeepsTrees
<1>2. CASE UNCHANGED allAttrVars
  <2>1. UNCHANGED <<xml, garbage, attr, attrHeld, lists, attrCursor>>
    BY <1>2 DEF allAttrVars, vars, attrVars
  <2>2. UsedAttrs' = UsedAttrs /\ Anchors' = Anchors
    BY <2>1 DEF UsedAttrs, Anchors
  <2> QED BY <1>1, <2>1, <2>2 DEF AttrInv, AttrsKept
<1>3. CASE AttrNext
  BY <1>1, <1>3, NodeStepKeeps, AttrStepKeeps, CollectKeeps, AttrNodeSweepKeeps, AttrSweepKeeps
     DEF AttrNext, AttrInv
<1> QED BY <1>2, <1>3

\* Nothing runs during a collection but the free functions.
LEMMA CollectingSteps ==
  ASSUME AttrTyped, ~AttrIdle, AttrNext
  PROVE  (\E o \in Object : attr_node_sweep(o)) \/ \E a \in Attr : attr_sweep(a)
<1>1. ~AttrNodeStep /\ ~attr_collect
  BY DEF AttrNodeStep, attr_collect
<1>2. ~AttrStep
  BY DEF AttrStep, attr_initialize, lang_set, space_preserve_set, base_uri_set, attributes_get,
         attr_node_copy, attributes_node_get, get_attribute, attributes_drop, attribute_set,
         attr_next_get, attr_prev_get, attr_parent_get, attr_doc_get, attr_drop, attr_remove_ex,
         attributes_each, attributes_each_next, attributes_each_break
<1> QED BY <1>1, <1>2 DEF AttrNext

LEMMA AttrsUndisturbed ==
  ASSUME LawAbiding, AttrRulesKept, AttrInv, AttrNext, ~AttrIdle
  PROVE  /\ \A a \in attrHeld : attr'[a] = attr[a] /\ a \in bound'
         /\ lists \subseteq InUse(xml')
         /\ attrCursor.attr # NULL => attrCursor.attr \in UsedAttrs'
<1>1. AttrInv'
  BY AttrKeepsInv
<1>2. IInv' /\ HeldTrees' /\ AttrTyped
  BY <1>1 DEF AttrInv
<1>3. (\E o \in Object : attr_node_sweep(o)) \/ \E a \in Attr : attr_sweep(a)
  BY <1>2, CollectingSteps
<1>4. UNCHANGED <<lists, attrCursor>>
  BY <1>3 DEF attr_node_sweep, attr_sweep
<1>5. \A a \in attrHeld : attr'[a] = attr[a] /\ a \in bound'
  BY <1>2, <1>3, AttrNodeSweepKeeps, AttrSweepKeeps
<1>6. lists \subseteq InUse(xml')
  BY <1>1, <1>4 DEF AttrInv, AttrsKept
<1>7. attrCursor.attr # NULL => attrCursor.attr \in UsedAttrs'
  BY <1>1, <1>4 DEF AttrInv, AttrsKept, NoAttrCursor
<1> QED BY <1>5, <1>6, <1>7

\* A collection that runs while the program holds attributes, or Attributes
\* objects one of which each is running over, takes none of the attributes
\* it holds, nor the nodes of those objects, nor the attribute each stands
\* on: rxml_attr_mark and rxml_attributes_mark keep their trees alive.
THEOREM CollectionsKeepAttrs ==
  ASSUME LawAbiding, AttrRulesKept
  PROVE  AttrSpec => CollectionKeepsAttrs
<1>1. AttrInit => AttrInv
  <2>1. SUFFICES ASSUME AttrInit PROVE AttrInv
    OBVIOUS
  <2>2. IInv /\ AttrTyped /\ HeldTrees
    BY <2>1, InitAttrTyped, InitTInv DEF AttrInit, TInv
  <2> QED BY <2>1, <2>2 DEF AttrInv, AttrsKept, AttrInit, Init
<1>2. AttrInv /\ [AttrNext]_allAttrVars => AttrInv'
  BY AttrKeepsInv
<1>3. AttrInv /\ [AttrNext]_allAttrVars =>
        [~AttrIdle => /\ \A a \in attrHeld : attr'[a] = attr[a] /\ a \in bound'
                      /\ lists \subseteq InUse(xml')
                      /\ attrCursor.attr # NULL => attrCursor.attr \in UsedAttrs']_allAttrVars
  BY AttrsUndisturbed
<1> QED BY <1>1, <1>2, <1>3, PTL DEF AttrSpec, CollectionKeepsAttrs

-----------------------------------------------------------------------------
(* Namespaces.                                                             *)

LEMMA NsSteps ==
  ASSUME [NsNext]_allNsVars
  PROVE  CompanionStep
<1>1. CASE NsNodeStep
  BY <1>1 DEF NsNodeStep, NsIdle, Make, Next, CompanionStep
<1>2. ASSUME NEW n \in Node, NEW c \in Node \cup {NULL}, NEW w \in nsHeld, node_initialize_ns(n, c, w)
      PROVE  CompanionStep
  BY <1>2 DEF node_initialize_ns, NsIdle, Make, Next, CompanionStep
<1>3. ASSUME NEW n \in scopes, namespaces_node_get(n) PROVE CompanionStep
  BY <1>3 DEF namespaces_node_get, NsIdle, Running, CompanionStep
<1>4. CASE ns_collect
  BY <1>4 DEF ns_collect, NsIdle, CompanionStep
<1>5. CASE UNCHANGED vars
  BY <1>5 DEF CompanionStep
<1>6. ASSUME NEW o \in Object, ns_node_sweep(o) PROVE CompanionStep
  BY <1>6 DEF ns_node_sweep, CompanionStep
<1> QED
  BY <1>1, <1>2, <1>3, <1>4, <1>5, <1>6 DEF NsNext, NsStep, allNsVars, namespaces_initialize,
      namespace_initialize, namespaces_definitions, namespaces_find, namespace_get, namespaces_each,
      namespaces_drop, namespace_set, namespace_next, ns_drop, namespaces_each_next,
      namespaces_each_break, ns_sweep

NsTyped ==
  /\ NsTypeOK
  /\ nsHeld \subseteq {w \in NsObject : nsPtr[w] # NULL} /\ scopes \subseteq Node
  /\ nsCursor \in [node : Node \cup {NULL}, rest : SUBSET NsCell]
  /\ \A n \in Node : n \notin InUse(xml) => nsOf[n] = NULL

\* Namespaces and wrappers refer to each other; a wrapper without its
\* namespace is about to be finalized.
NsBound ==
  /\ \A k \in UsedNs : nsPrivate[k] # NULL => nsPtr[nsPrivate[k]] = k
  /\ \A w \in NsObject : nsPtr[w] # NULL =>
       IF nsPtr[w] \in UsedNs THEN nsPrivate[nsPtr[w]] = w ELSE w \in nsTrash

\* Outside a sweep, that is:
WrappersRight ==
  /\ nsPrivate \in [NsCell -> NsObject \cup {NULL}]
  /\ nsPtr \in [NsObject -> NsCell \cup {NULL}]
  /\ nsHeld \subseteq {w \in NsObject : nsPtr[w] # NULL}
  /\ \A k \in NsCell : nsPrivate[k] # NULL => k \in UsedNs /\ nsPtr[nsPrivate[k]] = k
  /\ \A w \in NsObject : nsPtr[w] # NULL => nsPtr[w] \in UsedNs /\ nsPrivate[nsPtr[w]] = w

LEMMA DefinedTyped ==
  ASSUME NsTypeOK
  PROVE  /\ UsedNs \subseteq NsCell
         /\ \A n \in Node : Defined(n) \subseteq UsedNs
         /\ \A n \in Node : \A k \in Defined(n) : Definer(k) = n /\ n \in InUse(xml)
         /\ \A k \in UsedNs : Definer(k) \in Node \cap InUse(xml) /\ k \in Defined(Definer(k))
<1>1. ASSUME NEW n \in Node
      PROVE  Defined(n) \subseteq NsCell /\ \A k \in Defined(n) : n \in InUse(xml)
  <2>1. nsDef[n] \in Seq(NsCell) /\ (nsDef[n] # <<>> => n \in InUse(xml))
    BY DEF NsTypeOK
  <2> QED BY <2>1 DEF Defined
<1>2. ASSUME NEW n \in Node, NEW m \in Node, NEW k, k \in Defined(n), k \in Defined(m)
      PROVE  n = m
  BY <1>2 DEF Defined, NsTypeOK
<1>3. ASSUME NEW n \in Node, NEW k \in Defined(n)
      PROVE  Definer(k) = n
  BY <1>2, <1>3 DEF Definer
<1> QED BY <1>1, <1>3 DEF UsedNs

LEMMA IdleWrappers ==
  ASSUME NsTyped, NsBound, nsTrash = {}
  PROVE  WrappersRight
BY DefinedTyped DEF NsTyped, NsTypeOK, NsBound, WrappersRight

LEMMA WrapperMade ==
  ASSUME WrappersRight, NEW k \in NsCell, namespace_wrap(k), UNCHANGED nsDef
  PROVE  WrappersRight'
<1>1. UsedNs' = UsedNs /\ k \in UsedNs
  BY DEF UsedNs, Defined, namespace_wrap
<1>2. NULL \notin NsObject /\ NULL \notin NsCell
  BY NsDistinct
<1>3. CASE nsPrivate[k] # NULL /\ UNCHANGED <<nsPrivate, nsPtr>> /\ nsHeld' = nsHeld \cup {nsPrivate[k]}
  BY <1>1, <1>2, <1>3 DEF WrappersRight
<1>4. ASSUME nsPrivate[k] = NULL, NEW w \in NsObject, nsPtr[w] = NULL,
             nsPrivate' = [nsPrivate EXCEPT ![k] = w], nsPtr' = [nsPtr EXCEPT ![w] = k],
             nsHeld' = nsHeld \cup {w}
      PROVE  WrappersRight'
  <2>1. /\ \A l \in NsCell : nsPrivate'[l] = IF l = k THEN w ELSE nsPrivate[l]
        /\ \A v \in NsObject : nsPtr'[v] = IF v = w THEN k ELSE nsPtr[v]
        /\ nsPrivate' \in [NsCell -> NsObject \cup {NULL}] /\ nsPtr' \in [NsObject -> NsCell \cup {NULL}]
    BY <1>4 DEF WrappersRight
  <2>2. \A l \in NsCell : nsPrivate[l] # w
    BY <1>2, <1>4 DEF WrappersRight
  <2>3. \A v \in NsObject : nsPtr[v] # k
    BY <1>2, <1>4 DEF WrappersRight
  <2> QED BY <1>1, <1>2, <1>4, <2>1, <2>2, <2>3 DEF WrappersRight
<1> QED BY <1>3, <1>4 DEF namespace_wrap

\* Outside a collection.
LEMMA IdleTyped ==
  ASSUME NsTyped, WrappersRight', xml' = xml \/ Kept, nsTrash' = {}, UNCHANGED nsDef,
         nsOf' \in [Node -> NsCell \cup {NULL}], \A n \in Node : n \notin InUse(xml') => nsOf'[n] = NULL,
         scopes' \subseteq Node, nsCursor' \in [node : Node \cup {NULL}, rest : SUBSET NsCell]
  PROVE  NsTyped' /\ NsBound'
<1>1. \A n \in Node : n \in InUse(xml) => n \in InUse(xml')
  BY DEF Kept
<1>2. NsTypeOK'
  BY <1>1 DEF NsTyped, NsTypeOK, WrappersRight, UsedNs, Defined
<1>3. UsedNs' \subseteq NsCell
  BY <1>2, DefinedTyped DEF NsTyped, UsedNs, Defined
<1> QED BY <1>2, <1>3 DEF NsTyped, NsBound, WrappersRight

\* What becomes of the namespaces when nodes are freed.
LEMMA NsFollowed ==
  ASSUME NsTyped, NsFollow, UNCHANGED <<nsPtr, nsHeld, nsTrash, scopes, nsCursor>>
  PROVE  /\ NsTyped'
         /\ \A n \in Node : /\ n \in InUse(xml') => nsOf'[n] = nsOf[n] /\ Defined(n)' = Defined(n)
                            /\ n \notin InUse(xml') => nsOf'[n] = NULL /\ Defined(n)' = {}
         /\ \A k \in UsedNs' : k \in UsedNs /\ Definer(k)' = Definer(k) /\ nsPrivate'[k] = nsPrivate[k]
         /\ \A k \in UsedNs : Definer(k) \in InUse(xml') => k \in UsedNs'
<1> DEFINE gone == {n \in Node : xml[n].type # "free" /\ xml'[n].type = "free"}
           dead == UNION {Defined(n) : n \in gone}
<1>1. /\ nsDef' = [n \in Node |-> IF n \in gone THEN <<>> ELSE nsDef[n]]
      /\ nsOf' = [n \in Node |-> IF n \in gone THEN NULL ELSE nsOf[n]]
      /\ nsPrivate' = [k \in NsCell |-> IF k \in dead THEN NULL ELSE nsPrivate[k]]
  BY Zenon DEF NsFollow
<1>2. /\ nsDef \in [Node -> Seq(NsCell)] /\ nsOf \in [Node -> NsCell \cup {NULL}]
      /\ nsPrivate \in [NsCell -> NsObject \cup {NULL}] /\ nsPtr \in [NsObject -> NsCell \cup {NULL}]
      /\ nsTrash \subseteq {w \in NsObject : nsPtr[w] # NULL} \ nsHeld
      /\ \A n, m \in Node : \A i \in DOMAIN nsDef[n], j \in DOMAIN nsDef[m] :
           nsDef[n][i] = nsDef[m][j] => n = m /\ i = j
      /\ \A n \in Node : nsDef[n] # <<>> => n \in InUse(xml)
      /\ \A k \in NsCell : nsPrivate[k] # NULL => k \in UsedNs
      /\ \A n \in Node : n \notin InUse(xml) => nsOf[n] = NULL
      /\ NsTypeOK
  BY DEF NsTyped, NsTypeOK
<1>3. \A n \in Node : n \in gone <=> n \in InUse(xml) /\ n \notin InUse(xml')
  BY DEF InUse, Cell
<1>4. \A k : k \in dead <=> \E n \in gone : k \in Defined(n)
  OBVIOUS
<1> HIDE DEF gone, dead
<1>5. ASSUME NEW n \in Node
      PROVE  /\ nsDef'[n] = (IF n \in InUse(xml') THEN nsDef[n] ELSE <<>>)
             /\ nsOf'[n] = (IF n \in InUse(xml') THEN nsOf[n] ELSE NULL)
  BY <1>1, <1>2, <1>3
<1>6. ASSUME NEW n \in Node
      PROVE  /\ n \in InUse(xml') => nsOf'[n] = nsOf[n] /\ Defined(n)' = Defined(n)
             /\ n \notin InUse(xml') => nsOf'[n] = NULL /\ Defined(n)' = {}
  BY <1>5 DEF Defined
<1>7. /\ nsDef' \in [Node -> Seq(NsCell)] /\ nsOf' \in [Node -> NsCell \cup {NULL}]
      /\ nsPrivate' \in [NsCell -> NsObject \cup {NULL}]
  BY <1>1, <1>2
<1>8. ASSUME NEW n \in Node, NEW m \in Node, NEW i \in DOMAIN nsDef'[n], NEW j \in DOMAIN nsDef'[m],
             nsDef'[n][i] = nsDef'[m][j]
      PROVE  n = m /\ i = j
  <2>1. \A x \in Node : nsDef'[x] = nsDef[x] \/ nsDef'[x] = <<>>
    BY <1>5
  <2>2. nsDef'[n] # <<>> /\ nsDef'[m] # <<>>
    BY <1>8
  <2>3. nsDef'[n] = nsDef[n] /\ nsDef'[m] = nsDef[m]
    BY <2>1, <2>2
  <2> QED BY <1>2, <1>8, <2>3
<1>9. ASSUME NEW k \in UsedNs, NEW d, d = Definer(k)
      PROVE  /\ d \in Node /\ k \in NsCell
             /\ d \in InUse(xml') => k \in Defined(d)' /\ k \notin dead /\ k \in UsedNs'
             /\ d \notin InUse(xml') => k \notin UsedNs' /\ k \in dead
  <2>1. d \in Node /\ d \in InUse(xml) /\ k \in Defined(d) /\ k \in NsCell
    BY <1>2, <1>9, DefinedTyped
  <2>2. \A n \in Node : k \in Defined(n) => n = d
    BY <1>2, <1>9, DefinedTyped
  <2>3. gone \subseteq Node
    BY DEF gone
  <2>4. ASSUME d \in InUse(xml')
        PROVE  k \in Defined(d)' /\ k \notin dead /\ k \in UsedNs'
    <3>1. k \in Defined(d)'
      BY <1>6, <2>1, <2>4
    <3>2. k \notin dead
      BY <1>3, <1>4, <2>2, <2>3, <2>4
    <3> QED BY <2>1, <3>1, <3>2 DEF UsedNs
  <2>5. ASSUME d \notin InUse(xml')
        PROVE  k \notin UsedNs' /\ k \in dead
    <3>1. \A n \in Node : k \notin Defined(n)'
      BY <1>6, <2>1, <2>2, <2>5
    <3> QED BY <1>3, <1>4, <2>1, <2>5, <3>1 DEF UsedNs
  <2> QED BY <2>1, <2>4, <2>5
<1>10. UsedNs' \subseteq UsedNs
  BY <1>6 DEF UsedNs
<1>11. \A k \in UsedNs : k \in UsedNs' <=> Definer(k) \in InUse(xml')
  BY <1>9
<1>12. ASSUME NEW k \in NsCell, nsPrivate'[k] # NULL
       PROVE  k \in UsedNs'
  <2>1. k \notin dead /\ nsPrivate[k] # NULL
    BY <1>1, <1>12
  <2> QED BY <1>2, <1>9, <1>11, <2>1
<1>13. ASSUME NEW n \in Node, nsDef'[n] # <<>>
       PROVE  n \in InUse(xml')
  BY <1>5, <1>13
<1>14. NsTypeOK'
  BY <1>2, <1>7, <1>8, <1>12, <1>13 DEF NsTypeOK
<1>15. ASSUME NEW k \in UsedNs'
       PROVE  k \in UsedNs /\ Definer(k)' = Definer(k) /\ nsPrivate'[k] = nsPrivate[k]
  <2>1. PICK d : d = Definer(k)
    OBVIOUS
  <2>2. k \in UsedNs /\ d \in InUse(xml') /\ d \in Node /\ k \in Defined(d)' /\ k \notin dead /\ k \in NsCell
    BY <1>9, <1>10, <2>1
  <2>3. Definer(k)' = d
    <3>1. \A n \in Node : k \in Defined(n) => n = d
      BY <1>2, <2>1, <2>2, DefinedTyped
    <3>2. \A n \in Node : k \in Defined(n)' <=> n = d
      BY <1>6, <2>2, <3>1
    <3> QED BY <2>2, <3>2 DEF Definer
  <2> QED BY <1>1, <2>1, <2>2, <2>3
<1>16. NsTyped'
  BY <1>6, <1>14 DEF NsTyped
<1> QED BY <1>6, <1>11, <1>15, <1>16

\* Namespaces#definitions makes wrappers for those that have none.
LEMMA DefinitionsWrapped ==
  ASSUME NsTyped, WrappersRight, NEW n \in Node, namespaces_definitions(n)
  PROVE  WrappersRight'
<1> DEFINE bare == {k \in Defined(n) : nsPrivate[k] = NULL}
           free == {w \in NsObject : nsPtr[w] = NULL}
<1>1. PICK f \in [bare -> free] :
        /\ \A k, l \in bare : f[k] = f[l] => k = l
        /\ nsPrivate' = [k \in NsCell |-> IF k \in bare THEN f[k] ELSE nsPrivate[k]]
        /\ nsPtr' = [w \in NsObject |-> IF \E k \in bare : f[k] = w
                                        THEN CHOOSE k \in bare : f[k] = w ELSE nsPtr[w]]
        /\ nsHeld' = nsHeld \cup {nsPrivate'[k] : k \in Defined(n)}
  <2>1. PICK f \in [bare -> free] :
          /\ \A k, l \in DOMAIN f : f[k] = f[l] => k = l
          /\ nsPrivate' = [k \in NsCell |-> IF k \in DOMAIN f THEN f[k] ELSE nsPrivate[k]]
          /\ nsPtr' = [w \in NsObject |-> IF \E k \in DOMAIN f : f[k] = w
                                          THEN CHOOSE k \in DOMAIN f : f[k] = w ELSE nsPtr[w]]
          /\ nsHeld' = nsHeld \cup {nsPrivate'[k] : k \in Defined(n)}
    BY Zenon DEF namespaces_definitions
  <2>2. DOMAIN f = bare
    OBVIOUS
  <2> HIDE DEF bare, free
  <2>3. /\ \A k, l \in bare : f[k] = f[l] => k = l
        /\ nsPrivate' = [k \in NsCell |-> IF k \in bare THEN f[k] ELSE nsPrivate[k]]
        /\ nsPtr' = [w \in NsObject |-> IF \E k \in bare : f[k] = w
                                        THEN CHOOSE k \in bare : f[k] = w ELSE nsPtr[w]]
        /\ nsHeld' = nsHeld \cup {nsPrivate'[k] : k \in Defined(n)}
    BY Zenon, <2>1, <2>2
  <2> QED BY Zenon, <2>1, <2>3
<1>2. /\ nsPrivate \in [NsCell -> NsObject \cup {NULL}] /\ nsPtr \in [NsObject -> NsCell \cup {NULL}]
      /\ nsHeld \subseteq {w \in NsObject : nsPtr[w] # NULL}
      /\ \A k \in NsCell : nsPrivate[k] # NULL => k \in UsedNs /\ nsPtr[nsPrivate[k]] = k
      /\ \A w \in NsObject : nsPtr[w] # NULL => nsPtr[w] \in UsedNs /\ nsPrivate[nsPtr[w]] = w
      /\ NULL \notin NsObject /\ NULL \notin NsCell
  BY NsDistinct DEF WrappersRight
<1>3. Defined(n) \subseteq UsedNs /\ UsedNs \subseteq NsCell
  BY DefinedTyped DEF NsTyped
<1>4. UsedNs' = UsedNs
  BY DEF namespaces_definitions, UsedNs, Defined
<1>5. /\ \A k \in bare : k \in NsCell /\ k \in UsedNs /\ nsPrivate[k] = NULL /\ k # NULL
      /\ \A k \in Defined(n) : k \notin bare => nsPrivate[k] # NULL
      /\ \A k \in bare : f[k] \in NsObject /\ nsPtr[f[k]] = NULL
  BY <1>2, <1>3
<1> HIDE DEF bare, free
<1>6. \A k \in NsCell : nsPrivate'[k] = IF k \in bare THEN f[k] ELSE nsPrivate[k]
  BY <1>1
<1>7. \A k \in bare : nsPtr'[f[k]] = k
  <2>1. ASSUME NEW k \in bare PROVE (CHOOSE l \in bare : f[l] = f[k]) = k
    BY <1>1
  <2> QED BY <1>1, <1>5, <2>1
<1>8. ASSUME NEW w \in NsObject, \A k \in bare : f[k] # w PROVE nsPtr'[w] = nsPtr[w]
  BY <1>1, <1>8
<1>9. ASSUME NEW w \in NsObject
      PROVE  /\ nsPtr'[w] \in NsCell \cup {NULL}
             /\ nsPtr'[w] # NULL => nsPtr'[w] \in UsedNs /\ nsPrivate'[nsPtr'[w]] = w
  <2>1. ASSUME NEW k \in bare, f[k] = w
        PROVE  nsPtr'[w] = k /\ k \in NsCell /\ k \in UsedNs /\ nsPrivate'[k] = w
    BY <1>5, <1>6, <1>7, <2>1
  <2>2. CASE \A k \in bare : f[k] # w
    <3>1. nsPtr'[w] = nsPtr[w]
      BY <1>8, <2>2
    <3>2. nsPtr[w] # NULL => nsPtr[w] \in NsCell /\ nsPtr[w] \notin bare
      BY <1>2, <1>5
    <3> QED BY <1>2, <1>6, <3>1, <3>2
  <2> QED BY <2>1, <2>2
<1>10. ASSUME NEW k \in NsCell, nsPrivate'[k] # NULL
       PROVE  k \in UsedNs /\ nsPtr'[nsPrivate'[k]] = k
  <2>1. CASE k \in bare
    BY <1>5, <1>6, <1>7, <2>1
  <2>2. CASE k \notin bare
    <3>1. nsPrivate'[k] = nsPrivate[k] /\ nsPrivate[k] \in NsObject /\ nsPtr[nsPrivate[k]] = k
      BY <1>2, <1>6, <1>10, <2>2
    <3>2. \A l \in bare : f[l] # nsPrivate[k]
      BY <1>2, <1>5, <3>1
    <3> QED BY <1>2, <1>8, <1>10, <3>1, <3>2
  <2> QED BY <2>1, <2>2
<1>11. nsPrivate' \in [NsCell -> NsObject \cup {NULL}] /\ nsPtr' \in [NsObject -> NsCell \cup {NULL}]
  <2>1. \A k \in NsCell : nsPrivate'[k] \in NsObject \cup {NULL}
    BY <1>2, <1>5, <1>6
  <2> QED BY <1>1, <1>9, <2>1
<1>12. ASSUME NEW k \in Defined(n)
       PROVE  nsPrivate'[k] \in NsObject /\ nsPtr'[nsPrivate'[k]] # NULL
  <2>1. nsPrivate'[k] # NULL /\ k \in NsCell
    BY <1>2, <1>3, <1>5, <1>6
  <2> QED BY <1>2, <1>10, <1>11, <2>1
<1>13. ASSUME NEW w \in nsHeld
       PROVE  w \in NsObject /\ nsPtr'[w] # NULL
  <2>1. w \in NsObject /\ nsPtr[w] # NULL
    BY <1>2
  <2>2. \A k \in bare : f[k] # w
    BY <1>5, <2>1
  <2> QED BY <1>8, <2>1, <2>2
<1>14. nsHeld' \subseteq {w \in NsObject : nsPtr'[w] # NULL}
  <2>1. nsHeld' = nsHeld \cup {nsPrivate'[k] : k \in Defined(n)}
    BY <1>1
  <2>2. ASSUME NEW w \in nsHeld' PROVE w \in NsObject /\ nsPtr'[w] # NULL
    BY Zenon, <1>12, <1>13, <2>1, <2>2
  <2> QED BY <2>2
<1> QED BY <1>4, <1>9, <1>10, <1>11, <1>14 DEF WrappersRight

\* Namespace.new
LEMMA NamespaceMade ==
  ASSUME IInv, NsTyped, NsBound, NEW o \in held, NEW w \in NsObject, NEW k \in NsCell,
         namespace_initialize(o, w, k)
  PROVE  /\ NsTyped' /\ NsBound' /\ \A n \in Node : Defined(n) \subseteq Defined(n)'
<1>1. PICK n : n = X(o)
  OBVIOUS
<1>2. /\ n \in Node /\ n \in InUse(xml) /\ nsTrash = {}
      /\ k \notin UsedNs /\ nsPtr[w] = NULL
      /\ nsDef' = [nsDef EXCEPT ![n] = Append(@, k)]
      /\ nsPrivate' = [nsPrivate EXCEPT ![k] = w]
      /\ nsPtr' = [nsPtr EXCEPT ![w] = k]
      /\ nsHeld' = nsHeld \cup {w}
      /\ UNCHANGED <<xml, nsOf, nsTrash, scopes, nsCursor>>
  BY <1>1, ReceiverInUse DEF namespace_initialize, NsIdle, vars
<1>3. /\ nsDef \in [Node -> Seq(NsCell)] /\ nsOf \in [Node -> NsCell \cup {NULL}]
      /\ \A l, m \in Node : \A i \in DOMAIN nsDef[l], j \in DOMAIN nsDef[m] :
           nsDef[l][i] = nsDef[m][j] => l = m /\ i = j
      /\ \A m \in Node : nsDef[m] # <<>> => m \in InUse(xml)
      /\ \A m \in Node : m \notin InUse(xml) => nsOf[m] = NULL
  BY DEF NsTyped, NsTypeOK
<1>4. /\ nsPrivate \in [NsCell -> NsObject \cup {NULL}]
      /\ nsPtr \in [NsObject -> NsCell \cup {NULL}]
      /\ nsHeld \subseteq {v \in NsObject : nsPtr[v] # NULL}
      /\ \A l \in NsCell : nsPrivate[l] # NULL => l \in UsedNs /\ nsPtr[nsPrivate[l]] = l
      /\ \A v \in NsObject : nsPtr[v] # NULL => nsPtr[v] \in UsedNs /\ nsPrivate[nsPtr[v]] = v
      /\ NULL \notin NsCell
  BY <1>2, IdleWrappers, NsDistinct DEF WrappersRight
<1> DEFINE L == Len(nsDef[n]) + 1
<1>5. /\ nsDef' \in [Node -> Seq(NsCell)]
      /\ \A m \in Node : m # n => nsDef'[m] = nsDef[m]
      /\ nsDef'[n] = Append(nsDef[n], k)
  BY <1>2, <1>3
<1>6. /\ DOMAIN nsDef'[n] = DOMAIN nsDef[n] \cup {L} /\ L \notin DOMAIN nsDef[n]
      /\ \A i \in DOMAIN nsDef[n] : nsDef'[n][i] = nsDef[n][i]
      /\ nsDef'[n][L] = k
  <2>1. nsDef[n] \in Seq(NsCell)
    BY <1>2, <1>3
  <2> QED BY <1>5, <2>1
<1> HIDE DEF L
<1>7. \A m \in Node : Defined(m)' = Defined(m) \cup (IF m = n THEN {k} ELSE {})
  <2>1. ASSUME NEW m \in Node, m # n
        PROVE  Defined(m)' = Defined(m)
    BY <1>5, <2>1 DEF Defined
  <2>2. Defined(n)' = Defined(n) \cup {k}
    <3>1. Defined(n)' = {nsDef'[n][i] : i \in DOMAIN nsDef[n] \cup {L}}
      BY <1>6 DEF Defined
    <3>2. {nsDef'[n][i] : i \in DOMAIN nsDef[n]} = Defined(n)
      BY <1>6 DEF Defined
    <3> QED BY <1>6, <3>1, <3>2
  <2> QED BY <2>1, <2>2
<1>8. UsedNs' = UsedNs \cup {k}
  BY <1>2, <1>7 DEF UsedNs
<1>9. \A m \in Node : \A i \in DOMAIN nsDef[m] : nsDef[m][i] # k
  BY <1>2 DEF UsedNs, Defined
<1>10. ASSUME NEW l \in Node, NEW m \in Node, NEW i \in DOMAIN nsDef'[l], NEW j \in DOMAIN nsDef'[m],
              nsDef'[l][i] = nsDef'[m][j]
       PROVE  l = m /\ i = j
  <2>1. ASSUME NEW p \in Node, NEW q \in DOMAIN nsDef'[p]
        PROVE  \/ q \in DOMAIN nsDef[p] /\ nsDef'[p][q] = nsDef[p][q] /\ nsDef'[p][q] # k
               \/ p = n /\ q = L /\ nsDef'[p][q] = k
    BY <1>5, <1>6, <1>9
  <2> QED BY <1>3, <1>10, <2>1
<1>11. \A m \in Node : nsDef'[m] # <<>> => m \in InUse(xml')
  BY <1>2, <1>3, <1>5
<1>12. /\ \A l \in NsCell : nsPrivate'[l] = IF l = k THEN w ELSE nsPrivate[l]
       /\ \A v \in NsObject : nsPtr'[v] = IF v = w THEN k ELSE nsPtr[v]
       /\ nsPrivate' \in [NsCell -> NsObject \cup {NULL}] /\ nsPtr' \in [NsObject -> NsCell \cup {NULL}]
  BY <1>2, <1>4
<1>13. nsPrivate[k] = NULL
  BY <1>2, <1>4
<1>14. ASSUME NEW l \in NsCell, nsPrivate'[l] # NULL
       PROVE  l \in UsedNs' /\ nsPtr'[nsPrivate'[l]] = l
  BY <1>2, <1>4, <1>8, <1>12, <1>13, <1>14
<1>15. ASSUME NEW v \in NsObject, nsPtr'[v] # NULL
       PROVE  nsPtr'[v] \in UsedNs' /\ nsPrivate'[nsPtr'[v]] = v
  BY <1>2, <1>4, <1>8, <1>12, <1>13, <1>15
<1>16. nsHeld' \subseteq {v \in NsObject : nsPtr'[v] # NULL}
  BY <1>2, <1>4, <1>12
<1>17. NsTypeOK'
  BY <1>2, <1>3, <1>5, <1>10, <1>11, <1>12, <1>14 DEF NsTypeOK
<1>18. NsTyped'
  BY <1>2, <1>3, <1>16, <1>17 DEF NsTyped
<1>19. UsedNs' \subseteq NsCell
  BY <1>8, DefinedTyped DEF NsTyped
<1>20. NsBound'
  BY <1>14, <1>15, <1>19 DEF NsBound
<1> QED BY <1>7, <1>18, <1>20

\* Node.new with a namespace: the new node is in use.
LEMMA InitializedInUse ==
  ASSUME IInv, NEW n \in Node, NEW c \in Node \cup {NULL}, node_initialize(n, c)
  PROVE  n \in InUse(xml')
<1> DEFINE h == [xml EXCEPT ![n] = Blank("element")]
           k == NodeSetContent(h, n, c).heap
<1>0. xml \in Heap /\ FreeIsUnbound(xml) /\ n \in Cell
  BY DEF IInv, Consistent, Cell
<1>1. n \in FreeNodes(xml) /\ c \in (FreeNodes(xml) \ {n}) \cup {NULL} /\ node_wrap(k, ruby, n)
  BY DEF node_initialize
<1>2. Rebound(xml, h, {})
  BY <1>0, <1>1, NewStructureRebinds DEF FreeNodes, Cell
<1>3. c \in FreeNodes(h) \cup {NULL} /\ h[n].children = NULL
  BY <1>0, <1>1 DEF FreeNodes, InUse, Heap, Cell, Blank
<1>4. h \in Heap /\ FreeIsUnbound(h)
  BY <1>2 DEF Rebound
<1> HIDE DEF h
<1>5. Rebound(h, k, {})
  BY <1>3, <1>4, FreshContent
<1>6. k \in Heap
  BY <1>5 DEF Rebound
<1> HIDE DEF k
<1>7. Wrap(k, ruby, n, "Node") /\ k[n].type # "free"
  BY <1>1 DEF node_wrap, Wrap, InUse
<1> QED BY <1>0, <1>6, <1>7, WrapFrame DEF InUse

\* A step of Namespaces: the structures stay, and so do the definitions.
NsStepGood ==
  /\ NsTyped' /\ NsBound'
  /\ garbage = {} /\ garbage' = {} /\ nsTrash' = {}
  /\ xml' = xml \/ Kept
  /\ \A n \in Node : Defined(n) \subseteq Defined(n)'

LEMMA NsStepTyped ==
  ASSUME IInv, NsTyped, NsBound, NsStep
  PROVE  NsStepGood
<1>1. /\ NsTypeOK /\ scopes \subseteq Node /\ nsHeld \subseteq NsObject /\ NULL \notin NsCell
      /\ nsOf \in [Node -> NsCell \cup {NULL}]
      /\ \A n \in Node : n \notin InUse(xml) => nsOf[n] = NULL
      /\ nsCursor \in [node : Node \cup {NULL}, rest : SUBSET NsCell]
      /\ UsedNs \subseteq NsCell /\ \A n \in Node : Defined(n) \subseteq UsedNs
  BY DefinedTyped, NsDistinct DEF NsTyped, NsTypeOK
<1>2. ASSUME NsIdle, garbage' = {}, nsTrash' = {}, xml' = xml \/ Kept, UNCHANGED nsDef, WrappersRight',
             nsOf' \in [Node -> NsCell \cup {NULL}], \A n \in Node : n \notin InUse(xml') => nsOf'[n] = NULL,
             scopes' \subseteq Node, nsCursor' \in [node : Node \cup {NULL}, rest : SUBSET NsCell]
      PROVE  NsStepGood
  <2>1. NsTyped' /\ NsBound'
    BY <1>2, IdleTyped
  <2> QED BY <1>2, <2>1 DEF NsStepGood, NsIdle, Defined
<1>3. NsIdle => WrappersRight
  BY IdleWrappers DEF NsIdle
<1>4. ASSUME NsIdle, UNCHANGED <<garbage, nsTrash, nsDef, nsPrivate, nsPtr>>, xml' = xml \/ Kept,
             nsHeld' \subseteq nsHeld, nsOf' = nsOf,
             scopes' \subseteq Node, nsCursor' \in [node : Node \cup {NULL}, rest : SUBSET NsCell]
      PROVE  NsStepGood
  <2>1. WrappersRight'
    BY <1>3, <1>4 DEF WrappersRight, UsedNs, Defined
  <2>2. \A n \in Node : n \notin InUse(xml') => nsOf'[n] = NULL
    BY <1>1, <1>4 DEF Kept
  <2> QED BY <1>1, <1>2, <1>4, <2>1, <2>2 DEF NsIdle
<1>5. ASSUME NsIdle, NEW k, namespace_wrap(k), UNCHANGED <<vars, nsDef, nsOf, nsTrash, scopes>>,
             nsCursor' \in [node : Node \cup {NULL}, rest : SUBSET NsCell]
      PROVE  NsStepGood
  <2>1. k \in NsCell
    BY <1>1, <1>5 DEF namespace_wrap
  <2>2. WrappersRight'
    BY <1>3, <1>5, <2>1, WrapperMade
  <2> QED BY <1>1, <1>2, <1>5, <2>2 DEF NsIdle, vars
<1>6. ASSUME NEW o \in held, namespaces_initialize(o) PROVE NsStepGood
  <2>1. X(o) \in Node
    BY <1>6, ReceiverInUse DEF namespaces_initialize
  <2> QED BY <1>1, <1>4, <1>6, <2>1 DEF namespaces_initialize, vars
<1>7. ASSUME NEW o \in held, NEW w \in NsObject, NEW k \in NsCell, namespace_initialize(o, w, k)
      PROVE  NsStepGood
  BY <1>7, NamespaceMade DEF namespace_initialize, NsIdle, vars, NsStepGood
<1>8. ASSUME NEW n \in Node, NEW c \in Node \cup {NULL}, NEW w \in nsHeld, node_initialize_ns(n, c, w)
      PROVE  NsStepGood
  <2>1. /\ node_initialize(n, c) /\ NsIdle /\ nsPtr[w] \in UsedNs
        /\ nsOf' = [nsOf EXCEPT ![n] = nsPtr[w]]
        /\ UNCHANGED <<nsDef, nsPrivate, nsPtr, nsHeld, nsTrash, scopes, nsCursor>>
    BY <1>8 DEF node_initialize_ns
  <2>2. n \in InUse(xml')
    BY <2>1, InitializedInUse
  <2>3. Kept
    BY <2>1, MakeKeeps DEF Make
  <2>4. WrappersRight'
    BY <1>3, <2>1 DEF WrappersRight, UsedNs, Defined
  <2>5. \A m \in Node : m \notin InUse(xml') => nsOf'[m] = NULL
    BY <1>1, <2>1, <2>2, <2>3 DEF Kept
  <2> QED BY <1>1, <1>2, <2>1, <2>3, <2>4, <2>5 DEF Kept, NsIdle
<1>9. ASSUME NEW n \in scopes, namespaces_definitions(n) PROVE NsStepGood
  <2>1. WrappersRight'
    BY <1>1, <1>3, <1>9, DefinitionsWrapped DEF namespaces_definitions
  <2>2. /\ NsIdle /\ UNCHANGED <<vars, nsDef, nsOf, nsTrash, scopes, nsCursor>>
    BY <1>9 DEF namespaces_definitions
  <2> QED BY <1>1, <1>2, <2>1, <2>2 DEF NsIdle, vars
<1>10. ASSUME NEW n \in scopes, namespaces_find(n) PROVE NsStepGood
  BY <1>1, <1>5, <1>10 DEF namespaces_find
<1>11. ASSUME NEW n \in scopes, namespace_get(n) PROVE NsStepGood
  BY <1>1, <1>5, <1>11 DEF namespace_get
<1>12. ASSUME NEW n \in scopes, namespaces_node_get(n) PROVE NsStepGood
  <2>1. Kept
    BY <1>12, FollowKeeps DEF namespaces_node_get, NsIdle, Running
  <2> QED BY <1>1, <1>4, <1>12, <2>1 DEF namespaces_node_get, nsVars
<1>13. ASSUME NEW n \in scopes, namespaces_each(n) PROVE NsStepGood
  <2>1. PICK list \in SUBSET InScope(n) : \E k \in list :
          namespace_wrap(k) /\ nsCursor' = [node |-> n, rest |-> list \ {k}]
    BY <1>13 DEF namespaces_each
  <2>2. InScope(n) \subseteq NsCell
    BY <1>1 DEF InScope
  <2>3. PICK k : namespace_wrap(k) /\ nsCursor' = [node |-> n, rest |-> list \ {k}]
    BY <2>1
  <2>4. nsCursor' \in [node : Node \cup {NULL}, rest : SUBSET NsCell]
    BY <1>1, <2>1, <2>2, <2>3
  <2> QED BY <1>5, <1>13, <2>3, <2>4 DEF namespaces_each
<1>14. ASSUME NEW n \in scopes, namespaces_drop(n) PROVE NsStepGood
  BY <1>1, <1>4, <1>14 DEF namespaces_drop, vars
<1>15. ASSUME NEW n \in scopes, NEW w \in nsHeld, namespace_set(n, w) PROVE NsStepGood
  <2>1. /\ NsIdle /\ n \in InUse(xml) /\ nsPtr[w] \in UsedNs
        /\ nsOf' = [nsOf EXCEPT ![n] = nsPtr[w]]
        /\ UNCHANGED <<vars, nsDef, nsPrivate, nsPtr, nsHeld, nsTrash, scopes, nsCursor>>
    BY <1>15 DEF namespace_set, InUseScope
  <2>2. WrappersRight'
    BY <1>3, <2>1 DEF WrappersRight, UsedNs, Defined
  <2> QED BY <1>1, <1>2, <2>1, <2>2 DEF NsIdle, vars
<1>16. ASSUME NEW w \in nsHeld, namespace_next(w) PROVE NsStepGood
  BY <1>1, <1>5, <1>16 DEF namespace_next
<1>17. ASSUME NEW w \in nsHeld, ns_drop(w) PROVE NsStepGood
  BY <1>1, <1>4, <1>17 DEF ns_drop, vars
<1>18. CASE namespaces_each_next
  <2>1. NsIdle /\ UNCHANGED <<vars, nsDef, nsOf, nsTrash, scopes>>
    BY <1>18 DEF namespaces_each_next
  <2>2. ASSUME NEW k \in nsCursor.rest, namespace_wrap(k), nsCursor' = [nsCursor EXCEPT !.rest = @ \ {k}]
        PROVE  NsStepGood
    BY <1>1, <1>5, <2>1, <2>2
  <2>3. CASE nsCursor' = NoNsCursor /\ UNCHANGED <<nsPrivate, nsPtr, nsHeld>>
    BY <1>1, <1>4, <2>1, <2>3 DEF NoNsCursor, vars
  <2> QED BY <1>18, <2>2, <2>3 DEF namespaces_each_next
<1>19. CASE namespaces_each_break
  BY <1>1, <1>4, <1>19 DEF namespaces_each_break, NoNsCursor, vars
<1> QED
  BY <1>6, <1>7, <1>8, <1>9, <1>10, <1>11, <1>12, <1>13, <1>14, <1>15, <1>16, <1>17, <1>18, <1>19
     DEF NsStep

\* Node n is in use, and no collection under way will free its tree.
Stays(n) == n \in Node \cap InUse(xml) /\ xml[Top(xml, n)].private \notin garbage

\* During a sweep a wrapper that will not be finalized has a namespace that
\* will not be freed.
NsDoomed ==
  garbage # {} =>
    /\ {w \in NsObject : nsPtr[w] # NULL} \subseteq nsHeld \cup nsTrash
    /\ \A w \in nsHeld : nsPtr[w] \in UsedNs /\ Stays(Definer(nsPtr[w]))

NsInv == IInv /\ HeldTrees /\ NsTyped /\ NsBound /\ NsDoomed

WrapperRulesKept == {"kept_trees", "wrapped_stay"} \subseteq NsRules

\* Outside a collection.
LEMMA NodeStepsFollow ==
  ASSUME IInv, NsTyped, NsNodeStep
  PROVE  /\ garbage = {} /\ garbage' = {} /\ NsIdle /\ NsFollow
         /\ UNCHANGED <<nsPtr, nsHeld, nsTrash, scopes, nsCursor>>
         /\ \/ InUse(xml) \subseteq InUse(xml')
            \/ WrappedStay
<1>1. garbage = {} /\ NsIdle /\ NsFollow /\ UNCHANGED <<nsPtr, nsHeld, nsTrash, scopes, nsCursor>>
  BY DEF NsNodeStep, NsIdle
<1>2. ASSUME Kept PROVE garbage' = {} /\ InUse(xml) \subseteq InUse(xml')
  BY <1>2 DEF Kept
<1>3. CASE \/ \E n \in Node, c \in Node \cup {NULL} : node_initialize(n, c)
           \/ \E d \in Doc : document_initialize(d)
           \/ \E d \in Doc, n \in Node, c \in Node \cup {NULL} : parser_parse(d, n, c)
  <2>1. Make
    BY <1>3 DEF Make
  <2> QED BY <1>1, <1>2, <2>1, MakeKeeps
<1>4. CASE Move
  BY <1>1, <1>2, <1>4, MoveKeeps
<1>5. CASE Edit /\ WrappedStay
  BY <1>1, <1>5, EditKeeps
<1>6. ASSUME NEW o \in held, drop(o)
      PROVE  garbage' = {} /\ xml' = xml
  BY <1>6 DEF drop, Running
<1> QED BY <1>1, <1>3, <1>4, <1>5, <1>6 DEF NsNodeStep

LEMMA NodeStepsKeepWrappers ==
  ASSUME WrapperRulesKept, IInv, NsTyped, NsBound, NsNodeStep
  PROVE  NsTyped' /\ NsBound' /\ NsDoomed'
<1>1. /\ garbage' = {} /\ NsIdle /\ NsFollow
      /\ UNCHANGED <<nsPtr, nsHeld, nsTrash, scopes, nsCursor>>
      /\ InUse(xml) \subseteq InUse(xml') \/ WrappedStay
  BY NodeStepsFollow
<1>2. /\ NsTyped' /\ NsTypeOK
      /\ \A k \in UsedNs' : k \in UsedNs /\ nsPrivate'[k] = nsPrivate[k]
      /\ \A k \in UsedNs : Definer(k) \in InUse(xml') => k \in UsedNs'
  BY <1>1, NsFollowed DEF NsTyped
<1>3. WrappersRight
  BY <1>1, IdleWrappers DEF NsIdle
<1>4. NULL \notin NsObject
  BY NsDistinct
<1>5. ASSUME NEW w \in NsObject, nsPtr[w] # NULL
      PROVE  nsPtr[w] \in UsedNs' /\ nsPrivate'[nsPtr[w]] = w
  <2>1. PICK k : k = nsPtr[w]
    OBVIOUS
  <2>2. k \in UsedNs /\ nsPrivate[k] = w
    BY <1>3, <1>5, <2>1 DEF WrappersRight
  <2>3. Definer(k) \in Node \cap InUse(xml) /\ k \in Defined(Definer(k))
    BY <1>2, <2>2, DefinedTyped
  <2>4. Definer(k) \in InUse(xml')
    BY <1>1, <1>4, <2>2, <2>3 DEF WrappedStay, WrapperRulesKept
  <2> QED BY <1>2, <2>1, <2>2, <2>4
<1>6. NsBound'
  <2>1. \A k \in UsedNs' : nsPrivate'[k] # NULL => nsPtr'[nsPrivate'[k]] = k
    BY <1>1, <1>2 DEF NsBound
  <2> QED BY <1>1, <1>5, <2>1 DEF NsBound
<1> QED BY <1>1, <1>2, <1>6 DEF NsDoomed

\* What the program holds is marked, and with it all of its tree.
LEMMA KeptStays ==
  ASSUME IInv, HeldTrees, garbage' = Live \ Marked, UNCHANGED xml,
         NEW n \in Node \cap InUse(xml), TreeKept(n)
  PROVE  Stays(n)'
<1>1. PICK o \in held : ruby[o].ptr # NULL /\ Top(xml, ruby[o].ptr) = Top(xml, n)
  BY DEF TreeKept
<1>2. xml[Top(xml, X(o))].private \in Marked
  BY <1>1, MarkedTops DEF HeldTrees, X
<1> QED BY <1>1, <1>2 DEF Stays, X

LEMMA CollectKeepsWrappers ==
  ASSUME WrapperRulesKept, NsInv, ns_collect
  PROVE  NsTyped' /\ NsBound' /\ NsDoomed'
<1>1. /\ garbage' = Live \ Marked /\ nsTrash' = NsGarbage /\ KeptTrees /\ NsIdle
      /\ UNCHANGED <<xml, nsDef, nsOf, nsPrivate, nsPtr, nsHeld, scopes, nsCursor>>
      /\ IInv /\ HeldTrees /\ NsTyped /\ NsTypeOK
  BY DEF ns_collect, NsInv, NsTyped
<1>2. WrappersRight
  BY <1>1, IdleWrappers DEF NsInv, NsIdle
<1>3. UsedNs' = UsedNs
  BY <1>1 DEF UsedNs, Defined
<1>4. NsTypeOK'
  BY <1>1, <1>3 DEF NsTypeOK, NsGarbage
<1>5. NsTyped' /\ NsBound'
  <2>1. UsedNs \subseteq NsCell
    BY <1>1, DefinedTyped
  <2>2. NsTyped'
    BY <1>1, <1>4 DEF NsTyped
  <2> QED BY <1>1, <1>2, <1>3, <2>1, <2>2 DEF NsBound, WrappersRight
<1>6. {w \in NsObject : nsPtr'[w] # NULL} \subseteq nsHeld' \cup nsTrash'
  BY <1>1 DEF NsGarbage
<1>7. ASSUME NEW w \in nsHeld'
      PROVE  nsPtr'[w] \in UsedNs' /\ Stays(Definer(nsPtr[w]))'
  <2>1. PICK k, d : k = nsPtr[w] /\ d = Definer(k)
    OBVIOUS
  <2>2. w \in nsHeld /\ k \in UsedNs /\ d \in Node \cap InUse(xml)
    BY <1>1, <1>2, <1>7, <2>1, DefinedTyped DEF WrappersRight
  <2>3. TreeKept(d)
    BY <1>1, <2>1, <2>2 DEF KeptTrees, WrapperRulesKept
  <2>4. Stays(d)'
    BY <1>1, <2>2, <2>3, KeptStays
  <2>5. Definer(nsPtr[w])' = d
    BY <1>1, <2>1 DEF Definer, Defined
  <2> QED BY <1>1, <1>3, <2>1, <2>2, <2>4, <2>5
<1> QED BY <1>5, <1>6, <1>7 DEF NsDoomed

\* A free function of a node.
LEMMA NodeSweepKeepsWrappers ==
  ASSUME NsInv, HeldTrees', NEW o \in Object, ns_node_sweep(o)
  PROVE  NsTyped' /\ NsBound' /\ NsDoomed'
<1>1. /\ sweep(o) /\ NsFollow /\ UNCHANGED <<nsPtr, nsHeld, nsTrash, scopes, nsCursor>>
      /\ garbage # {}
      /\ IInv /\ HeldTrees /\ NsTyped /\ NsTypeOK /\ nsHeld \subseteq NsObject
  BY DEF ns_node_sweep, NsInv, sweep, NsTyped
<1>2. /\ NsTyped'
      /\ \A k \in UsedNs' : k \in UsedNs /\ Definer(k)' = Definer(k) /\ nsPrivate'[k] = nsPrivate[k]
      /\ \A k \in UsedNs : Definer(k) \in InUse(xml') => k \in UsedNs'
  BY <1>1, NsFollowed
<1>3. ASSUME NEW w \in nsHeld
      PROVE  nsPtr[w] \in UsedNs' /\ Stays(Definer(nsPtr[w]))'
  <2>1. PICK k, d : k = nsPtr[w] /\ d = Definer(k)
    OBVIOUS
  <2>2. k \in UsedNs /\ d \in Node \cap InUse(xml) /\ xml[Top(xml, d)].private \notin garbage
    BY <1>1, <2>1 DEF NsInv, NsDoomed, Stays
  <2>3. d \in InUse(xml') /\ xml'[Top(xml', d)].private \notin garbage'
    BY <1>1, <2>2, SweepKeepsTree
  <2>4. k \in UsedNs' /\ Definer(k)' = d
    BY <1>2, <2>1, <2>2, <2>3
  <2>5. Stays(d)'
    BY <2>2, <2>3 DEF Stays
  <2>6. Definer(nsPtr[w])' = Definer(k)'
    BY <1>1, <2>1
  <2> QED BY <2>1, <2>4, <2>5, <2>6
<1>4. ASSUME NEW w \in NsObject, nsPtr[w] # NULL
      PROVE  IF nsPtr[w] \in UsedNs' THEN nsPrivate'[nsPtr[w]] = w ELSE w \in nsTrash
  <2>1. w \in nsHeld \cup nsTrash
    BY <1>1, <1>4 DEF NsInv, NsDoomed
  <2>2. nsPtr[w] \in UsedNs => nsPrivate[nsPtr[w]] = w
    BY <1>4 DEF NsInv, NsBound
  <2> QED BY <1>2, <1>3, <2>1, <2>2
<1>5. \A k \in UsedNs' : nsPrivate'[k] # NULL => nsPtr'[nsPrivate'[k]] = k
  BY <1>1, <1>2 DEF NsInv, NsBound
<1>6. NsBound'
  BY <1>1, <1>4, <1>5 DEF NsBound
<1>7. {w \in NsObject : nsPtr'[w] # NULL} \subseteq nsHeld' \cup nsTrash'
  BY <1>1 DEF NsInv, NsDoomed
<1> QED BY <1>1, <1>2, <1>3, <1>6, <1>7 DEF NsDoomed

\* The free function of a Namespace.
LEMMA WrapperSweepKeepsWrappers ==
  ASSUME NsInv, NEW w \in NsObject, ns_sweep(w)
  PROVE  NsTyped' /\ NsBound' /\ NsDoomed'
<1>1. PICK c : c = nsPtr[w]
  OBVIOUS
<1>2. /\ w \in nsTrash /\ w \notin nsHeld /\ nsTrash' = nsTrash \ {w}
      /\ nsPrivate' = [nsPrivate EXCEPT ![c] = NULL] /\ nsPtr' = [nsPtr EXCEPT ![w] = NULL]
      /\ UNCHANGED <<xml, garbage, nsDef, nsOf, nsHeld, scopes, nsCursor>>
      /\ NsTyped /\ NsTypeOK /\ NsBound /\ NsDoomed
  BY <1>1 DEF ns_sweep, namespace_free, vars, NsInv, NsTyped, NsTypeOK
<1>3. /\ nsPrivate' \in [NsCell -> NsObject \cup {NULL}] /\ nsPtr' \in [NsObject -> NsCell \cup {NULL}]
      /\ \A k \in NsCell : nsPrivate'[k] = IF k = c THEN NULL ELSE nsPrivate[k]
      /\ \A v \in NsObject : nsPtr'[v] = IF v = w THEN NULL ELSE nsPtr[v]
  BY <1>2 DEF NsTypeOK
<1>4. UsedNs' = UsedNs /\ \A k : Definer(k)' = Definer(k)
  BY <1>2 DEF UsedNs, Defined, Definer
<1>5. UsedNs \subseteq NsCell
  BY <1>2, DefinedTyped
<1>6. NsTypeOK'
  BY <1>2, <1>3, <1>4 DEF NsTypeOK
<1>7. NsTyped'
  BY <1>2, <1>3, <1>6 DEF NsTyped
<1>8. \A k \in UsedNs : nsPrivate'[k] # NULL => nsPtr'[nsPrivate'[k]] = k
  <2>1. SUFFICES ASSUME NEW k \in UsedNs, nsPrivate'[k] # NULL PROVE nsPtr'[nsPrivate'[k]] = k
    OBVIOUS
  <2>2. k # c /\ nsPrivate'[k] = nsPrivate[k] /\ nsPrivate[k] \in NsObject /\ nsPtr[nsPrivate[k]] = k
    BY <1>2, <1>3, <1>5, <2>1 DEF NsBound, NsTypeOK
  <2> QED BY <1>1, <1>3, <2>2
<1>9. ASSUME NEW v \in NsObject, nsPtr'[v] # NULL
      PROVE  IF nsPtr'[v] \in UsedNs THEN nsPrivate'[nsPtr'[v]] = v ELSE v \in nsTrash'
  <2>1. v # w /\ nsPtr'[v] = nsPtr[v]
    BY <1>3, <1>9
  <2>2. nsPtr[v] \in UsedNs => nsPrivate[nsPtr[v]] = v /\ nsPtr[v] # c
    BY <1>1, <1>2, <1>9, <2>1, NsDistinct DEF NsBound
  <2> QED BY <1>2, <1>3, <1>5, <1>9, <2>1, <2>2 DEF NsBound
<1>10. NsBound'
  BY <1>4, <1>8, <1>9 DEF NsBound
<1>11. ASSUME garbage' # {}, NEW v \in nsHeld'
       PROVE  nsPtr'[v] \in UsedNs' /\ Stays(Definer(nsPtr[v]))'
  <2>1. v \in NsObject /\ nsPtr'[v] = nsPtr[v]
    BY <1>2, <1>3, <1>11 DEF NsTyped
  <2>2. nsPtr[v] \in UsedNs /\ Stays(Definer(nsPtr[v]))
    BY <1>2, <1>11 DEF NsDoomed
  <2>3. PICK k, d : k = nsPtr[v] /\ d = Definer(k)
    OBVIOUS
  <2>4. Stays(d)'
    BY <1>2, <2>2, <2>3 DEF Stays
  <2>5. Definer(nsPtr[v])' = d
    BY <1>4, <2>1, <2>3
  <2> QED BY <1>4, <2>1, <2>2, <2>4, <2>5
<1>12. garbage' # {} => {v \in NsObject : nsPtr'[v] # NULL} \subseteq nsHeld' \cup nsTrash'
  BY <1>2, <1>3 DEF NsDoomed
<1> QED BY <1>7, <1>10, <1>11, <1>12 DEF NsDoomed

LEMMA InitNsInv ==
  ASSUME NsInit
  PROVE  NsInv
<1>1. IInv /\ HeldTrees /\ garbage = {}
  BY InitIInv, InitTInv DEF NsInit, TInv, Init
<1>2. \A n \in Node : Defined(n) = {}
  BY DEF NsInit, Defined
<1>3. NsTypeOK /\ UsedNs = {}
  BY <1>2 DEF NsInit, NsTypeOK, UsedNs
<1> QED BY <1>1, <1>3 DEF NsInit, NoNsCursor, NsInv, NsTyped, NsBound, NsDoomed

LEMMA NsKeepsInv ==
  ASSUME LawAbiding, WrapperRulesKept, NsInv, [NsNext]_allNsVars
  PROVE  NsInv'
<1>1. IInv' /\ HeldTrees' /\ IInv /\ HeldTrees /\ NsTyped /\ NsBound
  BY NsSteps, CompanionKeepsIInv, CompanionKeepsTrees DEF NsInv
<1>2. CASE NsNodeStep
  BY <1>1, <1>2, NodeStepsKeepWrappers DEF NsInv
<1>3. CASE NsStep
  BY <1>1, <1>3, NsStepTyped DEF NsInv, NsStepGood, NsDoomed
<1>4. CASE ns_collect
  BY <1>1, <1>4, CollectKeepsWrappers DEF NsInv
<1>5. ASSUME NEW o \in Object, ns_node_sweep(o) PROVE NsInv'
  BY <1>1, <1>5, NodeSweepKeepsWrappers DEF NsInv
<1>6. ASSUME NEW w \in NsObject, ns_sweep(w) PROVE NsInv'
  BY <1>1, <1>6, WrapperSweepKeepsWrappers DEF NsInv
<1>7. CASE UNCHANGED allNsVars
  <2>1. NsTyped'
    BY <1>1, <1>7 DEF allNsVars, nsVars, vars, NsTyped, NsTypeOK, UsedNs, Defined
  <2>2. NsBound'
    BY <1>1, <1>7 DEF allNsVars, nsVars, vars, NsBound, UsedNs, Defined
  <2>3. NsDoomed'
    BY <1>7 DEF allNsVars, nsVars, vars, NsInv, NsDoomed, UsedNs, Defined, Definer, Stays
  <2> QED BY <1>1, <2>1, <2>2, <2>3 DEF NsInv
<1> QED BY <1>2, <1>3, <1>4, <1>5, <1>6, <1>7 DEF NsNext

\* A Namespace object and its xmlNs refer to each other, and the xmlNs is in
\* use or the object about to be finalized, although nothing tells a wrapper
\* (rxml_namespace_wrap) that a node has been freed.
THEOREM NamespacesBound ==
  ASSUME LawAbiding, WrapperRulesKept
  PROVE  NsSpec => []NsWrapperBijection
<1>1. NsInit => NsInv
  BY InitNsInv
<1>2. NsInv /\ [NsNext]_allNsVars => NsInv'
  BY NsKeepsInv
<1>3. NsInv => NsWrapperBijection
  BY DEF NsInv, NsTyped, NsBound, NsWrapperBijection
<1> QED BY <1>1, <1>2, <1>3, PTL DEF NsSpec
=============================================================================
