----------------------------- MODULE NodeMemory -----------------------------
(***************************************************************************)
(* Who owns an XML tree: the "memory2" protocol of ruby_xml_node.c and     *)
(* ruby_xml_document.c between libxml2's heap and Ruby's garbage collector. *)
(*                                                                         *)
(* Every structure a program has retrieved has one Ruby wrapper object:    *)
(* the structure's _private field refers to the wrapper, the wrapper's     *)
(* DATA_PTR to the structure.  A garbage collection marks from the         *)
(* wrappers the program holds, through rxml_node_mark, and then runs       *)
(* rxml_node_free or rxml_document_free for every other wrapper, in the    *)
(* order of their heap slots, which is no order a program can rely on.     *)
(* The interpreter is single-threaded and its collector stops the program: *)
(* no action of the program happens while garbage is non-empty.            *)
(*                                                                         *)
(* A method that fails (a TypeError, xmlAddNextSibling returning NULL)     *)
(* changes no state and has no action here.  A method called on a wrapper  *)
(* whose DATA_PTR was reset to NULL dereferences NULL: it has no step.     *)
(***************************************************************************)
EXTENDS LibxmlTree

CONSTANTS
  Rules,   \* the usage rules, defined below, that the program keeps
  LeafType \* bound: the types of leaves, apart from empty elements, that it makes

ASSUME LeafTypesAreTypes == LeafType \subseteq {"text", "comment"}

ASSUME RulesAreKnown == Rules \subseteq {"outside", "anchored", "first_root", "other_sibling"}

VARIABLES
  xml,     \* libxml2's heap
  ruby,    \* Ruby's heap: the class and the DATA_PTR of each object
  held,    \* the wrappers the program's variables refer to
  garbage  \* during a sweep, the wrappers still to be finalized

vars == <<xml, ruby, held, garbage>>

RubyRecord == [class : {"none", "Node", "Document"}, ptr : Cell \cup {NULL}]

NoObject == [class |-> "none", ptr |-> NULL]

Live == {o \in Object : ruby[o].class # "none"}

Init ==
  /\ xml = [c \in Cell |-> Blank("free")]
  /\ ruby = [o \in Object |-> NoObject]
  /\ held = {}
  /\ garbage = {}

-----------------------------------------------------------------------------
(* Wrapping.                                                               *)

\* rxml_node_deregisterNode, which libxml2 calls for each structure it
\* frees: the wrapper's DATA_PTR is reset.
deregisterNode(h, r, dead) ==
  [o \in Object |-> IF \E c \in dead : h[c].private = o
                    THEN [r[o] EXCEPT !.ptr = NULL] ELSE r[o]]

\* The program gets the object for structure c of heap h: the one it is
\* bound to, or a new one of that class.  Freed memory holds no _private to
\* read: wrapping a freed structure has no step.
Wrap(h, r, c, class) ==
  /\ c \in InUse(h)
  /\ \/ /\ h[c].private # NULL
        /\ xml' = h
        /\ ruby' = r
        /\ held' = held \cup {h[c].private}
     \/ /\ h[c].private = NULL
        /\ \E o \in Object :
             /\ r[o] = NoObject
             /\ xml' = [h EXCEPT ![c].private = o]
             /\ ruby' = [r EXCEPT ![o] = [class |-> class, ptr |-> c]]
             /\ held' = held \cup {o}

\* Mutant of node_wrap: the "already wrapped?" test is missing.
node_wrap_anew(h, r, c) ==
  /\ c \in InUse(h)
  /\ \E o \in Object :
       /\ r[o] = NoObject
       /\ xml' = [h EXCEPT ![c].private = o]
       /\ ruby' = [r EXCEPT ![o] = [class |-> "Node", ptr |-> c]]
       /\ held' = held \cup {o}

node_wrap(h, r, c) == Wrap(h, r, c, "Node")

document_wrap(h, r, c) == Wrap(h, r, c, "Document")

\* What an edit of the tree leads to: freed structures lose their wrapper's
\* pointer and the node libxml2 returns is wrapped.
Finish(e) ==
  LET r == deregisterNode(xml, ruby, e.dead)
  IN \/ e.ret = NULL /\ xml' = e.heap /\ ruby' = r /\ UNCHANGED held
     \/ node_wrap(e.heap, r, e.ret)

\* The program calls a method of a Node it holds, of a Document it holds.
Running == garbage = {} /\ UNCHANGED garbage

IsNode(o)     == o \in held /\ ruby[o].class = "Node" /\ ruby[o].ptr # NULL
IsDocument(o) == o \in held /\ ruby[o].class = "Document" /\ ruby[o].ptr # NULL

X(o) == ruby[o].ptr

-----------------------------------------------------------------------------
(* Making nodes and documents.                                             *)

\* Node.new(name, content = nil): c is the text node of the content.
node_initialize(n, c) ==
  /\ Running
  /\ n \in FreeNodes(xml)
  /\ c \in (FreeNodes(xml) \ {n}) \cup {NULL}
  /\ node_wrap(NodeSetContent([xml EXCEPT ![n] = Blank("element")], n, c).heap, ruby, n)

\* Node.new_text(content)
node_new_text(n) ==
  /\ Running
  /\ n \in FreeNodes(xml)
  /\ node_wrap([xml EXCEPT ![n] = Blank("text")], ruby, n)

\* Node.new_comment(content = nil), Node.new_cdata(content = nil)
node_new_comment(n) ==
  /\ Running
  /\ n \in FreeNodes(xml)
  /\ node_wrap([xml EXCEPT ![n] = Blank("comment")], ruby, n)

\* Document.new
document_initialize(d) ==
  /\ Running
  /\ d \in Doc \ InUse(xml)
  /\ document_wrap([xml EXCEPT ![d] = Blank("document")], ruby, d)

\* Parser#parse: a document with a root element, whose text is c, is built
\* by libxml2; only the document gets a wrapper.
parser_parse(d, n, c) ==
  /\ Running
  /\ d \in Doc \ InUse(xml)
  /\ n \in FreeNodes(xml)
  /\ c \in (FreeNodes(xml) \ {n}) \cup {NULL}
  /\ document_wrap(ParseDocument(xml, d, n, c), ruby, d)

\* Node#copy(deep): the copy of the node, and when deep of its subtree, in
\* the cells f maps them to.
node_copy(o) ==
  /\ Running
  /\ IsNode(o)
  /\ \E S \in {{X(o)}, Subtree(xml, X(o))} :
       \E f \in [S -> FreeNodes(xml)] :
         /\ \A x, y \in S : f[x] = f[y] => x = y
         /\ node_wrap(CopyNode(xml, S, f), ruby, f[X(o)])

-----------------------------------------------------------------------------
(* Moving through a tree: the getters.                                     *)

Follow(c) == node_wrap(xml, ruby, c)

first_get(o)  == Running /\ IsNode(o) /\ Follow(xml[X(o)].children)
last_get(o)   == Running /\ IsNode(o) /\ Follow(xml[X(o)].last)
next_get(o)   == Running /\ IsNode(o) /\ Follow(xml[X(o)].next)
prev_get(o)   == Running /\ IsNode(o) /\ Follow(xml[X(o)].prev)
parent_get(o) == Running /\ IsNode(o) /\ Follow(xml[X(o)].parent)

document_child_get(o) == Running /\ IsDocument(o) /\ Follow(xml[X(o)].children)
document_last_get(o)  == Running /\ IsDocument(o) /\ Follow(xml[X(o)].last)
document_root_get(o)  == Running /\ IsDocument(o) /\ Follow(RootElement(xml, X(o)))

\* Node#doc: the document's wrapper; an unbound document raises.
node_doc(o) ==
  /\ Running
  /\ IsNode(o)
  /\ xml[X(o)].doc # NULL
  /\ xml[xml[X(o)].doc].private # NULL
  /\ held' = held \cup {xml[xml[X(o)].doc].private}
  /\ UNCHANGED <<xml, ruby>>

-----------------------------------------------------------------------------
(* Editing a tree.                                                         *)

\* Mutant of child_set_aux: the test of the child's parent and doc is missing.
child_set_aux_linked(o, p) ==
  /\ Running
  /\ IsNode(o) /\ IsNode(p)
  /\ Finish(AddChild(xml, X(o), X(p)))

\* Node#child=, #child_add, and #<< with a node.
child_set_aux(o, p) ==
  /\ Running
  /\ IsNode(o) /\ IsNode(p)
  /\ xml[X(p)].parent = NULL
  /\ xml[X(p)].doc = NULL
  /\ Finish(AddChild(xml, X(o), X(p)))

\* Node#<< with a string: an element gets a new last child, the text node c,
\* for which no wrapper is made; into a text, a comment or a last text child
\* the string is merged, without an effect here.
content_add(o, c) ==
  /\ Running
  /\ IsNode(o)
  /\ c \in FreeNodes(xml)
  /\ xml[X(o)].type = "element" /\ ~IsText(xml, xml[X(o)].last)
  /\ xml' = NodeAddContent(xml, X(o), c).heap
  /\ UNCHANGED <<ruby, held>>

\* Node#content=
content_set(o, c) ==
  /\ Running
  /\ IsNode(o)
  /\ c \in FreeNodes(xml) \cup {NULL}
  /\ LET e == NodeSetContent(xml, X(o), c)
     IN xml' = e.heap /\ ruby' = deregisterNode(xml, ruby, e.dead)
  /\ UNCHANGED held

\* Node#next= and #prev=: the argument may be linked anywhere.
next_set(o, p) ==
  /\ Running
  /\ IsNode(o) /\ IsNode(p)
  /\ o # p
  /\ Finish(AddNextSibling(xml, X(o), X(p)))

prev_set(o, p) ==
  /\ Running
  /\ IsNode(o) /\ IsNode(p)
  /\ o # p
  /\ Finish(AddPrevSibling(xml, X(o), X(p)))

\* The last of the siblings of n: one, or none if they are linked in a ring.
LastSibling(n) ==
  {l \in Node \cap Closure({n}, [x \in Cell |-> {xml[x].next} \ {NULL}]) : xml[l].next = NULL}

\* Node#sibling=
sibling_set(o, p) ==
  /\ Running
  /\ IsNode(o) /\ IsNode(p)
  /\ o # p
  /\ \E l \in LastSibling(X(o)) : Finish(AddSibling(xml, l, X(p)))

\* Mutants of remove_ex: without xmlSetTreeDoc; for the node alone.
remove_ex_unlinking(o) ==
  /\ Running
  /\ IsNode(o)
  /\ xml' = Unlink(xml, X(o))
  /\ UNCHANGED <<ruby, held>>

remove_ex_shallow(o) ==
  /\ Running
  /\ IsNode(o)
  /\ xml' = [Unlink(xml, X(o)) EXCEPT ![X(o)].doc = NULL]
  /\ UNCHANGED <<ruby, held>>

\* Node#remove!
remove_ex(o) ==
  /\ Running
  /\ IsNode(o)
  /\ xml' = SetTreeDoc(Unlink(xml, X(o)), X(o), NULL)
  /\ UNCHANGED <<ruby, held>>

\* Document#root=: returns the old root.
document_root_set(o, p) ==
  /\ Running
  /\ IsDocument(o) /\ IsNode(p)
  /\ Finish(DocSetRootElement(xml, X(o), X(p)))

-----------------------------------------------------------------------------
(* Garbage collection.                                                     *)

\* Mutant of node_mark: the branch for detached trees is missing.
node_mark_doc(n) ==
  IF xml[n].parent = NULL THEN {}
  ELSE IF xml[n].doc # NULL THEN {xml[xml[n].doc].private} \ {NULL}
  ELSE {}

\* rxml_node_mark: the wrapper that the one of node n keeps alive, if any.
node_mark(n) ==
  IF xml[n].parent = NULL THEN {}
  ELSE IF xml[n].doc # NULL THEN {xml[xml[n].doc].private} \ {NULL}
  ELSE {xml[Top(xml, n)].private} \ {NULL}

\* Mutant of Marked: what the program holds is not marked itself.
Marked_through == UNION {node_mark(X(o)) : o \in {q \in held : IsNode(q)}}

\* A top node or a document marks nothing more, so one level is enough.
Marked ==
  held \cup UNION {node_mark(X(o)) : o \in {q \in held : IsNode(q)}}

\* The loop of rxml_node_mark_common ends for every wrapper marked.
MarkReturns ==
  \A o \in held : (IsNode(o) /\ xml[X(o)].doc = NULL) => HasTop(xml, X(o))

gc_mark ==
  /\ garbage = {}
  /\ MarkReturns
  /\ garbage' = Live \ Marked
  /\ UNCHANGED <<xml, ruby, held>>

\* The program forgets an object: a variable is reset or goes out of scope.
drop(o) ==
  /\ Running
  /\ o \in held
  /\ held' = held \ {o}
  /\ UNCHANGED <<xml, ruby>>

\* Mutant of Finalized: _private is not reset.
Finalized_bound(c, dead) == Release(xml, dead)

\* The heap once the free function has run for a wrapper of cell c.
Finalized(c, dead) == Release([xml EXCEPT ![c].private = NULL], dead)

\* Mutants of node_free: without the test of the parent; for leaves only.
node_free_linked(n) == IF xml[n].doc = NULL THEN Subtree(xml, n) ELSE {}

node_free_leaf(n) ==
  IF xml[n].doc = NULL /\ xml[n].parent = NULL /\ xml[n].children = NULL
  THEN {n} ELSE {}

\* rxml_node_free: the structures freed with the wrapper of node n.
node_free(n) ==
  IF xml[n].doc = NULL /\ xml[n].parent = NULL THEN Subtree(xml, n) ELSE {}

\* rxml_document_free: xmlFreeDoc frees the document with its tree.
document_free(d) == Subtree(xml, d)

\* Ruby finalizes one wrapper and takes its slot back.
sweep(o) ==
  /\ o \in garbage
  /\ garbage' = garbage \ {o}
  /\ IF X(o) = NULL
     THEN ruby' = [ruby EXCEPT ![o] = NoObject] /\ UNCHANGED xml
     ELSE LET dead == IF ruby[o].class = "Node" THEN node_free(X(o))
                                                ELSE document_free(X(o))
          IN /\ xml' = Finalized(X(o), dead)
             /\ ruby' = [deregisterNode(xml, ruby, dead) EXCEPT ![o] = NoObject]
  /\ UNCHANGED held

-----------------------------------------------------------------------------
(* Usage rules.  The code does not enforce them; the README says what      *)
(* becomes of the protocol without each.                                   *)

\* "outside": a node is not linked below or beside a part of its own tree.
Outside(o, p) == "outside" \in Rules => X(o) \notin Subtree(xml, X(p))

\* "anchored": a node becomes a sibling only of a node that has a parent.
Anchored(o) == "anchored" \in Rules => xml[X(o)].parent # NULL

\* "other_sibling": a node that is already the last of the receiver's siblings
\* is not passed to sibling=.
OtherSibling(o, p) == "other_sibling" \in Rules => X(p) \notin LastSibling(X(o))

\* "first_root": a document's root element is not replaced by another one.
FirstRoot(o, p) ==
  "first_root" \in Rules => RootElement(Unlink(xml, X(p)), X(o)) = NULL

Make ==
  \/ \E n \in Node : "text" \in LeafType /\ node_new_text(n)
  \/ \E n \in Node : "comment" \in LeafType /\ node_new_comment(n)
  \/ \E n \in Node, c \in Node \cup {NULL} : node_initialize(n, c)
  \/ \E d \in Doc : document_initialize(d)
  \/ \E d \in Doc, n \in Node, c \in Node \cup {NULL} : parser_parse(d, n, c)
  \/ \E o \in held : node_copy(o)

Move ==
  \E o \in held :
    \/ first_get(o) \/ last_get(o) \/ next_get(o) \/ prev_get(o) \/ parent_get(o)
    \/ document_child_get(o) \/ document_last_get(o) \/ document_root_get(o)
    \/ node_doc(o)

Edit ==
  \/ \E o \in held, c \in Node \cup {NULL} : content_add(o, c) \/ content_set(o, c)
  \/ \E o \in held : remove_ex(o)
  \/ \E o, p \in held : IsNode(o) /\ IsNode(p) /\ Outside(o, p) /\ child_set_aux(o, p)
  \/ \E o, p \in held : /\ IsNode(o) /\ IsNode(p) /\ Outside(o, p) /\ Anchored(o)
                        /\ \/ next_set(o, p) \/ prev_set(o, p)
                           \/ OtherSibling(o, p) /\ sibling_set(o, p)
  \/ \E o, p \in held : /\ IsDocument(o) /\ IsNode(p) /\ FirstRoot(o, p)
                        /\ document_root_set(o, p)

Collect == gc_mark \/ \E o \in Object : sweep(o)

Next == Make \/ Move \/ Edit \/ Collect \/ \E o \in held : drop(o)

Spec == Init /\ [][Next]_vars

-----------------------------------------------------------------------------
(* What the query methods read.  They change nothing that is modelled, but *)
(* all of it has to be in use.                                             *)

\* Node#name, #name=, and the other fields of the structure itself
name_get(n) == {n}

\* Node#content, #content_stripped: the latter only if it has text itself.
content_get(n) == Subtree(xml, n)

content_stripped_get(n) == IF xml[n].type = "element" THEN {n} ELSE content_get(n)

\* Node#base_uri, #lang, #space_preserve, #xlink?, #xlink_type and
\* #xlink_type_name: the attributes, inherited or with inherited namespaces.
base_uri_get(n) == IF xml[n].doc = NULL THEN {n} ELSE Ancestors(xml, n)

lang_get(n) == Ancestors(xml, n)

space_preserve_get(n) == Ancestors(xml, n)

xlink_q(n) == Ancestors(xml, n)

\* Node#path: the place of each ancestor among its siblings.
path(n) ==
  LET above == Ancestors(xml, n)
  IN above \cup UNION {Siblings(xml, a) : a \in above \ {n}}

\* Node#line_num: a text asks the nodes before it or its parent.
line_num(n) ==
  IF xml[n].type = "element" THEN {n}
  ELSE Closure({n}, [x \in Cell |-> {xml[x].prev} \ {NULL}]) \cup ({xml[n].parent} \ {NULL})

\* Node#to_s, and #eql? of two nodes that are not the same object
node_to_s(n) == Subtree(xml, n) \cup ({xml[n].doc} \ {NULL})

eql_q(n) == node_to_s(n)

\* Document#save, #to_s, #order_elements!; the other queries look at the
\* fields of the document or for neighbours, which it never has.
document_save(d) == Subtree(xml, d)

document_to_s(d) == Subtree(xml, d)

document_fields(d) == {d}

document_neighbours(d) == {xml[d].parent, xml[d].next, xml[d].prev} \ {NULL}

Queries(c) ==
  IF c \in Doc
  THEN document_save(c) \cup document_to_s(c) \cup document_fields(c) \cup document_neighbours(c)
  ELSE name_get(c) \cup content_get(c) \cup content_stripped_get(c) \cup base_uri_get(c)
         \cup lang_get(c) \cup space_preserve_get(c) \cup xlink_q(c) \cup path(c)
         \cup line_num(c) \cup node_to_s(c) \cup eql_q(c)

-----------------------------------------------------------------------------
(* Properties.                                                             *)

\* The heaps are typed, an object the program holds keeps its slot, and the
\* collector finalizes only objects that exist and that are not held.
TypeOK ==
  /\ xml \in Heap
  /\ ruby \in [Object -> RubyRecord]
  /\ held \subseteq Live
  /\ garbage \subseteq Live \ held

\* "All ruby retrieval for an xml node will result in the same ruby
\* instance" (ruby_xml_node.c:38): _private and DATA_PTR are inverse to each
\* other, so a structure never has two wrappers, a wrapper never outlives
\* its structure with a pointer to it, and no structure is bound to a
\* wrapper whose slot Ruby has taken back.
WrapperBijection ==
  /\ \A o \in Object : ruby[o].ptr # NULL => xml[ruby[o].ptr].private = o
  /\ \A c \in Cell : xml[c].private # NULL => ruby[xml[c].private].ptr = c

\* No pointer of a structure leads to freed memory: neither the program's
\* walks and queries nor a mark nor a free function ever touch it.
NoDangling ==
  /\ \A c \in InUse(xml) : Links(xml, c) \subseteq InUse(xml)
  /\ \A o \in held : X(o) # NULL => Queries(X(o)) \subseteq InUse(xml)

\* Nothing leaks: every structure belongs to a tree whose top, a document or
\* a detached node, has a wrapper whose free function will free the tree.
Owned == \A c \in InUse(xml) : xml[Top(xml, c)].private # NULL

\* A node's doc pointer names the document whose tree it is in, and is NULL
\* in a detached tree: what rxml_node_mark_common and rxml_node_free decide
\* by.  Moves within and between trees have to keep it right; the rb_bug of
\* rxml_node_mark_common ("XmlNode Doc is not bound!") is then never reached.
DocOfTree ==
  \A n \in Node \cap InUse(xml) :
    xml[n].doc = IF Top(xml, n) \in Doc THEN Top(xml, n) ELSE NULL

\* The trees are trees: sibling and parent pointers agree, and no walk
\* upwards, such as the loop of rxml_node_mark_common, runs in a circle.
WellLinked == \A n \in Node \cap InUse(xml) : LinkedInPlace(xml, n)

\* A structure that lives on stays bound to the object the program holds for
\* it: retrieving it again, along whatever path, yields the same object.
HeldIdentity ==
  [][\A o \in held : (ruby[o].ptr # NULL /\ ruby[o].ptr \in InUse(xml'))
                       => xml'[ruby[o].ptr].private = o]_vars

\* A collection is exact: when it ends, every structure left is in a tree in
\* which the program holds a wrapper, whatever the order of the sweep.
CollectionIsExact ==
  [][(garbage # {} /\ garbage' = {}) =>
       \A c \in InUse(xml') :
         \E o \in held : ruby'[o].ptr # NULL /\ Top(xml', ruby'[o].ptr) = Top(xml', c)]_vars

\* The protocol implements what NodeIdentity promises: the instance of a
\* structure is what its _private field refers to.
Promise == INSTANCE NodeIdentity WITH
             instance <- [c \in Cell |-> xml[c].private],
             collecting <- garbage # {}

PromiseKept == Promise!Spec
=============================================================================
