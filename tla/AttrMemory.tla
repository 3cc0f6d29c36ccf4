----------------------------- MODULE AttrMemory -----------------------------
(***************************************************************************)
(* Attributes beside NodeMemory: the Attr wrappers of ruby_xml_attr.c, and *)
(* the Attributes lists of ruby_xml_attributes.c with their iterator.      *)
(*                                                                         *)
(* An attribute has a wrapper as a node has, with a mark and a free        *)
(* function of its own; it is removed without its doc pointer being reset. *)
(* An Attributes object has the address of a node, but is not registered   *)
(* with it and is not told when the node is freed.                         *)
(*                                                                         *)
(* Names and values are left out: that one of a node's attributes has the  *)
(* name asked for, and which one, is a choice.  Setting the value of an    *)
(* attribute changes nothing here.                                         *)
(***************************************************************************)
EXTENDS NodeMemory, Naturals, Sequences

CONSTANTS
  Attr,      \* memory cells for xmlAttr structures
  AttrRules  \* the usage rules, defined below, that the program keeps

ASSUME AttrsDistinct == Attr \cap (Cell \cup Object \cup {NULL}) = {}

ASSUME AttrRulesAreKnown ==
  AttrRules \subseteq {"rooted_list", "listed_stays", "still_list", "linked_doc"}

VARIABLES
  attr,       \* the xmlAttr structures: whether in use, and their pointers
  props,      \* the properties list of each node
  bound,      \* the attributes that have a wrapper
  attrHeld,   \* those whose wrapper the program's variables refer to
  attrTrash,  \* during a sweep, those whose wrapper is still to be finalized
  lists,      \* the nodes of the Attributes objects the program refers to
  attrCursor  \* Attributes#each: its node and attribute while it runs

attrVars == <<attr, props, bound, attrHeld, attrTrash, lists, attrCursor>>

allAttrVars == <<vars, attrVars>>

AttrRecord == [used : BOOLEAN, parent : Node \cup {NULL}, doc : Doc \cup {NULL}]

NoAttr == [used |-> FALSE, parent |-> NULL, doc |-> NULL]

NoAttrCursor == [node |-> NULL, attr |-> NULL]

UsedAttrs == {a \in Attr : attr[a].used}

AttrInit ==
  /\ Init
  /\ attr = [a \in Attr |-> NoAttr]
  /\ props = [n \in Node |-> <<>>]
  /\ bound = {} /\ attrHeld = {} /\ attrTrash = {} /\ lists = {}
  /\ attrCursor = NoAttrCursor

\* No collection is under way.
AttrIdle == garbage = {} /\ attrTrash = {}

ListOf(n) == {props[n][i] : i \in DOMAIN props[n]}

Place(a) == CHOOSE i \in DOMAIN props[attr[a].parent] : props[attr[a].parent][i] = a

\* The attribute behind a, the one before it, or NULL.
NextAttr(a) ==
  IF attr[a].parent # NULL /\ Place(a) < Len(props[attr[a].parent])
  THEN props[attr[a].parent][Place(a) + 1] ELSE NULL

PrevAttr(a) ==
  IF attr[a].parent # NULL /\ Place(a) > 1
  THEN props[attr[a].parent][Place(a) - 1] ELSE NULL

-----------------------------------------------------------------------------
(* What libxml2 does to the attributes of nodes.                           *)

\* rxml_node_deregisterNode is called for attributes as well: the wrapper
\* loses its pointer and is of no account any more.
deregisterAttrs(freed) ==
  /\ bound' = bound \ freed
  /\ attrHeld' = attrHeld \ freed
  /\ attrTrash' = attrTrash \ freed

\* The attributes of a node that is freed are freed, and those of a node that
\* gets another doc pointer get it too.
AttrsFollow ==
  LET gone  == {n \in Node : xml[n].type # "free" /\ xml'[n].type = "free"}
      freed == {a \in UsedAttrs : attr[a].parent \in gone}
  IN /\ attr' = [a \in Attr |->
                   IF a \in freed THEN NoAttr
                   ELSE IF attr[a].parent = NULL THEN attr[a]
                   ELSE [attr[a] EXCEPT !.doc = xml'[attr[a].parent].doc]]
     /\ props' = [n \in Node |-> IF n \in gone THEN <<>> ELSE props[n]]
     /\ deregisterAttrs(freed)

\* xmlCopyNode: a deep copy has copies of the attributes, in the cells g
\* maps them to; a shallow one has none.
attr_node_copy(o) ==
  /\ AttrIdle /\ UNCHANGED garbage
  /\ IsNode(o)
  /\ \E deep \in BOOLEAN :
       LET S == IF deep THEN Subtree(xml, X(o)) ELSE {X(o)}
           A == IF deep THEN UNION {ListOf(n) : n \in S} ELSE {}
       IN \E f \in [S -> FreeNodes(xml)], g \in [A -> Attr \ UsedAttrs] :
            /\ \A x, y \in S : f[x] = f[y] => x = y
            /\ \A x, y \in A : g[x] = g[y] => x = y
            /\ node_wrap(CopyNode(xml, S, f), ruby, f[X(o)])
            /\ attr' = [a \in Attr |->
                          IF \E x \in A : g[x] = a
                          THEN [used |-> TRUE, doc |-> NULL,
                                parent |-> f[attr[CHOOSE x \in A : g[x] = a].parent]]
                          ELSE attr[a]]
            /\ props' = [n \in Node |->
                           IF deep /\ \E x \in S : f[x] = n
                           THEN LET l == props[CHOOSE x \in S : f[x] = n]
                                IN [i \in DOMAIN l |-> g[l[i]]]
                           ELSE props[n]]
  /\ UNCHANGED <<bound, attrHeld, attrTrash, lists, attrCursor>>

-----------------------------------------------------------------------------
(* Making, finding and removing attributes.                                *)

\* rxml_attr_wrap: the program gets the wrapper of attribute a.
attr_wrap(a) ==
  /\ a \in UsedAttrs
  /\ bound' = bound \cup {a}
  /\ attrHeld' = attrHeld \cup {a}

\* xmlNewProp, xmlSetNsProp: the new attribute a of element n.
NewProp(n, a) ==
  /\ xml[n].type = "element"
  /\ a \notin UsedAttrs
  /\ attr' = [attr EXCEPT ![a] = [used |-> TRUE, parent |-> n, doc |-> xml[n].doc]]
  /\ props' = [props EXCEPT ![n] = Append(@, a)]

\* Attr.new(node, name, value): appended, even if the name exists.
attr_initialize(o, a) ==
  /\ AttrIdle
  /\ IsNode(o)
  /\ NewProp(X(o), a)
  /\ bound' = bound \cup {a}
  /\ attrHeld' = attrHeld \cup {a}
  /\ UNCHANGED <<vars, attrTrash, lists, attrCursor>>

\* Node#lang=, #space_preserve=, #base_uri= of a node that has not got the
\* attribute: libxml2 makes it, and it gets no wrapper.
lang_set(o, a) ==
  /\ AttrIdle
  /\ IsNode(o)
  /\ NewProp(X(o), a)
  /\ UNCHANGED <<vars, bound, attrHeld, attrTrash, lists, attrCursor>>

space_preserve_set(o, a) == lang_set(o, a)

base_uri_set(o, a) ==
  /\ lang_set(o, a)
  /\ xml[X(o)].doc # NULL

\* Node#attributes
attributes_get(o) ==
  /\ AttrIdle
  /\ IsNode(o)
  /\ lists' = lists \cup {X(o)}
  /\ UNCHANGED <<vars, attr, props, bound, attrHeld, attrTrash, attrCursor>>

\* Attributes#node
attributes_node_get(n) ==
  /\ AttrIdle
  /\ n \in lists
  /\ Follow(n)
  /\ UNCHANGED <<garbage, attrVars>>

\* Attributes#get_attribute, #get_attribute_ns, #first; #[] and #[]= wrap the
\* attribute too, before they read or set its value.
get_attribute(n) ==
  /\ AttrIdle
  /\ n \in lists
  /\ \E a \in ListOf(n) : attr_wrap(a)
  /\ UNCHANGED <<vars, attr, props, attrTrash, lists, attrCursor>>

\* Attributes#[]=, Node#[]= with a name the node has not: by way of the
\* node's wrapper to Attr.new.
attribute_set(n, a) ==
  /\ AttrIdle /\ UNCHANGED garbage
  /\ n \in lists
  /\ NewProp(n, a)
  /\ Follow(n)
  /\ bound' = bound \cup {a}
  /\ attrHeld' = attrHeld \cup {a}
  /\ UNCHANGED <<attrTrash, lists, attrCursor>>

\* Attr#next, Attr#prev
attr_next_get(a) ==
  /\ AttrIdle
  /\ a \in attrHeld
  /\ NextAttr(a) # NULL /\ attr_wrap(NextAttr(a))
  /\ UNCHANGED <<vars, attr, props, attrTrash, lists, attrCursor>>

attr_prev_get(a) ==
  /\ AttrIdle
  /\ a \in attrHeld
  /\ PrevAttr(a) # NULL /\ attr_wrap(PrevAttr(a))
  /\ UNCHANGED <<vars, attr, props, attrTrash, lists, attrCursor>>

\* Attr#parent
attr_parent_get(a) ==
  /\ AttrIdle
  /\ a \in attrHeld
  /\ attr[a].parent # NULL /\ Follow(attr[a].parent)
  /\ UNCHANGED <<garbage, attrVars>>

\* "linked_doc": a removed attribute is not asked for its document.
LinkedDoc(a) == "linked_doc" \in AttrRules => attr[a].parent # NULL

\* Attr#doc
attr_doc_get(a) ==
  /\ AttrIdle
  /\ a \in attrHeld
  /\ LinkedDoc(a)
  /\ attr[a].doc # NULL /\ document_wrap(xml, ruby, attr[a].doc)
  /\ UNCHANGED <<garbage, attrVars>>

Unlinked(a) ==
  [props EXCEPT ![attr[a].parent] =
     [i \in 1..(Len(@) - 1) |-> IF i < Place(a) THEN @[i] ELSE @[i + 1]]]

\* Attr#remove!: a wrapped attribute is unlinked and keeps its doc pointer.
attr_remove_ex(a) ==
  /\ AttrIdle
  /\ a \in attrHeld
  /\ attr[a].parent # NULL
  /\ props' = Unlinked(a)
  /\ attr' = [attr EXCEPT ![a].parent = NULL]
  /\ UNCHANGED <<vars, bound, attrHeld, attrTrash, lists, attrCursor>>

-----------------------------------------------------------------------------
(* Attributes#each.                                                        *)

\* The first attribute is wrapped and yielded.
attributes_each(n) ==
  /\ AttrIdle
  /\ attrCursor = NoAttrCursor
  /\ n \in lists
  /\ props[n] # <<>>
  /\ attr_wrap(props[n][1])
  /\ attrCursor' = [node |-> n, attr |-> props[n][1]]
  /\ UNCHANGED <<vars, attr, props, attrTrash, lists>>

\* The block returns: the address of the next attribute is read.
attributes_each_next ==
  /\ AttrIdle
  /\ attrCursor.attr \in UsedAttrs
  /\ IF NextAttr(attrCursor.attr) # NULL
     THEN /\ attr_wrap(NextAttr(attrCursor.attr))
          /\ attrCursor' = [attrCursor EXCEPT !.attr = NextAttr(@)]
     ELSE UNCHANGED <<bound, attrHeld>> /\ attrCursor' = NoAttrCursor
  /\ UNCHANGED <<vars, attr, props, attrTrash, lists>>

attributes_each_break ==
  /\ AttrIdle
  /\ attrCursor # NoAttrCursor
  /\ attrCursor' = NoAttrCursor
  /\ UNCHANGED <<vars, attr, props, bound, attrHeld, attrTrash, lists>>

-----------------------------------------------------------------------------
(* Garbage collection.                                                     *)

\* Mutant of attr_mark: only attributes of documents keep something.
attr_mark_doc(a) ==
  IF attr[a].parent = NULL \/ attr[a].doc = NULL THEN {}
  ELSE {xml[attr[a].doc].private} \ {NULL}

\* rxml_attr_mark: what the wrapper of attribute a keeps alive.
attr_mark(a) ==
  IF attr[a].parent = NULL THEN {}
  ELSE IF attr[a].doc # NULL THEN {xml[attr[a].doc].private} \ {NULL}
  ELSE {xml[Top(xml, attr[a].parent)].private} \ {NULL}

\* rxml_attributes_mark: for a node without a parent, nothing.
attributes_mark(n) == node_mark(n)

AttrMarked ==
  Marked \cup (UNION {attr_mark(a) : a \in attrHeld})
         \cup (UNION {attributes_mark(n) : n \in lists})

\* "rooted_list": an Attributes object of a node without a parent is kept
\* only together with the node.
RootedList ==
  "rooted_list" \in AttrRules =>
    \A n \in lists : xml[n].parent = NULL => xml[n].private \in AttrMarked

attr_collect ==
  /\ AttrIdle
  /\ MarkReturns
  /\ RootedList
  /\ garbage' = Live \ AttrMarked
  /\ attrTrash' = bound \ attrHeld
  /\ UNCHANGED <<xml, ruby, held, attr, props, bound, attrHeld, lists, attrCursor>>

\* Mutants of attr_free: without the test of the parent; without the call of
\* xmlFreeProp.
attr_free_linked(a) == attr[a].doc = NULL

attr_free_not(a) == FALSE

\* rxml_attr_free: whether the attribute is freed with its wrapper.
attr_free(a) == attr[a].parent = NULL /\ attr[a].doc = NULL

attr_sweep(a) ==
  /\ a \in attrTrash
  /\ attrTrash' = attrTrash \ {a}
  /\ bound' = bound \ {a}
  /\ attr' = IF attr_free(a) THEN [attr EXCEPT ![a] = NoAttr] ELSE attr
  /\ UNCHANGED <<vars, props, attrHeld, lists, attrCursor>>

\* The program forgets an Attr or an Attributes object; while each runs its
\* receiver is on the stack.
attr_drop(a) ==
  /\ AttrIdle
  /\ a \in attrHeld
  /\ attrHeld' = attrHeld \ {a}
  /\ UNCHANGED <<vars, attr, props, bound, attrTrash, lists, attrCursor>>

attributes_drop(n) ==
  /\ AttrIdle
  /\ n \in lists \ {attrCursor.node}
  /\ lists' = lists \ {n}
  /\ UNCHANGED <<vars, attr, props, bound, attrHeld, attrTrash, attrCursor>>

-----------------------------------------------------------------------------

\* "listed_stays": no edit frees a node whose Attributes object is held.
ListedStays == "listed_stays" \in AttrRules => lists \subseteq InUse(xml')

\* "still_list": the block of each removes no attribute of the node.
StillList ==
  ("still_list" \in AttrRules /\ attrCursor # NoAttrCursor) =>
    \A i \in DOMAIN props[attrCursor.node] :
      i <= Len(props'[attrCursor.node]) /\ props'[attrCursor.node][i] = props[attrCursor.node][i]

MakeNode ==
  \/ \E n \in Node : "text" \in LeafType /\ node_new_text(n)
  \/ \E n \in Node, c \in Node \cup {NULL} : node_initialize(n, c)
  \/ \E d \in Doc : document_initialize(d)
  \/ \E d \in Doc, n \in Node, c \in Node \cup {NULL} : parser_parse(d, n, c)

AttrNodeStep ==
  /\ AttrIdle
  /\ \/ MakeNode \/ Move \/ \E o \in held : drop(o)
     \/ Edit /\ ListedStays
  /\ AttrsFollow
  /\ UNCHANGED <<lists, attrCursor>>

AttrStep ==
  \/ \E o \in held, a \in Attr : \/ attr_initialize(o, a) \/ lang_set(o, a)
                                  \/ space_preserve_set(o, a) \/ base_uri_set(o, a)
  \/ \E o \in held : attributes_get(o) \/ attr_node_copy(o)
  \/ \E n \in lists : attributes_node_get(n) \/ get_attribute(n) \/ attributes_drop(n)
  \/ \E n \in lists, a \in Attr : attribute_set(n, a)
  \/ \E a \in attrHeld : \/ attr_next_get(a) \/ attr_prev_get(a) \/ attr_parent_get(a)
                         \/ attr_doc_get(a) \/ attr_drop(a)
                         \/ attr_remove_ex(a) /\ StillList
  \/ \E n \in lists : attributes_each(n)
  \/ attributes_each_next \/ attributes_each_break

attr_node_sweep(o) == sweep(o) /\ AttrsFollow /\ UNCHANGED <<lists, attrCursor>>

AttrNext ==
  \/ AttrNodeStep \/ AttrStep \/ attr_collect
  \/ \E o \in Object : attr_node_sweep(o)
  \/ \E a \in Attr : attr_sweep(a)

\* A collection that has begun runs to its end, and there is always another.
AttrFairness ==
  /\ WF_allAttrVars(attr_collect)
  /\ \A o \in Object : WF_allAttrVars(attr_node_sweep(o))
  /\ \A a \in Attr : WF_allAttrVars(attr_sweep(a))

AttrSpec == AttrInit /\ [][AttrNext]_allAttrVars /\ AttrFairness

-----------------------------------------------------------------------------
(* Properties.                                                             *)

\* The variables are typed; the wrapped attributes are in use, and each
\* attribute in use is in the list of its parent, once, and has the doc
\* pointer of its parent: by these two rxml_attr_free and rxml_attr_mark
\* decide.  Removed ones are in no list.
AttrTypeOK ==
  /\ attr \in [Attr -> AttrRecord]
  /\ props \in [Node -> Seq(Attr)]
  /\ attrHeld \subseteq bound /\ bound \subseteq UsedAttrs
  /\ attrTrash \subseteq bound \ attrHeld
  /\ \A n \in Node : /\ \A i, j \in DOMAIN props[n] : props[n][i] = props[n][j] => i = j
                     /\ ListOf(n) = {a \in UsedAttrs : attr[a].parent = n}
                     /\ props[n] # <<>> => n \in InUse(xml)
  /\ \A a \in UsedAttrs : attr[a].parent # NULL => attr[a].doc = xml[attr[a].parent].doc

\* A collection takes nothing from an attribute the program holds: it stays
\* with its node, whether the tree has a document or not, and though the
\* program holds nothing else of that tree (rxml_attr_mark).  Nor does it
\* take the node of an Attributes object, or the attribute each stands on.
CollectionKeepsAttrs ==
  [][~AttrIdle => /\ \A a \in attrHeld : attr'[a] = attr[a] /\ a \in bound'
                  /\ lists \subseteq InUse(xml')
                  /\ attrCursor.attr # NULL => attrCursor.attr \in UsedAttrs']_allAttrVars

\* Everything is freed once the program holds nothing any more: nodes,
\* documents and attributes, those removed from a detached tree too.  Only
\* an attribute that was removed from a document is never freed: its doc
\* pointer stays (rxml_attr_remove_ex, rxml_attr_free).
AttrsReclaimed ==
  <>[](held = {} /\ attrHeld = {} /\ lists = {})
    => <>[](/\ InUse(xml) = {} /\ Live = {} /\ bound = {}
            /\ \A a \in UsedAttrs : attr[a].parent = NULL /\ attr[a].doc # NULL)
=============================================================================
