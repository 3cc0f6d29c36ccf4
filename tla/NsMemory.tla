------------------------------ MODULE NsMemory ------------------------------
(***************************************************************************)
(* Namespaces beside NodeMemory: the Namespace wrappers of                 *)
(* ruby_xml_namespace.c and the Namespaces objects of                      *)
(* ruby_xml_namespaces.c with their iterator.                              *)
(*                                                                         *)
(* A namespace (xmlNs) is defined on a node and freed with it; any node    *)
(* may be in it, by a pointer libxml2 never resets.  Neither a Namespace   *)
(* nor a Namespaces object marks anything, and rxml_node_deregisterNode is *)
(* not called for namespaces: nothing tells their wrappers that a node has *)
(* been freed, and the free function of a Namespace writes to its xmlNs    *)
(* whatever has become of it.                                              *)
(*                                                                         *)
(* Prefixes and hrefs are left out: which of the definitions in scope a    *)
(* search finds, and which of them a nearer one hides, is a choice.        *)
(* Namespace.new for a prefix the node has defined raises and changes      *)
(* nothing.  Copies of nodes are left out.                                 *)
(***************************************************************************)
EXTENDS NodeMemory, Naturals, Sequences

CONSTANTS
  NsCell,    \* memory cells for xmlNs structures
  NsObject,  \* slots of the Ruby heap for Namespace objects
  NsRules    \* the usage rules, defined below, that the program keeps

ASSUME NsDistinct ==
  NsCell \cap (Cell \cup NsObject) = {} /\ NULL \notin NsCell \cup NsObject

ASSUME NsRulesAreKnown == NsRules \subseteq {"kept_trees", "wrapped_stay"}

VARIABLES
  nsDef,      \* the namespaces each node defines, in order
  nsOf,       \* the namespace each node is in, or NULL
  nsPrivate,  \* the _private field of each namespace
  nsPtr,      \* the DATA_PTR of each Namespace object, NULL for a free slot
  nsHeld,     \* the Namespace objects the program's variables refer to
  nsTrash,    \* during a sweep, those still to be finalized
  scopes,     \* the nodes of the Namespaces objects the program refers to
  nsCursor    \* Namespaces#each: its node and the rest of its list

nsVars == <<nsDef, nsOf, nsPrivate, nsPtr, nsHeld, nsTrash, scopes, nsCursor>>

allNsVars == <<vars, nsVars>>

NoNsCursor == [node |-> NULL, rest |-> {}]

NsInit ==
  /\ Init
  /\ nsDef = [n \in Node |-> <<>>]
  /\ nsOf = [n \in Node |-> NULL]
  /\ nsPrivate = [k \in NsCell |-> NULL]
  /\ nsPtr = [w \in NsObject |-> NULL]
  /\ nsHeld = {} /\ nsTrash = {} /\ scopes = {}
  /\ nsCursor = NoNsCursor

\* No collection is under way.
NsIdle == garbage = {} /\ nsTrash = {}

Defined(n) == {nsDef[n][i] : i \in DOMAIN nsDef[n]}

UsedNs == UNION {Defined(n) : n \in Node}

Definer(k) == CHOOSE n \in Node : k \in Defined(n)

\* What xmlGetNsList collects: the definitions of a node and those above it.
InScope(n) == UNION {Defined(a) : a \in Ancestors(xml, n) \cap Node}

\* xmlSearchNs and xmlSearchNsByHref look at the definitions and, above the
\* node they start at, also at the namespaces the nodes are in.
Searched(n) ==
  InScope(n) \cup ({nsOf[a] : a \in (Ancestors(xml, n) \cap Node) \ {n}} \ {NULL})

-----------------------------------------------------------------------------

\* Mutant of namespace_wrap: the "already wrapped?" test is missing.
namespace_wrap_anew(k) ==
  /\ k \in UsedNs
  /\ \E w \in NsObject :
       /\ nsPtr[w] = NULL
       /\ nsPrivate' = [nsPrivate EXCEPT ![k] = w]
       /\ nsPtr' = [nsPtr EXCEPT ![w] = k]
       /\ nsHeld' = nsHeld \cup {w}

\* rxml_namespace_wrap: the object the namespace is bound to, or a new one.
namespace_wrap(k) ==
  /\ k \in UsedNs
  /\ \/ /\ nsPrivate[k] # NULL
        /\ nsHeld' = nsHeld \cup {nsPrivate[k]}
        /\ UNCHANGED <<nsPrivate, nsPtr>>
     \/ /\ nsPrivate[k] = NULL
        /\ \E w \in NsObject :
             /\ nsPtr[w] = NULL
             /\ nsPrivate' = [nsPrivate EXCEPT ![k] = w]
             /\ nsPtr' = [nsPtr EXCEPT ![w] = k]
             /\ nsHeld' = nsHeld \cup {w}

\* Namespace.new(node, prefix, href): appended to the node's definitions.
namespace_initialize(o, w, k) ==
  /\ NsIdle
  /\ IsNode(o) /\ xml[X(o)].type = "element"
  /\ k \notin UsedNs /\ nsPtr[w] = NULL
  /\ nsDef' = [nsDef EXCEPT ![X(o)] = Append(@, k)]
  /\ nsPrivate' = [nsPrivate EXCEPT ![k] = w]
  /\ nsPtr' = [nsPtr EXCEPT ![w] = k]
  /\ nsHeld' = nsHeld \cup {w}
  /\ UNCHANGED <<vars, nsOf, nsTrash, scopes, nsCursor>>

\* Namespace#next
namespace_next(w) ==
  /\ NsIdle
  /\ w \in nsHeld
  /\ nsPtr[w] \in UsedNs
  /\ LET list == nsDef[Definer(nsPtr[w])]
     IN \E i \in DOMAIN list : /\ list[i] = nsPtr[w] /\ i < Len(list)
                               /\ namespace_wrap(list[i + 1])
  /\ UNCHANGED <<vars, nsDef, nsOf, nsTrash, scopes, nsCursor>>

\* Node.new(name, content, namespace): the node is in a namespace of another
\* tree.
node_initialize_ns(n, c, w) ==
  /\ NsIdle
  /\ w \in nsHeld
  /\ nsPtr[w] \in UsedNs
  /\ node_initialize(n, c)
  /\ nsOf' = [nsOf EXCEPT ![n] = nsPtr[w]]
  /\ UNCHANGED <<nsDef, nsPrivate, nsPtr, nsHeld, nsTrash, scopes, nsCursor>>

-----------------------------------------------------------------------------
(* The Namespaces object of a node.                                        *)

\* Node#namespaces
namespaces_initialize(o) ==
  /\ NsIdle
  /\ IsNode(o)
  /\ scopes' = scopes \cup {X(o)}
  /\ UNCHANGED <<vars, nsDef, nsOf, nsPrivate, nsPtr, nsHeld, nsTrash, nsCursor>>

\* A call of a Namespaces object whose node has been freed has no step.
InUseScope(n) == n \in scopes /\ n \in InUse(xml)

\* Namespaces#definitions: all definitions of the node are wrapped.
namespaces_definitions(n) ==
  /\ NsIdle
  /\ InUseScope(n)
  /\ \E f \in [{k \in Defined(n) : nsPrivate[k] = NULL} -> {w \in NsObject : nsPtr[w] = NULL}] :
       /\ \A k, l \in DOMAIN f : f[k] = f[l] => k = l
       /\ nsPrivate' = [k \in NsCell |-> IF k \in DOMAIN f THEN f[k] ELSE nsPrivate[k]]
       /\ nsPtr' = [w \in NsObject |-> IF \E k \in DOMAIN f : f[k] = w
                                       THEN CHOOSE k \in DOMAIN f : f[k] = w ELSE nsPtr[w]]
       /\ nsHeld' = nsHeld \cup {nsPrivate'[k] : k \in Defined(n)}
  /\ UNCHANGED <<vars, nsDef, nsOf, nsTrash, scopes, nsCursor>>

\* Namespaces#find_by_prefix, #find_by_href, and with them #default
namespaces_find(n) ==
  /\ NsIdle
  /\ InUseScope(n)
  /\ \E k \in Searched(n) : namespace_wrap(k)
  /\ UNCHANGED <<vars, nsDef, nsOf, nsTrash, scopes, nsCursor>>

\* Namespaces#namespace
namespace_get(n) ==
  /\ NsIdle
  /\ InUseScope(n)
  /\ nsOf[n] # NULL /\ namespace_wrap(nsOf[n])
  /\ UNCHANGED <<vars, nsDef, nsOf, nsTrash, scopes, nsCursor>>

\* Namespaces#namespace=: any namespace, in scope or not.
namespace_set(n, w) ==
  /\ NsIdle
  /\ InUseScope(n) /\ xml[n].type = "element"
  /\ w \in nsHeld
  /\ nsPtr[w] \in UsedNs
  /\ nsOf' = [nsOf EXCEPT ![n] = nsPtr[w]]
  /\ UNCHANGED <<vars, nsDef, nsPrivate, nsPtr, nsHeld, nsTrash, scopes, nsCursor>>

\* Namespaces#node
namespaces_node_get(n) ==
  /\ NsIdle
  /\ InUseScope(n)
  /\ Follow(n)
  /\ UNCHANGED <<garbage, nsVars>>

\* Namespaces#each: the addresses of the namespaces in scope are copied to a
\* list, and the first is wrapped and yielded.
namespaces_each(n) ==
  /\ NsIdle
  /\ nsCursor = NoNsCursor
  /\ InUseScope(n)
  /\ \E list \in SUBSET InScope(n) : \E k \in list :
       /\ namespace_wrap(k)
       /\ nsCursor' = [node |-> n, rest |-> list \ {k}]
  /\ UNCHANGED <<vars, nsDef, nsOf, nsTrash, scopes>>

\* The block returns: the next address of the list is wrapped.
namespaces_each_next ==
  /\ NsIdle
  /\ nsCursor # NoNsCursor
  /\ \/ \E k \in nsCursor.rest :
          namespace_wrap(k) /\ nsCursor' = [nsCursor EXCEPT !.rest = @ \ {k}]
     \/ nsCursor.rest = {} /\ nsCursor' = NoNsCursor /\ UNCHANGED <<nsPrivate, nsPtr, nsHeld>>
  /\ UNCHANGED <<vars, nsDef, nsOf, nsTrash, scopes>>

\* break or an exception: the list is never freed, but not used again.
namespaces_each_break ==
  /\ NsIdle
  /\ nsCursor # NoNsCursor
  /\ nsCursor' = NoNsCursor
  /\ UNCHANGED <<vars, nsDef, nsOf, nsPrivate, nsPtr, nsHeld, nsTrash, scopes>>

-----------------------------------------------------------------------------
(* What becomes of the namespaces of a node that is freed: they are freed, *)
(* and nobody is told.                                                     *)

NsFollow ==
  LET gone == {n \in Node : xml[n].type # "free" /\ xml'[n].type = "free"}
      dead == UNION {Defined(n) : n \in gone}
  IN /\ nsDef' = [n \in Node |-> IF n \in gone THEN <<>> ELSE nsDef[n]]
     /\ nsOf' = [n \in Node |-> IF n \in gone THEN NULL ELSE nsOf[n]]
     /\ nsPrivate' = [k \in NsCell |-> IF k \in dead THEN NULL ELSE nsPrivate[k]]

-----------------------------------------------------------------------------
(* Garbage collection.                                                     *)

\* Whether the program holds a node or the document of the tree of node n.
TreeKept(n) ==
  \E o \in held : /\ ruby[o].ptr # NULL
                  /\ Top(xml, ruby[o].ptr) = Top(xml, n)

\* "kept_trees": while the program holds a Namespace, it also holds a node or
\* the document of the tree the namespace is defined in.
KeptTrees ==
  "kept_trees" \in NsRules => \A w \in nsHeld : TreeKept(Definer(nsPtr[w]))

\* The Namespace objects no variable refers to: nothing else marks them.
NsGarbage == {w \in NsObject : nsPtr[w] # NULL} \ nsHeld

ns_collect ==
  /\ NsIdle
  /\ MarkReturns
  /\ KeptTrees
  /\ garbage' = Live \ Marked
  /\ nsTrash' = NsGarbage
  /\ UNCHANGED <<xml, ruby, held, nsDef, nsOf, nsPrivate, nsPtr, nsHeld, scopes, nsCursor>>

\* rxml_namespace_free: _private of the xmlNs is reset, whatever the memory is
\* by then.  This is the one use of freed memory that does have a step, for
\* the order of a sweep makes it unavoidable: it changes a cell nobody uses,
\* or the namespace that has got the cell since.
namespace_free(k) == [nsPrivate EXCEPT ![k] = NULL]

ns_sweep(w) ==
  /\ w \in nsTrash
  /\ nsTrash' = nsTrash \ {w}
  /\ nsPrivate' = namespace_free(nsPtr[w])
  /\ nsPtr' = [nsPtr EXCEPT ![w] = NULL]
  /\ UNCHANGED <<vars, nsDef, nsOf, nsHeld, scopes, nsCursor>>

ns_node_sweep(o) ==
  /\ sweep(o)
  /\ NsFollow
  /\ UNCHANGED <<nsPtr, nsHeld, nsTrash, scopes, nsCursor>>

\* The program forgets a Namespace or a Namespaces object.
ns_drop(w) ==
  /\ NsIdle
  /\ w \in nsHeld
  /\ nsHeld' = nsHeld \ {w}
  /\ UNCHANGED <<vars, nsDef, nsOf, nsPrivate, nsPtr, nsTrash, scopes, nsCursor>>

namespaces_drop(n) ==
  /\ NsIdle
  /\ n \in scopes \ {nsCursor.node}
  /\ scopes' = scopes \ {n}
  /\ UNCHANGED <<vars, nsDef, nsOf, nsPrivate, nsPtr, nsHeld, nsTrash, nsCursor>>

-----------------------------------------------------------------------------
(* Edits.                                                                  *)

\* "wrapped_stay": no edit frees a node that defines a namespace with a
\* wrapper, held or not.
WrappedStay ==
  "wrapped_stay" \in NsRules =>
    \A n \in Node : (\E k \in Defined(n) : nsPrivate[k] # NULL) => n \in InUse(xml')

NsNodeStep ==
  /\ NsIdle
  /\ \/ \E n \in Node, c \in Node \cup {NULL} : node_initialize(n, c)
     \/ \E d \in Doc : document_initialize(d)
     \/ \E d \in Doc, n \in Node, c \in Node \cup {NULL} : parser_parse(d, n, c)
     \/ Move
     \/ Edit /\ WrappedStay
     \/ \E o \in held : drop(o)
  /\ NsFollow
  /\ UNCHANGED <<nsPtr, nsHeld, nsTrash, scopes, nsCursor>>

NsStep ==
  \/ \E o \in held : namespaces_initialize(o)
  \/ \E o \in held, w \in NsObject, k \in NsCell : namespace_initialize(o, w, k)
  \/ \E n \in Node, c \in Node \cup {NULL}, w \in nsHeld : node_initialize_ns(n, c, w)
  \/ \E n \in scopes : \/ namespaces_definitions(n) \/ namespaces_find(n) \/ namespace_get(n)
                       \/ namespaces_node_get(n) \/ namespaces_each(n) \/ namespaces_drop(n)
  \/ \E n \in scopes, w \in nsHeld : namespace_set(n, w)
  \/ \E w \in nsHeld : namespace_next(w) \/ ns_drop(w)
  \/ namespaces_each_next \/ namespaces_each_break

NsNext ==
  \/ NsNodeStep \/ NsStep \/ ns_collect
  \/ \E o \in Object : ns_node_sweep(o)
  \/ \E w \in NsObject : ns_sweep(w)

NsSpec == NsInit /\ [][NsNext]_allNsVars

-----------------------------------------------------------------------------
(* Properties.                                                             *)

\* The variables are typed; a namespace is defined once, on a node in use,
\* and only a namespace in use is bound to a wrapper.
NsTypeOK ==
  /\ nsDef \in [Node -> Seq(NsCell)]
  /\ nsOf \in [Node -> NsCell \cup {NULL}]
  /\ nsPrivate \in [NsCell -> NsObject \cup {NULL}]
  /\ nsPtr \in [NsObject -> NsCell \cup {NULL}]
  /\ nsTrash \subseteq {w \in NsObject : nsPtr[w] # NULL} \ nsHeld
  /\ \A n, m \in Node : \A i \in DOMAIN nsDef[n], j \in DOMAIN nsDef[m] :
       nsDef[n][i] = nsDef[m][j] => n = m /\ i = j
  /\ \A n \in Node : nsDef[n] # <<>> => n \in InUse(xml)
  /\ \A k \in NsCell : nsPrivate[k] # NULL => k \in UsedNs

\* And more than that: a Namespace object and its xmlNs refer to each other,
\* and the xmlNs is in use, so that a call reads no freed memory.  Only while
\* a collection runs may the node be finalized before the Namespace, and then
\* the late write of rxml_namespace_free falls on a cell no other has got.
NsWrapperBijection ==
  /\ NsTypeOK
  /\ \A k \in UsedNs : nsPrivate[k] # NULL => nsPtr[nsPrivate[k]] = k
  /\ \A w \in NsObject : nsPtr[w] # NULL =>
       IF nsPtr[w] \in UsedNs THEN nsPrivate[nsPtr[w]] = w ELSE w \in nsTrash
=============================================================================
