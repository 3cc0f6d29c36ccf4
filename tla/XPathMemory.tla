---------------------------- MODULE XPathMemory ----------------------------
(***************************************************************************)
(* XPath searches: NodeMemory together with the XPath::Context objects of  *)
(* ruby_xml_xpath_context.c and the XPath::Object wrappers, the results,   *)
(* of ruby_xml_xpath_object.c.                                             *)
(*                                                                         *)
(* A context keeps the wrapper of the document it was made for alive.  The *)
(* node a search starts from it has as an address only, and it may be of   *)
(* another document, or be removed or freed since it was set; a search     *)
(* from a node that has been freed has no step.                            *)
(*                                                                         *)
(* A result refers to nodes of a document and to namespace nodes, which    *)
(* libxml2 copies for the result.  The result keeps its document alive;    *)
(* each copy is wrapped at once, in a Ruby object that owns it, and an     *)
(* array keeps these objects alive: as long as the result is being made,   *)
(* only if the collector happens to find it.  Result, copies, document and *)
(* nodes are finalized in any order when they become garbage together.     *)
(***************************************************************************)
EXTENDS NodeMemory

CONSTANTS
  Context, \* slots of the Ruby heap for XPath::Context objects
  Result,  \* slots of the Ruby heap for XPath::Object wrappers
  Ns       \* cells for copied namespace nodes, each with its wrapper's slot

ASSUME SlotsDistinct == Result \cap Ns = {} /\ Context \cap (Result \cup Ns) = {}

VARIABLES
  context,  \* the XPath::Context in each slot
  result,   \* the XPath::Object in each slot
  copies,   \* the namespace copies in use
  wrapped,  \* those that have a wrapper
  found,    \* the contexts, results and namespace wrappers the program refers to
  trash     \* during a sweep, those still to be finalized

xpathVars == <<context, result, copies, wrapped, found, trash>>

allVars == <<vars, xpathVars>>

\* nodes and ns are what nodeTab refers to, todo the namespace nodes it has
\* still to wrap, nsnodes the array of the wrappers made; missed (history):
\* a collection has not found that array.
ResultRecord ==
  [state : {"none", "wrapping", "ready"}, doc : Doc \cup {NULL}, nodes : SUBSET Node,
   ns : SUBSET Ns, todo : SUBSET Ns, nsnodes : SUBSET Ns, missed : BOOLEAN]

NoResult == [state |-> "none", doc |-> NULL, nodes |-> {}, ns |-> {}, todo |-> {},
             nsnodes |-> {}, missed |-> FALSE]

ContextRecord == [doc : Doc \cup {NULL}, node : Node \cup {NULL}]

NoContext == [doc |-> NULL, node |-> NULL]

LiveContext == {k \in Context : context[k] # NoContext}

In(state) == {x \in Result : result[x].state = state}

XPathInit ==
  /\ Init
  /\ context = [k \in Context |-> NoContext]
  /\ result = [x \in Result |-> NoResult]
  /\ copies = {}
  /\ wrapped = {}
  /\ found = {}
  /\ trash = {}

\* No collection is under way and no C function of this module is running.
Idle == garbage = {} /\ trash = {} /\ In("wrapping") = {}

-----------------------------------------------------------------------------
(* Finding.                                                                *)

\* The document that an XPath::Context for the wrapper o searches.
SearchedDoc(o) ==
  IF IsDocument(o) THEN X(o) ELSE IF IsNode(o) THEN xml[X(o)].doc ELSE NULL

\* Context.new(node)
context_initialize(o, k) ==
  /\ Idle
  /\ SearchedDoc(o) # NULL
  /\ k \notin LiveContext
  /\ context' = [context EXCEPT ![k] = [doc |-> SearchedDoc(o), node |-> NULL]]
  /\ found' = found \cup {k}
  /\ UNCHANGED <<vars, result, copies, wrapped, trash>>

\* Context#node=
context_node_set(k, o) ==
  /\ Idle
  /\ k \in found \cap Context
  /\ IsNode(o)
  /\ context' = [context EXCEPT ![k].node = X(o)]
  /\ UNCHANGED <<vars, result, copies, wrapped, found, trash>>

\* What an expression can reach: from the root of the context's document,
\* and along the axes from its node.
Reached(k) ==
  Below(xml, context[k].doc) \cup
    IF context[k].node = NULL THEN {} ELSE Node \cap Subtree(xml, Top(xml, context[k].node))

\* Context#find: libxml2 evaluates an expression to nodes S and copies K of
\* namespace nodes.  rxml_xpath_object_wrap begins.
context_find(k, x, S, K) ==
  /\ Idle
  /\ k \in found \cap Context
  /\ context[k].node \in InUse(xml) \cup {NULL}
  /\ result[x].state = "none"
  /\ S \subseteq Reached(k)
  /\ K # {} => Reached(k) # {}
  /\ result' = [result EXCEPT ![x] = [state |-> "wrapping", doc |-> context[k].doc, nodes |-> S,
                                      ns |-> K, todo |-> K, nsnodes |-> {}, missed |-> FALSE]]
  /\ copies' = copies \cup K
  /\ UNCHANGED <<vars, context, wrapped, found, trash>>

\* One round of its loop.  Making the wrapper may run the collector; whether
\* an array that was collected takes one more element is chance.
object_wrap_ns(x, k, pushed) ==
  /\ garbage = {} /\ trash = {}
  /\ pushed \/ result[x].missed
  /\ result[x].state = "wrapping"
  /\ k \in result[x].todo
  /\ wrapped' = wrapped \cup {k}
  /\ result' = [result EXCEPT ![x].todo = @ \ {k}, ![x].nsnodes = IF pushed THEN @ \cup {k} ELSE @]
  /\ UNCHANGED <<vars, context, copies, found, trash>>

object_wrap_end(x) ==
  /\ garbage = {} /\ trash = {}
  /\ result[x].state = "wrapping"
  /\ result[x].todo = {}
  /\ result' = [result EXCEPT ![x].state = "ready"]
  /\ found' = found \cup {x}
  /\ UNCHANGED <<vars, context, copies, wrapped, trash>>

\* Object#[], #first, #each, #to_a: an entry of nodeTab is wrapped.
object_tabref(x) ==
  /\ Idle
  /\ x \in found \cap Result
  /\ \/ /\ \E n \in result[x].nodes : Follow(n)
        /\ UNCHANGED <<garbage, xpathVars>>
     \/ /\ \E k \in result[x].ns \cap copies : found' = found \cup {k}
        /\ UNCHANGED <<vars, context, result, copies, wrapped, trash>>

\* The program forgets a context, a result or a namespace.
drop_found(q) ==
  /\ Idle
  /\ q \in found
  /\ found' = found \ {q}
  /\ UNCHANGED <<vars, context, result, copies, wrapped, trash>>

-----------------------------------------------------------------------------
(* Garbage collection.                                                     *)

\* Mutant of object_mark_doc: the document is not marked.
object_mark_nothing(x) == {}

\* Mutant of object_mark_ns: nsnodes is not marked.
object_mark_no_ns(x) == {}

\* rxml_xpath_object_mark: the document's wrapper, the elements of nsnodes.
object_mark_doc(x) == {xml[result[x].doc].private} \ {NULL}

object_mark_ns(x) == result[x].nsnodes

\* The attribute @doc of a context: the wrapper of its document.
context_mark(k) == {xml[context[k].doc].private}

\* A collection during the loop of rxml_xpath_object_wrap, or when the result
\* itself is allocated, may miss nsnodes, to which only memory refers that the
\* collector does not look at: what the compiler leaves in a register decides.
collect(lost) ==
  /\ garbage = {} /\ trash = {}
  /\ lost \subseteq In("wrapping")
  /\ MarkReturns
  /\ result' = [x \in Result |->
                  IF x \in lost THEN [result[x] EXCEPT !.nsnodes = {}, !.missed = TRUE] ELSE result[x]]
  /\ garbage' = Live \ (Marked \cup (UNION {context_mark(k) : k \in found \cap Context})
                          \cup (UNION {object_mark_doc(x) : x \in found \cap Result}))
  /\ trash' = (LiveContext \cup In("ready") \cup wrapped)
                \ (found \cup (UNION {object_mark_ns(x) : x \in found \cap Result})
                         \cup (UNION {result[x].nsnodes : x \in In("wrapping") \ lost}))
  /\ UNCHANGED <<xml, ruby, held, context, copies, wrapped, found>>

\* rxml_xpath_context_free
context_free(k) ==
  /\ k \in trash
  /\ trash' = trash \ {k}
  /\ context' = [context EXCEPT ![k] = NoContext]
  /\ UNCHANGED <<vars, result, copies, wrapped, found>>

\* rxml_xpath_object_free: nodeTab is reset before xmlXPathFreeObject, which
\* looks at no node then.
object_free(x) ==
  /\ x \in trash
  /\ trash' = trash \ {x}
  /\ result' = [result EXCEPT ![x] = NoResult]
  /\ UNCHANGED <<vars, context, copies, wrapped, found>>

\* Mutant of namespace_xpath_free: the wrapper is not unbound.
namespace_xpath_free_bound(k) ==
  /\ k \in trash
  /\ trash' = trash \ {k}
  /\ copies' = copies \ {k}
  /\ UNCHANGED <<vars, context, result, wrapped, found>>

\* rxml_namespace_xpath_free
namespace_xpath_free(k) ==
  /\ k \in trash
  /\ trash' = trash \ {k}
  /\ copies' = copies \ {k}
  /\ wrapped' = wrapped \ {k}
  /\ UNCHANGED <<vars, context, result, found>>

-----------------------------------------------------------------------------

NodeStep ==
  /\ Idle
  /\ Make \/ Move \/ Edit \/ \E o \in held : drop(o)
  /\ UNCHANGED xpathVars

XPathNext ==
  \/ NodeStep
  \/ \E o \in held, k \in Context : context_initialize(o, k) \/ context_node_set(k, o)
  \/ \E k \in Context, x \in Result, S \in SUBSET Node, K \in SUBSET (Ns \ copies) :
       context_find(k, x, S, K)
  \/ \E x \in Result, k \in Ns, pushed \in BOOLEAN : object_wrap_ns(x, k, pushed)
  \/ \E x \in Result : object_wrap_end(x) \/ object_tabref(x)
  \/ \E q \in found : drop_found(q)
  \/ \E lost \in SUBSET Result : collect(lost)
  \/ \E o \in Object : sweep(o) /\ UNCHANGED xpathVars
  \/ \E k \in Context : context_free(k)
  \/ \E x \in Result : object_free(x)
  \/ \E k \in Ns : namespace_xpath_free(k)

XPathSpec == XPathInit /\ [][XPathNext]_allVars

-----------------------------------------------------------------------------
(* Properties.                                                             *)

\* The variables are typed; a wrapper never outlives its copy, and nothing
\* the program refers to is about to be finalized.
XPathTypeOK ==
  /\ context \in [Context -> ContextRecord]
  /\ result \in [Result -> ResultRecord]
  /\ wrapped \subseteq copies /\ copies \subseteq Ns
  /\ found \subseteq LiveContext \cup In("ready") \cup wrapped
  /\ trash \subseteq (LiveContext \cup In("ready") \cup wrapped) \ found

\* The nodes of a result can be retrieved as long as the program holds the
\* result and has not removed them, and a context can go on searching from
\* its node: a collection keeps the document, though no variable refers to
\* it (rxml_xpath_object_mark, DOC_ATTRIBUTE of ruby_xml_xpath_context.c).
CollectionKeepsResult ==
  [][garbage # {} =>
       /\ \A x \in found \cap Result : \A n \in result[x].nodes :
            (n \in InUse(xml) /\ xml[n].doc = result[x].doc) => n \in InUse(xml')
       /\ \A k \in found \cap Context :
            LET n == context[k].node
            IN /\ context[k].doc \in InUse(xml')
               /\ (n \in InUse(xml) /\ xml[n].doc = context[k].doc) => n \in InUse(xml')]_allVars

\* The namespace nodes of a result that the program holds, and those it
\* holds itself, have not been freed, unless a collection missed the array
\* while the result was made; and even then no copy is lost: each has a
\* wrapper that will free it, or is going to.
NsKept ==
  /\ copies \subseteq wrapped \cup UNION {result[x].todo : x \in In("wrapping")}
  /\ \A x \in found \cap Result : result[x].ns \subseteq copies \/ result[x].missed
  /\ found \cap Ns \subseteq copies
=============================================================================
