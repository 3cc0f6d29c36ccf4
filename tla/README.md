# libxml-ruby in TLA+

libxml-ruby binds the C library libxml2 to Ruby. Almost none of its logic is
about XML: libxml2 parses, searches and edits. What the extension itself has to
get right is *ownership* - two heaps, libxml2's reference-free `malloc` heap and
Ruby's garbage collected one, refer to each other's objects, and both free
memory on their own account - and *re-entrance*: libxml2 calls back into Ruby in
the middle of its work, where the program may do anything. These are the two
subjects of the modules here. The unit tests of the repository hardly reach
either: a collection has to come at the wrong moment, in the wrong order.

Paths below are relative to `src/ext/libxml/` unless they start with `lib/`.

## Inventory

| Component | State it keeps | Operations | What makes it correct |
|---|---|---|---|
| Nodes (`ruby_xml_node.c`) | `_private` of each `xmlNode`, `DATA_PTR` of each wrapper | new, copy, getters, `<<`, `child=`, `next=`, `prev=`, `content=`, `remove!`, each, mark, free, the deregistration callback | one wrapper per structure, none outlives it; a held wrapper keeps its tree; nothing leaks, nothing is freed twice |
| Documents (`ruby_xml_document.c`) | the same for `xmlDoc` | new, `root`, `root=`, `child`, `last`, serialization, import, validation, mark, free | a document lives while any node of it is held |
| XPath (`ruby_xml_xpath_object.c`, `_context.c`, `_expression.c`) | results: raw node pointers, copied namespaces, an array of their wrappers | `find`, indexing, namespace registration, mark, free | what a held result refers to is alive; freeing reads nothing freed, in any finalization order |
| Input callbacks (`ruby_xml_input_cbg.c`) | a global list of URI schemes; a buffer per open document | register, add, remove, match, open, read, close | the right scheme serves; every byte once; no buffer is lost |
| Parsers and contexts (`ruby_xml_parser.c`, `ruby_xml_html_parser.c`, `*_context.c`, `ruby_xml_io.c`) | `@context` of a parser, the `xmlParserCtxt` with `myDoc` | make contexts, options, parse, read callback | the document of a parse ends up with exactly one owner |
| SAX parser (`ruby_xml_sax_parser.c`, `ruby_xml_sax2_handler.c`) | push context, borrowed handler table, callbacks object | `callbacks=`, parse a chunk, events | the table is given back; events reach a living object; documents end |
| Reader (`ruby_xml_reader.c`) | `xmlTextReader` and, through it, a tree freed behind the cursor | make, read, next, attributes, node, expand, close | each tree has one owner; nodes handed out by `expand` stay alive |
| Attributes (`ruby_xml_attr.c`, `ruby_xml_attributes.c`) | wrappers of `xmlAttr`, wrappers of a node's attribute list | get, set, each, `remove!`, mark, free | as for nodes; the list keeps its node |
| Namespaces (`ruby_xml_namespace.c`, `ruby_xml_namespaces.c`) | wrappers of `xmlNs` | definitions, default, find, set on a node | a namespace is used only while its node lives |
| Errors (`ruby_xml_error.c`) | the handler block, a class variable | set, reset, report, raise | errors reach the handler and the SAX callbacks; an exception tells of the error it is raised for |
| Validation (`ruby_xml_dtd.c`, `ruby_xml_schema.c`, `ruby_xml_relaxng.c`, `ruby_xml_document.c`) | a DTD lent to a document while it is validated; reports that run Ruby code | make, `validate`, `validate_schema`, `validate_relaxng`, free | a DTD is freed by one owner; a failed validation raises its own error |
| Library state (`ruby_xml_state.c`, `libxml.c`) | initialization, global settings | init, cleanup at exit, setters | cleaned up once, last |
| Attribute declarations (`ruby_xml_attr_decl.c`) | a wrapper of a structure the DTD owns | read | - |
| Encodings, options, XPointer, XInclude, Ruby conveniences in `lib/` | none | constants, delegations | - |

How they interact. Everything that returns a node goes through
`rxml_node_wrap`; everything that returns a document through
`rxml_document_wrap`. A node is kept by its document's wrapper, or in a tree
without a document by the wrapper of the tree's top; an XPath result keeps its
document and its namespace copies; a parser keeps its context. libxml2 calls the
extension for each structure it frees (`rxml_node_deregisterNode`), for input
(`rxml_read_callback`, `ic_*`), for errors (`structuredErrorFunc`) and for SAX
events. All of these but the first run Ruby code: it may edit trees, collect,
switch threads, start another parse, or raise, which leaves libxml2 by `longjmp`.

Which behaviours are hard: finalizers run in heap order, so an object may be
finalized before or after the objects it refers to; a collection can happen
wherever Ruby allocates, and that is nearly everywhere; libxml2 frees nodes the
program holds (merged text, replaced content); state is read before a callback
and used after it; exceptions skip the code after a callback. Nothing is
persisted and there is no network protocol: crashes and message loss do not
arise. The hazards, each at its line, are in `PROJECT.json`.

## Modules

| Module | Models |
|---|---|
| `LibxmlTree` | the part of libxml2 the extension builds on: a heap of nodes and documents with parent, sibling, child and doc pointers, and the functions that edit it. External: modelled from how the extension uses it |
| `NodeMemory` | the "memory2" protocol of nodes and documents; EXTENDS `LibxmlTree` |
| `NodeIdentity` | the abstract promise: at most one object per structure, a structure is retrieved as its object, collections take only what is not held. `NodeMemory` implements it (`PromiseKept`) |
| `NodeEach` | `Node#each`: a raw cursor beside `NodeMemory` |
| `XPathMemory` | XPath contexts, results and namespace copies beside `NodeMemory` |
| `AttrMemory` | attributes, `Attributes` lists and their iterator beside `NodeMemory` |
| `NsMemory` | namespace definitions, their wrappers, `Namespaces` and its iterator beside `NodeMemory` |
| `InputCallbacks` | the scheme list and the documents read through it |
| `Parsing` | XML and HTML parsers, contexts, and who owns the parsed documents |
| `SaxParsing` | the SAX push parser |
| `Reader` | readers of streams and of documents, and the wrappers of what they hand out |
| `Validation` | DTDs, schemas, nested validations, and the exceptions made of errors |
| `*_proofs` | theorems about these modules; `Companions_proofs` is about the four modules beside `NodeMemory` |
| `MC*` | symmetry sets and, for `InputCallbacks` and `Reader`, the constant tables |

The four modules beside `NodeMemory` take over its actions and let each happen whenever
the C code of theirs yields to Ruby. Together with what they add, they are the compositions
of the system: the wrappers of nodes, documents, attributes and namespaces share one heap
and one collector.

Two conventions hold throughout. A use of freed memory *has no step*: an
action reads only structures in use. Where the code would read freed memory, a
property says that the case does not arise, or a usage rule excludes it, or the text below
says that it is left out. The one exception is a write: `rxml_namespace_free` resets a field of a
namespace that may be gone (`NsMemory`). And what the code requires of programs without enforcing it is a
named **usage rule**, a member of the constant `Rules` (`AttrRules`, `NsRules`,
`EachRules`), so that each can be switched off to see what it is for. A rule takes the very case it
is about out of every run that keeps it, and with it the hazard: the list in `PROJECT.json` says so for each. Where
possible a property names its exception in its own formula instead, by a history variable, and the
step is in the model.

### NodeMemory

`xml` is libxml2's heap, a record of pointers per cell; `ruby` maps each slot of
Ruby's heap to its class and `DATA_PTR`; `held` is the set of wrappers that
variables of the program refer to; `garbage` is non-empty during a sweep. Each
method is one action named after its C function (`child_set_aux`, `remove_ex`,
`document_root_set` ...). The guard has the tests of the code (`child_set_aux`
tests parent and doc, `remove_ex` nothing), the effect is that of the libxml2
function it calls, followed by the deregistration of what was freed and the
wrapping of what is returned. Methods that raise change nothing and have no action.

A collection is `gc_mark`, which computes the garbage by `node_mark`, and then one
`sweep` per wrapper in any order, running `node_free` or `document_free`. The
program does not run in between (Ruby's collector stops it here). An
object that is retrieved and dropped at once stands for temporaries. Freed cells
and slots can be reused at once, so stale pointers meet new structures.

The query methods (`name`, `content`, `lang`, `path`, `to_s`, `eql?` ...) change nothing; each
is an operator that gives the structures it reads, its walks along pointers included, and
`NoDangling` says that they are in use for every object the program holds.

The names and content of nodes are left out. Elements, texts and comments are told apart
because libxml2 merges adjacent texts, and frees one, and because only elements are roots.
The bound `LeafType` says which leaves besides empty elements the program makes. Rules:

- `outside`: a node is not put below or beside a part of its own tree. libxml2
  makes no such test; the tree becomes a cycle and the mark loop never ends.
- `anchored`: `next=` and `prev=` are called on a node that has a parent. Without
  it two siblings arise that no top node owns; neither keeps the other alive.
- `first_root`: `root=` does not replace a root by another element. Without it the old root
  keeps its doc pointer outside the tree, and when the document is gone the next mark comes
  to the `rb_bug` "XmlNode Doc is not bound!" of `rxml_node_mark_common`; `DocOfTree` fails at once.
- `other_sibling`: `sibling=` is not given the node that is the last sibling already. libxml2
  unlinks it and links it to itself, so that `WellLinked` fails.

### NodeEach

`Node#each` keeps `xchild` across `rb_yield`. The rule `still` says that the
block leaves the receiver's own child list alone - it may move or remove the receiver,
edit other lists, let go of everything and collect. One `each` runs at a time, and its
receiver is on the stack. `yielded` is a history of the children handed to the block.

### XPathMemory

A context keeps the wrapper of the document it was made for, but the node a search starts
from (`context.node=`) as an address only, which may be of another document or be gone by
the next search; such a search has no step. A result (`find`)
copies namespace nodes, wraps each at once in an object that
owns it, and is finished by `Data_Wrap_Struct`; a collection may fall between these
steps. Until line 93 of `ruby_xml_xpath_object.c` the array of these wrappers is referred to from
`malloc`ed memory only, unless the compiler left it in a register or on the stack. Which of the two it is
is a choice of each collection (`collect(lost)`), and `missed` remembers the results whose array was not
found: their wrappers may be finalized at once, and what the array takes after that is chance. `NsKept` says that
nothing else loses a copy, and that each copy keeps a wrapper to free it even then. That a result keeps its
copies in any case, as the comment at lines 28-30 says, is false. Entries of a
result whose nodes were freed by later edits are read by the code; the model has
no step for that. `rxml_xpath_object_free` empties `nodeTab` before libxml2 would look at the nodes in it, so that
finalizing a result reads none.

### AttrMemory

`attr` holds the `xmlAttr` structures, `props` the list of each node, `bound` the attributes
with a wrapper (an attribute needs no slot of its own: its wrapper is only ever found
through it), `attrHeld` and `attrTrash` what the program holds and what a sweep has left,
`lists` the nodes of the `Attributes` objects, `attrCursor` an `Attributes#each`. Every
step of `NodeMemory` that moves, copies or frees nodes takes their attributes along
(`AttrsFollow`). Names and values are left out: which attribute has the name asked for is a
choice. Rules: `rooted_list` (the `Attributes` object of a node without a parent is kept with
the node: its mark reaches only a document or a node above), `listed_stays` and `still_list` (no edit frees the node of
such an object, no block removes an attribute from the list it is called over), `linked_doc`
(a removed attribute is not asked for its document, which may be gone).

### NsMemory

`nsDef` is the definition list of each node, `nsOf` the namespace each node is in, `nsPrivate`
and `nsPtr` the binding of an `xmlNs` and its wrapper, `scopes` the nodes of the
`Namespaces` objects, `nsCursor` a `Namespaces#each` with the rest of its raw list. Neither class has a mark
function, and libxml2 does not tell anyone that it frees a namespace. Two rules are about the wrappers:
`kept_trees` (a tree is held while a `Namespace` of it is) and `wrapped_stay` (no edit frees a definition
that has a wrapper). What `NsWrapperBijection`, which includes the type invariant, then shows is that wrapper and
namespace stay inverse in every order of finalization. In a sweep a wrapper is written to after the node of its
namespace was freed: `namespace_free` resets `_private` of the cell whatever is in it by then, so
that a wrapper which outlived its namespace into another use of the memory would break the property.
No rule keeps the namespaces nodes refer to: a node that was given a namespace of another tree
refers to freed memory once that tree has been collected. `each` and `namespace` have a step only while what they read is in use.
Prefixes are choices; copies of nodes are left out.

### InputCallbacks

`first_scheme` is the linked list as a sequence; `stamp` is a history field. Names are
abstract: `Serves` is the case-insensitive prefix test of `ic_match`/`ic_open`,
`Begins` the `strncmp` of `remove_scheme`. `MCInputCallbacks` has one name that is a
prefix of another and two that differ in case. `document_query` is a call under way
during which schemes may come and go and other documents be opened. `remove_scheme` compares only as many bytes as the registered name has, so
that it may remove a scheme with a shorter name; `OthersStay` allows that and nothing more. One rule:
`no_nul` (the buffer is made by `strdup`, so it ends at the first NUL).

### Parsing

One record per context: `myDoc`, `recovery`, whether its input is used up, and its
phase. While it is `calling`, a read or the error handler runs Ruby; `call_returns` or
`call_raises` ends that. Several contexts can be calling at once, in any nesting, as
green threads and callbacks allow. `context_set` is the deprecated `Parser#string=` and
its siblings. A collection is one step: no finalizer here reads another object.
A recovering parse that has come to no document would wrap NULL, which has no step.
The rules: `once` (a context is parsed once; `ctxt->myDoc` is never reset, and a second parse
frees the first document under its wrapper, so that `HandlesKeepDocuments` fails) and
`settled` (`@context` is not replaced during its parse).

### SaxParsing

One record per parser with its context: `sax` says whose handler table `ctxt->sax` is,
`userData` whom events go to, `doc` libxml2's own document for entities. `released` says
what the last step made libxml2 free. `careless` is a history variable: the parsers a
callback of which has raised, those that were parsed on after an error, and those whose callbacks were
replaced in an event of the chunk they are in; properties
that hold only for careful programs refer to it, rather than hiding those steps.
An error is two steps: `error_wrap` makes the Ruby object, during which (phase `reporting`) the collector may
run but not the program, and `error_callback` reads `userData` and calls it. So a callbacks object that was
replaced and dropped in an earlier event can be gone when the error, or the next event, comes to it; this is the
one exception of `CallbacksAlive`.
Rule: `one_chunk` (no recursive parse by the same parser).

### Reader

A reader is a record with libxml2's mode, document, cursor (`node`, `back` on the way back up
through an element, `attr` on its attributes) and count of preserved nodes. A document is
its tree, given by `Parent` and numbered in document order: `alive` are the cells not freed
yet, `marked` those flagged as preserved, `claimed` those preserve was called for; `wrapped`,
`held` and `garbage` are the wrappers as in `NodeMemory`. The cursor of a `stream` reader frees
what it leaves unless it is preserved, a `walker` of a document frees nothing. `expand` wraps the
document, and `preserve` then keeps the reader from freeing it. `MaxPreserves` bounds libxml2's counter
of preserved nodes the cursor is in. Rules, none of which the code enforces, as a reader has no mark
function: `keeps_walked` (the program keeps the document a walker walks), `keeps_expanded` (it keeps the
expanded document, or a node of it, while it uses the reader), `momentary` (a node from `Reader#node`
is not kept to a collection if its document has no wrapper: the mark ends in `rb_bug`) and
`sole_reader` (a document is not walked while a stream still builds it). As in `NodeMemory` the
query methods are operators that give what they read.

### Validation

`frames` is the stack of validations running inside one another; a frame is `calling` while a report
runs the handler, in which the program does anything. During a DTD validation the
document's `extSubset` is the DTD of the `Dtd` object. `lastError` says whose node
`xmlLastError` has the address of and becomes `Freed` when that node is freed; `raised` is the
node the last exception copied. Schemas and RelaxNG objects behave alike but for grammars libxml2 does not
understand: the RelaxNG made of one holds NULL (`unparsed`), and validating by it fails without a report, so
that what is raised is the error before; `RaisesOwnError` excepts exactly that. Rules: `still_tree` (a document
is not edited while it is validated), `dtd_handlers_return` (no exception leaves a report of a
DTD validation: it would skip the line of libxml2 that takes the DTD out), `quiet_handlers` (handlers cause
no errors of their own), `fresh_error` (a call that raises without an error of its own is not made
while `xmlLastError` is about a freed node).

## Runs

| Run | Bounds | States | Shows |
|---|---|---|---|
| `node_memory` | 4 nodes, 2 documents, 3 wrappers, texts as leaves | 51,375 | identity, well-formed trees, doc pointers, no leak, exact collections, safe iteration, `NodeIdentity` implemented |
| `xpath_memory` | 2 nodes, 2 documents, 2 wrappers, 1 context, 1 result, 2 namespace copies | 1,996,604 | results keep what they refer to; finalization order; collections while a result is made |
| `attr_memory` | 2 nodes, 1 document, 2 wrappers, 2 attributes, no symmetry | 366,192 | attributes are kept by their wrappers, and everything is reclaimed |
| `ns_memory` | 2 nodes, 1 document, 2 wrappers, 2 namespaces, 2 namespace objects | 256,314 | namespaces and wrappers stay inverse |
| `input_callbacks` | 3 names, 2 files, 2 classes, 3 additions, 2 contexts of 2 bytes | 37,695 | scheme list and reads |
| `parsing` | 2 parsers, 2 contexts, 3 documents | 645,592 | document ownership |
| `sax_parsing` | 2 parsers, 2 callbacks objects | 809,116 | handler table, callbacks, entity document |
| `reader` | 2 readers, 1 document of 3 nodes, 2 preserves | 0.8 million | one owner per tree, queries, expanded nodes |
| `validation` | 2 documents, 2 DTDs, 1 schema, 2 nested validations | 18,456 | DTD ownership, the right exception |
| `sax_raise`, `reader_expand`, `stale_error` | as above | | the disagreements below: each ends with a counterexample |

Why these bounds are enough. In `node_memory`, four nodes give a top, a child and a
grandchild with a stranger beside, an unlink from the middle of three siblings, and merges of text
on both sides; two documents are what a move between documents needs; three wrappers cover both ends
of a path and a stranger. Comments as well would not fit the time; they behave as empty elements that
are no root, and `xpath_memory` has them. In the compositions two nodes are enough: a structure of
the composed module hangs on one node, and what can happen to it is that this node, or the one above or
beside it, is moved, merged, copied or freed; two attributes give a list with a next and a previous,
two namespaces a nearer and a farther definition. Two contexts or parsers interleave; a third would be
symmetric. Three documents in `parsing` are one per context and one left from before. Two readers on one
document are a stream with a walker on what it expanded, or two walkers. Two nested validations are of
the same document or of two, by the same DTD or by two; a third level repeats the second.

Cells and slots of a kind are interchangeable, so symmetry is sound for the safety runs;
`attr_memory` checks liveness and uses none. `MaxSize`, `MaxAdded`, `MaxPreserves`,
`MaxDepth` and `LeafType` are the only artificial bounds; all other sets are memory that is reused.
Deadlock is checked everywhere but in `input_callbacks`, where the bound on additions and
contexts lost to exceptions can stop the program.

**Fairness.** Only `AttrsReclaimed` needs it: weak fairness of `attr_collect` and of each
`attr_node_sweep` and `attr_sweep`. Ruby collects whenever allocation needs memory and finalizes all
remaining objects when the process ends, and a sweep, once begun, runs to its end. The program itself is not fair: it may
stop at any point. The property's premise is that it finally holds nothing.

### Disagreements between code and documentation

Shown by a run:

- `sax_raise`: an exception in a callback skips the reset of `ctxt->sax` that the
  comment calls important; the static table is freed afterwards.
- `reader_expand`: the documentation of `Reader#expand` says that the subtree is available until the next
  read. A program that lets go of it then loses the whole tree under the cursor.
- `stale_error`: `rxml_raise` makes exceptions of `xmlLastError` also where libxml2 has reported
  nothing, as `Namespace.new` with a prefix that is taken. The node of an earlier error
  is copied, which may have been freed.

Seen on the way. The first four contradict what a test or the documentation says and are excluded by a usage
rule; if it is taken out of `Rules`, TLC finds the property named violated:

- A test (`test/tc_error.rb:111-122`) expects a second parse to be refused. It fails instead by an input that is
  used up, and frees the first document under its wrapper (`once`, `HandlesKeepDocuments`).
- A test (`test/tc_reader.rb:50-53`) reads on with a reader of a document no variable refers to. Nothing keeps it, and a
  collection frees it under the cursor (`keeps_walked`, `QueriesInUse`).
- `sibling=` with the node that is the last sibling already links it to itself (`other_sibling`, `WellLinked`).
- `root=` on a document with a root leads to an `rb_bug` (`first_root`, `DocOfTree`).

The next four are in the models, and excepted in the property or without effect on one:

- The comment in `ruby_xml_error.c:146` speaks of the target of an error; a callbacks object that was replaced in an event may
  be collected while an error of the same chunk is made, before it is asked whether it has an `on_error`.
- The namespace nodes of a result are freed before their Ruby objects go out of scope (`ruby_xml_xpath_object.c:28-30`) if
  a collection misses the array while the result is made.
- `validate_relaxng` by a `RelaxNG` without a grammar raises an error of something else, whatever the document is.
- `namespaces.namespace` of a node may read a namespace that was collected with the tree it was defined in.

The others are excluded by a usage rule or outside the models:

- `next=` and `prev=` on a node without a parent make siblings that nothing owns (`anchored`).
- A handler that raises out of `Document#validate` leaves the DTD with two owners; out of a
  schema validation, it leaks the validation context. A handler that validates something else makes the
  outer failure raise the inner one's error.
- `Document#find` warns (`lib/libxml/document.rb:103-110`) of a crash by the order of finalization
  that `rxml_xpath_object_free` has since been changed to avoid.
- `remove_scheme` may remove a scheme whose name is a prefix of the one given.
- A recovering parse of an empty input wraps a NULL document, which `rxml_document_wrap` dereferences.
- `validate_schema` and `validate_relaxng` are documented to return true or false (`ruby_xml_schema.c:14-16`)
  and raise instead of the latter.
- `Node#space_preserve=` sets `default` for true and `preserve` for false (`ruby_xml_node.c:1171-1182`).
- The end of a document is not reported to `xmlParseChunk`: `on_end_document` is not called.
- `SaxParser#initialize` ignores the context that the constructors in
  `lib/libxml/sax_parser.rb` pass, and `parse` takes a chunk that neither
  the documentation nor the tests give it.
- `Namespaces#each` leaks its list when the block breaks; `register_namespaces_from_node` of a
  document without a root reads through a NULL pointer.
- `Reader.file` looks up its encoding under the key of the base URI (`ruby_xml_reader.c:120`).

## Proofs

The theorems hold for every value of the constants: any number of nodes, parsers, documents, readers, any
tree, any depth of nesting. The assumptions on constants are that the sets of cells and slots are disjoint
and do not contain `NULL`, that `Rules` has known members, and in `Reader` that `Parent` numbers a tree
in document order. Where a theorem needs usage rules, it assumes that the program keeps
them (`LawAbiding`, `Lawful`, or a rule by name) and nothing else.

Three devices replace what the provers cannot do. Closures and walks along pointers are defined by sets
and folds, not by recursion. That a structure of pointers is well-founded is said of all its subsets at once:
`Grounded` and `Ordered` say that no set of nodes is closed under `parent`, or under `prev`, so a least
counterexample can be picked. And where an induction over numbers would be used, `LeastPosition`
picks the least element of a set of positions, from the well-foundedness of strict inclusion on
finite sets.

**`NodeMemory_proofs`**, whichever usage rules are kept:

- `TypeCorrect == Spec => []TypeOK`,
- `WrappersBound == Spec => []WrapperBijection`: `_private` and `DATA_PTR` stay inverse to
  each other through every edit and every order of finalization,
- `HeldStaysBound == Spec => HeldIdentity`: a structure the program holds keeps its object.

None is inductive. The invariant `IInv` adds that no free cell is bound to a wrapper
(a cell is reused by `xmlNewNode`, and a stale binding would give the new node another
node's wrapper), that every document in use is bound (else `Document` retrieval could
make a second wrapper of another class) and that a wrapper's class agrees with the kind of
its cell. The argument: `LibxmlTree_proofs` shows of each editing function that it only
relinks cells, releases cells it names in `dead`, and keeps documents
(`Harmless`, `Relinked`, `Rebound`); then one lemma per kind of action, `FinishKeepsIInv`,
`MakeKeepsIInv`, `MoveKeepsIInv` ... , shows that deregistering exactly `dead` and wrapping
the node returned restores the invariant. `HeldStaysBound` follows step by step
(`BindingsKept`) from the same lemmas.

And if the program keeps all four rules:

- `TreesWellLinked` (`WellLinked`), `DocPointersRight` (`DocOfTree`): the edits keep trees, with the doc
  pointers right,
- `NothingLeaks` (`Owned`), `NothingDangles` (`NoDangling`), `CollectionsExact` (`CollectionIsExact`):
  each tree has a wrapper that will free it, what a held object leads to is in use, and a collection leaves
  only trees the program has a wrapper in,
- `ImplementsPromise` (`PromiseKept`): the refinement of `NodeIdentity`.

Their invariant is `TInv` (`TreeInvariance`). `Trees` says of each structure that its links agree with its neighbours' and that
its doc pointer is its tree's, and of all that they are grounded and ordered; the second part of
`LibxmlTree_proofs` shows that unlinking, splicing in at each place, merging texts, copying and freeing keep
it, and that an edit makes no new top (`NoNewTop`) but the node it unlinks. `RootsBound` says that
each top has a wrapper. During a sweep, `HeldSafe` says that no top of a tree the program holds
something in is garbage, and `RestDoomed` that every other one is; the collection is right because a mark
reaches the top of the tree (`Top`), however deep the wrapper is in it. Each rule is needed at the one edit it is about.

**`Companions_proofs`** - beside `NodeMemory`:

- `EachCursor`: with `still`, `CursorInUse` of `NodeEach`. The cursor is a child of the receiver, and
  the receiver is on the stack (`CursorPlaced`);
- `EveryChildYielded`: with `still`, `YieldsAll`. What has been yielded is a path of `next` pointers from the first child to the
  cursor, without repetition (`ListYielded`). When it ends, a child that is missing would have a predecessor that is
  missing, and so on without end, which `Ordered` excludes; that nothing occurs twice then gives the number of children
  (`FS_CountingElements`);
- `XPathTypes` and `NamespacesKept`, without any rule and for collections that find the array of a result being made or
  miss it, for `XPathTypeOK` and `NsKept` of `XPathMemory`. The invariant `NsGuarded` says that what a result which is held, or being wrapped, refers to is not
  garbage and its copies not freed;
- `CollectionsKeepResults` (`CollectionKeepsResult`), if the rules of `NodeMemory` are kept: during a sweep the documents
  of results and contexts that are found are not garbage (`DocsKept`);
- `AttrTypes`, without any rule, for `AttrTypeOK` of `AttrMemory`: the lists stay lists, and the doc pointers their parents', when
  nodes are moved, merged, copied or freed (`AttrsFollow`) as well as when attributes are;
- `CollectionsKeepAttrs` (`CollectionKeepsAttrs`), if the rules of `NodeMemory` are kept and `rooted_list`, `listed_stays` and
  `still_list`. A mark that starts at an attribute gets to a document or a top node; the invariant `AttrsKept` says that the trees of
  what the `Attr` and `Attributes` objects hold on to (`Anchors`) are not garbage in a sweep, and that the attribute an
  `each` stands on is one of its node;
- `NamespacesBound` (`NsWrapperBijection`), if the rules of `NodeMemory` are kept and `kept_trees` and `wrapped_stay`. In a sweep the trees
  of namespaces go before or after their wrappers; `NsDoomed` says that a wrapper which is not about to be
  finalized has its namespace in a tree that stays (`Stays`).

**`InputCallbacks_proofs`**

- `InputTypes`, `ReadsInOrder` (with `no_nul`), `ContextsKept` (`NoContextLost`), `FirstAddedIsAsked`
  (`FirstAddedServes`) and `OthersUnmoved` (`OthersStay`, without any rule). The invariant `ICInv` says that the list is in the order of
  additions (`Stamped`), that each call under way has a context of its own which no document is read through yet
  (`CallsApart`), and that what a context has given and what remains of its buffer make up the whole (`Progress`).

**`Reader_proofs`** - with all the rules of `Reader`:

- `ReaderTypes`, `OneOwnerAlways` (`OneOwner`), `QueriesAreSafe` (`QueriesInUse`), `ExpandedKept` (`ExpandedStays`).

The invariant `RInv` (`ReaderInvariance`) says where a reader is. For a stream at node p (`StreamAt`): what p is in and what the cursor
still has to come to (`Rest`) is in use, nothing of that is claimed yet, and the claims on what p is in are at
most as many as libxml2's counter says. So when the counter is zero and p is not flagged, no claim is above
p, and none below, since what a claimed node is in is flagged (`Claims`); p can be freed with all below. `Owned` is `OneOwner`, and
that an owner owns something; `LentKept` and `NodesKept` carry the rules about what the program keeps
through a sweep; `ReadersApart` says that a document being built by one reader is not under another one.

**`Parsing_proofs`**

- `ParsingTyped == Spec => []ParsingTypeOK`, whichever rules are kept;
- `ContextsKept`: with `settled`, `ContextKept`. The invariant `ParsedByUser` says that a context that is
  being parsed is still the one its parser refers to, and that the parser is on the stack: hence marked;
- `DocumentsKeepOwners`: with `settled`, `NoDocumentLost`, from the same invariant: a collection leaves a
  parse its context, and a parse that ends otherwise than by an exception wraps or frees what it built;
- `HandlesKeep`: with `once`, `HandlesKeepDocuments`. The invariant `OwnTrees` says that two contexts
  never build the same document, and that a context which has not been parsed builds none the
  program has a wrapper of.

**`SaxParsing_proofs`**

- `SaxTyped`, `CallbacksStay` (`CallbacksAlive`; the parser being called is on the stack and keeps its
  callbacks, and they are those events go to unless they were replaced in this chunk, `UserDataAlive`) and `DocumentsFreedOnce` (`DocumentFreedOnce`; a document that was freed
  and not reset belongs to a parse that has failed, `FreedKnown`), without any rule;
- `HandlerStays`: with `one_chunk`, `HandlerNotFreed`. The static table is lent only during a chunk, or
  for good if a callback has raised (`LentKnown`).

**`Validation_proofs`**

- `ValidationTyped`, whichever rules are kept;
- `DtdHasOneOwner`: with `dtd_handlers_return`, `DtdFreedOnce`, for validations nested to any depth.
  The invariant `SubsetsBorrowed` says that an external subset was put there by a running validation of
  this document, and that what a validation saved was put there by one below it: so each return restores
  what one below is accountable for, and the last leaves none;
- `FailureRaisesOwnError`: with `still_tree` and `quiet_handlers`, `RaisesOwnError`. The invariant
  `OwnErrorLast` says that only the outermost validation has reported, and that `xmlLastError` is then about
  its document, which is on the stack and not freed.

Only model-checked: liveness (`AttrsReclaimed`), which is out of the prover's reach, as `ENABLED` is, and the
three counterexamples.

## Not modelled

- Nodes and documents: what names and content say, `node.namespace` and the searches from a node, import,
  XInclude, `order_elements!`, encodings. XPath: `register_namespace` and its variants, compiled
  expressions, results that are not node sets, XPointer.
- Attributes: `child` and `value=`, whose text nodes have no state of their own in `AttrMemory`;
  attribute declarations, which are read-only.
- IO objects: a context and a reader know theirs only by an address and nothing in the C code refers to
  it. All one could check is the rule that the program keeps it. The same holds for the classes of
  schemes, which are `VALUE`s in `malloc`ed memory.
- Stale entries of an XPath result: which ones the code may read depends on every edit since the search.
- Library state: one object that initializes libxml2 and cleans up at exit, in no particular order with
  other finalizers. What is freed by `xmlCleanupParser` is libxml2's own. Global flags and constants.
- The Ruby files in `lib/` combine operations of the C modules. `cbg.c` is not called by anything.
- Threads that run without the interpreter lock do not exist in this version of Ruby.

## Plan

1. *Done*: all modules above, their runs, and theorems of every invariant and action property of the passing runs.
2. `LibraryState`: initialization and the order of finalizers at exit, with the global error handler.
3. Namespaces with copies of nodes (`xmlReconciliateNs`) and registration with XPath contexts, and attribute
   wrappers in XPath results.
