----------------------------- MODULE Validation -----------------------------
(***************************************************************************)
(* Document#validate, #validate_schema and #validate_relaxng with the      *)
(* objects they validate against, and the error report that ends in an     *)
(* exception (ruby_xml_document.c, ruby_xml_dtd.c, ruby_xml_schema.c,      *)
(* ruby_xml_relaxng.c, ruby_xml_error.c).                                  *)
(*                                                                         *)
(* libxml2 reports each violation to Ruby code: the block of the call or   *)
(* the global handler.  That code may do anything: drop objects, collect,  *)
(* start another validation, raise.  While a DTD validation runs, the DTD  *)
(* stands in the document as its external subset; xmlValidateDtd takes it  *)
(* out before it returns, an exception does not.  A document that is freed *)
(* frees its subsets, a Dtd object its DTD.                                *)
(*                                                                         *)
(* rxml_raise makes an exception from xmlLastError, a global that libxml2  *)
(* sets with each error and that keeps the address of the node concerned;  *)
(* the node is copied when the exception is made.                          *)
(*                                                                         *)
(* XML::Schema and XML::RelaxNG are alike and both called schemas, but for *)
(* a grammar that cannot be understood: the RelaxNG made of it holds NULL, *)
(* and validating by it fails without a report.  What makes a document     *)
(* valid is left out: any report, any outcome.                             *)
(***************************************************************************)
EXTENDS Naturals, Sequences, FiniteSets

CONSTANTS
  Doc,       \* memory cells for documents, each with its wrapper
  Dtd,       \* slots of the Ruby heap for Dtd objects, each with its DTD
  Schema,    \* slots of the Ruby heap for Schema and RelaxNG objects
  NULL,
  Freed,     \* the address of a node that has been freed
  MaxDepth,  \* bound: validations running inside one another
  Rules      \* the usage rules, defined below, that the program keeps

ASSUME ObjectsDistinct ==
  /\ Doc \cap Dtd = {} /\ Doc \cap Schema = {} /\ Dtd \cap Schema = {}
  /\ NULL # Freed /\ {NULL, Freed} \cap (Doc \cup Dtd \cup Schema) = {}

ASSUME DepthIsNat == MaxDepth \in Nat

ASSUME RulesAreKnown ==
  Rules \subseteq {"still_tree", "dtd_handlers_return", "quiet_handlers", "fresh_error"}

VARIABLES
  objects,    \* the Document, Dtd and Schema objects that exist
  dtds,       \* the DTDs of Dtd objects that have not been freed
  unparsed,   \* the RelaxNG objects that hold no grammar
  extSubset,  \* the external subset of each document
  held,       \* the objects the program's variables refer to
  garbage,    \* during a sweep, the objects still to be finalized
  frames,     \* the validations that are running, the innermost one last
  handler,    \* whether a global error handler is set, as error.rb does
  lastError,  \* whose node xmlLastError has the address of
  raised      \* whose node the exception just made has a copy of

heap == <<objects, dtds, unparsed, extSubset>>

vars == <<objects, dtds, unparsed, extSubset, held, garbage, frames, handler, lastError, raised>>

Object == Doc \cup Dtd \cup Schema

\* doc is validated by a Dtd or a schema; saved is the external subset it
\* had; a report is being handled while calling; reported: there was one.
Frame == [doc : Doc, by : Dtd \cup Schema, saved : Dtd \cup {NULL},
          calling : BOOLEAN, reported : BOOLEAN]

Address == Doc \cup {NULL, Freed}

Init ==
  /\ objects = {} /\ dtds = {} /\ unparsed = {}
  /\ extSubset = [d \in Doc |-> NULL]
  /\ held = {} /\ garbage = {}
  /\ frames = <<>>
  /\ handler = TRUE
  /\ lastError = NULL
  /\ raised = NULL

Depth == Len(frames)

Innermost == frames[Depth]

Outer == SubSeq(frames, 1, Depth - 1)

Validated == {frames[i].doc : i \in DOMAIN frames}

\* Ruby code runs: the program itself, or what a report has called.
Running ==
  /\ garbage = {} /\ UNCHANGED garbage
  /\ frames # <<>> => Innermost.calling

\* libxml2 runs, in the innermost validation.
Validating ==
  /\ garbage = {} /\ UNCHANGED garbage
  /\ frames # <<>> /\ ~Innermost.calling

Quiet == raised' = NULL

\* rxml_raise(&xmlLastError): rxml_error_wrap copies the node.
rxml_raise == raised' = lastError

-----------------------------------------------------------------------------
(* Documents, DTDs and schemas.                                            *)

New(o) ==
  /\ o \notin objects
  /\ objects' = objects \cup {o}
  /\ held' = held \cup {o}

\* A document is parsed or made.
document_new(d) ==
  /\ Running /\ Quiet
  /\ New(d)
  /\ UNCHANGED <<dtds, unparsed, extSubset, frames, handler, lastError>>

\* "still_tree": the tree of a document being validated is not edited.
StillTree(d) == "still_tree" \in Rules => d \notin Validated

\* The node of xmlLastError, if it is of document d, is gone.
Forget(d) == lastError' = IF lastError = d THEN Freed ELSE lastError

\* An edit frees nodes of the document, as Node#content= does.
document_edit(d) ==
  /\ Running /\ Quiet
  /\ d \in held
  /\ StillTree(d)
  /\ Forget(d)
  /\ UNCHANGED <<heap, held, frames, handler>>

\* Dtd.new: _private of the DTD is not set, so that nothing tells the object
\* when libxml2 frees the DTD.
dtd_initialize(t) ==
  /\ Running /\ Quiet
  /\ New(t)
  /\ dtds' = dtds \cup {t}
  /\ UNCHANGED <<unparsed, extSubset, frames, handler, lastError>>

\* "quiet_handlers": the Ruby code a report calls causes no errors.
QuietHandlers(depth) == "quiet_handlers" \in Rules => Depth <= depth

\* Schema.new, .document, .from_string: an object comes of it whether the
\* schema was understood or not.  An error is about a place in the text, a
\* node of the schema's own document, which is freed, or of the program's.
schema_init(s) ==
  /\ Running /\ Quiet
  /\ New(s)
  /\ \/ UNCHANGED lastError
     \/ QuietHandlers(0) /\ lastError' \in {NULL, Freed} \cup (held \cap Doc)
  /\ UNCHANGED <<dtds, unparsed, extSubset, frames, handler>>

\* RelaxNG.new, .document, .from_string: the grammar is understood.
relaxng_init(s) ==
  /\ Running /\ Quiet
  /\ New(s)
  /\ UNCHANGED <<dtds, unparsed, extSubset, frames, handler, lastError>>

\* It is not, and there is an object of NULL.  libxml2 parses a copy of the
\* document, which is freed.
relaxng_init_fails(s) ==
  /\ Running /\ Quiet
  /\ QuietHandlers(0)
  /\ New(s)
  /\ unparsed' = unparsed \cup {s}
  /\ lastError' \in {NULL, Freed}
  /\ UNCHANGED <<dtds, extSubset, frames, handler>>

\* Dtd.new and the parsers raise for what they cannot parse: libxml2 has set
\* xmlLastError, to a place in the text and no node.
parse_fails ==
  /\ Running
  /\ QuietHandlers(0)
  /\ lastError' = NULL
  /\ raised' = lastError'
  /\ UNCHANGED <<heap, held, frames, handler>>

-----------------------------------------------------------------------------
(* Errors.                                                                 *)

\* Error.set_handler, Error.reset_handler
set_handler(b) ==
  /\ Running /\ Quiet
  /\ handler' = b
  /\ UNCHANGED <<heap, held, frames, lastError>>

\* "fresh_error": a call that fails on its own account is not made when the
\* node of an earlier error has been freed.
FreshError == "fresh_error" \in Rules => lastError # Freed

\* A call that fails without libxml2 reporting an error, such as
\* Namespace.new for a prefix the node has: the exception is made of
\* whatever error came before.
raise_stale ==
  /\ Running
  /\ FreshError
  /\ rxml_raise
  /\ UNCHANGED <<heap, held, frames, handler, lastError>>

\* structuredErrorFunc: libxml2 reports an error, or a warning, about a node
\* of the document.  The handler is called; without one the block may be.
structuredErrorFunc ==
  /\ Validating /\ Quiet
  /\ QuietHandlers(1)
  /\ Innermost.by \notin unparsed
  /\ lastError' = Innermost.doc
  /\ \E called \in BOOLEAN :
       /\ handler => called
       /\ frames' = [frames EXCEPT ![Depth].calling = called, ![Depth].reported = TRUE]
  /\ UNCHANGED <<heap, held, handler>>

\* Mutant of handler_returns: the error counts as dealt with.
handler_returns_reset ==
  /\ Running /\ Quiet
  /\ frames # <<>>
  /\ frames' = [frames EXCEPT ![Depth].calling = FALSE]
  /\ lastError' = NULL
  /\ UNCHANGED <<heap, held, handler>>

handler_returns ==
  /\ Running /\ Quiet
  /\ frames # <<>>
  /\ frames' = [frames EXCEPT ![Depth].calling = FALSE]
  /\ UNCHANGED <<heap, held, handler, lastError>>

\* "dtd_handlers_return": no exception leaves what the reports of a DTD
\* validation call.
DtdHandlersReturn == "dtd_handlers_return" \in Rules => Innermost.by \notin Dtd

\* An exception leaves the handler, and with it the validation: neither the
\* validation context nor the document is put in order.
handler_raises ==
  /\ Running /\ Quiet
  /\ frames # <<>>
  /\ DtdHandlersReturn
  /\ frames' = Outer
  /\ UNCHANGED <<heap, held, handler, lastError>>

-----------------------------------------------------------------------------
(* Validating.                                                             *)

Push(d, g) ==
  /\ Running /\ Quiet
  /\ Depth < MaxDepth
  /\ {d, g} \subseteq held
  /\ frames' = Append(frames, [doc |-> d, by |-> g, saved |-> extSubset[d],
                               calling |-> FALSE, reported |-> FALSE])
  /\ UNCHANGED <<objects, dtds, unparsed, held, handler, lastError>>

\* Document#validate(dtd)
validate_dtd(d, t) ==
  /\ Push(d, t)
  /\ extSubset' = [extSubset EXCEPT ![d] = t]

\* Document#validate_schema(schema)
validate_schema(d, s) ==
  /\ s \notin unparsed
  /\ Push(d, s)
  /\ UNCHANGED extSubset

\* Document#validate_relaxng(relaxng): without a grammar it fails, and says
\* nothing.
validate_relaxng(d, s) ==
  /\ s \in unparsed => FreshError
  /\ Push(d, s)
  /\ UNCHANGED extSubset

Pop ==
  /\ frames' = Outer
  /\ extSubset' = [extSubset EXCEPT
                     ![Innermost.doc] = IF Innermost.by \in Dtd THEN Innermost.saved ELSE @]
  /\ UNCHANGED <<objects, dtds, unparsed, held, handler, lastError>>

\* The document is valid: true is returned.
validate_valid ==
  /\ Validating /\ Quiet
  /\ Innermost.by \notin unparsed
  /\ Pop

\* The result is not that it is valid: the call raises what xmlLastError
\* says.  libxml2 has reported why, or there was no grammar.
validate_invalid ==
  /\ Validating
  /\ Innermost.reported \/ Innermost.by \in unparsed
  /\ Pop
  /\ rxml_raise

-----------------------------------------------------------------------------
(* Garbage collection.                                                     *)

\* Mutant of OnStack: without the arguments.
OnStack_receiver == Validated

\* The receiver and the argument of each call that is running.
OnStack == Validated \cup {frames[i].by : i \in DOMAIN frames}

drop(o) ==
  /\ Running /\ Quiet
  /\ o \in held
  /\ held' = held \ {o}
  /\ UNCHANGED <<heap, frames, handler, lastError>>

\* Mutant of Marked: a running call keeps its C structures, not the objects.
Marked_held == held

\* None of these classes marks an object of another.
Marked == held \cup OnStack

gc_mark ==
  /\ garbage = {}
  /\ frames # <<>> => Innermost.calling
  /\ garbage' = objects \ Marked
  /\ Quiet
  /\ UNCHANGED <<heap, held, frames, handler, lastError>>

\* rxml_document_free: xmlFreeDoc frees the external subset too.
document_free(d) ==
  /\ dtds' = dtds \ {extSubset[d]}
  /\ extSubset' = [extSubset EXCEPT ![d] = NULL]
  /\ Forget(d)

\* rxml_dtd_free; a DTD that is freed already has no step.
dtd_free(t) ==
  /\ t \in dtds
  /\ dtds' = dtds \ {t}
  /\ UNCHANGED <<extSubset, lastError>>

\* rxml_schema_free, rxml_relaxng_free
schema_free == UNCHANGED <<dtds, extSubset, lastError>>

sweep(o) ==
  /\ o \in garbage
  /\ Quiet
  /\ garbage' = garbage \ {o}
  /\ objects' = objects \ {o}
  /\ unparsed' = unparsed \ {o}
  /\ \/ o \in Doc /\ document_free(o)
     \/ o \in Dtd /\ dtd_free(o)
     \/ o \in Schema /\ schema_free
  /\ UNCHANGED <<held, frames, handler>>

-----------------------------------------------------------------------------

Make ==
  \/ \E d \in Doc : document_new(d) \/ document_edit(d)
  \/ \E t \in Dtd : dtd_initialize(t)
  \/ \E s \in Schema : schema_init(s) \/ relaxng_init(s) \/ relaxng_init_fails(s)
  \/ parse_fails

Validate ==
  \/ \E d \in Doc, t \in Dtd : validate_dtd(d, t)
  \/ \E d \in Doc, s \in Schema : validate_schema(d, s) \/ validate_relaxng(d, s)
  \/ validate_valid \/ validate_invalid

Errors ==
  \/ \E b \in BOOLEAN : set_handler(b)
  \/ raise_stale \/ structuredErrorFunc \/ handler_returns \/ handler_raises

Collect == gc_mark \/ \E o \in Object : sweep(o)

Next == Make \/ Validate \/ Errors \/ Collect \/ \E o \in held : drop(o)

Spec == Init /\ [][Next]_vars

-----------------------------------------------------------------------------
(* Properties.                                                             *)

\* The variables are typed, and what the program holds or a running call
\* refers to exists and is not being finalized.
ValidationTypeOK ==
  /\ objects \subseteq Object /\ dtds \subseteq Dtd
  /\ unparsed \subseteq objects \cap Schema
  /\ extSubset \in [Doc -> Dtd \cup {NULL}]
  /\ held \cup OnStack \subseteq objects
  /\ garbage \subseteq objects \ (held \cup OnStack)
  /\ frames \in Seq(Frame)
  /\ handler \in BOOLEAN
  /\ {lastError, raised} \subseteq Address

\* A DTD has one owner, its Dtd object, which frees it once: no document is
\* left with it as external subset when the validations of that document are
\* over, in whatever way they ran inside one another, and no validation loses
\* its DTD to a collection.
DtdFreedOnce ==
  /\ dtds = objects \cap Dtd
  /\ \A d \in Doc : extSubset[d] # NULL => /\ extSubset[d] \in dtds
                                           /\ d \in Validated


\* A failed validation raises its own error, about a node of its document,
\* whatever the handlers and the collector did since it was reported, unless
\* it was a RelaxNG without a grammar that made it fail.
RaisesOwnError ==
  [][validate_invalid => raised' = Innermost.doc \/ Innermost.by \in unparsed]_vars
=============================================================================
