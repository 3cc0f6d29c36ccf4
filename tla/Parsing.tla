------------------------------ MODULE Parsing ------------------------------
(***************************************************************************)
(* Parsing into documents: XML::Parser and XML::HTMLParser, their contexts *)
(* (ruby_xml_parser.c, ruby_xml_html_parser.c, ruby_xml_parser_context.c,  *)
(* ruby_xml_html_parser_context.c) and who owns the documents they build.  *)
(*                                                                         *)
(* libxml2 builds the document of a parse in the context's myDoc.  Parsing *)
(* calls back into Ruby, to read from an IO object (ruby_xml_io.c) or to   *)
(* report an error: while a context is "calling" the program does anything *)
(* else, parses with other contexts, lets go of objects, runs the          *)
(* collector, or raises an exception, which ends the parse.                *)
(*                                                                         *)
(* No object of this module reads another one when it is finalized, so a   *)
(* collection is one step.  A use of freed memory has no step.             *)
(***************************************************************************)
CONSTANTS
  Parser,   \* slots of Ruby's heap for XML::Parser and XML::HTMLParser
  Context,  \* memory cells for xmlParserCtxt, each with its wrapper's slot
  Doc,      \* memory cells for xmlDoc, each with its wrapper's slot
  NULL,
  Rules     \* the usage rules, defined below, that the program keeps

ASSUME ParsingRulesAreKnown == Rules \subseteq {"once", "settled"}

ASSUME ParsingSlotsDistinct ==
  /\ Parser \cap Context = {} /\ Parser \cap Doc = {} /\ Context \cap Doc = {}
  /\ NULL \notin Parser \cup Context \cup Doc

VARIABLES
  context,   \* the memory of the contexts
  uses,      \* the @context of each parser, NULL for a free slot
  document,  \* the memory of the documents
  held       \* the objects the program refers to

vars == <<context, uses, document, held>>

\* read: a parse has ended, so the input is at its end, or an error has
\* disabled the rest of it; by: the parser that is parsing with the context.
ContextRecord ==
  [phase : {"free", "idle", "parsing", "calling"}, html : BOOLEAN, recovery : BOOLEAN,
   read : BOOLEAN, started : BOOLEAN, myDoc : Doc \cup {NULL}, by : Parser \cup {NULL}]

NoContext == [phase |-> "free", html |-> FALSE, recovery |-> FALSE, read |-> FALSE,
              started |-> FALSE, myDoc |-> NULL, by |-> NULL]

\* A document in memory is a tree without a wrapper or bound to one; when it
\* is freed under its wrapper, that one is left empty.
DocumentState == {"free", "tree", "bound", "empty"}

Init ==
  /\ context = [c \in Context |-> NoContext]
  /\ uses = [p \in Parser |-> NULL]
  /\ document = [d \in Doc |-> "free"]
  /\ held = {}

In(phase) == {c \in Context : context[c].phase = phase}

\* The program runs: outside of parses, or in what they call back.
Running == In("parsing") = {}

-----------------------------------------------------------------------------
(* Contexts and parsers.                                                   *)

\* The wrapper of a new xmlParserCtxt.
context_new(c, html) ==
  /\ Running
  /\ context[c].phase = "free"
  /\ context' = [context EXCEPT ![c] = [NoContext EXCEPT !.phase = "idle", !.html = html]]
  /\ held' = held \cup {c}
  /\ UNCHANGED <<uses, document>>

\* Parser::Context.new, .file, .io, .string and .document
context_wrap(c) == context_new(c, FALSE)

\* HTMLParser::Context.file, .io and .string
html_context_wrap(c) == context_new(c, TRUE)

\* Context#recovery=
context_recovery_set(c, recovery) ==
  /\ Running
  /\ c \in held /\ context[c].phase = "idle"
  /\ context' = [context EXCEPT ![c].recovery = recovery]
  /\ UNCHANGED <<uses, document, held>>

\* Context#options=, with RECOVER among the options or not
context_options_set(c, recovery) == ~context[c].html /\ context_recovery_set(c, recovery)

\* HTMLParser::Context#options=
html_context_options_set(c, recovery) == context[c].html /\ context_recovery_set(c, recovery)

\* Parser.new(context): several parsers may share one.
parser_initialize(p, c) ==
  /\ Running
  /\ c \in held
  /\ uses[p] = NULL /\ p \notin held
  /\ uses' = [uses EXCEPT ![p] = c]
  /\ held' = held \cup {p}
  /\ UNCHANGED <<context, document>>

\* Parser#string=, #io=, #file=, #document=: @context is replaced.
context_set(p, c) ==
  /\ Running
  /\ p \in held /\ c \in held
  /\ uses' = [uses EXCEPT ![p] = c]
  /\ UNCHANGED <<context, document, held>>

-----------------------------------------------------------------------------
(* Parsing.                                                                *)

\* Parser#parse calls xmlParseDocument or htmlParseDocument.
parse(p) ==
  /\ Running
  /\ p \in held
  /\ context[uses[p]].phase = "idle"
  /\ context' = [context EXCEPT ![uses[p]].phase = "parsing", ![uses[p]].started = FALSE,
                                ![uses[p]].by = p]
  /\ UNCHANGED <<uses, document, held>>

\* libxml2 starts the document, unless it finds the input of an XML context
\* at its end, an error that stops the parse when it is not to recover.
startDocument(c, d) ==
  /\ context[c].phase = "parsing" /\ ~context[c].started
  /\ context[c].read => (context[c].html \/ context[c].recovery)
  /\ document[d] = "free"
  /\ document' = [document EXCEPT ![d] = "tree"]
  /\ context' = [context EXCEPT ![c].started = TRUE, ![c].myDoc = d]
  /\ UNCHANGED <<uses, held>>

\* rxml_read_callback and the error handler: rb_funcall.
call(c) ==
  /\ context[c].phase = "parsing"
  /\ context' = [context EXCEPT ![c].phase = "calling"]
  /\ UNCHANGED <<uses, document, held>>

call_returns(c) ==
  /\ Running
  /\ context[c].phase = "calling"
  /\ context' = [context EXCEPT ![c].phase = "parsing"]
  /\ UNCHANGED <<uses, document, held>>

\* An exception passes through libxml2 and out of parse.
call_raises(c) ==
  /\ Running
  /\ context[c].phase = "calling"
  /\ context' = [context EXCEPT ![c].phase = "idle", ![c].by = NULL]
  /\ UNCHANGED <<uses, document, held>>

Ended(c) == [context EXCEPT ![c].phase = "idle", ![c].read = TRUE, ![c].by = NULL]

\* The document is well-formed, or it does not have to be: it is wrapped.  A
\* recovering parse that has come to no document hands rxml_document_wrap a NULL
\* pointer, which it dereferences: that has no step.
parse_succeeds(c) ==
  /\ context[c].phase = "parsing" /\ context[c].started
  /\ context[c].read => context[c].recovery
  /\ context' = Ended(c)
  /\ document' = [document EXCEPT ![context[c].myDoc] = "bound"]
  /\ held' = held \cup {context[c].myDoc}
  /\ UNCHANGED uses

\* Mutant of parse_fails: myDoc is not freed.
parse_fails_keeping(c) ==
  /\ context[c].phase = "parsing" /\ ~context[c].recovery
  /\ context[c].html => context[c].started
  /\ context' = Ended(c)
  /\ UNCHANGED <<uses, document, held>>

Freed(d) == [document EXCEPT ![d] = IF d \in held THEN "empty" ELSE "free"]

\* The document is not well-formed: xmlFreeDoc, and the error is raised.
parse_fails(c) ==
  /\ context[c].phase = "parsing" /\ ~context[c].recovery
  /\ context[c].html => context[c].started
  /\ context' = Ended(c)
  /\ document' = IF context[c].myDoc = NULL THEN document ELSE Freed(context[c].myDoc)
  /\ UNCHANGED <<uses, held>>

-----------------------------------------------------------------------------
(* Garbage collection.                                                     *)

drop(x) ==
  /\ Running
  /\ x \in held
  /\ held' = held \ {x}
  /\ UNCHANGED <<context, uses, document>>

\* Mutant of Marked: the parser does not keep its context in an attribute.
Marked_only == held \cup {context[c].by : c \in In("calling")}

\* The parsers of running methods are on the stack; a parser keeps @context.
Marked ==
  LET known == held \cup {context[c].by : c \in In("calling")}
  IN known \cup {uses[p] : p \in Parser \cap known}

\* Mutant of context_free: the document is freed with its context.
context_free_doc(C) ==
  {d \in Doc : (document[d] = "bound" /\ d \notin held) \/ \E c \in C : context[c].myDoc = d}

\* rxml_parser_context_free: xmlFreeParserCtxt leaves myDoc alone; the
\* documents freed are those of Document wrappers.
context_free(C) == {d \in Doc : document[d] = "bound" /\ d \notin held}

collect ==
  /\ Running
  /\ LET C == {c \in Context : context[c].phase # "free"} \ Marked
     IN /\ context' = [c \in Context |-> IF c \in C THEN NoContext ELSE context[c]]
        /\ document' = [d \in Doc |->
             IF d \in context_free(C) \/ (document[d] = "empty" /\ d \notin held)
             THEN IF d \in held THEN "empty" ELSE "free"
             ELSE document[d]]
  /\ uses' = [p \in Parser |-> IF p \in Marked THEN uses[p] ELSE NULL]
  /\ UNCHANGED held

-----------------------------------------------------------------------------
(* Usage rules, which the code does not enforce.                           *)

\* "once": a context is parsed once.
Once(c) == "once" \in Rules => ~context[c].read

\* "settled": the context of a parser is not replaced while it parses.
Settled(p) == "settled" \in Rules => \A c \in Context : context[c].by # p

Next ==
  \/ \E c \in Context : context_wrap(c) \/ html_context_wrap(c)
  \/ \E c \in Context, b \in BOOLEAN : \/ context_recovery_set(c, b) \/ context_options_set(c, b)
                                        \/ html_context_options_set(c, b)
  \/ \E p \in Parser, c \in Context : parser_initialize(p, c) \/ (Settled(p) /\ context_set(p, c))
  \/ \E p \in Parser : uses[p] # NULL /\ Once(uses[p]) /\ parse(p)
  \/ \E c \in Context, d \in Doc : startDocument(c, d)
  \/ \E c \in Context : call(c) \/ call_returns(c) \/ call_raises(c)
  \/ \E c \in Context : parse_succeeds(c) \/ parse_fails(c)
  \/ \E x \in held : drop(x)
  \/ collect

Spec == Init /\ [][Next]_vars

-----------------------------------------------------------------------------
(* Properties.                                                             *)

\* The variables are typed; a parser the program holds has a context that
\* exists, and a Document it holds has not gone from Ruby's heap.
ParsingTypeOK ==
  /\ context \in [Context -> ContextRecord]
  /\ uses \in [Parser -> Context \cup {NULL}]
  /\ document \in [Doc -> DocumentState]
  /\ held \subseteq Parser \cup Context \cup Doc
  /\ \A p \in Parser \cap held : uses[p] # NULL /\ context[uses[p]].phase # "free"
  /\ \A d \in Doc \cap held : document[d] \in {"bound", "empty"}

\* "When all handles to them go out of scope, then ruby_xfree gets called"
\* (ruby_xml_node.c:39), and not before: no parse and no collection frees a
\* document that the program holds (parse, xmlFreeParserCtxt).
HandlesKeepDocuments ==
  [][\A d \in Doc \cap held : document[d] = "bound" => document'[d] = "bound"]_vars

\* A document without a wrapper belongs to the parse that builds it.
Building(d) ==
  /\ document[d] = "tree"
  /\ \E c \in In("parsing") \cup In("calling") : context[c].started /\ context[c].myDoc = d

\* The parse will wrap it or free it, well-formed or not and whatever else
\* goes on: only an exception leaves a document behind without an owner.
NoDocumentLost ==
  [][\A d \in Doc : (Building(d) /\ document'[d] = "tree" /\ ~Building(d)')
                       => \E c \in Context : context[c].myDoc = d /\ call_raises(c)]_vars

\* A context lives as long as it is being parsed, although the parse method
\* has only its address and the program may have let go of everything.
ContextKept ==
  [][\A c \in In("calling") : context'[c].phase # "free"]_vars
=============================================================================
