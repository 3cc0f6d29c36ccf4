----------------------------- MODULE SaxParsing -----------------------------
(***************************************************************************)
(* XML::SaxParser, ruby_xml_sax_parser.c and ruby_xml_sax2_handler.c: a    *)
(* document is pushed into a parser in chunks, and each event libxml2 finds *)
(* in a chunk calls a method of the parser's callbacks object.             *)
(*                                                                         *)
(* A parser context owns its handler table, or so libxml2 believes: it     *)
(* frees ctxt->sax with the context.  The binding lends it the static      *)
(* rxml_sax_handler for each chunk and takes it back afterwards.           *)
(*                                                                         *)
(* While a callback runs the program does anything: it parses with this or *)
(* another parser, changes the callbacks, lets go of objects, runs the     *)
(* collector, or raises an exception, which ends the parse of the chunk.   *)
(* The collector alone may run while an error is reported, which makes a   *)
(* Ruby object before it looks for the callbacks.                          *)
(***************************************************************************)
CONSTANTS
  Parser,     \* slots for XML::SaxParser objects, each with its context
  Callbacks,  \* slots for callbacks objects
  NULL,       \* also Ruby's nil
  Rules       \* the usage rules, defined below, that the program keeps

ASSUME SaxRulesAreKnown == Rules \subseteq {"one_chunk"}

ASSUME SaxConstants == /\ Parser \cap Callbacks = {}
                       /\ NULL \notin Parser \cup Callbacks

VARIABLES
  parser,    \* the parsers and their contexts
  alive,     \* the callbacks objects that exist
  held,      \* the objects the program refers to
  released,  \* what the last step told libxml2 to free, and of which parser: its
             \* "own" table, the "static" one, a "doc", a "freed" one, "none"
  careless   \* history: the parsers whose callbacks have "raised", those that
             \* were parsed "on" after an error, and those whose callbacks were
             \* "replaced" in the chunk they parse

vars == <<parser, alive, held, released, careless>>

\* sax: ctxt->sax; doc: what ctxt->myDoc refers to.
ParserRecord ==
  [phase : {"free", "idle", "parsing", "calling", "reporting"}, sax : {"own", "static", "none"},
   callbacks : Callbacks \cup {NULL}, userData : Callbacks \cup {NULL},
   doc : {"none", "doc", "freed"}, wellFormed : BOOLEAN]

NoParser == [phase |-> "free", sax |-> "none", callbacks |-> NULL, userData |-> NULL,
             doc |-> "none", wellFormed |-> TRUE]

Nothing == [what |-> "none", of |-> NULL]

Init ==
  /\ parser = [p \in Parser |-> NoParser]
  /\ alive = {}
  /\ held = {}
  /\ released = Nothing
  /\ careless = [how \in {"raised", "on", "replaced"} |-> {}]

In(phase) == {p \in Parser : parser[p].phase = phase}

\* The program runs, outside of every parser or in a callback.
Running == In("parsing") \cup In("reporting") = {}

\* The collector may run: where the program does, and while an error of
\* libxml2 is made an object.
Collectable == In("parsing") = {}

-----------------------------------------------------------------------------
(* The program.                                                            *)

callbacks_new(k) ==
  /\ Running
  /\ k \notin alive
  /\ alive' = alive \cup {k}
  /\ held' = held \cup {k}
  /\ released' = Nothing
  /\ UNCHANGED <<parser, careless>>

\* SaxParser.new: xmlCreatePushParserCtxt copies the default handler.
sax_parser_initialize(p) ==
  /\ Running
  /\ parser[p].phase = "free"
  /\ parser' = [parser EXCEPT ![p] = [NoParser EXCEPT !.phase = "idle", !.sax = "own"]]
  /\ held' = held \cup {p}
  /\ released' = Nothing
  /\ careless' = [how \in DOMAIN careless |-> careless[how] \ {p}]
  /\ UNCHANGED alive

\* SaxParser#callbacks=
callbacks_set(p, k) ==
  /\ Running
  /\ p \in held /\ k \in held \cup {NULL}
  /\ parser' = [parser EXCEPT ![p].callbacks = k]
  /\ released' = Nothing
  /\ careless' = [careless EXCEPT !["replaced"] = IF parser[p].phase = "calling"
                                                   THEN @ \cup {p} ELSE @]
  /\ UNCHANGED <<alive, held>>

drop(x) ==
  /\ Running
  /\ x \in held
  /\ held' = held \ {x}
  /\ released' = Nothing
  /\ UNCHANGED <<parser, alive, careless>>

-----------------------------------------------------------------------------
(* Parsing a chunk.                                                        *)

\* Mutant of lend: the callbacks of the first chunk remain.
lend_once(p) ==
  [parser[p] EXCEPT !.phase = "parsing", !.sax = "static",
                    !.userData = IF @ = NULL THEN parser[p].callbacks ELSE @]

lend(p) ==
  [parser[p] EXCEPT !.phase = "parsing", !.sax = "static", !.userData = parser[p].callbacks]

\* SaxParser#parse(chunk): the context's own table is freed, once.
sax_parser_parse(p) ==
  /\ Running
  /\ p \in held
  /\ parser[p].phase \in {"idle", "calling"}
  /\ parser' = [parser EXCEPT ![p] = lend(p)]
  /\ released' = [what |-> parser[p].sax, of |-> p]
  /\ careless' = [careless EXCEPT !["on"] = IF parser[p].wellFormed THEN @ ELSE @ \cup {p}]
  /\ UNCHANGED <<alive, held>>

\* libxml2 makes a document of its own for an entity the chunk declares.
entityDecl(p) ==
  /\ parser[p].phase = "parsing" /\ parser[p].wellFormed
  /\ parser[p].doc = "none"
  /\ parser' = [parser EXCEPT ![p].doc = "doc"]
  /\ released' = Nothing
  /\ UNCHANGED <<alive, held, careless>>

\* The next event in the chunk, which may have any number of them: rb_funcall
\* unless the callbacks are nil.
event_callback(p) ==
  /\ parser[p].phase = "parsing" /\ parser[p].wellFormed
  /\ parser' = [parser EXCEPT ![p].phase = IF parser[p].userData = NULL THEN @ ELSE "calling"]
  /\ released' = Nothing
  /\ UNCHANGED <<alive, held, careless>>

callback_returns(p) ==
  /\ Running
  /\ parser[p].phase = "calling"
  /\ parser' = [parser EXCEPT ![p].phase = "parsing"]
  /\ released' = Nothing
  /\ UNCHANGED <<alive, held, careless>>

\* The exception passes through libxml2: ctxt->sax is not taken back.
callback_raises(p) ==
  /\ Running
  /\ parser[p].phase = "calling"
  /\ parser' = [parser EXCEPT ![p].phase = "idle"]
  /\ released' = Nothing
  /\ careless' = [careless EXCEPT !["raised"] = @ \cup {p}, !["replaced"] = @ \ {p}]
  /\ UNCHANGED <<alive, held>>

\* Mutant of take_back: without ctxt->sax = NULL.
take_back_not(p) == [parser[p] EXCEPT !.phase = "idle"]

take_back(p) == [parser[p] EXCEPT !.phase = "idle", !.sax = "none"]

\* History: the chunk is over.
chunk_ends(p) == careless' = [careless EXCEPT !["replaced"] = @ \ {p}]

\* The chunk is not well-formed: structuredErrorFunc makes an XML::Error of
\* it, which allocates.
error_wrap(p) ==
  /\ parser[p].phase = "parsing" /\ parser[p].wellFormed
  /\ parser' = [parser EXCEPT ![p].wellFormed = FALSE, ![p].phase = "reporting"]
  /\ released' = Nothing
  /\ UNCHANGED <<alive, held, careless>>

\* It then looks for the callbacks in ctxt->userData, and calls their on_error
\* and the handler of XML::Error, if there is one.  An object that is gone may
\* or may not answer rb_respond_to.
error_callback(p, handler, answers) ==
  /\ parser[p].phase = "reporting"
  /\ parser[p].userData \in alive => answers
  /\ parser[p].userData = NULL => ~answers
  /\ parser' = [parser EXCEPT ![p].phase = IF answers \/ handler THEN "calling" ELSE "parsing"]
  /\ released' = Nothing
  /\ UNCHANGED <<alive, held, careless>>

\* Mutant of parse_succeeds: libxml2's own document is freed each time.
parse_succeeds_freeing(p) ==
  /\ parser[p].phase = "parsing" /\ parser[p].wellFormed
  /\ parser' = [parser EXCEPT ![p] = [take_back(p) EXCEPT !.doc = IF @ = "none" THEN @ ELSE "freed"]]
  /\ released' = [what |-> parser[p].doc, of |-> p]
  /\ chunk_ends(p)
  /\ UNCHANGED <<alive, held>>

\* xmlParseChunk returns.  It is never told that the document ends.
parse_succeeds(p) ==
  /\ parser[p].phase = "parsing" /\ parser[p].wellFormed
  /\ parser' = [parser EXCEPT ![p] = take_back(p)]
  /\ released' = Nothing
  /\ chunk_ends(p)
  /\ UNCHANGED <<alive, held>>

\* There was an error in this chunk or an earlier one: xmlFreeDoc, and raise.
parse_fails(p) ==
  /\ parser[p].phase = "parsing" /\ ~parser[p].wellFormed
  /\ parser' = [parser EXCEPT ![p] = [take_back(p) EXCEPT !.doc = IF @ = "none" THEN @ ELSE "freed"]]
  /\ released' = [what |-> parser[p].doc, of |-> p]
  /\ chunk_ends(p)
  /\ UNCHANGED <<alive, held>>

-----------------------------------------------------------------------------
(* Garbage collection.                                                     *)

\* Mutant of Marked: the callbacks are kept in no attribute.
Marked_only ==
  held \cup In("calling") \cup In("reporting") \cup {parser[p].userData : p \in In("calling")}

\* What running methods refer to: parsers whose parse runs, and the object
\* whose callback runs; a parser keeps its callbacks.
Marked ==
  LET known == held \cup In("calling") \cup In("reporting")
               \cup {parser[p].userData : p \in In("calling")}
  IN known \cup {parser[p].callbacks : p \in Parser \cap known}

\* One finalizer runs: xmlFreeParserCtxt frees ctxt->sax.
context_free(p) ==
  /\ Collectable
  /\ parser[p].phase # "free" /\ p \notin Marked
  /\ parser' = [parser EXCEPT ![p] = NoParser]
  /\ released' = [what |-> parser[p].sax, of |-> p]
  /\ UNCHANGED <<alive, held, careless>>

callbacks_free(k) ==
  /\ Collectable
  /\ k \in alive \ Marked
  /\ alive' = alive \ {k}
  /\ released' = Nothing
  /\ UNCHANGED <<parser, held, careless>>

-----------------------------------------------------------------------------
(* Usage rules, which the code does not enforce.                           *)

\* "one_chunk": a callback does not parse with the parser that calls it.
OneChunk(p) == "one_chunk" \in Rules => parser[p].phase # "calling"

Next ==
  \/ \E k \in Callbacks : callbacks_new(k) \/ callbacks_free(k)
  \/ \E p \in Parser : sax_parser_initialize(p)
  \/ \E p \in Parser, k \in Callbacks \cup {NULL} : callbacks_set(p, k)
  \/ \E x \in held : drop(x)
  \/ \E p \in Parser : OneChunk(p) /\ sax_parser_parse(p)
  \/ \E p \in Parser : entityDecl(p) \/ event_callback(p) \/ error_wrap(p)
  \/ \E p \in Parser, handler, answers \in BOOLEAN : error_callback(p, handler, answers)
  \/ \E p \in Parser : callback_returns(p) \/ callback_raises(p)
  \/ \E p \in Parser : parse_succeeds(p) \/ parse_fails(p)
  \/ \E p \in Parser : context_free(p)

Spec == Init /\ [][Next]_vars

-----------------------------------------------------------------------------
(* Properties.                                                             *)

\* The variables are typed; what the program holds exists, and so do the
\* callbacks of the parsers it holds.
SaxTypeOK ==
  /\ parser \in [Parser -> ParserRecord]
  /\ alive \subseteq Callbacks
  /\ held \subseteq alive \cup {p \in Parser : parser[p].phase # "free"}
  /\ \A p \in Parser \cap held : parser[p].callbacks \in alive \cup {NULL}
  /\ released \in [what : {"none", "own", "static", "doc", "freed"}, of : Parser \cup {NULL}]
  /\ careless \in [{"raised", "on", "replaced"} -> SUBSET Parser]

\* The binding lends the static handler table and nothing but an exception
\* keeps it from taking it back: neither the next chunk nor the end of a
\* context frees the table of a parser whose callbacks have all returned.
HandlerNotFreed == released.what = "static" => released.of \in careless["raised"]

\* "IMPORTANT - null the handle to our sax handler so libxml doesn't try to
\* free it" (ruby_xml_sax_parser.c:106): the static table is never freed.
StaticNeverFreed == released.what # "static"

\* A document libxml2 made for entities is freed at most once, in whatever
\* chunk the error is, unless the program parses on after it.
DocumentFreedOnce == released.what = "freed" => released.of \in careless["on"]

\* The events and the errors of a chunk go to a callbacks object that exists,
\* although the collector runs in every callback and once more before an error
\* is delivered, unless a callback has replaced it in the same chunk.
CallbacksAlive ==
  \A p \in In("parsing") \cup In("reporting") :
    parser[p].userData \in alive \cup {NULL} \/ p \in careless["replaced"]
=============================================================================
