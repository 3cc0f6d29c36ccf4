------------------------- MODULE SaxParsing_proofs -------------------------
(***************************************************************************)
(* Proofs about SaxParsing, for any numbers of parsers and callbacks       *)
(* objects and documents of any number of events: events and errors go to  *)
(* objects that exist unless a callback replaces them, a document is freed *)
(* once, and, if no callback parses with the parser that calls it, the     *)
(* handler table is not freed by a parser whose callbacks have all         *)
(* returned.                                                               *)
(***************************************************************************)
EXTENDS SaxParsing, TLAPS

Active == {"parsing", "calling", "reporting"}

\* A parser whose parse method has not returned.
Busy(p) == parser[p].phase \in Active

\* The object a running parse calls is the parser's and exists, unless it was
\* replaced in this chunk.
UserDataAlive ==
  \A p \in Parser : Busy(p) =>
    \/ parser[p].userData = parser[p].callbacks /\ parser[p].userData \in alive \cup {NULL}
    \/ p \in careless["replaced"]

TypeInv == SaxTypeOK /\ UserDataAlive

\* A document that has been freed was ill-formed, and what is parsed after
\* it is parsed on after an error.
FreedKnown ==
  \A p \in Parser : parser[p].doc = "freed" =>
    /\ ~parser[p].wellFormed
    /\ Busy(p) => p \in careless["on"]

\* The static table is in a context while it parses, or an exception has
\* left it there.
LentKnown ==
  \A p \in Parser : parser[p].sax = "static" => Busy(p) \/ p \in careless["raised"]

-----------------------------------------------------------------------------
(* Types, and the callbacks.                                               *)

\* Of the parsers only p changes, and none of the callbacks objects: enough
\* for the types if p does not take up callbacks that are gone.
LEMMA ParserStepTyped ==
  ASSUME TypeInv, NEW p \in Parser, parser[p].phase # "free",
         NEW g \in ParserRecord, g.phase # "free",
         parser' = [parser EXCEPT ![p] = g],
         g.callbacks = parser[p].callbacks,
         g.phase \in Active =>
           \/ g.userData = g.callbacks /\ g.userData \in alive \cup {NULL}
           \/ p \in careless'["replaced"],
         released' \in [what : {"none", "own", "static", "doc", "freed"}, of : Parser \cup {NULL}],
         careless' \in [{"raised", "on", "replaced"} -> SUBSET Parser],
         \A q \in Parser \ {p} : q \in careless["replaced"] => q \in careless'["replaced"],
         UNCHANGED <<alive, held>>
  PROVE  TypeInv'
<1>1. \A q \in Parser : parser'[q] = IF q = p THEN g ELSE parser[q]
  BY DEF TypeInv, SaxTypeOK
<1>2. SaxTypeOK'
  BY <1>1 DEF TypeInv, SaxTypeOK
<1>3. UserDataAlive'
  BY <1>1 DEF TypeInv, UserDataAlive, Busy
<1> QED BY <1>2, <1>3 DEF TypeInv

\* What the program does keeps the types.
LEMMA ProgramKeepsTypes ==
  ASSUME TypeInv
  PROVE  /\ \A k \in Callbacks : callbacks_new(k) => TypeInv'
         /\ \A p \in Parser : sax_parser_initialize(p) => TypeInv'
         /\ \A p \in Parser, k \in Callbacks \cup {NULL} : callbacks_set(p, k) => TypeInv'
         /\ \A x \in held : drop(x) => TypeInv'
<1>1. ASSUME NEW k \in Callbacks, callbacks_new(k) PROVE TypeInv'
  <2>1. /\ parser' = parser /\ careless' = careless /\ released' = Nothing
        /\ alive' = alive \cup {k} /\ held' = held \cup {k}
    BY <1>1 DEF callbacks_new
  <2>2. UserDataAlive'
    BY <2>1 DEF TypeInv, UserDataAlive, Busy
  <2>3. /\ held' \subseteq alive' \cup {p \in Parser : parser'[p].phase # "free"}
        /\ \A p \in Parser \cap held' : parser'[p].callbacks \in alive' \cup {NULL}
    BY <2>1, SaxConstants DEF TypeInv, SaxTypeOK
  <2> QED BY <2>1, <2>2, <2>3 DEF TypeInv, SaxTypeOK, Nothing
<1>2. ASSUME NEW p \in Parser, sax_parser_initialize(p)
      PROVE  TypeInv'
  <2> DEFINE g == [NoParser EXCEPT !.phase = "idle", !.sax = "own"]
  <2>1. g \in ParserRecord /\ g.phase = "idle" /\ g.callbacks = NULL
    <3>1. NoParser \in ParserRecord /\ NoParser.callbacks = NULL
      BY SaxConstants DEF NoParser, ParserRecord
    <3> QED BY <3>1 DEF ParserRecord
  <2>2. parser' = [parser EXCEPT ![p] = g] /\ held' = held \cup {p} /\ alive' = alive
    BY <1>2 DEF sax_parser_initialize
  <2> HIDE DEF g
  <2>3. \A q \in Parser : parser'[q] = IF q = p THEN g ELSE parser[q]
    BY <2>2 DEF TypeInv, SaxTypeOK
  <2>4. parser' \in [Parser -> ParserRecord]
    BY <2>1, <2>2 DEF TypeInv, SaxTypeOK
  <2>5. careless' \in [{"raised", "on", "replaced"} -> SUBSET Parser]
    BY <1>2 DEF sax_parser_initialize, TypeInv, SaxTypeOK
  <2>6. held' \subseteq alive' \cup {q \in Parser : parser'[q].phase # "free"}
    BY <2>1, <2>2, <2>3 DEF TypeInv, SaxTypeOK
  <2>7. \A q \in Parser \cap held' : parser'[q].callbacks \in alive' \cup {NULL}
    BY <2>1, <2>2, <2>3 DEF TypeInv, SaxTypeOK
  <2>8. UserDataAlive'
    <3>1. \A q \in Parser \ {p} : q \in careless["replaced"] => q \in careless'["replaced"]
      BY <1>2 DEF sax_parser_initialize, TypeInv, SaxTypeOK
    <3> QED BY <2>1, <2>2, <2>3, <3>1 DEF TypeInv, UserDataAlive, Busy, Active
  <2> QED BY <1>2, <2>2, <2>4, <2>5, <2>6, <2>7, <2>8
          DEF sax_parser_initialize, TypeInv, SaxTypeOK, Nothing
<1>3. ASSUME NEW p \in Parser, NEW k \in Callbacks \cup {NULL}, callbacks_set(p, k)
      PROVE  TypeInv'
  <2> DEFINE g == [parser[p] EXCEPT !.callbacks = k]
  <2>1. /\ g \in ParserRecord /\ g.phase = parser[p].phase /\ g.callbacks = k
        /\ g.userData = parser[p].userData
    BY DEF TypeInv, SaxTypeOK, ParserRecord
  <2>2. parser' = [parser EXCEPT ![p] = g] /\ UNCHANGED <<alive, held>>
    BY <1>3 DEF callbacks_set
  <2> HIDE DEF g
  <2>3. \A q \in Parser : parser'[q] = IF q = p THEN g ELSE parser[q]
    BY <2>2 DEF TypeInv, SaxTypeOK
  <2>4. k \in alive \cup {NULL}
    BY <1>3, SaxConstants DEF callbacks_set, TypeInv, SaxTypeOK
  <2>5. /\ careless' \in [{"raised", "on", "replaced"} -> SUBSET Parser]
        /\ \A q \in Parser : q \in careless["replaced"] => q \in careless'["replaced"]
        /\ parser[p].phase = "calling" => p \in careless'["replaced"]
    BY <1>3 DEF callbacks_set, TypeInv, SaxTypeOK
  <2>6. Busy(p) => parser[p].phase = "calling"
    BY <1>3 DEF callbacks_set, Running, In, Busy, Active
  <2>7. UserDataAlive'
    BY <2>1, <2>2, <2>3, <2>5, <2>6 DEF TypeInv, UserDataAlive, Busy
  <2> QED BY <1>3, <2>1, <2>2, <2>3, <2>4, <2>5, <2>7 DEF callbacks_set, TypeInv, SaxTypeOK, Nothing
<1>4. ASSUME NEW x \in held, drop(x) PROVE TypeInv'
  BY <1>4 DEF drop, TypeInv, SaxTypeOK, UserDataAlive, Busy, Nothing
<1> QED BY <1>1, <1>2, <1>3, <1>4
\* What a parse does keeps the types.
LEMMA ParseKeepsTypes ==
  ASSUME TypeInv, NEW p \in Parser
  PROVE  /\ sax_parser_parse(p) => TypeInv'
         /\ entityDecl(p) => TypeInv'
         /\ event_callback(p) => TypeInv'
         /\ error_wrap(p) => TypeInv'
         /\ \A handler, answers \in BOOLEAN : error_callback(p, handler, answers) => TypeInv'
         /\ callback_returns(p) => TypeInv'
         /\ callback_raises(p) => TypeInv'
         /\ parse_succeeds(p) => TypeInv'
         /\ parse_fails(p) => TypeInv'
<1>1. /\ parser \in [Parser -> ParserRecord] /\ parser[p] \in ParserRecord
      /\ careless \in [{"raised", "on", "replaced"} -> SUBSET Parser]
      /\ parser[p].phase \in Active =>
           \/ parser[p].userData = parser[p].callbacks /\ parser[p].userData \in alive \cup {NULL}
           \/ p \in careless["replaced"]
      /\ p \in held => parser[p].callbacks \in alive \cup {NULL}
  BY DEF TypeInv, SaxTypeOK, UserDataAlive, Busy
<1>2. Nothing \in [what : {"none", "own", "static", "doc", "freed"}, of : Parser \cup {NULL}]
  BY DEF Nothing
<1>3. ASSUME sax_parser_parse(p) PROVE TypeInv'
  <2>1. /\ lend(p) \in ParserRecord /\ lend(p).phase = "parsing"
        /\ lend(p).callbacks = parser[p].callbacks /\ lend(p).userData = parser[p].callbacks
    BY <1>1 DEF lend, ParserRecord
  <2>2. released' \in [what : {"none", "own", "static", "doc", "freed"}, of : Parser \cup {NULL}]
    BY <1>1, <1>3 DEF sax_parser_parse, ParserRecord
  <2>3. /\ careless' \in [{"raised", "on", "replaced"} -> SUBSET Parser]
        /\ careless'["replaced"] = careless["replaced"]
    BY <1>1, <1>3 DEF sax_parser_parse
  <2> QED BY <1>1, <1>3, <2>1, <2>2, <2>3, ParserStepTyped DEF sax_parser_parse, Active
<1>4. ASSUME entityDecl(p) PROVE TypeInv'
  <2> DEFINE g == [parser[p] EXCEPT !.doc = "doc"]
  <2>1. /\ g \in ParserRecord /\ g.phase = parser[p].phase /\ g.callbacks = parser[p].callbacks
        /\ g.userData = parser[p].userData
    BY <1>1 DEF ParserRecord
  <2>2. /\ parser' = [parser EXCEPT ![p] = g] /\ released' = Nothing /\ UNCHANGED <<alive, held, careless>>
        /\ parser[p].phase = "parsing"
    BY <1>4 DEF entityDecl
  <2> HIDE DEF g
  <2> QED BY <1>1, <1>2, <1>4, <2>1, <2>2, ParserStepTyped DEF Active
<1>5. ASSUME event_callback(p) PROVE TypeInv'
  <2> DEFINE g == [parser[p] EXCEPT !.phase = IF parser[p].userData = NULL THEN @ ELSE "calling"]
  <2>2. /\ g \in ParserRecord /\ g.callbacks = parser[p].callbacks
        /\ g.phase \in {"parsing", "calling"} /\ g.userData = parser[p].userData
    BY <1>1, <1>5 DEF event_callback, ParserRecord
  <2>3. /\ parser' = [parser EXCEPT ![p] = g] /\ released' = Nothing /\ UNCHANGED <<alive, held, careless>>
        /\ parser[p].phase = "parsing"
    BY <1>5 DEF event_callback
  <2> HIDE DEF g
  <2> QED BY <1>1, <1>2, <1>5, <2>2, <2>3, ParserStepTyped DEF Active
<1>6. ASSUME NEW handler \in BOOLEAN, NEW answers \in BOOLEAN, error_callback(p, handler, answers)
      PROVE  TypeInv'
  <2> DEFINE g == [parser[p] EXCEPT !.phase = IF answers \/ handler THEN "calling" ELSE "parsing"]
  <2>1. /\ g \in ParserRecord /\ g.callbacks = parser[p].callbacks
        /\ g.phase \in {"parsing", "calling"} /\ g.userData = parser[p].userData
    BY <1>1 DEF ParserRecord
  <2>2. /\ parser' = [parser EXCEPT ![p] = g] /\ released' = Nothing /\ UNCHANGED <<alive, held, careless>>
        /\ parser[p].phase = "reporting"
    BY <1>6 DEF error_callback
  <2> HIDE DEF g
  <2> QED BY <1>1, <1>2, <1>6, <2>1, <2>2, ParserStepTyped DEF Active
<1>11. ASSUME error_wrap(p) PROVE TypeInv'
  <2> DEFINE g == [parser[p] EXCEPT !.wellFormed = FALSE, !.phase = "reporting"]
  <2>1. /\ g \in ParserRecord /\ g.callbacks = parser[p].callbacks
        /\ g.phase = "reporting" /\ g.userData = parser[p].userData
    BY <1>1 DEF ParserRecord
  <2>2. /\ parser' = [parser EXCEPT ![p] = g] /\ released' = Nothing /\ UNCHANGED <<alive, held, careless>>
        /\ parser[p].phase = "parsing"
    BY <1>11 DEF error_wrap
  <2> HIDE DEF g
  <2> QED BY <1>1, <1>2, <1>11, <2>1, <2>2, ParserStepTyped DEF Active
<1>7. ASSUME callback_returns(p) PROVE TypeInv'
  <2> DEFINE g == [parser[p] EXCEPT !.phase = "parsing"]
  <2>1. /\ g \in ParserRecord /\ g.phase = "parsing" /\ g.callbacks = parser[p].callbacks
        /\ g.userData = parser[p].userData
    BY <1>1 DEF ParserRecord
  <2>2. /\ parser' = [parser EXCEPT ![p] = g] /\ released' = Nothing /\ UNCHANGED <<alive, held, careless>>
        /\ parser[p].phase = "calling"
    BY <1>7 DEF callback_returns
  <2> HIDE DEF g
  <2> QED BY <1>1, <1>2, <1>7, <2>1, <2>2, ParserStepTyped DEF Active
<1>8. ASSUME callback_raises(p) PROVE TypeInv'
  <2> DEFINE g == [parser[p] EXCEPT !.phase = "idle"]
  <2>1. g \in ParserRecord /\ g.phase = "idle" /\ g.callbacks = parser[p].callbacks
    BY <1>1 DEF ParserRecord
  <2>2. /\ parser' = [parser EXCEPT ![p] = g] /\ released' = Nothing /\ UNCHANGED <<alive, held>>
        /\ parser[p].phase = "calling"
    BY <1>8 DEF callback_raises
  <2>3. /\ careless' \in [{"raised", "on", "replaced"} -> SUBSET Parser]
        /\ \A q \in Parser \ {p} : q \in careless["replaced"] => q \in careless'["replaced"]
    BY <1>1, <1>8 DEF callback_raises
  <2> HIDE DEF g
  <2> QED BY <1>1, <1>2, <1>8, <2>1, <2>2, <2>3, ParserStepTyped DEF Active
<1>9. ASSUME parse_succeeds(p) PROVE TypeInv'
  <2>1. take_back(p) \in ParserRecord /\ take_back(p).phase = "idle"
        /\ take_back(p).callbacks = parser[p].callbacks
    BY <1>1 DEF take_back, ParserRecord
  <2>2. /\ careless' \in [{"raised", "on", "replaced"} -> SUBSET Parser]
        /\ \A q \in Parser \ {p} : q \in careless["replaced"] => q \in careless'["replaced"]
    BY <1>1, <1>9 DEF parse_succeeds, chunk_ends
  <2> QED BY <1>1, <1>2, <1>9, <2>1, <2>2, ParserStepTyped DEF parse_succeeds, Active
<1>10. ASSUME parse_fails(p) PROVE TypeInv'
  <2> DEFINE g == [take_back(p) EXCEPT !.doc = IF @ = "none" THEN @ ELSE "freed"]
  <2>1. g \in ParserRecord /\ g.phase = "idle" /\ g.callbacks = parser[p].callbacks
    BY <1>1 DEF take_back, ParserRecord
  <2>2. /\ parser' = [parser EXCEPT ![p] = g] /\ UNCHANGED <<alive, held>>
        /\ parser[p].phase = "parsing"
    BY <1>10 DEF parse_fails
  <2>3. released' \in [what : {"none", "own", "static", "doc", "freed"}, of : Parser \cup {NULL}]
    BY <1>1, <1>10 DEF parse_fails, ParserRecord
  <2>4. /\ careless' \in [{"raised", "on", "replaced"} -> SUBSET Parser]
        /\ \A q \in Parser \ {p} : q \in careless["replaced"] => q \in careless'["replaced"]
    BY <1>1, <1>10 DEF parse_fails, chunk_ends
  <2> HIDE DEF g
  <2> QED BY <1>1, <1>10, <2>1, <2>2, <2>3, <2>4, ParserStepTyped DEF Active
<1> QED BY <1>3, <1>4, <1>5, <1>6, <1>7, <1>8, <1>9, <1>10, <1>11
\* The collector keeps the types: the callbacks of a parser in use are marked.
LEMMA CollectorKeepsTypes ==
  ASSUME TypeInv
  PROVE  /\ \A k \in Callbacks : callbacks_free(k) => TypeInv'
         /\ \A p \in Parser : context_free(p) => TypeInv'
<1>1. ASSUME NEW k \in Callbacks, callbacks_free(k) PROVE TypeInv'
  <2>1. /\ parser' = parser /\ held' = held /\ careless' = careless /\ released' = Nothing
        /\ alive' = alive \ {k} /\ k \notin held /\ In("parsing") = {}
    BY <1>1 DEF callbacks_free, Collectable, Marked
  <2>2. ASSUME NEW p \in Parser \cap held PROVE parser[p].callbacks # k
    BY <1>1 DEF callbacks_free, Marked
  <2>3. ASSUME NEW p \in Parser, Busy(p) PROVE parser[p].callbacks # k
    <3>1. p \in In("calling") \cup In("reporting")
      BY <2>1, <2>3 DEF Busy, Active, In
    <3> QED BY <1>1, <3>1 DEF callbacks_free, Marked
  <2>4. UserDataAlive'
    BY <2>1, <2>3 DEF TypeInv, UserDataAlive, Busy
  <2>5. held' \subseteq alive' \cup {p \in Parser : parser'[p].phase # "free"}
    BY <2>1 DEF TypeInv, SaxTypeOK
  <2>6. \A p \in Parser \cap held' : parser'[p].callbacks \in alive' \cup {NULL}
    BY <2>1, <2>2 DEF TypeInv, SaxTypeOK
  <2> QED BY <2>1, <2>4, <2>5, <2>6 DEF TypeInv, SaxTypeOK, Nothing
<1>2. ASSUME NEW p \in Parser, context_free(p) PROVE TypeInv'
  <2>1. /\ parser' = [parser EXCEPT ![p] = NoParser] /\ UNCHANGED <<alive, held, careless>>
        /\ p \notin held /\ released' = [what |-> parser[p].sax, of |-> p]
    BY <1>2 DEF context_free, Marked
  <2>2. /\ NoParser \in ParserRecord /\ NoParser.phase = "free"
        /\ parser \in [Parser -> ParserRecord] /\ parser[p].sax \in {"own", "static", "none"}
    BY SaxConstants DEF NoParser, ParserRecord, TypeInv, SaxTypeOK
  <2>3. \A q \in Parser : parser'[q] = IF q = p THEN NoParser ELSE parser[q]
    BY <2>1, <2>2
  <2>4. UserDataAlive'
    BY <2>1, <2>2, <2>3 DEF TypeInv, UserDataAlive, Busy, Active
  <2>5. /\ held' \subseteq alive' \cup {q \in Parser : parser'[q].phase # "free"}
        /\ \A q \in Parser \cap held' : parser'[q].callbacks \in alive' \cup {NULL}
    BY <2>1, <2>3, SaxConstants DEF TypeInv, SaxTypeOK
  <2>6. parser' \in [Parser -> ParserRecord]
    BY <2>1, <2>2
  <2> QED BY <2>1, <2>2, <2>4, <2>5, <2>6 DEF TypeInv, SaxTypeOK
<1> QED BY <1>1, <1>2

LEMMA NextKeepsTypes == TypeInv /\ [Next]_vars => TypeInv'
<1> SUFFICES ASSUME TypeInv, [Next]_vars PROVE TypeInv'
  OBVIOUS
<1>1. CASE UNCHANGED vars
  BY <1>1 DEF vars, TypeInv, SaxTypeOK, UserDataAlive, Busy
<1>2. CASE Next
  BY <1>2, ProgramKeepsTypes, ParseKeepsTypes, CollectorKeepsTypes DEF Next
<1> QED BY <1>1, <1>2

LEMMA InitTyped == Init => TypeInv
<1> SUFFICES ASSUME Init PROVE TypeInv
  OBVIOUS
<1>1. NoParser \in ParserRecord /\ NoParser.phase = "free"
  BY SaxConstants DEF NoParser, ParserRecord
<1> QED BY <1>1 DEF Init, TypeInv, SaxTypeOK, UserDataAlive, Busy, Active, Nothing

\* The variables are typed; what the program holds exists, and so do the
\* callbacks of the parsers it holds, whatever it does.
THEOREM SaxTyped == Spec => []SaxTypeOK
<1>1. TypeInv => SaxTypeOK
  BY DEF TypeInv
<1> QED BY <1>1, InitTyped, NextKeepsTypes, PTL DEF Spec

\* The events and errors of a chunk go to a callbacks object that exists,
\* although the program may let go of it and the collector may run in every
\* callback and before each error, unless a callback of that chunk replaced it.
THEOREM CallbacksStay == Spec => []CallbacksAlive
<1>1. TypeInv => CallbacksAlive
  BY DEF TypeInv, UserDataAlive, Busy, Active, CallbacksAlive, In
<1> QED BY <1>1, InitTyped, NextKeepsTypes, PTL DEF Spec

-----------------------------------------------------------------------------
(* What is freed.                                                          *)

\* A step that leaves the parsers and the history as they are frees nothing
\* and keeps what is known.
LEMMA QuietKeepsKnown ==
  ASSUME FreedKnown, LentKnown, UNCHANGED <<parser, careless>>
  PROVE  FreedKnown' /\ LentKnown'
BY DEF FreedKnown, LentKnown, Busy

\* Of the parsers only p changes, and it is not forgotten how it was used:
\* what remains to be shown is about p.
LEMMA ParserStepKnown ==
  ASSUME SaxTypeOK, FreedKnown, LentKnown, NEW p \in Parser, NEW g,
         parser' = [parser EXCEPT ![p] = g],
         \A q \in Parser \ {p} : /\ q \in careless["on"] => q \in careless'["on"]
                                 /\ q \in careless["raised"] => q \in careless'["raised"],
         g.doc = "freed" => /\ ~g.wellFormed
                            /\ g.phase \in Active => p \in careless'["on"],
         g.sax = "static" => g.phase \in Active \/ p \in careless'["raised"]
  PROVE  FreedKnown' /\ LentKnown'
<1>1. \A q \in Parser : parser'[q] = IF q = p THEN g ELSE parser[q]
  BY DEF SaxTypeOK
<1>2. FreedKnown'
  BY <1>1 DEF FreedKnown, Busy
<1>3. LentKnown'
  BY <1>1 DEF LentKnown, Busy
<1> QED BY <1>2, <1>3
\* The program's own steps, and the collector's.
LEMMA ProgramKeepsKnown ==
  ASSUME TypeInv, FreedKnown, LentKnown
  PROVE  /\ \A p \in Parser :
              sax_parser_initialize(p) => FreedKnown' /\ LentKnown'
         /\ \A p \in Parser, k \in Callbacks \cup {NULL} :
              callbacks_set(p, k) => FreedKnown' /\ LentKnown'
         /\ \A p \in Parser : context_free(p) => FreedKnown' /\ LentKnown'
<1>1. ASSUME NEW p \in Parser, sax_parser_initialize(p)
      PROVE  FreedKnown' /\ LentKnown'
  <2> DEFINE g == [NoParser EXCEPT !.phase = "idle", !.sax = "own"]
  <2>1. g.doc = "none" /\ g.sax = "own"
    BY DEF NoParser
  <2>2. /\ parser' = [parser EXCEPT ![p] = g]
        /\ \A q \in Parser \ {p} : /\ q \in careless["on"] => q \in careless'["on"]
                                   /\ q \in careless["raised"] => q \in careless'["raised"]
    BY <1>1 DEF sax_parser_initialize, TypeInv, SaxTypeOK
  <2> HIDE DEF g
  <2> QED BY <2>1, <2>2, ParserStepKnown DEF TypeInv
<1>2. ASSUME NEW p \in Parser, NEW k \in Callbacks \cup {NULL}, callbacks_set(p, k)
      PROVE  FreedKnown' /\ LentKnown'
  <2> DEFINE g == [parser[p] EXCEPT !.callbacks = k]
  <2>1. /\ g.doc = parser[p].doc /\ g.sax = parser[p].sax /\ g.phase = parser[p].phase
        /\ g.wellFormed = parser[p].wellFormed
    BY DEF TypeInv, SaxTypeOK, ParserRecord
  <2>2. /\ parser' = [parser EXCEPT ![p] = g]
        /\ careless'["on"] = careless["on"] /\ careless'["raised"] = careless["raised"]
    BY <1>2 DEF callbacks_set, TypeInv, SaxTypeOK
  <2> HIDE DEF g
  <2> QED BY <2>1, <2>2, ParserStepKnown DEF TypeInv, FreedKnown, LentKnown, Busy
<1>3. ASSUME NEW p \in Parser, context_free(p)
      PROVE  FreedKnown' /\ LentKnown'
  BY <1>3, ParserStepKnown DEF context_free, NoParser, Active, TypeInv
<1> QED BY <1>1, <1>2, <1>3

\* The steps of a parse.
LEMMA ParseKeepsKnown ==
  ASSUME TypeInv, FreedKnown, LentKnown, NEW p \in Parser,
         \/ sax_parser_parse(p) \/ entityDecl(p) \/ event_callback(p)
         \/ error_wrap(p)
         \/ \E handler, answers \in BOOLEAN : error_callback(p, handler, answers)
         \/ callback_returns(p) \/ callback_raises(p) \/ parse_succeeds(p) \/ parse_fails(p)
  PROVE  FreedKnown' /\ LentKnown'
<1> DEFINE Same(g) == g.doc = parser[p].doc /\ g.sax = parser[p].sax
<1>1. SaxTypeOK /\ parser[p] \in ParserRecord
  BY DEF TypeInv, SaxTypeOK
<1>2. /\ parser[p].doc = "freed" => /\ ~parser[p].wellFormed
                                    /\ Busy(p) => p \in careless["on"]
      /\ parser[p].sax = "static" => Busy(p) \/ p \in careless["raised"]
  BY DEF FreedKnown, LentKnown
<1>3. CASE sax_parser_parse(p)
  <2>1. /\ lend(p).doc = parser[p].doc /\ lend(p).wellFormed = parser[p].wellFormed
        /\ lend(p).phase = "parsing" /\ parser' = [parser EXCEPT ![p] = lend(p)]
    BY <1>1, <1>3 DEF lend, ParserRecord, sax_parser_parse
  <2>2. /\ careless'["raised"] = careless["raised"]
        /\ careless'["on"] = IF parser[p].wellFormed THEN careless["on"]
                                                     ELSE careless["on"] \cup {p}
    BY <1>1, <1>3 DEF SaxTypeOK, sax_parser_parse
  <2> QED BY <1>1, <1>2, <2>1, <2>2, ParserStepKnown DEF Active
<1>4. CASE entityDecl(p)
  <2> DEFINE g == [parser[p] EXCEPT !.doc = "doc"]
  <2>1. g.doc = "doc" /\ g.sax = parser[p].sax /\ g.phase = parser[p].phase
    BY <1>1 DEF ParserRecord
  <2>2. parser' = [parser EXCEPT ![p] = g] /\ careless' = careless
    BY <1>4 DEF entityDecl
  <2> HIDE DEF g
  <2> QED BY <1>1, <1>2, <2>1, <2>2, ParserStepKnown DEF Busy, Active
<1>5. CASE event_callback(p)
  <2> DEFINE g == [parser[p] EXCEPT !.phase = IF parser[p].userData = NULL THEN @ ELSE "calling"]
  <2>1. /\ Same(g) /\ g.phase \in {"parsing", "calling"}
        /\ g.wellFormed = parser[p].wellFormed
    BY <1>1, <1>5 DEF ParserRecord, event_callback
  <2>2. parser' = [parser EXCEPT ![p] = g] /\ careless' = careless /\ parser[p].phase = "parsing"
    BY <1>5 DEF event_callback
  <2> HIDE DEF g
  <2> QED BY <1>1, <1>2, <2>1, <2>2, ParserStepKnown DEF Busy, Active
<1>6. CASE \E handler, answers \in BOOLEAN : error_callback(p, handler, answers)
  <2>1. PICK handler \in BOOLEAN, answers \in BOOLEAN : error_callback(p, handler, answers)
    BY <1>6
  <2> DEFINE g == [parser[p] EXCEPT !.phase = IF answers \/ handler THEN "calling" ELSE "parsing"]
  <2>2. Same(g) /\ g.phase \in Active /\ g.wellFormed = parser[p].wellFormed
    BY <1>1 DEF ParserRecord, Active
  <2>3. /\ parser' = [parser EXCEPT ![p] = g] /\ careless' = careless
        /\ parser[p].phase = "reporting"
    BY <2>1 DEF error_callback
  <2> HIDE DEF g
  <2> QED BY <1>1, <1>2, <2>2, <2>3, ParserStepKnown DEF Busy, Active
<1>10. CASE error_wrap(p)
  <2> DEFINE g == [parser[p] EXCEPT !.wellFormed = FALSE, !.phase = "reporting"]
  <2>2. Same(g) /\ g.phase = "reporting" /\ ~g.wellFormed
    BY <1>1 DEF ParserRecord
  <2>3. parser' = [parser EXCEPT ![p] = g] /\ careless' = careless /\ parser[p].phase = "parsing"
    BY <1>10 DEF error_wrap
  <2> HIDE DEF g
  <2> QED BY <1>1, <1>2, <2>2, <2>3, ParserStepKnown DEF Busy, Active
<1>7. CASE callback_returns(p) \/ callback_raises(p)
  <2> DEFINE g(to) == [parser[p] EXCEPT !.phase = to]
  <2>1. \A to \in {"idle", "parsing"} :
          /\ Same(g(to)) /\ g(to).phase = to /\ g(to).wellFormed = parser[p].wellFormed
    BY <1>1 DEF ParserRecord
  <2>2. CASE callback_returns(p)
    <3>1. /\ parser' = [parser EXCEPT ![p] = g("parsing")] /\ careless' = careless
          /\ parser[p].phase = "calling"
      BY <2>2 DEF callback_returns
    <3> HIDE DEF g
    <3> QED BY <1>1, <1>2, <2>1, <3>1, ParserStepKnown DEF Busy, Active
  <2>3. CASE callback_raises(p)
    <3>1. /\ parser' = [parser EXCEPT ![p] = g("idle")]
          /\ careless'["on"] = careless["on"]
          /\ careless'["raised"] = careless["raised"] \cup {p}
      BY <1>1, <2>3 DEF callback_raises, SaxTypeOK
    <3> HIDE DEF g
    <3> QED BY <1>1, <1>2, <2>1, <3>1, ParserStepKnown DEF Active
  <2> QED BY <1>7, <2>2, <2>3
<1>8. CASE parse_succeeds(p)
  <2>1. /\ take_back(p).doc = parser[p].doc /\ take_back(p).wellFormed = parser[p].wellFormed
        /\ take_back(p).phase = "idle" /\ take_back(p).sax = "none"
    BY <1>1 DEF take_back, ParserRecord
  <2>2. /\ parser' = [parser EXCEPT ![p] = take_back(p)]
        /\ careless'["on"] = careless["on"] /\ careless'["raised"] = careless["raised"]
    BY <1>1, <1>8 DEF parse_succeeds, chunk_ends, SaxTypeOK
  <2> QED BY <1>1, <1>2, <2>1, <2>2, ParserStepKnown DEF Active
<1>9. CASE parse_fails(p)
  <2> DEFINE g == [take_back(p) EXCEPT !.doc = IF @ = "none" THEN @ ELSE "freed"]
  <2>1. g.wellFormed = parser[p].wellFormed /\ g.phase = "idle" /\ g.sax = "none"
    BY <1>1 DEF take_back, ParserRecord
  <2>2. /\ parser' = [parser EXCEPT ![p] = g] /\ ~parser[p].wellFormed
        /\ careless'["on"] = careless["on"] /\ careless'["raised"] = careless["raised"]
    BY <1>1, <1>9 DEF parse_fails, chunk_ends, SaxTypeOK
  <2> HIDE DEF g
  <2> QED BY <1>1, <1>2, <2>1, <2>2, ParserStepKnown DEF Active
<1> QED BY <1>3, <1>4, <1>5, <1>6, <1>7, <1>8, <1>9, <1>10

FreedInv == TypeInv /\ FreedKnown /\ LentKnown

LEMMA NextKeepsKnown == FreedInv /\ [Next]_vars => FreedInv'
<1> SUFFICES ASSUME FreedInv, [Next]_vars PROVE FreedKnown' /\ LentKnown'
  BY NextKeepsTypes DEF FreedInv
<1>1. ASSUME NEW k \in Callbacks, callbacks_new(k) \/ callbacks_free(k)
      PROVE  FreedKnown' /\ LentKnown'
  BY <1>1, QuietKeepsKnown DEF FreedInv, callbacks_new, callbacks_free
<1>2. ASSUME (\E x \in held : drop(x)) \/ UNCHANGED vars
      PROVE  FreedKnown' /\ LentKnown'
  BY <1>2, QuietKeepsKnown DEF FreedInv, drop, vars
<1> QED BY <1>1, <1>2, ProgramKeepsKnown, ParseKeepsKnown DEF Next, FreedInv

LEMMA InitKnown == Init => FreedInv
BY InitTyped DEF Init, FreedInv, FreedKnown, LentKnown, NoParser

\* What a step frees: the handler table where a context has it, at the next
\* chunk or the end of the context, and the document of a failed parse.
LEMMA WhatIsFreed ==
  ASSUME FreedInv, Next
  PROVE  \/ released' = Nothing
         \/ \E p \in Parser :
              /\ sax_parser_parse(p) \/ context_free(p)
              /\ released' = [what |-> parser[p].sax, of |-> p]
              /\ OneChunk(p) \/ context_free(p)
              /\ careless'["raised"] = careless["raised"]
         \/ \E p \in Parser : /\ parse_fails(p)
                              /\ released' = [what |-> parser[p].doc, of |-> p]
                              /\ careless'["on"] = careless["on"]
<1>1. careless \in [{"raised", "on", "replaced"} -> SUBSET Parser]
  BY DEF FreedInv, TypeInv, SaxTypeOK
<1>2. ASSUME NEW p \in Parser, context_free(p) \/ (OneChunk(p) /\ sax_parser_parse(p))
      PROVE  /\ released' = [what |-> parser[p].sax, of |-> p]
             /\ careless'["raised"] = careless["raised"]
  BY <1>1, <1>2 DEF context_free, sax_parser_parse
<1>3. ASSUME NEW p \in Parser, parse_fails(p)
      PROVE  /\ released' = [what |-> parser[p].doc, of |-> p]
             /\ careless'["on"] = careless["on"]
  BY <1>1, <1>3 DEF parse_fails, chunk_ends
<1> QED BY <1>2, <1>3 DEF Next, callbacks_new, callbacks_free, sax_parser_initialize,
        callbacks_set, drop, entityDecl, event_callback, error_wrap, error_callback, callback_returns,
        callback_raises, parse_succeeds

\* The document libxml2 made for entities is freed at most once, in whatever
\* chunk the error is and whatever runs inside the callbacks, unless the
\* program parses on after an error.
THEOREM DocumentsFreedOnce == Spec => []DocumentFreedOnce
<1>1. Init => DocumentFreedOnce
  BY DEF Init, Nothing, DocumentFreedOnce
<1>2. FreedInv /\ DocumentFreedOnce /\ [Next]_vars => DocumentFreedOnce'
  <2> SUFFICES ASSUME FreedInv, DocumentFreedOnce, [Next]_vars, released'.what = "freed"
               PROVE  released'.of \in careless'["on"]
    BY DEF DocumentFreedOnce
  <2>1. CASE UNCHANGED vars
    BY <2>1 DEF vars, DocumentFreedOnce
  <2>2. CASE Next
    <3>1. released' # Nothing /\ \A p \in Parser : parser[p].sax # "freed"
      BY DEF Nothing, FreedInv, TypeInv, SaxTypeOK, ParserRecord
    <3>2. PICK p \in Parser : /\ parse_fails(p) /\ careless'["on"] = careless["on"]
                              /\ released' = [what |-> parser[p].doc, of |-> p]
      BY <2>2, <3>1, WhatIsFreed
    <3> QED BY <3>2 DEF parse_fails, FreedInv, FreedKnown, Busy, Active
  <2> QED BY <2>1, <2>2
<1> QED BY <1>1, <1>2, InitKnown, NextKeepsKnown, PTL DEF Spec

\* If no callback parses with the parser that calls it, the static handler
\* table is freed only with a parser that an exception has left.
THEOREM HandlerStays ==
  ASSUME "one_chunk" \in Rules
  PROVE  Spec => []HandlerNotFreed
<1>1. Init => HandlerNotFreed
  BY DEF Init, Nothing, HandlerNotFreed
<1>2. FreedInv /\ HandlerNotFreed /\ [Next]_vars => HandlerNotFreed'
  <2> SUFFICES ASSUME FreedInv, HandlerNotFreed, [Next]_vars, released'.what = "static"
               PROVE  released'.of \in careless'["raised"]
    BY DEF HandlerNotFreed
  <2>1. CASE UNCHANGED vars
    BY <2>1 DEF vars, HandlerNotFreed
  <2>2. CASE Next
    <3>1. released' # Nothing /\ \A p \in Parser : parser[p].doc # "static"
      BY DEF Nothing, FreedInv, TypeInv, SaxTypeOK, ParserRecord
    <3>2. PICK p \in Parser : /\ sax_parser_parse(p) \/ context_free(p)
                              /\ released' = [what |-> parser[p].sax, of |-> p]
                              /\ OneChunk(p) \/ context_free(p)
                              /\ careless'["raised"] = careless["raised"]
      BY <2>2, <3>1, WhatIsFreed
    <3>3. ~Busy(p)
      BY <3>2 DEF sax_parser_parse, context_free, OneChunk, Running, Collectable, Marked, In, Busy,
                  Active
    <3> QED BY <3>2, <3>3 DEF FreedInv, LentKnown
  <2> QED BY <2>1, <2>2
<1> QED BY <1>1, <1>2, InitKnown, NextKeepsKnown, PTL DEF Spec
=============================================================================
