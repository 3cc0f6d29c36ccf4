--------------------------- MODULE Parsing_proofs ---------------------------
(***************************************************************************)
(* Proofs about Parsing, for any numbers of parsers, contexts and          *)
(* documents: the types; that a context is not freed while it is being     *)
(* parsed, if the context of a parser is not replaced under it; and that   *)
(* no document is freed that the program holds, if each context is parsed  *)
(* once.                                                                   *)
(***************************************************************************)
EXTENDS Parsing, TLAPS

Busy(c) == context[c].phase \in {"parsing", "calling"}

StartedHasDoc == \A c \in Context : context[c].started => context[c].myDoc \in Doc

HeldInUse == \A c \in Context \cap held : context[c].phase # "free"

TypeInv == ParsingTypeOK /\ StartedHasDoc /\ HeldInUse

-----------------------------------------------------------------------------
(* What the steps write.                                                   *)

\* The context c becomes g, and none of the others changes.
Write(c, g) ==
  /\ g \in ContextRecord
  /\ context' = [context EXCEPT ![c] = g]
  /\ \A e \in Context : context'[e] = IF e = c THEN g ELSE context[e]

\* All of c but its phase and what is named here is as it was.
Like(c, g) == g.read = context[c].read /\ g.myDoc = context[c].myDoc

LEMMA Writing ==
  ASSUME TypeInv, NEW c \in Context, NEW g \in ContextRecord,
         context' = [context EXCEPT ![c] = g]
  PROVE  Write(c, g)
BY DEF Write, TypeInv, ParsingTypeOK

\* A new context has no document, and its input is still to be read.
LEMMA NewContext ==
  ASSUME TypeInv, NEW c \in Context, NEW html \in BOOLEAN, context_new(c, html)
  PROVE  \E g : /\ Write(c, g)
                /\ g.phase = "idle" /\ g.myDoc = NULL /\ ~g.started
<1> DEFINE g == [NoContext EXCEPT !.phase = "idle", !.html = html]
<1>1. NoContext \in ContextRecord /\ NoContext.myDoc = NULL /\ ~NoContext.started
  BY DEF NoContext, ContextRecord
<1>2. g \in ContextRecord /\ g.phase = "idle" /\ g.myDoc = NULL /\ ~g.started
  BY <1>1 DEF ContextRecord
<1>3. context' = [context EXCEPT ![c] = g]
  BY DEF context_new
<1> HIDE DEF g
<1> QED BY <1>2, <1>3, Writing

\* The options concern what is well-formed only.
LEMMA OptionsSet ==
  ASSUME TypeInv, NEW c \in Context, NEW recovery \in BOOLEAN, context_recovery_set(c, recovery)
  PROVE  \E g : /\ Write(c, g) /\ Like(c, g)
                /\ g.phase = "idle" /\ g.started = context[c].started
<1> DEFINE g == [context[c] EXCEPT !.recovery = recovery]
<1>1. /\ g \in ContextRecord /\ Like(c, g) /\ g.phase = context[c].phase
      /\ g.started = context[c].started
  BY DEF TypeInv, ParsingTypeOK, ContextRecord, Like
<1>2. context' = [context EXCEPT ![c] = g] /\ context[c].phase = "idle"
  BY DEF context_recovery_set
<1>3. Write(c, g) /\ g.phase = "idle"
  BY <1>1, <1>2, Writing
<1> QED BY <1>1, <1>3

\* A parse begins.
LEMMA ParseBegins ==
  ASSUME TypeInv, NEW p \in Parser, parse(p)
  PROVE  /\ uses[p] \in Context
         /\ \E g : /\ Write(uses[p], g) /\ Like(uses[p], g)
                   /\ g.phase = "parsing" /\ g.by = p /\ ~g.started
<1>1. PICK c \in Context : c = uses[p]
  BY DEF parse, TypeInv, ParsingTypeOK
<1> DEFINE g == [context[c] EXCEPT !.phase = "parsing", !.started = FALSE, !.by = p]
<1>2. g \in ContextRecord /\ Like(c, g) /\ g.phase = "parsing" /\ g.by = p /\ ~g.started
  BY DEF TypeInv, ParsingTypeOK, ContextRecord, Like
<1>3. context' = [context EXCEPT ![c] = g]
  BY <1>1 DEF parse, TypeInv, ParsingTypeOK
<1> HIDE DEF g
<1> QED BY <1>1, <1>2, <1>3, Writing

\* It starts its document.
LEMMA DocumentStarts ==
  ASSUME TypeInv, NEW c \in Context, NEW d \in Doc, startDocument(c, d)
  PROVE  \E g : /\ Write(c, g)
                /\ g.phase = "parsing" /\ g.by = context[c].by /\ g.read = context[c].read
                /\ g.started /\ g.myDoc = d
<1> DEFINE g == [context[c] EXCEPT !.started = TRUE, !.myDoc = d]
<1>1. /\ g \in ContextRecord /\ g.phase = context[c].phase /\ g.by = context[c].by
      /\ g.read = context[c].read /\ g.started /\ g.myDoc = d
  BY DEF TypeInv, ParsingTypeOK, ContextRecord
<1>2. context' = [context EXCEPT ![c] = g] /\ context[c].phase = "parsing"
  BY DEF startDocument, TypeInv, ParsingTypeOK
<1> HIDE DEF g
<1> QED BY <1>1, <1>2, Writing

\* It calls back and goes on.
LEMMA CallsAndReturns ==
  ASSUME TypeInv, NEW c \in Context, call(c) \/ call_returns(c)
  PROVE  \E g : /\ Write(c, g) /\ Like(c, g) /\ Busy(c)
                /\ g.phase \in {"parsing", "calling"} /\ g.by = context[c].by
                /\ g.started = context[c].started
<1> DEFINE g(to) == [context[c] EXCEPT !.phase = to]
<1>1. ASSUME NEW to \in {"parsing", "calling"}
      PROVE  /\ g(to) \in ContextRecord /\ Like(c, g(to)) /\ g(to).phase = to
             /\ g(to).by = context[c].by /\ g(to).started = context[c].started
  BY DEF TypeInv, ParsingTypeOK, ContextRecord, Like
<1>2. /\ \E to \in {"parsing", "calling"} : context' = [context EXCEPT ![c] = g(to)]
      /\ Busy(c)
  BY DEF call, call_returns, Busy
<1> HIDE DEF g
<1> QED BY <1>1, <1>2, Writing

\* It ends, by an exception or at the end of its input.
LEMMA ParseEnds ==
  ASSUME TypeInv, NEW c \in Context, call_raises(c) \/ parse_succeeds(c) \/ parse_fails(c)
  PROVE  \E g : /\ Write(c, g) /\ g.myDoc = context[c].myDoc /\ Busy(c)
                /\ g.phase = "idle" /\ g.started = context[c].started
                /\ g.read = IF call_raises(c) THEN context[c].read ELSE TRUE
<1> DEFINE g == [context[c] EXCEPT !.phase = "idle", !.by = NULL]
           e == [context[c] EXCEPT !.phase = "idle", !.read = TRUE, !.by = NULL]
<1>1. /\ g \in ContextRecord /\ g.myDoc = context[c].myDoc /\ g.phase = "idle"
      /\ g.started = context[c].started /\ g.read = context[c].read
  BY DEF TypeInv, ParsingTypeOK, ContextRecord
<1>2. /\ e \in ContextRecord /\ e.myDoc = context[c].myDoc /\ e.phase = "idle"
      /\ e.started = context[c].started /\ e.read
  BY DEF TypeInv, ParsingTypeOK, ContextRecord
<1>3. CASE call_raises(c)
  <2>1. context' = [context EXCEPT ![c] = g] /\ Busy(c)
    BY <1>3 DEF call_raises, Busy
  <2> HIDE DEF g, e
  <2> QED BY <1>1, <1>3, <2>1, Writing
<1>4. CASE ~call_raises(c) /\ (parse_succeeds(c) \/ parse_fails(c))
  <2>1. context' = [context EXCEPT ![c] = e] /\ Busy(c)
    BY <1>4 DEF parse_succeeds, parse_fails, Ended, Busy
  <2>2. e.read = TRUE
    BY DEF TypeInv, ParsingTypeOK, ContextRecord
  <2> HIDE DEF g, e
  <2> QED BY <1>2, <1>4, <2>1, <2>2, Writing
<1> QED BY <1>3, <1>4
-----------------------------------------------------------------------------
(* Types.                                                                  *)

\* One context changes, and is free neither before nor after or was free.
LEMMA WriteKeepsTypes ==
  ASSUME TypeInv, NEW c \in Context, NEW g, Write(c, g), g.phase # "free",
         g.started => g.myDoc \in Doc,
         UNCHANGED <<uses, document>>, held' \subseteq held \cup {c}
  PROVE  TypeInv'
<1>1. context' \in [Context -> ContextRecord]
  BY DEF TypeInv, ParsingTypeOK, Write
<1>2. \A p \in Parser \cap held' : uses'[p] # NULL /\ context'[uses'[p]].phase # "free"
  BY ParsingSlotsDistinct DEF TypeInv, ParsingTypeOK, Write
<1>3. \A d \in Doc \cap held' : document'[d] \in {"bound", "empty"}
  BY ParsingSlotsDistinct DEF TypeInv, ParsingTypeOK
<1>4. StartedHasDoc'
  BY DEF TypeInv, StartedHasDoc, Write
<1>5. HeldInUse'
  BY DEF TypeInv, HeldInUse, Write
<1> QED BY <1>1, <1>2, <1>3, <1>4, <1>5 DEF TypeInv, ParsingTypeOK

\* Contexts and parsers are made and set up.
LEMMA SetupKeepsTypes ==
  ASSUME TypeInv
  PROVE  /\ \A c \in Context, b \in BOOLEAN : context_new(c, b) => TypeInv'
         /\ \A c \in Context, b \in BOOLEAN : context_recovery_set(c, b) => TypeInv'
         /\ \A p \in Parser, c \in Context : parser_initialize(p, c) => TypeInv'
         /\ \A p \in Parser, c \in Context : context_set(p, c) => TypeInv'
         /\ \A x \in held : drop(x) => TypeInv'
<1>1. ASSUME NEW c \in Context, NEW b \in BOOLEAN, context_new(c, b) PROVE TypeInv'
  <2>1. PICK g : Write(c, g) /\ g.phase = "idle" /\ ~g.started
    BY <1>1, NewContext
  <2> QED BY <1>1, <2>1, WriteKeepsTypes DEF context_new
<1>2. ASSUME NEW c \in Context, NEW b \in BOOLEAN, context_recovery_set(c, b) PROVE TypeInv'
  <2>1. PICK g : /\ Write(c, g) /\ Like(c, g) /\ g.phase = "idle"
                 /\ g.started = context[c].started
    BY <1>2, OptionsSet
  <2> QED BY <1>2, <2>1, WriteKeepsTypes DEF context_recovery_set, Like, TypeInv, StartedHasDoc
<1>3. ASSUME NEW p \in Parser, NEW c \in Context, parser_initialize(p, c) \/ context_set(p, c)
      PROVE  TypeInv'
  <2>1. /\ c \in held /\ uses' = [uses EXCEPT ![p] = c] /\ UNCHANGED <<context, document>>
        /\ held' \subseteq held \cup {p}
    BY <1>3 DEF parser_initialize, context_set
  <2>2. context[c].phase # "free"
    BY <2>1 DEF TypeInv, HeldInUse
  <2>3. \A q \in Parser \cap held' : uses'[q] # NULL /\ context'[uses'[q]].phase # "free"
    BY <2>1, <2>2, ParsingSlotsDistinct DEF TypeInv, ParsingTypeOK
  <2>4. /\ uses' \in [Parser -> Context \cup {NULL}] /\ held' \subseteq Parser \cup Context \cup Doc
        /\ \A d \in Doc \cap held' : document'[d] \in {"bound", "empty"}
    BY <2>1, ParsingSlotsDistinct DEF TypeInv, ParsingTypeOK
  <2>5. StartedHasDoc' /\ HeldInUse'
    BY <2>1, ParsingSlotsDistinct DEF TypeInv, StartedHasDoc, HeldInUse
  <2> QED BY <2>1, <2>3, <2>4, <2>5 DEF TypeInv, ParsingTypeOK
<1>4. ASSUME NEW x \in held, drop(x) PROVE TypeInv'
  BY <1>4 DEF drop, TypeInv, ParsingTypeOK, StartedHasDoc, HeldInUse
<1> QED BY <1>1, <1>2, <1>3, <1>4
\* Parsing keeps the types.
LEMMA ParsingKeepsTypes ==
  ASSUME TypeInv
  PROVE  /\ \A p \in Parser : parse(p) => TypeInv'
         /\ \A c \in Context, d \in Doc : startDocument(c, d) => TypeInv'
         /\ \A c \in Context : call(c) \/ call_returns(c) => TypeInv'
         /\ \A c \in Context : call_raises(c) => TypeInv'
         /\ \A c \in Context : parse_succeeds(c) => TypeInv'
         /\ \A c \in Context : parse_fails(c) => TypeInv'
<1>1. ASSUME NEW p \in Parser, parse(p) PROVE TypeInv'
  <2>1. PICK g : Write(uses[p], g) /\ g.phase = "parsing" /\ ~g.started
    BY <1>1, ParseBegins
  <2> QED BY <1>1, <2>1, ParseBegins, WriteKeepsTypes DEF parse
<1>2. ASSUME NEW c \in Context, call(c) \/ call_returns(c) \/ call_raises(c) PROVE TypeInv'
  <2>1. PICK g : /\ Write(c, g) /\ g.phase # "free" /\ g.myDoc = context[c].myDoc
                 /\ g.started = context[c].started
    BY <1>2, CallsAndReturns, ParseEnds DEF Like
  <2> QED BY <1>2, <2>1, WriteKeepsTypes
          DEF call, call_returns, call_raises, TypeInv, StartedHasDoc
\* The documents change as well.
<1>3. ASSUME NEW c \in Context, NEW g, Write(c, g), g.phase # "free",
             g.started => g.myDoc \in Doc, uses' = uses,
             held \subseteq held', held' \subseteq held \cup Doc,
             document' \in [Doc -> DocumentState],
             \A d \in Doc \cap held' : document'[d] \in {"bound", "empty"}
      PROVE  TypeInv'
  <2>1. context' \in [Context -> ContextRecord]
    BY <1>3 DEF TypeInv, ParsingTypeOK, Write
  <2>2. \A p \in Parser \cap held' : uses'[p] # NULL /\ context'[uses'[p]].phase # "free"
    BY <1>3, ParsingSlotsDistinct DEF TypeInv, ParsingTypeOK, Write
  <2>3. StartedHasDoc' /\ HeldInUse'
    BY <1>3, ParsingSlotsDistinct DEF TypeInv, StartedHasDoc, HeldInUse, Write
  <2> QED BY <1>3, <2>1, <2>2, <2>3 DEF TypeInv, ParsingTypeOK
<1>4. ASSUME NEW c \in Context, NEW d \in Doc, startDocument(c, d) PROVE TypeInv'
  <2>1. PICK g : Write(c, g) /\ g.phase = "parsing" /\ g.myDoc = d
    BY <1>4, DocumentStarts
  <2>2. document' \in [Doc -> DocumentState]
    BY <1>4 DEF startDocument, TypeInv, ParsingTypeOK, DocumentState
  <2>3. \A e \in Doc \cap held : document'[e] \in {"bound", "empty"}
    BY <1>4 DEF startDocument, TypeInv, ParsingTypeOK
  <2>4. uses' = uses /\ held' = held
    BY <1>4 DEF startDocument
  <2> QED BY <1>3, <2>1, <2>2, <2>3, <2>4
<1>5. ASSUME NEW c \in Context, parse_succeeds(c) PROVE TypeInv'
  <2>1. PICK g : Write(c, g) /\ g.phase = "idle" /\ g.myDoc = context[c].myDoc
    BY <1>5, ParseEnds
  <2>2. context[c].myDoc \in Doc
    BY <1>5 DEF parse_succeeds, TypeInv, StartedHasDoc
  <2>3. document' \in [Doc -> DocumentState]
    BY <1>5, <2>2 DEF parse_succeeds, TypeInv, ParsingTypeOK, DocumentState
  <2>4. \A d \in Doc \cap held' : document'[d] \in {"bound", "empty"}
    BY <1>5, <2>2 DEF parse_succeeds, TypeInv, ParsingTypeOK
  <2>5. uses' = uses /\ held' = held \cup {context[c].myDoc}
    BY <1>5 DEF parse_succeeds
  <2> QED BY <1>3, <2>1, <2>2, <2>3, <2>4, <2>5
<1>6. ASSUME NEW c \in Context, parse_fails(c) PROVE TypeInv'
  <2>1. PICK g : /\ Write(c, g) /\ g.phase = "idle" /\ g.myDoc = context[c].myDoc
                 /\ g.started = context[c].started
    BY <1>6, ParseEnds
  <2>2. document' \in [Doc -> DocumentState]
    BY <1>6 DEF parse_fails, Freed, TypeInv, ParsingTypeOK, DocumentState
  <2>3. \A d \in Doc \cap held : document'[d] \in {"bound", "empty"}
    BY <1>6 DEF parse_fails, Freed, TypeInv, ParsingTypeOK
  <2>4. uses' = uses /\ held' = held /\ (g.started => g.myDoc \in Doc)
    BY <1>6, <2>1 DEF parse_fails, TypeInv, StartedHasDoc
  <2> QED BY <1>3, <2>1, <2>2, <2>3, <2>4
<1> QED BY <1>1, <1>2, <1>4, <1>5, <1>6

\* What a collection does: what is marked stays, and of the documents those
\* whose wrappers are gone are freed.
LEMMA Collecting ==
  ASSUME TypeInv, collect
  PROVE  /\ context' \in [Context -> ContextRecord]
         /\ \A c \in Context : /\ context'[c] \in {context[c], NoContext}
                               /\ c \in Marked => context'[c] = context[c]
         /\ document' \in [Doc -> DocumentState]
         /\ \A d \in Doc : d \in held \/ document[d] = "tree" => document'[d] = document[d]
         /\ \A p \in Parser : p \in Marked => uses[p] \in Marked /\ uses'[p] = uses[p]
         /\ uses' \in [Parser -> Context \cup {NULL}] /\ held' = held /\ held \subseteq Marked
<1>1. NoContext \in ContextRecord
  BY DEF NoContext, ContextRecord
<1>2. ASSUME NEW c \in Context
      PROVE  /\ context'[c] \in {context[c], NoContext}
             /\ c \in Marked => context'[c] = context[c]
  BY <1>2 DEF collect
<1>3. context' \in [Context -> ContextRecord]
  BY <1>1 DEF collect, TypeInv, ParsingTypeOK
<1>4. /\ document' \in [Doc -> DocumentState]
      /\ \A d \in Doc : d \in held \/ document[d] = "tree" => document'[d] = document[d]
  BY DEF collect, context_free, TypeInv, ParsingTypeOK, DocumentState
<1>5. ASSUME NEW p \in Parser, p \in Marked
      PROVE  uses[p] \in Marked /\ uses'[p] = uses[p]
  BY <1>5, ParsingSlotsDistinct DEF collect, Marked, TypeInv, ParsingTypeOK
<1>6. uses' \in [Parser -> Context \cup {NULL}] /\ held' = held /\ held \subseteq Marked
  BY DEF collect, Marked, TypeInv, ParsingTypeOK
<1> QED BY <1>2, <1>3, <1>4, <1>5, <1>6

\* Every step keeps the types.
LEMMA NextKeepsTypes == TypeInv /\ [Next]_vars => TypeInv'
<1> SUFFICES ASSUME TypeInv, [Next]_vars PROVE TypeInv'
  OBVIOUS
<1>1. CASE UNCHANGED vars
  BY <1>1 DEF vars, TypeInv, ParsingTypeOK, StartedHasDoc, HeldInUse
<1>2. CASE collect
  <2>1. \A p \in Parser \cap held' : uses'[p] # NULL /\ context'[uses'[p]].phase # "free"
    BY <1>2, Collecting DEF TypeInv, ParsingTypeOK
  <2>2. \A d \in Doc \cap held' : document'[d] \in {"bound", "empty"}
    BY <1>2, Collecting DEF TypeInv, ParsingTypeOK
  <2>3. StartedHasDoc'
    BY <1>2, Collecting DEF TypeInv, StartedHasDoc, NoContext
  <2>4. HeldInUse'
    BY <1>2, Collecting DEF TypeInv, HeldInUse
  <2> QED BY <1>2, Collecting, <2>1, <2>2, <2>3, <2>4 DEF TypeInv, ParsingTypeOK
<1>3. CASE \E c \in Context : \/ context_wrap(c) \/ html_context_wrap(c)
                              \/ \E b \in BOOLEAN : \/ context_recovery_set(c, b)
                                                    \/ context_options_set(c, b)
                                                    \/ html_context_options_set(c, b)
  BY <1>3, SetupKeepsTypes
     DEF context_wrap, html_context_wrap, context_options_set, html_context_options_set
<1> QED BY <1>1, <1>2, <1>3, SetupKeepsTypes, ParsingKeepsTypes DEF Next

LEMMA InitTyped == Init => TypeInv
<1>1. NoContext \in ContextRecord /\ ~NoContext.started
  BY DEF NoContext, ContextRecord
<1> QED BY <1>1 DEF Init, TypeInv, ParsingTypeOK, StartedHasDoc, HeldInUse, DocumentState

\* The variables are typed; a parser the program holds has a context that
\* exists, and the documents it holds have their wrappers.
THEOREM ParsingTyped == Spec => []ParsingTypeOK
<1>1. TypeInv => ParsingTypeOK
  BY DEF TypeInv
<1> QED BY <1>1, InitTyped, NextKeepsTypes, PTL DEF Spec

-----------------------------------------------------------------------------
(* Contexts that are being parsed.                                         *)

\* A context that is being parsed is the context of the parser that parses.
ParsedByUser == \A c \in Context : Busy(c) => context[c].by \in Parser /\ uses[context[c].by] = c

KeptInv == TypeInv /\ ParsedByUser

\* One context changes, and no parser takes up another one.
LEMMA WriteKeepsUser ==
  ASSUME KeptInv, NEW c \in Context, NEW g, Write(c, g), uses' = uses,
         g.phase \in {"parsing", "calling"} => g.by \in Parser /\ uses[g.by] = c
  PROVE  ParsedByUser'
BY DEF KeptInv, ParsedByUser, Write, Busy

\* A collection that runs while contexts are being parsed takes none of them.
LEMMA CollectKeepsParsed ==
  ASSUME KeptInv, collect
  PROVE  /\ ParsedByUser'
         /\ \A c \in Context : Busy(c) => context'[c] = context[c]
<1>1. ASSUME NEW c \in Context, Busy(c)
      PROVE  /\ c \in Marked /\ context[c].by \in Parser /\ context[c].by \in Marked
             /\ uses[context[c].by] = c
  <2>1. c \in In("calling")
    BY <1>1 DEF collect, Running, In, Busy
  <2>2. context[c].by \in Parser /\ uses[context[c].by] = c
    BY <1>1 DEF KeptInv, ParsedByUser
  <2>3. context[c].by \in Marked
    BY <2>1 DEF Marked
  <2> QED BY <2>2, <2>3, Collecting DEF KeptInv
<1>2. ASSUME NEW c \in Context, context'[c].phase \in {"parsing", "calling"}
      PROVE  context'[c].by \in Parser /\ uses'[context'[c].by] = c
  <2>1. context'[c] = context[c] /\ Busy(c)
    BY <1>2, Collecting DEF KeptInv, NoContext, Busy
  <2> QED BY <1>1, <2>1, Collecting DEF KeptInv
<1> QED BY <1>1, <1>2, Collecting DEF KeptInv, ParsedByUser, Busy

\* If the context of a parser is not replaced while it parses, every step
\* leaves the contexts that are being parsed with their parsers.
LEMMA NextKeepsUser ==
  ASSUME KeptInv, [Next]_vars, "settled" \in Rules
  PROVE  KeptInv'
<1>1. TypeInv'
  BY NextKeepsTypes DEF KeptInv
<1>2. ASSUME NEW c \in Context, NEW b \in BOOLEAN, context_new(c, b)
      PROVE  ParsedByUser'
  BY <1>2, NewContext, WriteKeepsUser DEF KeptInv, context_new
<1>3. ASSUME NEW c \in Context, NEW b \in BOOLEAN, context_recovery_set(c, b)
      PROVE  ParsedByUser'
  BY <1>3, OptionsSet, WriteKeepsUser DEF KeptInv, context_recovery_set
<1>4. ASSUME NEW p \in Parser, NEW c \in Context,
             parser_initialize(p, c) \/ (Settled(p) /\ context_set(p, c))
      PROVE  ParsedByUser'
  <2>1. uses' = [uses EXCEPT ![p] = c] /\ context' = context
    BY <1>4 DEF parser_initialize, context_set
  <2>2. \A e \in Context : Busy(e) => context[e].by # p
    BY <1>4, ParsingSlotsDistinct DEF parser_initialize, Settled, KeptInv, ParsedByUser
  <2> QED BY <2>1, <2>2 DEF KeptInv, TypeInv, ParsingTypeOK, ParsedByUser, Busy
<1>5. ASSUME NEW p \in Parser, parse(p)
      PROVE  ParsedByUser'
  <2>1. uses[p] \in Context /\ uses' = uses
    BY <1>5, ParseBegins DEF KeptInv, parse
  <2>2. PICK g : Write(uses[p], g) /\ g.by = p
    BY <1>5, ParseBegins DEF KeptInv
  <2> QED BY <2>1, <2>2, WriteKeepsUser
<1>6. ASSUME NEW c \in Context, NEW d \in Doc, startDocument(c, d)
      PROVE  ParsedByUser'
  <2>1. PICK g : Write(c, g) /\ g.by = context[c].by
    BY <1>6, DocumentStarts DEF KeptInv
  <2>2. Busy(c) /\ uses' = uses
    BY <1>6 DEF startDocument, Busy
  <2>3. context[c].by \in Parser /\ uses[context[c].by] = c
    BY <2>2 DEF KeptInv, ParsedByUser
  <2> QED BY <2>1, <2>2, <2>3, WriteKeepsUser
<1>7. ASSUME NEW c \in Context, call(c) \/ call_returns(c)
      PROVE  ParsedByUser'
  BY <1>7, CallsAndReturns, WriteKeepsUser DEF KeptInv, call, call_returns, ParsedByUser
<1>8. ASSUME NEW c \in Context, call_raises(c) \/ parse_succeeds(c) \/ parse_fails(c)
      PROVE  ParsedByUser'
  BY <1>8, ParseEnds, WriteKeepsUser DEF KeptInv, call_raises, parse_succeeds, parse_fails
<1>9. ASSUME (\E x \in held : drop(x)) \/ UNCHANGED vars
      PROVE  ParsedByUser'
  BY <1>9 DEF drop, vars, KeptInv, ParsedByUser, Busy
<1> QED BY <1>1, <1>2, <1>3, <1>4, <1>5, <1>6, <1>7, <1>8, <1>9, CollectKeepsParsed
        DEF Next, context_wrap, html_context_wrap, context_options_set,
            html_context_options_set, KeptInv

\* Whatever the program lets go of, a context lives as long as it is being
\* parsed, if the context of a parser is not replaced while it parses.
THEOREM ContextsKept ==
  ASSUME "settled" \in Rules
  PROVE  Spec => ContextKept
<1>1. Init => KeptInv
  BY InitTyped DEF Init, KeptInv, ParsedByUser, Busy, NoContext
<1>2. KeptInv /\ [Next]_vars => KeptInv'
  BY NextKeepsUser
<1>3. KeptInv /\ [Next]_vars => [\A c \in In("calling") : context'[c].phase # "free"]_vars
  <2> SUFFICES ASSUME KeptInv, Next, NEW c \in Context, context[c].phase = "calling"
               PROVE  context'[c].phase # "free"
    BY DEF In
  <2>1. ASSUME NEW e \in Context, NEW g, Write(e, g), g.phase # "free"
        PROVE  context'[c].phase # "free"
    BY <2>1 DEF Write
  <2>2. CASE collect
    BY <2>2, CollectKeepsParsed DEF Busy
  <2>3. ASSUME NEW e \in Context, NEW b \in BOOLEAN, context_new(e, b) \/ context_recovery_set(e, b)
        PROVE  context'[c].phase # "free"
    BY <2>1, <2>3, NewContext, OptionsSet DEF KeptInv
  <2>4. ASSUME NEW p \in Parser, parse(p)
        PROVE  context'[c].phase # "free"
    BY <2>1, <2>4, ParseBegins DEF KeptInv
  <2>5. ASSUME NEW e \in Context, NEW d \in Doc, startDocument(e, d)
        PROVE  context'[c].phase # "free"
    BY <2>1, <2>5, DocumentStarts DEF KeptInv
  <2>6. ASSUME NEW e \in Context, \/ call(e) \/ call_returns(e) \/ call_raises(e)
                                  \/ parse_succeeds(e) \/ parse_fails(e)
        PROVE  context'[c].phase # "free"
    BY <2>1, <2>6, CallsAndReturns, ParseEnds DEF KeptInv
  <2>7. ASSUME \/ \E p \in Parser, e \in Context : parser_initialize(p, e) \/ context_set(p, e)
               \/ \E x \in held : drop(x)
        PROVE  context'[c].phase # "free"
    BY <2>7 DEF parser_initialize, context_set, drop
  <2> QED BY <2>2, <2>3, <2>4, <2>5, <2>6, <2>7
          DEF Next, context_wrap, html_context_wrap, context_options_set, html_context_options_set
<1> QED BY <1>1, <1>2, <1>3, PTL DEF Spec, ContextKept

\* A context that is being parsed and is in the next state as it was, but
\* for its phase, still builds its document.
LEMMA StillBuilding ==
  ASSUME NEW d \in Doc, NEW c \in Context, context'[c].phase \in {"parsing", "calling"},
         context'[c].started, context'[c].myDoc = d, document'[d] = "tree"
  PROVE  Building(d)'
BY DEF Building, In

\* Whatever else goes on, other parses, options, collections, only an
\* exception that ends the parse leaves a document behind without an owner,
\* if the context of a parser is not replaced while it parses.
THEOREM DocumentsKeepOwners ==
  ASSUME "settled" \in Rules
  PROVE  Spec => NoDocumentLost
<1>1. Init => KeptInv
  BY InitTyped DEF Init, KeptInv, ParsedByUser, Busy, NoContext
<1>2. KeptInv /\ [Next]_vars => KeptInv'
  BY NextKeepsUser
<1>3. KeptInv /\ [Next]_vars =>
        [\A d \in Doc : (Building(d) /\ document'[d] = "tree" /\ ~Building(d)')
                           => \E c \in Context : context[c].myDoc = d /\ call_raises(c)]_vars
  <2> SUFFICES ASSUME KeptInv, Next, NEW d \in Doc, Building(d), document'[d] = "tree",
                      ~Building(d)'
               PROVE  \E c \in Context : context[c].myDoc = d /\ call_raises(c)
    OBVIOUS
  <2>1. PICK c \in Context : Busy(c) /\ context[c].started /\ context[c].myDoc = d
    BY DEF Building, In, Busy
  <2>2. context'[c] # context[c]
    BY <2>1, StillBuilding DEF Busy
  <2>3. ASSUME NEW e \in Context, NEW g, Write(e, g)
        PROVE  e = c /\ context'[c] = g
    BY <2>2, <2>3 DEF Write
  <2>4. ~collect
    BY <2>1, <2>2, CollectKeepsParsed
  <2>5. ASSUME NEW e \in Context, NEW b \in BOOLEAN, context_new(e, b) \/ context_recovery_set(e, b)
        PROVE  FALSE
    <3>1. ~Busy(e)
      BY <2>5 DEF context_new, context_recovery_set, Busy
    <3> QED BY <2>1, <2>3, <2>5, <3>1, NewContext, OptionsSet DEF KeptInv
  <2>6. ASSUME NEW p \in Parser, parse(p)
        PROVE  FALSE
    <3>1. ~Busy(uses[p]) /\ uses[p] \in Context
      BY <2>6, ParseBegins DEF parse, Busy, KeptInv
    <3> QED BY <2>1, <2>3, <2>6, <3>1, ParseBegins DEF KeptInv
  <2>7. ASSUME NEW e \in Context, NEW f \in Doc, startDocument(e, f)
        PROVE  FALSE
    <3>1. ~context[e].started
      BY <2>7 DEF startDocument
    <3> QED BY <2>1, <2>3, <2>7, <3>1, DocumentStarts DEF KeptInv
  <2>8. ASSUME NEW e \in Context, call(e) \/ call_returns(e)
        PROVE  FALSE
    <3>1. PICK g : /\ Write(e, g) /\ Like(e, g) /\ g.phase \in {"parsing", "calling"}
                   /\ g.started = context[e].started
      BY <2>8, CallsAndReturns DEF KeptInv
    <3> QED BY <2>1, <2>3, <3>1, StillBuilding DEF Like
  <2>9. ASSUME NEW e \in Context, parse_succeeds(e) \/ parse_fails(e)
        PROVE  FALSE
    <3>1. e = c
      BY <2>3, <2>9, ParseEnds DEF KeptInv
    <3>2. d # NULL /\ context[e].myDoc = d
      BY <2>1, <3>1, ParsingSlotsDistinct
    <3>3. document'[d] \in {"bound", "empty", "free"}
      BY <2>9, <3>2 DEF parse_succeeds, parse_fails, Freed, KeptInv, TypeInv, ParsingTypeOK
    <3> QED BY <3>3
  <2>10. ASSUME NEW e \in Context, call_raises(e)
         PROVE  e = c
    BY <2>3, <2>10, ParseEnds DEF KeptInv
  <2>11. ASSUME \/ \E p \in Parser, e \in Context : parser_initialize(p, e) \/ context_set(p, e)
                \/ \E x \in held : drop(x)
         PROVE  FALSE
    BY <2>2, <2>11 DEF parser_initialize, context_set, drop
  <2> QED BY <2>1, <2>4, <2>5, <2>6, <2>7, <2>8, <2>9, <2>10, <2>11
          DEF Next, context_wrap, html_context_wrap, context_options_set, html_context_options_set
<1> QED BY <1>1, <1>2, <1>3, PTL DEF Spec, NoDocumentLost
-----------------------------------------------------------------------------
(* Documents that the program holds.                                       *)

\* A context that has not been read to its end builds a tree of its own,
\* which has no wrapper, and only such contexts parse.
OwnTrees ==
  /\ \A c \in Context : Busy(c) => ~context[c].read
  /\ \A c \in Context : (~context[c].read /\ context[c].myDoc # NULL)
                           => document[context[c].myDoc] = "tree"
  /\ \A c, e \in Context : (~context[c].read /\ ~context[e].read /\ context[c].myDoc # NULL
                              /\ context[c].myDoc = context[e].myDoc) => c = e

DocsInv == TypeInv /\ OwnTrees

\* A context that has its document as before, and no other document changes.
LEMMA WriteKeepsTrees ==
  ASSUME DocsInv, NEW c \in Context, NEW g, Write(c, g), document' = document,
         g.phase \in {"parsing", "calling"} => ~g.read,
         g.myDoc = NULL \/ g.read \/ Like(c, g)
  PROVE  OwnTrees'
BY DEF DocsInv, OwnTrees, Write, Like, Busy

\* A context that has been read has given its document away.
LEMMA ReadKeepsTrees ==
  ASSUME DocsInv, NEW c \in Context, NEW g, Write(c, g), g.phase = "idle", g.read, Busy(c),
         \A d \in Doc : d # context[c].myDoc => document'[d] = document[d]
  PROVE  OwnTrees'
<1>1. ASSUME NEW e \in Context, ~context'[e].read, context'[e].myDoc # NULL
      PROVE  e # c /\ context'[e] = context[e] /\ context[e].myDoc # context[c].myDoc
  BY <1>1 DEF DocsInv, OwnTrees, Write
<1>2. ASSUME NEW e \in Context, ~context'[e].read, context'[e].myDoc # NULL
      PROVE  document'[context'[e].myDoc] = "tree"
  <2>1. context[e].myDoc \in Doc
    BY <1>1, <1>2 DEF DocsInv, TypeInv, ParsingTypeOK, ContextRecord
  <2> QED BY <1>1, <1>2, <2>1 DEF DocsInv, OwnTrees
<1>3. \A e \in Context : context'[e].phase \in {"parsing", "calling"} => ~context'[e].read
  BY DEF DocsInv, OwnTrees, Write, Busy
<1> QED BY <1>1, <1>2, <1>3 DEF DocsInv, OwnTrees, Busy

\* If each context is parsed once, every step leaves the trees that are
\* being built to their contexts.
LEMMA NextKeepsTrees ==
  ASSUME DocsInv, [Next]_vars, "once" \in Rules
  PROVE  DocsInv'
<1>1. TypeInv'
  BY NextKeepsTypes DEF DocsInv
<1>2. ASSUME NEW c \in Context, NEW b \in BOOLEAN, context_new(c, b)
      PROVE  OwnTrees'
  BY <1>2, NewContext, WriteKeepsTrees DEF DocsInv, context_new
<1>3. ASSUME NEW c \in Context, NEW b \in BOOLEAN, context_recovery_set(c, b)
      PROVE  OwnTrees'
  BY <1>3, OptionsSet, WriteKeepsTrees DEF DocsInv, context_recovery_set
<1>4. ASSUME NEW p \in Parser, Once(uses[p]), parse(p)
      PROVE  OwnTrees'
  <2>1. uses[p] \in Context /\ document' = document /\ ~context[uses[p]].read
    BY <1>4, ParseBegins DEF DocsInv, parse, Once
  <2>2. PICK g : Write(uses[p], g) /\ Like(uses[p], g)
    BY <1>4, ParseBegins DEF DocsInv
  <2> QED BY <2>1, <2>2, WriteKeepsTrees DEF Like
<1>5. ASSUME NEW c \in Context, NEW d \in Doc, startDocument(c, d)
      PROVE  OwnTrees'
  <2>1. PICK g : Write(c, g) /\ g.read = context[c].read /\ g.myDoc = d
    BY <1>5, DocumentStarts DEF DocsInv
  <2>2. document[d] = "free" /\ document' = [document EXCEPT ![d] = "tree"] /\ Busy(c)
    BY <1>5 DEF startDocument, Busy
  <2>3. \A e \in Context : (~context[e].read /\ context[e].myDoc # NULL) =>
                              context[e].myDoc \in Doc \ {d}
    BY <2>2 DEF DocsInv, OwnTrees, TypeInv, ParsingTypeOK, ContextRecord
  <2>4. \A e \in Doc : document'[e] = IF e = d THEN "tree" ELSE document[e]
    BY <2>2 DEF DocsInv, TypeInv, ParsingTypeOK
  <2> QED BY <2>1, <2>2, <2>3, <2>4 DEF DocsInv, OwnTrees, Write, Busy
<1>6. ASSUME NEW c \in Context, call(c) \/ call_returns(c)
      PROVE  OwnTrees'
  <2>1. PICK g : Write(c, g) /\ Like(c, g) /\ Busy(c)
    BY <1>6, CallsAndReturns DEF DocsInv
  <2>2. document' = document /\ ~context[c].read
    BY <1>6, <2>1 DEF call, call_returns, DocsInv, OwnTrees
  <2> QED BY <2>1, <2>2, WriteKeepsTrees DEF Like
<1>7. ASSUME NEW c \in Context, call_raises(c)
      PROVE  OwnTrees'
  <2>1. PICK g : Write(c, g) /\ g.phase = "idle" /\ Like(c, g)
    BY <1>7, ParseEnds DEF DocsInv, Like
  <2> QED BY <1>7, <2>1, WriteKeepsTrees DEF call_raises
<1>8. ASSUME NEW c \in Context, parse_succeeds(c) \/ parse_fails(c)
      PROVE  OwnTrees'
  <2>1. ~call_raises(c)
    BY <1>8 DEF parse_succeeds, parse_fails, call_raises
  <2>2. PICK g : Write(c, g) /\ g.phase = "idle" /\ g.read /\ Busy(c)
    BY <1>8, <2>1, ParseEnds DEF DocsInv
  <2>3. \A d \in Doc : d # context[c].myDoc => document'[d] = document[d]
    BY <1>8 DEF parse_succeeds, parse_fails, Freed, DocsInv, TypeInv, ParsingTypeOK
  <2> QED BY <2>2, <2>3, ReadKeepsTrees
<1>9. ASSUME collect
      PROVE  OwnTrees'
  <2>1. ASSUME NEW c \in Context, ~context'[c].read, context'[c].myDoc # NULL
        PROVE  /\ context'[c] = context[c] /\ document[context[c].myDoc] = "tree"
               /\ document'[context[c].myDoc] = "tree"
    <3>1. context'[c] = context[c]
      BY <1>9, <2>1, Collecting DEF DocsInv, NoContext
    <3>2. document[context[c].myDoc] = "tree" /\ context[c].myDoc \in Doc
      BY <2>1, <3>1 DEF DocsInv, OwnTrees, TypeInv, ParsingTypeOK, ContextRecord
    <3> QED BY <1>9, <3>1, <3>2, Collecting DEF DocsInv
  <2>2. \A c \in Context : context'[c].phase \in {"parsing", "calling"} => ~context'[c].read
    BY <1>9, Collecting DEF DocsInv, OwnTrees, NoContext, Busy
  <2>3. ASSUME NEW c \in Context, NEW e \in Context, ~context'[c].read, ~context'[e].read,
               context'[c].myDoc # NULL, context'[c].myDoc = context'[e].myDoc
        PROVE  c = e
    <3>1. context'[c] = context[c] /\ context'[e] = context[e]
      BY <2>1, <2>3
    <3> QED BY <2>3, <3>1 DEF DocsInv, OwnTrees
  <2> QED BY <2>1, <2>2, <2>3 DEF OwnTrees, Busy
<1>10. ASSUME \/ \E p \in Parser, c \in Context : parser_initialize(p, c) \/ context_set(p, c)
              \/ \E x \in held : drop(x)
              \/ UNCHANGED vars
       PROVE  OwnTrees'
  BY <1>10 DEF parser_initialize, context_set, drop, vars, DocsInv, OwnTrees, Busy
<1> QED BY <1>1, <1>2, <1>3, <1>4, <1>5, <1>6, <1>7, <1>8, <1>9, <1>10
        DEF Next, context_wrap, html_context_wrap, context_options_set,
            html_context_options_set, DocsInv

\* No parse and no collection frees a document under a handle of the
\* program, if each context is parsed once: a parse that fails frees what it
\* has built itself.
THEOREM HandlesKeep ==
  ASSUME "once" \in Rules
  PROVE  Spec => HandlesKeepDocuments
<1>1. Init => DocsInv
  BY InitTyped DEF Init, DocsInv, OwnTrees, Busy, NoContext
<1>2. DocsInv /\ [Next]_vars => DocsInv'
  BY NextKeepsTrees
<1>3. DocsInv /\ [Next]_vars =>
        [\A d \in Doc \cap held : document[d] = "bound" => document'[d] = "bound"]_vars
  <2> SUFFICES ASSUME DocsInv, Next, NEW d \in Doc, d \in held, document[d] = "bound"
               PROVE  document'[d] = "bound"
    OBVIOUS
  <2>1. CASE collect
    BY <2>1, Collecting DEF DocsInv
  <2>2. ASSUME NEW c \in Context, NEW e \in Doc, startDocument(c, e)
        PROVE  document'[d] = "bound"
    BY <2>2 DEF startDocument, DocsInv, TypeInv, ParsingTypeOK
  <2>3. ASSUME NEW c \in Context, parse_succeeds(c)
        PROVE  document'[d] = "bound"
    BY <2>3 DEF parse_succeeds, DocsInv, TypeInv, ParsingTypeOK
  <2>4. ASSUME NEW c \in Context, parse_fails(c)
        PROVE  document'[d] = "bound"
    <3>1. ~context[c].read
      BY <2>4 DEF parse_fails, DocsInv, OwnTrees, Busy
    <3>2. d # context[c].myDoc
      BY <3>1, ParsingSlotsDistinct DEF DocsInv, OwnTrees
    <3> QED BY <2>4, <3>2 DEF parse_fails, Freed, DocsInv, TypeInv, ParsingTypeOK
  <2>5. CASE UNCHANGED document
    BY <2>5
  <2> QED BY <2>1, <2>2, <2>3, <2>4, <2>5
          DEF Next, context_wrap, html_context_wrap, context_new, context_options_set,
              html_context_options_set, context_recovery_set, parser_initialize,
              context_set, parse, call, call_returns, call_raises, drop
<1> QED BY <1>1, <1>2, <1>3, PTL DEF Spec, HandlesKeepDocuments
=============================================================================
