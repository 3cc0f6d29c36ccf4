--------------------------- MODULE InputCallbacks ---------------------------
(***************************************************************************)
(* Custom URI schemes, ruby_xml_input_cbg.c: a global list of schemes, each *)
(* with the Ruby class that is asked for a document, and the contexts of   *)
(* the documents libxml2 is reading.                                       *)
(*                                                                         *)
(* ic_open calls back into Ruby in the middle: document_query may parse,   *)
(* switch threads, add or remove schemes, even the one it was found        *)
(* through, or raise.  Several documents can be read at the same time.     *)
(*                                                                         *)
(* Names are abstract; all the code asks of them are two comparisons.      *)
(***************************************************************************)
EXTENDS Integers, Sequences, SequencesExt

CONSTANTS
  Name,      \* scheme names
  File,      \* file names libxml2 is asked to open
  Class,     \* the Ruby classes that serve schemes
  Context,   \* memory cells for ic_doc_context
  Serves,    \* <<f, n>>: file name f begins with n, whatever the case
  Begins,    \* <<m, n>>: name m begins with n, in the same case
  MaxSize,   \* bound: bytes of a document
  MaxAdded,  \* bound: calls of add_scheme
  Rules      \* the usage rules, defined below, that the program keeps

ASSUME ComparisonsAreWhole ==
  /\ Serves \subseteq File \X Name
  /\ Begins \subseteq Name \X Name
  /\ \A n \in Name : <<n, n>> \in Begins
  /\ \A f \in File, m, n \in Name :
       (<<f, m>> \in Serves /\ <<m, n>> \in Begins) => <<f, n>> \in Serves

ASSUME InputBounds == MaxSize \in Nat /\ MaxAdded \in Nat

ASSUME InputRulesAreKnown == Rules \subseteq {"no_nul"}

VARIABLES
  registered,    \* whether libxml2 uses these callbacks
  first_scheme,  \* the list of schemes; stamp tells when one was added
  added,         \* how many schemes have been added so far
  calls,         \* the calls of document_query under way
  context,       \* the memory of the ic_doc_contexts
  opened,        \* the contexts libxml2 reads from
  received       \* the bytes of its document libxml2 got through a context

vars == <<registered, first_scheme, added, calls, context, opened, received>>

Scheme == [name : Name, class : Class, stamp : 1..MaxAdded]

Size == 0..MaxSize

\* size is the length of the string document_query returned; bpos counts
\* the bytes of the buffer that have been read; ended: a read has returned 0.
ContextRecord ==
  [used : BOOLEAN, size : Size, bpos : Size, remaining : Size, ended : BOOLEAN]

Unused == [used |-> FALSE, size |-> 0, bpos |-> 0, remaining |-> 0, ended |-> FALSE]

Init ==
  /\ registered = FALSE
  /\ first_scheme = <<>>
  /\ added = 0
  /\ calls = {}
  /\ context = [c \in Context |-> Unused]
  /\ opened = {}
  /\ received = [c \in Context |-> <<>>]

-----------------------------------------------------------------------------
(* The list of schemes.                                                    *)

register_input_callbacks ==
  /\ ~registered
  /\ registered' = TRUE
  /\ UNCHANGED <<first_scheme, added, calls, context, opened, received>>

New(n, class) == [name |-> n, class |-> class, stamp |-> added + 1]

\* Mutant of add_scheme: the new scheme becomes the first.
add_scheme_first(n, class) ==
  /\ added < MaxAdded
  /\ added' = added + 1
  /\ first_scheme' = <<New(n, class)>> \o first_scheme
  /\ UNCHANGED <<registered, calls, context, opened, received>>

add_scheme(n, class) ==
  /\ added < MaxAdded
  /\ added' = added + 1
  /\ first_scheme' = Append(first_scheme, New(n, class))
  /\ UNCHANGED <<registered, calls, context, opened, received>>

\* The position of the first scheme that one of the names names, or 0.
FirstOf(names) == SelectInSeq(first_scheme, LAMBDA s : s.name \in names)

\* strncmp compares only as many bytes as the scheme's name has: what is
\* removed is the first scheme that the given name begins with.
Removed(n) == FirstOf({m \in Name : <<n, m>> \in Begins})

\* Mutant of remove_scheme: the rest of the list is not linked again.
remove_scheme_cutting(n) ==
  /\ Removed(n) > 0
  /\ first_scheme' = SubSeq(first_scheme, 1, Removed(n) - 1)
  /\ UNCHANGED <<registered, added, calls, context, opened, received>>

remove_scheme(n) ==
  /\ Removed(n) > 0
  /\ first_scheme' = RemoveAt(first_scheme, Removed(n))
  /\ UNCHANGED <<registered, added, calls, context, opened, received>>

-----------------------------------------------------------------------------
(* Reading a document.                                                     *)

ic_match(f) == FirstOf({n \in Name : <<f, n>> \in Serves})

\* libxml2 calls ic_match and, when that succeeds, at once ic_open, which
\* searches again and allocates before it calls document_query.
ic_open(f, c) ==
  /\ registered
  /\ ~context[c].used
  /\ ic_match(f) > 0
  /\ context' = [context EXCEPT ![c] = [Unused EXCEPT !.used = TRUE]]
  /\ received' = [received EXCEPT ![c] = <<>>]
  /\ calls' = calls \cup {[context |-> c, file |-> f,
                           class |-> first_scheme[ic_match(f)].class]}
  /\ UNCHANGED <<registered, first_scheme, added, opened>>

\* document_query returns a string of size bytes, the first length of which
\* precede any NUL: those are duplicated into the buffer.
document_query_returns(k, size, length) ==
  /\ k \in calls
  /\ length <= size
  /\ context' = [context EXCEPT ![k.context].size = size, ![k.context].remaining = length]
  /\ calls' = calls \ {k}
  /\ opened' = opened \cup {k.context}
  /\ UNCHANGED <<registered, first_scheme, added, received>>

\* document_query raises, or what it returns is no string: the exception
\* leaves ic_open, which frees nothing.
document_query_raises(k) ==
  /\ k \in calls
  /\ calls' = calls \ {k}
  /\ UNCHANGED <<registered, first_scheme, added, context, opened, received>>

\* A read of ret_len bytes after which the buffer continues at bpos.
Read(c, ret_len, bpos) ==
  /\ c \in opened
  /\ ~context[c].ended
  /\ context' = [context EXCEPT ![c].remaining = @ - ret_len, ![c].bpos = bpos,
                                ![c].ended = ret_len = 0]
  /\ received' = [received EXCEPT ![c] = @ \o [i \in 1..ret_len |-> context[c].bpos + i]]
  /\ UNCHANGED <<registered, first_scheme, added, calls, opened>>

\* Mutants of ic_read: bpos stays; remaining is not looked at.
ic_read_again(c, len) ==
  Read(c, IF len >= context[c].remaining THEN context[c].remaining ELSE len, context[c].bpos)

ic_read_past(c, len) == Read(c, len, context[c].bpos + len)

\* libxml2 reads on until a read returns 0.
ic_read(c, len) ==
  LET ret_len == IF len >= context[c].remaining THEN context[c].remaining ELSE len
  IN Read(c, ret_len, context[c].bpos + ret_len)

\* Mutant of ic_close: the buffer is freed, the context itself is not.
ic_close_buffer(c) ==
  /\ c \in opened
  /\ opened' = opened \ {c}
  /\ context' = [context EXCEPT ![c].remaining = 0]
  /\ UNCHANGED <<registered, first_scheme, added, calls, received>>

\* libxml2 closes an input when it has read it, or has given up.
ic_close(c) ==
  /\ c \in opened
  /\ opened' = opened \ {c}
  /\ context' = [context EXCEPT ![c] = Unused]
  /\ received' = [received EXCEPT ![c] = <<>>]
  /\ UNCHANGED <<registered, first_scheme, added, calls>>

-----------------------------------------------------------------------------
(* Usage rules, which the code does not enforce.                           *)

\* "no_nul": documents have no NUL byte.
NoNul(size, length) == "no_nul" \in Rules => length = size

Next ==
  \/ register_input_callbacks
  \/ \E n \in Name, class \in Class : add_scheme(n, class)
  \/ \E n \in Name : remove_scheme(n)
  \/ \E f \in File, c \in Context : ic_open(f, c)
  \/ \E k \in calls, size, length \in Size :
       NoNul(size, length) /\ document_query_returns(k, size, length)
  \/ \E k \in calls : document_query_raises(k)
  \/ \E c \in Context, len \in 1..MaxSize : ic_read(c, len)
  \/ \E c \in Context : ic_close(c)

Spec == Init /\ [][Next]_vars

-----------------------------------------------------------------------------
(* Properties.                                                             *)

\* What is left to read never becomes negative, whatever buffers libxml2
\* asks to be filled, and the list holds schemes only.
InputTypeOK ==
  /\ registered \in BOOLEAN
  /\ first_scheme \in Seq(Scheme)
  /\ added \in 0..MaxAdded
  /\ calls \subseteq [context : Context, file : File, class : Class]
  /\ context \in [Context -> ContextRecord]
  /\ opened \subseteq Context
  /\ received \in [Context -> Seq(1..MaxSize)]

\* The schemes that serve f, and the class of the one added first.
Candidates(f) == {s \in Range(first_scheme) : <<f, s.name>> \in Serves}

Oldest(S) == CHOOSE s \in S : \A t \in S : s.stamp <= t.stamp

Server(f) == IF Candidates(f) = {} THEN {} ELSE {Oldest(Candidates(f)).class}

\* A document is asked of the scheme that was added first among those
\* present that its name begins with, after any series of additions and
\* removals (ic_open walks the list that add_scheme appends to).
FirstAddedServes == [][\A k \in calls' \ calls : {k.class} = Server(k.file)]_vars

\* Removing a scheme changes which class is asked for a document only where
\* the name of the scheme that served it is one the removed name begins with:
\* its own, or, because of the prefix strncmp compares, a shorter one (the
\* relinking of remove_scheme).
OthersStay ==
  [][\A n \in Name : remove_scheme(n) =>
       \A f \in File : Server(f)' # Server(f) =>
         Candidates(f) # {} /\ <<n, Oldest(Candidates(f)).name>> \in Begins]_vars

\* However many documents are read at once and in whatever pieces, libxml2
\* gets each byte of a document once and in order, and has got it whole when
\* it is told that the document has ended, unless there are NUL bytes in it
\* (ic_read).
ReadInOrder ==
  \A c \in opened : /\ Len(received[c]) <= context[c].size
                    /\ \A i \in DOMAIN received[c] : received[c][i] = i
                    /\ context[c].ended => Len(received[c]) = context[c].size

\* A context in use is libxml2's, which closes it, or that of a call of
\* document_query under way.
Kept(c) == c \in opened \/ \E k \in calls : k.context = c

\* No context is lost, with its buffer, unless document_query raises.
NoContextLost ==
  [][\A c \in Context :
       (Kept(c) /\ context'[c].used /\ ~Kept(c)')
         => \E k \in calls : k.context = c /\ document_query_raises(k)]_vars
=============================================================================
